---------------------------- MODULE ScrapeWorker -----------------------------
(***************************************************************************)
(* The scraper worker at work: scrapes, each of which reads its lists and  *)
(* then the details of its offers one after the other, over the browser    *)
(* that PlaywrightFetcher shares among them.                               *)
(*                                                                         *)
(* The API sends one scrape at a time, but stops waiting for an answer     *)
(* after a while and goes on to the next; the worker does not notice and   *)
(* goes on as well.  Every await is a point where the others may run.      *)
(***************************************************************************)
EXTENDS Naturals, FiniteSets

CONSTANTS Scrapes,     \* the scrapes the API asks for are 1..Scrapes
          Pages,       \* Pages[s]: the list pages a scrape opens side by side
          Details,     \* Details[s]: offers it opens on the shared page
          MaxGiveUps,  \* bound: answers the API does not wait for
          MaxCrashes   \* bound: crashes of a browser

Scrape == 1..Scrapes
Detail == "detail"
None == 0

ASSUME ScrapeAssumption ==
  /\ Scrapes \in Nat /\ MaxGiveUps \in Nat /\ MaxCrashes \in Nat
  /\ \A s \in Scrape : Details[s] \in Nat /\ Detail \notin Pages[s]

\* The chains of awaits in the worker: one for each list page of a scrape,
\* and one for its details.
List == UNION {Pages[s] : s \in Scrape}
Task == Scrape \X (List \cup {Detail})
IsDetail(t) == t[2] = Detail
TasksOf(s) == {t \in Task : t[1] = s /\ t[2] \in Pages[s] \cup {Detail}}

VARIABLES waiting,     \* the scrape the API waits for, or None
          asked,       \* the scrapes asked for so far are 1..asked
          pc,          \* where a task is
          left,        \* offers a scrape has yet to open
          browser,     \* PlaywrightFetcher.browser, or None
          launches,    \* the browsers launched so far are 1..launches
          running,     \* those of them that run
          context,     \* the open contexts, each with its browser, the offer its
                       \* page shows and the task that last sent it somewhere
          detailPage,  \* PlaywrightFetcher.detailPage (by its context), or NoPage
          via,         \* the browser a task opens a context in
          mine,        \* the context whose page a task works with
          gaveUp, crashes,
          raced,       \* history: two tasks launched a browser at once
          shared,      \* history: two scrapes were underway at once
          mixed        \* history: an extractor ran on another offer's page

api == <<waiting, asked, gaveUp, shared>>
fetcher == <<browser, launches, running, context, detailPage>>
vars == <<api, pc, left, fetcher, via, mine, crashes, raced, mixed>>

\* Offer n of scrape s, counted down.
Offer(s) == <<s, left[s]>>
Blank == <<0, 0>>
NoPage == << >>

\* A task opens at most one context for an offer, and a list has one.
ContextOf(t) == <<t, left[t[1]]>>

TypeOK ==
  /\ waiting \in Scrape \cup {None} /\ asked \in 0..Scrapes
  /\ pc \in [Task -> {"idle", "launching", "opening", "blank", "using",
                      "going", "reading", "done"}]
  /\ left \in [Scrape -> Nat] /\ \A s \in Scrape : left[s] <= Details[s]
  /\ launches \in Nat
  /\ browser \in 0..launches /\ running \subseteq 1..launches
  /\ \A c \in DOMAIN context :
       /\ context[c].browser \in running /\ context[c].going \in Task
       /\ IsDetail(c[1]) \/ pc[c[1]] = "using"
  /\ via \in [Task -> 0..launches]
  /\ \A t \in Task : pc[t] \in {"using", "going", "reading"} => mine[t] # NoPage
  /\ gaveUp \in 0..MaxGiveUps /\ crashes \in 0..MaxCrashes
  /\ {raced, shared, mixed} \subseteq BOOLEAN

Init ==
  /\ waiting = None /\ asked = 0
  /\ pc = [t \in Task |-> "idle"]
  /\ left = [s \in Scrape |-> Details[s]]
  /\ browser = None /\ launches = 0 /\ running = {}
  /\ context = << >> /\ detailPage = NoPage
  /\ via = [t \in Task |-> None]
  /\ mine = [t \in Task |-> NoPage]
  /\ gaveUp = 0 /\ crashes = 0
  /\ raced = FALSE /\ shared = FALSE /\ mixed = FALSE

Ended(s) == \A t \in TasksOf(s) : pc[t] = "done"
Underway(s) == s <= asked /\ ~Ended(s)

-----------------------------------------------------------------------------
(* The API *)

\* getBrowser: the browser there is, or a launch.
GetBrowser(tasks) ==
  /\ via' = [t \in Task |-> IF t \in tasks THEN browser ELSE via[t]]
  /\ raced' = (raced \/ LET launching == {t \in Task : pc[t] = "launching"} \cup tasks
                        IN  browser = None /\ \E t, u \in launching : t # u)

Awaited == IF browser = None THEN "launching" ELSE "opening"

\* The next scrape is asked for.  Its lists begin side by side.
Ask ==
  LET s == asked + 1
      lists == TasksOf(s) \ {<<s, Detail>>}
  IN  /\ waiting = None /\ asked < Scrapes
      /\ waiting' = s /\ asked' = s
      /\ pc' = [t \in Task |-> IF t \in lists THEN Awaited ELSE pc[t]]
      /\ GetBrowser(lists)
      /\ shared' = (shared \/ \E r \in Scrape : Underway(r))
      /\ UNCHANGED <<left, fetcher, mine, gaveUp, crashes, mixed>>

\* The answer arrives.
Answer ==
  /\ waiting # None /\ Ended(waiting)
  /\ waiting' = None
  /\ UNCHANGED <<asked, pc, left, fetcher, via, mine, gaveUp, crashes, raced, shared, mixed>>

\* The API waits no longer.
GiveUp ==
  /\ waiting # None /\ gaveUp < MaxGiveUps
  /\ waiting' = None
  /\ gaveUp' = gaveUp + 1
  /\ UNCHANGED <<asked, pc, left, fetcher, via, mine, crashes, raced, shared, mixed>>

-----------------------------------------------------------------------------
(* The worker *)

(* Faulty variants: <definition>_<fault> is not part of the specification; *)
(* it stands for a plausible mistake in the code that a property catches.  *)

Step(t, at, to) == pc[t] = at /\ pc' = [pc EXCEPT ![t] = to]
quiet == <<api, crashes, mixed>>

\* The page of context c is sent to an offer's address by task t.
GoTo(t, c) ==
  /\ mine' = [mine EXCEPT ![t] = c]
  /\ context' = IF c \in DOMAIN context THEN [context EXCEPT ![c].going = t] ELSE context

\* The lists are read, in full or not: the next offer is opened.
NextOffer(s) ==
  LET t == <<s, Detail>>
  IN  /\ s <= asked /\ left[s] > 0
      /\ \A u \in TasksOf(s) \ {t} : pc[u] = "done"
      /\ Step(t, "idle", IF detailPage = NoPage THEN Awaited ELSE "going")
      /\ IF detailPage = NoPage
         THEN GetBrowser({t}) /\ UNCHANGED <<mine, context>>
         ELSE GoTo(t, detailPage) /\ UNCHANGED <<via, raced>>
      /\ UNCHANGED <<quiet, left, browser, launches, running, detailPage>>

\* There is no further offer: the scrape has ended.
NoMoreOffers(s) ==
  LET t == <<s, Detail>>
  IN  /\ s <= asked /\ left[s] = 0
      /\ \A u \in TasksOf(s) \ {t} : pc[u] = "done"
      /\ Step(t, "idle", "done")
      /\ UNCHANGED <<quiet, left, fetcher, via, mine, raced>>

\* The field stays as it was.
Launched_Forgotten(t) ==
  /\ Step(t, "launching", "opening")
  /\ launches' = launches + 1
  /\ running' = running \cup {launches + 1}
  /\ via' = [via EXCEPT ![t] = launches + 1]
  /\ UNCHANGED <<quiet, left, browser, context, detailPage, mine, raced>>

\* The launched browser is the browser from now on.
Launched(t) ==
  /\ Step(t, "launching", "opening")
  /\ launches' = launches + 1
  /\ running' = running \cup {launches + 1} /\ browser' = launches + 1
  /\ via' = [via EXCEPT ![t] = launches + 1]
  /\ UNCHANGED <<quiet, left, context, detailPage, mine, raced>>

\* newContext: a context of the browser in hand.
Opened(t) ==
  /\ via[t] \in running
  /\ Step(t, "opening", IF IsDetail(t) THEN "blank" ELSE "using")
  /\ context' = [c \in DOMAIN context \cup {ContextOf(t)} |->
                   IF c = ContextOf(t) THEN [browser |-> via[t], shows |-> Blank, going |-> t]
                   ELSE context[c]]
  /\ mine' = [mine EXCEPT ![t] = ContextOf(t)]
  /\ via' = [via EXCEPT ![t] = None]
  /\ UNCHANGED <<quiet, left, browser, launches, running, detailPage, raced>>

\* newPage: the page in it is the shared page from now on.
PageOpened(t) ==
  /\ mine[t] \in DOMAIN context
  /\ Step(t, "blank", "going")
  /\ detailPage' = mine[t]
  /\ GoTo(t, mine[t])
  /\ UNCHANGED <<quiet, left, browser, launches, running, via, raced>>

\* The extractor does not wait for the page.
Arrived_Early(t) ==
  /\ mine[t] \in DOMAIN context /\ context[mine[t]].going = t
  /\ Step(t, "going", "reading")
  /\ mine' = [mine EXCEPT ![t] = detailPage]
  /\ UNCHANGED <<quiet, left, fetcher, via, raced>>

\* The page has arrived, unless it was sent elsewhere meanwhile; the extractor
\* is given the page that is the shared one by now.
Arrived(t) ==
  /\ mine[t] \in DOMAIN context /\ context[mine[t]].going = t
  /\ Step(t, "going", "reading")
  /\ context' = [context EXCEPT ![mine[t]].shows = Offer(t[1])]
  /\ mine' = [mine EXCEPT ![t] = detailPage]
  /\ UNCHANGED <<quiet, left, browser, launches, running, detailPage, via, raced>>

\* The extractor reads the page as it is now, and the offer is done with.
Extract(t) ==
  LET s == t[1]
  IN  /\ mine[t] \in DOMAIN context
      /\ Step(t, "reading", "idle")
      /\ mixed' = (mixed \/ context[mine[t]].shows # Offer(s))
      /\ left' = [left EXCEPT ![s] = @ - 1]
      /\ mine' = [mine EXCEPT ![t] = NoPage]
      /\ UNCHANGED <<api, crashes, fetcher, via, raced>>

\* Only a list that was read to the end is closed.
LeaveList_NoFinally(t) ==
  /\ pc[t] \in {"launching", "opening", "using"} /\ ~IsDetail(t)
  /\ pc' = [pc EXCEPT ![t] = "done"]
  /\ context' \in {context, [c \in DOMAIN context \ {mine[t]} |-> context[c]]}
  /\ via' = [via EXCEPT ![t] = None] /\ mine' = [mine EXCEPT ![t] = NoPage]
  /\ UNCHANGED <<quiet, left, browser, launches, running, detailPage, raced>>

\* A list is done with, or a step on the way failed: its context, if there is
\* one, is closed either way.
LeaveList(t) ==
  /\ pc[t] \in {"launching", "opening", "using"} /\ ~IsDetail(t)
  /\ pc' = [pc EXCEPT ![t] = "done"]
  /\ context' = [c \in DOMAIN context \ {mine[t]} |-> context[c]]
  /\ via' = [via EXCEPT ![t] = None] /\ mine' = [mine EXCEPT ![t] = NoPage]
  /\ UNCHANGED <<quiet, left, browser, launches, running, detailPage, raced>>

DetailUnderway(t) ==
  IsDetail(t) /\ pc[t] \in {"launching", "opening", "blank", "going", "reading"}

\* A failed offer is tried again.
DetailFails_Again(t) ==
  /\ DetailUnderway(t)
  /\ pc' = [pc EXCEPT ![t] = "idle"]
  /\ via' = [via EXCEPT ![t] = None] /\ mine' = [mine EXCEPT ![t] = NoPage]
  /\ UNCHANGED <<quiet, left, fetcher, raced>>

\* A step towards an offer failed: there is no detail of it, and whatever was
\* opened for it stays open.
DetailFails(t) ==
  /\ DetailUnderway(t)
  /\ pc' = [pc EXCEPT ![t] = "idle"]
  /\ left' = [left EXCEPT ![t[1]] = @ - 1]
  /\ via' = [via EXCEPT ![t] = None] /\ mine' = [mine EXCEPT ![t] = NoPage]
  /\ UNCHANGED <<quiet, fetcher, raced>>

\* A browser crashes, and its contexts with it.  The field keeps it.
Crash(b) ==
  /\ b \in running /\ crashes < MaxCrashes
  /\ crashes' = crashes + 1
  /\ running' = running \ {b}
  /\ context' = [c \in {d \in DOMAIN context : context[d].browser # b} |-> context[c]]
  /\ UNCHANGED <<api, pc, left, browser, launches, detailPage, via, mine, raced, mixed>>

TaskStep(t) ==
  \/ Launched(t) \/ Opened(t)
  \/ PageOpened(t) \/ Arrived(t) \/ Extract(t)
  \/ LeaveList(t) \/ DetailFails(t)

Work(s) == NextOffer(s) \/ NoMoreOffers(s) \/ \E t \in TasksOf(s) : TaskStep(t)

Next ==
  \/ Ask \/ Answer \/ GiveUp
  \/ \E s \in Scrape : Work(s)
  \/ \E b \in running : Crash(b)

\* Every await of the worker settles, at the latest at its timeout, and the
\* API goes on when it has an answer.
Fairness ==
  /\ WF_vars(Ask) /\ WF_vars(Answer)
  /\ \A s \in Scrape :
       /\ WF_vars(NextOffer(s) \/ NoMoreOffers(s))
       /\ \A t \in TasksOf(s) : WF_vars(TaskStep(t))

Spec == Init /\ [][Next]_vars /\ Fairness

-----------------------------------------------------------------------------
\* One browser serves every scrape, unless two pages asked for the first one
\* at the same time: nothing closes the one that came second to the field.
OneBrowserUnlessRaced == Cardinality(running) <= 1 \/ raced

\* An extractor that runs on another offer's page does so because two scrapes
\* were underway at once: the API had stopped waiting for one of them.
MixedOnlyWhenShared == mixed => shared

\* Every scrape the API asks for comes to an end, whatever fails.
ScrapesEnd == \A s \in Scrape : asked >= s ~> Ended(s)
=============================================================================
