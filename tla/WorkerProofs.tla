----------------------------- MODULE WorkerProofs -----------------------------
(***************************************************************************)
(* Theorems about the two halves of the scraper worker: ScrapeWorker, its  *)
(* browser under overlapping scrapes, and PortalCrawl, the paging loops of *)
(* its strategies (in the second half of the module).                      *)
(*                                                                         *)
(* First ScrapeWorker, for every number of scrapes, every set of list      *)
(* pages and every number of offers, give-ups and crashes.                 *)
(*                                                                         *)
(* That there is one browser rests on what the launches underway find when *)
(* they end: until the first one has, the field is empty and nothing runs  *)
(* (OneLaunch).  That an extractor reads its own offer rests on the shared *)
(* page staying where the one scrape underway sent it (OneScrape), and on  *)
(* no list ever taking the place of its context (PagesApart).              *)
(***************************************************************************)
EXTENDS ScrapeWorker, PortalCrawl, FiniteSetTheorems, SequenceTheorems, TLAPS

\* The contexts are named by the task they were opened for and the offers
\* that were left.
Key == Task \X Nat
Visit == [browser : Nat, shows : Nat \X Nat, going : Task]

\* A task that has begun is one of a scrape asked for, and a detail underway
\* is that of an offer left.
TasksPlaced ==
  \A t \in Task :
    /\ pc[t] # "idle" => t[1] <= asked /\ t \in TasksOf(t[1])
    /\ pc[t] \in {"blank", "going", "reading"} => IsDetail(t)
    /\ pc[t] = "using" => ~IsDetail(t)
    /\ DetailUnderway(t) => left[t[1]] > 0

\* The pages in hand are those of contexts that have been; the context of a
\* list is the one its task has in hand.
PagesApart ==
  /\ context \in [DOMAIN context -> Visit] /\ DOMAIN context \subseteq Key
  /\ mine \in [Task -> Key \cup {NoPage}]
  /\ detailPage # NoPage => detailPage \in Key /\ IsDetail(detailPage[1])
  /\ \A c \in DOMAIN context : IsDetail(c[1]) \/ mine[c[1]] = c
  /\ \A t \in Task :
       /\ pc[t] = "blank" => mine[t] # NoPage
       /\ pc[t] = "going" => detailPage # NoPage
       /\ IsDetail(t) /\ mine[t] # NoPage => IsDetail(mine[t][1])

\* Unless two launches overlapped there is one browser at most, and while a
\* launch is underway there is none.
OneLaunch ==
  ~raced =>
    /\ running \subseteq {browser}
    /\ \A t, u \in Task : pc[t] = "launching" /\ pc[u] = "launching" => t = u
    /\ (\E t \in Task : pc[t] = "launching") => browser = None

\* Unless two scrapes overlapped the page that a detail waits for is the
\* shared page, and the page that it reads shows its offer.
OneScrape ==
  ~shared =>
    /\ ~mixed
    /\ \A r, s \in Scrape : Underway(r) /\ Underway(s) => r = s
    /\ \A t \in Task :
         /\ pc[t] = "going" => mine[t] = detailPage
         /\ pc[t] = "reading" /\ mine[t] \in DOMAIN context =>
              context[mine[t]].shows = Offer(t[1])

IInv == TypeOK /\ TasksPlaced /\ PagesApart /\ OneLaunch /\ OneScrape

-----------------------------------------------------------------------------
(* Tasks *)

\* A task is named by its scrape and its page; a scrape has one for its details.
LEMMA TaskFacts ==
  /\ \A t \in Task : t[1] \in Scrape /\ (IsDetail(t) => t = <<t[1], Detail>>)
  /\ \A s \in Scrape : <<s, Detail>> \in TasksOf(s) /\ IsDetail(<<s, Detail>>)
  /\ \A s \in Scrape : \A t \in TasksOf(s) : t \in Task /\ t[1] = s
<1>1. \A t \in Task : t[1] \in Scrape /\ (IsDetail(t) => t = <<t[1], Detail>>)
  BY DEF Task, IsDetail
<1>2. \A s \in Scrape : <<s, Detail>> \in TasksOf(s) /\ IsDetail(<<s, Detail>>)
  BY DEF Task, TasksOf, IsDetail
<1>3. \A s \in Scrape : \A t \in TasksOf(s) : t \in Task /\ t[1] = s
  BY DEF TasksOf
<1> QED BY <1>1, <1>2, <1>3

\* A context's name is not the absence of one.
LEMMA KeyFacts == \A c \in Key : c # NoPage /\ c[1] \in Task
BY DEF Key, NoPage

\* A task that has begun and not ended keeps its scrape underway.
LEMMA BusyUnderway ==
  ASSUME TasksPlaced, NEW t \in Task, pc[t] \notin {"idle", "done"}
  PROVE  Underway(t[1])
BY DEF TasksPlaced, Underway, Ended

\* Nothing that has ended begins again, so no scrape but one asked for gets
\* underway.
LEMMA UnderwayShrinks ==
  ASSUME asked' = asked, \A t \in Task : pc[t] = "done" => pc'[t] = "done"
  PROVE  \A r \in Scrape : Underway(r)' => Underway(r)
BY TaskFacts DEF Underway, Ended

\* Without overlaps there is one detail underway.
LEMMA OneDetail ==
  ASSUME TasksPlaced, OneScrape, ~shared,
         NEW t \in Task, DetailUnderway(t), NEW u \in Task, DetailUnderway(u)
  PROVE  t = u
<1>1. Underway(t[1]) /\ Underway(u[1])
  BY BusyUnderway DEF DetailUnderway
<1>2. t[1] = u[1]
  BY <1>1, TaskFacts DEF OneScrape
<1> QED BY <1>2, TaskFacts DEF DetailUnderway

LEMMA InitInv == Init => IInv
<1> SUFFICES ASSUME Init PROVE IInv
  OBVIOUS
<1> USE DEF Init
<1>1. DOMAIN context = {}
  OBVIOUS
<1>2. TypeOK
  <2>1. \A s \in Scrape : Details[s] \in Nat
    BY ScrapeAssumption
  <2>2. left \in [Scrape -> Nat] /\ \A s \in Scrape : left[s] <= Details[s]
    BY <2>1
  <2>3. via \in [Task -> 0..launches] /\ browser \in 0..launches /\ running \subseteq 1..launches
    BY DEF None
  <2>4. pc \in [Task -> {"idle", "launching", "opening", "blank", "using", "going", "reading", "done"}]
    OBVIOUS
  <2>5. \A t \in Task : pc[t] = "idle"
    OBVIOUS
  <2>6. asked \in 0..Scrapes /\ gaveUp \in 0..MaxGiveUps /\ crashes \in 0..MaxCrashes
    BY ScrapeAssumption
  <2>7. launches \in Nat /\ {raced, shared, mixed} \subseteq BOOLEAN /\ waiting \in Scrape \cup {None}
    OBVIOUS
  <2> QED BY <1>1, <2>2, <2>3, <2>4, <2>5, <2>6, <2>7 DEF TypeOK
<1>3. TasksPlaced
  BY DEF TasksPlaced, DetailUnderway
<1>4. PagesApart
  <2>1. context \in [DOMAIN context -> Visit] /\ DOMAIN context \subseteq Key
    BY <1>1
  <2> QED BY <1>1, <2>1 DEF PagesApart
<1>5. OneLaunch
  BY DEF OneLaunch
<1>6. OneScrape
  BY ScrapeAssumption DEF OneScrape, Underway, Scrape
<1> QED BY <1>2, <1>3, <1>4, <1>5, <1>6 DEF IInv

-----------------------------------------------------------------------------
(* The API *)

LEMMA AnswerInv == ASSUME IInv, Answer \/ GiveUp PROVE IInv'
<1>1. waiting' = None
  BY DEF Answer, GiveUp
<1>2. gaveUp' = gaveUp \/ (gaveUp < MaxGiveUps /\ gaveUp' = gaveUp + 1)
  BY DEF Answer, GiveUp
<1>3. UNCHANGED <<asked, pc, left, fetcher, via, mine, crashes, raced, shared, mixed>>
  BY DEF Answer, GiveUp
<1> USE <1>3 DEF fetcher
<1>4. TypeOK'
  <2>1. gaveUp' \in 0..MaxGiveUps
    BY <1>2, ScrapeAssumption DEF IInv, TypeOK
  <2> QED BY <1>1, <2>1 DEF IInv, TypeOK
<1>5. TasksPlaced'
  BY DEF IInv, TasksPlaced, DetailUnderway
<1>6. PagesApart' /\ OneLaunch'
  BY DEF IInv, PagesApart, OneLaunch
<1>7. OneScrape'
  BY DEF IInv, OneScrape, Underway, Ended, Offer
<1> QED BY <1>4, <1>5, <1>6, <1>7 DEF IInv

LEMMA AskInv == ASSUME IInv, Ask PROVE IInv'
<1> DEFINE s == asked + 1
           lists == TasksOf(s) \ {<<s, Detail>>}
<1>1. /\ s \in Scrape /\ waiting' = s /\ asked' = s
      /\ pc' = [t \in Task |-> IF t \in lists THEN Awaited ELSE pc[t]]
      /\ GetBrowser(lists)
      /\ shared' = (shared \/ \E r \in Scrape : Underway(r))
      /\ UNCHANGED <<left, browser, launches, running, context, detailPage, mine, gaveUp, crashes, mixed>>
  BY ScrapeAssumption DEF Ask, IInv, TypeOK, fetcher, Scrape
<1>2. \A t \in lists : t \in Task /\ t[1] = s /\ ~IsDetail(t) /\ t \in TasksOf(s) /\ pc[t] = "idle"
  <2>1. \A t \in lists : t \in Task /\ t[1] = s /\ ~IsDetail(t) /\ t \in TasksOf(s)
    BY <1>1, TaskFacts
  <2>2. asked \in Nat
    BY ScrapeAssumption DEF IInv, TypeOK
  <2> QED BY <2>1, <2>2 DEF IInv, TasksPlaced
<1>3. pc' \in [Task -> {"idle", "launching", "opening", "blank", "using", "going", "reading", "done"}]
  BY <1>1 DEF Awaited, IInv, TypeOK
<1>4. \A t \in Task : pc'[t] = IF t \in lists THEN Awaited ELSE pc[t]
  BY <1>1
<1>5. Awaited \in {"launching", "opening"}
  BY DEF Awaited
<1>6. TypeOK'
  <2>1. via' \in [Task -> 0..launches]
    BY <1>1 DEF GetBrowser, IInv, TypeOK
  <2>2. raced' \in BOOLEAN /\ shared' \in BOOLEAN
    BY <1>1 DEF GetBrowser, IInv, TypeOK
  <2>3. asked' \in 0..Scrapes
    BY <1>1, ScrapeAssumption DEF Scrape
  <2>4. \A c \in DOMAIN context : context[c].browser \in running /\ context[c].going \in Task
    BY DEF IInv, TypeOK
  <2>5. \A c \in DOMAIN context : IsDetail(c[1]) \/ pc'[c[1]] = "using"
    <3> SUFFICES ASSUME NEW c \in DOMAIN context, ~IsDetail(c[1]) PROVE pc'[c[1]] = "using"
      OBVIOUS
    <3>1. c[1] \in Task /\ pc[c[1]] = "using"
      BY KeyFacts DEF IInv, TypeOK, PagesApart
    <3> QED BY <3>1, <1>2, <1>4
  <2>6. \A t \in Task : pc'[t] \in {"using", "going", "reading"} => mine[t] # NoPage
    BY <1>4, <1>5 DEF IInv, TypeOK
  <2> QED BY <1>1, <1>3, <2>1, <2>2, <2>3, <2>4, <2>5, <2>6 DEF IInv, TypeOK
<1>7. TasksPlaced'
  <2> SUFFICES ASSUME NEW t \in Task
               PROVE  /\ pc'[t] # "idle" => t[1] <= asked' /\ t \in TasksOf(t[1])
                      /\ pc'[t] \in {"blank", "going", "reading"} => IsDetail(t)
                      /\ pc'[t] = "using" => ~IsDetail(t)
                      /\ (IsDetail(t) /\ pc'[t] \in {"launching", "opening", "blank", "going", "reading"})
                           => left[t[1]] > 0
    BY <1>1 DEF TasksPlaced, DetailUnderway
  <2>1. CASE t \in lists
    BY <2>1, <1>1, <1>2, <1>4, <1>5 DEF Scrape
  <2>2. CASE t \notin lists
    <3>1. t[1] \in Nat /\ asked \in Nat /\ pc'[t] = pc[t]
      BY <2>2, <1>4, TaskFacts, ScrapeAssumption DEF Scrape, IInv, TypeOK
    <3> QED BY <3>1, <1>1 DEF IInv, TasksPlaced, DetailUnderway
  <2> QED BY <2>1, <2>2
<1>8. PagesApart'
  BY <1>1, <1>4, <1>5 DEF IInv, PagesApart
<1>9. OneLaunch'
  <2> SUFFICES ASSUME ~raced' PROVE OneLaunch'
    BY DEF OneLaunch
  <2>1. ~raced /\ ~(browser = None /\ \E t, u \in {t \in Task : pc[t] = "launching"} \cup lists : t # u)
    BY <1>1 DEF GetBrowser
  <2>2. \A t \in Task : pc'[t] = "launching" =>
          t \in {v \in Task : pc[v] = "launching"} \cup lists /\ browser = None
    BY <1>4, <2>1 DEF Awaited, IInv, OneLaunch
  <2>3. \A t, u \in Task : pc'[t] = "launching" /\ pc'[u] = "launching" => t = u
    BY <2>1, <2>2
  <2> QED BY <1>1, <2>1, <2>2, <2>3 DEF IInv, OneLaunch
<1>10. OneScrape'
  <2> SUFFICES ASSUME ~shared' PROVE OneScrape'
    BY DEF OneScrape
  <2>1. ~shared /\ \A r \in Scrape : ~Underway(r)
    BY <1>1 DEF IInv, TypeOK
  <2>2. \A r \in Scrape : Underway(r)' => r = s
    <3> SUFFICES ASSUME NEW r \in Scrape, Underway(r)', r # s PROVE FALSE
      OBVIOUS
    <3>1. r <= asked
      BY <1>1, ScrapeAssumption DEF Underway, Scrape, IInv, TypeOK
    <3>2. \A t \in TasksOf(r) : pc'[t] = pc[t]
      BY <1>2, <1>4, TaskFacts
    <3>3. Ended(r)
      BY <2>1, <3>1 DEF Underway
    <3> QED BY <3>2, <3>3 DEF Ended, Underway
  <2>3. \A t \in Task : pc'[t] \notin {"going", "reading"}
    <3> SUFFICES ASSUME NEW t \in Task, pc[t] \in {"going", "reading"} PROVE FALSE
      BY <1>4, <1>5
    <3> QED BY BusyUnderway, <2>1, TaskFacts DEF IInv
  <2> QED BY <1>1, <2>1, <2>2, <2>3 DEF IInv, OneScrape
<1> QED BY <1>6, <1>7, <1>8, <1>9, <1>10 DEF IInv

-----------------------------------------------------------------------------
(* The worker *)

Place == {"idle", "launching", "opening", "blank", "using", "going", "reading", "done"}

\* One task moves; no scrape gets underway by it, for nothing that is done moves.
LEMMA OneMoves ==
  ASSUME TypeOK, NEW t \in Task, NEW at \in Place, NEW to \in Place, Step(t, at, to)
  PROVE  /\ pc[t] = at /\ pc' \in [Task -> Place]
         /\ pc'[t] = to /\ \A u \in Task \ {t} : pc'[u] = pc[u]
BY DEF Step, TypeOK, Place

\* The parts of the invariant that a step leaves alone with what they speak of.
LEMMA SameLaunches ==
  ASSUME OneLaunch, UNCHANGED <<raced, browser>>, running' \subseteq running,
         \A t \in Task : pc'[t] = "launching" => pc[t] = "launching"
  PROVE  OneLaunch'
BY DEF OneLaunch

LEMMA NoMoreOffersInv ==
  ASSUME IInv, NEW s \in Scrape, NoMoreOffers(s) PROVE IInv'
<1> DEFINE t == <<s, Detail>>
<1>1. t \in Task /\ IsDetail(t) /\ t[1] = s /\ t \in TasksOf(s) /\ s <= asked
  BY TaskFacts DEF NoMoreOffers
<1>2. Step(t, "idle", "done") /\ UNCHANGED <<quiet, left, fetcher, via, mine, raced>>
  BY DEF NoMoreOffers
<1> HIDE DEF t
<1>3. /\ pc[t] = "idle" /\ pc' \in [Task -> Place]
      /\ pc'[t] = "done" /\ \A u \in Task \ {t} : pc'[u] = pc[u]
  BY <1>1, <1>2, OneMoves DEF IInv, Place
<1> USE <1>2 DEF quiet, fetcher, api
<1>4. TypeOK'
  <2>1. \A u \in Task : pc'[u] \in {"using", "going", "reading"} => mine[u] # NoPage
    BY <1>3 DEF IInv, TypeOK
  <2>2. \A c \in DOMAIN context : IsDetail(c[1]) \/ pc'[c[1]] = "using"
    BY <1>1, <1>3, KeyFacts DEF IInv, TypeOK, PagesApart
  <2> QED BY <1>3, <2>1, <2>2 DEF IInv, TypeOK, Place
<1>5. TasksPlaced'
  BY <1>1, <1>3 DEF IInv, TasksPlaced, DetailUnderway
<1>6. PagesApart'
  BY <1>3 DEF IInv, PagesApart
<1>7. OneLaunch'
  BY <1>1, <1>3, SameLaunches DEF IInv
<1>8. OneScrape'
  <2>1. \A r \in Scrape : Underway(r)' => Underway(r)
    BY <1>3, UnderwayShrinks
  <2> QED BY <1>1, <1>3, <2>1 DEF IInv, OneScrape, Offer
<1> QED BY <1>4, <1>5, <1>6, <1>7, <1>8 DEF IInv

LEMMA LaunchedInv ==
  ASSUME IInv, NEW t \in Task, Launched(t) PROVE IInv'
<1>1. /\ Step(t, "launching", "opening")
      /\ launches' = launches + 1
      /\ running' = running \cup {launches + 1} /\ browser' = launches + 1
      /\ via' = [via EXCEPT ![t] = launches + 1]
      /\ UNCHANGED <<waiting, asked, gaveUp, shared, crashes, mixed, left, context, detailPage, mine, raced>>
  BY DEF Launched, quiet, api
<1>2. /\ pc[t] = "launching" /\ pc' \in [Task -> Place]
      /\ pc'[t] = "opening" /\ \A u \in Task \ {t} : pc'[u] = pc[u]
  BY <1>1, OneMoves DEF IInv, Place
<1>3. TypeOK'
  <2>1. \A u \in Task : pc'[u] \in {"using", "going", "reading"} => mine[u] # NoPage
    BY <1>2 DEF IInv, TypeOK
  <2>2. \A c \in DOMAIN context : context[c].browser \in running' /\ context[c].going \in Task
    BY <1>1 DEF IInv, TypeOK
  <2>3. \A c \in DOMAIN context : IsDetail(c[1]) \/ pc'[c[1]] = "using"
    BY <1>2, KeyFacts DEF IInv, TypeOK, PagesApart
  <2>4. via' \in [Task -> 0..launches']
    BY <1>1 DEF IInv, TypeOK
  <2>5. launches' \in Nat /\ browser' \in 0..launches' /\ running' \subseteq 1..launches'
    BY <1>1 DEF IInv, TypeOK
  <2> QED BY <1>1, <1>2, <2>1, <2>2, <2>3, <2>4, <2>5 DEF IInv, TypeOK, Place
<1>4. TasksPlaced'
  BY <1>1, <1>2 DEF IInv, TasksPlaced, DetailUnderway
<1>5. PagesApart'
  BY <1>1, <1>2 DEF IInv, PagesApart
<1>6. OneLaunch'
  <2> SUFFICES ASSUME ~raced' PROVE OneLaunch'
    BY DEF OneLaunch
  <2>1. running \subseteq {None} /\ \A u \in Task : pc'[u] # "launching"
    BY <1>1, <1>2 DEF IInv, OneLaunch
  <2>2. running = {}
    BY <2>1 DEF IInv, TypeOK, None
  <2> QED BY <1>1, <2>1, <2>2 DEF OneLaunch
<1>7. OneScrape'
  <2>1. \A r \in Scrape : Underway(r)' => Underway(r)
    BY <1>1, <1>2, UnderwayShrinks
  <2> QED BY <1>1, <1>2, <2>1 DEF IInv, OneScrape, Offer
<1> QED BY <1>3, <1>4, <1>5, <1>6, <1>7 DEF IInv

LEMMA CrashInv ==
  ASSUME IInv, NEW b \in running, Crash(b) PROVE IInv'
<1>1. /\ crashes < MaxCrashes /\ crashes' = crashes + 1
      /\ running' = running \ {b}
      /\ context' = [c \in {d \in DOMAIN context : context[d].browser # b} |-> context[c]]
      /\ UNCHANGED <<waiting, asked, gaveUp, shared, pc, left, browser, launches, detailPage, via, mine, raced, mixed>>
  BY DEF Crash, api
<1>2. /\ DOMAIN context' = {c \in DOMAIN context : context[c].browser # b}
      /\ \A c \in DOMAIN context' : c \in DOMAIN context /\ context'[c] = context[c]
  BY <1>1
<1>3. TypeOK'
  <2>1. crashes' \in 0..MaxCrashes
    BY <1>1, ScrapeAssumption DEF IInv, TypeOK
  <2>2. \A c \in DOMAIN context' :
          /\ context'[c].browser \in running' /\ context'[c].going \in Task
          /\ IsDetail(c[1]) \/ pc[c[1]] = "using"
    BY <1>1, <1>2 DEF IInv, TypeOK
  <2> QED BY <1>1, <2>1, <2>2 DEF IInv, TypeOK
<1>4. TasksPlaced'
  BY <1>1 DEF IInv, TasksPlaced, DetailUnderway
<1>5. PagesApart'
  <2>1. context' \in [DOMAIN context' -> Visit] /\ DOMAIN context' \subseteq Key
    BY <1>1, <1>2 DEF IInv, PagesApart
  <2> QED BY <1>1, <1>2, <2>1 DEF IInv, PagesApart
<1>6. OneLaunch'
  BY <1>1, SameLaunches DEF IInv
<1>7. OneScrape'
  <2>1. \A r \in Scrape : Underway(r)' => Underway(r)
    BY <1>1, UnderwayShrinks
  <2> QED BY <1>1, <1>2, <2>1 DEF IInv, OneScrape, Offer
<1> QED BY <1>3, <1>4, <1>5, <1>6, <1>7 DEF IInv

\* The next offer is opened: in the shared page, or in a new context.
LEMMA NextOfferInv ==
  ASSUME IInv, NEW s \in Scrape, NextOffer(s) PROVE IInv'
<1> DEFINE t == <<s, Detail>>
           to == IF detailPage = NoPage THEN Awaited ELSE "going"
<1>1. t \in Task /\ IsDetail(t) /\ t[1] = s /\ t \in TasksOf(s) /\ s <= asked /\ left[s] > 0
  BY TaskFacts DEF NextOffer
<1>2. Step(t, "idle", to)
  BY DEF NextOffer
<1>3. \/ /\ detailPage = NoPage /\ GetBrowser({t}) /\ UNCHANGED <<mine, context>>
      \/ /\ detailPage # NoPage /\ GoTo(t, detailPage) /\ UNCHANGED <<via, raced>>
  BY DEF NextOffer
<1>4. UNCHANGED <<waiting, asked, gaveUp, shared, crashes, mixed, left, browser, launches, running, detailPage>>
  BY DEF NextOffer, quiet, api
<1>5. to \in Place
  BY DEF Awaited, Place
<1>6. detailPage = NoPage => to = Awaited /\ Awaited \in {"launching", "opening"}
  BY DEF Awaited
<1>7. detailPage # NoPage => to = "going"
  OBVIOUS
<1> HIDE DEF t, to
<1>8. /\ pc[t] = "idle" /\ pc' \in [Task -> Place]
      /\ pc'[t] = to /\ \A u \in Task \ {t} : pc'[u] = pc[u]
  BY <1>1, <1>2, <1>5, OneMoves DEF IInv, Place
<1>9. DOMAIN context' = DOMAIN context /\ context' \in [DOMAIN context -> Visit]
      /\ \A c \in DOMAIN context : /\ context'[c].browser = context[c].browser
                                   /\ context'[c].shows = context[c].shows
                                   /\ context'[c].going \in Task
  <2>1. context \in [DOMAIN context -> Visit]
    BY DEF IInv, PagesApart
  <2>2. CASE detailPage = NoPage
    BY <2>1, <2>2, <1>3 DEF Visit
  <2>3. CASE detailPage # NoPage
    <3>1. context' = IF detailPage \in DOMAIN context THEN [context EXCEPT ![detailPage].going = t] ELSE context
      BY <2>3, <1>3 DEF GoTo
    <3> QED BY <3>1, <2>1, <1>1 DEF Visit
  <2> QED BY <2>2, <2>3
<1>10. /\ detailPage = NoPage => mine' = mine
       /\ detailPage # NoPage => mine' = [mine EXCEPT ![t] = detailPage]
  BY <1>3 DEF GoTo
<1>11. mine' \in [Task -> Key \cup {NoPage}] /\ \A u \in Task \ {t} : mine'[u] = mine[u]
  BY <1>10 DEF IInv, PagesApart
<1>12. detailPage # NoPage => mine'[t] = detailPage
  BY <1>1, <1>10 DEF IInv, PagesApart
<1>13. TypeOK'
  <2>1. \A u \in Task : pc'[u] \in {"using", "going", "reading"} => mine'[u] # NoPage
    BY <1>6, <1>7, <1>8, <1>11, <1>12 DEF IInv, TypeOK
  <2>2. \A c \in DOMAIN context' :
          /\ context'[c].browser \in running /\ context'[c].going \in Task
          /\ IsDetail(c[1]) \/ pc'[c[1]] = "using"
    BY <1>1, <1>8, <1>9, KeyFacts DEF IInv, TypeOK, PagesApart
  <2>3. via' \in [Task -> 0..launches] /\ raced' \in BOOLEAN
    BY <1>3 DEF GetBrowser, IInv, TypeOK
  <2> QED BY <1>4, <1>8, <2>1, <2>2, <2>3 DEF IInv, TypeOK, Place
<1>14. TasksPlaced'
  <2> SUFFICES ASSUME NEW u \in Task
               PROVE  /\ pc'[u] # "idle" => u[1] <= asked /\ u \in TasksOf(u[1])
                      /\ pc'[u] \in {"blank", "going", "reading"} => IsDetail(u)
                      /\ pc'[u] = "using" => ~IsDetail(u)
                      /\ (IsDetail(u) /\ pc'[u] \in {"launching", "opening", "blank", "going", "reading"})
                           => left[u[1]] > 0
    BY <1>4 DEF TasksPlaced, DetailUnderway
  <2>1. CASE u = t
    BY <2>1, <1>1, <1>6, <1>7, <1>8
  <2>2. CASE u # t
    BY <2>2, <1>8 DEF IInv, TasksPlaced, DetailUnderway
  <2> QED BY <2>1, <2>2
<1>15. PagesApart'
  <2>1. \A c \in DOMAIN context' : IsDetail(c[1]) \/ mine'[c[1]] = c
    BY <1>1, <1>9, <1>11, KeyFacts DEF IInv, PagesApart
  <2>2. \A u \in Task :
          /\ pc'[u] = "blank" => mine'[u] # NoPage
          /\ pc'[u] = "going" => detailPage # NoPage
          /\ IsDetail(u) /\ mine'[u] # NoPage => IsDetail(mine'[u][1])
    <3> SUFFICES ASSUME NEW u \in Task
                 PROVE  /\ pc'[u] = "blank" => mine'[u] # NoPage
                        /\ pc'[u] = "going" => detailPage # NoPage
                        /\ IsDetail(u) /\ mine'[u] # NoPage => IsDetail(mine'[u][1])
      OBVIOUS
    <3>1. CASE u # t
      BY <3>1, <1>8, <1>11 DEF IInv, PagesApart
    <3>2. CASE u = t /\ detailPage = NoPage
      BY <3>2, <1>6, <1>8, <1>10 DEF IInv, PagesApart
    <3>3. CASE u = t /\ detailPage # NoPage
      BY <3>3, <1>7, <1>8, <1>12 DEF IInv, PagesApart
    <3> QED BY <3>1, <3>2, <3>3
  <2> QED BY <1>4, <1>9, <1>11, <2>1, <2>2 DEF IInv, PagesApart
<1>16. OneLaunch'
  <2>1. CASE detailPage # NoPage
    BY <2>1, <1>3, <1>4, <1>7, <1>8, SameLaunches DEF IInv
  <2>2. CASE detailPage = NoPage
    <3> SUFFICES ASSUME ~raced' PROVE OneLaunch'
      BY DEF OneLaunch
    <3>1. ~raced /\ ~(browser = None /\ \E v, u \in {v \in Task : pc[v] = "launching"} \cup {t} : v # u)
      BY <1>3, <2>2 DEF GetBrowser
    <3>2. \A u \in Task : pc'[u] = "launching" =>
            u \in {v \in Task : pc[v] = "launching"} \cup {t} /\ browser = None
      BY <1>6, <1>8, <2>2, <3>1 DEF Awaited, IInv, OneLaunch
    <3>3. \A v, u \in Task : pc'[v] = "launching" /\ pc'[u] = "launching" => v = u
      BY <3>1, <3>2
    <3> QED BY <1>4, <3>1, <3>2, <3>3 DEF IInv, OneLaunch
  <2> QED BY <2>1, <2>2
<1>17. OneScrape'
  <2> SUFFICES ASSUME ~shared PROVE OneScrape'
    BY <1>4 DEF OneScrape
  <2>1. \A r \in Scrape : Underway(r)' => Underway(r)
    BY <1>4, <1>8, UnderwayShrinks
  <2>2. \A u \in Task : pc'[u] = "going" => mine'[u] = detailPage
    BY <1>6, <1>7, <1>8, <1>11, <1>12 DEF IInv, OneScrape
  <2>3. \A u \in Task : pc'[u] = "reading" /\ mine'[u] \in DOMAIN context' =>
          context'[mine'[u]].shows = Offer(u[1])
    <3> SUFFICES ASSUME NEW u \in Task, pc'[u] = "reading", mine'[u] \in DOMAIN context'
                 PROVE  context'[mine'[u]].shows = Offer(u[1])
      OBVIOUS
    <3>1. u # t /\ pc[u] = "reading" /\ mine'[u] = mine[u]
      BY <1>6, <1>7, <1>8, <1>11
    <3> QED BY <3>1, <1>9 DEF IInv, OneScrape
  <2> QED BY <1>4, <2>1, <2>2, <2>3 DEF IInv, OneScrape, Offer
<1> QED BY <1>13, <1>14, <1>15, <1>16, <1>17 DEF IInv

\* Opened names its context apart from those that are open.
LEMMA OpenedInv ==
  ASSUME IInv, NEW t \in Task, Opened(t) PROVE IInv'
<1> DEFINE to == IF IsDetail(t) THEN "blank" ELSE "using"
           k == ContextOf(t)
<1>1. /\ via[t] \in running
      /\ Step(t, "opening", to)
      /\ context' = [c \in DOMAIN context \cup {k} |->
                       IF c = k THEN [browser |-> via[t], shows |-> Blank, going |-> t] ELSE context[c]]
      /\ mine' = [mine EXCEPT ![t] = k]
      /\ via' = [via EXCEPT ![t] = None]
      /\ UNCHANGED <<waiting, asked, gaveUp, shared, crashes, mixed, left, browser, launches, running, detailPage, raced>>
  BY DEF Opened, quiet, api
<1>2. to \in Place /\ (IsDetail(t) => to = "blank") /\ (~IsDetail(t) => to = "using")
  BY DEF Place
<1>3. k \in Key /\ k[1] = t /\ k # NoPage
  <2>1. left[t[1]] \in Nat
    BY TaskFacts DEF IInv, TypeOK
  <2> QED BY <2>1, KeyFacts DEF Key, ContextOf
<1> HIDE DEF to, k
<1>4. /\ pc[t] = "opening" /\ pc' \in [Task -> Place]
      /\ pc'[t] = to /\ \A u \in Task \ {t} : pc'[u] = pc[u]
  BY <1>1, <1>2, OneMoves DEF IInv, Place
<1>5. /\ DOMAIN context' = DOMAIN context \cup {k}
      /\ context'[k] = [browser |-> via[t], shows |-> Blank, going |-> t]
      /\ \A c \in DOMAIN context \ {k} : context'[c] = context[c]
  BY <1>1
<1>6. mine' \in [Task -> Key \cup {NoPage}] /\ mine'[t] = k /\ \A u \in Task \ {t} : mine'[u] = mine[u]
  BY <1>1, <1>3 DEF IInv, PagesApart
<1>7. via[t] \in Nat
  BY <1>1 DEF IInv, TypeOK
<1>8. TypeOK'
  <2>1. \A u \in Task : pc'[u] \in {"using", "going", "reading"} => mine'[u] # NoPage
    BY <1>3, <1>4, <1>6 DEF IInv, TypeOK
  <2>2. \A c \in DOMAIN context' :
          /\ context'[c].browser \in running /\ context'[c].going \in Task
          /\ IsDetail(c[1]) \/ pc'[c[1]] = "using"
    <3> SUFFICES ASSUME NEW c \in DOMAIN context'
                 PROVE  /\ context'[c].browser \in running /\ context'[c].going \in Task
                        /\ IsDetail(c[1]) \/ pc'[c[1]] = "using"
      OBVIOUS
    <3>1. CASE c = k
      BY <3>1, <1>1, <1>2, <1>3, <1>4, <1>5
    <3>2. CASE c # k
      BY <3>2, <1>4, <1>5, KeyFacts DEF IInv, TypeOK, PagesApart
    <3> QED BY <3>1, <3>2
  <2>3. via' \in [Task -> 0..launches]
    BY <1>1 DEF IInv, TypeOK, None
  <2> QED BY <1>1, <1>4, <2>1, <2>2, <2>3 DEF IInv, TypeOK, Place
<1>9. TasksPlaced'
  BY <1>1, <1>2, <1>4 DEF IInv, TasksPlaced, DetailUnderway
<1>10. PagesApart'
  <2>1. [browser |-> via[t], shows |-> Blank, going |-> t] \in Visit
    BY <1>7 DEF Visit, Blank
  <2>2. context' \in [DOMAIN context' -> Visit] /\ DOMAIN context' \subseteq Key
    BY <1>1, <1>3, <2>1 DEF IInv, PagesApart
  <2>3. \A c \in DOMAIN context' : IsDetail(c[1]) \/ mine'[c[1]] = c
    <3> SUFFICES ASSUME NEW c \in DOMAIN context', ~IsDetail(c[1]) PROVE mine'[c[1]] = c
      OBVIOUS
    <3>1. CASE c = k
      BY <3>1, <1>3, <1>6
    <3>2. CASE c # k
      <4>1. c \in DOMAIN context /\ c[1] \in Task /\ pc[c[1]] = "using"
        BY <3>2, <1>5, KeyFacts DEF IInv, TypeOK, PagesApart
      <4> QED BY <4>1, <1>4, <1>6 DEF IInv, PagesApart
    <3> QED BY <3>1, <3>2
  <2>4. \A u \in Task :
          /\ pc'[u] = "blank" => mine'[u] # NoPage
          /\ pc'[u] = "going" => detailPage # NoPage
          /\ IsDetail(u) /\ mine'[u] # NoPage => IsDetail(mine'[u][1])
    BY <1>2, <1>3, <1>4, <1>6 DEF IInv, PagesApart
  <2> QED BY <1>1, <1>6, <2>2, <2>3, <2>4 DEF IInv, PagesApart
<1>11. OneLaunch'
  BY <1>1, <1>2, <1>4, SameLaunches DEF IInv
<1>12. OneScrape'
  <2> SUFFICES ASSUME ~shared PROVE OneScrape'
    BY <1>1 DEF OneScrape
  <2>1. \A r \in Scrape : Underway(r)' => Underway(r)
    BY <1>1, <1>4, UnderwayShrinks
  <2>2. \A u \in Task : pc'[u] = "going" => mine'[u] = detailPage
    BY <1>2, <1>4, <1>6 DEF IInv, OneScrape
  <2>3. \A u \in Task : pc'[u] = "reading" /\ mine'[u] \in DOMAIN context' =>
          context'[mine'[u]].shows = Offer(u[1])
    <3> SUFFICES ASSUME NEW u \in Task, pc'[u] = "reading", mine'[u] \in DOMAIN context'
                 PROVE  context'[mine'[u]].shows = Offer(u[1])
      OBVIOUS
    <3>1. u # t /\ pc[u] = "reading" /\ mine'[u] = mine[u] /\ IsDetail(u)
      BY <1>2, <1>4, <1>6 DEF IInv, TasksPlaced
    <3>2. IsDetail(mine[u][1])
      BY <3>1 DEF IInv, TypeOK, PagesApart
    <3>3. mine[u] # k
      <4> SUFFICES ASSUME mine[u] = k PROVE FALSE
        OBVIOUS
      <4>1. IsDetail(t)
        BY <3>2, <1>3
      <4>2. t = u
        BY <4>1, <3>1, <1>4, OneDetail DEF DetailUnderway, IInv
      <4> QED BY <4>2, <3>1
    <3> QED BY <3>1, <3>3, <1>5 DEF IInv, OneScrape
  <2> QED BY <1>1, <2>1, <2>2, <2>3 DEF IInv, OneScrape, Offer
<1> QED BY <1>8, <1>9, <1>10, <1>11, <1>12 DEF IInv

\* newPage: the shared page is the one in the context just opened.
LEMMA PageOpenedInv ==
  ASSUME IInv, NEW t \in Task, PageOpened(t) PROVE IInv'
<1> DEFINE k == mine[t]
<1>1. /\ k \in DOMAIN context
      /\ Step(t, "blank", "going")
      /\ detailPage' = k
      /\ mine' = [mine EXCEPT ![t] = k]
      /\ context' = [context EXCEPT ![k].going = t]
      /\ UNCHANGED <<waiting, asked, gaveUp, shared, crashes, mixed, left, browser, launches, running, via, raced>>
  BY DEF PageOpened, GoTo, quiet, api
<1>2. /\ pc[t] = "blank" /\ pc' \in [Task -> Place]
      /\ pc'[t] = "going" /\ \A u \in Task \ {t} : pc'[u] = pc[u]
  BY <1>1, OneMoves DEF IInv, Place
<1>3. IsDetail(t) /\ k \in Key /\ k # NoPage /\ IsDetail(k[1])
  BY <1>1, <1>2, KeyFacts DEF IInv, TasksPlaced, PagesApart
<1>4. mine' = mine
  BY <1>1 DEF IInv, PagesApart
<1> HIDE DEF k
<1>5. /\ DOMAIN context' = DOMAIN context /\ context' \in [DOMAIN context -> Visit]
      /\ \A c \in DOMAIN context : /\ context'[c].browser = context[c].browser
                                   /\ context'[c].shows = context[c].shows
                                   /\ context'[c].going \in Task
  BY <1>1 DEF IInv, PagesApart, Visit
<1>6. TypeOK'
  <2>1. \A u \in Task : pc'[u] \in {"using", "going", "reading"} => mine[u] # NoPage
    BY <1>2, <1>3 DEF IInv, TypeOK, k
  <2>2. \A c \in DOMAIN context' :
          /\ context'[c].browser \in running /\ context'[c].going \in Task
          /\ IsDetail(c[1]) \/ pc'[c[1]] = "using"
    BY <1>2, <1>3, <1>5, KeyFacts DEF IInv, TypeOK, PagesApart
  <2> QED BY <1>1, <1>2, <1>4, <2>1, <2>2 DEF IInv, TypeOK, Place
<1>7. TasksPlaced'
  BY <1>1, <1>2 DEF IInv, TasksPlaced, DetailUnderway
<1>8. PagesApart'
  BY <1>1, <1>2, <1>3, <1>4, <1>5 DEF IInv, PagesApart
<1>9. OneLaunch'
  BY <1>1, <1>2, SameLaunches DEF IInv
<1>10. OneScrape'
  <2> SUFFICES ASSUME ~shared PROVE OneScrape'
    BY <1>1 DEF OneScrape
  <2>1. \A r \in Scrape : Underway(r)' => Underway(r)
    BY <1>1, <1>2, UnderwayShrinks
  <2>2. \A u \in Task : pc'[u] \in {"going", "reading"} => u = t
    <3> SUFFICES ASSUME NEW u \in Task, u # t, pc[u] \in {"going", "reading"} PROVE FALSE
      BY <1>2
    <3>1. DetailUnderway(u) /\ DetailUnderway(t)
      BY <1>2, <1>3 DEF DetailUnderway, IInv, TasksPlaced
    <3> QED BY <3>1, OneDetail DEF IInv
  <2> QED BY <1>1, <1>2, <1>4, <2>1, <2>2 DEF IInv, OneScrape, k
<1> QED BY <1>6, <1>7, <1>8, <1>9, <1>10 DEF IInv

\* The page that has arrived shows the offer it was sent to.
LEMMA ArrivedInv ==
  ASSUME IInv, NEW t \in Task, Arrived(t) PROVE IInv'
<1> DEFINE k == mine[t]
<1>1. /\ k \in DOMAIN context
      /\ Step(t, "going", "reading")
      /\ mine' = [mine EXCEPT ![t] = detailPage]
      /\ context' = [context EXCEPT ![k].shows = Offer(t[1])]
      /\ UNCHANGED <<waiting, asked, gaveUp, shared, crashes, mixed, left, browser, launches, running, detailPage, via, raced>>
  BY DEF Arrived, quiet, api
<1> HIDE DEF k
<1>2. /\ pc[t] = "going" /\ pc' \in [Task -> Place]
      /\ pc'[t] = "reading" /\ \A u \in Task \ {t} : pc'[u] = pc[u]
  BY <1>1, OneMoves DEF IInv, Place
<1>3. IsDetail(t) /\ detailPage # NoPage /\ detailPage \in Key /\ IsDetail(detailPage[1])
  BY <1>2 DEF IInv, TasksPlaced, PagesApart
<1>4. mine' \in [Task -> Key \cup {NoPage}] /\ mine'[t] = detailPage /\ \A u \in Task \ {t} : mine'[u] = mine[u]
  BY <1>1, <1>3 DEF IInv, PagesApart
<1>5. Offer(t[1]) \in Nat \X Nat
  <2>1. t[1] \in Nat /\ left[t[1]] \in Nat
    BY TaskFacts, ScrapeAssumption DEF IInv, TypeOK, Scrape
  <2> QED BY <2>1 DEF Offer
<1>6. /\ DOMAIN context' = DOMAIN context /\ context' \in [DOMAIN context -> Visit]
      /\ \A c \in DOMAIN context : /\ context'[c].browser = context[c].browser
                                   /\ context'[c].going = context[c].going
      /\ context'[k].shows = Offer(t[1])
  BY <1>1, <1>5 DEF IInv, PagesApart, Visit
<1>7. TypeOK'
  <2>1. \A u \in Task : pc'[u] \in {"using", "going", "reading"} => mine'[u] # NoPage
    BY <1>2, <1>3, <1>4 DEF IInv, TypeOK
  <2>2. \A c \in DOMAIN context' :
          /\ context'[c].browser \in running /\ context'[c].going \in Task
          /\ IsDetail(c[1]) \/ pc'[c[1]] = "using"
    BY <1>2, <1>3, <1>6, KeyFacts DEF IInv, TypeOK, PagesApart
  <2> QED BY <1>1, <1>2, <2>1, <2>2 DEF IInv, TypeOK, Place
<1>8. TasksPlaced'
  BY <1>1, <1>2 DEF IInv, TasksPlaced, DetailUnderway
<1>9. PagesApart'
  <2>1. \A c \in DOMAIN context' : IsDetail(c[1]) \/ mine'[c[1]] = c
    BY <1>3, <1>4, <1>6, KeyFacts DEF IInv, PagesApart
  <2>2. \A u \in Task :
          /\ pc'[u] = "blank" => mine'[u] # NoPage
          /\ pc'[u] = "going" => detailPage # NoPage
          /\ IsDetail(u) /\ mine'[u] # NoPage => IsDetail(mine'[u][1])
    BY <1>2, <1>3, <1>4 DEF IInv, PagesApart
  <2> QED BY <1>1, <1>4, <1>6, <2>1, <2>2 DEF IInv, PagesApart
<1>10. OneLaunch'
  BY <1>1, <1>2, SameLaunches DEF IInv
<1>11. OneScrape'
  <2> SUFFICES ASSUME ~shared PROVE OneScrape'
    BY <1>1 DEF OneScrape
  <2>1. \A r \in Scrape : Underway(r)' => Underway(r)
    BY <1>1, <1>2, UnderwayShrinks
  <2>2. \A u \in Task : pc'[u] \in {"going", "reading"} => u = t
    <3> SUFFICES ASSUME NEW u \in Task, u # t, pc[u] \in {"going", "reading"} PROVE FALSE
      BY <1>2
    <3>1. DetailUnderway(u) /\ DetailUnderway(t)
      BY <1>2, <1>3 DEF DetailUnderway, IInv, TasksPlaced
    <3> QED BY <3>1, OneDetail DEF IInv
  <2>3. k = detailPage
    BY <1>2 DEF IInv, OneScrape, k
  <2>4. context'[mine'[t]].shows = Offer(t[1])
    BY <2>3, <1>4, <1>6
  <2> QED BY <1>1, <1>2, <2>1, <2>2, <2>4 DEF IInv, OneScrape, Offer
<1> QED BY <1>7, <1>8, <1>9, <1>10, <1>11 DEF IInv

\* A task puts its page away: what is left of the pages in hand is as it was.
LEMMA PutAway ==
  ASSUME IInv, NEW t \in Task, mine' = [mine EXCEPT ![t] = NoPage]
  PROVE  /\ mine' \in [Task -> Key \cup {NoPage}]
         /\ mine'[t] = NoPage /\ \A u \in Task \ {t} : mine'[u] = mine[u]
BY DEF IInv, PagesApart

LEMMA ExtractInv ==
  ASSUME IInv, NEW t \in Task, Extract(t) PROVE IInv'
<1> DEFINE s == t[1]
<1>1. /\ mine[t] \in DOMAIN context
      /\ Step(t, "reading", "idle")
      /\ mixed' = (mixed \/ context[mine[t]].shows # Offer(s))
      /\ left' = [left EXCEPT ![s] = @ - 1]
      /\ mine' = [mine EXCEPT ![t] = NoPage]
      /\ UNCHANGED <<waiting, asked, gaveUp, shared, crashes, browser, launches, running, context, detailPage, via, raced>>
  BY DEF Extract, api, fetcher
<1>2. /\ pc[t] = "reading" /\ pc' \in [Task -> Place]
      /\ pc'[t] = "idle" /\ \A u \in Task \ {t} : pc'[u] = pc[u]
  BY <1>1, OneMoves DEF IInv, Place
<1>3. s \in Scrape /\ IsDetail(t) /\ DetailUnderway(t) /\ left[s] > 0
  BY <1>2, TaskFacts DEF IInv, TasksPlaced, DetailUnderway
<1>4. /\ left' \in [Scrape -> Nat] /\ \A r \in Scrape : left'[r] <= left[r]
      /\ \A r \in Scrape \ {s} : left'[r] = left[r]
  BY <1>1, <1>3 DEF IInv, TypeOK
<1>5. /\ mine' \in [Task -> Key \cup {NoPage}]
      /\ mine'[t] = NoPage /\ \A u \in Task \ {t} : mine'[u] = mine[u]
  BY <1>1, PutAway
<1> HIDE DEF s
<1>6. TypeOK'
  <2>1. \A u \in Task : pc'[u] \in {"using", "going", "reading"} => mine'[u] # NoPage
    BY <1>2, <1>5 DEF IInv, TypeOK
  <2>2. \A c \in DOMAIN context : IsDetail(c[1]) \/ pc'[c[1]] = "using"
    BY <1>2, <1>3, KeyFacts DEF IInv, TypeOK, PagesApart
  <2>3. \A r \in Scrape : left'[r] <= Details[r]
    <3> SUFFICES ASSUME NEW r \in Scrape PROVE left'[r] <= Details[r]
      OBVIOUS
    <3>1. left'[r] \in Nat /\ left[r] \in Nat /\ Details[r] \in Nat /\ left'[r] <= left[r] /\ left[r] <= Details[r]
      BY <1>4, ScrapeAssumption DEF IInv, TypeOK
    <3> QED BY <3>1
  <2>4. mixed' \in BOOLEAN
    BY <1>1
  <2> QED BY <1>1, <1>2, <1>4, <2>1, <2>2, <2>3, <2>4 DEF IInv, TypeOK, Place
<1>7. TasksPlaced'
  <2> SUFFICES ASSUME NEW u \in Task
               PROVE  /\ pc'[u] # "idle" => u[1] <= asked /\ u \in TasksOf(u[1])
                      /\ pc'[u] \in {"blank", "going", "reading"} => IsDetail(u)
                      /\ pc'[u] = "using" => ~IsDetail(u)
                      /\ (IsDetail(u) /\ pc'[u] \in {"launching", "opening", "blank", "going", "reading"})
                           => left'[u[1]] > 0
    BY <1>1 DEF TasksPlaced, DetailUnderway
  <2>1. CASE u = t
    BY <2>1, <1>2
  <2>2. CASE u # t
    <3>1. IsDetail(u) => u[1] \in Scrape \ {s}
      BY <2>2, <1>3, TaskFacts DEF s
    <3> QED BY <2>2, <3>1, <1>2, <1>4 DEF IInv, TasksPlaced, DetailUnderway
  <2> QED BY <2>1, <2>2
<1>8. PagesApart'
  <2>1. \A c \in DOMAIN context : IsDetail(c[1]) \/ mine'[c[1]] = c
    BY <1>3, <1>5, KeyFacts DEF IInv, PagesApart
  <2>2. \A u \in Task :
          /\ pc'[u] = "blank" => mine'[u] # NoPage
          /\ pc'[u] = "going" => detailPage # NoPage
          /\ IsDetail(u) /\ mine'[u] # NoPage => IsDetail(mine'[u][1])
    BY <1>2, <1>5 DEF IInv, PagesApart
  <2> QED BY <1>1, <1>5, <2>1, <2>2 DEF IInv, PagesApart
<1>9. OneLaunch'
  BY <1>1, <1>2, SameLaunches DEF IInv
<1>10. OneScrape'
  <2> SUFFICES ASSUME ~shared PROVE OneScrape'
    BY <1>1 DEF OneScrape
  <2>1. \A r \in Scrape : Underway(r)' => Underway(r)
    BY <1>1, <1>2, UnderwayShrinks
  <2>2. \A u \in Task : pc'[u] \notin {"going", "reading"}
    <3> SUFFICES ASSUME NEW u \in Task, u # t, pc[u] \in {"going", "reading"} PROVE FALSE
      BY <1>2
    <3>1. DetailUnderway(u)
      BY DEF DetailUnderway, IInv, TasksPlaced
    <3> QED BY <3>1, <1>3, OneDetail DEF IInv
  <2>3. ~mixed'
    BY <1>1, <1>2 DEF IInv, OneScrape, s
  <2> QED BY <1>1, <2>1, <2>2, <2>3 DEF IInv, OneScrape
<1> QED BY <1>6, <1>7, <1>8, <1>9, <1>10 DEF IInv

LEMMA LeaveListInv ==
  ASSUME IInv, NEW t \in Task, LeaveList(t) PROVE IInv'
<1>1. /\ pc[t] \in {"launching", "opening", "using"} /\ ~IsDetail(t)
      /\ pc' = [pc EXCEPT ![t] = "done"]
      /\ context' = [c \in DOMAIN context \ {mine[t]} |-> context[c]]
      /\ via' = [via EXCEPT ![t] = None] /\ mine' = [mine EXCEPT ![t] = NoPage]
      /\ UNCHANGED <<waiting, asked, gaveUp, shared, crashes, mixed, left, browser, launches, running, detailPage, raced>>
  BY DEF LeaveList, quiet, api
<1>2. /\ pc' \in [Task -> Place]
      /\ pc'[t] = "done" /\ \A u \in Task \ {t} : pc'[u] = pc[u]
  BY <1>1 DEF IInv, TypeOK, Place
<1>3. /\ mine' \in [Task -> Key \cup {NoPage}]
      /\ mine'[t] = NoPage /\ \A u \in Task \ {t} : mine'[u] = mine[u]
  BY <1>1, PutAway
<1>4. \A c \in DOMAIN context' :
        /\ c \in DOMAIN context /\ c # mine[t] /\ context'[c] = context[c]
        /\ c[1] \in Task /\ (c[1] = t => IsDetail(c[1]))
  BY <1>1, KeyFacts DEF IInv, PagesApart
<1>5. TypeOK'
  <2>1. \A u \in Task : pc'[u] \in {"using", "going", "reading"} => mine'[u] # NoPage
    BY <1>2, <1>3 DEF IInv, TypeOK
  <2>2. \A c \in DOMAIN context' :
          /\ context'[c].browser \in running /\ context'[c].going \in Task
          /\ IsDetail(c[1]) \/ pc'[c[1]] = "using"
    BY <1>2, <1>4 DEF IInv, TypeOK
  <2>3. via' \in [Task -> 0..launches]
    BY <1>1 DEF IInv, TypeOK, None
  <2> QED BY <1>1, <1>2, <2>1, <2>2, <2>3 DEF IInv, TypeOK, Place
<1>6. TasksPlaced'
  BY <1>1, <1>2 DEF IInv, TasksPlaced, DetailUnderway
<1>7. PagesApart'
  <2>1. context' \in [DOMAIN context' -> Visit] /\ DOMAIN context' \subseteq Key
    BY <1>1, <1>4 DEF IInv, PagesApart
  <2>2. \A c \in DOMAIN context' : IsDetail(c[1]) \/ mine'[c[1]] = c
    BY <1>3, <1>4 DEF IInv, PagesApart
  <2>3. \A u \in Task :
          /\ pc'[u] = "blank" => mine'[u] # NoPage
          /\ pc'[u] = "going" => detailPage # NoPage
          /\ IsDetail(u) /\ mine'[u] # NoPage => IsDetail(mine'[u][1])
    BY <1>2, <1>3 DEF IInv, PagesApart
  <2> QED BY <1>1, <1>3, <2>1, <2>2, <2>3 DEF IInv, PagesApart
<1>8. OneLaunch'
  BY <1>1, <1>2, SameLaunches DEF IInv
<1>9. OneScrape'
  <2>1. \A r \in Scrape : Underway(r)' => Underway(r)
    BY <1>1, <1>2, UnderwayShrinks
  <2> QED BY <1>1, <1>2, <1>3, <1>4, <2>1 DEF IInv, OneScrape, Offer
<1> QED BY <1>5, <1>6, <1>7, <1>8, <1>9 DEF IInv

LEMMA DetailFailsInv ==
  ASSUME IInv, NEW t \in Task, DetailFails(t) PROVE IInv'
<1> DEFINE s == t[1]
<1>1. /\ DetailUnderway(t)
      /\ pc' = [pc EXCEPT ![t] = "idle"]
      /\ left' = [left EXCEPT ![s] = @ - 1]
      /\ via' = [via EXCEPT ![t] = None] /\ mine' = [mine EXCEPT ![t] = NoPage]
      /\ UNCHANGED <<waiting, asked, gaveUp, shared, crashes, mixed, browser, launches, running, context, detailPage, raced>>
  BY DEF DetailFails, quiet, api, fetcher
<1>2. /\ pc' \in [Task -> Place] /\ pc[t] # "done"
      /\ pc'[t] = "idle" /\ \A u \in Task \ {t} : pc'[u] = pc[u]
  BY <1>1 DEF IInv, TypeOK, Place, DetailUnderway
<1>3. s \in Scrape /\ IsDetail(t) /\ left[s] > 0
  BY <1>1, TaskFacts DEF IInv, TasksPlaced, DetailUnderway
<1>4. /\ left' \in [Scrape -> Nat] /\ \A r \in Scrape : left'[r] <= left[r]
      /\ \A r \in Scrape \ {s} : left'[r] = left[r]
  BY <1>1, <1>3 DEF IInv, TypeOK
<1>5. /\ mine' \in [Task -> Key \cup {NoPage}]
      /\ mine'[t] = NoPage /\ \A u \in Task \ {t} : mine'[u] = mine[u]
  BY <1>1, PutAway
<1> HIDE DEF s
<1>6. TypeOK'
  <2>1. \A u \in Task : pc'[u] \in {"using", "going", "reading"} => mine'[u] # NoPage
    BY <1>2, <1>5 DEF IInv, TypeOK
  <2>2. \A c \in DOMAIN context : IsDetail(c[1]) \/ pc'[c[1]] = "using"
    BY <1>2, <1>3, KeyFacts DEF IInv, TypeOK, PagesApart
  <2>3. \A r \in Scrape : left'[r] <= Details[r]
    <3> SUFFICES ASSUME NEW r \in Scrape PROVE left'[r] <= Details[r]
      OBVIOUS
    <3>1. left'[r] \in Nat /\ left[r] \in Nat /\ Details[r] \in Nat /\ left'[r] <= left[r] /\ left[r] <= Details[r]
      BY <1>4, ScrapeAssumption DEF IInv, TypeOK
    <3> QED BY <3>1
  <2>4. via' \in [Task -> 0..launches]
    BY <1>1 DEF IInv, TypeOK, None
  <2> QED BY <1>1, <1>2, <1>4, <2>1, <2>2, <2>3, <2>4 DEF IInv, TypeOK, Place
<1>7. TasksPlaced'
  <2> SUFFICES ASSUME NEW u \in Task
               PROVE  /\ pc'[u] # "idle" => u[1] <= asked /\ u \in TasksOf(u[1])
                      /\ pc'[u] \in {"blank", "going", "reading"} => IsDetail(u)
                      /\ pc'[u] = "using" => ~IsDetail(u)
                      /\ (IsDetail(u) /\ pc'[u] \in {"launching", "opening", "blank", "going", "reading"})
                           => left'[u[1]] > 0
    BY <1>1 DEF TasksPlaced, DetailUnderway
  <2>1. CASE u = t
    BY <2>1, <1>2
  <2>2. CASE u # t
    <3>1. IsDetail(u) => u[1] \in Scrape \ {s}
      BY <2>2, <1>3, TaskFacts DEF s
    <3> QED BY <2>2, <3>1, <1>2, <1>4 DEF IInv, TasksPlaced, DetailUnderway
  <2> QED BY <2>1, <2>2
<1>8. PagesApart'
  <2>1. \A c \in DOMAIN context : IsDetail(c[1]) \/ mine'[c[1]] = c
    BY <1>3, <1>5, KeyFacts DEF IInv, PagesApart
  <2>2. \A u \in Task :
          /\ pc'[u] = "blank" => mine'[u] # NoPage
          /\ pc'[u] = "going" => detailPage # NoPage
          /\ IsDetail(u) /\ mine'[u] # NoPage => IsDetail(mine'[u][1])
    BY <1>2, <1>5 DEF IInv, PagesApart
  <2> QED BY <1>1, <1>5, <2>1, <2>2 DEF IInv, PagesApart
<1>9. OneLaunch'
  BY <1>1, <1>2, SameLaunches DEF IInv
<1>10. OneScrape'
  <2> SUFFICES ASSUME ~shared PROVE OneScrape'
    BY <1>1 DEF OneScrape
  <2>1. \A r \in Scrape : Underway(r)' => Underway(r)
    BY <1>1, <1>2, UnderwayShrinks
  <2>2. \A u \in Task : pc'[u] \notin {"going", "reading"}
    <3> SUFFICES ASSUME NEW u \in Task, u # t, pc[u] \in {"going", "reading"} PROVE FALSE
      BY <1>2
    <3>1. DetailUnderway(u)
      BY DEF DetailUnderway, IInv, TasksPlaced
    <3> QED BY <3>1, <1>1, OneDetail DEF IInv
  <2> QED BY <1>1, <2>1, <2>2 DEF IInv, OneScrape
<1> QED BY <1>6, <1>7, <1>8, <1>9, <1>10 DEF IInv

-----------------------------------------------------------------------------
(* The theorems *)

LEMMA NextInv == IInv /\ [Next]_vars => IInv'
<1> SUFFICES ASSUME IInv, [Next]_vars PROVE IInv'
  OBVIOUS
<1>1. CASE Ask
  BY <1>1, AskInv
<1>2. CASE Answer \/ GiveUp
  BY <1>2, AnswerInv
<1>3. ASSUME NEW s \in Scrape, Work(s) PROVE IInv'
  <2>1. CASE NextOffer(s) \/ NoMoreOffers(s)
    BY <2>1, NextOfferInv, NoMoreOffersInv
  <2>2. ASSUME NEW t \in TasksOf(s), TaskStep(t) PROVE IInv'
    <3>1. t \in Task
      BY TaskFacts
    <3> QED
      BY <2>2, <3>1, LaunchedInv, OpenedInv, PageOpenedInv, ArrivedInv, ExtractInv,
         LeaveListInv, DetailFailsInv DEF TaskStep
  <2> QED BY <1>3, <2>1, <2>2 DEF Work
<1>4. ASSUME NEW b \in running, Crash(b) PROVE IInv'
  BY <1>4, CrashInv
<1>5. CASE UNCHANGED vars
  BY <1>5 DEF vars, api, fetcher, IInv, TypeOK, TasksPlaced, PagesApart, OneLaunch, OneScrape,
     DetailUnderway, Underway, Ended, Offer
<1> QED BY <1>1, <1>2, <1>3, <1>4, <1>5 DEF Next

LEMMA IInvHolds == Spec => []IInv
BY InitInv, NextInv, PTL DEF Spec

\* Tasks, contexts and browsers keep their types: whatever fails, an open
\* context is one of a browser that runs, the page of a list is open only while
\* the list is read, and no task works without a page.
THEOREM TypeCorrect == Spec => []TypeOK
BY IInvHolds, PTL DEF IInv

\* PlaywrightFetcher.getBrowser launches no second browser while one runs,
\* unless two pages asked for the first one at the same time.
THEOREM OneBrowser == Spec => []OneBrowserUnlessRaced
<1>1. IInv => OneBrowserUnlessRaced
  <2> SUFFICES ASSUME IInv, ~raced PROVE Cardinality(running) <= 1
    BY DEF OneBrowserUnlessRaced
  <2>1. running = {} \/ running = {browser}
    BY DEF IInv, OneLaunch
  <2>2. Cardinality({}) = 0 /\ Cardinality({browser}) = 1
    BY FS_EmptySet, FS_Singleton
  <2> QED BY <2>1, <2>2
<1> QED BY <1>1, IInvHolds, PTL

\* With one scrape underway at a time the extractor of an offer runs on that
\* offer's page, although fetchDetail has one page for all of them, and
\* although steps on the way to it fail and leave their contexts open.
THEOREM NoMixWithoutOverlap == Spec => []MixedOnlyWhenShared
<1>1. IInv => MixedOnlyWhenShared
  BY DEF IInv, OneScrape, MixedOnlyWhenShared
<1> QED BY <1>1, IInvHolds, PTL

-----------------------------------------------------------------------------
(***************************************************************************)
(* The paging loops, for every size of window and every limit of pages,    *)
(* and for every list a portal may show and every offer it may add.        *)
(* NothingMissed speaks of the end of a crawl; what carries it there is    *)
(* that the offers above the window have been taken, and that those below  *)
(* it have not been seen: a window without news is then the last one.      *)
(* That needs the portal to add less than a window between two requests.   *)
(***************************************************************************)

USE SizeAssumption

-----------------------------------------------------------------------------
(* Two numbers, and lists with one more and one less *)

\* The greater and the smaller of two numbers.
LEMMA MaxOfTwo ==
  ASSUME NEW a \in Int, NEW b \in Int
  PROVE  Max({a, b}) \in {a, b} /\ Max({a, b}) >= a /\ Max({a, b}) >= b
<1> DEFINE P(x) == x \in {a, b} /\ \A y \in {a, b} : x >= y
<1>1. \E x : P(x)
  <2>1. P(a) \/ P(b)
    OBVIOUS
  <2> QED BY <2>1
<1>2. Max({a, b}) = CHOOSE x : P(x)
  BY DEF Max
<1>3. P(CHOOSE x : P(x))
  BY <1>1
<1> QED BY <1>2, <1>3

LEMMA MinOfTwo ==
  ASSUME NEW a \in Int, NEW b \in Int
  PROVE  Min({a, b}) \in {a, b} /\ Min({a, b}) <= a /\ Min({a, b}) <= b
<1> DEFINE P(x) == x \in {a, b} /\ \A y \in {a, b} : x =< y
<1>1. \E x : P(x)
  <2>1. P(a) \/ P(b)
    OBVIOUS
  <2> QED BY <2>1
<1>2. Min({a, b}) = CHOOSE x : P(x)
  BY DEF Min
<1>3. P(CHOOSE x : P(x))
  BY <1>1
<1> QED BY <1>2, <1>3

\* A list with an offer on top.
LEMMA OnTop ==
  ASSUME NEW S, NEW l \in Seq(S), NEW x \in S
  PROVE  /\ <<x>> \o l \in Seq(S)
         /\ DOMAIN (<<x>> \o l) = 1..(Len(l) + 1)
         /\ (<<x>> \o l)[1] = x
         /\ \A i \in 1..(Len(l) + 1) : i > 1 => i - 1 \in DOMAIN l /\ (<<x>> \o l)[i] = l[i - 1]
         /\ \A i \in DOMAIN l : i + 1 \in 1..(Len(l) + 1) /\ (<<x>> \o l)[i + 1] = l[i]
<1> DEFINE a == <<x>>
           r == a \o l
<1>1. a \in Seq(S) /\ Len(a) = 1 /\ a[1] = x
  OBVIOUS
<1>2. Len(l) \in Nat /\ DOMAIN l = 1..Len(l)
  OBVIOUS
<1> HIDE DEF a
<1>3. /\ r \in Seq(S)
      /\ Len(r) = Len(a) + Len(l)
      /\ \A i \in 1..(Len(a) + Len(l)) : r[i] = IF i <= Len(a) THEN a[i] ELSE l[i - Len(a)]
  BY <1>1, ConcatProperties
<1> HIDE DEF r
<1>4. DOMAIN r = 1..(Len(l) + 1)
  <2>1. Len(r) = Len(l) + 1
    BY <1>1, <1>2, <1>3
  <2> QED BY <1>3, <2>1
<1>5. /\ r[1] = x
      /\ \A i \in 1..(Len(l) + 1) : i > 1 => i - 1 \in DOMAIN l /\ r[i] = l[i - 1]
      /\ \A i \in DOMAIN l : i + 1 \in 1..(Len(l) + 1) /\ r[i + 1] = l[i]
  BY <1>1, <1>2, <1>3
<1> QED BY <1>3, <1>4, <1>5 DEF r, a

\* A list without the offer at a place.
LEMMA WithoutPlace ==
  ASSUME NEW S, NEW l \in Seq(S), NEW k \in 1..Len(l)
  PROVE  LET r == SubSeq(l, 1, k - 1) \o SubSeq(l, k + 1, Len(l))
         IN  /\ r \in Seq(S)
             /\ DOMAIN r = 1..(Len(l) - 1)
             /\ \A i \in DOMAIN r : /\ r[i] = IF i < k THEN l[i] ELSE l[i + 1]
                                    /\ i \in DOMAIN l /\ i + 1 \in DOMAIN l
<1> DEFINE a == SubSeq(l, 1, k - 1)
           b == SubSeq(l, k + 1, Len(l))
           r == a \o b
<1>1. Len(l) \in Nat /\ DOMAIN l = 1..Len(l) /\ \A i \in 1..Len(l) : l[i] \in S
  OBVIOUS
<1>2. a \in Seq(S) /\ Len(a) = k - 1 /\ \A i \in 1..(k - 1) : a[i] = l[i]
  <2>1. 1 \in Int /\ k - 1 \in Int /\ \A i \in 1..(k - 1) : l[i] \in S
    BY <1>1
  <2>2. /\ SubSeq(l, 1, k - 1) \in Seq(S)
        /\ Len(SubSeq(l, 1, k - 1)) = IF 1 <= k - 1 THEN (k - 1) - 1 + 1 ELSE 0
        /\ \A i \in 1..((k - 1) - 1 + 1) : SubSeq(l, 1, k - 1)[i] = l[1 + i - 1]
    BY <2>1, SubSeqProperties
  <2> HIDE DEF a
  <2>3. a \in Seq(S) /\ Len(a) = (IF 1 <= k - 1 THEN (k - 1) - 1 + 1 ELSE 0)
        /\ \A i \in 1..((k - 1) - 1 + 1) : a[i] = l[1 + i - 1]
    BY <2>2 DEF a
  <2> QED BY <1>1, <2>3
<1>3. b \in Seq(S) /\ Len(b) = Len(l) - k /\ \A i \in 1..(Len(l) - k) : b[i] = l[k + i]
  <2>1. k + 1 \in Int /\ Len(l) \in Int /\ \A i \in (k + 1)..Len(l) : l[i] \in S
    BY <1>1
  <2>2. /\ SubSeq(l, k + 1, Len(l)) \in Seq(S)
        /\ Len(SubSeq(l, k + 1, Len(l))) = IF k + 1 <= Len(l) THEN Len(l) - (k + 1) + 1 ELSE 0
        /\ \A i \in 1..(Len(l) - (k + 1) + 1) : SubSeq(l, k + 1, Len(l))[i] = l[(k + 1) + i - 1]
    BY <2>1, SubSeqProperties
  <2>3. b \in Seq(S) /\ Len(b) = (IF k + 1 <= Len(l) THEN Len(l) - (k + 1) + 1 ELSE 0)
        /\ \A i \in 1..(Len(l) - (k + 1) + 1) : b[i] = l[(k + 1) + i - 1]
    BY <2>2
  <2> HIDE DEF b
  <2>4. Len(b) = Len(l) - k
    <3>1. Len(b) = IF k + 1 <= Len(l) THEN Len(l) - (k + 1) + 1 ELSE 0
      BY <2>3
    <3>2. Len(l) \in Int /\ k \in Int /\ k <= Len(l)
      BY <1>1
    <3> HIDE DEF b
    <3> QED BY <3>1, <3>2
  <2>5. \A i \in 1..(Len(l) - k) : b[i] = l[k + i]
    <3> TAKE i \in 1..(Len(l) - k)
    <3>1. i \in 1..(Len(l) - (k + 1) + 1) /\ (k + 1) + i - 1 = k + i
      BY <1>1
    <3> QED BY <3>1, <2>3
  <2> QED BY <2>3, <2>4, <2>5
<1> HIDE DEF a, b
<1>4. /\ r \in Seq(S)
      /\ Len(r) = Len(a) + Len(b)
      /\ \A i \in 1..(Len(a) + Len(b)) : r[i] = IF i <= Len(a) THEN a[i] ELSE b[i - Len(a)]
  BY <1>2, <1>3, ConcatProperties
<1> HIDE DEF r
<1>5. DOMAIN r = 1..(Len(l) - 1)
  BY <1>1, <1>2, <1>3, <1>4
<1>6. \A i \in DOMAIN r : r[i] = IF i < k THEN l[i] ELSE l[i + 1]
  <2> TAKE i \in DOMAIN r
  <2>0. i \in Int /\ i >= 1 /\ i <= Len(l) - 1 /\ Len(a) = k - 1 /\ Len(b) = Len(l) - k
    BY <1>1, <1>2, <1>3, <1>5
  <2>a. r[i] = IF i <= Len(a) THEN a[i] ELSE b[i - Len(a)]
    BY <1>1, <1>4, <2>0
  <2>1. CASE i < k
    <3>1. i <= Len(a) /\ i \in 1..(k - 1)
      BY <2>0, <2>1
    <3> QED BY <3>1, <2>1, <2>a, <1>2
  <2>2. CASE ~(i < k)
    <3>1. ~(i <= Len(a)) /\ i - Len(a) \in 1..(Len(l) - k) /\ k + (i - Len(a)) = i + 1
      BY <2>0, <2>2, <1>1
    <3>2. r[i] = b[i - Len(a)]
      BY <3>1, <2>a
    <3> QED BY <3>1, <3>2, <1>3, <2>2
  <2> QED BY <2>1, <2>2
<1>7. \A i \in DOMAIN r : i \in DOMAIN l /\ i + 1 \in DOMAIN l
  BY <1>1, <1>5
<1> QED BY <1>4, <1>5, <1>6, <1>7 DEF r, a, b

-----------------------------------------------------------------------------
(* The window and the announced pages *)

\* A window has the offers of its places, as many as there are.
LEMMA WindowFacts ==
  ASSUME listing[search] \in Seq(1..Offers), NEW n \in Nat
  PROVE  /\ \A i \in DOMAIN listing[search] :
              n < i /\ i <= n + PageSize => listing[search][i] \in Range(Window(n))
         /\ \A x \in Range(Window(n)) : \E i \in DOMAIN listing[search] :
              n < i /\ i <= n + PageSize /\ x = listing[search][i]
         /\ Range(Window(n)) \subseteq 1..Offers
         /\ Len(Window(n)) \in Nat /\ Len(Window(n)) <= PageSize
         /\ Len(Window(n)) = PageSize \/ Total <= n + Len(Window(n))
<1> DEFINE L == listing[search]
           t == Len(L)
           e == Min({n + PageSize, t})
           w == SubSeq(L, n + 1, e)
<1>1. L \in Seq(1..Offers) /\ t \in Nat /\ DOMAIN L = 1..t /\ \A i \in 1..t : L[i] \in 1..Offers
  OBVIOUS
<1> HIDE DEF L
<1>2. e \in {n + PageSize, t} /\ e <= n + PageSize /\ e <= t /\ e \in Int
  <2>1. n + PageSize \in Int /\ t \in Int
    BY <1>1
  <2> HIDE DEF t
  <2> QED BY <2>1, MinOfTwo
<1>3. Window(n) = w /\ Total = t
  BY DEF Window, Total, L
<1> HIDE DEF e, t
<1>4. w \in Seq(1..Offers) /\ Len(w) = (IF n + 1 <= e THEN e - (n + 1) + 1 ELSE 0)
      /\ \A i \in 1..(e - (n + 1) + 1) : w[i] = L[(n + 1) + i - 1]
  <2>1. n + 1 \in Int /\ e \in Int /\ \A i \in (n + 1)..e : L[i] \in 1..Offers
    BY <1>1, <1>2
  <2> QED BY <2>1, SubSeqProperties
<1> HIDE DEF w
<1>5. Len(w) = IF n < e THEN e - n ELSE 0
  <2>1. Len(w) = IF n + 1 <= e THEN e - (n + 1) + 1 ELSE 0
    BY <1>4
  <2> QED BY <2>1, <1>2
<1>6. \A i \in 1..(e - n) : w[i] = L[n + i]
  <2> TAKE i \in 1..(e - n)
  <2>1. i \in 1..(e - (n + 1) + 1) /\ (n + 1) + i - 1 = n + i
    BY <1>2
  <2> QED BY <2>1, <1>4
<1>7. DOMAIN w = 1..Len(w) /\ Range(w) = {w[i] : i \in 1..Len(w)}
  BY <1>4 DEF Range
<1>8. \A i \in 1..t : n < i /\ i <= n + PageSize => L[i] \in Range(w)
  <2> SUFFICES ASSUME NEW i \in 1..t, n < i, i <= n + PageSize PROVE L[i] \in Range(w)
    OBVIOUS
  <2>1. i <= e
    BY <1>1, <1>2
  <2>2. i - n \in 1..(e - n) /\ i - n \in 1..Len(w) /\ n + (i - n) = i
    BY <1>1, <1>2, <1>5, <2>1
  <2>3. w[i - n] = L[i]
    BY <2>2, <1>6
  <2> QED BY <2>2, <2>3, <1>7
<1>9. \A x \in Range(w) : \E i \in 1..t : n < i /\ i <= n + PageSize /\ x = L[i]
  <2> TAKE x \in Range(w)
  <2>1. PICK j \in 1..Len(w) : x = w[j]
    BY <1>7
  <2>2. n < e /\ j \in 1..(e - n) /\ n + j \in 1..t /\ n < n + j /\ n + j <= n + PageSize
    BY <1>1, <1>2, <1>5, <2>1
  <2>3. x = L[n + j]
    BY <2>1, <2>2, <1>6
  <2> QED BY <2>2, <2>3
<1>10. Range(w) \subseteq 1..Offers
  BY <1>9, <1>1
<1>11. Len(w) \in Nat /\ Len(w) <= PageSize /\ (Len(w) = PageSize \/ t <= n + Len(w))
  BY <1>1, <1>2, <1>5
<1> QED
  <2>1. DOMAIN listing[search] = 1..t
    BY <1>1 DEF L
  <2> QED BY <2>1, <1>3, <1>8, <1>9, <1>10, <1>11 DEF L

\* The announced pages have room for every offer.
LEMMA AnnouncedHolds ==
  ASSUME listing[search] \in Seq(1..Offers)
  PROVE  Total \in Nat /\ Announced \in Nat \ {0} /\ Total <= Announced * PageSize
<1> DEFINE d == (Total + PageSize - 1) \div PageSize
<1>1. Total \in Nat
  BY DEF Total
<1>2. d \in Nat /\ Total <= d * PageSize
  <2> HIDE DEF Total
  <2> QED BY <1>1
<1>3. Announced = Max({1, d})
  BY DEF Announced
<1> HIDE DEF d
<1>4. Announced \in {1, d} /\ Announced >= 1 /\ Announced >= d
  <2>1. 1 \in Int /\ d \in Int
    BY <1>2
  <2> QED BY <2>1, <1>3, MaxOfTwo
<1>5. Announced \in Nat \ {0}
  BY <1>2, <1>4
<1>6. d * PageSize <= Announced * PageSize
  <2>1. CASE Announced = d
    BY <2>1, <1>2
  <2>2. CASE Announced = 1
    <3>1. d = 0 \/ d = 1
      BY <2>2, <1>2, <1>4
    <3> QED BY <3>1, <2>2
  <2> QED BY <2>1, <2>2, <1>4
<1>7. d * PageSize \in Nat /\ Announced * PageSize \in Nat
  BY <1>2, <1>5
<1> QED BY <1>1, <1>2, <1>5, <1>6, <1>7

-----------------------------------------------------------------------------
(* The inductive invariant *)

\* The strategies that count pages once, at the start.
Counting == {"justjoinit", "pracujpl"}

\* Nothing has disturbed the crawl yet.
Smooth == ~failed /\ ~moved

\* The portal shows offers no newer than the last one added, and until one is
\* taken off all it showed at the start, less than a window further down since
\* the last request.
Listed ==
  /\ \A s \in Search : /\ first[s] \subseteq (New + 1)..Offers
                       /\ Shown(s) \subseteq (New - added + 1)..Offers
  /\ ~moved => fresh < PageSize /\ \A s \in Search : first[s] \subseteq Shown(s)

\* Each loop keeps its own limit.
PagesBounded ==
  /\ portal \notin {"justjoinit", "nofluffjobs"} => page <= MaxPages
  /\ portal \in Counting => page <= pages
  /\ portal = "nofluffjobs" => page <= MaxPages + 1

\* Where a search puts the offers it has passed.
Passed == IF portal = "nofluffjobs" THEN dom ELSE found

\* What was there at the start and is above the next window has been passed,
PassedTaken ==
  Smooth /\ phase = "paging" /\ (portal = "nofluffjobs" => page > 1) =>
    \A i \in DOMAIN listing[search] :
      i <= from /\ listing[search][i] \in first[search] => listing[search][i] \in Passed

\* and what is below what that window was when it was asked for has not: so a
\* window without news is the last one.
BelowUnseen ==
  Smooth /\ phase = "paging" /\ search = "all" /\ portal # "nofluffjobs" =>
    \A i \in DOMAIN listing["all"] : i > from + fresh => listing["all"][i] \notin found

\* A strategy that counts pages has as many behind it as it has passed, and
\* those announced have room for all offers.
CountRight ==
  Smooth /\ phase = "paging" /\ portal \in Counting /\ added = 0 =>
    /\ from = (page - 1) * PageSize
    /\ page > 1 => Total <= pages * PageSize

\* Once a search is over its offers are held.
FirstHeld ==
  Smooth /\ ~cut /\ (phase = "done" \/ search = "remote") /\ (portal \in Counting => added = 0) =>
    first["all"] \subseteq found
RemoteHeld ==
  Smooth /\ ~cut /\ phase = "done" /\ portal = "nofluffjobs" => first["remote"] \subseteq found

CrawlInv ==
  /\ CrawlTypeOK /\ Listed /\ PagesBounded
  /\ PassedTaken /\ BelowUnseen /\ CountRight /\ FirstHeld /\ RemoteHeld

\* A page within either limit is within the greater of them.
LEMMA PageInRange ==
  ASSUME NEW a \in Nat \ {0}, NEW b \in Nat \ {0}, NEW n \in Nat \ {0}, n <= a + 1 \/ n <= b + 1
  PROVE  n \in 1..(Max({a, b}) + 1)
<1>1. a \in Int /\ b \in Int
  OBVIOUS
<1>2. Max({a, b}) \in {a, b} /\ Max({a, b}) >= a /\ Max({a, b}) >= b
  BY <1>1, MaxOfTwo
<1> DEFINE m == Max({a, b})
<1>3. m \in Nat /\ m >= a /\ m >= b
  BY <1>2
<1> HIDE DEF m
<1>4. n \in 1..(m + 1)
  BY <1>3
<1> QED BY <1>4 DEF m

\* A crawl begins with all of it.
LEMMA CrawlBegins == CrawlInit => CrawlInv
<1> SUFFICES ASSUME CrawlInit PROVE CrawlInv
  OBVIOUS
<1> USE DEF CrawlInit
<1>1. /\ listing \in [Search -> Seq((New + 1)..Offers)]
      /\ \A s \in Search : IsInjective(listing[s])
  BY ListingAssumption
<1>2. listing \in [Search -> Seq(1..Offers)]
  <2>1. ASSUME NEW s \in Search PROVE listing[s] \in Seq(1..Offers)
    <3>1. listing[s] \in Seq((New + 1)..Offers) /\ (New + 1)..Offers \subseteq 1..Offers
      BY <1>1
    <3> QED BY <3>1, SeqMonotonic
  <2> QED BY <1>1, <2>1
<1>3. \A s \in Search : Shown(s) \subseteq (New + 1)..Offers
  <2> TAKE s \in Search
  <2>1. listing[s] \in Seq((New + 1)..Offers)
    BY <1>1
  <2>2. \A i \in DOMAIN listing[s] : listing[s][i] \in (New + 1)..Offers
    BY <2>1
  <2> QED BY <2>2 DEF Shown, Range
<1>4. first = [s \in Search |-> Shown(s)]
  OBVIOUS
<1>5. \A s \in Search : first[s] = Shown(s)
  BY <1>4
<1>6. CrawlTypeOK
  <2>1. first \in [Search -> SUBSET (1..Offers)]
    <3>1. \A s \in Search : Shown(s) \in SUBSET (1..Offers)
      BY <1>3
    <3> QED BY <1>4, <3>1
  <2>2. /\ MaxPages \in Nat \ {0} /\ pages \in Nat \ {0} /\ page \in Nat \ {0}
        /\ page <= MaxPages + 1
    OBVIOUS
  <2>3. page \in 1..(Max({MaxPages, pages}) + 1)
    BY <2>2, PageInRange
  <2>4. from \in 0..(page * PageSize)
    OBVIOUS
  <2>5. phase \in {"paging", "done"} /\ search \in Search
    BY DEF Search
  <2>6. idle \in 0..MaxIdle /\ fresh \in 0..MaxFresh /\ added \in 0..New
    OBVIOUS
  <2>7. dom \subseteq 1..Offers /\ found \subseteq 1..Offers /\ portal \in Portal
    OBVIOUS
  <2>8. moved \in BOOLEAN /\ cut \in BOOLEAN /\ failed \in BOOLEAN
    OBVIOUS
  <2>9. pages \in Nat \ {0} /\ \A s \in Search : IsInjective(listing[s])
    BY <1>1
  <2> HIDE DEF CrawlInit
  <2> QED BY <1>2, <2>1, <2>3, <2>4, <2>5, <2>6, <2>7, <2>8, <2>9 DEF CrawlTypeOK
<1>7. Listed
  BY <1>3, <1>5 DEF Listed
<1>8. PagesBounded
  BY DEF PagesBounded
<1>9. PassedTaken
  <2> SUFFICES ASSUME NEW i \in DOMAIN listing[search], i <= from PROVE FALSE
    BY DEF PassedTaken
  <2>1. listing["all"] \in Seq(1..Offers)
    BY <1>2 DEF Search
  <2> QED BY <2>1
<1>10. BelowUnseen
  BY DEF BelowUnseen
<1>11. CountRight
  BY DEF CountRight
<1>12. FirstHeld /\ RemoteHeld
  BY DEF FirstHeld, RemoteHeld
<1> QED BY <1>6, <1>7, <1>8, <1>9, <1>10, <1>11, <1>12 DEF CrawlInv

-----------------------------------------------------------------------------
(* The portal's steps *)

\* What a list shows is what it has at its places.
LEMMA ShownAt ==
  \A s \in Search : Shown(s) = {listing[s][i] : i \in DOMAIN listing[s]}
BY DEF Shown, Range

\* Add: a new offer is above all, which keep their order.
LEMMA AddKeeps ==
  ASSUME CrawlInv, NEW s \in Search, Add(s)
  PROVE  CrawlInv'
<1> DEFINE x == New - added
           r == <<x>> \o listing[s]
<1>1. /\ CrawlTypeOK /\ Listed /\ PagesBounded
      /\ PassedTaken /\ BelowUnseen /\ FirstHeld /\ RemoteHeld
  BY DEF CrawlInv
<1>2. /\ listing \in [Search -> Seq(1..Offers)] /\ \A q \in Search : IsInjective(listing[q])
      /\ listing[s] \in Seq(1..Offers)
      /\ added \in 0..New /\ fresh \in 0..MaxFresh /\ search \in Search /\ from \in Int
  BY <1>1 DEF CrawlTypeOK
<1>3. /\ phase = "paging" /\ added < New /\ fresh < MaxFresh /\ ~moved
      /\ listing' = [listing EXCEPT ![s] = r]
      /\ added' = added + 1 /\ fresh' = fresh + 1
      /\ moved' = (fresh + 1 >= PageSize)
      /\ UNCHANGED <<portal, phase, search, page, from, pages, idle, dom, found, first, cut, failed>>
  BY DEF Add, progress
<1>4. x \in 1..Offers /\ x <= New
  BY <1>2, <1>3
<1> HIDE DEF x
<1>5. /\ r \in Seq(1..Offers)
      /\ DOMAIN r = 1..(Len(listing[s]) + 1)
      /\ r[1] = x
      /\ \A i \in 1..(Len(listing[s]) + 1) :
           i > 1 => i - 1 \in DOMAIN listing[s] /\ r[i] = listing[s][i - 1]
  BY <1>2, <1>4, OnTop
<1> HIDE DEF r
<1>6. /\ listing' \in [Search -> Seq(1..Offers)] /\ listing'[s] = r
      /\ \A q \in Search : q # s => listing'[q] = listing[q]
  BY <1>2, <1>3, <1>5
<1>7. \A i \in DOMAIN r : \/ i = 1 /\ r[i] = x
                          \/ i > 1 /\ i - 1 \in DOMAIN listing[s] /\ r[i] = listing[s][i - 1]
  <2> TAKE i \in DOMAIN r
  <2>1. i \in 1..(Len(listing[s]) + 1) /\ Len(listing[s]) \in Nat
    BY <1>2, <1>5
  <2>2. i = 1 \/ i > 1
    BY <2>1
  <2> QED BY <2>1, <2>2, <1>5
<1>8. \A q \in Search : \A y \in Shown(q) : y \in (New - added + 1)..Offers
  BY <1>1 DEF Listed
<1>9. \A j \in DOMAIN listing[s] : listing[s][j] # x
  <2> TAKE j \in DOMAIN listing[s]
  <2>1. listing[s][j] \in Shown(s)
    BY ShownAt
  <2>2. listing[s][j] \in (New - added + 1)..Offers
    BY <1>8, <2>1
  <2> QED BY <1>2, <2>2 DEF x
<1>10. IsInjective(r)
  <2> SUFFICES ASSUME NEW i \in DOMAIN r, NEW j \in DOMAIN r, r[i] = r[j] PROVE i = j
    BY DEF IsInjective
  <2>1. i \in Int /\ j \in Int
    BY <1>5
  <2>2. CASE i = 1 \/ j = 1
    BY <2>1, <2>2, <1>7, <1>9
  <2>3. CASE i # 1 /\ j # 1
    <3>1. /\ i - 1 \in DOMAIN listing[s] /\ r[i] = listing[s][i - 1]
          /\ j - 1 \in DOMAIN listing[s] /\ r[j] = listing[s][j - 1]
      BY <2>3, <1>7
    <3>2. i - 1 = j - 1
      BY <3>1, <1>2 DEF IsInjective
    <3> QED BY <3>2, <2>1
  <2> QED BY <2>2, <2>3
<1>11. CrawlTypeOK'
  <2>1. \A q \in Search : IsInjective(listing'[q])
    BY <1>2, <1>6, <1>10
  <2>2. added' \in 0..New /\ fresh' \in 0..MaxFresh /\ moved' \in BOOLEAN
    <3>1. (fresh + 1 >= PageSize) \in BOOLEAN
      OBVIOUS
    <3> QED BY <1>2, <1>3, <3>1
  <2>3. Max({MaxPages, pages})' = Max({MaxPages, pages})
    BY <1>3
  <2> QED BY <1>1, <1>3, <1>6, <2>1, <2>2, <2>3 DEF CrawlTypeOK
<1>12. \A q \in Search : Shown(q)' \subseteq Shown(q) \cup {x} /\ Shown(q) \subseteq Shown(q)'
  <2> TAKE q \in Search
  <2>1. Shown(q)' = {listing'[q][i] : i \in DOMAIN listing'[q]}
    BY DEF Shown, Range
  <2>2. Shown(q) = {listing[q][i] : i \in DOMAIN listing[q]}
    BY ShownAt
  <2>3. CASE q # s
    BY <2>1, <2>2, <2>3, <1>6
  <2>4. CASE q = s
    <3>1. \A i \in DOMAIN r : r[i] \in Shown(q) \cup {x}
      BY <2>2, <2>4, <1>7
    <3>2. \A i \in DOMAIN listing[s] : i + 1 \in DOMAIN r /\ r[i + 1] = listing[s][i]
      BY <1>2, <1>4, OnTop, <1>5 DEF r
    <3> QED BY <2>1, <2>2, <2>4, <1>6, <3>1, <3>2
  <2> QED BY <2>3, <2>4
<1>13. Listed'
  <2>1. \A q \in Search : first'[q] \subseteq (New + 1)..Offers
    BY <1>1, <1>3 DEF Listed
  <2>2. \A q \in Search : Shown(q)' \subseteq (New - added' + 1)..Offers
    <3> TAKE q \in Search
    <3>1. \A y \in Shown(q) : y \in (New - added' + 1)..Offers
      BY <1>2, <1>3, <1>8
    <3>2. x \in (New - added' + 1)..Offers
      BY <1>2, <1>3, <1>4 DEF x
    <3> QED BY <1>12, <3>1, <3>2
  <2>3. ~moved' => fresh' < PageSize
    <3>1. ~moved' => ~(fresh + 1 >= PageSize)
      BY <1>3
    <3>2. ~(fresh + 1 >= PageSize) => fresh' < PageSize
      BY <1>2, <1>3
    <3> QED BY <3>1, <3>2
  <2>4. \A q \in Search : first'[q] \subseteq Shown(q)'
    BY <1>1, <1>3, <1>12 DEF Listed
  <2> QED BY <2>1, <2>2, <2>3, <2>4 DEF Listed
<1>14. PagesBounded'
  BY <1>1, <1>3 DEF PagesBounded
<1>15. PassedTaken'
  <2> SUFFICES ASSUME Smooth', (portal = "nofluffjobs" => page > 1)', NEW i \in DOMAIN listing'[search'],
                      i <= from', listing'[search'][i] \in first'[search']
               PROVE  listing'[search'][i] \in Passed'
    BY DEF PassedTaken
  <2>1. Passed' = Passed /\ first' = first /\ search' = search /\ from' = from
    BY <1>3 DEF Passed
  <2>2. \A j \in DOMAIN listing[search] :
          j <= from /\ listing[search][j] \in first[search] => listing[search][j] \in Passed
    BY <1>1, <1>3 DEF PassedTaken, Smooth
  <2>3. CASE search # s
    BY <2>1, <2>2, <2>3, <1>2, <1>6
  <2>4. CASE search = s
    <3>1. i \in DOMAIN r /\ r[i] \in first[s] /\ i <= from /\ i \in Int
      BY <2>1, <2>4, <1>5, <1>6
    <3>2. r[i] # x
      BY <3>1, <1>1, <1>4 DEF Listed
    <3>3. i - 1 \in DOMAIN listing[s] /\ r[i] = listing[s][i - 1] /\ i - 1 <= from
      BY <3>1, <3>2, <1>2, <1>7
    <3> QED BY <3>1, <3>3, <2>1, <2>2, <2>4, <1>6
  <2> QED BY <2>3, <2>4
<1>16. BelowUnseen'
  <2> SUFFICES ASSUME Smooth', search = "all", portal # "nofluffjobs",
                      NEW i \in DOMAIN listing'["all"], i > from' + fresh'
               PROVE  listing'["all"][i] \notin found'
    BY <1>3 DEF BelowUnseen
  <2>1. \A j \in DOMAIN listing["all"] : j > from + fresh => listing["all"][j] \notin found
    BY <1>1, <1>3 DEF BelowUnseen, Smooth
  <2>2. "all" \in Search /\ i > from + fresh + 1 /\ from \in Nat /\ fresh \in Nat
    BY <1>1, <1>2, <1>3 DEF Search, CrawlTypeOK
  <2>3. CASE s # "all"
    <3>1. listing'["all"] = listing["all"]
      BY <2>2, <2>3, <1>6
    <3>2. listing["all"] \in Seq(1..Offers)
      BY <1>2, <2>2
    <3>3. i \in DOMAIN listing["all"] /\ i \in Int
      BY <3>1, <3>2
    <3> QED BY <3>1, <3>3, <2>1, <2>2, <1>3
  <2>4. CASE s = "all"
    <3>1. i \in DOMAIN r /\ i \in Int /\ i > 1
      BY <2>2, <2>4, <1>5, <1>6
    <3>2. i - 1 \in DOMAIN listing[s] /\ r[i] = listing[s][i - 1] /\ i - 1 > from + fresh
      BY <3>1, <2>2, <1>7
    <3> QED BY <3>2, <2>1, <2>4, <1>3, <1>6
  <2> QED BY <2>3, <2>4
<1>17. CountRight'
  BY <1>2, <1>3 DEF CountRight
<1>18. FirstHeld' /\ RemoteHeld'
  <2>1. added' # 0
    BY <1>2, <1>3
  <2>2. UNCHANGED <<portal, phase, search, found, first, cut, failed>> /\ ~moved /\ phase = "paging"
    BY <1>3
  <2>3. FirstHeld'
    BY <1>1, <2>1, <2>2 DEF FirstHeld, Smooth
  <2> QED BY <2>2, <2>3 DEF RemoteHeld
<1> QED BY <1>11, <1>13, <1>14, <1>15, <1>16, <1>17, <1>18 DEF CrawlInv

\* TakeOff: what is left was there.
LEMMA TakeOffKeeps ==
  ASSUME CrawlInv, NEW s \in Search, NEW k \in 1..Offers, TakeOff(s, k)
  PROVE  CrawlInv'
<1> DEFINE l == listing[s]
           r == SubSeq(l, 1, k - 1) \o SubSeq(l, k + 1, Len(l))
<1>1. CrawlTypeOK /\ Listed /\ PagesBounded
  BY DEF CrawlInv
<1>2. /\ listing \in [Search -> Seq(1..Offers)] /\ \A q \in Search : IsInjective(listing[q])
      /\ l \in Seq(1..Offers)
  BY <1>1 DEF CrawlTypeOK
<1>3. /\ k \in DOMAIN l
      /\ listing' = [listing EXCEPT ![s] = r]
      /\ moved' = TRUE
      /\ UNCHANGED <<portal, phase, search, page, from, pages, idle, dom, found, first, added, cut, failed, fresh>>
  BY DEF TakeOff, progress
<1>4. k \in 1..Len(l)
  BY <1>2, <1>3
<1>5. /\ r \in Seq(1..Offers)
      /\ \A i \in DOMAIN r : /\ r[i] = IF i < k THEN l[i] ELSE l[i + 1]
                             /\ i \in DOMAIN l /\ i + 1 \in DOMAIN l
  <2> HIDE DEF l
  <2> QED BY <1>2, <1>4, WithoutPlace
<1>a. DOMAIN r \subseteq Int
  <2> HIDE DEF r
  <2> QED BY <1>5
<1> HIDE DEF r
<1>6. /\ listing' \in [Search -> Seq(1..Offers)] /\ listing'[s] = r
      /\ \A q \in Search : q # s => listing'[q] = listing[q]
  BY <1>2, <1>3, <1>5
<1>7. IsInjective(r)
  <2> SUFFICES ASSUME NEW i \in DOMAIN r, NEW j \in DOMAIN r, r[i] = r[j] PROVE i = j
    BY DEF IsInjective
  <2>1. /\ i \in DOMAIN l /\ i + 1 \in DOMAIN l /\ j \in DOMAIN l /\ j + 1 \in DOMAIN l
        /\ r[i] = (IF i < k THEN l[i] ELSE l[i + 1])
        /\ r[j] = (IF j < k THEN l[j] ELSE l[j + 1])
    BY <1>5
  <2>2. \A a, b \in DOMAIN l : l[a] = l[b] => a = b
    BY <1>2 DEF IsInjective
  <2>3. i \in Int /\ j \in Int
    BY <1>a
  <2> HIDE DEF l
  <2>4. CASE i < k /\ j < k
    BY <2>1, <2>2, <2>4
  <2>5. CASE ~(i < k) /\ ~(j < k)
    <3>1. i + 1 = j + 1
      BY <2>1, <2>2, <2>5
    <3> QED BY <2>3, <3>1
  <2>6. CASE i < k /\ ~(j < k)
    <3>1. i = j + 1
      BY <2>1, <2>2, <2>6
    <3> QED BY <2>3, <2>6, <3>1
  <2>7. CASE ~(i < k) /\ j < k
    <3>1. i + 1 = j
      BY <2>1, <2>2, <2>7
    <3> QED BY <2>3, <2>7, <3>1
  <2> QED BY <2>4, <2>5, <2>6, <2>7
<1>8. \A q \in Search : Shown(q)' \subseteq Shown(q)
  <2> TAKE q \in Search
  <2>1. Shown(q)' = {listing'[q][i] : i \in DOMAIN listing'[q]}
    BY DEF Shown, Range
  <2>2. Shown(q) = {listing[q][i] : i \in DOMAIN listing[q]}
    BY ShownAt
  <2>3. CASE q # s
    BY <2>1, <2>2, <2>3, <1>6
  <2>4. CASE q = s
    <3>1. \A i \in DOMAIN r : r[i] \in Shown(q)
      BY <2>2, <2>4, <1>5
    <3> QED BY <2>1, <2>4, <1>6, <3>1
  <2> QED BY <2>3, <2>4
<1>9. CrawlTypeOK'
  <2>1. \A q \in Search : IsInjective(listing'[q])
    BY <1>2, <1>6, <1>7
  <2>2. Max({MaxPages, pages})' = Max({MaxPages, pages})
    BY <1>3
  <2> QED BY <1>1, <1>3, <1>6, <2>1, <2>2 DEF CrawlTypeOK
<1>10. Listed'
  BY <1>1, <1>3, <1>8 DEF Listed
<1>11. PagesBounded'
  BY <1>1, <1>3 DEF PagesBounded
<1>12. PassedTaken' /\ BelowUnseen' /\ CountRight' /\ FirstHeld' /\ RemoteHeld'
  BY <1>3 DEF PassedTaken, BelowUnseen, CountRight, FirstHeld, RemoteHeld, Smooth
<1> QED BY <1>9, <1>10, <1>11, <1>12 DEF CrawlInv

-----------------------------------------------------------------------------
(* A turn of a loop: the search ends, or goes on *)

\* A search ends, and what it promises is held: what the portal showed for it,
\* unless something was in the way.
LEMMA SearchEnds ==
  ASSUME CrawlInv, Request, EndSearch,
         failed' \in BOOLEAN, cut' \in BOOLEAN, failed => failed', cut => cut',
         found' \subseteq 1..Offers, ~failed' => found \subseteq found',
         Smooth /\ ~failed' /\ ~cut' /\ (portal \in Counting => added = 0)
           /\ (search = "all" \/ portal = "nofluffjobs") => first[search] \subseteq found'
  PROVE  CrawlInv'
<1>1. CrawlTypeOK /\ Listed /\ PagesBounded /\ FirstHeld
  BY DEF CrawlInv
<1>2. phase = "paging" /\ fresh' = 0 /\ UNCHANGED <<portal, listing, first, moved, added>>
  BY DEF Request
<1>3. \/ /\ portal \in TwoSearches /\ search = "all" /\ search' = "remote"
         /\ page' = 1 /\ from' = 0 /\ pages' = 1 /\ idle' = 0 /\ dom' = {}
         /\ phase' = phase
      \/ /\ ~(portal \in TwoSearches /\ search = "all") /\ phase' = "done"
         /\ UNCHANGED <<search, page, from, pages, idle, dom>>
  BY DEF EndSearch, progress
<1>4. CrawlTypeOK'
  <2>1. search' \in Search /\ phase' \in {"paging", "done"}
    BY <1>1, <1>2, <1>3 DEF CrawlTypeOK, Search
  <2>2. /\ page' \in 1..(Max({MaxPages, pages'}) + 1)
        /\ from' \in 0..(page' * PageSize) /\ pages' \in Nat \ {0} /\ idle' \in 0..MaxIdle
        /\ dom' \subseteq 1..Offers
    <3>1. CASE page' = 1 /\ from' = 0 /\ pages' = 1 /\ idle' = 0 /\ dom' = {}
      <4>1. page' \in Nat \ {0} /\ pages' \in Nat \ {0} /\ page' <= MaxPages + 1
        BY <3>1
      <4>2. page' \in 1..(Max({MaxPages, pages'}) + 1)
        BY <4>1, PageInRange
      <4>3. from' \in 0..(page' * PageSize)
        BY <3>1
      <4> QED BY <3>1, <4>1, <4>2, <4>3
    <3>2. CASE UNCHANGED <<search, page, from, pages, idle, dom>>
      <4>1. Max({MaxPages, pages'}) = Max({MaxPages, pages})
        BY <3>2
      <4> QED BY <1>1, <3>2, <4>1 DEF CrawlTypeOK
    <3> QED BY <1>3, <3>1, <3>2
  <2>3. fresh' \in 0..MaxFresh
    BY <1>2
  <2>4. /\ portal' \in Portal
        /\ listing' \in [Search -> Seq(1..Offers)] /\ \A s \in Search : IsInjective(listing'[s])
        /\ first' \in [Search -> SUBSET (1..Offers)] /\ added' \in 0..New /\ moved' \in BOOLEAN
    BY <1>1, <1>2 DEF CrawlTypeOK
  <2> QED BY <2>1, <2>2, <2>3, <2>4 DEF CrawlTypeOK
<1>5. Listed'
  <2>1. \A s \in Search : Shown(s)' = Shown(s)
    BY <1>2 DEF Shown
  <2> QED BY <1>1, <1>2, <2>1 DEF Listed
<1>6. PagesBounded'
  <2>1. CASE portal \in TwoSearches /\ page' = 1
    BY <2>1, <1>2 DEF PagesBounded, TwoSearches, Counting
  <2>2. CASE UNCHANGED <<page, pages>>
    BY <2>2, <1>1, <1>2 DEF PagesBounded
  <2> QED BY <1>3, <2>1, <2>2
<1>7. PassedTaken'
  <2>1. CASE phase' = "done"
    BY <2>1 DEF PassedTaken
  <2>2. CASE from' = 0
    <3> SUFFICES ASSUME NEW i \in DOMAIN listing'[search'], i <= from' PROVE FALSE
      BY DEF PassedTaken
    <3>1. listing'[search'] \in Seq(1..Offers)
      BY <1>4 DEF CrawlTypeOK
    <3> QED BY <3>1, <2>2
  <2> QED BY <1>3, <2>1, <2>2
<1>8. BelowUnseen' /\ CountRight'
  BY <1>2, <1>3 DEF BelowUnseen, CountRight, TwoSearches, Counting
<1>9. FirstHeld'
  <2> SUFFICES ASSUME Smooth', ~cut', (portal \in Counting => added = 0) PROVE first["all"] \subseteq found'
    BY <1>2 DEF FirstHeld
  <2>1. Smooth /\ ~cut /\ ~failed'
    BY <1>2 DEF Smooth
  <2>2. CASE search = "all"
    BY <2>1, <2>2
  <2>3. CASE search = "remote"
    BY <2>1, <2>3, <1>1 DEF FirstHeld
  <2> QED BY <1>1, <2>2, <2>3 DEF CrawlTypeOK, Search
<1>10. RemoteHeld'
  <2> SUFFICES ASSUME Smooth', ~cut', phase' = "done", portal = "nofluffjobs"
               PROVE  first["remote"] \subseteq found'
    BY <1>2 DEF RemoteHeld
  <2>1. Smooth /\ ~failed'
    BY <1>2 DEF Smooth
  <2>2. search = "remote"
    BY <1>1, <1>2, <1>3 DEF CrawlTypeOK, Search, TwoSearches
  <2> QED BY <2>1, <2>2 DEF Counting
<1> QED BY <1>4, <1>5, <1>6, <1>7, <1>8, <1>9, <1>10 DEF CrawlInv

\* A search that collects window by window goes on.
LEMMA CollectGoesOn ==
  ASSUME CrawlInv, Request, portal # "nofluffjobs",
         found' = found \cup Cards, page' = page + 1,
         from' \in Int, from <= from', from' <= from + PageSize,
         from' = from + PageSize \/ Total <= from',
         portal \in Counting => from' = from + PageSize,
         portal # "justjoinit" => page' <= MaxPages,
         pages' = (IF page = 1 THEN Announced ELSE pages),
         portal \in Counting => page' <= pages',
         cut' \in BOOLEAN, cut => cut',
         UNCHANGED <<phase, search, idle, dom, failed>>
  PROVE  CrawlInv'
<1>1. CrawlTypeOK /\ Listed /\ PagesBounded /\ PassedTaken /\ BelowUnseen /\ CountRight /\ FirstHeld
  BY DEF CrawlInv
<1>2. phase = "paging" /\ fresh' = 0 /\ UNCHANGED <<portal, listing, first, moved, added>>
  BY DEF Request
<1>3. /\ listing \in [Search -> Seq(1..Offers)] /\ search \in Search /\ listing[search] \in Seq(1..Offers)
      /\ from \in Nat /\ page \in Nat \ {0} /\ pages \in Nat \ {0} /\ fresh \in Nat
      /\ from <= page * PageSize /\ found \subseteq 1..Offers
      /\ \A s \in Search : IsInjective(listing[s])
  <2>1. page \in 1..(Max({MaxPages, pages}) + 1)
    BY <1>1 DEF CrawlTypeOK
  <2>2. page \in Nat \ {0}
    BY <2>1
  <2>3. page * PageSize \in Nat
    BY <2>2
  <2>4. from \in 0..(page * PageSize)
    BY <1>1 DEF CrawlTypeOK
  <2>5. from \in Nat /\ from <= page * PageSize
    BY <2>3, <2>4
  <2> QED BY <1>1, <2>2, <2>5 DEF CrawlTypeOK
<1>4. /\ \A i \in DOMAIN listing[search] :
           from < i /\ i <= from + PageSize => listing[search][i] \in Cards
      /\ \A x \in Cards : \E i \in DOMAIN listing[search] :
           from < i /\ i <= from + PageSize /\ x = listing[search][i]
      /\ Cards \subseteq 1..Offers
  BY <1>3, WindowFacts DEF Cards
<1>5. pages' \in Nat \ {0} /\ Announced \in Nat \ {0} /\ Total <= Announced * PageSize /\ Total \in Nat
  BY <1>3, AnnouncedHolds
<1>a. Passed' = found' /\ Passed = found
  BY <1>2 DEF Passed
<1>6. CrawlTypeOK'
  <2>1. page' \in Nat \ {0} /\ (page' <= MaxPages + 1 \/ page' <= pages' + 1)
    <3>1. CASE portal = "justjoinit"
      <4>1. page' <= pages'
        BY <3>1 DEF Counting
      <4> QED BY <4>1, <1>3, <1>5
    <3>2. CASE portal # "justjoinit"
      BY <3>2, <1>3
    <3> QED BY <3>1, <3>2
  <2>2. page' \in 1..(Max({MaxPages, pages'}) + 1)
    BY <1>5, <2>1, PageInRange
  <2>3. from' \in 0..(page' * PageSize)
    <3>1. page' * PageSize = page * PageSize + PageSize /\ page * PageSize \in Nat
      BY <1>3
    <3> QED BY <1>3, <3>1
  <2>4. found' \subseteq 1..Offers
    BY <1>3, <1>4
  <2>5. fresh' \in 0..MaxFresh
    BY <1>2
  <2>6. /\ portal' \in Portal /\ phase' \in {"paging", "done"} /\ search' \in Search
        /\ listing' \in [Search -> Seq(1..Offers)] /\ \A s \in Search : IsInjective(listing'[s])
        /\ first' \in [Search -> SUBSET (1..Offers)] /\ added' \in 0..New
        /\ idle' \in 0..MaxIdle /\ dom' \subseteq 1..Offers
    BY <1>1, <1>2 DEF CrawlTypeOK
  <2>7. moved' \in BOOLEAN /\ failed' \in BOOLEAN
    BY <1>1, <1>2 DEF CrawlTypeOK
  <2> QED BY <1>5, <2>2, <2>3, <2>4, <2>5, <2>6, <2>7 DEF CrawlTypeOK
<1>7. Listed'
  <2>1. \A s \in Search : Shown(s)' = Shown(s)
    BY <1>2 DEF Shown
  <2> QED BY <1>1, <1>2, <2>1 DEF Listed
<1>8. PagesBounded'
  BY <1>2 DEF PagesBounded
<1>9. PassedTaken'
  <2> SUFFICES ASSUME Smooth', NEW i \in DOMAIN listing[search], i <= from', listing[search][i] \in first[search]
               PROVE  listing[search][i] \in found'
    BY <1>2, <1>a DEF PassedTaken
  <2>1. i \in Int
    BY <1>3
  <2>2. CASE i <= from
    <3>1. Smooth
      BY <1>2 DEF Smooth
    <3> QED BY <2>2, <3>1, <1>1, <1>2, <1>a DEF PassedTaken
  <2>3. CASE ~(i <= from)
    BY <2>1, <2>3, <1>3, <1>4
  <2> QED BY <2>2, <2>3
<1>10. BelowUnseen'
  <2> SUFFICES ASSUME Smooth', search = "all", NEW i \in DOMAIN listing["all"], i > from'
               PROVE  listing["all"][i] \notin found'
    BY <1>2, <1>6 DEF BelowUnseen
  <2>1. i \in Int /\ i <= Total
    <3>1. DOMAIN listing[search] = 1..Total /\ Total \in Nat
      BY <1>3 DEF Total
    <3> QED BY <3>1
  <2>2. from' = from + PageSize
    BY <2>1, <1>5
  <2>3. Smooth /\ fresh < PageSize
    BY <1>1, <1>2 DEF Smooth, Listed
  <2>4. listing["all"][i] \notin found
    BY <2>1, <2>2, <2>3, <1>1, <1>2, <1>3 DEF BelowUnseen
  <2>5. listing["all"][i] \notin Cards
    <3> SUFFICES ASSUME NEW j \in DOMAIN listing[search], j <= from + PageSize,
                        listing["all"][i] = listing[search][j]
                 PROVE  FALSE
      BY <1>4
    <3>1. i = j
      BY <1>3 DEF IsInjective
    <3> QED BY <3>1, <2>1, <2>2, <1>3
  <2> QED BY <2>4, <2>5
<1>11. CountRight'
  <2> SUFFICES ASSUME Smooth', portal \in Counting, added = 0
               PROVE  /\ from' = (page' - 1) * PageSize
                      /\ page' > 1 => Total' <= pages' * PageSize
    BY <1>2 DEF CountRight
  <2>1. from = (page - 1) * PageSize /\ (page > 1 => Total <= pages * PageSize)
    BY <1>1, <1>2 DEF CountRight, Smooth
  <2>2. from' = from + PageSize
    OBVIOUS
  <2>3. (page - 1) * PageSize + PageSize = page * PageSize
    BY <1>3
  <2>4. page' - 1 = page
    BY <1>3
  <2>5. Total' = Total
    BY <1>2 DEF Total
  <2>6. Total <= pages' * PageSize
    <3>1. CASE page = 1
      BY <3>1, <1>5
    <3>2. CASE page # 1
      BY <3>2, <2>1, <1>3
    <3> QED BY <3>1, <3>2
  <2> QED BY <2>1, <2>2, <2>3, <2>4, <2>5, <2>6
<1>12. FirstHeld' /\ RemoteHeld'
  BY <1>1, <1>2 DEF FirstHeld, RemoteHeld, Smooth
<1> QED BY <1>6, <1>7, <1>8, <1>9, <1>10, <1>11, <1>12 DEF CrawlInv

-----------------------------------------------------------------------------
(* The strategies *)

\* A window that reaches the end of the list completes what was there at first.
LEMMA LastWindow ==
  ASSUME CrawlInv, phase = "paging", portal # "nofluffjobs", Smooth, Total <= from + PageSize
  PROVE  first[search] \subseteq found \cup Cards
<1>1. CrawlTypeOK /\ Listed /\ PassedTaken
  BY DEF CrawlInv
<1>2. listing[search] \in Seq(1..Offers) /\ from \in Nat /\ search \in Search
  <2>1. page \in Int /\ from \in 0..(page * PageSize)
    BY <1>1 DEF CrawlTypeOK
  <2> QED BY <1>1, <2>1 DEF CrawlTypeOK
<1>3. \A i \in DOMAIN listing[search] : from < i /\ i <= from + PageSize => listing[search][i] \in Cards
  BY <1>2, WindowFacts DEF Cards
<1> SUFFICES ASSUME NEW x \in first[search] PROVE x \in found \cup Cards
  OBVIOUS
<1>4. x \in Shown(search)
  BY <1>1, <1>2 DEF Listed, Smooth
<1>5. PICK i \in DOMAIN listing[search] : x = listing[search][i]
  BY <1>2, <1>4, ShownAt
<1>6. i \in Int /\ i <= Total /\ Total \in Nat
  BY <1>2 DEF Total
<1>7. CASE i <= from
  BY <1>5, <1>7, <1>1 DEF PassedTaken, Passed
<1>8. CASE ~(i <= from)
  BY <1>2, <1>3, <1>5, <1>6, <1>8
<1> QED BY <1>7, <1>8

\* In the first search a window without news reaches the end of the list: fewer
\* offers than it has were added since it was asked for, so that its last one,
\* were there more, had never been seen.
LEMMA NoNewsIsTheEnd ==
  ASSUME CrawlInv, phase = "paging", portal # "nofluffjobs", Smooth, search = "all", NothingNew
  PROVE  Total <= from + PageSize
<1>1. CrawlTypeOK /\ Listed /\ BelowUnseen
  BY DEF CrawlInv
<1>2. listing[search] \in Seq(1..Offers) /\ from \in Nat /\ search \in Search /\ fresh \in Nat
  <2>1. page \in Int /\ from \in 0..(page * PageSize)
    BY <1>1 DEF CrawlTypeOK
  <2> QED BY <1>1, <2>1 DEF CrawlTypeOK
<1>3. \A i \in DOMAIN listing[search] : from < i /\ i <= from + PageSize => listing[search][i] \in found
  BY <1>2, WindowFacts DEF Cards, NothingNew
<1>4. \A i \in DOMAIN listing[search] : i > from + fresh => listing[search][i] \notin found
  BY <1>1 DEF BelowUnseen
<1>5. fresh < PageSize
  BY <1>1 DEF Listed, Smooth
<1>6. Total \in Nat /\ DOMAIN listing[search] = 1..Total
  BY <1>2 DEF Total
<1> SUFFICES ASSUME from + PageSize < Total PROVE FALSE
  BY <1>2, <1>6
<1> DEFINE i == from + fresh + 1
<1>7. i \in DOMAIN listing[search] /\ from < i /\ i <= from + PageSize /\ i > from + fresh
  BY <1>2, <1>5, <1>6
<1> HIDE DEF i
<1> QED BY <1>3, <1>4, <1>7

\* What a turn starts from.
LEMMA TurnTypes ==
  ASSUME CrawlInv
  PROVE  /\ listing[search] \in Seq(1..Offers) /\ from \in Nat /\ search \in Search
         /\ page \in Nat \ {0} /\ pages \in Nat \ {0} /\ from <= page * PageSize
         /\ found \subseteq 1..Offers /\ dom \subseteq 1..Offers
         /\ cut \in BOOLEAN /\ failed \in BOOLEAN /\ portal \in Portal
         /\ Cards \subseteq 1..Offers
         /\ Total \in Nat
         /\ AtLimit \in BOOLEAN /\ NothingNew \in BOOLEAN /\ More \in BOOLEAN
         /\ Len(Window(from)) \in Nat /\ Len(Window(from)) <= PageSize
         /\ Len(Window(from)) = PageSize \/ Total <= from + Len(Window(from))
<1>1. CrawlTypeOK
  BY DEF CrawlInv
<1>2. page \in 1..(Max({MaxPages, pages}) + 1) /\ from \in 0..(page * PageSize)
  BY <1>1 DEF CrawlTypeOK
<1>3. page \in Nat \ {0}
  BY <1>2
<1>4. page * PageSize \in Nat
  BY <1>3
<1>5. from \in Nat /\ from <= page * PageSize
  BY <1>2, <1>4
<1>6. listing[search] \in Seq(1..Offers) /\ search \in Search
  BY <1>1 DEF CrawlTypeOK
<1>7. Cards \subseteq 1..Offers /\ Len(Window(from)) \in Nat /\ Len(Window(from)) <= PageSize
      /\ (Len(Window(from)) = PageSize \/ Total <= from + Len(Window(from)))
  BY <1>5, <1>6, WindowFacts DEF Cards
<1>8. Total \in Nat
  BY <1>6 DEF Total
<1>9. AtLimit \in BOOLEAN /\ NothingNew \in BOOLEAN /\ More \in BOOLEAN
  BY DEF AtLimit, NothingNew, More
<1>10. /\ pages \in Nat \ {0} /\ found \subseteq 1..Offers /\ dom \subseteq 1..Offers
       /\ portal \in Portal
  BY <1>1 DEF CrawlTypeOK
<1>11. cut \in BOOLEAN /\ failed \in BOOLEAN
  BY <1>1 DEF CrawlTypeOK
<1> QED BY <1>3, <1>5, <1>6, <1>7, <1>8, <1>9, <1>10, <1>11

\* The strategies that collect a window and stop for want of news, at the end
\* of the links or at their limit.
LEMMA NewsKeeps ==
  ASSUME CrawlInv, Request, UNCHANGED failed,
         portal \in {"olx", "bulldogjob", "theprotocol", "linkedin"},
         NEW step \in Nat, step <= PageSize, step = PageSize \/ Total <= from + step,
         \/ Collect(NothingNew \/ page = MaxPages, step)
         \/ portal = "olx" /\ Collect(NothingNew \/ ~More \/ page = MaxPages, step),
         cut' = (cut \/ AtLimit)
  PROVE  CrawlInv'
<1>1. /\ from \in Nat /\ page \in Nat \ {0} /\ found \subseteq 1..Offers /\ Cards \subseteq 1..Offers
      /\ Total \in Nat /\ search \in Search
  BY TurnTypes
<1>2. cut' \in BOOLEAN /\ (cut => cut') /\ failed' \in BOOLEAN /\ (AtLimit => cut')
  <2>1. (cut \/ AtLimit) \in BOOLEAN /\ (cut => (cut \/ AtLimit)) /\ (AtLimit => (cut \/ AtLimit))
    OBVIOUS
  <2> QED BY <2>1, TurnTypes
<1>3. phase = "paging" /\ page <= MaxPages /\ portal \notin Counting /\ portal # "nofluffjobs"
  BY DEF Request, CrawlInv, PagesBounded, Counting
<1>4. found' = found \cup Cards
  BY DEF Collect
<1>5. CASE EndSearch /\ (NothingNew \/ ~More \/ page = MaxPages)
  <2>1. ASSUME Smooth, ~cut', search = "all" PROVE first[search] \subseteq found'
    <3>1. CASE NothingNew
      BY <2>1, <3>1, <1>3, <1>4, NoNewsIsTheEnd, LastWindow
    <3>2. CASE ~More
      <4>1. Total <= from + PageSize
        BY <3>2, <1>1 DEF More
      <4> QED BY <2>1, <4>1, <1>3, <1>4, LastWindow
    <3>3. CASE page = MaxPages /\ More
      BY <2>1, <3>3, <1>2 DEF AtLimit
    <3> QED BY <1>5, <3>1, <3>2, <3>3
  <2>2. found' \subseteq 1..Offers /\ found \subseteq found'
    BY <1>1, <1>4
  <2>3. Smooth /\ ~failed' /\ ~cut' /\ (portal \in Counting => added = 0)
        /\ (search = "all" \/ portal = "nofluffjobs") => first[search] \subseteq found'
    BY <2>1, <1>2, <1>3
  <2>4. (failed => failed') /\ (cut => cut') /\ (~failed' => found \subseteq found')
    BY <2>2, <1>2, <1>3, <1>4
  <2> QED BY <1>2, <1>5, <2>2, <2>3, <2>4, SearchEnds
<1>6. CASE /\ page # MaxPages
           /\ page' = page + 1 /\ from' = from + step
           /\ pages' = (IF page = 1 THEN Announced ELSE pages)
           /\ UNCHANGED <<phase, search, idle, dom>>
  <2>1. from' \in Int /\ from <= from' /\ from' <= from + PageSize
        /\ (from' = from + PageSize \/ Total <= from')
    BY <1>1, <1>6
  <2>2. page' <= MaxPages
    BY <1>1, <1>3, <1>6
  <2> QED BY <1>2, <1>3, <1>4, <1>6, <2>1, <2>2, CollectGoesOn
<1> QED BY <1>5, <1>6 DEF Collect

\* JustJoinIT.
LEMMA JustJoinITKeeps ==
  ASSUME CrawlInv, Request, UNCHANGED failed, portal = "justjoinit", JustJoinIT
  PROVE  CrawlInv'
<1> DEFINE last == IF page = 1 THEN Announced ELSE pages
           full == Len(Window(from)) < PageSize
<1>1. /\ from \in Nat /\ page \in Nat \ {0} /\ found \subseteq 1..Offers /\ Cards \subseteq 1..Offers
      /\ Total \in Nat /\ search \in Search /\ cut \in BOOLEAN /\ failed \in BOOLEAN
      /\ listing[search] \in Seq(1..Offers) /\ pages \in Nat \ {0}
  BY TurnTypes
<1>2. phase = "paging" /\ portal \in Counting
  BY DEF Request, Counting
<1>3. found' = found \cup Cards /\ cut' = cut
  BY DEF JustJoinIT, Collect
<1>4. Announced \in Nat \ {0} /\ Total <= Announced * PageSize
  BY <1>1, AnnouncedHolds
<1>5. \/ EndSearch /\ (full \/ page >= last)
      \/ /\ ~(page >= last)
         /\ page' = page + 1 /\ from' = from + PageSize /\ pages' = last
         /\ UNCHANGED <<phase, search, idle, dom>>
  BY DEF JustJoinIT, Collect
<1>6. CASE EndSearch /\ (full \/ page >= last)
  <2>1. ASSUME Smooth, added = 0 PROVE first[search] \subseteq found'
    <3>1. Total <= from + PageSize
      <4>1. CASE full
        BY <4>1, <1>1, TurnTypes
      <4>2. CASE page >= last
        <5>1. from = (page - 1) * PageSize /\ (page > 1 => Total <= pages * PageSize)
          BY <2>1, <1>2 DEF CrawlInv, CountRight
        <5>2. last \in Nat \ {0} /\ Total <= last * PageSize
          BY <5>1, <1>1, <1>4
        <5> HIDE DEF last
        <5>3. last * PageSize <= page * PageSize
          BY <5>2, <4>2, <1>1
        <5>4. (page - 1) * PageSize + PageSize = page * PageSize /\ page * PageSize \in Nat
              /\ last * PageSize \in Nat
          BY <1>1, <5>2
        <5> QED BY <5>1, <5>2, <5>3, <5>4, <1>1
      <4> QED BY <1>6, <4>1, <4>2
    <3> QED BY <2>1, <3>1, <1>2, <1>3, LastWindow
  <2>2. found' \subseteq 1..Offers /\ found \subseteq found'
    BY <1>1, <1>3
  <2>3. cut' \in BOOLEAN /\ failed' \in BOOLEAN
    BY <1>1, <1>3
  <2>4. Smooth /\ ~failed' /\ ~cut' /\ (portal \in Counting => added = 0)
        /\ (search = "all" \/ portal = "nofluffjobs") => first[search] \subseteq found'
    BY <2>1, <1>2, <1>3
  <2>5. (failed => failed') /\ (cut => cut') /\ (~failed' => found \subseteq found')
    BY <2>2, <1>2, <1>3, <1>4
  <2> QED BY <1>6, <2>2, <2>3, <2>4, <2>5, SearchEnds
<1>7. CASE /\ ~(page >= last)
           /\ page' = page + 1 /\ from' = from + PageSize /\ pages' = last
           /\ UNCHANGED <<phase, search, idle, dom>>
  <2>1. from' \in Int /\ from <= from' /\ from' <= from + PageSize
    BY <1>1, <1>7
  <2>2. page' <= pages'
    BY <1>1, <1>4, <1>7
  <2>3. cut' \in BOOLEAN
    BY <1>1, <1>3
  <2> QED BY <1>1, <1>2, <1>3, <1>7, <2>1, <2>2, <2>3, CollectGoesOn
<1> QED BY <1>5, <1>6, <1>7

\* Pracuj.pl.
LEMMA PracujPlKeeps ==
  ASSUME CrawlInv, Request, UNCHANGED failed, portal = "pracujpl", PracujPl
  PROVE  CrawlInv'
<1> DEFINE all == IF page = 1 THEN Announced ELSE pages
           last == Min({all, MaxPages})
<1>1. /\ from \in Nat /\ page \in Nat \ {0} /\ found \subseteq 1..Offers /\ Cards \subseteq 1..Offers
      /\ Total \in Nat /\ search \in Search /\ failed \in BOOLEAN
      /\ listing[search] \in Seq(1..Offers) /\ pages \in Nat \ {0}
  BY TurnTypes
<1>2. phase = "paging" /\ portal \in Counting /\ page <= MaxPages
  BY DEF Request, Counting, CrawlInv, PagesBounded
<1>3. found' = found \cup Cards
  BY DEF PracujPl, Collect
<1>4. cut' \in BOOLEAN /\ (cut => cut') /\ (AtLimit => cut')
  <2>1. (cut \/ AtLimit) \in BOOLEAN /\ (cut => (cut \/ AtLimit)) /\ (AtLimit => (cut \/ AtLimit))
    OBVIOUS
  <2>2. cut' = (cut \/ AtLimit)
    BY DEF PracujPl
  <2> QED BY <2>1, <2>2
<1>5. Announced \in Nat \ {0} /\ Total <= Announced * PageSize
  BY <1>1, AnnouncedHolds
<1>6. \/ EndSearch /\ (Cards = {} \/ page >= last)
      \/ /\ ~(page >= last)
         /\ page' = page + 1 /\ from' = from + PageSize /\ pages' = all
         /\ UNCHANGED <<phase, search, idle, dom>>
  BY DEF PracujPl, Collect
<1>7. all \in Nat \ {0}
  BY <1>1, <1>5
<1>8. last \in {all, MaxPages} /\ last <= all /\ last <= MaxPages
  <2>1. all \in Int /\ MaxPages \in Int
    BY <1>7
  <2> HIDE DEF all
  <2> QED BY <2>1, MinOfTwo
<1>9. CASE EndSearch /\ (Cards = {} \/ page >= last)
  <2>1. ASSUME Smooth, added = 0, ~cut' PROVE first[search] \subseteq found'
    <3>1. Total <= from + PageSize
      <4>1. CASE Cards = {}
        <5> SUFFICES ASSUME from + PageSize < Total PROVE FALSE
          BY <1>1
        <5>1. from + 1 \in DOMAIN listing[search] /\ from < from + 1 /\ from + 1 <= from + PageSize
          BY <1>1 DEF Total
        <5>2. listing[search][from + 1] \in Cards
          BY <5>1, <1>1, WindowFacts DEF Cards
        <5> QED BY <4>1, <5>2
      <4>2. CASE page >= last /\ last = all
        <5>1. from = (page - 1) * PageSize /\ (page > 1 => Total <= pages * PageSize)
          BY <2>1, <1>2 DEF CrawlInv, CountRight
        <5>2. Total <= all * PageSize
          BY <5>1, <1>1, <1>5
        <5> HIDE DEF all, last
        <5>3. all * PageSize <= page * PageSize
          BY <1>7, <4>2, <1>1
        <5>4. (page - 1) * PageSize + PageSize = page * PageSize /\ page * PageSize \in Nat
              /\ all * PageSize \in Nat
          BY <1>1, <1>7
        <5> QED BY <5>1, <5>2, <5>3, <5>4, <1>1
      <4>3. CASE page >= last /\ last = MaxPages
        <5>1. page = MaxPages
          BY <4>3, <1>1, <1>2
        <5>2. ~More
          BY <5>1, <2>1, <1>4 DEF AtLimit
        <5> QED BY <5>2, <1>1 DEF More
      <4> HIDE DEF last
      <4> QED BY <1>8, <1>9, <4>1, <4>2, <4>3
    <3> QED BY <2>1, <3>1, <1>2, <1>3, LastWindow
  <2>2. found' \subseteq 1..Offers /\ found \subseteq found'
    BY <1>1, <1>3
  <2>3. failed' \in BOOLEAN
    BY <1>1
  <2>4. Smooth /\ ~failed' /\ ~cut' /\ (portal \in Counting => added = 0)
        /\ (search = "all" \/ portal = "nofluffjobs") => first[search] \subseteq found'
    BY <2>1, <1>2, <1>3
  <2>5. (failed => failed') /\ (cut => cut') /\ (~failed' => found \subseteq found')
    BY <2>2, <1>2, <1>3, <1>4
  <2> QED BY <1>4, <1>9, <2>2, <2>3, <2>4, <2>5, SearchEnds
<1>10. CASE /\ ~(page >= last)
            /\ page' = page + 1 /\ from' = from + PageSize /\ pages' = all
            /\ UNCHANGED <<phase, search, idle, dom>>
  <2>1. from' \in Int /\ from <= from' /\ from' <= from + PageSize
    BY <1>1, <1>10
  <2>2. page' <= pages' /\ page' <= MaxPages
    <3> HIDE DEF all, last
    <3>1. last \in Nat
      BY <1>7, <1>8
    <3> QED BY <1>1, <1>7, <1>8, <1>10, <3>1
  <2> QED BY <1>1, <1>2, <1>3, <1>4, <1>10, <2>1, <2>2, CollectGoesOn
<1> QED BY <1>6, <1>9, <1>10

\* NoFluffJobs: the open page keeps what it has, and grows by the next window.
LEMMA NoFluffJobsKeeps ==
  ASSUME CrawlInv, Request, UNCHANGED failed, portal = "nofluffjobs",
         NEW works \in BOOLEAN, NoFluffJobs(works)
  PROVE  CrawlInv'
<1> DEFINE start == IF page = 1 THEN PageSize ELSE from
           cards == IF page = 1 THEN Range(Window(0)) ELSE dom
           more == cards \cup Range(Window(start))
<1>1. /\ from \in Nat /\ page \in Nat \ {0} /\ found \subseteq 1..Offers /\ dom \subseteq 1..Offers
      /\ Total \in Nat /\ search \in Search /\ cut \in BOOLEAN /\ failed \in BOOLEAN
      /\ listing[search] \in Seq(1..Offers) /\ pages \in Nat \ {0} /\ from <= page * PageSize
  BY TurnTypes
<1>2. /\ phase = "paging" /\ page <= MaxPages + 1 /\ portal \notin Counting
      /\ fresh' = 0 /\ UNCHANGED <<portal, listing, first, moved, added>>
  BY DEF Request, Counting, CrawlInv, PagesBounded
<1>3. CrawlTypeOK /\ Listed /\ PassedTaken /\ BelowUnseen /\ FirstHeld
  BY DEF CrawlInv
<1>4. start \in Nat /\ start <= page * PageSize
  <2>1. CASE page = 1
    BY <2>1
  <2>2. CASE page # 1
    BY <2>2, <1>1
  <2> QED BY <2>1, <2>2
<1>5. Range(Window(0)) \subseteq 1..Offers
      /\ \A i \in DOMAIN listing[search] : 0 < i /\ i <= PageSize => listing[search][i] \in Range(Window(0))
  <2>1. 0 \in Nat
    OBVIOUS
  <2>2. Range(Window(0)) \subseteq 1..Offers
        /\ \A i \in DOMAIN listing[search] : 0 < i /\ i <= 0 + PageSize => listing[search][i] \in Range(Window(0))
    BY <1>1, <2>1, WindowFacts
  <2> QED BY <2>2
<1>6. cards \subseteq 1..Offers
  BY <1>1, <1>5
<1>7. DOMAIN listing[search] = 1..Total
  BY <1>1 DEF Total
<1>8. Smooth => \A i \in DOMAIN listing[search] :
                  i <= start /\ listing[search][i] \in first[search] => listing[search][i] \in cards
  <2>1. CASE page = 1
    BY <2>1, <1>5, <1>7
  <2>2. CASE page # 1
    <3>1. page > 1
      BY <2>2, <1>1
    <3> QED BY <2>2, <3>1, <1>2, <1>3 DEF PassedTaken, Passed
  <2> QED BY <2>1, <2>2
<1>9. \/ /\ found' = found \cup cards /\ cut' = (cut \/ start < Total) /\ EndSearch
      \/ /\ ~(start >= Total \/ page > MaxPages \/ idle = MaxIdle)
         /\ page' = page + 1
         /\ from' = (IF works THEN start + PageSize ELSE start)
         /\ dom' = (IF works THEN more ELSE cards)
         /\ idle' = (IF works \/ page = 1 THEN 0 ELSE idle + 1)
         /\ UNCHANGED <<phase, search, pages, found, cut>>
  BY DEF NoFluffJobs
<1>10. \A i \in DOMAIN listing[search] :
         start < i /\ i <= start + PageSize => listing[search][i] \in Range(Window(start))
  <2> HIDE DEF start
  <2> QED BY <1>1, <1>4, WindowFacts
<1>11. more \subseteq 1..Offers
  <2>1. Range(Window(start)) \subseteq 1..Offers
    <3> HIDE DEF start
    <3> QED BY <1>1, <1>4, WindowFacts
  <2> HIDE DEF cards
  <2> QED BY <1>6, <2>1
<1>12. CASE found' = found \cup cards /\ cut' = (cut \/ start < Total) /\ EndSearch
  <2> HIDE DEF start, cards
  <2>1. cut' \in BOOLEAN /\ (cut => cut') /\ (start < Total => cut')
    <3>1. (cut \/ start < Total) \in BOOLEAN /\ (cut => (cut \/ start < Total))
          /\ (start < Total => (cut \/ start < Total))
      OBVIOUS
    <3> QED BY <1>12, <3>1
  <2>2. ASSUME Smooth, ~cut' PROVE first[search] \subseteq found'
    <3>1. start >= Total
      BY <2>1, <2>2, <1>1, <1>4
    <3> SUFFICES ASSUME NEW x \in first[search] PROVE x \in cards
      BY <1>12
    <3>2. x \in Shown(search)
      BY <2>2, <1>1, <1>3 DEF Listed, Smooth
    <3>3. PICK i \in DOMAIN listing[search] : x = listing[search][i]
      BY <1>1, <3>2, ShownAt
    <3>4. i <= start
      BY <3>1, <1>1, <1>4, <1>7
    <3> QED BY <2>2, <3>3, <3>4, <1>8
  <2>3. found' \subseteq 1..Offers /\ found \subseteq found'
    BY <1>1, <1>6, <1>12
  <2>4. failed' \in BOOLEAN /\ (failed => failed') /\ (~failed' => found \subseteq found')
    BY <1>1, <2>3
  <2>5. Smooth /\ ~failed' /\ ~cut' /\ (portal \in Counting => added = 0)
        /\ (search = "all" \/ portal = "nofluffjobs") => first[search] \subseteq found'
    BY <2>2
  <2> QED BY <1>12, <2>1, <2>3, <2>4, <2>5, SearchEnds
<1>13. CASE /\ ~(start >= Total \/ page > MaxPages \/ idle = MaxIdle)
            /\ page' = page + 1
            /\ from' = (IF works THEN start + PageSize ELSE start)
            /\ dom' = (IF works THEN more ELSE cards)
            /\ idle' = (IF works \/ page = 1 THEN 0 ELSE idle + 1)
            /\ UNCHANGED <<phase, search, pages, found, cut>>
  <2>1. cards \subseteq more
    OBVIOUS
  <2> HIDE DEF start, cards, more
  <2>2. page' \in Nat \ {0} /\ page' > 1 /\ page' <= MaxPages + 1 /\ pages' \in Nat \ {0}
    BY <1>1, <1>13
  <2>3. page' \in 1..(Max({MaxPages, pages'}) + 1)
    BY <2>2, PageInRange
  <2>4. from' \in 0..(page' * PageSize)
    <3>1. page' * PageSize = page * PageSize + PageSize /\ page * PageSize \in Nat
      BY <1>1, <1>13
    <3>2. from' \in Nat /\ from' <= start + PageSize
      BY <1>4, <1>13
    <3> QED BY <3>1, <3>2, <1>4
  <2>5. dom' \subseteq 1..Offers
    BY <1>6, <1>11, <1>13
  <2>6. idle' \in 0..MaxIdle
    <3>1. idle \in 0..MaxIdle /\ idle # MaxIdle
      BY <1>3, <1>13 DEF CrawlTypeOK
    <3> QED BY <3>1, <1>13
  <2>7. CrawlTypeOK'
    <3>1. fresh' \in 0..MaxFresh
      BY <1>2
    <3>2. /\ portal' \in Portal /\ phase' \in {"paging", "done"} /\ search' \in Search
          /\ listing' \in [Search -> Seq(1..Offers)] /\ \A s \in Search : IsInjective(listing'[s])
          /\ first' \in [Search -> SUBSET (1..Offers)] /\ added' \in 0..New
          /\ found' \subseteq 1..Offers
      BY <1>2, <1>3, <1>13 DEF CrawlTypeOK
    <3>3. moved' \in BOOLEAN /\ cut' \in BOOLEAN /\ failed' \in BOOLEAN
      BY <1>2, <1>3, <1>13 DEF CrawlTypeOK
    <3> QED BY <2>2, <2>3, <2>4, <2>5, <2>6, <3>1, <3>2, <3>3 DEF CrawlTypeOK
  <2>8. Listed'
    <3>1. \A s \in Search : Shown(s)' = Shown(s)
      BY <1>2 DEF Shown
    <3> QED BY <1>2, <1>3, <3>1 DEF Listed
  <2>9. PagesBounded'
    BY <1>2, <2>2 DEF PagesBounded
  <2>10. PassedTaken'
    <3> SUFFICES ASSUME Smooth', NEW i \in DOMAIN listing[search], i <= from',
                        listing[search][i] \in first[search]
                 PROVE  listing[search][i] \in dom'
      BY <1>2, <1>13 DEF PassedTaken, Passed
    <3>1. Smooth
      BY <1>2 DEF Smooth
    <3>2. CASE i <= start
      BY <3>1, <3>2, <2>1, <1>8, <1>13
    <3>3. CASE ~(i <= start)
      <4>1. works /\ start < i /\ i <= start + PageSize
        BY <3>3, <1>1, <1>4, <1>7, <1>13
      <4> QED BY <4>1, <1>10, <1>13 DEF more
    <3> QED BY <3>2, <3>3
  <2>11. BelowUnseen'
    BY <1>2 DEF BelowUnseen
  <2>12. CountRight' /\ FirstHeld' /\ RemoteHeld'
    BY <1>2, <1>3, <1>13 DEF CountRight, FirstHeld, RemoteHeld, Smooth
  <2> QED BY <2>7, <2>8, <2>9, <2>10, <2>11, <2>12 DEF CrawlInv
<1> QED BY <1>9, <1>12, <1>13

-----------------------------------------------------------------------------
(* A crawl *)

\* An answer, whatever the strategy.
LEMMA AnsweredKeeps ==
  ASSUME CrawlInv, Answered
  PROVE  CrawlInv'
<1>1. Request /\ UNCHANGED failed
  BY DEF Answered
<1>2. Len(Window(from)) \in Nat /\ Len(Window(from)) <= PageSize
      /\ (Len(Window(from)) = PageSize \/ Total <= from + Len(Window(from)))
  BY TurnTypes
<1>3. CASE portal = "olx" /\ Olx
  <2>1. Collect(NothingNew \/ ~More \/ page = MaxPages, PageSize) /\ cut' = (cut \/ AtLimit)
    BY <1>3 DEF Olx
  <2>2. PageSize \in Nat /\ PageSize <= PageSize
    OBVIOUS
  <2> QED BY <1>1, <1>3, <2>1, <2>2, NewsKeeps
<1>4. CASE portal = "justjoinit" /\ JustJoinIT
  BY <1>1, <1>4, JustJoinITKeeps
<1>5. CASE portal = "pracujpl" /\ PracujPl
  BY <1>1, <1>5, PracujPlKeeps
<1>6. CASE portal \in {"bulldogjob", "theprotocol"} /\ Bulldog
  <2>1. Collect(NothingNew \/ page = MaxPages, PageSize) /\ cut' = (cut \/ AtLimit)
    BY <1>6 DEF Bulldog
  <2>2. PageSize \in Nat /\ PageSize <= PageSize
    OBVIOUS
  <2> QED BY <1>1, <1>6, <2>1, <2>2, NewsKeeps
<1>7. CASE portal = "linkedin" /\ LinkedIn
  <2>1. Collect(NothingNew \/ page = MaxPages, Len(Window(from))) /\ cut' = (cut \/ AtLimit)
    BY <1>7 DEF LinkedIn
  <2> QED BY <1>1, <1>2, <1>7, <2>1, NewsKeeps
<1>8. CASE portal = "nofluffjobs" /\ \E works \in BOOLEAN : NoFluffJobs(works)
  BY <1>1, <1>8, NoFluffJobsKeeps
<1> QED BY <1>3, <1>4, <1>5, <1>6, <1>7, <1>8 DEF Answered, TheProtocol

\* A failure ends the crawl, or the search.
LEMMA FailKeeps ==
  ASSUME CrawlInv, Request, Fail
  PROVE  CrawlInv'
<1>1. CrawlTypeOK /\ Listed /\ PagesBounded
  BY DEF CrawlInv
<1>2. failed' = TRUE /\ cut' = cut
  BY DEF Fail
<1>3. cut \in BOOLEAN /\ found \subseteq 1..Offers
  BY <1>1 DEF CrawlTypeOK
<1>4. CASE EndSearch /\ found' = found
  <2>1. failed' \in BOOLEAN /\ cut' \in BOOLEAN /\ (failed => failed') /\ (cut => cut')
    BY <1>2, <1>3
  <2>2. found' \subseteq 1..Offers /\ (~failed' => found \subseteq found')
    BY <1>2, <1>3, <1>4
  <2>3. Smooth /\ ~failed' /\ ~cut' /\ (portal \in Counting => added = 0)
        /\ (search = "all" \/ portal = "nofluffjobs") => first[search] \subseteq found'
    BY <1>2
  <2> QED BY <1>4, <2>1, <2>2, <2>3, SearchEnds
<1>5. CASE phase' = "done" /\ UNCHANGED progress /\ found' \subseteq 1..Offers
  <2>1. /\ UNCHANGED <<portal, listing, search, page, from, pages, idle, dom, first, moved, added>>
        /\ fresh' = 0
    BY <1>5 DEF Request, progress
  <2>2. CrawlTypeOK'
    <3>1. Max({MaxPages, pages})' = Max({MaxPages, pages})
      BY <2>1
    <3>2. phase' \in {"paging", "done"} /\ fresh' \in 0..MaxFresh
      BY <1>5, <2>1
    <3>3. cut' \in BOOLEAN /\ failed' \in BOOLEAN /\ moved' \in BOOLEAN
      BY <1>1, <1>2, <2>1 DEF CrawlTypeOK
    <3> QED BY <1>1, <1>5, <2>1, <3>1, <3>2, <3>3 DEF CrawlTypeOK
  <2>3. Listed'
    <3>1. \A s \in Search : Shown(s)' = Shown(s)
      BY <2>1 DEF Shown
    <3> QED BY <1>1, <2>1, <3>1 DEF Listed
  <2>4. PagesBounded'
    BY <1>1, <2>1 DEF PagesBounded
  <2>5. ~Smooth'
    BY <1>2 DEF Smooth
  <2>6. PassedTaken' /\ BelowUnseen' /\ CountRight' /\ FirstHeld' /\ RemoteHeld'
    BY <2>5 DEF PassedTaken, BelowUnseen, CountRight, FirstHeld, RemoteHeld
  <2> QED BY <2>2, <2>3, <2>4, <2>6 DEF CrawlInv
<1> QED BY <1>3, <1>4, <1>5 DEF Fail

\* Nothing happens.
LEMMA StandStill ==
  ASSUME CrawlInv, UNCHANGED crawlVars
  PROVE  CrawlInv'
<1>1. /\ CrawlTypeOK /\ Listed /\ PagesBounded
      /\ PassedTaken /\ BelowUnseen /\ CountRight /\ FirstHeld /\ RemoteHeld
  BY DEF CrawlInv
<1>2. UNCHANGED <<portal, listing, phase, search, page, from, pages, idle, dom, found,
                  first, moved, added, cut, failed, fresh>>
  BY DEF crawlVars, progress, history
<1>3. (\A s \in Search : Shown(s)' = Shown(s)) /\ Total' = Total
      /\ Max({MaxPages, pages})' = Max({MaxPages, pages})
      /\ Passed' = Passed /\ (Smooth' <=> Smooth)
  BY <1>2 DEF Shown, Total, Passed, Smooth
<1>4. CrawlTypeOK'
  BY <1>1, <1>2, <1>3 DEF CrawlTypeOK
<1>5. Listed' /\ PagesBounded'
  BY <1>1, <1>2, <1>3 DEF Listed, PagesBounded
<1>6. PassedTaken' /\ BelowUnseen'
  BY <1>1, <1>2, <1>3 DEF PassedTaken, BelowUnseen
<1>7. CountRight' /\ FirstHeld' /\ RemoteHeld'
  BY <1>1, <1>2, <1>3 DEF CountRight, FirstHeld, RemoteHeld
<1> QED BY <1>4, <1>5, <1>6, <1>7 DEF CrawlInv

LEMMA CrawlKeeps == CrawlInv /\ [CrawlNext]_crawlVars => CrawlInv'
<1> SUFFICES ASSUME CrawlInv, [CrawlNext]_crawlVars PROVE CrawlInv'
  OBVIOUS
<1>1. CASE Answered
  BY <1>1, AnsweredKeeps
<1>2. CASE Request /\ Fail
  BY <1>2, FailKeeps
<1>3. CASE \E s \in Search : Add(s) \/ \E i \in 1..Offers : TakeOff(s, i)
  BY <1>3, AddKeeps, TakeOffKeeps
<1>4. CASE UNCHANGED crawlVars
  BY <1>4, StandStill
<1> QED BY <1>1, <1>2, <1>3, <1>4 DEF CrawlNext

\* CrawlInv holds throughout.
LEMMA CrawlInvariant == CrawlSpec => []CrawlInv
BY CrawlBegins, CrawlKeeps, PTL DEF CrawlSpec

\* Type correctness of the paging loops: each stays within its own limit of
\* pages and of clicks without effect (fetchList of the seven strategies).
THEOREM CrawlTypes == CrawlSpec => []CrawlTypeOK
<1>1. CrawlInv => CrawlTypeOK
  BY DEF CrawlInv
<1> QED BY <1>1, CrawlInvariant, PTL

\* Whatever the sizes of pages and lists, and wherever offers are added
\* meanwhile: a crawl that nothing disturbs has every offer the portal showed
\* when it began (fetchList of the seven strategies, loadAllOffers).
THEOREM CrawlMissesNothing == CrawlSpec => []NothingMissed
<1>1. CrawlInv => NothingMissed
  BY DEF CrawlInv, NothingMissed, Undisturbed, FirstHeld, RemoteHeld, Smooth, Counting
<1> QED BY <1>1, CrawlInvariant, PTL
=============================================================================
