---------------------------- MODULE ScrapingPanel ----------------------------
(***************************************************************************)
(* The scraping page in the browsers of several users: ScrapingFacade and  *)
(* WebSocketService of each, the calls they make, the run queue of the API *)
(* and the gateway that tells every connected browser of a finished run.   *)
(* A run is asked for by a call that is answered at once; the page learns  *)
(* of its end from the gateway only.                                       *)
(***************************************************************************)
EXTENDS Naturals, Sequences, FiniteSets

CONSTANTS
  User,        \* one browser each
  Target,      \* the scrapers a run may be asked for; None asks for all
  Failures,    \* whether calls fail and connections break
  MaxActs,     \* bound: what the users and the scheduler do in one behaviour
  MaxFaults,   \* bound: broken connections, restarts of the API and reloads
  None

ASSUME PanelAssumption ==
  /\ MaxActs \in Nat /\ MaxFaults \in Nat
  /\ Failures \in BOOLEAN
  /\ None \notin User

VARIABLES
  running, runningId, lastResult,  \* the signals of each facade
  outdated,    \* the signal targets: users whose page was told of a change since
  calls,       \* the calls underway
  socket,      \* the connection of each WebSocketService
  events,      \* scrape:completed on its way to a browser
  queue,       \* the API: the run underway and those waiting
  acts, faults,  \* how much of the bounds is used
  crossed,     \* history: users whose loads overlapped or failed
  adrift,      \* history: users whose page lost track of their run
  missed       \* history: users to whom the end of a run was not told

facades == <<running, runningId, lastResult>>
lists == <<outdated, crossed>>
vars == <<facades, lists, calls, socket, events, queue, acts, faults, adrift, missed>>

Run == [by : User \cup {None}]

\* A call: whose, whether about all scrapers (runAll), whether the page that
\* made it is still there to hear, and whether the list read was changed before
\* its page heard.
CallState == [n : Nat, kind : {"load", "change", "run"}, by : User, all : BOOLEAN,
              heard : BOOLEAN, at : {"sent", "served", "refused"}, old : BOOLEAN]

\* A scraper is marked as running only while the page waits for a run, but for
\* pages that lost track of theirs.
MarkedWhileRunning == \A u \in User \ adrift : runningId[u] # None => running[u]

TypeOK ==
  /\ running \in [User -> BOOLEAN]
  /\ runningId \in [User -> Target \cup {None}]
  /\ lastResult \in [User -> Run \cup {None}]
  /\ MarkedWhileRunning
  /\ \A c \in calls : c \in CallState
  /\ socket \in [User -> {"none", "connecting", "up", "retrying"}]
  /\ \A e \in events : e.to \in User /\ e.run \in Run
  /\ queue \in Seq(Run)
  /\ acts \in 0..MaxActs /\ faults \in 0..MaxFaults
  /\ outdated \subseteq User /\ crossed \subseteq User /\ adrift \subseteq User /\ missed \subseteq User

Init ==
  /\ running = [u \in User |-> FALSE]
  /\ runningId = [u \in User |-> None]
  /\ lastResult = [u \in User |-> None]
  /\ calls = {}
  /\ socket = [u \in User |-> "connecting"]
  /\ events = {}
  /\ queue = <<>>
  /\ acts = 0 /\ faults = 0
  /\ outdated = {} /\ crossed = {} /\ adrift = {} /\ missed = {}

-----------------------------------------------------------------------------
Act == acts < MaxActs /\ acts' = acts + 1 /\ UNCHANGED faults
Fault == Failures /\ faults < MaxFaults /\ faults' = faults + 1 /\ UNCHANGED acts

Of(u, kind) == {c \in calls : c.by = u /\ c.kind = kind}

\* The runs u waits for: asked for or queued.
Outstanding(u) ==
  Of(u, "run") # {} \/ \E i \in DOMAIN queue : queue[i].by = u

\* Tells calls, or news, apart that are otherwise equal.
FreeNumber(S) == CHOOSE n \in 0..Cardinality(S) : \A x \in S : x.n # n

\* t: the scraper it is about, None if it is about all.
NewCall(u, kind, t, others) ==
  [n |-> FreeNumber(others), kind |-> kind, by |-> u, all |-> t = None, heard |-> TRUE, at |-> "sent", old |-> FALSE]

\* The page of u is told of a change: the lists read before are old.
Aged(u, cs) == {IF c.by = u /\ c.at = "served" THEN [c EXCEPT !.old = TRUE] ELSE c : c \in cs}

\* ScrapingFacade.load by the page of u, the calls in others being underway.
Load(u, others) ==
  /\ calls' = others \cup {NewCall(u, "load", None, others)}
  /\ crossed' = IF \E c \in others : c.by = u /\ c.kind = "load"
                THEN crossed \cup {u} ELSE crossed \ {u}

-----------------------------------------------------------------------------
(* Faulty variants: <definition>_<fault> is not part of the specification; *)
(* it stands for a plausible mistake in the code that a property catches.  *)

\* runAll and runOne do not raise running: only the answer would.
AskRun_NotRaised(u, t) ==
  /\ Act
  /\ ~running[u]
  /\ UNCHANGED running
  /\ runningId' = [runningId EXCEPT ![u] = t]
  /\ lastResult' = [lastResult EXCEPT ![u] = None]
  /\ calls' = calls \cup {NewCall(u, "run", t, calls)}
  /\ adrift' = IF Outstanding(u) THEN adrift ELSE adrift \ {u}
  /\ missed' = missed \ {u}
  /\ UNCHANGED <<lists, socket, events, queue>>

\* A finished run leaves the list as it was.
Completed_NoLoad(e) ==
  /\ e \in events
  /\ events' = events \ {e}
  /\ IF running[e.to]
     THEN /\ running' = [running EXCEPT ![e.to] = FALSE]
          /\ runningId' = [runningId EXCEPT ![e.to] = None]
          /\ lastResult' = [lastResult EXCEPT ![e.to] = e.run]
          /\ calls' = Aged(e.to, calls)
          /\ outdated' = outdated \cup {e.to}
          /\ adrift' = IF Outstanding(e.to) THEN adrift \cup {e.to} ELSE adrift
          /\ UNCHANGED crossed
     ELSE UNCHANGED <<facades, lists, calls, adrift>>
  /\ UNCHANGED <<socket, queue, acts, faults, missed>>

\* The run that ended is no longer waited for, but its scraper stays marked.
Completed_StaysMarked(e) ==
  /\ e \in events
  /\ events' = events \ {e}
  /\ IF running[e.to]
     THEN /\ running' = [running EXCEPT ![e.to] = FALSE]
          /\ lastResult' = [lastResult EXCEPT ![e.to] = e.run]
          /\ Load(e.to, Aged(e.to, calls))
          /\ outdated' = outdated \cup {e.to}
          /\ adrift' = IF Outstanding(e.to) THEN adrift \cup {e.to} ELSE adrift
          /\ UNCHANGED runningId
     ELSE UNCHANGED <<facades, lists, calls, adrift>>
  /\ UNCHANGED <<socket, queue, acts, faults, missed>>

-----------------------------------------------------------------------------
(* The page *)

\* ngOnInit of the scraping page.
Open(u) ==
  /\ Act
  /\ Load(u, calls)
  /\ UNCHANGED <<facades, outdated, socket, events, queue, adrift, missed>>

\* runAll (t = None) and runOne: the buttons are disabled while running.
AskRun(u, t) ==
  /\ Act
  /\ ~running[u]
  /\ running' = [running EXCEPT ![u] = TRUE]
  /\ runningId' = [runningId EXCEPT ![u] = t]
  /\ lastResult' = [lastResult EXCEPT ![u] = None]
  /\ calls' = calls \cup {NewCall(u, "run", t, calls)}
  /\ adrift' = IF Outstanding(u) THEN adrift ELSE adrift \ {u}
  /\ missed' = missed \ {u}
  /\ UNCHANGED <<lists, socket, events, queue>>

\* add, edit, clearOffers, remove, addSchedule, editSchedule, removeSchedule.
Change(u) ==
  /\ Act
  /\ calls' = calls \cup {NewCall(u, "change", None, calls)}
  /\ UNCHANGED <<facades, lists, socket, events, queue, adrift, missed>>

\* scrapeCompleted$: whoever asked for the run.
Completed(e) ==
  /\ e \in events
  /\ events' = events \ {e}
  /\ IF running[e.to]
     THEN /\ running' = [running EXCEPT ![e.to] = FALSE]
          /\ runningId' = [runningId EXCEPT ![e.to] = None]
          /\ lastResult' = [lastResult EXCEPT ![e.to] = e.run]
          /\ Load(e.to, Aged(e.to, calls))
          /\ outdated' = outdated \cup {e.to}
          /\ adrift' = IF Outstanding(e.to) THEN adrift \cup {e.to} ELSE adrift
     ELSE UNCHANGED <<facades, lists, calls, adrift>>
  /\ UNCHANGED <<socket, queue, acts, faults, missed>>

\* The answer to a call the page made.  What a failed load leaves shown may be
\* old, and a failed run is taken for one that was never asked for; runAll then
\* leaves the mark of a scraper that was asked for meanwhile.
Answered(c) ==
  /\ c \in calls /\ c.at # "sent"
  /\ LET rest == calls \ {c}
         u == c.by
     IN  \/ /\ (c.kind = "run" /\ c.at = "served") \/ (c.kind = "change" /\ c.at = "refused")
            /\ calls' = rest
            /\ UNCHANGED <<facades, lists, adrift>>
         \/ /\ c.kind = "load" /\ c.at = "served"
            /\ calls' = rest
            /\ outdated' = IF c.old THEN outdated \cup {u} ELSE outdated \ {u}
            /\ UNCHANGED <<facades, crossed, adrift>>
         \/ /\ c.kind = "load" /\ c.at = "refused"
            /\ calls' = rest
            /\ crossed' = crossed \cup {u}
            /\ UNCHANGED <<facades, outdated, adrift>>
         \/ /\ c.kind = "change" /\ c.at = "served"
            /\ Load(u, Aged(u, rest))
            /\ outdated' = outdated \cup {u}
            /\ UNCHANGED <<facades, adrift>>
         \/ /\ c.kind = "run" /\ c.at = "refused"
            /\ calls' = rest
            /\ running' = [running EXCEPT ![u] = FALSE]
            /\ runningId' = IF c.all THEN runningId ELSE [runningId EXCEPT ![u] = None]
            /\ adrift' = adrift \cup {u}
            /\ UNCHANGED <<lists, lastResult>>
  /\ UNCHANGED <<socket, events, queue, acts, faults, missed>>

\* The user reloads the page: the signals start anew, AppLayout connects.
Reload(u) ==
  /\ Fault
  /\ running' = [running EXCEPT ![u] = FALSE]
  /\ runningId' = [runningId EXCEPT ![u] = None]
  /\ lastResult' = [lastResult EXCEPT ![u] = None]
  /\ outdated' = outdated \cup {u}
  /\ socket' = [socket EXCEPT ![u] = "connecting"]
  /\ events' = {e \in events : e.to # u}
  /\ LET kept == {[c EXCEPT !.heard = FALSE] : c \in {d \in Of(u, "run") : d.at = "sent"}}
     IN  Load(u, {c \in calls : c.by # u} \cup kept)
  /\ adrift' = IF Outstanding(u) THEN adrift \cup {u} ELSE adrift \ {u}
  /\ missed' = missed \ {u}
  /\ UNCHANGED <<queue>>

-----------------------------------------------------------------------------
(* The connection *)

\* The handshake succeeds; a lost connection is tried again by the library.
Connected(u) ==
  /\ socket[u] \in {"connecting", "retrying"}
  /\ socket' = [socket EXCEPT ![u] = "up"]
  /\ UNCHANGED <<facades, lists, calls, events, queue, acts, faults, adrift, missed>>

\* connect_error: the handler disconnects and forgets the socket, so that
\* nothing tries again until AppLayout is created anew.
ConnectError(u) ==
  /\ Fault
  /\ socket[u] \in {"connecting", "retrying"}
  /\ socket' = [socket EXCEPT ![u] = "none"]
  /\ UNCHANGED <<facades, lists, calls, events, queue, adrift, missed>>

\* A connection breaks: the events on their way are lost, none is sent again.
Drop(us) ==
  /\ socket' = [u \in User |-> IF u \in us /\ socket[u] = "up" THEN "retrying" ELSE socket[u]]
  /\ events' = {e \in events : e.to \notin us}

Unplug(u) ==
  /\ Fault
  /\ socket[u] = "up"
  /\ Drop({u})
  /\ missed' = missed \cup {e.to : e \in events \ events'}
  /\ UNCHANGED <<facades, lists, calls, queue, adrift>>

\* The user signs out, which disconnects, and in again: AppLayout connects as
\* on a reload, but the facade is the same and goes on waiting.
SignAgain(u) ==
  /\ Fault
  /\ socket' = [socket EXCEPT ![u] = "connecting"]
  /\ events' = {e \in events : e.to # u}
  /\ missed' = missed \cup {e.to : e \in events \ events'}
  /\ UNCHANGED <<facades, lists, calls, queue, adrift>>

-----------------------------------------------------------------------------
(* The API *)

\* The scheduler asks for a run of its own.
Schedule ==
  /\ Act
  /\ queue' = Append(queue, [by |-> None])
  /\ UNCHANGED <<facades, lists, calls, socket, events, adrift, missed>>

\* A call is served: a list is read, a change made, a run queued; the call, or
\* only its answer, may be lost.
Serve(c) ==
  /\ c \in calls /\ c.at = "sent"
  /\ \E ok \in {TRUE} \cup (IF Failures THEN {FALSE} ELSE {}) :
       /\ calls' = (calls \ {c}) \cup
            (IF c.heard THEN {[c EXCEPT !.at = IF ok THEN "served" ELSE "refused"]} ELSE {})
       /\ \/ c.kind = "run" /\ queue' = Append(queue, [by |-> c.by])
          \/ (c.kind # "run" \/ ~ok) /\ queue' = queue
  /\ UNCHANGED <<facades, lists, socket, events, acts, faults, adrift, missed>>

\* emitScrapeCompleted: every connected browser.
Told(run) == {u \in User : socket[u] = "up"}

\* The run underway ends.
RunEnds ==
  /\ queue # <<>>
  /\ queue' = Tail(queue)
  /\ events' = events \cup
       {[n |-> FreeNumber(events), to |-> u, run |-> Head(queue)] : u \in Told(Head(queue))}
  /\ missed' = missed \cup ({Head(queue).by} \ ({None} \cup Told(Head(queue))))
  /\ UNCHANGED <<facades, lists, calls, socket, acts, faults, adrift>>

\* The process ends and is started again: the queue and the connections go.
Restart ==
  /\ Fault
  /\ queue' = <<>>
  /\ Drop(User)
  /\ missed' = missed \cup ({queue[i].by : i \in DOMAIN queue} \ {None})
               \cup {e.to : e \in events}
  /\ UNCHANGED <<facades, lists, calls, adrift>>

-----------------------------------------------------------------------------
Page == \E u \in User : Open(u) \/ Change(u) \/ Reload(u) \/ \E t \in Target \cup {None} : AskRun(u, t)
Lines == \E u \in User : Connected(u) \/ ConnectError(u) \/ Unplug(u) \/ SignAgain(u)
Told1 == \E e \in events : Completed(e)
Calls == \E c \in calls : Serve(c) \/ Answered(c)

Next == Page \/ Lines \/ Told1 \/ Calls \/ Schedule \/ RunEnds \/ Restart

Spec == Init /\ [][Next]_vars

-----------------------------------------------------------------------------
\* A page waits for the end of a run exactly while there is one to wait for.
\* Its buttons are enabled only when no run of its user is waiting or underway,
\* so that scrapers are not edited or cleared under their own run, unless the
\* page took another run's end for its own, was reloaded, or believed a failed
\* answer; and they come back, for a run or the news of its end is on its way
\* while they are not, unless the news was lost.
WaitsWhileOwed ==
  /\ \A u \in User \ adrift : Outstanding(u) => running[u]
  /\ \A u \in User \ missed : running[u] => Outstanding(u) \/ \E e \in events : e.to = u

\* With no load underway the list is as new as the change or run the page was
\* last told of, unless loads overlapped or failed.
ListKeepsUp ==
  \A u \in User \ crossed : Of(u, "load") = {} => u \notin outdated
=============================================================================
