----------------------------- MODULE ScrapeQueue -----------------------------
(***************************************************************************)
(* ScrapeQueueService: the in-memory queue of scrape runs of the API.      *)
(* JavaScript runs one callback at a time, so a step is what happens       *)
(* between two awaits.  Every call of enqueue starts an activation of      *)
(* drain(), which returns at once when the running flag is up; otherwise   *)
(* it loops, suspended at the await of runTargets with one entry in hand.  *)
(* inFlight is the set of entries held by suspended loops: nothing in the  *)
(* shape of the model makes it a singleton, only the flag does.            *)
(***************************************************************************)
EXTENDS Naturals, Sequences, Functions

CONSTANT Call        \* the calls of enqueue; each is made at most once

VARIABLES queue,     \* this.queue
          running,   \* this.running
          inFlight,  \* the entry of every drain() suspended in runTargets
          called,    \* history: the calls made so far
          settled,   \* history: the calls resolved, in order
          lost       \* history: the calls that ended with the process

vars == <<queue, running, inFlight, called, settled, lost>>

TypeOK ==
  /\ queue \in Seq(Call)
  /\ running \in BOOLEAN
  /\ inFlight \subseteq Call
  /\ called \subseteq Call
  /\ settled \in Seq(Call)
  /\ lost \subseteq Call

Init ==
  /\ queue = <<>>
  /\ running = FALSE
  /\ inFlight = {}
  /\ called = {}
  /\ settled = <<>>
  /\ lost = {}

-----------------------------------------------------------------------------
(* Faulty variants: operators named <definition>_<fault> are not part of   *)
(* the specification.  Each stands for a plausible mistake in the code; put *)
(* in place of the definition it makes TLC report the property it is for.  *)

\* shift() replaced by pop().
LoopTurn_Pop(q, held) ==
  \/ /\ q # <<>>
     /\ queue' = SubSeq(q, 1, Len(q) - 1)
     /\ inFlight' = held \cup {q[Len(q)]}
     /\ running' = TRUE
  \/ q = <<>> /\ queue' = q /\ inFlight' = held /\ running' = FALSE

\* The flag is not lowered after the loop.
LoopTurn_KeepFlag(q, held) ==
  \/ q # <<>> /\ queue' = Tail(q) /\ inFlight' = held \cup {Head(q)} /\ running' = TRUE
  \/ q = <<>> /\ queue' = q /\ inFlight' = held /\ running' = TRUE

-----------------------------------------------------------------------------
\* One turn of the while loop on queue q, the other loops holding the
\* entries in held: shift and start a run, or leave and lower the flag.
LoopTurn(q, held) ==
  \/ /\ q # <<>>
     /\ queue' = Tail(q)
     /\ inFlight' = held \cup {Head(q)}
     /\ running' = TRUE
  \/ /\ q = <<>>
     /\ queue' = q
     /\ inFlight' = held
     /\ running' = FALSE

\* drain() called while the queue is q.
Drain(q) ==
  \/ /\ running
     /\ queue' = q
     /\ UNCHANGED <<running, inFlight>>
  \/ /\ ~running
     /\ LoopTurn(q, inFlight)

\* enqueue(): push the entry, then call drain() without awaiting it.
Enqueue(c) ==
  /\ c \notin called
  /\ called' = called \cup {c}
  /\ Drain(Append(queue, c))
  /\ UNCHANGED <<settled, lost>>

\* if instead of while: the loop ends after one entry.
RunResolves_Once(c) ==
  /\ c \in inFlight
  /\ settled' = Append(settled, c)
  /\ inFlight' = inFlight \ {c}
  /\ running' = FALSE
  /\ UNCHANGED <<queue, called, lost>>

\* runTargets resolved: the entry is resolved and the loop goes on.
RunResolves(c) ==
  /\ c \in inFlight
  /\ settled' = Append(settled, c)
  /\ LoopTurn(queue, inFlight \ {c})
  /\ UNCHANGED <<called, lost>>

\* The process ends and is started again: the queue is only in memory.
Restart ==
  /\ lost' = lost \cup inFlight \cup Range(queue)
  /\ queue' = <<>>
  /\ inFlight' = {}
  /\ running' = FALSE
  /\ UNCHANGED <<called, settled>>

\* runTargets rejected: the entry is rejected, and as no caller of enqueue
\* handles the promise (void this.queue.enqueue) the runtime ends the process
\* before the next run can get an answer.
RunRejects(c) ==
  /\ c \in inFlight
  /\ Restart

\* The process is stopped from outside.
Stop ==
  /\ running
  /\ Restart

RunEnds == \E c \in Call : RunResolves(c) \/ RunRejects(c)

Next == (\E c \in Call : Enqueue(c)) \/ RunEnds \/ Stop

\* A run ends: its queries end, and ScraperClient gives up on a silent worker.
Spec == Init /\ [][Next]_vars /\ WF_vars(RunEnds)

-----------------------------------------------------------------------------
\* No lost wake-up: an entry never waits in the queue without a loop that
\* will come to it (enqueue's push races the end of drain's while loop).
NoIdleBacklog == ~running => queue = <<>>

\* The worker is asked for one run at a time, and the flag tells the truth:
\* it is up exactly while a loop is suspended in a run.
OneRunAtATime ==
  /\ \A c, d \in inFlight : c = d
  /\ running <=> inFlight # {}

\* Every call is in exactly one place: waiting, running, settled or lost with
\* the process; no call is dropped, run twice or settled twice.
EveryCallInOnePlace ==
  /\ called = Range(queue) \cup inFlight \cup Range(settled) \cup lost
  /\ Range(queue) \cap (inFlight \cup Range(settled) \cup lost) = {}
  /\ inFlight \cap (Range(settled) \cup lost) = {}
  /\ Range(settled) \cap lost = {}
  /\ \A i, j \in 1..Len(queue) : queue[i] = queue[j] => i = j
  /\ \A i, j \in 1..Len(settled) : settled[i] = settled[j] => i = j

\* The queue implements RunQueue: the entry a loop holds is the oldest
\* pending call, the queue behind it the rest.
Held == IF inFlight = {} THEN <<>> ELSE <<CHOOSE c \in inFlight : TRUE>>

RQ == INSTANCE RunQueue WITH pending <- Held \o queue, served <- settled

\* First come, first served, once each, also across restarts.
ImplementsRunQueue == RQ!Spec
=============================================================================
