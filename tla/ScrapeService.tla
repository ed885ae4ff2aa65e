---------------------------- MODULE ScrapeService ----------------------------
(***************************************************************************)
(* The run queue (ScrapeQueue) with the run it awaits (ScrapeRun): what    *)
(* the loop of drain() holds is the entry whose runTargets() is underway.  *)
(* The controllers and the scheduler ask for runs at any time; which       *)
(* targets a run works on is decided when its turn has come, not when it   *)
(* was asked for.  A crash takes queue, run and open requests together.    *)
(***************************************************************************)
EXTENDS ScrapeRun

CONSTANT LastCall    \* bound: calls of enqueue, numbered as they are made

ASSUME CallsAssumption == LastCall \in Nat

VARIABLES
  queue, running, inFlight, called, settled, lost,  \* of ScrapeQueue
  wanted     \* the options of the entries queued or in hand: a target, or a
             \* user for all enabled targets of theirs

Q == INSTANCE ScrapeQueue WITH Call <- 1..LastCall

queueVars == <<queue, running, inFlight, called, settled, lost>>
serviceVars == <<vars, queueVars, wanted>>

Pending == Range(queue) \cup inFlight

\* The one run underway belongs to the entry in hand.
ServiceTypeOK ==
  /\ TypeOK
  /\ Q!TypeOK
  /\ wanted \in [Pending -> Target \cup User]
  /\ pc # "idle" => inFlight # {}

ServiceInit == Init /\ Q!Init /\ wanted = [c \in {} |-> {}]

-----------------------------------------------------------------------------
KeepPending == wanted' = [c \in Pending' |-> wanted[c]]

\* runAll, runOne (the target was found a moment ago) and the scheduler.
Ask(c, x) ==
  /\ \A d \in 1..LastCall : d < c <=> d \in called
  /\ x \in Target => targets[x].status # "absent"
  /\ Q!Enqueue(c)
  /\ wanted' = [d \in Pending' |-> IF d = c THEN x ELSE wanted[d]]
  /\ UNCHANGED vars

\* The first query of runTargets ends: the run knows its targets.
Start(c) ==
  /\ c \in inFlight
  /\ \/ \E t \in Target \cap {wanted[c]} : RunOne(t)
     \/ \E u \in User \cap {wanted[c]} : RunAll(u)
  /\ UNCHANGED <<queueVars, wanted>>

\* runTargets resolves; the loop takes up the next entry at once.
Complete(c) == EmitCompleted /\ Q!RunResolves(c) /\ KeepPending

\* What the process held is gone, the tables stay.
Down ==
  /\ IF pc # "idle" \/ removing # {} THEN Restart ELSE UNCHANGED vars
  /\ Q!Restart
  /\ KeepPending

\* That first query fails: the only way for runTargets to reject.
FindFails(c) == c \in inFlight /\ pc = "idle" /\ Down

Crash == (running \/ removing # {}) /\ Down

ServiceStep ==
  \/ \E c \in inFlight : Start(c) \/ Complete(c)
  \/ ScrapeStep /\ UNCHANGED <<queueVars, wanted>>

ServiceNext ==
  \/ \E c \in 1..LastCall, x \in Target \cup User : Ask(c, x)
  \/ ServiceStep
  \/ \E c \in inFlight : FindFails(c)
  \/ RequestStep /\ UNCHANGED <<queueVars, wanted>>
  \/ Crash

\* Queries end, and a silent worker times out.
ServiceSpec == ServiceInit /\ [][ServiceNext]_serviceVars /\ WF_serviceVars(ServiceStep)

-----------------------------------------------------------------------------
\* No entry waits while no loop is there to take it (ScrapeQueue).
NoIdleBacklog == Q!NoIdleBacklog

\* Every run asked for is served in its turn, once, whatever becomes of its
\* targets meanwhile and however often it fails for them; only the end of the
\* process takes it.  (ScrapeQueue assumes that runs end; here they have to.)
ImplementsRunQueue == Q!ImplementsRunQueue
=============================================================================
