------------------------------ MODULE RunQueue ------------------------------
(***************************************************************************)
(* What ScrapeQueueService promises to the code that calls enqueue: every  *)
(* accepted call is served exactly once, in the order of acceptance, unless *)
(* the process ends first, which loses every call not served yet.          *)
(***************************************************************************)
EXTENDS Naturals, Sequences, Functions

CONSTANT Call      \* the calls of enqueue; each is made at most once

VARIABLES pending, \* accepted calls not served yet, oldest first
          served,  \* served calls, in the order they were served
          lost     \* calls that went down with the process

vars == <<pending, served, lost>>

Init == pending = <<>> /\ served = <<>> /\ lost = {}

Accept(c) ==
  /\ c \notin Range(pending) \cup Range(served) \cup lost
  /\ pending' = Append(pending, c)
  /\ UNCHANGED <<served, lost>>

Serve ==
  /\ pending # <<>>
  /\ served' = Append(served, Head(pending))
  /\ pending' = Tail(pending)
  /\ UNCHANGED lost

Lose ==
  /\ pending # <<>>
  /\ lost' = lost \cup Range(pending)
  /\ pending' = <<>>
  /\ UNCHANGED served

Next == (\E c \in Call : Accept(c)) \/ Serve \/ Lose

SafeSpec == Init /\ [][Next]_vars

Spec == SafeSpec /\ WF_vars(Serve)
=============================================================================
