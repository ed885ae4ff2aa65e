----------------------------- MODULE MCScrapeRun -----------------------------
(* ScrapeRun with two targets of one user. *)
EXTENDS ScrapeRun, TLC

CONSTANTS t1, t2, u1

\* Both targets belong to the one user.
OwnerDef == (t1 :> u1) @@ (t2 :> u1)
=============================================================================
