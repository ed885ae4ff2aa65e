---------------------------- MODULE MCPortalCrawl ----------------------------
(***************************************************************************)
(* Small portals for TLC.  At the start the first search shows a run of    *)
(* consecutive offers from number New + 1 on, and the second any run of    *)
(* consecutive offers, which lies within the first, goes beyond it or has  *)
(* nothing in common with it; the offers 1..New may appear meanwhile.      *)
(***************************************************************************)
EXTENDS PortalCrawl

Run(a, b) == [i \in 1..(b - a + 1) |-> a + i - 1]

MCListings ==
  LET old == (New + 1)..Offers
  IN  {[all |-> Run(New + 1, a), remote |-> Run(b, c)] :
         a \in New..Offers, b \in old, c \in New..Offers}
=============================================================================
