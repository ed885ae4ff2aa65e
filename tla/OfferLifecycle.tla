--------------------------- MODULE OfferLifecycle ---------------------------
(***************************************************************************)
(* What a user of the panel is promised about an offer, seen as the copy   *)
(* that one scrape target keeps of one portal URL: it is listed or marked  *)
(* stale as the portal changes, a deleted offer is never brought back by a *)
(* later scrape, and only clearing the target's offers forgets it.         *)
(***************************************************************************)
CONSTANT Key       \* a scrape target and an offer URL

VARIABLE life      \* the state of the copy kept for each key

Life == {"absent", "listed", "stale", "deleted"}

Init == life = [k \in Key |-> "absent"]

\* absent -> listed: found; listed <-> stale: gone from the portal or back;
\* -> deleted: by a user; -> absent: offers of the target cleared.
Change == {<<"absent", "listed">>, <<"listed", "stale">>, <<"stale", "listed">>,
           <<"listed", "deleted">>, <<"stale", "deleted">>,
           <<"listed", "absent">>, <<"stale", "absent">>, <<"deleted", "absent">>}

Next ==
  /\ life' \in [Key -> Life]
  /\ \A k \in Key : life'[k] = life[k] \/ <<life[k], life'[k]>> \in Change

Spec == Init /\ [][Next]_life
=============================================================================
