------------------------ MODULE ScrapeServiceProofs -------------------------
(***************************************************************************)
(* Theorems about ScrapeRun, for every set of targets, urls and users and  *)
(* every number of runs and requests: the type of the tables, what a run   *)
(* may do to a row, and the refinement of OfferLifecycle; and about the    *)
(* service that composes it with the queue.                                *)
(* The run queue keeps its promises when the runs it awaits are those of   *)
(* the orchestrator, and the runs keep theirs when they come from the      *)
(* queue: every step of ScrapeService is a step of ScrapeQueue or leaves   *)
(* the queue alone, and a step of ScrapeRun or leaves run and tables       *)
(* alone.  What is proved of either module so holds of the composition.    *)
(***************************************************************************)
EXTENDS ScrapeService, TLAPS

\* The specification without its fairness.
Safety == Init /\ [][Next]_vars

-----------------------------------------------------------------------------
(* The inductive invariant *)

Working == pc \in {"scrape", "select", "write", "prune", "stamp"}

\* What the program counter says of the other variables of the run.
RunShape ==
  /\ Working => cur \in Target
  /\ pc \in {"select", "write"} => raws # <<>>
  /\ pc \in {"idle", "targets", "scrape"} => seen = {}
  /\ pc = "prune" => seen # {}

\* What the scrape has stored is fresh, well before the prune.
SeenFresh == \A r \in offers : r.target = cur /\ r.url \in seen => ~r.stale

\* The row the select found is there until the offers are cleared: a request
\* that deletes it leaves it in the table.
HitThere == pc = "write" /\ hit /\ ~cleared => RowsAt(cur, Head(raws)) # {}

\* A removed target that the run still has to do or works on was raced.
RacedTargets ==
  /\ \A t \in todo : targets[t].status = "removed" => t \in raced
  /\ Working /\ targets[cur].status = "removed" => cur \in raced

Inv ==
  /\ RunShape /\ SeenFresh /\ HitThere /\ RacedTargets
  /\ FreshIffStored /\ CleanRemovalIsFinal

IInv == TypeOK /\ Inv

LEMMA InitInv == Init => IInv
<1> SUFFICES ASSUME Init PROVE IInv
  OBVIOUS
<1>1. targets \in [Target -> [status : {"absent", "live", "removed"}, enabled : BOOLEAN]]
  BY DEF Init
<1>2. runs \in 0..MaxRuns /\ edits \in 0..MaxEdits
  BY BoundsAssumption DEF Init
<1>3. offers \subseteq Row /\ OneRowPerOffer
  BY DEF Init, OneRowPerOffer
<1>4. raws \in Seq(Url)
  BY DEF Init
<1>5. TypeOK
  BY <1>1, <1>2, <1>3, <1>4 DEF Init, TypeOK
<1>6. Inv
  BY DEF Init, Inv, RunShape, Working, SeenFresh, HitThere, RacedTargets, FreshIffStored, CleanRemovalIsFinal
<1> QED BY <1>5, <1>6 DEF IInv

-----------------------------------------------------------------------------
(* What the steps do to the rows.  A row is carried over when its key and   *)
(* the decisions of users in it stay.                                       *)

SameKey(r, s) == s.target = r.target /\ s.url = r.url

Carried(r, s) == SameKey(r, s) /\ s.dismissed = r.dismissed /\ s.deleted = r.deleted

LEMMA UpdateOfferRows ==
  ASSUME TypeOK, UpdateOffer
  PROVE  /\ offers' \subseteq Row
         /\ \A r \in offers : \E s \in offers' :
              /\ Carried(r, s)
              /\ (s.stale <=> r.stale /\ ~(r.target = cur /\ r.url = Head(raws)))
         /\ \A s \in offers' : \E r \in offers :
              /\ Carried(r, s)
              /\ (s.stale <=> r.stale /\ ~(r.target = cur /\ r.url = Head(raws)))
<1> DEFINE f(r) == IF r \in RowsAt(cur, Head(raws)) THEN [r EXCEPT !.stale = FALSE] ELSE r
<1>1. offers' = {f(r) : r \in offers}
  BY DEF UpdateOffer
<1>2. ASSUME NEW r \in offers
      PROVE  /\ f(r) \in Row /\ Carried(r, f(r))
             /\ (f(r).stale <=> r.stale /\ ~(r.target = cur /\ r.url = Head(raws)))
  <2>1. r \in Row
    BY DEF TypeOK
  <2>2. CASE r.target = cur /\ r.url = Head(raws)
    <3>1. f(r) = [r EXCEPT !.stale = FALSE]
      BY <2>2 DEF RowsAt, Rows
    <3> QED BY <2>1, <2>2, <3>1 DEF Row, Carried, SameKey
  <2>3. CASE ~(r.target = cur /\ r.url = Head(raws))
    <3>1. f(r) = r
      BY <2>3 DEF RowsAt, Rows
    <3> QED BY <2>1, <2>3, <3>1 DEF Row, Carried, SameKey
  <2> QED BY <2>2, <2>3
<1> HIDE DEF f
<1> QED BY <1>1, <1>2

LEMMA PruneStaleRows ==
  ASSUME TypeOK, PruneStale
  PROVE  /\ offers' \subseteq Row
         /\ \A r \in offers : \E s \in offers' :
              /\ Carried(r, s)
              /\ (s.stale <=> r.stale \/ (r.target = cur /\ r.url \notin seen))
         /\ \A s \in offers' : \E r \in offers :
              /\ Carried(r, s)
              /\ (s.stale <=> r.stale \/ (r.target = cur /\ r.url \notin seen))
<1> DEFINE f(r) == IF r.target = cur /\ r.url \notin seen THEN [r EXCEPT !.stale = TRUE] ELSE r
<1>1. offers' = {f(r) : r \in offers}
  BY DEF PruneStale
<1>2. ASSUME NEW r \in offers
      PROVE  /\ f(r) \in Row /\ Carried(r, f(r))
             /\ (f(r).stale <=> r.stale \/ (r.target = cur /\ r.url \notin seen))
  <2>1. r \in Row
    BY DEF TypeOK
  <2>2. CASE r.target = cur /\ r.url \notin seen
    <3>1. f(r) = [r EXCEPT !.stale = TRUE]
      BY <2>2
    <3> QED BY <2>1, <2>2, <3>1 DEF Row, Carried, SameKey
  <2>3. CASE ~(r.target = cur /\ r.url \notin seen)
    <3>1. f(r) = r
      BY <2>3
    <3> QED BY <2>1, <2>3, <3>1 DEF Row, Carried, SameKey
  <2> QED BY <2>2, <2>3
<1> HIDE DEF f
<1> QED BY <1>1, <1>2

LEMMA InsertOfferRows ==
  ASSUME TypeOK, RunShape, InsertOffer
  PROVE  \E n \in Row :
           /\ offers' = offers \cup {n}
           /\ n.target = cur /\ n.url = Head(raws)
           /\ ~n.stale /\ ~n.dismissed /\ ~n.deleted
           /\ \A r \in offers : ~SameKey(r, n)
<1> DEFINE n == [target |-> cur, url |-> Head(raws), stale |-> FALSE, dismissed |-> FALSE, deleted |-> FALSE]
<1>1. cur \in Target /\ raws \in Seq(Url) /\ raws # <<>>
  BY DEF TypeOK, RunShape, Working, InsertOffer
<1>2. Head(raws) \in Url
  BY <1>1
<1>3. n \in Row
  BY <1>1, <1>2 DEF Row
<1>4. offers' = offers \cup {n}
  BY DEF InsertOffer
<1>5. \A r \in offers : ~SameKey(r, n)
  BY DEF InsertOffer, UniqueIndexAllows, RowsAt, Rows, SameKey
<1> QED BY <1>3, <1>4, <1>5

LEMMA ClearedRows ==
  ASSUME NEW t \in Target, ClearOffers(t) \/ RemoveOffers(t)
  PROVE  offers' = {r \in offers : r.target # t}
BY DEF ClearOffers, RemoveOffers, Rows

LEMMA EditedRow ==
  ASSUME TypeOK, NEW r \in offers,
         (\E d \in BOOLEAN : SetDismissed(r, d)) \/ DeleteOffer(r)
  PROVE  \E s \in Row : /\ offers' = (offers \ {r}) \cup {s}
                        /\ SameKey(r, s) /\ s.stale = r.stale
                        /\ r.deleted => s.deleted
<1>1. r \in Row
  BY DEF TypeOK
<1>2. ASSUME NEW d \in BOOLEAN, SetDismissed(r, d)
      PROVE  LET s == [r EXCEPT !.dismissed = d] IN
             s \in Row /\ offers' = (offers \ {r}) \cup {s} /\ SameKey(r, s) /\ s.stale = r.stale /\ (r.deleted => s.deleted)
  BY <1>1, <1>2 DEF SetDismissed, Row, SameKey
<1>3. ASSUME DeleteOffer(r)
      PROVE  LET s == [r EXCEPT !.deleted = TRUE] IN
             s \in Row /\ offers' = (offers \ {r}) \cup {s} /\ SameKey(r, s) /\ s.stale = r.stale /\ (r.deleted => s.deleted)
  BY <1>1, <1>3 DEF DeleteOffer, Row, SameKey
<1>4. CASE \E d \in BOOLEAN : SetDismissed(r, d)
  BY <1>2, <1>4
<1>5. CASE DeleteOffer(r)
  BY <1>3, <1>5
<1> QED BY <1>4, <1>5

-----------------------------------------------------------------------------
(* The run's steps that leave the rows alone *)

LEMMA BeginInv ==
  ASSUME IInv, (\E t \in Target : RunOne(t)) \/ (\E u \in User : RunAll(u)) PROVE IInv'
<1>1. PICK matching \in SUBSET LiveTargets : Begin(matching)
  BY DEF RunOne, RunAll
<1>2. /\ pc = "idle" /\ pc' = "targets" /\ todo' = matching
      /\ runs < MaxRuns /\ runs' = runs + 1
      /\ UNCHANGED <<targets, removing, offers, cur, raws, hit, seen, cleared, raced, edits>>
  BY <1>1 DEF Begin
<1>3. matching \subseteq Target /\ \A t \in matching : targets[t].status = "live"
  BY DEF LiveTargets
<1>4. runs' \in 0..MaxRuns
  BY <1>2, BoundsAssumption DEF IInv, TypeOK
<1>5. TypeOK'
  BY <1>2, <1>3, <1>4 DEF IInv, TypeOK, OneRowPerOffer
<1>6. Inv'
  BY <1>2, <1>3 DEF IInv, Inv, RunShape, Working, SeenFresh, HitThere, RacedTargets,
                    FreshIffStored, CleanRemovalIsFinal, Rows, RowsAt
<1> QED BY <1>5, <1>6 DEF IInv

LEMMA PickTargetInv ==
  ASSUME IInv, NEW t \in Target, PickTarget(t) PROVE IInv'
<1>1. TypeOK'
  BY DEF PickTarget, IInv, TypeOK, OneRowPerOffer
<1>2. Inv'
  BY DEF PickTarget, IInv, Inv, RunShape, Working, SeenFresh, HitThere, RacedTargets,
         FreshIffStored, CleanRemovalIsFinal, Rows, RowsAt
<1> QED BY <1>1, <1>2 DEF IInv

LEMMA WorkerAnswersInv ==
  ASSUME IInv, NEW answer \in Answer, WorkerAnswers(answer) PROVE IInv'
<1>1. answer \in Seq(Url)
  BY BoundsAssumption DEF Answer
<1>2. pc' \in {"select", "stamp"} /\ (pc' = "select" => raws' # <<>>)
  BY DEF WorkerAnswers, LoopOrPrune
<1>3. TypeOK'
  BY <1>1, <1>2 DEF WorkerAnswers, IInv, TypeOK, OneRowPerOffer
<1>4. Inv'
  BY <1>2 DEF WorkerAnswers, IInv, Inv, RunShape, Working, SeenFresh, HitThere, RacedTargets,
              FreshIffStored, CleanRemovalIsFinal, Rows, RowsAt
<1> QED BY <1>3, <1>4 DEF IInv

LEMMA SelectOfferInv ==
  ASSUME IInv, SelectOffer PROVE IInv'
<1>1. hit' \in BOOLEAN /\ (hit' => RowsAt(cur, Head(raws)) # {})
  BY DEF SelectOffer
<1>2. /\ pc = "select" /\ pc' = "write"
      /\ UNCHANGED <<targets, removing, offers, todo, cur, raws, seen, cleared, raced, runs, edits>>
  BY DEF SelectOffer
<1>3. TypeOK'
  BY <1>1, <1>2 DEF IInv, TypeOK, OneRowPerOffer
<1>4. Inv'
  BY <1>1, <1>2 DEF IInv, Inv, RunShape, Working, SeenFresh, HitThere, RacedTargets,
                    FreshIffStored, CleanRemovalIsFinal, Rows, RowsAt
<1> QED BY <1>3, <1>4 DEF IInv

LEMMA SkipOfferInv ==
  ASSUME IInv, SkipOffer PROVE IInv'
<1>1. raws' \in Seq(Url)
  BY DEF SkipOffer, IInv, Inv, TypeOK, RunShape
<1>2. /\ pc' \in {"select", "prune", "stamp"}
      /\ pc' = "select" => raws' # <<>>
      /\ pc' = "prune" => seen # {}
      /\ pc' = "stamp" => seen = {}
  BY DEF SkipOffer, LoopOrPrune
<1>3. /\ pc \in {"select", "write"} /\ hit' = FALSE
      /\ UNCHANGED <<targets, removing, offers, todo, cur, seen, cleared, raced, runs, edits>>
  BY DEF SkipOffer
<1>4. TypeOK'
  BY <1>1, <1>2, <1>3 DEF IInv, TypeOK, OneRowPerOffer
<1>5. Inv'
  BY <1>2, <1>3 DEF IInv, Inv, RunShape, Working, SeenFresh, HitThere, RacedTargets,
                    FreshIffStored, CleanRemovalIsFinal, Rows, RowsAt
<1> QED BY <1>4, <1>5 DEF IInv

LEMMA LeaveTargetInv ==
  ASSUME IInv, LeaveTarget PROVE IInv'
<1>1. TypeOK'
  <2>1. raws' \in Seq(Url) /\ cur' \in Target \cup {NoTarget}
    BY DEF LeaveTarget
  <2> QED BY <2>1 DEF LeaveTarget, IInv, TypeOK, OneRowPerOffer
<1>2. Inv'
  BY DEF LeaveTarget, IInv, Inv, RunShape, Working, SeenFresh, HitThere, RacedTargets,
         FreshIffStored, CleanRemovalIsFinal, Rows, RowsAt
<1> QED BY <1>1, <1>2 DEF IInv

LEMMA EmitCompletedInv ==
  ASSUME IInv, EmitCompleted PROVE IInv'
<1>1. TypeOK'
  BY DEF EmitCompleted, IInv, TypeOK, OneRowPerOffer
<1>2. Inv'
  BY DEF EmitCompleted, IInv, Inv, RunShape, Working, SeenFresh, HitThere, RacedTargets,
         FreshIffStored, CleanRemovalIsFinal, Rows, RowsAt
<1> QED BY <1>1, <1>2 DEF IInv

LEMMA RestartInv ==
  ASSUME IInv, Restart PROVE IInv'
<1>1. TypeOK'
  <2>1. raws' \in Seq(Url) /\ cur' \in Target \cup {NoTarget}
    BY DEF Restart
  <2> QED BY <2>1 DEF Restart, IInv, TypeOK, OneRowPerOffer
<1>2. Inv'
  BY DEF Restart, IInv, Inv, RunShape, Working, SeenFresh, HitThere, RacedTargets,
         FreshIffStored, CleanRemovalIsFinal, Rows, RowsAt
<1> QED BY <1>1, <1>2 DEF IInv

-----------------------------------------------------------------------------
(* The run's steps that change rows *)

\* What both halves of upsert do to the variables of the run.
LEMMA StoredShape ==
  ASSUME IInv, pc = "write", Stored
  PROVE  /\ raws' \in Seq(Url) /\ Head(raws) \in Url
         /\ seen' = seen \cup {Head(raws)} /\ hit' = FALSE
         /\ pc' \in {"select", "prune"}
         /\ pc' = "select" => raws' # <<>>
         /\ UNCHANGED <<targets, removing, todo, cur, cleared, raced, runs, edits>>
BY DEF Stored, LoopOrPrune, IInv, Inv, TypeOK, RunShape

LEMMA UpdateOfferInv ==
  ASSUME IInv, UpdateOffer PROVE IInv'
<1> DEFINE u == Head(raws)
<1>1. pc = "write" /\ hit /\ Stored
  BY DEF UpdateOffer
<1>2. /\ raws' \in Seq(Url) /\ u \in Url
      /\ seen' = seen \cup {u} /\ hit' = FALSE
      /\ pc' \in {"select", "prune"} /\ (pc' = "select" => raws' # <<>>)
      /\ UNCHANGED <<targets, removing, todo, cur, cleared, raced, runs, edits>>
  BY <1>1, StoredShape
<1>3. /\ offers' \subseteq Row
      /\ \A r \in offers : \E s \in offers' : Carried(r, s) /\ (s.stale <=> r.stale /\ ~(r.target = cur /\ r.url = u))
      /\ \A s \in offers' : \E r \in offers : Carried(r, s) /\ (s.stale <=> r.stale /\ ~(r.target = cur /\ r.url = u))
  BY UpdateOfferRows DEF IInv
<1>4. OneRowPerOffer'
  <2> DEFINE f(r) == IF r \in RowsAt(cur, u) THEN [r EXCEPT !.stale = FALSE] ELSE r
  <2>1. offers' = {f(r) : r \in offers}
    BY DEF UpdateOffer
  <2>2. ASSUME NEW r \in offers PROVE SameKey(r, f(r))
    BY <2>2 DEF IInv, TypeOK, Row, SameKey
  <2> HIDE DEF f
  <2> QED BY <2>1, <2>2 DEF IInv, TypeOK, OneRowPerOffer, SameKey
<1>5. TypeOK'
  BY <1>1, <1>2, <1>3, <1>4 DEF IInv, TypeOK
<1> HIDE DEF u
<1>6. RunShape' /\ HitThere' /\ RacedTargets'
  BY <1>1, <1>2 DEF IInv, Inv, RunShape, Working, HitThere, RacedTargets
<1>7. SeenFresh'
  BY <1>1, <1>2, <1>3 DEF IInv, Inv, SeenFresh, Carried, SameKey
<1>8. FreshIffStored'
  <2>1. pc' # "stamp"
    BY <1>2
  <2>2. ASSUME ~cleared', NEW v \in seen' PROVE RowsAt(cur, v)' # {}
    <3>1. \E r \in offers : r.target = cur /\ r.url = v
      BY <1>1, <1>2, <2>2 DEF IInv, Inv, HitThere, FreshIffStored, RowsAt, Rows, u
    <3> QED BY <1>2, <1>3, <3>1 DEF RowsAt, Rows, Carried, SameKey
  <2> QED BY <2>1, <2>2 DEF FreshIffStored
<1>9. CleanRemovalIsFinal'
  BY <1>2, <1>3 DEF IInv, Inv, CleanRemovalIsFinal, Carried, SameKey
<1> QED BY <1>5, <1>6, <1>7, <1>8, <1>9 DEF IInv, Inv

LEMMA InsertOfferInv ==
  ASSUME IInv, InsertOffer PROVE IInv'
<1> DEFINE u == Head(raws)
<1>1. pc = "write" /\ Stored
  BY DEF InsertOffer
<1>2. /\ raws' \in Seq(Url) /\ u \in Url
      /\ seen' = seen \cup {u} /\ hit' = FALSE
      /\ pc' \in {"select", "prune"} /\ (pc' = "select" => raws' # <<>>)
      /\ UNCHANGED <<targets, removing, todo, cur, cleared, raced, runs, edits>>
  BY <1>1, StoredShape
<1>3. PICK n \in Row :
        /\ offers' = offers \cup {n}
        /\ n.target = cur /\ n.url = u /\ ~n.stale
        /\ \A r \in offers : ~SameKey(r, n)
  BY InsertOfferRows DEF IInv, Inv
<1>4. OneRowPerOffer'
  BY <1>3 DEF IInv, TypeOK, OneRowPerOffer, SameKey
<1>5. TypeOK'
  BY <1>1, <1>2, <1>3, <1>4 DEF IInv, TypeOK
<1> HIDE DEF u
<1>6. RunShape' /\ HitThere' /\ RacedTargets'
  BY <1>1, <1>2 DEF IInv, Inv, RunShape, Working, HitThere, RacedTargets
<1>7. SeenFresh'
  BY <1>1, <1>2, <1>3 DEF IInv, Inv, SeenFresh, SameKey
<1>8. FreshIffStored'
  BY <1>1, <1>2, <1>3 DEF IInv, Inv, FreshIffStored, RowsAt, Rows
<1>9. CleanRemovalIsFinal'
  BY <1>1, <1>2, <1>3 DEF IInv, Inv, CleanRemovalIsFinal, RacedTargets, Working
<1> QED BY <1>5, <1>6, <1>7, <1>8, <1>9 DEF IInv, Inv

LEMMA PruneStaleInv ==
  ASSUME IInv, PruneStale PROVE IInv'
<1>1. /\ pc = "prune" /\ pc' = "stamp"
      /\ UNCHANGED <<targets, removing, todo, cur, raws, hit, seen, cleared, raced, runs, edits>>
  BY DEF PruneStale
<1>2. /\ offers' \subseteq Row
      /\ \A r \in offers : \E s \in offers' : Carried(r, s) /\ (s.stale <=> r.stale \/ (r.target = cur /\ r.url \notin seen))
      /\ \A s \in offers' : \E r \in offers : Carried(r, s) /\ (s.stale <=> r.stale \/ (r.target = cur /\ r.url \notin seen))
  BY PruneStaleRows DEF IInv
<1>3. OneRowPerOffer'
  <2> DEFINE f(r) == IF r.target = cur /\ r.url \notin seen THEN [r EXCEPT !.stale = TRUE] ELSE r
  <2>1. offers' = {f(r) : r \in offers}
    BY DEF PruneStale
  <2>2. ASSUME NEW r \in offers PROVE SameKey(r, f(r))
    BY <2>2 DEF IInv, TypeOK, Row, SameKey
  <2> HIDE DEF f
  <2> QED BY <2>1, <2>2 DEF IInv, TypeOK, OneRowPerOffer, SameKey
<1>4. TypeOK'
  BY <1>1, <1>2, <1>3 DEF IInv, TypeOK
<1>5. RunShape' /\ HitThere' /\ RacedTargets'
  BY <1>1 DEF IInv, Inv, RunShape, Working, HitThere, RacedTargets
<1>6. SeenFresh'
  BY <1>1, <1>2 DEF IInv, Inv, SeenFresh, Carried, SameKey
<1>7. FreshIffStored'
  <2>1. \A r \in Rows(cur)' : r.stale <=> r.url \notin seen
    BY <1>1, <1>2 DEF IInv, Inv, SeenFresh, Rows, Carried, SameKey
  <2>2. ASSUME ~cleared, NEW v \in seen PROVE RowsAt(cur, v)' # {}
    <3>1. \E r \in offers : r.target = cur /\ r.url = v
      BY <2>2 DEF IInv, Inv, FreshIffStored, RowsAt, Rows
    <3> QED BY <1>1, <1>2, <3>1 DEF RowsAt, Rows, Carried, SameKey
  <2> QED BY <1>1, <2>1, <2>2 DEF FreshIffStored
<1>8. CleanRemovalIsFinal'
  BY <1>1, <1>2 DEF IInv, Inv, CleanRemovalIsFinal, Carried, SameKey
<1> QED BY <1>4, <1>5, <1>6, <1>7, <1>8 DEF IInv, Inv

-----------------------------------------------------------------------------
(* The requests *)

LEMMA RequestShape ==
  ASSUME IInv, Request
  PROVE  edits' \in 0..MaxEdits /\ UNCHANGED <<pc, todo, cur, raws, hit, seen, raced, runs>>
BY BoundsAssumption DEF Request, runVars, IInv, TypeOK

LEMMA ChangeTargetInv ==
  ASSUME IInv, NEW t \in Target, NEW enabled \in BOOLEAN,
         CreateTarget(t, enabled) \/ UpdateTarget(t, enabled)
  PROVE  IInv'
<1>1. edits' \in 0..MaxEdits /\ UNCHANGED <<removing, offers, cleared, pc, todo, cur, raws, hit, seen, raced, runs>>
  BY RequestShape DEF CreateTarget, UpdateTarget
<1>2. /\ targets' \in [Target -> [status : {"absent", "live", "removed"}, enabled : BOOLEAN]]
      /\ \A x \in Target : targets'[x].status = "removed" => targets[x].status = "removed"
  BY DEF CreateTarget, UpdateTarget, IInv, TypeOK
<1>3. TypeOK'
  BY <1>1, <1>2 DEF IInv, TypeOK, OneRowPerOffer
<1>4. RunShape' /\ SeenFresh' /\ HitThere' /\ FreshIffStored'
  BY <1>1 DEF IInv, Inv, RunShape, Working, SeenFresh, HitThere, FreshIffStored, Rows, RowsAt
<1>5. RacedTargets'
  BY <1>1, <1>2 DEF IInv, Inv, TypeOK, RunShape, RacedTargets, Working
<1>6. CleanRemovalIsFinal'
  BY <1>1, <1>2 DEF IInv, Inv, TypeOK, Row, CleanRemovalIsFinal
<1> QED BY <1>3, <1>4, <1>5, <1>6 DEF IInv, Inv

LEMMA ClearInv ==
  ASSUME IInv, NEW t \in Target, ClearOffers(t) \/ RemoveOffers(t) PROVE IInv'
<1>1. edits' \in 0..MaxEdits /\ UNCHANGED <<targets, pc, todo, cur, raws, hit, seen, raced, runs>>
  BY RequestShape DEF ClearOffers, RemoveOffers
<1>2. removing' \subseteq Target /\ cleared' \in BOOLEAN
  BY DEF ClearOffers, RemoveOffers, IInv, TypeOK
<1>3. ~cleared' => ~cleared /\ cur # t
  BY DEF ClearOffers, RemoveOffers
<1>4. offers' = {r \in offers : r.target # t}
  BY ClearedRows
<1>5. TypeOK'
  BY <1>1, <1>2, <1>4 DEF IInv, TypeOK, OneRowPerOffer
<1>6. RunShape' /\ RacedTargets'
  BY <1>1 DEF IInv, Inv, RunShape, Working, RacedTargets
<1>7. SeenFresh'
  BY <1>1, <1>4 DEF IInv, Inv, SeenFresh
<1>8. \A u : cur # t => RowsAt(cur, u)' = RowsAt(cur, u)
  BY <1>1, <1>4 DEF RowsAt, Rows
<1>9. HitThere'
  BY <1>1, <1>3, <1>8 DEF IInv, Inv, HitThere
<1>10. FreshIffStored'
  BY <1>1, <1>3, <1>4, <1>8 DEF IInv, Inv, FreshIffStored, Rows
<1>11. CleanRemovalIsFinal'
  BY <1>1, <1>4 DEF IInv, Inv, CleanRemovalIsFinal
<1> QED BY <1>5, <1>6, <1>7, <1>9, <1>10, <1>11 DEF IInv, Inv

LEMMA RemoveTargetInv ==
  ASSUME IInv, NEW t \in Target, RemoveTarget(t) PROVE IInv'
<1>1. UNCHANGED <<offers, pc, todo, cur, raws, hit, seen, cleared, runs, edits>>
  BY DEF RemoveTarget, runVars
<1>2. /\ targets' \in [Target -> [status : {"absent", "live", "removed"}, enabled : BOOLEAN]]
      /\ \A x \in Target \ {t} : targets'[x] = targets[x]
  BY DEF RemoveTarget, IInv, TypeOK
<1>3. /\ raced \subseteq raced' /\ raced' \subseteq Target
      /\ t \in todo \cup {cur} \/ Rows(t) # {} => t \in raced'
  BY DEF RemoveTarget, IInv, TypeOK
<1>4. removing' \subseteq Target
  BY DEF RemoveTarget, IInv, TypeOK
<1>5. TypeOK'
  BY <1>1, <1>2, <1>3, <1>4 DEF IInv, TypeOK, OneRowPerOffer
<1>6. RunShape' /\ SeenFresh' /\ HitThere' /\ FreshIffStored'
  BY <1>1 DEF IInv, Inv, RunShape, Working, SeenFresh, HitThere, FreshIffStored, Rows, RowsAt
<1>7. RacedTargets'
  BY <1>1, <1>2, <1>3 DEF IInv, Inv, TypeOK, RunShape, RacedTargets, Working
<1>8. CleanRemovalIsFinal'
  <2> SUFFICES ASSUME NEW r \in offers, targets'[r.target].status = "removed" PROVE r.target \in raced'
    BY <1>1 DEF CleanRemovalIsFinal
  <2>1. r.target \in Target
    BY DEF IInv, TypeOK, Row
  <2>2. CASE r.target = t
    BY <1>3, <2>2 DEF Rows
  <2>3. CASE r.target # t
    BY <1>2, <1>3, <2>1, <2>3 DEF IInv, Inv, CleanRemovalIsFinal
  <2> QED BY <2>2, <2>3
<1> QED BY <1>5, <1>6, <1>7, <1>8 DEF IInv, Inv

LEMMA EditRowInv ==
  ASSUME IInv, NEW r \in offers, (\E d \in BOOLEAN : SetDismissed(r, d)) \/ DeleteOffer(r) PROVE IInv'
<1>1. /\ edits' \in 0..MaxEdits
      /\ UNCHANGED <<targets, removing, cleared, pc, todo, cur, raws, hit, seen, raced, runs>>
  BY RequestShape DEF SetDismissed, DeleteOffer
<1>2. PICK s \in Row : offers' = (offers \ {r}) \cup {s} /\ SameKey(r, s) /\ s.stale = r.stale
  BY EditedRow DEF IInv
<1>3. TypeOK'
  BY <1>1, <1>2 DEF IInv, TypeOK, OneRowPerOffer, SameKey
<1>4. RunShape' /\ RacedTargets'
  BY <1>1 DEF IInv, Inv, RunShape, Working, RacedTargets
<1>5. SeenFresh'
  BY <1>1, <1>2 DEF IInv, Inv, SeenFresh, SameKey
<1>6. \A t, u : RowsAt(t, u) # {} => RowsAt(t, u)' # {}
  BY <1>2 DEF RowsAt, Rows, SameKey
<1>7. HitThere'
  BY <1>1, <1>6 DEF IInv, Inv, HitThere
<1>8. FreshIffStored'
  BY <1>1, <1>2, <1>6 DEF IInv, Inv, FreshIffStored, Rows, SameKey
<1>9. CleanRemovalIsFinal'
  BY <1>1, <1>2 DEF IInv, Inv, CleanRemovalIsFinal, SameKey
<1> QED BY <1>3, <1>4, <1>5, <1>7, <1>8, <1>9 DEF IInv, Inv

-----------------------------------------------------------------------------
LEMMA StutterInv == ASSUME IInv, UNCHANGED vars PROVE IInv'
BY DEF vars, runVars, IInv, Inv, TypeOK, OneRowPerOffer, RunShape, Working, SeenFresh, HitThere,
       RacedTargets, FreshIffStored, CleanRemovalIsFinal, Rows, RowsAt

LEMMA StepInv == IInv /\ [Next]_vars => IInv'
<1> SUFFICES ASSUME IInv, [Next]_vars PROVE IInv'
  OBVIOUS
<1>1. CASE (\E t \in Target : RunOne(t)) \/ (\E u \in User : RunAll(u))
  BY <1>1, BeginInv
<1>2. CASE ScrapeStep
  BY <1>2, PickTargetInv, WorkerAnswersInv, SelectOfferInv, UpdateOfferInv, InsertOfferInv,
     SkipOfferInv, PruneStaleInv, LeaveTargetInv DEF ScrapeStep, TargetDone, TargetFails
<1>3. CASE EmitCompleted
  BY <1>3, EmitCompletedInv
<1>4. CASE RequestStep
  BY <1>4, ChangeTargetInv, ClearInv, RemoveTargetInv, EditRowInv DEF RequestStep
<1>5. CASE Restart
  BY <1>5, RestartInv
<1>6. CASE UNCHANGED vars
  BY <1>6, StutterInv
<1> QED BY <1>1, <1>2, <1>3, <1>4, <1>5, <1>6 DEF Next, RunStep

LEMMA Invariance == Safety => []IInv
BY InitInv, StepInv, PTL DEF Safety

-----------------------------------------------------------------------------
(* What a step may do to a row *)

\* A step that adds no stale row leaves nothing to explain.
LEMMA NothingNewStale ==
  ASSUME TypeOK,
         \A s \in offers' : s.stale => \E r \in offers : SameKey(r, s) /\ r.stale
  PROVE  StaleOnEvidence
BY DEF TypeOK, OneRowPerOffer, SameKey, StaleOnEvidence

LEMMA RowsUntouched ==
  ASSUME TypeOK, UNCHANGED offers
  PROVE  StaleOnEvidence /\ DecisionsKept
<1>1. StaleOnEvidence
  BY NothingNewStale DEF SameKey
<1> QED BY <1>1 DEF DecisionsKept

\* The steps that change rows.
LEMMA RowSteps ==
  ASSUME Next
  PROVE  \/ UNCHANGED offers
         \/ UpdateOffer \/ InsertOffer \/ PruneStale
         \/ \E t \in Target : ClearOffers(t) \/ RemoveOffers(t)
         \/ \E r \in offers : (\E d \in BOOLEAN : SetDismissed(r, d)) \/ DeleteOffer(r)
BY DEF Next, RunStep, ScrapeStep, RequestStep, RunOne, RunAll, Begin, PickTarget, WorkerAnswers,
       SelectOffer, SkipOffer, TargetDone, TargetFails, LeaveTarget, EmitCompleted, Restart,
       CreateTarget, UpdateTarget, RemoveTarget

LEMMA StepTouches ==
  ASSUME IInv, Next PROVE StaleOnEvidence /\ (UNCHANGED runVars \/ DecisionsKept)
<1> TypeOK /\ RunShape
  BY DEF IInv, Inv
<1>1. CASE UNCHANGED offers
  BY <1>1, RowsUntouched
<1>2. CASE UpdateOffer
  <2>1. StaleOnEvidence
    BY <1>2, UpdateOfferRows, NothingNewStale DEF Carried
  <2>2. DecisionsKept
    BY <1>2, UpdateOfferRows DEF DecisionsKept, Carried, SameKey
  <2> QED BY <2>1, <2>2
<1>3. CASE InsertOffer
  <2>1. PICK n \in Row : offers' = offers \cup {n} /\ ~n.stale
    BY <1>3, InsertOfferRows
  <2>2. StaleOnEvidence
    BY <2>1, NothingNewStale DEF SameKey
  <2> QED BY <2>1, <2>2 DEF DecisionsKept
<1>4. CASE PruneStale
  <2>1. StaleOnEvidence
    <3> SUFFICES ASSUME NEW r \in offers, NEW s \in offers', SameKey(r, s), ~r.stale, s.stale
                 PROVE  cur = r.target /\ (\E u \in seen : u # r.url) /\ r.url \notin seen
      BY DEF StaleOnEvidence, SameKey
    <3>1. PICK q \in offers : Carried(q, s) /\ (s.stale <=> q.stale \/ (q.target = cur /\ q.url \notin seen))
      BY <1>4, PruneStaleRows
    <3>2. q = r
      BY <3>1 DEF TypeOK, OneRowPerOffer, Carried, SameKey
    <3>3. seen # {}
      BY <1>4 DEF PruneStale, RunShape
    <3> QED BY <3>1, <3>2, <3>3
  <2>2. DecisionsKept
    BY <1>4, PruneStaleRows DEF DecisionsKept, Carried, SameKey
  <2> QED BY <2>1, <2>2
<1>5. ASSUME NEW t \in Target, ClearOffers(t) \/ RemoveOffers(t)
      PROVE  StaleOnEvidence /\ UNCHANGED runVars
  <2>1. StaleOnEvidence
    BY <1>5, ClearedRows, NothingNewStale DEF SameKey
  <2> QED BY <1>5, <2>1 DEF ClearOffers, RemoveOffers, Request
<1>6. ASSUME NEW r \in offers, (\E d \in BOOLEAN : SetDismissed(r, d)) \/ DeleteOffer(r)
      PROVE  StaleOnEvidence /\ UNCHANGED runVars
  <2>1. PICK s \in Row : offers' = (offers \ {r}) \cup {s} /\ SameKey(r, s) /\ s.stale = r.stale
    BY <1>6, EditedRow
  <2>2. StaleOnEvidence
    BY <2>1, NothingNewStale DEF SameKey
  <2> QED BY <1>6, <2>2 DEF SetDismissed, DeleteOffer, Request
<1> QED BY <1>1, <1>2, <1>3, <1>4, <1>5, <1>6, RowSteps

-----------------------------------------------------------------------------
(* The refinement *)

\* The life that the rows of a key stand for.
Life(rows) ==
  IF rows = {} THEN "absent"
  ELSE IF \A r \in rows : r.deleted THEN "deleted"
  ELSE IF \E r \in rows : r.stale /\ ~r.deleted THEN "stale"
  ELSE "listed"

LifeOfRow(r) == IF r.deleted THEN "deleted" ELSE IF r.stale THEN "stale" ELSE "listed"

LEMMA LifeByRows ==
  ASSUME NEW t, NEW u
  PROVE  LifeOf(<<t, u>>) = Life(RowsAt(t, u)) /\ LifeOf(<<t, u>>)' = Life(RowsAt(t, u)')
BY DEF LifeOf, Life

LEMMA LifeOfNone == Life({}) = "absent"
BY DEF Life

\* There is one row of a key at most, and it says what the offer's life is.
LEMMA LifeOfOne == ASSUME NEW r PROVE Life({r}) = LifeOfRow(r)
BY DEF Life, LifeOfRow

\* A step keeps to the lifecycle if it restores no deleted row and adds none
\* but fresh ones.
Lawful ==
  /\ \A r \in offers, s \in offers' : SameKey(r, s) /\ r.deleted => s.deleted
  /\ \A s \in offers' : (\E r \in offers : SameKey(r, s)) \/ (~s.deleted /\ ~s.stale)

LEMMA LawfulLife ==
  ASSUME OneRowPerOffer, OneRowPerOffer', Lawful, NEW k \in Key
  PROVE  /\ LifeOf(k)' \in OL!Life
         /\ LifeOf(k)' = LifeOf(k) \/ <<LifeOf(k), LifeOf(k)'>> \in OL!Change
<1> PICK t \in Target, u \in Url : k = <<t, u>>
  BY DEF Key
<1>1. LifeOf(k) = Life(RowsAt(t, u)) /\ LifeOf(k)' = Life(RowsAt(t, u)')
  BY LifeByRows
<1>2. RowsAt(t, u) = {} \/ \E r \in offers : RowsAt(t, u) = {r} /\ r.target = t /\ r.url = u
  BY DEF RowsAt, Rows, OneRowPerOffer
<1>3. RowsAt(t, u)' = {} \/ \E s \in offers' : RowsAt(t, u)' = {s} /\ s.target = t /\ s.url = u
  BY DEF RowsAt, Rows, OneRowPerOffer
<1>4. CASE RowsAt(t, u)' = {}
  <2>1. LifeOf(k)' = "absent" /\ LifeOf(k) \in {"absent", "deleted", "stale", "listed"}
    BY <1>1, <1>2, <1>4, LifeOfNone, LifeOfOne DEF LifeOfRow
  <2> QED BY <2>1 DEF OL!Life, OL!Change
<1>5. ASSUME NEW s \in offers', RowsAt(t, u)' = {s}, s.target = t, s.url = u, RowsAt(t, u) = {}
      PROVE  LifeOf(k)' = "listed" /\ LifeOf(k) = "absent"
  <2>1. ~s.deleted /\ ~s.stale
    BY <1>5 DEF Lawful, SameKey, RowsAt, Rows
  <2> QED BY <1>1, <1>5, <2>1, LifeOfNone, LifeOfOne DEF LifeOfRow
<1>6. ASSUME NEW s \in offers', RowsAt(t, u)' = {s}, s.target = t, s.url = u,
             NEW r \in offers, RowsAt(t, u) = {r}, r.target = t, r.url = u
      PROVE  LifeOf(k)' = LifeOfRow(s) /\ LifeOf(k) = LifeOfRow(r) /\ (r.deleted => s.deleted)
  BY <1>1, <1>6, LifeOfOne DEF Lawful, SameKey
<1>7. CASE RowsAt(t, u)' # {} /\ RowsAt(t, u) = {}
  BY <1>3, <1>5, <1>7 DEF OL!Life, OL!Change
<1>8. CASE RowsAt(t, u)' # {} /\ RowsAt(t, u) # {}
  BY <1>2, <1>3, <1>6, <1>8 DEF OL!Life, OL!Change, LifeOfRow
<1> QED BY <1>4, <1>7, <1>8

LEMMA StepLawful ==
  ASSUME IInv, IInv', [Next]_vars PROVE Lawful
<1> TypeOK /\ RunShape /\ OneRowPerOffer
  BY DEF IInv, Inv, TypeOK
<1>1. CASE UNCHANGED offers
  BY <1>1 DEF Lawful, SameKey, OneRowPerOffer
<1>2. CASE UpdateOffer
  BY <1>2, UpdateOfferRows DEF Lawful, Carried, SameKey, OneRowPerOffer
<1>3. CASE InsertOffer
  BY <1>3, InsertOfferRows DEF Lawful, SameKey, OneRowPerOffer
<1>4. CASE PruneStale
  BY <1>4, PruneStaleRows DEF Lawful, Carried, SameKey, OneRowPerOffer
<1>5. ASSUME NEW t \in Target, ClearOffers(t) \/ RemoveOffers(t) PROVE Lawful
  BY <1>5, ClearedRows DEF Lawful, SameKey, OneRowPerOffer
<1>6. ASSUME NEW r \in offers, (\E d \in BOOLEAN : SetDismissed(r, d)) \/ DeleteOffer(r) PROVE Lawful
  BY <1>6, EditedRow DEF Lawful, SameKey, OneRowPerOffer
<1> QED BY <1>1, <1>2, <1>3, <1>4, <1>5, <1>6, RowSteps DEF vars

LEMMA TableRefines == Safety => ImplementsLifecycle
<1>1. Init => OL!Init
  <2> SUFFICES ASSUME Init, NEW k \in Key PROVE LifeOf(k) = "absent"
    BY DEF OL!Init
  <2>1. PICK t \in Target, u \in Url : k = <<t, u>>
    BY DEF Key
  <2>2. RowsAt(t, u) = {}
    BY DEF Init, RowsAt, Rows
  <2> QED BY <2>1, <2>2, LifeByRows, LifeOfNone
<1>2. IInv /\ IInv' /\ [Next]_vars => OL!Next
  <2> SUFFICES ASSUME IInv, IInv', [Next]_vars PROVE OL!Next
    OBVIOUS
  <2>1. \A k \in Key : /\ LifeOf(k)' \in OL!Life
                       /\ LifeOf(k)' = LifeOf(k) \/ <<LifeOf(k), LifeOf(k)'>> \in OL!Change
    BY StepLawful, LawfulLife DEF IInv, TypeOK
  <2> QED BY <2>1 DEF OL!Next
<1>3. Safety => []IInv
  BY Invariance
<1> QED BY <1>1, <1>2, <1>3, PTL DEF Safety, ImplementsLifecycle, OL!Spec

LEMMA TouchesFreshnessOnly == Safety => RunsTouchFreshnessOnly
<1>1. IInv /\ [Next]_vars => [StaleOnEvidence /\ (UNCHANGED runVars \/ DecisionsKept)]_vars
  BY StepTouches
<1> QED BY <1>1, Invariance, PTL DEF Safety, RunsTouchFreshnessOnly

-----------------------------------------------------------------------------
LEMMA SpecSafety == Spec => Safety
BY PTL DEF Spec, Safety

\* Tables and run keep their types for every set of targets and offers, and
\* there is one row of an offer per target at most, whatever requests are
\* served between the select of upsert and its insert.
THEOREM TypeCorrect == Spec => []TypeOK
<1>1. IInv => TypeOK
  BY DEF IInv
<1> QED BY <1>1, SpecSafety, Invariance, PTL

\* At the end of a scrape a row of its target is stale exactly if the scrape
\* did not store it, and what counts as stored is in the table unless it was
\* cleared meanwhile.
THEOREM ScrapeDividesRows == Spec => []FreshIffStored
<1>1. IInv => FreshIffStored
  BY DEF IInv, Inv
<1> QED BY <1>1, SpecSafety, Invariance, PTL

\* No run brings offers of a removed target back, but one that had the target
\* in its snapshot when it was removed.
THEOREM RemovalIsFinal == Spec => []CleanRemovalIsFinal
<1>1. IInv => CleanRemovalIsFinal
  BY DEF IInv, Inv
<1> QED BY <1>1, SpecSafety, Invariance, PTL

\* No step of a run changes what a user decided about an offer, and an offer
\* becomes stale only by a scrape of its target that stored another one.
THEOREM DecisionsSurvive == Spec => RunsTouchFreshnessOnly
BY SpecSafety, TouchesFreshnessOnly, PTL

\* The table of offers, with every run and request, implements the lifecycle
\* promised of an offer: a deleted one is never listed again by a scrape.
THEOREM TableImplementsLifecycle == Spec => ImplementsLifecycle
BY SpecSafety, TableRefines, PTL

-----------------------------------------------------------------------------
(* The run queue                                                           *)

NoDup(s) == \A i, j \in 1..Len(s) : s[i] = s[j] => i = j

\* Appending adds one element.
LEMMA RangeAppend ==
  ASSUME NEW S, NEW s \in Seq(S), NEW x \in S
  PROVE  /\ Append(s, x) \in Seq(S)
         /\ Q!Range(Append(s, x)) = Q!Range(s) \cup {x}
<1>1. Append(s, x) \in Seq(S)
  OBVIOUS
<1>2. ASSUME NEW y \in Q!Range(s) \cup {x}
      PROVE  y \in Q!Range(Append(s, x))
  <2>1. CASE y = x
    <3>1. Append(s, x)[Len(s) + 1] = x /\ Len(s) + 1 \in DOMAIN Append(s, x)
      OBVIOUS
    <3>2. QED BY <2>1, <3>1 DEF Q!Range
  <2>2. CASE y \in Q!Range(s)
    <3>1. PICK i \in DOMAIN s : y = s[i]
      BY <2>2 DEF Q!Range
    <3>2. Append(s, x)[i] = y /\ i \in DOMAIN Append(s, x)
      BY <3>1
    <3>3. QED BY <3>2 DEF Q!Range
  <2>3. QED BY <1>2, <2>1, <2>2
<1>3. ASSUME NEW y \in Q!Range(Append(s, x))
      PROVE  y \in Q!Range(s) \cup {x}
  <2>1. PICK i \in DOMAIN Append(s, x) : y = Append(s, x)[i]
    BY <1>3 DEF Q!Range
  <2>2. QED BY <2>1 DEF Q!Range
<1>4. QED BY <1>1, <1>2, <1>3

\* An element that is not there yet may be appended without a duplicate.
LEMMA NoDupAppend ==
  ASSUME NEW S, NEW s \in Seq(S), NEW x \in S, NoDup(s), x \notin Q!Range(s)
  PROVE  NoDup(Append(s, x))
BY DEF NoDup, Q!Range

\* The elements of a sequence are its head and those of its tail.
LEMMA RangeTail ==
  ASSUME NEW S, NEW s \in Seq(S), s # <<>>
  PROVE  /\ Head(s) \in S
         /\ Tail(s) \in Seq(S)
         /\ Q!Range(s) = {Head(s)} \cup Q!Range(Tail(s))
<1>1. Head(s) \in S /\ Tail(s) \in Seq(S) /\ Len(s) \in Nat \ {0}
      /\ Head(s) = s[1] /\ Len(Tail(s)) = Len(s) - 1
      /\ \A i \in 1..(Len(s) - 1) : Tail(s)[i] = s[i + 1]
  OBVIOUS
<1>2. ASSUME NEW y \in Q!Range(s)
      PROVE  y \in {Head(s)} \cup Q!Range(Tail(s))
  <2>1. PICK i \in 1..Len(s) : y = s[i]
    BY <1>2 DEF Q!Range
  <2>2. CASE i = 1
    BY <1>1, <2>1, <2>2
  <2>3. CASE i # 1
    <3>1. i - 1 \in DOMAIN Tail(s) /\ Tail(s)[i - 1] = y
      BY <1>1, <2>1, <2>3
    <3>2. QED BY <3>1 DEF Q!Range
  <2>4. QED BY <2>2, <2>3
<1>3. ASSUME NEW y \in {Head(s)} \cup Q!Range(Tail(s))
      PROVE  y \in Q!Range(s)
  <2>1. CASE y = Head(s)
    BY <1>1, <2>1 DEF Q!Range
  <2>2. CASE y \in Q!Range(Tail(s))
    <3>1. PICK i \in 1..Len(Tail(s)) : y = Tail(s)[i]
      BY <1>1, <2>2 DEF Q!Range
    <3>2. i + 1 \in DOMAIN s /\ s[i + 1] = y
      BY <1>1, <3>1
    <3>3. QED BY <3>2 DEF Q!Range
  <2>3. QED BY <1>3, <2>1, <2>2
<1>4. QED BY <1>1, <1>2, <1>3

\* Shifting keeps a queue free of duplicates and takes its head out of it.
LEMMA NoDupTail ==
  ASSUME NEW S, NEW s \in Seq(S), s # <<>>, NoDup(s)
  PROVE  NoDup(Tail(s)) /\ Head(s) \notin Q!Range(Tail(s))
<1>1. Tail(s) \in Seq(S) /\ Len(s) \in Nat \ {0}
      /\ Head(s) = s[1] /\ Len(Tail(s)) = Len(s) - 1
      /\ \A i \in 1..(Len(s) - 1) : Tail(s)[i] = s[i + 1]
  OBVIOUS
<1>2. NoDup(Tail(s))
  BY <1>1 DEF NoDup
<1>3. Head(s) \notin Q!Range(Tail(s))
  <2>1. SUFFICES ASSUME NEW i \in DOMAIN Tail(s), Tail(s)[i] = Head(s)
                 PROVE  FALSE
    BY DEF Q!Range
  <2>2. i \in 1..(Len(s) - 1)
    BY <1>1
  <2>3. s[i + 1] = s[1] /\ i + 1 \in 1..Len(s) /\ 1 \in 1..Len(s)
    BY <1>1, <2>1, <2>2
  <2>4. QED BY <2>2, <2>3 DEF NoDup
<1>4. QED BY <1>2, <1>3

-----------------------------------------------------------------------------
(* The inductive invariant: the safety properties need each other.  Whether *)
(* the loop that takes the next entry is the only one (OneRunAtATime)       *)
(* depends on the flag, and the flag on no entry waiting while it is down   *)
(* (NoIdleBacklog); that the entry taken is new to every other place rests  *)
(* on EveryCallInOnePlace.                                                  *)
QueueInv ==
  /\ Q!TypeOK
  /\ Q!NoIdleBacklog
  /\ Q!OneRunAtATime
  /\ Q!EveryCallInOnePlace

\* The empty sequence has no elements.
LEMMA RangeEmpty == Q!Range(<<>>) = {}
BY DEF Q!Range

\* The queue starts empty, idle and with no call made.
LEMMA QueueInitInv == Q!Init => QueueInv
<1> SUFFICES ASSUME Q!Init
             PROVE  QueueInv
  OBVIOUS
<1>1. Q!TypeOK
  <2>1. <<>> \in Seq(1..LastCall) /\ FALSE \in BOOLEAN
    OBVIOUS
  <2>2. QED BY <2>1 DEF Q!Init, Q!TypeOK
<1>2. Q!NoIdleBacklog /\ Q!OneRunAtATime
  BY DEF Q!Init, Q!NoIdleBacklog, Q!OneRunAtATime
<1>3. Q!EveryCallInOnePlace
  BY RangeEmpty DEF Q!Init, Q!EveryCallInOnePlace
<1>4. QED BY <1>1, <1>2, <1>3 DEF QueueInv

\* enqueue() keeps the invariant, whether it finds a loop or starts one.
LEMMA QueueEnqueueInv ==
  ASSUME QueueInv, NEW c \in 1..LastCall, Q!Enqueue(c)
  PROVE  QueueInv'
<1> USE DEF QueueInv, Q!TypeOK, Q!NoIdleBacklog, Q!OneRunAtATime, Q!EveryCallInOnePlace
<1>1. c \notin called /\ c \notin Q!Range(queue) /\ NoDup(queue)
      /\ called' = called \cup {c} /\ settled' = settled /\ lost' = lost
  BY DEF Q!Enqueue, NoDup
<1>2. CASE running
  <2>1. queue' = Append(queue, c) /\ running' = running /\ inFlight' = inFlight
    BY <1>2 DEF Q!Enqueue, Q!Drain
  <2>2. queue' \in Seq(1..LastCall) /\ Q!Range(queue') = Q!Range(queue) \cup {c} /\ NoDup(queue')
    BY <1>1, <2>1, RangeAppend, NoDupAppend
  <2>3. Q!TypeOK' /\ Q!NoIdleBacklog' /\ Q!OneRunAtATime'
    BY <1>1, <1>2, <2>1, <2>2
  <2>4. Q!EveryCallInOnePlace'
    BY <1>1, <2>1, <2>2 DEF NoDup
  <2>5. QED BY <2>3, <2>4
<1>3. CASE ~running
  <2>1. queue = <<>> /\ inFlight = {}
    BY <1>3
  <2>2. Append(queue, c) = <<c>> /\ <<c>> # <<>> /\ Head(<<c>>) = c /\ Tail(<<c>>) = <<>>
    BY <2>1
  <2>3. queue' = <<>> /\ inFlight' = {c} /\ running' = TRUE
    BY <1>3, <2>1, <2>2 DEF Q!Enqueue, Q!Drain, Q!LoopTurn
  <2>4. Q!TypeOK' /\ Q!NoIdleBacklog' /\ Q!OneRunAtATime'
    BY <1>1, <2>3
  <2>5. Q!EveryCallInOnePlace'
    BY <1>1, <2>1, <2>3, RangeEmpty
  <2>6. QED BY <2>4, <2>5
<1>4. QED BY <1>2, <1>3

\* The end of a run hands the loop the next entry, or lowers the flag.
LEMMA QueueResolvesInv ==
  ASSUME QueueInv, NEW c \in 1..LastCall, Q!RunResolves(c)
  PROVE  QueueInv'
<1> USE DEF QueueInv, Q!TypeOK, Q!NoIdleBacklog, Q!OneRunAtATime, Q!EveryCallInOnePlace
<1>1. inFlight = {c} /\ inFlight \ {c} = {} /\ running
  BY DEF Q!RunResolves
<1>2. settled' = Append(settled, c) /\ called' = called /\ lost' = lost
      /\ c \notin Q!Range(settled) /\ NoDup(settled) /\ NoDup(queue)
  BY <1>1 DEF Q!RunResolves, NoDup
<1>3. settled' \in Seq(1..LastCall) /\ Q!Range(settled') = Q!Range(settled) \cup {c} /\ NoDup(settled')
  BY <1>2, RangeAppend, NoDupAppend
<1>4. CASE queue = <<>>
  <2>1. queue' = <<>> /\ inFlight' = {} /\ running' = FALSE
    BY <1>1, <1>4 DEF Q!RunResolves, Q!LoopTurn
  <2>2. Q!TypeOK'
    <3>1. <<>> \in Seq(1..LastCall) /\ FALSE \in BOOLEAN
      OBVIOUS
    <3>2. QED BY <1>2, <1>3, <2>1, <3>1
  <2>3. Q!NoIdleBacklog' /\ Q!OneRunAtATime'
    BY <2>1
  <2>4. Q!EveryCallInOnePlace'
    BY <1>1, <1>2, <1>3, <1>4, <2>1, RangeEmpty DEF NoDup
  <2>5. QED BY <2>2, <2>3, <2>4
<1>5. CASE queue # <<>>
  <2>1. queue' = Tail(queue) /\ inFlight' = {Head(queue)} /\ running' = TRUE
    BY <1>1, <1>5 DEF Q!RunResolves, Q!LoopTurn
  <2>2. Head(queue) \in 1..LastCall /\ queue' \in Seq(1..LastCall)
        /\ Q!Range(queue) = {Head(queue)} \cup Q!Range(queue')
    BY <1>5, <2>1, RangeTail
  <2>3. NoDup(queue') /\ Head(queue) \notin Q!Range(queue')
    BY <1>2, <1>5, <2>1, NoDupTail
  <2>4. Q!TypeOK' /\ Q!NoIdleBacklog' /\ Q!OneRunAtATime'
    BY <1>2, <1>3, <2>1, <2>2
  <2>5. Q!EveryCallInOnePlace'
    BY <1>1, <1>2, <1>3, <2>1, <2>2, <2>3 DEF NoDup
  <2>6. QED BY <2>4, <2>5
<1>6. QED BY <1>4, <1>5

\* A restart leaves nothing behind but the calls it lost.
LEMMA QueueRestartInv ==
  ASSUME QueueInv, Q!Restart
  PROVE  QueueInv'
<1> USE DEF QueueInv, Q!TypeOK, Q!NoIdleBacklog, Q!OneRunAtATime, Q!EveryCallInOnePlace
<1>1. queue' = <<>> /\ inFlight' = {} /\ running' = FALSE
      /\ called' = called /\ settled' = settled
      /\ lost' = lost \cup inFlight \cup Q!Range(queue)
  BY DEF Q!Restart
<1>2. Q!Range(queue) \subseteq 1..LastCall
  BY DEF Q!Range
<1>3. Q!TypeOK' /\ Q!NoIdleBacklog' /\ Q!OneRunAtATime'
  <2>1. <<>> \in Seq(1..LastCall) /\ FALSE \in BOOLEAN
    OBVIOUS
  <2>2. Q!TypeOK'
    BY <1>1, <1>2, <2>1
  <2>3. Q!NoIdleBacklog' /\ Q!OneRunAtATime'
    BY <1>1
  <2>4. QED BY <2>2, <2>3
<1>4. Q!EveryCallInOnePlace'
  BY <1>1, RangeEmpty
<1>5. QED BY <1>3, <1>4

\* Every step of the queue keeps the invariant.
LEMMA QueueStepInv == QueueInv /\ [Q!Next]_(Q!vars) => QueueInv'
<1> SUFFICES ASSUME QueueInv, [Q!Next]_(Q!vars)
             PROVE  QueueInv'
  OBVIOUS
<1>1. ASSUME NEW c \in 1..LastCall, Q!Enqueue(c)
      PROVE  QueueInv'
  BY <1>1, QueueEnqueueInv
<1>2. ASSUME NEW c \in 1..LastCall, Q!RunResolves(c)
      PROVE  QueueInv'
  BY <1>2, QueueResolvesInv
<1>3. ASSUME NEW c \in 1..LastCall, Q!RunRejects(c)
      PROVE  QueueInv'
  BY <1>3, QueueRestartInv DEF Q!RunRejects
<1>4. CASE Q!Stop
  BY <1>4, QueueRestartInv DEF Q!Stop
<1>5. CASE UNCHANGED Q!vars
  BY <1>5 DEF Q!vars, QueueInv, Q!TypeOK, Q!NoIdleBacklog, Q!OneRunAtATime, Q!EveryCallInOnePlace
<1>6. QED BY <1>1, <1>2, <1>3, <1>4, <1>5 DEF Q!Next, Q!RunEnds

\* What the mapping of RunQueue's pending calls amounts to: the held entry,
\* if a loop holds one, and then the queue.
LEMMA HeldFirst ==
  ASSUME QueueInv
  PROVE  /\ inFlight = {} => Q!Held \o queue = <<>>
         /\ \A c \in 1..LastCall : inFlight = {c} => Q!Held \o queue = <<c>> \o queue
<1>1. inFlight = {} => Q!Held = <<>> /\ queue = <<>>
  BY DEF QueueInv, Q!OneRunAtATime, Q!NoIdleBacklog, Q!Held
<1>2. ASSUME NEW c \in 1..LastCall, inFlight = {c}
      PROVE  Q!Held = <<c>>
  BY <1>2 DEF Q!Held
<1>3. <<>> \o <<>> = <<>>
  OBVIOUS
<1>4. inFlight = {} => Q!Held \o queue = <<>>
  BY <1>1, <1>3
<1>5. QED BY <1>2, <1>4

\* RunQueue's Range is the one used here.
LEMMA SameRange == \A s : Q!RQ!Range(s) = Q!Range(s)
BY DEF Q!RQ!Range, Q!Range

\* A sequence with an element put in front of it.
LEMMA Prefixed ==
  ASSUME NEW S, NEW x \in S, NEW s \in Seq(S)
  PROVE  /\ <<x>> \o s # <<>>
         /\ Head(<<x>> \o s) = x
         /\ Tail(<<x>> \o s) = s
         /\ Q!Range(<<x>> \o s) = {x} \cup Q!Range(s)
         /\ \A y \in S : Append(<<x>> \o s, y) = <<x>> \o Append(s, y)
<1>1. <<x>> \o s \in Seq(S) /\ <<x>> \o s # <<>> /\ Len(<<x>> \o s) = Len(s) + 1
      /\ Head(<<x>> \o s) = x
  OBVIOUS
<1>2. Tail(<<x>> \o s) = s
  OBVIOUS
<1>3. Q!Range(<<x>> \o s) = {x} \cup Q!Range(s)
  BY <1>1, <1>2, RangeTail
<1>4. ASSUME NEW y \in S
      PROVE  Append(<<x>> \o s, y) = <<x>> \o Append(s, y)
  OBVIOUS
<1>5. QED BY <1>1, <1>2, <1>3, <1>4

\* enqueue() accepts the call.
LEMMA EnqueueAccepts ==
  ASSUME QueueInv, QueueInv', NEW c \in 1..LastCall, Q!Enqueue(c)
  PROVE  Q!RQ!Accept(c)
<1>1. c \notin called /\ settled' = settled /\ lost' = lost
      /\ c \notin Q!Range(queue) \cup inFlight \cup Q!Range(settled) \cup lost
  BY DEF Q!Enqueue, QueueInv, Q!EveryCallInOnePlace
<1>2. CASE running
  <2>0. inFlight # {} /\ inFlight \subseteq 1..LastCall /\ \A x, y \in inFlight : x = y
    BY <1>2 DEF QueueInv, Q!OneRunAtATime, Q!TypeOK
  <2>1. PICK d \in 1..LastCall : inFlight = {d}
    BY <2>0
  <2>2. queue \in Seq(1..LastCall) /\ queue' = Append(queue, c) /\ inFlight' = {d}
    BY <1>2, <2>1 DEF Q!Enqueue, Q!Drain, QueueInv, Q!TypeOK
  <2>3. Q!Held \o queue = <<d>> \o queue /\ (Q!Held \o queue)' = <<d>> \o queue'
    BY <2>1, <2>2 DEF Q!Held
  <2>4. Append(<<d>> \o queue, c) = <<d>> \o queue' /\ Q!Range(<<d>> \o queue) = {d} \cup Q!Range(queue)
    <3> DEFINE C == 1..LastCall
    <3>1. d \in C /\ c \in C /\ queue \in Seq(C) /\ queue' = Append(queue, c)
      BY <2>2
    <3> HIDE DEF C
    <3> QED BY <3>1, Prefixed
  <2>5. QED BY <1>1, <2>1, <2>3, <2>4, SameRange DEF Q!RQ!Accept
<1>3. CASE ~running
  <2>1. queue = <<>> /\ inFlight = {}
    BY <1>3 DEF QueueInv, Q!NoIdleBacklog, Q!OneRunAtATime
  <2>2. Append(queue, c) = <<c>> /\ <<c>> # <<>> /\ Head(<<c>>) = c /\ Tail(<<c>>) = <<>>
    BY <2>1
  <2>3. queue' = <<>> /\ inFlight' = {c}
    BY <1>3, <2>1, <2>2 DEF Q!Enqueue, Q!Drain, Q!LoopTurn
  <2>4. Q!Held \o queue = <<>> /\ (Q!Held \o queue)' = Append(<<>>, c)
    BY <2>1, <2>3 DEF Q!Held
  <2>5. QED BY <1>1, <2>4, RangeEmpty, SameRange DEF Q!RQ!Accept
<1>4. QED BY <1>2, <1>3

\* The end of a run serves the oldest pending call.
LEMMA RunResolvesServes ==
  ASSUME QueueInv, QueueInv', NEW c \in 1..LastCall, Q!RunResolves(c)
  PROVE  Q!RQ!Serve
<1>1. inFlight = {c} /\ inFlight \ {c} = {} /\ settled' = Append(settled, c) /\ lost' = lost
      /\ queue \in Seq(1..LastCall)
  BY DEF Q!RunResolves, QueueInv, Q!OneRunAtATime, Q!TypeOK
<1>2. Q!Held \o queue = <<c>> \o queue
  BY <1>1, HeldFirst
<1>3. Q!Held \o queue # <<>> /\ Head(Q!Held \o queue) = c /\ Tail(Q!Held \o queue) = queue
  BY <1>1, <1>2, Prefixed
<1>4. (Q!Held \o queue)' = queue
  <2>1. CASE queue = <<>>
    <3>1. queue' = <<>> /\ inFlight' = {}
      BY <1>1, <2>1 DEF Q!RunResolves, Q!LoopTurn
    <3>2. QED BY <2>1, <3>1 DEF Q!Held
  <2>2. CASE queue # <<>>
    <3>1. queue' = Tail(queue) /\ inFlight' = {Head(queue)}
      BY <1>1, <2>2 DEF Q!RunResolves, Q!LoopTurn
    <3>2. (Q!Held \o queue)' = <<Head(queue)>> \o Tail(queue)
      BY <3>1 DEF Q!Held
    <3>3. QED BY <1>1, <2>2, <3>2
  <2>3. QED BY <2>1, <2>2
<1>5. QED BY <1>1, <1>3, <1>4 DEF Q!RQ!Serve

\* A restart loses the held call and the queue behind it.
LEMMA RestartLoses ==
  ASSUME QueueInv, Q!Restart, running
  PROVE  Q!RQ!Lose
<1>1. PICK d \in 1..LastCall : inFlight = {d}
  BY DEF QueueInv, Q!OneRunAtATime, Q!TypeOK
<1>2. queue \in Seq(1..LastCall) /\ queue' = <<>> /\ inFlight' = {}
      /\ settled' = settled /\ lost' = lost \cup inFlight \cup Q!Range(queue)
  BY DEF Q!Restart, QueueInv, Q!TypeOK
<1>3. Q!Held \o queue = <<d>> \o queue /\ (Q!Held \o queue)' = <<>>
  BY <1>1, <1>2 DEF Q!Held
<1>4. Q!Held \o queue # <<>> /\ Q!Range(Q!Held \o queue) = inFlight \cup Q!Range(queue)
  <2> DEFINE C == 1..LastCall
  <2>1. d \in C /\ queue \in Seq(C)
    BY <1>2
  <2> HIDE DEF C
  <2>2. <<d>> \o queue # <<>> /\ Q!Range(<<d>> \o queue) = {d} \cup Q!Range(queue)
    BY <2>1, Prefixed
  <2> QED BY <1>1, <1>3, <2>2
<1>5. lost' = lost \cup Q!Range(Q!Held \o queue)
  BY <1>2, <1>4
<1>6. QED BY <1>2, <1>3, <1>4, <1>5, SameRange DEF Q!RQ!Lose

\* What the queue does without any fairness is what RunQueue allows.
LEMMA QueueStepsRefine == Q!Init /\ [][Q!Next]_(Q!vars) => Q!RQ!SafeSpec
<1>1. Q!Init => Q!RQ!Init
  BY DEF Q!Init, Q!RQ!Init, Q!Held
<1>2. QueueInv /\ QueueInv' /\ [Q!Next]_(Q!vars) => [Q!RQ!Next]_(Q!RQ!vars)
  <2> SUFFICES ASSUME QueueInv, QueueInv', [Q!Next]_(Q!vars)
               PROVE  [Q!RQ!Next]_(Q!RQ!vars)
    OBVIOUS
  <2>1. ASSUME NEW c \in 1..LastCall, Q!Enqueue(c)
        PROVE  Q!RQ!Next
    BY <2>1, EnqueueAccepts DEF Q!RQ!Next
  <2>2. ASSUME NEW c \in 1..LastCall, Q!RunResolves(c)
        PROVE  Q!RQ!Next
    BY <2>2, RunResolvesServes DEF Q!RQ!Next
  <2>3. ASSUME NEW c \in 1..LastCall, Q!RunRejects(c)
        PROVE  Q!RQ!Next
    <3>1. running
      BY <2>3 DEF Q!RunRejects, QueueInv, Q!OneRunAtATime
    <3>2. QED BY <2>3, <3>1, RestartLoses DEF Q!RunRejects, Q!RQ!Next
  <2>4. CASE Q!Stop
    BY <2>4, RestartLoses DEF Q!Stop, Q!RQ!Next
  <2>5. CASE UNCHANGED Q!vars
    <3>1. UNCHANGED <<Q!Held, queue, settled, lost>>
      BY <2>5 DEF Q!vars, Q!Held
    <3>2. QED BY <3>1 DEF Q!RQ!vars
  <2>6. QED BY <2>1, <2>2, <2>3, <2>4, <2>5 DEF Q!Next, Q!RunEnds
<1>3. Q!Init /\ [][Q!Next]_(Q!vars) => []QueueInv
  BY QueueInitInv, QueueStepInv, PTL
<1>4. QED BY <1>1, <1>2, <1>3, PTL DEF Q!RQ!SafeSpec

-----------------------------------------------------------------------------
(* The run queue and its runs                                              *)

\* What the composition does to the queue, ScrapeQueue does.
LEMMA StepOfQueue == QueueInv /\ [ServiceNext]_serviceVars => [Q!Next]_(Q!vars)
<1> SUFFICES ASSUME QueueInv, [ServiceNext]_serviceVars PROVE [Q!Next]_(Q!vars)
  OBVIOUS
<1> inFlight \subseteq 1..LastCall
  BY DEF QueueInv, Q!TypeOK
<1>1. ASSUME NEW c \in 1..LastCall, NEW x \in Target \cup User, Ask(c, x)
      PROVE  Q!Next
  BY <1>1 DEF Ask, Q!Next, Q!Enqueue, Q!Drain, Q!LoopTurn
<1>2. ASSUME NEW c \in inFlight, Start(c)
      PROVE  UNCHANGED Q!vars
  BY <1>2 DEF Start, queueVars, Q!vars
<1>3. ASSUME NEW c \in inFlight, Complete(c)
      PROVE  Q!Next
  <2>1. Q!RunResolves(c)
    BY <1>3 DEF Complete, Q!RunResolves, Q!LoopTurn
  <2>2. QED BY <2>1 DEF Q!Next, Q!RunEnds
<1>4. ASSUME NEW c \in inFlight, FindFails(c)
      PROVE  Q!Next
  <2>1. Q!RunRejects(c)
    BY <1>4 DEF FindFails, Down, Q!RunRejects, Q!Restart, Q!Range
  <2>2. QED BY <2>1 DEF Q!Next, Q!RunEnds
<1>5. CASE Crash
  <2>1. Q!Restart
    BY <1>5 DEF Crash, Down, Q!Restart, Q!Range
  <2>2. CASE running
    BY <2>1, <2>2 DEF Q!Stop, Q!Next
  <2>3. CASE ~running
    \* Nothing is queued or in hand then, and nothing is lost.
    <3>1. queue = <<>> /\ inFlight = {} /\ running = FALSE
      BY <2>3 DEF QueueInv, Q!NoIdleBacklog, Q!OneRunAtATime, Q!TypeOK
    <3>2. Q!Range(<<>>) = {}
      BY DEF Q!Range
    <3>3. lost' = lost
      BY <2>1, <3>1, <3>2 DEF Q!Restart
    <3>4. QED BY <2>1, <3>1, <3>3 DEF Q!Restart, Q!vars
  <2>4. QED BY <2>2, <2>3
<1>6. CASE UNCHANGED queueVars
  BY <1>6 DEF queueVars, Q!vars
<1>7. QED
  BY <1>1, <1>2, <1>3, <1>4, <1>5, <1>6 DEF ServiceNext, ServiceStep, serviceVars, queueVars

\* The invariant of the queue holds of every behaviour of the composition.
LEMMA QueueInvariance == ServiceSpec => []QueueInv
<1>1. ServiceInit => Q!Init
  BY DEF ServiceInit, Q!Init
<1>2. Q!Init => QueueInv
  BY QueueInitInv
<1>3. QueueInv /\ [Q!Next]_(Q!vars) => QueueInv'
  BY QueueStepInv
<1>4. QED BY <1>1, <1>2, <1>3, StepOfQueue, PTL DEF ServiceSpec

\* With the orchestrator's runs behind it, too, the queue never leaves a
\* request for a run waiting while nothing is underway.
THEOREM BacklogIsServed == ServiceSpec => []NoIdleBacklog
<1>1. QueueInv => NoIdleBacklog
  BY DEF QueueInv, Q!NoIdleBacklog, NoIdleBacklog
<1>2. QED BY <1>1, QueueInvariance, PTL

\* At most one run of the orchestrator is underway at a time, as ScrapeRun,
\* which has only one program counter, takes for granted.
THEOREM SerialRuns == ServiceSpec => []Q!OneRunAtATime
<1>1. QueueInv => Q!OneRunAtATime
  BY DEF QueueInv, Q!OneRunAtATime
<1>2. QED BY <1>1, QueueInvariance, PTL

\* No request for a run is dropped, run twice or settled twice.
THEOREM CallsAccountedFor == ServiceSpec => []Q!EveryCallInOnePlace
<1>1. QueueInv => Q!EveryCallInOnePlace
  BY DEF QueueInv
<1>2. QED BY <1>1, QueueInvariance, PTL

\* What is asked of the queue is served in the order it was asked for, once
\* each, with the orchestrator's runs behind it, however they fail; only the
\* end of the process takes calls, and takes all that wait.
THEOREM ServiceRefinesRunQueue == ServiceSpec => Q!RQ!SafeSpec
<1>1. ServiceInit => Q!Init
  BY DEF ServiceInit, Q!Init
<1>2. ServiceSpec => Q!Init /\ [][Q!Next]_(Q!vars)
  BY <1>1, StepOfQueue, QueueInvariance, PTL DEF ServiceSpec
<1>3. Q!Init /\ [][Q!Next]_(Q!vars) => Q!RQ!SafeSpec
  BY QueueStepsRefine
<1>4. QED BY <1>2, <1>3, PTL

-----------------------------------------------------------------------------
(* The run *)

\* What the composition does to the run and the tables, ScrapeRun does.
LEMMA StepOfRun == [ServiceNext]_serviceVars => [Next]_vars
<1> SUFFICES ASSUME [ServiceNext]_serviceVars PROVE [Next]_vars
  OBVIOUS
<1>1. ASSUME NEW c \in 1..LastCall, NEW x \in Target \cup User, Ask(c, x) PROVE UNCHANGED vars
  BY <1>1 DEF Ask
<1>2. ASSUME NEW c \in inFlight, Start(c) PROVE Next
  BY <1>2 DEF Start, Next
<1>3. ASSUME NEW c \in inFlight, Complete(c) PROVE Next
  BY <1>3 DEF Complete, Next, RunStep
<1>4. CASE ScrapeStep \/ RequestStep
  BY <1>4 DEF Next, RunStep
<1>5. CASE Down
  BY <1>5 DEF Down, Next
<1>6. CASE UNCHANGED serviceVars
  BY <1>6 DEF serviceVars
<1> QED BY <1>1, <1>2, <1>3, <1>4, <1>5, <1>6 DEF ServiceNext, ServiceStep, FindFails, Crash

LEMMA RunSafety == ServiceSpec => Safety
<1>1. ServiceInit => Init
  BY DEF ServiceInit
<1> QED BY <1>1, StepOfRun, PTL DEF ServiceSpec, Safety

\* The entries that wait or are in hand, however they move.
LEMMA PendingShrinks ==
  ASSUME Q!TypeOK, NEW held \in SUBSET inFlight, Q!LoopTurn(queue, held)
  PROVE  Pending' \subseteq Pending
<1>1. CASE queue = <<>>
  BY <1>1 DEF Q!LoopTurn, Pending, Range
<1>2. CASE queue # <<>>
  <2>1. Q!Range(queue) = {Head(queue)} \cup Q!Range(Tail(queue))
    BY <1>2, RangeTail DEF Q!TypeOK
  <2>2. Range(queue) = {Head(queue)} \cup Range(Tail(queue))
    BY <2>1 DEF Range, Q!Range
  <2>3. queue' = Tail(queue) /\ inFlight' = held \cup {Head(queue)}
    BY <1>2 DEF Q!LoopTurn
  <2> QED BY <2>2, <2>3 DEF Pending
<1> QED BY <1>1, <1>2

LEMMA PendingGrows ==
  ASSUME Q!TypeOK, NEW c \in 1..LastCall, Q!Enqueue(c)
  PROVE  Pending' \subseteq Pending \cup {c} /\ inFlight \subseteq inFlight'
<1> DEFINE q == Append(queue, c)
<1>1. q \in Seq(1..LastCall) /\ Range(q) = Range(queue) \cup {c} /\ q # <<>>
  <2> DEFINE C == 1..LastCall
  <2>1. queue \in Seq(C) /\ c \in C
    BY DEF Q!TypeOK
  <2> HIDE DEF C
  <2>2. q \in Seq(C) /\ Q!Range(q) = Q!Range(queue) \cup {c}
    BY <2>1, RangeAppend
  <2>3. q # <<>>
    BY <2>1
  <2> QED BY <2>2, <2>3 DEF C, Range, Q!Range
<1>2. Range(q) = {Head(q)} \cup Range(Tail(q))
  <2> HIDE DEF q
  <2>1. Q!Range(q) = {Head(q)} \cup Q!Range(Tail(q))
    BY <1>1, RangeTail
  <2> QED BY <2>1 DEF Range, Q!Range
<1>3. \/ queue' = q /\ inFlight' = inFlight
      \/ queue' = Tail(q) /\ inFlight' = inFlight \cup {Head(q)}
  BY <1>1 DEF Q!Enqueue, Q!Drain, Q!LoopTurn
<1> HIDE DEF q
<1> QED BY <1>1, <1>2, <1>3 DEF Pending

\* What the composition adds to the invariants of its parts.
Joint ==
  /\ wanted \in [Pending -> Target \cup User]
  /\ pc # "idle" => inFlight # {}

LEMMA JointInv == ServiceSpec => []Joint
<1>1. ServiceInit => Joint
  BY DEF ServiceInit, Init, Q!Init, Joint, Pending, Range
<1>2. QueueInv /\ Joint /\ [ServiceNext]_serviceVars => Joint'
  <2> SUFFICES ASSUME QueueInv, Joint, [ServiceNext]_serviceVars PROVE Joint'
    OBVIOUS
  <2> Q!TypeOK
    BY DEF QueueInv
  <2> USE DEF Joint
  <2>1. ASSUME NEW c \in 1..LastCall, NEW x \in Target \cup User, Ask(c, x) PROVE Joint'
    <3>1. Pending' \subseteq Pending \cup {c} /\ inFlight \subseteq inFlight'
      BY <2>1, PendingGrows DEF Ask
    <3>2. wanted' = [d \in Pending' |-> IF d = c THEN x ELSE wanted[d]] /\ pc' = pc
      BY <2>1 DEF Ask, vars, runVars
    <3> QED BY <3>1, <3>2
  <2>2. ASSUME NEW c \in inFlight, Start(c) PROVE Joint'
    BY <2>2 DEF Start, queueVars, Pending
  <2>3. ASSUME NEW c \in inFlight, Complete(c) PROVE Joint'
    <3>1. Pending' \subseteq Pending
      BY <2>3, PendingShrinks DEF Complete, Q!RunResolves
    <3>2. pc' = "idle" /\ wanted' = [d \in Pending' |-> wanted[d]]
      BY <2>3 DEF Complete, EmitCompleted, KeepPending
    <3> QED BY <3>1, <3>2
  <2>4. CASE (ScrapeStep \/ RequestStep) /\ UNCHANGED <<queueVars, wanted>>
    <3>1. pc' # "idle" => pc # "idle"
      BY <2>4 DEF ScrapeStep, PickTarget, WorkerAnswers, SelectOffer, UpdateOffer, InsertOffer,
         SkipOffer, PruneStale, TargetDone, TargetFails, RequestStep, CreateTarget, UpdateTarget,
         ClearOffers, RemoveOffers, RemoveTarget, SetDismissed, DeleteOffer, Request, runVars
    <3> QED BY <2>4, <3>1 DEF queueVars, Pending
  <2>5. CASE Down
    <3>1. pc' = "idle"
      BY <2>5 DEF Down, Restart, vars, runVars
    <3>2. Pending' = {} /\ wanted' = [d \in Pending' |-> wanted[d]]
      BY <2>5 DEF Down, Q!Restart, KeepPending, Pending, Range
    <3> QED BY <3>1, <3>2
  <2>6. CASE UNCHANGED serviceVars
    BY <2>6 DEF serviceVars, vars, runVars, queueVars, Pending
  <2> QED BY <2>1, <2>2, <2>3, <2>4, <2>5, <2>6 DEF ServiceNext, ServiceStep, FindFails, Crash
<1> QED BY <1>1, <1>2, QueueInvariance, PTL DEF ServiceSpec

\* With the queue before it, too, run, tables and queue keep their types, an
\* offer has one row per target at most, and a run is underway only while the
\* queue holds an entry for it.
THEOREM ServiceTypes == ServiceSpec => []ServiceTypeOK
<1>1. IInv /\ QueueInv /\ Joint => ServiceTypeOK
  BY DEF IInv, QueueInv, Q!TypeOK, Joint, ServiceTypeOK
<1> QED BY <1>1, RunSafety, Invariance, QueueInvariance, JointInv, PTL

\* The properties proved of ScrapeRun hold of runs that wait in the queue,
\* start when their turn has come, and end with the process that holds both.
THEOREM ServiceKeepsFreshness == ServiceSpec => []FreshIffStored
<1>1. IInv => FreshIffStored
  BY DEF IInv, Inv
<1> QED BY <1>1, RunSafety, Invariance, PTL

\* A removed target stays without offers unless a run of the queue had it in
\* its snapshot: entries that wait in the queue do not count.
THEOREM ServiceRemovalIsFinal == ServiceSpec => []CleanRemovalIsFinal
<1>1. IInv => CleanRemovalIsFinal
  BY DEF IInv, Inv
<1> QED BY <1>1, RunSafety, Invariance, PTL

\* The runs of the queue change no decision of a user and mark stale on
\* evidence only.
THEOREM ServiceDecisionsSurvive == ServiceSpec => RunsTouchFreshnessOnly
BY RunSafety, TouchesFreshnessOnly, PTL

\* Queue, runs and requests together implement the lifecycle of an offer.
THEOREM ServiceImplementsLifecycle == ServiceSpec => ImplementsLifecycle
BY RunSafety, TableRefines, PTL
=============================================================================
