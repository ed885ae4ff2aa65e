------------------------------ MODULE ScrapeRun ------------------------------
(***************************************************************************)
(* One run of ScrapeOrchestratorService over the scrape targets, together  *)
(* with the requests that change targets and offers while it is underway.  *)
(* Every await of the run is a step boundary: between the select and the   *)
(* write of an offer, between the offers and the prune, between two        *)
(* targets.  The runs come one at a time (module ScrapeQueue).  The table  *)
(* job_offers is a set of rows; a row carries the flags that differ        *)
(* between a new, a stale, a dismissed and a soft-deleted offer, and       *)
(* nothing but the unique index keeps two rows of one key apart.           *)
(***************************************************************************)
EXTENDS Naturals, Sequences, Functions

CONSTANTS Target,     \* scrape targets that may be created
          Url,        \* offer URLs on the portals
          User,
          Owner,      \* the user each target belongs to
          MaxAnswer,  \* bound: offers in one answer of the worker
          MaxRuns,    \* bound: runs started
          MaxEdits    \* bound: requests that change offers or targets

ASSUME OwnerAssumption == Owner \in [Target -> User]
ASSUME BoundsAssumption == MaxAnswer \in Nat /\ MaxRuns \in Nat /\ MaxEdits \in Nat

VARIABLES
  targets,   \* scrape_targets: [status, enabled] of every target
  removing,  \* targets whose remove() is between its two statements
  offers,    \* job_offers
  pc,        \* where the run is
  todo,      \* targets of the run's snapshot it has not come to
  cur,       \* the target being scraped
  raws,      \* the worker's answer that is still to be stored
  hit,       \* what the select found for Head(raws)
  seen,      \* seenUrls
  cleared,   \* history: cur's offers were deleted during its scrape
  raced,     \* history: targets removed under a run that scrapes them
  runs,      \* runs started
  edits      \* requests served

runVars == <<pc, todo, cur, raws, hit, seen>>
vars == <<targets, removing, offers, runVars, cleared, raced, runs, edits>>

NoTarget == "none"

Row == [target : Target, url : Url, stale : BOOLEAN, dismissed : BOOLEAN, deleted : BOOLEAN]

Answer == UNION {[1..n -> Url] : n \in 0..MaxAnswer}

Rows(t) == {r \in offers : r.target = t}
RowsAt(t, u) == {r \in Rows(t) : r.url = u}

\* Faulty variants: <definition>_<fault> is not part of the specification; it
\* stands for a plausible mistake in the code that a property is there to catch.

\* The find does not leave soft-deleted targets out.
LiveTargets_WithDeleted == {t \in Target : targets[t].status # "absent"}

LiveTargets == {t \in Target : targets[t].status = "live"}

\* "Dedup is per scrape target" (job-offer.entity.ts): at most one row of an
\* offer per target, the soft-deleted ones included, although the select of
\* upsert does not see those and requests run between its select and insert.
OneRowPerOffer == \A r, s \in offers : r.target = s.target /\ r.url = s.url => r = s

TypeOK ==
  /\ targets \in [Target -> [status : {"absent", "live", "removed"}, enabled : BOOLEAN]]
  /\ removing \subseteq Target
  /\ offers \subseteq Row /\ OneRowPerOffer
  /\ pc \in {"idle", "targets", "scrape", "select", "write", "prune", "stamp"}
  /\ todo \subseteq Target
  /\ cur \in Target \cup {NoTarget}
  /\ raws \in Seq(Url)
  /\ hit \in BOOLEAN
  /\ seen \subseteq Url
  /\ cleared \in BOOLEAN
  /\ raced \subseteq Target
  /\ runs \in 0..MaxRuns
  /\ edits \in 0..MaxEdits

Init ==
  /\ targets = [t \in Target |-> [status |-> "absent", enabled |-> FALSE]]
  /\ removing = {}
  /\ offers = {}
  /\ pc = "idle"
  /\ todo = {}
  /\ cur = NoTarget
  /\ raws = <<>>
  /\ hit = FALSE
  /\ seen = {}
  /\ cleared = FALSE
  /\ raced = {}
  /\ runs = 0
  /\ edits = 0

-----------------------------------------------------------------------------
(* The run *)

\* runTargets: the run works on what this find returned, whatever happens to
\* the targets later.
Begin(matching) ==
  /\ pc = "idle"
  /\ runs < MaxRuns
  /\ runs' = runs + 1
  /\ pc' = "targets"
  /\ todo' = matching
  /\ UNCHANGED <<targets, removing, offers, cur, raws, hit, seen, cleared, raced, edits>>

\* A run for one target, enabled or not; the request checked that it exists.
RunOne(t) ==
  /\ targets[t].status # "absent"
  /\ Begin({t} \cap LiveTargets)

\* A run for the enabled targets of a user.
RunAll(u) == Begin({t \in LiveTargets : targets[t].enabled /\ Owner[t] = u})

\* The guard of pruneStale on seenUrls is dropped.
LoopOrPrune_Always(rest, urls) == pc' = IF rest # <<>> THEN "select" ELSE "prune"

\* Where the loop over the answer goes when rest is left of it.
LoopOrPrune(rest, urls) ==
  pc' = IF rest # <<>> THEN "select" ELSE IF urls # {} THEN "prune" ELSE "stamp"

\* The target stays on the list.
PickTarget_Keep(t) ==
  /\ pc = "targets"
  /\ t \in todo
  /\ cur' = t
  /\ pc' = "scrape"
  /\ cleared' = FALSE
  /\ UNCHANGED <<targets, removing, offers, todo, raws, hit, seen, raced, runs, edits>>

\* The for loop of runTargets takes the next target and asks the worker.
PickTarget(t) ==
  /\ pc = "targets"
  /\ t \in todo
  /\ todo' = todo \ {t}
  /\ cur' = t
  /\ pc' = "scrape"
  /\ cleared' = FALSE
  /\ UNCHANGED <<targets, removing, offers, raws, hit, seen, raced, runs, edits>>

\* The worker's answer: any list of offers, empty or with repetitions.
WorkerAnswers(answer) ==
  /\ pc = "scrape"
  /\ raws' = answer
  /\ LoopOrPrune(answer, {})
  /\ UNCHANGED <<targets, removing, offers, todo, cur, hit, seen, cleared, raced, runs, edits>>

\* upsert, first half: look for a live row of the offer.
SelectOffer ==
  /\ pc = "select"
  /\ hit' = (\E r \in RowsAt(cur, Head(raws)) : ~r.deleted)
  /\ pc' = "write"
  /\ UNCHANGED <<targets, removing, offers, todo, cur, raws, seen, cleared, raced, runs, edits>>

\* The offer counts as seen and the loop goes on.
Stored ==
  /\ seen' = seen \cup {Head(raws)}
  /\ raws' = Tail(raws)
  /\ hit' = FALSE
  /\ LoopOrPrune(Tail(raws), seen')
  /\ UNCHANGED <<targets, removing, todo, cur, cleared, raced, runs, edits>>

\* The payload of an update does not clear staleAt.
UpdateOffer_KeepStale == pc = "write" /\ hit /\ offers' = offers /\ Stored

\* The payload of an update sets dismissed to its default.
UpdateOffer_Defaults ==
  /\ pc = "write"
  /\ hit
  /\ offers' = {IF r \in RowsAt(cur, Head(raws)) THEN [r EXCEPT !.stale = FALSE, !.dismissed = FALSE]
                 ELSE r : r \in offers}
  /\ Stored

\* The payload of an update clears deletedAt.
UpdateOffer_Restore ==
  /\ pc = "write"
  /\ hit
  /\ offers' = {IF r \in RowsAt(cur, Head(raws)) THEN [r EXCEPT !.stale = FALSE, !.deleted = FALSE]
                 ELSE r : r \in offers}
  /\ Stored

\* upsert, second half, on the row found: the payload clears staleAt and
\* leaves dismissed and deletedAt alone.  Whether the row is still there is
\* not looked at: an update of no row is no error.
UpdateOffer ==
  /\ pc = "write"
  /\ hit
  /\ offers' = {IF r \in RowsAt(cur, Head(raws)) THEN [r EXCEPT !.stale = FALSE] ELSE r : r \in offers}
  /\ Stored

\* The unique index covers live rows only.
UniqueIndexAllows_Partial(t, u) == \A r \in RowsAt(t, u) : r.deleted

\* The unique index on (scrapeTargetId, sourceUrl) covers soft-deleted rows.
UniqueIndexAllows(t, u) == RowsAt(t, u) = {}

\* upsert, second half, with no live row found.
InsertOffer ==
  /\ pc = "write"
  /\ ~hit
  /\ UniqueIndexAllows(cur, Head(raws))
  /\ offers' = offers \cup {[target |-> cur, url |-> Head(raws),
                             stale |-> FALSE, dismissed |-> FALSE, deleted |-> FALSE]}
  /\ Stored

\* An offer that cannot be normalised, a query that fails, or an insert the
\* index refuses: the loop logs it and goes on without having seen the URL.
SkipOffer ==
  /\ pc \in {"select", "write"}
  /\ raws' = Tail(raws)
  /\ hit' = FALSE
  /\ LoopOrPrune(Tail(raws), seen)
  /\ UNCHANGED <<targets, removing, offers, todo, cur, seen, cleared, raced, runs, edits>>

\* pruneStale: every other row of the target not stale yet, deleted or not.
PruneStale ==
  /\ pc = "prune"
  /\ offers' = {IF r.target = cur /\ r.url \notin seen THEN [r EXCEPT !.stale = TRUE] ELSE r : r \in offers}
  /\ pc' = "stamp"
  /\ UNCHANGED <<targets, removing, todo, cur, raws, hit, seen, cleared, raced, runs, edits>>

\* The scrape of cur is over; the loop goes back for the next target.
LeaveTarget ==
  /\ pc' = "targets"
  /\ cur' = NoTarget
  /\ raws' = <<>>
  /\ hit' = FALSE
  /\ seen' = {}
  /\ cleared' = FALSE
  /\ UNCHANGED <<targets, removing, offers, todo, raced, runs, edits>>

\* runForTarget ends by writing lastRunAt (not modelled), or by rejecting:
\* worker unreachable or silent, prune or stamp failed.  runTargets catches.
TargetDone ==
  /\ pc = "stamp"
  /\ LeaveTarget

TargetFails ==
  /\ pc \in {"scrape", "prune", "stamp"}
  /\ LeaveTarget

\* No target is left: the result is broadcast and the entry resolved.
EmitCompleted ==
  /\ pc = "targets"
  /\ todo = {}
  /\ pc' = "idle"
  /\ UNCHANGED <<targets, removing, offers, todo, cur, raws, hit, seen, cleared, raced, runs, edits>>

ScrapeStep ==
  \/ \E t \in Target : PickTarget(t)
  \/ \E answer \in Answer : WorkerAnswers(answer)
  \/ SelectOffer
  \/ UpdateOffer
  \/ InsertOffer
  \/ SkipOffer
  \/ PruneStale
  \/ TargetDone
  \/ TargetFails

RunStep == ScrapeStep \/ EmitCompleted

-----------------------------------------------------------------------------
(* Requests served while the run is suspended.  A handler checks that the  *)
(* row it changes exists and then changes it by id: a row soft-deleted in  *)
(* between is changed all the same, so the guards ask for a row, live or   *)
(* not.                                                                    *)

Request ==
  /\ edits < MaxEdits
  /\ edits' = edits + 1
  /\ UNCHANGED <<runVars, raced, runs>>

\* ScrapeTargetsService.create
CreateTarget(t, enabled) ==
  /\ targets[t].status = "absent"
  /\ targets' = [targets EXCEPT ![t] = [status |-> "live", enabled |-> enabled]]
  /\ Request
  /\ UNCHANGED <<removing, offers, cleared>>

\* ScrapeTargetsService.update, of the field a run looks at.
UpdateTarget(t, enabled) ==
  /\ targets[t].status = "live"
  /\ targets[t].enabled # enabled
  /\ targets' = [targets EXCEPT ![t].enabled = enabled]
  /\ Request
  /\ UNCHANGED <<removing, offers, cleared>>

\* ScrapeTargetsService.clearOffers: every row of the target, deleted or not.
ClearOffers(t) ==
  /\ targets[t].status # "absent"
  /\ offers' = offers \ Rows(t)
  /\ cleared' = (cleared \/ cur = t)
  /\ Request
  /\ UNCHANGED <<targets, removing>>

\* ScrapeTargetsService.remove, first statement: the offers are deleted; of a
\* target found before, which another request may have removed since ...
RemoveOffers(t) ==
  /\ targets[t].status # "absent"
  /\ offers' = offers \ Rows(t)
  /\ removing' = removing \cup {t}
  /\ cleared' = (cleared \/ cur = t)
  /\ Request
  /\ UNCHANGED targets

\* ... second statement: the target is soft-deleted.
RemoveTarget(t) ==
  /\ t \in removing
  /\ removing' = removing \ {t}
  /\ targets' = [targets EXCEPT ![t].status = "removed"]
  /\ raced' = IF t \in todo \cup {cur} \/ Rows(t) # {} THEN raced \cup {t} ELSE raced
  /\ UNCHANGED <<offers, runVars, cleared, runs, edits>>

\* JobsService.update: the user dismisses an offer, or takes it back.
SetDismissed(r, dismissed) ==
  /\ r \in offers
  /\ offers' = (offers \ {r}) \cup {[r EXCEPT !.dismissed = dismissed]}
  /\ Request
  /\ UNCHANGED <<targets, removing, cleared>>

\* JobsService.remove: a soft delete.
DeleteOffer(r) ==
  /\ r \in offers
  /\ offers' = (offers \ {r}) \cup {[r EXCEPT !.deleted = TRUE]}
  /\ Request
  /\ UNCHANGED <<targets, removing, cleared>>

\* The process ends and starts again: the run and the open requests are gone,
\* the tables stay as they are.
Restart ==
  /\ pc # "idle" \/ removing # {}
  /\ removing' = {}
  /\ pc' = "idle"
  /\ todo' = {}
  /\ cur' = NoTarget
  /\ raws' = <<>>
  /\ hit' = FALSE
  /\ seen' = {}
  /\ cleared' = FALSE
  /\ UNCHANGED <<targets, offers, raced, runs, edits>>

RequestStep ==
  \/ \E t \in Target, enabled \in BOOLEAN : CreateTarget(t, enabled)
  \/ \E t \in Target, enabled \in BOOLEAN : UpdateTarget(t, enabled)
  \/ \E t \in Target : ClearOffers(t)
  \/ \E t \in Target : RemoveOffers(t)
  \/ \E t \in Target : RemoveTarget(t)
  \/ \E r \in offers, dismissed \in BOOLEAN : SetDismissed(r, dismissed)
  \/ \E r \in offers : DeleteOffer(r)

Next ==
  \/ \E t \in Target : RunOne(t)
  \/ \E u \in User : RunAll(u)
  \/ RunStep
  \/ RequestStep
  \/ Restart

\* A run goes on: every query ends and a silent worker times out.
Spec == Init /\ [][Next]_vars /\ WF_vars(RunStep)

-----------------------------------------------------------------------------
\* When a scrape that stored something comes to its end, the target's rows
\* are divided exactly: listed if the scrape stored the URL, stale if not.
\* Requests that delete, clear or dismiss in between do not disturb that.  A
\* URL counts as stored only if the table has it, unless the target's offers
\* were cleared under the scrape.
FreshIffStored ==
  /\ pc = "stamp" /\ seen # {} => \A r \in Rows(cur) : r.stale <=> r.url \notin seen
  /\ ~cleared => \A u \in seen : RowsAt(cur, u) # {}

StaleOnEvidence ==
  \A r \in offers, s \in offers' :
    r.target = s.target /\ r.url = s.url /\ ~r.stale /\ s.stale =>
      /\ cur = r.target
      /\ \E u \in seen : u # r.url
      /\ r.url \notin seen

DecisionsKept ==
  \A r \in offers : \E s \in offers' :
    s.target = r.target /\ s.url = r.url /\ s.dismissed = r.dismissed /\ s.deleted = r.deleted

\* A run takes from a row nothing that a user decided about the offer, though it
\* writes what it selected before; and it marks an offer stale on evidence only:
\* a scrape of its target stored another offer and not this one.  A worker that
\* answers nothing (a portal that blocks or fails) marks nothing.
RunsTouchFreshnessOnly ==
  [][StaleOnEvidence /\ (UNCHANGED runVars \/ DecisionsKept)]_vars

\* Removing a target is final unless a run was scraping it or had it to do:
\* no later run brings its offers back.
CleanRemovalIsFinal ==
  \A r \in offers : targets[r.target].status = "removed" => r.target \in raced

\* The dialog that confirms a removal: the scraper goes with all its offers.
RemovedWithAllOffers == \A r \in offers : targets[r.target].status # "removed"

\* The table implements the lifecycle of an offer promised to the user.
Key == Target \X Url

LifeOf(k) ==
  LET rows == RowsAt(k[1], k[2]) IN
  IF rows = {} THEN "absent"
  ELSE IF \A r \in rows : r.deleted THEN "deleted"
  ELSE IF \E r \in rows : r.stale /\ ~r.deleted THEN "stale"
  ELSE "listed"

OL == INSTANCE OfferLifecycle WITH life <- [k \in Key |-> LifeOf(k)]

ImplementsLifecycle == OL!Spec
=============================================================================
