--------------------------- MODULE ScrapeSchedules ---------------------------
(***************************************************************************)
(* The time slots of the scrapers: ScrapeSchedulesService, which keeps     *)
(* them, and ScrapeScheduler, which wakes up every minute and enqueues a   *)
(* run for the slots whose minute it is.  The wake-up, the query for due   *)
(* slots and the enqueueing are steps of their own, as are the read and    *)
(* the write of an update, so that requests fall between them.  A minute   *)
(* missed while the process is down is not made up for.                    *)
(***************************************************************************)
EXTENDS Naturals, Sequences

CONSTANTS Schedule,    \* time slots that may be created
          Target,      \* scrape targets
          TargetOf,    \* the target of each slot
          Minutes,     \* minutes in a day (a bound, 1440 in the code)
          Calendar,    \* the days, as [weekday, dom], coming round again
          Creation,    \* bodies of create: all fields of a slot
          Patch,       \* bodies of update: some fields of a slot
          SchedulerEnabled, \* SCRAPER_ENABLED is not 'false'
          MaxEdits     \* bound: requests that change slots or targets

Days == DOMAIN Calendar
Minute == 1..Minutes
Weekdays == {Calendar[d].weekday : d \in Days}
MonthDays == {Calendar[d].dom : d \in Days}

\* null: the column has no value.
Null == 99

Slot == [recurrence : {"DAILY", "WEEKLY", "MONTHLY"}, time : Minute,
         days : SUBSET Weekdays, dom : MonthDays \cup {Null}, enabled : BOOLEAN]

ASSUME ClockAssumption ==
  /\ Minutes \in Nat \ {0}
  /\ Calendar \in Seq([weekday : Nat, dom : Nat]) /\ Calendar # <<>>
ASSUME BodiesAssumption ==
  /\ TargetOf \in [Schedule -> Target]
  /\ Creation \subseteq Slot
  /\ \A p \in Patch : \E slot \in Slot : \A f \in DOMAIN p : f \in DOMAIN slot /\ p[f] = slot[f]
ASSUME BoundAssumption == MaxEdits \in Nat

VARIABLES slots,    \* scrape_schedules: the rows by id
          target,   \* what the due query sees of the scrape targets
          patches,  \* updates validated but not written yet
          up,       \* the process is running
          day, minute,  \* the clock
          tick,     \* where handleTick is: "none", "query" or "enqueue"
          due,      \* the slots its query found
          fired,    \* history: the slots enqueued in the last step
          off,      \* history: slots inactive ever since the minute began
          raced,    \* history: slots two updates of which overlapped
          edits     \* requests served

schedulesVars == <<slots, target, patches, up, day, minute, tick, due, fired, off, raced, edits>>

SchedulesTypeOK ==
  /\ DOMAIN slots \subseteq Schedule /\ slots \in [DOMAIN slots -> Slot]
  /\ target \in [Target -> {"enabled", "disabled", "removed"}]
  /\ patches \subseteq [schedule : Schedule, body : Patch]
  /\ up \in BOOLEAN
  /\ day \in Days
  /\ minute \in Minute
  /\ tick \in {"none", "query", "enqueue"}
  /\ due \subseteq Schedule
  /\ fired \subseteq Schedule
  /\ off \subseteq Schedule
  /\ raced \subseteq Schedule
  /\ edits \in 0..MaxEdits

SchedulesInit ==
  /\ slots = [s \in {} |-> {}]
  /\ target = [t \in Target |-> "enabled"]
  /\ patches = {}
  /\ up = TRUE
  /\ day = 1
  /\ minute = 1
  /\ tick = "none"
  /\ due = {}
  /\ fired = {}
  /\ off = Schedule
  /\ raced = {}
  /\ edits = 0

-----------------------------------------------------------------------------
(* The scheduler *)

\* A slot is active if it is enabled and its target exists and is enabled.
Active(s) ==
  /\ s \in DOMAIN slots
  /\ slots[s].enabled
  /\ target[TargetOf[s]] = "enabled"

\* Faulty variants: <definition>_<fault> is not part of the specification; it
\* stands for a plausible mistake in the code that a property is there to catch.

\* The weekly branch looks for the day of the month.
FallsOn_Swapped(slot, today) ==
  \/ slot.recurrence = "DAILY"
  \/ slot.recurrence = "WEEKLY" /\ today.dom \in slot.days
  \/ slot.recurrence = "MONTHLY" /\ slot.dom = today.dom

\* The recurrence of a slot takes in the present day.
FallsOn(slot, today) ==
  \/ slot.recurrence = "DAILY"
  \/ slot.recurrence = "WEEKLY" /\ today.weekday \in slot.days
  \/ slot.recurrence = "MONTHLY" /\ slot.dom = today.dom

\* The query does not look at the enabled columns.
DueSlots_AnyState ==
  {s \in DOMAIN slots : slots[s].time = minute /\ FallsOn(slots[s], Calendar[day])}

\* findDueSchedules
DueSlots == {s \in Schedule : /\ Active(s)
                              /\ slots[s].time = minute
                              /\ FallsOn(slots[s], Calendar[day])}

\* The hour after the last is not the first.
MinutePasses_NoWrap ==
  /\ tick = "none"
  /\ minute' = minute + 1
  /\ tick' = IF up /\ SchedulerEnabled THEN "query" ELSE "none"
  /\ fired' = {}
  /\ off' = {s \in Schedule : ~Active(s)}
  /\ UNCHANGED <<slots, target, patches, up, day, due, raced, edits>>

\* The clock moves on and wakes handleTick if the process runs.  A wake-up is
\* taken to be over within its minute.
MinutePasses ==
  /\ tick = "none"
  /\ minute' = IF minute = Minutes THEN 1 ELSE minute + 1
  /\ day' = IF minute # Minutes THEN day ELSE IF day = Len(Calendar) THEN 1 ELSE day + 1
  /\ tick' = IF up /\ SchedulerEnabled THEN "query" ELSE "none"
  /\ fired' = {}
  /\ off' = {s \in Schedule : ~Active(s)}
  /\ UNCHANGED <<slots, target, patches, up, due, raced, edits>>

\* The database answers the query for the slots of this minute.
QueryDue ==
  /\ tick = "query"
  /\ due' = DueSlots
  /\ tick' = "enqueue"
  /\ UNCHANGED <<slots, target, patches, up, day, minute, fired, off, raced, edits>>

\* A run is enqueued for each of them, in one go.
EnqueueDue ==
  /\ tick = "enqueue"
  /\ fired' = due
  /\ due' = {}
  /\ tick' = "none"
  /\ UNCHANGED <<slots, target, patches, up, day, minute, off, raced, edits>>

\* The process ends, with its wake-up and its open requests, ...
Stop ==
  /\ up
  /\ up' = FALSE
  /\ tick' = "none"
  /\ due' = {}
  /\ patches' = {}
  /\ UNCHANGED <<slots, target, day, minute, fired, off, raced, edits>>

\* ... and starts again.
Start ==
  /\ ~up
  /\ up' = TRUE
  /\ UNCHANGED <<slots, target, patches, day, minute, tick, due, fired, off, raced, edits>>

-----------------------------------------------------------------------------
(* The requests *)

\* validateRecurrenceFields
Valid(slot) ==
  /\ slot.recurrence = "WEEKLY" => slot.days # {}
  /\ slot.recurrence = "MONTHLY" => slot.dom # Null

\* { ...schedule, ...dto }, and the columns an UPDATE leaves with that body.
Merge(slot, body) == [f \in DOMAIN slot |-> IF f \in DOMAIN body THEN body[f] ELSE slot[f]]

Request ==
  /\ up
  /\ edits < MaxEdits
  /\ edits' = edits + 1
  /\ UNCHANGED <<up, day, minute, tick, due, fired>>

StillOff == off' = {s \in off : ~Active(s)'}

\* create(); ids are new, so a name is used again only if nothing refers to it.
Create(s, body) ==
  /\ s \notin DOMAIN slots \cup due
  /\ \A p \in patches : p.schedule # s
  /\ Valid(body)
  /\ slots' = [x \in DOMAIN slots \cup {s} |-> IF x = s THEN body ELSE slots[x]]
  /\ raced' = raced \ {s}
  /\ Request
  /\ UNCHANGED <<target, patches>>
  /\ StillOff

\* The fields of the body are validated without the row's.
UpdateReads_BodyOnly(s, body) ==
  /\ s \in DOMAIN slots
  /\ Valid(Merge([slots[s] EXCEPT !.recurrence = "DAILY"], body))
  /\ raced' = IF \E p \in patches : p.schedule = s THEN raced \cup {s} ELSE raced
  /\ patches' = patches \cup {[schedule |-> s, body |-> body]}
  /\ Request
  /\ UNCHANGED <<slots, target, off>>

\* update(), first half: the row is read and the merged fields validated.
UpdateReads(s, body) ==
  /\ s \in DOMAIN slots
  /\ Valid(Merge(slots[s], body))
  /\ raced' = IF \E p \in patches : p.schedule = s THEN raced \cup {s} ELSE raced
  /\ patches' = patches \cup {[schedule |-> s, body |-> body]}
  /\ Request
  /\ UNCHANGED <<slots, target, off>>

\* update(), second half: the given fields are written; a row deleted in
\* between is not looked for before the write.
UpdateWrites(p) ==
  /\ p \in patches
  /\ patches' = patches \ {p}
  /\ slots' = [s \in DOMAIN slots |-> IF s = p.schedule THEN Merge(slots[s], p.body) ELSE slots[s]]
  /\ UNCHANGED <<target, up, day, minute, tick, due, fired, raced, edits>>
  /\ StillOff

\* remove(): the row is deleted for good.
RemoveSlot(s) ==
  /\ s \in DOMAIN slots
  /\ slots' = [x \in DOMAIN slots \ {s} |-> slots[x]]
  /\ Request
  /\ UNCHANGED <<target, patches, raced>>
  /\ StillOff

\* A target is switched on or off, or removed; its slots stay.
SetTarget(t, state) ==
  /\ target[t] # "removed"
  /\ target[t] # state
  /\ target' = [target EXCEPT ![t] = state]
  /\ Request
  /\ UNCHANGED <<slots, patches, raced>>
  /\ StillOff

SchedulesNext ==
  \/ MinutePasses
  \/ QueryDue
  \/ EnqueueDue
  \/ Stop
  \/ Start
  \/ \E s \in Schedule, body \in Creation : Create(s, body)
  \/ \E s \in Schedule, body \in Patch : UpdateReads(s, body)
  \/ \E p \in patches : UpdateWrites(p)
  \/ \E s \in Schedule : RemoveSlot(s)
  \/ \E t \in Target, state \in {"enabled", "disabled", "removed"} : SetTarget(t, state)

\* Time passes, and the two awaits of handleTick end.
SchedulesSpec ==
  /\ SchedulesInit /\ [][SchedulesNext]_schedulesVars
  /\ WF_schedulesVars(MinutePasses) /\ WF_schedulesVars(QueryDue) /\ WF_schedulesVars(EnqueueDue)

-----------------------------------------------------------------------------
\* A row breaks that only if two updates of it overlapped: a lone update is
\* judged by the row it will leave behind, the fields it does not name too.
InvalidOnlyByRace == \A s \in DOMAIN slots \ raced : Valid(slots[s])

\* A slot that was off when the minute began, and stayed off, enqueues no
\* run in it, wherever a request fell between wake-up, query and enqueueing.
NoRunWhileOff == (due \cup fired) \cap off = {}

\* A slot that stays active while the process stays up has its run enqueued
\* again and again, whatever its recurrence.
ActiveSlotsKeepFiring ==
  \A s \in Schedule :
    <>[](up /\ Active(s) /\ s \notin raced) => []<>(s \in fired)
=============================================================================
