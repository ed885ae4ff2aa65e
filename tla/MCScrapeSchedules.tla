-------------------------- MODULE MCScrapeSchedules --------------------------
(* ScrapeSchedules over three days of two minutes, with one target. *)
EXTENDS ScrapeSchedules

CONSTANTS s1, t1

TargetOfDef == [s \in {s1} |-> t1]

\* A weekend day in the middle of two months: day 1 comes round every month.
CalendarDef == <<[weekday |-> 0, dom |-> 1], [weekday |-> 1, dom |-> 2], [weekday |-> 1, dom |-> 1]>>

CreationDef ==
  {[recurrence |-> "DAILY", time |-> 1, days |-> {}, dom |-> Null, enabled |-> TRUE],
   [recurrence |-> "WEEKLY", time |-> 2, days |-> {1}, dom |-> 1, enabled |-> TRUE],
   [recurrence |-> "MONTHLY", time |-> 2, days |-> {}, dom |-> 2, enabled |-> TRUE]}

\* Updates a client may send: of one field, or of the fields that go together.
PatchDef ==
  {[enabled |-> FALSE], [enabled |-> TRUE], [time |-> 1], [days |-> {}], [days |-> {0}],
   [recurrence |-> "WEEKLY"], [recurrence |-> "DAILY"], [recurrence |-> "MONTHLY", dom |-> 2]}
=============================================================================
