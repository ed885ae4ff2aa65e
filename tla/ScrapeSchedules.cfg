SPECIFICATION SchedulesSpec
CONSTANTS
  s1 = s1
  t1 = t1
  Schedule = {s1}
  Target = {t1}
  TargetOf <- TargetOfDef
  Minutes = 2
  Calendar <- CalendarDef
  Creation <- CreationDef
  Patch <- PatchDef
  SchedulerEnabled = TRUE
  MaxEdits = 5
INVARIANTS SchedulesTypeOK InvalidOnlyByRace NoRunWhileOff
PROPERTIES ActiveSlotsKeepFiring
CHECK_DEADLOCK FALSE
