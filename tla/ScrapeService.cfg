SPECIFICATION ServiceSpec
CONSTANTS
  t1 = t1
  t2 = t2
  u1 = u1
  Target = {t1, t2}
  Url = {a, b}
  User = {u1}
  Owner <- OwnerDef
  MaxAnswer = 2
  MaxRuns = 3
  MaxEdits = 3
  LastCall = 3
INVARIANTS ServiceTypeOK FreshIffStored CleanRemovalIsFinal NoIdleBacklog
PROPERTIES RunsTouchFreshnessOnly ImplementsLifecycle ImplementsRunQueue
CHECK_DEADLOCK FALSE
