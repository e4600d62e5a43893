SPECIFICATION Spec
CONSTANTS
  Fixers = {"fix-1", "fix-2"}
  Analysts = {"check-1", "check-2"}
  Paths = {"lockfile", "source", "draft"}
  Uncommitted = {"draft"}
  Limits = {1, 2}
  MaxWrites = 3
  Faults = {"session", "restore"}
CHECK_DEADLOCK FALSE
INVARIANTS
  CheckoutPutBack
  AcceptedIsClean
PROPERTIES
  DeveloperWorkStays
  StraysKept
