SPECIFICATION Spec
CONSTANTS
  Analysts = {"deps-py", "deps-gh", "review"}
  Fixers = {"fix-pin"}
  Order <- MCOrder
  MaxParallel = 2
  Tokens = 5
  Reserve = 4
  MaxAttempts = 2
  Endings = {"timed-out", "invalid", "valid"}
  Says = {TRUE, FALSE}
  MaxUse = 1
CHECK_DEADLOCK FALSE
INVARIANTS
  TypeOK
  SpendBounded
  FixersAfforded
PROPERTIES
  Completes
