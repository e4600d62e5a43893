SPECIFICATION Spec
CONSTANTS
  Tasks = {"deps-py", "review"}
  Kinds = {"scheduled", "manual"}
  Faults = {"memory_read", "memory_push"}
  Failures = {"exhausted", "invalid-result", "unavailable", "unexpected-shape", "not-permitted"}
  FindingKeys = {}
  BundleKeys = {}
  QuarantineKeys = {}
  FailureKeys <- MCFailureKeys
  CapabilityOf <- MCCapabilityOf
  EcosystemOf <- MCEcosystemOf
  MembersOf <- MCMembersOf
  ReasonOf <- MCReasonOf
  NoEcosystem = "none"
  FailureThreshold = 2
  StreakCap = 2
  Packages = {"a", "b"}
  Paths = {"file"}
  Sound = {"a@api"}
  Rows <- MCRows
  ForbiddenBlocks = TRUE
  Order <- MCOrder
  Required = {"deps-py"}
  Records = {"a@api", "b@page"}
  BucketOf <- MCBucketOf
  Files <- MCFiles
INVARIANTS
  NeverOverstates
  ConcludedOnce
  StrictestOfAll
  PassIsEarned
PROPERTIES
  DroppedIsSaid
