SPECIFICATION Spec
CONSTANTS
  Runs = {1}
  Kinds = {"scheduled"}
  Tasks = {"deps-py"}
  FindingKeys = {"pin", "adv", "pin2"}
  FailureKeys = {}
  BundleKeys = {}
  QuarantineKeys = {}
  Faults = {"memory_push", "platform"}
  People = {"reopen"}
  Inherited <- AnAdvisory
  Threshold = 2
  FailureThreshold = 2
  StreakCap = 2
  Limit = 1
  Stories = {{"pin", "pin2"}, {"pin", "adv"}}
  MaxIssues = 3
  Failures = {"timeout"}
  CapabilityOf <- MCCapabilityOf
  EcosystemOf <- MCEcosystemOf
  MembersOf <- MCMembersOf
  ReasonOf <- MCReasonOf
  SubjectOf <- MCSubjectOf
  FingerprintOf <- MCFingerprintOf
  NoFingerprint = "no-fingerprint"
  NoEcosystem = "none"
  Supersedes <- MCSupersedes
  Rank <- MCRank
INVARIANTS
  StreakInv
  CeilingHolds
PROPERTIES
  TwoAnswers
  SupersededIsReplaced
