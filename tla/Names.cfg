SPECIFICATION Spec
CONSTANTS
  Runs = {1}
  Kinds = {"scheduled"}
  Tasks = {"review"}
  FindingKeys = {"code", "name", "alias", "batch"}
  FailureKeys = {}
  BundleKeys = {"batch"}
  QuarantineKeys = {}
  Faults = {"unread", "memory_read", "identity", "platform", "crash"}
  People = {}
  Inherited <- NothingInherited
  Threshold = 1
  FailureThreshold = 1
  StreakCap = 1
  Limit = 1
  Stories = {{"code", "name", "alias"}, {"code", "name", "batch"}}
  MaxIssues = 3
  Failures = {"timeout"}
  CapabilityOf <- MCCapabilityOf
  EcosystemOf <- MCEcosystemOf
  MembersOf <- MCMembersOf
  ReasonOf <- MCReasonOf
  SubjectOf <- MCSubjectOf
  FingerprintOf <- MCFingerprintOf
  NoFingerprint = "no-fingerprint"
  NoEcosystem = "none"
  Supersedes <- MCSupersedes
  Rank <- MCRank
INVARIANTS
  OneOpenIssue
  ReportedIsTracked
