SPECIFICATION FairSpec
CONSTANTS
  Runs = {1}
  Kinds = {"scheduled", "manual", "woken"}
  Tasks = {"deps-py", "deps-gh"}
  FindingKeys = {"act", "pair"}
  FailureKeys = {"down"}
  BundleKeys = {"pair"}
  QuarantineKeys = {"act"}
  Faults = {}
  People = {"close"}
  Inherited <- NothingInherited
  Threshold = 2
  FailureThreshold = 2
  StreakCap = 2
  Limit = 1
  Stories = {{"act"}, {"pair"}}
  MaxIssues = 4
  Failures = {"timeout"}
  CapabilityOf <- MCCapabilityOf
  EcosystemOf <- MCEcosystemOf
  MembersOf <- MCMembersOf
  ReasonOf <- MCReasonOf
  SubjectOf <- MCSubjectOf
  FingerprintOf <- MCFingerprintOf
  NoFingerprint = "no-fingerprint"
  NoEcosystem = "none"
  Supersedes <- MCSupersedes
  Rank <- MCRank
INVARIANTS
  UnlockIsStamped
PROPERTIES
  GoneIsClosed
  BundleLooked
  ApprovalStays
