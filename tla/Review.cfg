SPECIFICATION Spec
CONSTANTS
  Subjects = {"pin", "pin2", "file"}
  FindingsOf <- MCFindingsOf
  LeadOf <- MCLeadOf
  Rank <- MCRank
  AwaitingCI = {"pin2"}
  MaxOpen = 2
  Publishes = {TRUE}
  Fresh = TRUE
  Standing = {}
  Faults = {"platform", "cancel"}
  People = {"close", "merge"}
  MaxEvents = 3
INVARIANTS
  TypeOK
PROPERTIES
  QueueSpec
  OnlyFixesRemain
  UnshippedIsTold
  ToldIsUnshipped
