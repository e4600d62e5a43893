SPECIFICATION FairSpec
CONSTANTS
  Subjects = {"pin2", "file"}
  FindingsOf <- MCFindingsOf
  LeadOf <- MCLeadOf
  Rank <- MCRank
  AwaitingCI = {"pin2"}
  MaxOpen = 2
  Publishes = {TRUE, FALSE}
  Fresh = FALSE
  Standing = {"pin2"}
  Faults = {"platform", "git", "label", "issue", "crash", "cancel"}
  People = {"close", "merge", "reopen"}
  MaxEvents = 3
PROPERTIES
  TakenUp
