SPECIFICATION Spec
CONSTANTS
  Subjects = {"pin2"}
  FindingsOf <- MCFindingsOf
  LeadOf <- MCLeadOf
  Rank <- MCRank
  AwaitingCI = {"pin2"}
  MaxOpen = 1
  Publishes = {TRUE, FALSE}
  Fresh = FALSE
  Standing = {}
  Faults = {}
  People = {"close"}
  MaxEvents = 1
PROPERTIES
  NeverWithdraws
