SPECIFICATION FairSpec
CONSTANTS
  Accounts = {"ann", "joe", "ci", "agent"}
  Agent = "agent"
  Writers = {"ann", "ci", "agent"}
  Machines = {"ci"}
  Suffixed = {}
  Issues = {"held", "clock", "again"}
  Threads = {"line", "alien"}
  Change = "change"
  Foreign = {"alien"}
  Unlabelled = {"held"}
  KeyOf <- MCKeyOf
  Later = {"again"}
  Clock = {"clock"}
  Planned = {"held", "again", "line"}
  Patchable = {"line"}
  Runs = {1, 2}
  Faults = {"mixed", "lost", "session", "platform", "moved"}
  Sayings <- MCSayings
  MaxSaid = 2
  MaxOdd = 1
CHECK_DEADLOCK FALSE
INVARIANTS
  AnswersColleagues
  GrantIsGiven
PROPERTY
  AskerIsTold
