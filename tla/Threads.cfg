SPECIFICATION Spec
CONSTANTS
  Keys = {"bug", "pin"}
  Checks = {"code", "deps"}
  CheckOf <- MCCheckOf
  Blocking = {"bug"}
  Runs = {1}
  Faults = {"check", "gap", "platform"}
  People = {"push", "draft", "resolve", "unresolve", "recheck"}
  MaxHeads = 3
  MaxActs = 1
INVARIANTS
  OneThreadPerFinding
PROPERTIES
  ResolvedIsGone
  ThreadsAgree
