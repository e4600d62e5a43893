SPECIFICATION Spec
CONSTANTS
  Tasks = {"sweep", "scan"}
  Sweeps = {"sweep"}
  Scans = {"scan"}
  Pins = {"range"}
  Declared = {"range"}
  Packages = {"pkg"}
  Keys = {"declared", "new", "open", "born"}
  PackageOf <- MCPackageOf
  EcosystemOf <- MCEcosystemOf
  PinKeyOf <- MCPinKeyOf
  CurrentKeyOf <- MCCurrentKeyOf
  ResolvedKeyOf <- MCResolvedKeyOf
  TargetKeys = {"new", "open"}
  AdvisoryKeys = {}
  CacheableKeys = {"born"}
  ExactKeys = {"born", "new"}
  PublishKeys = {"born"}
  Values = {"committed"}
  CommitDates = {"committed"}
  Actions = "actions"
  Kinds = {"maintenance", "outside"}
  Window = 2
  Margin = 1
  Heuristic = {}
  Dates = {1, NoDate}
  FirstDay = 2
  Gaps = {0, 1}
  NoDate = NoDate
  Faults = {"registry", "census", "scanner"}
  StepLimit <- MCStepLimit
  MaxRuns = 2
  NoEcosystem = "none"
  Nobody = "nobody"
CHECK_DEADLOCK FALSE
INVARIANTS
  PagesStayHeuristic
  OutsidersDontSeed
  AskedOnce
  YoungIsReported
PROPERTIES
  SettledOnce
