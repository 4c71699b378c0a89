SPECIFICATION Spec
CONSTANTS
  None = None
  Settings = Settings
  Scopes = {"ada", "bob"}
  Mounts = {"m1", "m2"}
  Segments = {0, 1}
  RoutePages = {"list", "keys", "detail", "home", "index"}
  Index = "index"
  RouteGroups <- TabGroups
  Items <- NavigationItems
  SettingPages = {"keys", "home"}
  Preferences = {"d", "a"}
  Default = "d"
  Count = 2
  Requests = {"q1", "q2"}
  Jobs = {"j1", "j2"}
  Schedules = {"s1", "s2"}
  Records = {"e1", "e2"}
  Filters = {"f0", "f1"}
  NoFilter = "f0"
  RecordPages = 3
  Runs = {"r1", "r2"}
  Run = "r1"
  Sessions = {"a", "b"}
  Loading = "loading"
  SignedOut = "signed-out"
  DockViews = {"v1", "v2"}
  Trays = {"v1"}
  Boxes = {"b1", "b2"}
  Objects = {"o1", "o2"}
  Between = "between"
  Seats = {"s1", "s2"}
  ActionIds = {"a1"}
  Refs = {"r1", "r2", "r3"}
  Hideable = {"r2", "r3"}
  PresetIds = {"p1", "p2"}
  Instances = {"i1", "i2"}
  Configs = {"c1", "c2"}
  DefaultConfig = "c1"
  Columns = 2
  Defaults <- OneWidget
  MaxNodes = 3
  MaxDepth = 2
  Embedded = {"inner", "other"}
  MaxRevision = 2
  MaxChanges = 1
  MaxScopes = 3
  MaxSaves = 1
  MaxMounts = 2
  MaxCalls = 2
  MaxSteps = 1
  MaxTargets = 3
  Workers = 2
  MaxLoads = 3
  MaxClients = 3
  MaxSequence = 3
  MaxAdmission = 2
  MaxLease = 3
  MaxHeld = 1
  MaxKey = 1
  MaxExits = 2
  MaxPresets = 2
  MaxPins = 2
  MaxLayouts = 1
  MaxMutations = 2
INVARIANTS
  ShowsItsOwn
  StaysWhole
PROPERTIES
  ActsOnWhatIsShown
  LooksBeforeRepeating
  NothingIsLostUnasked
CHECK_DEADLOCK FALSE
