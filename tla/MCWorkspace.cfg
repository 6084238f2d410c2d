SPECIFICATION WorkspaceSpec
CONSTANTS
  Plans = {"pilot", "growth", "managed"}
  TrialPlan = "growth"
  ManagedPlan = "managed"
  Limit <- ExportLimit
  Exporters = {x1, x2}
  Managers = {g1, g2}
  MaxMonths = 2
  MaxUsage = 4
  Evaluators = {v1, v2}
  MaxAlertEdits = 1
  MonthLength = 5
  Horizon = 8
  Logins = {l1, l2}
  Devices = {d1}
  Tokens = {t1, t2}
  SessionCap = 1
  MaxPassword = 3
  Users = {a, b, c}
  Creator = a
  MaxRequests = 4
  SignIns = 2
  Sources = {s1, s2}
  Loops = {p1, p2}
  MaxAttempts = 2
  MaxMails = 3
  Breaches = {disconnected, mappings}
  Severe = {disconnected}
  Monitors = {m1, m2}
  MaxEvaluations = 3
  Portals = {"A", "B"}
  PropertiesOf <- TwoPortals
  Confidence <- PropertyConfidence
  MaxSuggestions = 3
  Flows = {1, 2}
  Discoveries = {1, 2}
  Savers = {e1}
  Imports = {i1, i2}
  Uploaders = {u1, u2}
  BudgetKeys = {"k1", "k2"}
  NoKey = "none"
  Files <- BudgetFiles
  MaxMatches = 1
  Views = {1, 2}
  Editors = {e1, e2}
  NoView = 0
  MaxName = 2
  Companies = {"A", "B"}
  FirstCompany = "A"
  FilterChoices = {0, 1}
  Plain = 0
  DefaultView <- SavedDefault
  Handlers = {h1, h2}
  Lists = {q1, q2}
  Titles = {"calls", "deals"}
  NoTitle = "none"
  MaxClicks = 3
  Queries <- MCQueries
  Samples <- MCSamples
  None = None
  Today = 100
  MonthStart = 90
  MonthOf <- SampleMonth
  Clean <- SampleClean
INVARIANTS WorkspaceTypeOK OvershootIsBounded BreachIsReported NextRunsAreRight SessionsFollowPassword OwnerlessOnlyByRace NoticesAreBounded LastVerdictStands ApprovedIsMapped BudgetStands DefaultStands PageIsOfSelection ReportsAgree
CHECK_DEADLOCK FALSE
