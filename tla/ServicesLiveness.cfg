SPECIFICATION ServicesSpec
CONSTANTS
  EventTypes = {"conflict", "source", "evidence"}
  CategoryOf <- MCCategoryOf
  CoreCategories = {"ANALYSIS"}
  Uncategorised = "none"
  OtherRun = "other"
  Requests = {{}, {"FUSION_CONFLICT"}, {"ANALYSIS"}}
  HistoryLimit = 1
  Slack = 0
  Sizes = {1}
  MaxFusion = 2
  MaxCore = 1
  Reports = {"r1"}
  NoReport = "none"
  Jobs = {1, 2}
  Windows = {"w1", "w2"}
  Workers = 2
  Runs = {"e1", "e2"}
  Activation = "activate"
  MaxFiles = 1
  MaxCrashes = 1
  Uploads = {"u1"}
  Lives = {"l1"}
  Chunks = 1
  MaxSends = 1
  Updates = {u1}
  Readers = {t1}
  Objects = {o1, o2, o3, o4, o5}
  NoObject = NoObject
  NoUpdate = NoUpdate
  Calls = {"c1", "c2"}
  Kinds = {"create", "reset"}
  Keys = {"k"}
  NoKey = "none"
  NoCall = "nobody"
  Binders = {"b1"}
  Guarded = TRUE
  Evaluations = {"v1"}
  NoRecord = "none"
  MaxConclusions = 1
  Resources <- MCResources
  TypeOf <- MCTypeOf
  ValuesOf <- MCValuesOf
  Profiles <- MCProfiles
  MaxChanges = 0
  Topics = {"mode", "class"}
  Precedence <- MCPrecedence
  EvidenceOf <- MCEvidenceOf
  Window = 3
  Latest = 0
  Setters <- MCSetters
  Values = {1, 2}
  Default = 1
  MaxRevision = 2
  Starts = {"q1", "q2"}
  Nobody = "nobody"
  Places = {1}
  Identifiers = {c1}
  NoToken = NoToken
  PageSize = 1
PROPERTIES StreamsAreServed ServicesSettle
CHECK_DEADLOCK FALSE
