SPECIFICATION ServicesSpec
CONSTANTS
  EventTypes = {"conflict", "source", "evidence"}
  CategoryOf <- MCCategoryOf
  CoreCategories = {"ANALYSIS"}
  Uncategorised = "none"
  OtherRun = "other"
  Requests = {{}, {"FUSION_CONFLICT"}, {"ANALYSIS"}}
  HistoryLimit = 1
  Slack = 1
  Sizes = {1}
  MaxFusion = 3
  MaxCore = 2
  Reports = {"r1", "r2"}
  NoReport = "none"
  Jobs = {1, 2}
  Windows = {"w1", "w2"}
  Workers = 2
  Runs = {"e1", "e2"}
  Activation = "activate"
  MaxFiles = 2
  MaxCrashes = 1
  Uploads = {"u1"}
  Lives = {"l1"}
  Chunks = 2
  MaxSends = 3
  Updates = {u1, u2, u3}
  Readers = {t1, t2}
  Objects = {o1, o2, o3, o4, o5, o6, o7, o8, o9}
  NoObject = NoObject
  NoUpdate = NoUpdate
  Calls = {"c1", "c2", "c3"}
  Kinds = {"create", "reset"}
  Keys = {"k"}
  NoKey = "none"
  NoCall = "nobody"
  Binders = {"b1", "b2"}
  Guarded = TRUE
  Evaluations = {"v1", "v2", "v3"}
  NoRecord = "none"
  MaxConclusions = 2
  Resources <- MCResources
  TypeOf <- MCTypeOf
  ValuesOf <- MCValuesOf
  Profiles <- MCProfiles
  MaxChanges = 2
  Topics = {"mode", "class"}
  Precedence <- MCPrecedence
  EvidenceOf <- MCEvidenceOf
  Window = 3
  Latest = 5
  Setters <- MCSetters
  Values = {1, 2}
  Default = 1
  MaxRevision = 3
  Starts = {"q1", "q2", "q3"}
  Nobody = "nobody"
  Places = {1, 2, 3}
  Identifiers = {c1, c2, c3}
  NoToken = NoToken
  PageSize = 1
INVARIANTS ServicesTypeOK StreamIsHonest LabIsOrderly SourcesAreExact WorkspaceIsOwn
INVARIANTS LatestIsCurrent HeadlineIsHonest NeverSurerThanEvidence ConsumersAreCurrent
INVARIANTS CapturesAreWatched ReadIsWhole
PROPERTIES ReportsKeepFaith JobsAreWhole StoreKeepsUpdates KnowledgeHelps EvidenceDecides
CHECK_DEADLOCK FALSE
