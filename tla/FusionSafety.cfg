SPECIFICATION Spec
CONSTANTS
  Items <- MCItems
  Property <- MCProperty
  Resource <- MCResource
  Source <- MCSource
  Value <- MCValue
  Rank <- MCRank
  Links <- MCLinks
  Required = {"packets"}
  NoValue = NoValue
  NoId = NoId
  Ids = {i1, i2, i3, i4, i5, i6, i7, i8}
  Requests <- MCRequests
  Workloads <- MCWorkloads
  Mortal <- MCMortal
INVARIANTS TypeOK EvidenceExists ComputationsSettle
PROPERTIES ClosedIsFrozen
