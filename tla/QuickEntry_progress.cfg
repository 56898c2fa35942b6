SPECIFICATION FairSpec
CONSTANTS
  Admins = {a1}
  Workers = {w1}
  Forms = {f1}
  NoForm = NoForm
  NumChunks = 1
  MaxVersion = 2
  MaxRuns = 2
  MaxFaults = 0
  QdrantOutcomes = {TRUE, FALSE}
  OpenSearchOutcomes = {TRUE, FALSE}
  Requests = {"restore", "archive"}
PROPERTIES
  ProcessingEnds
  RetriesEnd
CHECK_DEADLOCK FALSE
