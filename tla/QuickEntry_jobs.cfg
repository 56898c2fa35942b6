SPECIFICATION Spec
CONSTANTS
  Admins = {a1}
  Workers = {w1, w2}
  Forms = {f1, f2}
  NoForm = NoForm
  NumChunks = 1
  MaxVersion = 2
  MaxRuns = 2
  MaxFaults = 0
  QdrantOutcomes = {TRUE, FALSE}
  OpenSearchOutcomes = {TRUE}
  Requests = {"restore"}
SYMMETRY Symmetry
INVARIANTS
  ProcessingHasJob
  QdrantStatusTruthful
  EveryPointHasRow
  PartialIndexHasRetry
CHECK_DEADLOCK FALSE
