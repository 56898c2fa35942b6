SPECIFICATION Spec
CONSTANTS
  Admins = {a1, a2}
  Workers = {w1}
  Forms = {f1, f2}
  NoForm = NoForm
  NumChunks = 1
  MaxVersion = 2
  MaxRuns = 2
  MaxFaults = 1
  QdrantOutcomes = {TRUE}
  OpenSearchOutcomes = {TRUE}
  Requests = {"save", "restore", "archive"}
SYMMETRY Symmetry
INVARIANTS
  TypeOK
  IndexedTextIsPublished
  HistoryBacksEntry
  OneWriterPerVersion
PROPERTIES
  FiledTextIsFinal
  ImplementsVersionedEntry
CHECK_DEADLOCK FALSE
