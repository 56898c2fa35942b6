SPECIFICATION Spec
CONSTANTS
  MaxContents = 2
  MaxVersion = 3
  MaxStamp = 3
  MaxRequests = 2
  MaxFetches = 1
  OpenedStatuses = {"active", "archived"}
INVARIANTS
  EditorTypeOK
  UnsavedIsDirty
PROPERTIES
  PublishesReplaceKnown
  SubmissionEnds
CHECK_DEADLOCK FALSE
