SPECIFICATION Spec
CONSTANTS
 MaxWrites = 2
 MaxEvents = 1
 MaxDrafts = 1
 RowsPerPage = 1
 MaxRows = 3
 MaxChanges = 4
INVARIANTS ConsoleTypeOK AnsweredWritesShown CorrectionFitsItem AuditPageOffered
CHECK_DEADLOCK FALSE
