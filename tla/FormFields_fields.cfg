SPECIFICATION Spec
CONSTANTS
  StepsPerBatch = 2
  BranchLimit = 3
  Edits <- EditedParts
  Fields = {"plant_notes", "notes"}
  FormTexts = {"vague"}
  FormPriorities = {"check_first", "common"}
  FormStepTypes = {"normal", "branch_start", "branch_end"}
  Codes = {"NONE", "E1"}
  References = {"D1"}
  MaxCauses = 2
  MaxIdentities = 3
  MaxSteps = 4
  MaxRows = 2
  MaxGroups = 1
  MaxParameters = 2
  SectionLimit = 1
  MaxUploads = 1
INVARIANTS
  FieldsTypeOK
  PartsIndexedOnce
  FlaggedIffUnpaired
  BranchKeptWhole
CHECK_DEADLOCK FALSE
