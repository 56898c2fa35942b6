SPECIFICATION AccountSpec
CONSTANTS
 Tabs = {b1,b2}
 Instances = {i1}
 Users = {emp,adm}
 Admins = {adm}
 MaxTokens = 2
 Opened = {"admin"}
 MaxLosses = 1
INVARIANTS AccountTypeOK OneAccount  SignOutStands
CHECK_DEADLOCK FALSE
SYMMETRY TabSymmetry
