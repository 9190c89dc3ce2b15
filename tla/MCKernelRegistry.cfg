SPECIFICATION RegistrySpec
CONSTANTS
  Order <- MCOrder
  BaseOf <- MCBaseOf
  TargetOf <- MCTargetOf
  EnumOf <- MCEnumOf
  NumSlots = 3
  BaseNames = {"box"}
  UserNames = {"xyz", "copy", "box2"}
  NumModules = 2
  Libraries = {"debug", "extras", "xyz"}
  Orderly = TRUE
  MaxExternal = 3
INVARIANTS CountsAreExact  
CHECK_DEADLOCK FALSE
