CONSTANTS
  Clerks = {k1, k2}
  NoPath = "no path"
  Missing = {"missing/kept.pkt"}
  Unwritable = {"readonly.pkt", "old.pkt"}
  Scratch <- MCScratch
  Library <- MCLibrary
  Orders <- MCOrders
  Works = {"switch"}
  MaxOrders = 3
  MaxBuilt = 1
SPECIFICATION Spec
CHECK_DEADLOCK FALSE
INVARIANT FilesTypeOK
PROPERTIES KeptIfWritable EditIsAllThatChanges NoEditLosesTheNetwork
