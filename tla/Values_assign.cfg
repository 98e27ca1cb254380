SPECIFICATION Spec
CONSTANTS
  Hosts = {h, g}
  Names = {"f"}
  Ints = {1}
  Texts = {"s"}
  MaxInt = 2
  MaxLocals = 2
  MaxObjects = 3
  MaxEntries = 3
  MaxStrings = 2
  MaxArrays = 2
  MaxItems = 2
  MaxSteps = 5
INVARIANTS TypeOK StringsLive StackBalanced
PROPERTY StoreMeansAssign
CHECK_DEADLOCK FALSE
