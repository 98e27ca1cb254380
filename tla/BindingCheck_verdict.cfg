\* All classes of three bindings with two identifiers each.
SPECIFICATION CheckSpec
CONSTANTS
  Elements = {"a", "b", "c"}
  Classes <- MCClasses
  MaxBindings = 3
  MaxOperands = 2
  MaxHidden = 0
INVARIANTS
  TypeOK
  AcceptedAcyclic
  VerdictIsTree
  RecursionIsPath
PROPERTIES
  Decides
CHECK_DEADLOCK FALSE
