\* A method runs as its source says: branches, loops and assignments, two deep.
SPECIFICATION Spec
CONSTANTS
  Expressions <- MCExpressions
  Bodies <- MCBodies
  ExprDepth <- MCExprDepth
  BodyDepth <- MCBodyDepth
  FieldType <- MCFieldType
  MemberType <- MCMemberType
  Programs <- MCPrograms
  Half = 128
INVARIANTS TypeOK StackBalanced
PROPERTIES InOrder Implements
CHECK_DEADLOCK FALSE
