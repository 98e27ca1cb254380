\* A local is not read where it was written.
SPECIFICATION Spec
CONSTANTS
  Expressions <- MCExpressions
  Bodies <- MCBodies
  ExprDepth <- MCExprDepth
  BodyDepth <- MCBodyDepth
  Programs <- MCRead
  FieldType <- MCFieldType
  MemberType <- MCMemberType
  Half = 128
CHECK_DEADLOCK FALSE
PROPERTY LoadsTheLocal
