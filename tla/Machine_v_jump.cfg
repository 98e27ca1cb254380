\* The jump over a block of more than 127 instructions wraps.
SPECIFICATION Spec
CONSTANTS
  Expressions <- MCExpressions
  Bodies <- MCBodies
  ExprDepth <- MCExprDepth
  BodyDepth <- MCBodyDepth
  Programs <- MCLong
  FieldType <- MCFieldType
  MemberType <- MCMemberType
  Half = 128
CHECK_DEADLOCK FALSE
PROPERTY InOrder
