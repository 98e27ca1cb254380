\* Programs, documents and short texts, from characters to trees.
SPECIFICATION Spec
CONSTANTS
  Words = {"a", "b", "c", "f", "g", "h", "x", "y", "id", "A", "B", "C", "T", "App", "int", "array"}
  Keywords = {"function", "class", "struct", "if", "for", "while", "do", "in", "new", "import", "namespace",
              "using", "let", "on", "enum", "public", "private", "protected", "template", "return", "const"}
  Digits = {"1"}
  TypeNames = {"int", "array"}
  Inputs <- MCInputs
INVARIANTS
  TypeOK
  CursorInTokens
  TreeIsSource
PROPERTIES
  Advances
CHECK_DEADLOCK FALSE
