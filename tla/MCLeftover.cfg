CONSTANTS
  VarType <- MCVarType
  Params <- MCParams
  ReturnType = "i"
  Literals = {"i", "f", "s", "b", "n"}
  BinaryOps = {"+", "*", "/", "//", "%", "^", "<", ">=", "==", "~=", "..", "and", "or"}
  UnaryOps = {"-", "not", "#"}
  MainStatements = {"definition", "assignment", "condition"}
  BodyStatements = {"definition", "return"}
  MaxItems = 2
  MaxStatements = 2
  MaxCalls = 1
SPECIFICATION Spec
INVARIANT NoTypeFault
