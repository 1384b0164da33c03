CONSTANTS
  VarType <- MCVarType
  Params <- MCParams
  ReturnType = "i"
  Literals = {"i", "f", "s", "b", "n"}
  BinaryOps = {"+", "*", "/", "//", "%", "^", "<", ">=", "==", "~=", "..", "and", "or"}
  UnaryOps = {"-", "not", "#"}
  MainStatements = {"definition", "assignment", "condition"}
  BodyStatements = {"assignment", "condition", "return"}
  MaxItems = 2
  MaxStatements = 3
  MaxCalls = 1
SPECIFICATION Spec
INVARIANT TypeOK
INVARIANT OperandsAsTyped
INVARIANT VariablesAsTyped
INVARIANT NoTypeFault
