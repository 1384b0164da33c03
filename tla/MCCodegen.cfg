CONSTANTS
  main = main
  x = x
  y = y
  int = int
  WideScopes = 4
  NoName = NoName
  Names = {main, x, y}
  Types = {int}
  Builtins = {}
  BuiltinSig <- MCBuiltinSig
  SCHAR_MAX = 127
  MaxParams = 1
  MaxScopes = 5
  MaxSimple = 2
SPECIFICATION WideSpec
INVARIANT JumpsResolve
INVARIANT VariablesCreatedOnce
INVARIANT VariablesCreatedBeforeUse
INVARIANT InsertionIsSafe
