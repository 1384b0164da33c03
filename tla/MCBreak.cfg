CONSTANTS
  main = main
  x = x
  y = y
  int = int
  WideScopes = 0
  NoName = NoName
  Names = {main, x, y}
  Types = {int}
  Builtins = {}
  BuiltinSig <- MCBuiltinSig
  SCHAR_MAX = 127
  MaxParams = 0
  MaxScopes = 5
  MaxSimple = 2
SPECIFICATION NestingSpec
INVARIANT BreaksResolve
