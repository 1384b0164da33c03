CONSTANTS
  chr = chr
  int = int
  WideScopes = 3
  NoName = NoName
  Names = {chr, f, g}
  Types = {int, str}
  Builtins = {chr}
  BuiltinSig <- MCBuiltinSig
  SCHAR_MAX = 127
  MaxParams = 2
  MaxScopes = 6
SPECIFICATION WideSpec
INVARIANT TypeOK
INVARIANT ScopesMatchCalls
INVARIANT LocalsAreNotFunctions
INVARIANT ReturnReadsOwnFunction
INVARIANT NestingCountsLoops
INVARIANT OuterLoopIsRemembered
INVARIANT AcceptedFunctionsAgree
PROPERTY CondInfoRestored
PROPERTY SignaturesAreFinal
