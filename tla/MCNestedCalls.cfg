CONSTANTS
  Functions <- MCNested
  Variables = {"k"}
  BinaryOps = {}
  UnaryOps = {}
  Statements = {"default"}
  DeclaredReturns = 0
  Readable <- AnyText
  MaxTokens = 8
SPECIFICATION Spec
INVARIANT EmittedCodeRuns
