CONSTANTS
  Functions <- MCFunctions
  Variables = {"a", "b"}
  BinaryOps = {"^", "%", "-", "..", "<", "and", "or"}
  UnaryOps = {"-"}
  Statements = {"default", "return", "function", "global"}
  DeclaredReturns = 2
  Readable <- StatementText
  MaxTokens = 11
SPECIFICATION Spec
INVARIANT ValueOfExpression
INVARIANT ReturnedInOrder
INVARIANT AssignedInOrder
INVARIANT CalledWithArguments
INVARIANT StackIsTheParse
