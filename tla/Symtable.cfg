CONSTANT Names = {1, 2, 3, 4}
SPECIFICATION Spec
INVARIANT SearchTree
PROPERTY TableSpec
