SPECIFICATION Spec
CONSTANT Grammars <- MCDoubtful
INVARIANT AssertsHold
