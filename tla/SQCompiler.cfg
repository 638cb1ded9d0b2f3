SPECIFICATION Spec
CONSTANT Grammars <- MCGrammars
INVARIANTS StatementsBalanced TempsNest TrapsExact JumpsResolved ScopesMine
