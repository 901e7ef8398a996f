SPECIFICATION FairSpec
CONSTANTS
  ClassQueries = {sub, missing}
  VarQueries = {var}
  Assignable = {sub}
  Unknown = {missing}
  Bootstrapped = {missing}
  Pieces = {4}
  MaxEvals = 2
  MaxWarnings = 1
INVARIANTS LiveAnswersAreTrue InStep
PROPERTIES EvalEnds
CHECK_DEADLOCK FALSE
