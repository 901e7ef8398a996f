SPECIFICATION Spec
CONSTANTS
  Ops <- MCOpSet
  Declared = {"p", "q"}
  Events <- MCEvents
  Values <- MCValues
  MaxEvents = 2
INVARIANTS EmittedOpMeansSource PStatesReachTheOp LiftedControlVerifies
CHECK_DEADLOCK FALSE
