SPECIFICATION Spec
CONSTANTS
  Families <- MCFamilies
  Arguments <- MCArguments
  Answers <- MCAnswers
  Events <- MCEvents
  MaxEvents = 2
INVARIANTS  LoweringMeansSource 
CHECK_DEADLOCK FALSE
