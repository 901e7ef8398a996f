SPECIFICATION MCFairSpec
CONSTANTS
  Slots = {s1, s2}
  Tasks <- MCKeys
  Keys <- MCKeys
  TaskOf <- MCTaskOf
  t1 = t1
  t2 = t2
  p1 = p1
  p2 = p2
  p3 = p3
  n1 = n1
  n2 = n2
  All = All
  Empty = Empty
  None = None
  Teams = {t1, t2}
  Players = {p1, p2, p3}
  Seasons = {n1, n2}
  Events <- AllEvents
  Loads <- LiveLoads
INVARIANTS RosterCap
PROPERTIES CompletesSeats
