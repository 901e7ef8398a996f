SPECIFICATION MCSpec
CONSTANTS
  Slots = {s1, s2, s3}
  Tasks <- MCKeys
  Keys <- MCKeys
  TaskOf <- MCTaskOf
  t1 = t1
  t2 = t2
  p1 = p1
  p2 = p2
  p3 = p3
  n1 = n1
  n2 = n2
  All = All
  Empty = Empty
  None = None
  Teams = {t1, t2}
  Players = {p1, p2, p3}
  Seasons = {n1, n2}
  Events <- AllEvents
  Loads <- SafeLoads
SYMMETRY SlotSymmetry
INVARIANTS TypeOK SlotMatchesRoster SeasonUniqueness StatusIndexAgrees PendingMirroredAtRest
PROPERTIES ImplementsSeats
