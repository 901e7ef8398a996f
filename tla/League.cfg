SPECIFICATION MCSpec
CONSTANTS
  Slots = {s1, s2, s3}
  Tasks <- MCKeys
  Keys <- MCKeys
  TaskOf <- MCTaskOf
  u1 = u1
  u2 = u2
  u3 = u3
  d1 = d1
  d2 = d2
  i1 = i1
  i2 = i2
  r1 = r1
  r2 = r2
  x1 = x1
  x2 = x2
  All = All
  Empty = Empty
  None = None
  Users = {u1, u2, u3}
  Discords = {d1, d2}
  MaxVersion = 2
  Waits = TRUE
  Events <- UserEvents
  Loads <- LeagueLoads
INVARIANTS
  LinkAgreesWithIndex PlayerCountsOnce ReportListedOnce UnreadNeverOvercounts ListsMirrorRows
PROPERTIES
  NumbersAreRegistered CodesAreRegistered SessionsInvalidated
CHECK_DEADLOCK FALSE
