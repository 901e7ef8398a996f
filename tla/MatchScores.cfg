SPECIFICATION MCFairSpec
CONSTANTS
  Slots = {s1, s2, s3}
  Tasks <- MCKeys
  Keys <- MCKeys
  TaskOf <- ApartTaskOf
  m1 = m1
  m2 = m2
  h = h
  a = a
  w1 = w1
  c1 = c1
  c2 = c2
  x1 = x1
  d1 = d1
  d2 = d2
  Empty = Empty
  None = None
  Matches = {m1, m2}
  TeamIds = {h, a}
  Weeks = {w1}
  Arenas <- ArenaNumbers
  Comms = {c1, c2, x1}
  Times = {d1, d2}
  MaxWins = 2
  Events <- AllEvents
  Loads <- ScoreLoads
INVARIANTS StandingsMirror NeverUnlisted
PROPERTIES ListedUnderTeams ResultCounts
CHECK_DEADLOCK FALSE
