SPECIFICATION Spec
CONSTANTS
  Idents <- MCIdents
  Nullables <- MCNullables
  Keywords = {":k"}
  Literals = {"s", "1"}
  StringTokens = {"s"}
  PStateRefs = {"$$p"}
  Words = {"nil"}
  Unprintable = {"ESC"}
  Modules = {}
  Items = {}
  Stmts = {}
  SexpFiles <- MCSexpFiles
  Pieces = {"a", ")"}
  MaxParts = 0
  MaxEdits = 3
INVARIANT UnfinishedIsRefused
CHECK_DEADLOCK FALSE
