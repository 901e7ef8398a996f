SPECIFICATION Spec
CONSTANTS
  Idents <- MCIdents
  Nullables <- MCNullables
  Keywords = {":k"}
  Literals = {"s", "1"}
  StringTokens = {"s"}
  PStateRefs = {"$$p"}
  Words = {"nil"}
  Unprintable = {"ESC"}
  Modules <- MCModules
  Items <- MCItems
  Stmts <- MCStmts
  SexpFiles <- MCSexpFiles
  Pieces <- MCPieces
  MaxParts = 3
  MaxEdits = 2
INVARIANTS SourceReadsBack 
CHECK_DEADLOCK FALSE
