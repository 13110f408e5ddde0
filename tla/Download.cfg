SPECIFICATION Spec
CONSTANTS
  Caller = caller
  Workers = {w1, w2}
  Pieces <- MCPieces
  Start <- MCStart
  MaxRetries = 2
  Pending = Pending
  Lost = Lost
INVARIANTS
  TypeOK
  InPlace
  WholeOnOk
PROPERTIES
  AlwaysReturns
