SPECIFICATION Spec
CONSTANTS
  main = main
  test = test
  other = other
  alice = alice
  bob = bob
  NoOne = NoOne
  Closers <- MCClosers
  Clients <- MCClients
INVARIANTS
  TypeOK
  ClosedIsQuiet
PROPERTIES
  HandledIsAnswered
  CloseReturns
