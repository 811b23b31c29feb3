\* Requests that arrive whole, for both builds.
SPECIFICATION FairSpec
CONSTANTS
  Builds = {"idf", "arduino"}
  UnitId = 1
  Size <- MCSize
  MaxRegisters = 3
  MaxCoils = 10
  Requests <- MCRequests
  InPieces <- MCInPieces
  AppWrites <- MCAppWrites
  Pieces = {9}
  MaxRequests = 2
  MaxUnserved = 2
INVARIANTS
  ApplicationIsTold
PROPERTIES
  ImplementsPromise
  WaitingClientLetIn
