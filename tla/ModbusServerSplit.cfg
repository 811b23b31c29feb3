\* ESP-IDF: a request whose pieces arrive within a second is answered.
SPECIFICATION FairSpec
CONSTANTS
  Builds = {"idf"}
  UnitId = 1
  Size <- MCSize
  MaxRegisters = 3
  MaxCoils = 10
  Requests <- MCInPieces
  InPieces <- MCInPieces
  AppWrites <- MCAppWrites
  Pieces = {5, 9}
  MaxRequests = 2
  MaxUnserved = 1
PROPERTIES
  RequestsAnswered
