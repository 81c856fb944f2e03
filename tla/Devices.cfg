CONSTANTS
  Types <- MCTypes
  Modes <- MCModes
  Raws <- MCRaws
  Words <- MCWords
  Bytes <- MCBytes
  Positions <- MCPositions
  Turns <- MCTurns
  Speeds <- MCSpeeds
  Pictures <- MCPictures
SPECIFICATION Spec
INVARIANTS
  TypeOK
  ReportsTheTruth
  MeasuresAreClose
  DoesWhatWasAsked
