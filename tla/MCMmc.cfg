SPECIFICATION Spec
CONSTANTS
  card = card
  odd = odd
  NoDisk = NoDisk
  BlockSize = 2
  PositionSectors = 3
  SectorUnit = 2
  CSizeLimit = 1
  Images = {card, odd}
  Geometry <- MCGeometry
  InitialFiles <- MCInitialFiles
  CommandBytes <- ProtocolCommands
  ArgBytes <- ProtocolArgBytes
  DataBytes = {0, 1}
CONSTRAINTS DataOnInitialisedCard HostInCommand
INVARIANTS
  TypeOK
  DataPhaseIsWrite
  ReadyMeansInitialised
  EraseRangeOnCard
  DirtySectorsOnCard
PROPERTIES
  NoWriteWhileIdle
  DeviceSpec
