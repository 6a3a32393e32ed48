SPECIFICATION Spec
CONSTANTS
  card = card
  odd = odd
  NoDisk = NoDisk
  BlockSize = 2
  PositionSectors = 3
  SectorUnit = 2
  CSizeLimit = 2
  Images = {card}
  Geometry <- LargeGeometry
  InitialFiles <- LargeFiles
  CommandBytes = {8, 24, 41, 55}
  ArgBytes <- LargeArgBytes
  DataBytes = {1}
PROPERTIES
  CommitKeepsCard
