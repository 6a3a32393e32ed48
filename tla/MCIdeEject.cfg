SPECIFICATION Spec
CONSTANTS
  hdd = hdd
  tiny = tiny
  NoDisk = NoDisk
  BlockSize = 2
  PositionSectors = 5
  Images = {tiny}
  Geometry <- MCGeometry
  InitialFiles <- MCFiles
  ByteSize = 2
  HeadSize = 2
  MaxCylinders = 3
  MaxCapacity = 4
  Databuses = {"DATA8"}
  HostRegs <- MCRegs
  HostHeads <- MCHeads
  DataBytes = {0}
  CarefulHost = FALSE
INVARIANTS
  CacheNeedsDisk
