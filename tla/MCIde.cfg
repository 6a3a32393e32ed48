SPECIFICATION Spec
CONSTANTS
  hdd = hdd
  tiny = tiny
  NoDisk = NoDisk
  BlockSize = 2
  PositionSectors = 5
  Images = {hdd, tiny}
  Geometry <- MCGeometry
  InitialFiles <- MCFiles
  ByteSize = 2
  HeadSize = 2
  MaxCylinders = 3
  MaxCapacity = 4
  Databuses = {"DATA16_BYTESWAP", "DATA16_DATA2"}
  HostRegs <- MCRegs
  HostHeads <- MCHeads
  DataBytes = {0}
  CarefulHost = TRUE
CONSTRAINT Scenarios
INVARIANTS
  TypeOK
  DirtySectorsOnDisk
  HandshakeSound
  CacheNeedsDisk
PROPERTIES
  ConsecutiveSectors
  OnlyAddressedSectorChanges
