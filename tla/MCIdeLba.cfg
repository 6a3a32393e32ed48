SPECIFICATION Spec
CONSTANTS
  hdd = hdd
  tiny = tiny
  NoDisk = NoDisk
  BlockSize = 2
  PositionSectors = 5
  Images = {hdd}
  Geometry <- LargeGeometry
  InitialFiles <- LargeFiles
  ByteSize = 2
  HeadSize = 2
  MaxCylinders = 3
  MaxCapacity = 4
  Databuses = {"DATA16"}
  HostRegs <- AllRegs
  HostHeads <- LargeHeads
  DataBytes = {0}
  CarefulHost = TRUE
PROPERTIES
  ConsecutiveSectors
