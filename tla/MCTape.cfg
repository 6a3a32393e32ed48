SPECIFICATION FairSpec
CONSTANTS
  BitsInByte = 2
  TimingPilot = 5
  TimingSync1 = 3
  TimingSync2 = 4
  TimingData0 = 1
  TimingData1 = 2
  PilotsHeader = 3
  PilotsData = 2
  TstatesPerMs = 2
  MsPerSecond = 6
  CpuClock = 7
  DefaultRate = 3
  ScaleLimit = 8
  Files <- MCFiles
  Insertable <- MCInsertable
  MaxBlocks = 5
  MaxCalls = 3
  CarefulCaller = TRUE
INVARIANTS
  TypeOK
  PointersOnTape
  BlocksBeginFresh
  EdgesFollowBlock
  LengthIsSum
  PlaysInOrder
PROPERTIES
  TapeEnds
  WriteReturns
  CswKeepsTime
