SPECIFICATION Spec
CONSTANTS
  Snaps = {s1}
  Unsaveable = {}
  Formats = {"SZX"}
  Instructions = {1}
  Tstates = {0}
  InBytes <- MCInBytes
  ForeignFile <- MCForeignFile
  RepeatFrame = 9
  MaxBlocks = 3
  MaxFrames = 3
PROPERTY RecordingSpec
CONSTRAINT SmallAfterWrite
INVARIANTS
  TypeOK
  NoDanglingPointer
  RepeatTargetSound
  PlaysCurrentFrame
