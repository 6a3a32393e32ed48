SPECIFICATION Spec
CONSTANTS
  Snaps = {s1}
  Unsaveable = {s1}
  Formats = {"SNA"}
  Instructions = {1}
  Tstates = {0}
  InBytes <- MCInBytes
  ForeignFile <- MCForeignFile
  RepeatFrame = 9
  MaxBlocks = 3
  MaxFrames = 1
PROPERTY WriteKeepsAll

