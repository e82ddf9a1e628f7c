SPECIFICATION Spec
CONSTANTS
  RXSTOP_INIT = 15
  FrameSizes = {6, 10}
  JunkPointers <- MCJunkPointers
  Packets = {p1, p2}
  NoPacket = none
  MaxFrames = 4
INVARIANTS TypeOK DriverFollowsChip FramesInOrder RegistersInTheirBank TransmitsWhole
PROPERTIES OverwritesOnlyWhenAstray ReleasesOddAddress FramesAreTaken
