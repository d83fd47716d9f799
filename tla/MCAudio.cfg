SPECIFICATION PlayoutSpec
CONSTANTS
  HalfRange = 6
  TransitiveSafetyRange = 3
  MaxQueueAhead = 3
  BadSpanThreshold = 2
  MaxSize = 3
  MaxPackets = 12
  MaxInFlight = 2
  AudioData <- MCAudioData
  Garbled = 100
  Byte <- MCByte
  Chunk <- MCChunk
  NoByte = 2
  InitialCapacity = 3
  Buffers = {b1}
  Requests = {1, 2}
  FrameLengths = {1, 3}
  DecodedFrameSize = 2
  MaxRequests = 3
  MaxRecordings = 2
INVARIANTS
  QueueIsSound
  StreamInv
  RefillKeepsAhead
  PoolInv
PROPERTIES
  PlaysInOrder
  NeverStalls
  ReadsWhatWasWritten
  CatchesUp
CHECK_DEADLOCK FALSE
