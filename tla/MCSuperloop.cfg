SPECIFICATION PartsSpec
CONSTANTS
  Work = {w1, w2}
  Capacity = 4
  Modulus = 8
  Levels = 1
  Poster = {1}
  Message = {m1, m2}
  LogCapacity = 3
  MaskedPosts = TRUE
  FlushLimits = {0, 1}
  MilliRange = 8
  MicroRange = 8388608
  PeriodLimit = 6
  SleepLimit = 3
  UptimeRange = 8
  MaxDelay = 4
  LookLag = 2
  Reading = {0, 3, 7}
  AlphaShift = 1
  Threshold = 3
  MaxPayload = 2
  Ping = 16
  Telemetry = 32
  Payload <- MCPayload
  Pong <- MCPong
  Garbage <- MCGarbage
  Ring = 64
  SliceSize = 32
  SeqLimit = 3
INVARIANTS PostsKept LogKept TimeAccounted WaitsRight FiltersRight WireWhole
PROPERTIES Drains LogDrains Converses
