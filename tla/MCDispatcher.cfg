SPECIFICATION PartsSpec
CONSTANTS
  MaxPayload = 2
  Request <- MCRequest
  Noise <- MCNoise
  Table <- MCTable
  Answer <- MCAnswer
  TxRoom = 9
  HashBlock = 4
  LengthField = 2
  CipherBlock = 2
  CounterRange = 16
  ImageChunk = 2
  MessageLimit = 9
  ImageLimit = 5
INVARIANTS RequestsHandled RoomRemains RepliesReadable TwinsAgree StreamsRight
