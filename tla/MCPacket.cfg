SPECIFICATION PacketsSpec
CONSTANTS
  Names = {1}
  Ids = {4}
  Lengths = {5}
  Incoming <- SomePackets
  Deliveries = {4, 6}
  MinWords = 12
  Headroom = 1
  MaxWords = 18
  AnyState = FALSE
  Printed <- SomeTexts
  ChunkSize = 32
  SbufLen = 152
  MaxLost = 1
INVARIANTS PacketInv BuiltAsEncoded ReadAsEncoded TextIsWhole
