SPECIFICATION FairSpec
CONSTANTS
  Base = 3
  Byte <- MCByte
  WordLen = 2
  WordMod <- MCWordMod
  Encode <- MCEncode
  Decode <- MCDecode
  HeadFlag = 5
  Flags = {5}
  Types <- MCTypes
  Payloads <- MCPayloads
  ReadBufferLen = 9
  InitialCap = 4
  MaxPackets = 3
INVARIANTS
  IInv
  ChunkingIndependent
PROPERTIES
  ImplementsChannel
  EveryPacketDelivered
CHECK_DEADLOCK FALSE
