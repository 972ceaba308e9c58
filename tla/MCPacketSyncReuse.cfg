SPECIFICATION ReuseSpec
CONSTANTS
  Base = 3
  Byte <- MCByte
  WordLen = 2
  WordMod <- MCWordMod
  Encode <- MCEncode
  Decode <- MCDecode
  HeadFlag = 5
  Flags = {5}
  Types <- MCTypes
  Payloads <- MCPayloads
  ReadBufferLen = 9
  InitialCap = 4
  MaxPackets = 2
  MaxConnections = 2
INVARIANTS
  EachConnectionInOrder
CHECK_DEADLOCK FALSE
