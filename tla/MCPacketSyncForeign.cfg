SPECIFICATION FairSpec
CONSTANTS
  Base = 3
  Byte <- MCByte
  WordLen = 2
  WordMod <- MCWordMod
  Encode <- MCEncode
  Decode <- MCDecode
  HeadFlag = 5
  Flags = {4, 5}
  Types <- MCTypes
  Payloads <- MCPlainPayloads
  ReadBufferLen = 9
  InitialCap = 4
  MaxPackets = 3
INVARIANTS
  OnlyOwnPackets
CHECK_DEADLOCK FALSE
