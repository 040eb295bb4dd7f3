SPECIFICATION StalledSpec
CONSTANTS
  Conn = {c1}
  Anchor = Anchor
  NULL = NULL
  Hdr = 1
  Body = 1
  ReadBuf = 2
  WriteBuf = 2
  SendCap = 1
  Quota = 3
  Garbage = {"AGAIN", "OK"}
  Kinds = {"good"}
  Split = FALSE
PROPERTIES TimeoutCloses
CHECK_DEADLOCK FALSE
