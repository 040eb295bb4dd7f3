SPECIFICATION Spec
CONSTANTS
  Conn = {c1}
  Anchor = Anchor
  NULL = NULL
  Hdr = 1
  Body = 1
  ReadBuf = 4
  WriteBuf = 2
  SendCap = 1
  Quota = 2
  Garbage = {"AGAIN", "OK"}
  Kinds = {"good"}
  Split = FALSE
INVARIANTS NothingBuffered
CHECK_DEADLOCK FALSE
