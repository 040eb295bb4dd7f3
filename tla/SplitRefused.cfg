SPECIFICATION Spec
CONSTANTS
  Conn = {c1}
  Anchor = Anchor
  NULL = NULL
  Hdr = 1
  Body = 1
  ReadBuf = 2
  WriteBuf = 2
  SendCap = 2
  Quota = 1
  Garbage = {"AGAIN", "OK"}
  Kinds = {"good"}
  Split = TRUE
INVARIANTS RefusedIfBad
CHECK_DEADLOCK FALSE
