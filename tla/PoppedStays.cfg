SPECIFICATION Spec
CONSTANTS
  Conn = {c1, c2}
  Anchor = Anchor
  NULL = NULL
  Hdr = 1
  Body = 1
  ReadBuf = 4
  WriteBuf = 2
  SendCap = 2
  Quota = 2
  Garbage = {"AGAIN", "OK"}
  Kinds = {"good"}
  Split = FALSE
INVARIANTS PopRemoves
CHECK_DEADLOCK FALSE
