SPECIFICATION FairSpec
CONSTANTS
  Conn = {c1}
  Anchor = Anchor
  NULL = NULL
  Hdr = 2
  Body = 1
  ReadBuf = 4
  WriteBuf = 3
  SendCap = 2
  Quota = 3
  Garbage = {"AGAIN", "OK"}
  Kinds = {"good", "badVersion", "tooLong", "wrapping", "hostMagic", "hostOrder"}
  Split = TRUE
INVARIANT TypeOK
PROPERTIES WorkerReturns Answered Disconnected
CHECK_DEADLOCK FALSE
