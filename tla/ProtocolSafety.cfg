SPECIFICATION Spec
CONSTANTS
  Conn = {c1, c2}
  Anchor = Anchor
  NULL = NULL
  Hdr = 1
  Body = 1
  ReadBuf = 3
  WriteBuf = 2
  SendCap = 1
  Quota = 2
  Garbage = {"AGAIN", "OK"}
  Kinds = {"good", "hostMagic"}
  Split = FALSE
SYMMETRY ConnSymmetry
INVARIANTS OneResponse BlockedWaits AllWatched IdleIsBlank
PROPERTIES InputDrained
CHECK_DEADLOCK FALSE
