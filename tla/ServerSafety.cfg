\* Two workers of two connections, three clients whose descriptor numbers are reused.
SPECIFICATION Spec
CONSTANTS
  ThreadSize = 2
  ConnectSize = 2
  PipeCap = 2
  Socket = {s1, s2, s3}
  InvalidFd = InvalidFd
SYMMETRY SocketSymmetry
INVARIANTS
  TypeOK
  CountExact
  RoomReserved
  PipeNeverFull
  IdleExact
  OneHolder
  ReadLenAssert
\* A worker may block for ever in processNewConnect (see run server_quit_hangs).
CHECK_DEADLOCK FALSE
