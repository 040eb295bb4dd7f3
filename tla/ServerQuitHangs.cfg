\* One worker of two connections.
SPECIFICATION FairSpec
CONSTANTS
  ThreadSize = 1
  ConnectSize = 2
  PipeCap = 2
  Socket = {s1, s2}
  InvalidFd = InvalidFd
PROPERTIES
  QuitCompletes
CHECK_DEADLOCK FALSE
