\* One worker of two connections and three clients: batches of up to three events.
SPECIFICATION FairSpec
CONSTANTS
  ThreadSize = 1
  ConnectSize = 2
  PipeCap = 2
  Socket = {s1, s2, s3}
  InvalidFd = InvalidFd
PROPERTIES
  Served
  QuitUnlessReadTwice
\* The server stops when the main thread is done.
CHECK_DEADLOCK FALSE
