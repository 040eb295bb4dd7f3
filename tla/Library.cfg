SPECIFICATION Spec
CONSTANTS
  NULL = NULL
  TINYSTR_LENMAX = 7
  NORMALSTR_LENMAX = 40
  Low = 4
  Byte = 8
  USHRT_MAX = 3
  FixSize = 20
  Lengths = {1, 3, 5, 8, 36, 40}
  MaxItems = 3
  Buckets = 2
  Key <- Keys
  LineValue <- LineValues
  Line <- Lines
  Zero = "0"
  Piece <- Pieces
  upper <- Upper
  lower <- Lower
  SizeMax = 8
  Step = 2
  Small = 4
  Page = 8
  UINT_MAX = 31
  BoolSize = 3
  Thread = {t1, t2}
  Block = {m1, m2, m3}
  MaxSize = 3
  Word = 2
  MaxMemory = 4
  Root = {l1, l2}
  ListNode = {n1, n2, n3}
  Node = {s1, s2, s3}
  Header = Header
  Score = {1, 2}
  Value = {1, 2}
  MaxLevel = 3
  UIntSize = 256
SYMMETRY Symmetry
INVARIANTS WalkExact TransferExact ParseExact LookupExact BlocksOwned StringExact
  UsedExact Overshoot IndexExact
  LevelsNested StepsExact RankExact ScoresExact ScansExact
PROPERTIES RefusalExact SortedSpec
CHECK_DEADLOCK FALSE
