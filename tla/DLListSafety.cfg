SPECIFICATION Spec
CONSTANTS
  t1 = t1
  t2 = t2
  a = a
  b = b
  c = c
  NULL = NULL
  Thread = {t1, t2}
  List = {a, b, c}
  Owner <- MCOwner
  Entry = {e1, e2, e3, e4}
  Obj = {o1, o2}
  MaxMemory = 4
  MaxHeld = 1
SYMMETRY Symmetry
INVARIANTS
  ListsAgree
  ReferencesCounted
  NothingLeaks
  RangeCopied
  ScanProgress
PROPERTIES
  ListSpec
