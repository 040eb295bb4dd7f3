SPECIFICATION LinkSpec
CONSTANTS
  NULL = NULL
  Root = {l1}
  ListNode = {n1}
INVARIANT RemovesAsDocumented
CHECK_DEADLOCK FALSE
