------------------------------ MODULE DmbListIndex ------------------------------
(***************************************************************************)
(* The functions of src/core/dmblist.c that count along a list or work on  *)
(* a whole one: insertion, removal and access by index, and merge.  Lists  *)
(* are on a heap of pointers, as in DmbList.                               *)
(***************************************************************************)
EXTENDS Integers, Sequences, DmbDefines

L == INSTANCE DmbList

CONSTANTS
  Root,           \* the heads of the lists
  ListNode

ASSUME ListIndexAssumption == Root \cap ListNode = {} /\ NULL \notin Root \cup ListNode

VARIABLES
  links,          \* pointers
  order           \* the nodes of each list as they should be (history)

linkVars == <<links, order>>

LinkInit ==
  LET heads == [n \in Root \cup ListNode |-> IF n \in Root THEN n ELSE NULL]
  IN  /\ links = [next |-> heads, prev |-> heads]
      /\ order = [l \in Root |-> <<>>]

Spare == {n \in ListNode : \A l \in Root : ~Seqs!Contains(order[l], n)}

-----------------------------------------------------------------------------

(* dmbListForeach and dmbListForeachReverse: the node met at index k, or   *)
(* the list when the loop has ended before.                                *)
dmbListForeach(l, step, k) ==
  LET met[i \in 0 .. k] == IF i = 0 THEN step[l]
                           ELSE IF met[i - 1] = l THEN l ELSE step[met[i - 1]]
  IN  met[k]

(* A negative index is counted from the end; NULL if there is no such node. *)
CBListGet(l, iIndex) ==
  LET node == IF iIndex < 0 THEN dmbListForeach(l, links.prev, -iIndex - 1)
              ELSE dmbListForeach(l, links.next, iIndex)
  IN  IF node = l THEN NULL ELSE node

dmbListAppend(l, node) ==
  /\ links' = L!insert(links, node, links.prev[l], l)
  /\ order' = [order EXCEPT ![l] = Append(@, node)]

dmbListPrepend(l, node) ==
  /\ links' = L!insert(links, node, l, links.next[l])
  /\ order' = [order EXCEPT ![l] = <<node>> \o @]

(* Fault: the node goes in front of the one counted from the end.          *)
InsertBefore(l, node, iIndex) ==
  LET at == CBListGet(l, iIndex)
      n  == Len(order[l])
  IN  /\ links' = IF at = NULL THEN links ELSE L!insert(links, node, links.prev[at], at)
      /\ order' = [order EXCEPT ![l] = IF iIndex \in 0 .. n - 1 THEN Seqs!InsertAt(@, iIndex + 1, node)
                                       ELSE IF iIndex \in -n .. -1
                                       THEN Seqs!InsertAt(@, n + iIndex + 2, node) ELSE @]

(* The node is put in front of the one with index iIndex, or behind it if  *)
(* the index is negative: -1 is the end.  The length itself is no index.   *)
dmbListInsert(l, node, iIndex) ==
  LET at == CBListGet(l, iIndex)
      n  == Len(order[l])
  IN  /\ links' = IF at = NULL THEN links
                  ELSE IF iIndex < 0 THEN L!insert(links, node, at, links.next[at])
                  ELSE L!insert(links, node, links.prev[at], at)
      /\ order' = [order EXCEPT ![l] = IF iIndex \in 0 .. n - 1 THEN Seqs!InsertAt(@, iIndex + 1, node)
                                       ELSE IF iIndex \in -n .. -1
                                       THEN Seqs!InsertAt(@, n + iIndex + 2, node) ELSE @]

(* What a removal by index leaves of the pointers, and what it returns.    *)
(* The loop remembers the node in front of the one it meets at iStart: if  *)
(* it meets none, a null pointer is written through (NULL here).  iEnd may *)
(* be too large.                                                           *)
RangeRemoved(l, iStart, iEnd) ==
  LET first  == dmbListForeach(l, links.next, iStart)
      last   == dmbListForeach(l, links.next, iEnd)
      pStart == links.prev[first]
      pEnd   == IF last = l THEN l ELSE links.next[last]
  IN  IF iStart < 0 \/ iEnd < 0 \/ iStart > iEnd \/ L!dmbListIsEmpty(links, l)
      THEN [links |-> links, ret |-> 0]
      ELSE IF first = l THEN NULL
      ELSE [links |-> [next |-> [links.next EXCEPT ![pStart] = pEnd],
                       prev |-> [links.prev EXCEPT ![pEnd] = pStart]],
            ret   |-> iEnd - iStart + 1]

(* The nodes that should be left of a list: without those from one index   *)
(* to the other, a negative index being counted from the end.              *)
Without(nodes, iStart, iEnd) ==
  LET Index(i) == IF i < 0 THEN Len(nodes) + i ELSE i
  IN  IF Index(iStart) > Index(iEnd) THEN nodes
      ELSE SubSeq(nodes, 1, Index(iStart)) \o SubSeq(nodes, Index(iEnd) + 2, Len(nodes))

dmbListRemoveRange(l, iStart, iEnd) ==
  LET removal == RangeRemoved(l, iStart, iEnd)
  IN  /\ removal # NULL
      /\ links' = removal.links
      /\ order' = [order EXCEPT ![l] = Without(@, iStart, iEnd)]

dmbListRemoveAt(l, iIndex) == dmbListRemoveRange(l, iIndex, iIndex)

dmbListRemoveAll(l) ==
  /\ links' = [next |-> [links.next EXCEPT ![l] = l], prev |-> [links.prev EXCEPT ![l] = l]]
  /\ order' = [order EXCEPT ![l] = <<>>]

(* The pointers after dmbListMerge, assigned in the order of the code.     *)
Merged(h, dest, src) ==
  LET next1 == [h.next EXCEPT ![h.prev[dest]] = h.next[src]]
      prev1 == [h.prev EXCEPT ![next1[src]] = h.prev[dest]]
      prev2 == [prev1 EXCEPT ![dest] = prev1[src]]
      next2 == [next1 EXCEPT ![prev2[src]] = dest]
  IN  [next |-> [next2 EXCEPT ![src] = src], prev |-> [prev2 EXCEPT ![src] = src]]

dmbListMerge(dest, src) ==
  /\ links' = IF L!dmbListIsEmpty(links, src) THEN links ELSE Merged(links, dest, src)
  /\ order' = [order EXCEPT ![dest] = @ \o order[src], ![src] = <<>>]

(* The callers that are right: they remove by indices from the front, and  *)
(* from none beyond the end (see RemovesAsDocumented).                     *)
LinkNext ==
  \E l \in Root :
    \/ \E node \in Spare : \/ dmbListAppend(l, node) \/ dmbListPrepend(l, node)
                           \/ \E i \in -Len(order[l]) - 1 .. Len(order[l]) :
                                dmbListInsert(l, node, i)
    \/ \E i \in 0 .. Len(order[l]) : \/ \E j \in 0 .. Len(order[l]) : dmbListRemoveRange(l, i, j)
                                     \/ dmbListRemoveAt(l, i)
    \/ dmbListRemoveAll(l)
    \/ \E src \in Root \ {l} : dmbListMerge(l, src)

LinkSpec == LinkInit /\ [][LinkNext]_linkVars

-----------------------------------------------------------------------------

(* Whatever was inserted, merged and, by indices from the front, removed,  *)
(* each list holds the nodes it should, in order: they are found by their  *)
(* indices, counted from either end along the pointers of that direction,  *)
(* and none beyond.                                                        *)
IndexExact ==
  \A l \in Root :
    LET n == Len(order[l])
    IN  \A i \in -n - 1 .. n :
          CBListGet(l, i) = IF i \in 0 .. n - 1 THEN order[l][i + 1]
                            ELSE IF i \in -n .. -1 THEN order[l][n + i + 1] ELSE NULL

(* A removal by index does what dmblist.h says of it: the nodes from one   *)
(* index to the other are gone, a negative index being counted from the    *)
(* end, and the number returned is that of the nodes removed, 0 if there   *)
(* are none at those indices.                                              *)
RemovesAsDocumented ==
  \A l \in Root : \A iStart, iEnd \in -Len(order[l]) .. Len(order[l]) :
    LET removal == RangeRemoved(l, iStart, iEnd)
        left    == Without(order[l], iStart, iEnd)
    IN  /\ removal # NULL
        /\ removal.ret = Len(order[l]) - Len(left)
        /\ \A k \in 0 .. Len(left) :
             dmbListForeach(l, removal.links.next, k) = IF k < Len(left) THEN left[k + 1] ELSE l

================================================================================
