-------------------------------- MODULE DmbList --------------------------------
(***************************************************************************)
(* The intrusive circular lists of src/core/dmblist.c as operators on a    *)
(* heap: a record [next, prev] of two functions from the nodes, heads      *)
(* included, to nodes or NULL.  Assignments through pointers are made in   *)
(* the order of the code, so that aliasing pointers do what they do there. *)
(***************************************************************************)
EXTENDS DmbDefines

insert(h, new, before, after) ==
  [next |-> [h.next EXCEPT ![before] = new, ![new] = after],
   prev |-> [h.prev EXCEPT ![after] = new, ![new] = before]]

dmbListIsEmpty(h, head) == h.next[head] = head

dmbListPushFront(h, head, node) == insert(h, node, head, h.next[head])
dmbListPushBack(h, head, node)  == insert(h, node, h.prev[head], head)

(* The second assignment reads pPrev after the first one.                  *)
dmbListRemove(h, node) ==
  LET prev == [h.prev EXCEPT ![h.next[node]] = h.prev[node]]
  IN  [next |-> [h.next EXCEPT ![prev[node]] = h.next[node]], prev |-> prev]

(* PopFront and PopBack remove FirstNode and LastNode and return it, with  *)
(* its pointers as they were.                                              *)
FirstNode(h, head) == h.next[head]
LastNode(h, head)  == h.prev[head]
dmbListPopFront(h, head) == dmbListRemove(h, FirstNode(h, head))
dmbListPopBack(h, head)  == dmbListRemove(h, LastNode(h, head))

(* An iterator remembers the neighbours of its node, so that the node may  *)
(* be removed.  dmbListNext returns FALSE when the new node is the list.   *)
dmbListInitIter(h, list, reverse) ==
  [node |-> list, next |-> h.next[list], prev |-> h.prev[list], reverse |-> reverse]

dmbListNext(h, iter) ==
  LET node == IF iter.reverse THEN iter.prev ELSE iter.next
  IN  [iter EXCEPT !.node = node, !.next = h.next[node], !.prev = h.prev[node]]

dmbNodeInit(h, node) ==
  [next |-> [h.next EXCEPT ![node] = NULL], prev |-> [h.prev EXCEPT ![node] = NULL]]

dmbNodeIsUsed(h, node) == h.next[node] # NULL

================================================================================
