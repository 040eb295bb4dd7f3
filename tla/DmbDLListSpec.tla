----------------------------- MODULE DmbDLListSpec -----------------------------
(***************************************************************************)
(* What src/base/dmbdllist.h and src/base/dmbobject.h promise: a list is a *)
(* sequence of objects, changed at its ends or by the removal of a range.  *)
(* A thread owns references to objects, by itself or through its lists,    *)
(* and an object is made anew only when nobody has a reference to it.      *)
(***************************************************************************)
EXTENDS Naturals, Sequences

CONSTANTS Thread, List, Owner, Obj

VARIABLES lists, held

Init ==
  /\ lists = [l \in List |-> <<>>]
  /\ held = [t \in Thread |-> [o \in Obj |-> 0]]

Elements(l) == {lists[l][k] : k \in DOMAIN lists[l]}

(* The objects a thread has a reference to.                                *)
Known(t) == {o \in Obj : held[t][o] > 0 \/ \E l \in List : Owner[l] = t /\ o \in Elements(l)}

Create(t, o) ==
  /\ held' = [held EXCEPT ![t][o] = 1]
  /\ UNCHANGED lists
  /\ \A u \in Thread : o \notin Known(u)

(* A reference for the thread itself or for another one.                   *)
Retain(t, u, o) ==
  /\ held' = [held EXCEPT ![u][o] = @ + 1]
  /\ UNCHANGED lists
  /\ o \in Known(t)

Release(t, o) ==
  /\ held[t][o] > 0
  /\ held' = [held EXCEPT ![t][o] = @ - 1]
  /\ UNCHANGED lists

Push(t, l, o) ==
  /\ UNCHANGED held
  /\ \/ lists' = [lists EXCEPT ![l] = Append(@, o)]
     \/ lists' = [lists EXCEPT ![l] = <<o>> \o @]
  /\ o \in Known(t)

(* The reference of the list becomes one of the caller.                    *)
Pop(t, l) ==
  LET n == Len(lists[l])
  IN  /\ n > 0
      /\ \/ /\ held' = [held EXCEPT ![t][lists[l][n]] = @ + 1]
            /\ lists' = [lists EXCEPT ![l] = SubSeq(@, 1, n - 1)]
         \/ /\ held' = [held EXCEPT ![t][lists[l][1]] = @ + 1]
            /\ lists' = [lists EXCEPT ![l] = Tail(@)]

(* The elements with the indices i to j, counted from 0.                   *)
RemoveRange(l, i, j) ==
  /\ i <= j /\ j < Len(lists[l])
  /\ UNCHANGED held
  /\ lists' = [lists EXCEPT ![l] = SubSeq(@, 1, i) \o SubSeq(@, j + 2, Len(@))]

Next ==
  \E t \in Thread :
    \/ \E o \in Obj :
         \/ Create(t, o)
         \/ Release(t, o)
         \/ \E u \in Thread : Retain(t, u, o)
    \/ \E l \in {m \in List : Owner[m] = t} :
         \/ \E o \in Obj : Push(t, l, o)
         \/ Pop(t, l)
         \/ \E j \in 0 .. Len(lists[l]) : \E i \in 0 .. j : RemoveRange(l, i, j)

Spec == Init /\ [][Next]_<<lists, held>>

================================================================================
