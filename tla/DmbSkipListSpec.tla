---------------------------- MODULE DmbSkipListSpec ----------------------------
(***************************************************************************)
(* What src/core/dmbskiplist.h promises: a sequence of elements, sorted by *)
(* score and among equal scores by value.                                  *)
(***************************************************************************)
EXTENDS DmbSequences

CONSTANTS Score, Value

VARIABLES
  elems,
  last            \* the last call, with its arguments, and what it returned

Elem == [score : Score, value : Value]
Before(x, y) == x.score < y.score \/ (x.score = y.score /\ x.value < y.value)

(* TLC compares the names first: what different calls return is not of one *)
(* type.                                                                   *)
Returned(op, args, ret) ==
  last'.op = op /\ last' = [op |-> op, args |-> args, ret |-> ret]

Init == elems = <<>> /\ last = [op |-> "create", args |-> <<>>, ret |-> "ok"]

Insert(s, v) ==
  LET new == [score |-> s, value |-> v]
      less == {x \in Elem : Before(x, new)}
  IN  \/ /\ Returned("insert", <<s, v>>, "ok")
         /\ elems' = Select(elems, less) \o <<new>> \o Select(elems, Elem \ less)
      \/ Returned("insert", <<s, v>>, "failed") /\ UNCHANGED elems

RemoveOne(s, v) ==
  LET found == {i \in DOMAIN elems : elems[i] = [score |-> s, value |-> v]}
  IN  /\ Returned("remove", <<s, v>>, found # {})
      /\ IF found = {} THEN UNCHANGED elems
         ELSE \E i \in found :
                elems' = SubSeq(elems, 1, i - 1) \o SubSeq(elems, i + 1, Len(elems))

RemoveByScore(start, end) ==
  LET outside == {x \in Elem : x.score < start \/ x.score > end}
  IN  /\ elems' = Select(elems, outside)
      /\ Returned("remove range", <<start, end>>, Len(elems) - Len(elems'))

RemoveAll == elems' = <<>> /\ Returned("remove all", <<>>, "ok")

Next ==
  \/ \E s \in Score, v \in Value : Insert(s, v) \/ RemoveOne(s, v)
  \/ \E start, end \in Score : RemoveByScore(start, end)
  \/ RemoveAll

Spec == Init /\ [][Next]_<<elems, last>>

================================================================================
