------------------------------- MODULE MCLibrary -------------------------------
(* The library's components that use none of the others' state: a          *)
(* behaviour is one of one of them, the others stay in one of their        *)
(* initial states.  The memory of the skip list's nodes is                 *)
(* interchangeable.                                                        *)
EXTENDS DmbBinList, DmbProperty, DmbString, DmbAlloc, DmbListIndex, DmbSkipList, TLC

VARIABLE unit

Keys   == {"k1", "k2"}
LineValues == <<"v1", "v2", "v3">>
Lines  == [kind : {"plain", "spaced"}, key : Keys]
          \cup [kind : {"blank", "comment", "keyonly", "novalue", "nokey"}, key : {"k1"}]

Pieces == {<<"a">>, <<"a", "b">>, <<"b", "b">>, <<"B", "a", "a">>}
Upper  == [c \in {"a", "A", "b", "B"} |-> IF c \in {"a", "A"} THEN "A" ELSE "B"]
Lower  == [c \in {"a", "A", "b", "B"} |-> IF c \in {"a", "A"} THEN "a" ELSE "b"]

Symmetry == Permutations(Node)

(* A product of 52429 and more than 40959 is too large for TLC.            *)
ASSUME NumbersAssumption ==
  NumbersExact((-2000 .. 2000) \cup (40000 .. 40959) \cup (65536 .. 66000)
               \cup {-65537, 99999, 100000, 1230045, 4095999, -2000000000})

NoFile   == doc = <<>> /\ whole = TRUE /\ hash = [k \in Key |-> 0] /\ PropInit
NoString == content = <<>> /\ chars = <<>> /\ StrInit

Init ==
  /\ BinInit /\ AllocInit /\ LinkInit /\ SkipInit
  /\ \/ unit \in {"binlist", "alloc", "list", "skiplist"} /\ NoFile /\ NoString
     \/ unit = "property" /\ PropInit /\ NoString
     \/ unit = "string" /\ NoFile /\ StrInit

Next ==
  \/ unit = "binlist" /\ BinNext
     /\ UNCHANGED <<unit, propVars, strVars, allocVars, linkVars, skipVars>>
  \/ unit = "property" /\ PropNext
     /\ UNCHANGED <<unit, binVars, strVars, allocVars, linkVars, skipVars>>
  \/ unit = "string" /\ StrNext
     /\ UNCHANGED <<unit, binVars, propVars, allocVars, linkVars, skipVars>>
  \/ unit = "alloc" /\ AllocNext
     /\ UNCHANGED <<unit, binVars, propVars, strVars, linkVars, skipVars>>
  \/ unit = "list" /\ LinkNext
     /\ UNCHANGED <<unit, binVars, propVars, strVars, allocVars, skipVars>>
  \/ unit = "skiplist" /\ SkipNext
     /\ UNCHANGED <<unit, binVars, propVars, strVars, allocVars, linkVars>>

Spec == Init /\ [][Next]_<<unit, binVars, propVars, strVars, allocVars, linkVars, skipVars>>

================================================================================
