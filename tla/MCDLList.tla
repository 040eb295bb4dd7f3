-------------------------------- MODULE MCDLList --------------------------------
(* Two threads, one with two lists, so that it can copy from one to the    *)
(* other, and one with one.                                                *)
EXTENDS DmbDLList, TLC

CONSTANTS t1, t2, a, b, c

MCOwner == (a :> t1) @@ (b :> t1) @@ (c :> t2)

Symmetry == Permutations(Entry) \cup Permutations(Obj)

================================================================================
