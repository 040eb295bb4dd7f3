------------------------------- MODULE DmbDefines -------------------------------
(***************************************************************************)
(* What the library's components share.                                    *)
(***************************************************************************)
CONSTANT NULL        \* no pointer

(* The operators on sets and sequences.                                    *)
Sets == INSTANCE FiniteSetsExt
Seqs == INSTANCE SequencesExt

================================================================================
