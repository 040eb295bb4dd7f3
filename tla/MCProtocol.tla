------------------------------- MODULE MCProtocol ------------------------------
(* DmbProtocol for TLC.                                                    *)
EXTENDS DmbProtocol, TLC

ConnSymmetry == Permutations(Conn)

================================================================================
