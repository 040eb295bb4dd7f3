------------------------------ MODULE MCServerCore ------------------------------
(* Model checking of DmbServerCore on small numbers of threads,            *)
(* connections and clients.                                                *)
EXTENDS DmbServerCore, TLC

\* Client connections are interchangeable: sound for the safety runs.
SocketSymmetry == Permutations(Socket)

=================================================================================
