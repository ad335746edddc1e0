------------------------------ MODULE MCServer ------------------------------
(* The server for TLC.  Connections and customers are interchangeable; the   *)
(* threads are numbers, since pool_create and pool_destroy go through them   *)
(* in order.                                                                 *)
EXTENDS Server, TLC

MCThreads == 1..MAX_THREADS
Symmetry == Permutations(Conns) \cup Permutations(Customers)
=============================================================================
