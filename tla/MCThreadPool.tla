---------------------------- MODULE MCThreadPool ----------------------------
(* The thread pool for TLC: every definition is of ThreadPool, the constants *)
(* are in the configurations.                                                *)
EXTENDS ThreadPool
=============================================================================
