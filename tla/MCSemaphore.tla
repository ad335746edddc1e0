---------------------------- MODULE MCSemaphore ------------------------------
(* The semaphore for TLC, with the threads of the configuration.             *)
EXTENDS Semaphore
=============================================================================
