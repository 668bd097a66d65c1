-------------------------- MODULE MCDaemonThreads --------------------------
(* Two paths and a queue of two: the third event finds the queue full.     *)
EXTENDS DaemonThreads

MCPath == {"a", "b"}
=============================================================================
