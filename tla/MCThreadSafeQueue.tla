-------------------------- MODULE MCThreadSafeQueue --------------------------
(* Small instances of ThreadSafeQueue.tla for TLC.                         *)
EXTENDS ThreadSafeQueue
=============================================================================
