---------------------------- MODULE MCDataStore -----------------------------
(* Small instances of DataStore.tla for TLC.                               *)
EXTENDS DataStore

UnequalSizes == <<2, 1, 2>>

EveryFailure == Failures
ExternalReader == {"extReader"}
=============================================================================
