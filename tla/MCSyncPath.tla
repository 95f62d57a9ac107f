----------------------------- MODULE MCSyncPath -----------------------------
(* An instance of SyncPath: port 1 has the interval of the Syncs, port 2   *)
(* one twice as long.                                                      *)
EXTENDS SyncPath, Sequences

Rates == <<2, 4>>
=============================================================================
