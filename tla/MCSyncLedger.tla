--------------------------- MODULE MCSyncLedger ---------------------------
(* SyncLedger on a small instance. *)
EXTENDS SyncLedger, TLC

\* No action tells the payloads apart.
PayloadSymmetry == Permutations(Payloads)
=============================================================================
