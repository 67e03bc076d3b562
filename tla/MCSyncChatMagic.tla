------------------------- MODULE MCSyncChatMagic --------------------------
(* SyncChatMagic on a small instance. *)
EXTENDS SyncChatMagic
=============================================================================
