---------------------------- MODULE MCSyncAuto ----------------------------
(* SyncAuto on a small instance: the version keys of a few generations. *)
EXTENDS SyncAuto, TLC

CONSTANT MaxGeneration

MCPayloads == [gen : 1..MaxGeneration, text : Texts]

\* A client that only posts and whose requests end with their session, and one
\* that edits and whose requests may be applied late.
Posting == [edits |-> FALSE, orphans |-> 0, faults |-> 2]
Editing == [edits |-> TRUE, orphans |-> 1, faults |-> 1]
BothModes == {Posting, Editing}
PostingOnly == {Posting}
PostingOneFault == {[Posting EXCEPT !.faults = 1]}

\* No action tells the texts apart.
TextSymmetry == Permutations(Texts)
=============================================================================
