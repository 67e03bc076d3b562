------------------------- MODULE MCArchiveStaging -------------------------
(* ArchiveStaging on a small instance. *)
EXTENDS ArchiveStaging, TLC

CONSTANTS k1, k2

Captured == <<"0", "x", "y", "y", "z">>
Replaced == <<"0", "w", "y", "y", "z">>

Fact(source, window, from, to) ==
    [source |-> source, window |-> window, from |-> from, to |-> to]

\* The workers share the first window, each fetches one of the others.
Sent ==
    k1 :> { Fact(Captured, 1, 1, 2), Fact(Captured, 2, 1, 2) } @@
    k2 :> { Fact(Captured, 1, 1, 1), Fact(Replaced, 1, 2, 2), Fact(Captured, 3, 1, 1) }
=============================================================================
