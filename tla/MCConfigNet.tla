--------------------------- MODULE MCConfigNet ----------------------------
(***************************************************************************)
(* ConfigNet for TLC.  Texts are interchangeable; installs are not, since   *)
(* ties between heads are broken by install id.                            *)
(***************************************************************************)
EXTENDS ConfigNet

TextSymmetry == Permutations(Texts)
=============================================================================
