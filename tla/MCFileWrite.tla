---------------------------- MODULE MCFileWrite -----------------------------
(* Instances of FileWrite for TLC. *)
EXTENDS FileWrite, TLC

CONSTANTS c1, c2

MCSymmetry == Permutations(Clients)
=============================================================================
