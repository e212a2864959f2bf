-------------------------- MODULE MCLibraryHandoff --------------------------
(* Instances of LibraryHandoff for TLC. *)
EXTENDS LibraryHandoff, TLC

CONSTANTS a, b, c, i, j

(* The two libraries that start empty are interchangeable. *)
Receivers == Permutations({b, c})
=============================================================================
