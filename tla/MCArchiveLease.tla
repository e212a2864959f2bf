--------------------------- MODULE MCArchiveLease ---------------------------
(* Three workers: two share the identity (n1, d1), as the archive thread and *)
(* a modelled archive of one source do; the third competes from another disk *)
(* of the same node.                                                         *)
EXTENDS ArchiveLease

CONSTANTS w1, w2, w3, n1, d1, d2

MCOwnerOf == [w \in {w1, w2, w3} |-> IF w = w3 THEN d2 ELSE d1]
MCNodeOf == [o \in {d1, d2} |-> n1]
=============================================================================
