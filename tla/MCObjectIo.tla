----------------------------- MODULE MCObjectIo -----------------------------
(* An instance of ObjectIo for TLC: a call with two slices on one disk, and *)
(* one with a slice on another disk.                                        *)
EXTENDS ObjectIo

CONSTANTS p, q, s1, s2, s3, d1, d2

MCSlicesOf == [o \in Ops |-> IF o = p THEN <<s1, s2>> ELSE <<s3>>]
MCLengthOf == [s \in Slices |-> 1]
MCDiskOf == [s \in Slices |-> IF s = s3 THEN d2 ELSE d1]
=============================================================================
