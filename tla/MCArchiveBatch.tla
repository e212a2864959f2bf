--------------------------- MODULE MCArchiveBatch ---------------------------
(***************************************************************************)
(* Two files, one of two objects, that fill a disc together.                *)
(***************************************************************************)
EXTENDS ArchiveBatch

CONSTANTS file, other, part1, part2, whole

MCFiles == {file, other}
MCObjects == {part1, part2, whole}
MCObjectsOf == [x \in MCFiles |-> IF x = file THEN <<part1, part2>> ELSE <<whole>>]
MCSizeOf == [o \in MCObjects |-> 1]
=============================================================================
