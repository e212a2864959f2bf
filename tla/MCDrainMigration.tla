-------------------------- MODULE MCDrainMigration --------------------------
(* Instances of DrainMigration for TLC. *)
EXTENDS DrainMigration

CONSTANTS a, b, c, f, o1, o2

MCFileOf == [o \in Objects |-> f]
MCHome == [x \in Files |-> a]
=============================================================================
