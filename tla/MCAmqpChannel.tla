---------------------------- MODULE MCAmqpChannel ----------------------------
(* Small instances of AmqpChannel for TLC. *)
EXTENDS AmqpChannel, TLC

(* Channel objects are interchangeable: only compared, never ordered. *)
Symmetry == Permutations(Handle)

=============================================================================
