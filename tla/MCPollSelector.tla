----------------------------- MODULE MCPollSelector -----------------------------
(* Small instances of PollSelector for TLC. *)
EXTENDS PollSelector, TLC

(* Descriptors are only compared, and so are iterators. *)
Symmetry == Permutations(Fd) \cup Permutations(Iter)

=============================================================================
