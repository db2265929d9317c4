------------------------------ MODULE MCProcesses ------------------------------
(* ProcessParts with the values of its run. *)
EXTENDS ProcessParts, TLC

CONSTANTS a1, a2, b1, b2, l3

(* Two processes, which are also the names of two signals; two functions,  *)
(* which are also the names of two open descriptions.                      *)
SomeProcesses == {a1, a2}
SomeHandlers == {b1, b2}

(* Take and give, or take and wait for zero. *)
SomeOpSets == {{-1, 1}, {-1, 0}}

(* Lengths and offsets on both sides of the size, and of a half of a word  *)
(* in both directions.                                                     *)
SomeLengths == -3 .. 3

(* None, nothing, and a second and two thirds. *)
SomeTimeouts == {-1, 0, 5}

(* One loop more than there are streams. *)
SomeLoops == {a1, a2, l3}

(* Processes, signals and loops are only compared, and so are functions and *)
(* descriptions.                                                           *)
NameSymmetry == Permutations(SomeProcesses) \cup Permutations(SomeHandlers)
=============================================================================
