------------------------------- MODULE MCReadLine -------------------------------
(* ReadLine with the sizes and timeouts of its runs. *)
EXTENDS ReadLine

SomeSizes == {-1, 0, 2}
AnyOrTwo == {-1, 2}
WholeSeconds == {-1, 0, 2}
HalfASecond == {1}
Timed == {0, 2}

=============================================================================
