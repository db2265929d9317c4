------------------------------- MODULE MCSockets -------------------------------
(* SocketParts with the sockets and sizes of its run. *)
EXTENDS SocketParts, TLC

CONSTANTS o1, o2, o3

SomeObjects == {o1, o2, o3}
ObjectSymmetry == Permutations(SomeObjects)

SomeKinds == {<<"inet", "stream">>, <<"inet", "dgram">>, <<"unix", "stream">>}

(* recv with more than a message and with a part of one; recvmsg never asks *)
(* for more than a message.                                                 *)
SomeReceives ==
  {<<"recv", "stream", 1>>, <<"recv", "stream", 2>>, <<"recv", "dgram", 2>>,
   <<"recvfrom", "dgram", 2>>, <<"recvmsg", "dgram", 1>>}

=============================================================================
