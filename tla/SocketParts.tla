------------------------------- MODULE SocketParts -----------------------------
(***************************************************************************)
(* What the library and its scripts do with sockets, each component by     *)
(* itself: a behaviour is one of the component that part names, and the    *)
(* others stay as they begin.                                              *)
(***************************************************************************)
EXTENDS Naturals

CONSTANTS
  Objects, MaxFd, Kinds, Receives, Stdin, Sizes, MaxQueue,   \* of SocketLife
  Timed, Capacity, Chunk,                                    \* of TcpProxy
  Length, MaxRequests                                        \* of HttpClient

VARIABLES
  part,
  sockfd, kind, file, told, balance, refused, undefined,
  proxyPc, transfer, todo, reader, buffer, inq, outq, owed, peer, reset, open, ended, cut,
  httpPc, closed, request, response, wire, script, gone, spoiled

socketVars == <<sockfd, kind, file, told, balance, refused, undefined>>
proxyVars == <<proxyPc, transfer, todo, reader, buffer, inq, outq, owed, peer, reset, open, ended, cut>>
httpVars == <<httpPc, closed, request, response, wire, script, gone, spoiled>>

Socket == INSTANCE SocketLife
Proxy == INSTANCE TcpProxy WITH pc <- proxyPc
Http == INSTANCE HttpClient WITH pc <- httpPc

ASSUME Assumptions == Socket!SocketAssumption /\ Proxy!ProxyAssumption /\ Http!HttpAssumption

Only(name) == part = name /\ UNCHANGED part

Init ==
  /\ part \in {"sockets", "proxy", "http"}
  /\ Socket!Init /\ Proxy!Init /\ Http!Init

Next ==
  \/ Only("sockets") /\ Socket!Next /\ UNCHANGED <<proxyVars, httpVars>>
  \/ Only("proxy") /\ Proxy!Next /\ UNCHANGED <<socketVars, httpVars>>
  \/ Only("http") /\ Http!Next /\ UNCHANGED <<socketVars, proxyVars>>

vars == <<part, socketVars, proxyVars, httpVars>>

Spec == Init /\ [][Next]_vars

(* lsocklib.c: an open socket object has a live descriptor that is its own, *)
(* which close and the collector give back; the end of a stream is reported *)
(* only when nothing more comes, and every byte taken is given.            *)
SocketSafety == part = "sockets" => Socket!Safety

(* tcp_proxy.lua: nothing that a peer sends is lost or doubled on its way, and*)
(* the direction whose end ends the session is complete.                   *)
ProxySafety == part = "proxy" => Proxy!Safety

(* http.lua: a response answers the latest request, and a connection that is*)
(* kept has nothing left on it.                                            *)
HttpSafety == part = "http" => Http!Safety
=============================================================================
