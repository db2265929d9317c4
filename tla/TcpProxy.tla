------------------------------- MODULE TcpProxy -------------------------------
(***************************************************************************)
(* examples/tcp_proxy.lua: one session of the proxy, in its own process.   *)
(* do_proxy polls both sockets with a PollSelector and hands what it       *)
(* receives from one to the other.  Bytes are counted; that nobody can     *)
(* overtake on a connection keeps their order.                             *)
(***************************************************************************)
EXTENDS Naturals

CONSTANTS
  Timed,     \* the proxy was given a timeout
  Capacity,  \* bound: what the buffers between the proxy and a peer hold
  Chunk      \* the 4096 of recv

ProxyAssumption == Timed \in BOOLEAN /\ {Capacity, Chunk} \subseteq Nat \ {0}

VARIABLES
  pc,        \* where do_proxy is
  transfer,  \* its variable
  todo,      \* the sockets of this poll that the loop has not come to
  reader,    \* the socket the loop is at
  buffer,    \* what was received and not sent yet
  inq, outq, \* what a peer has sent and the proxy has not read, and the reverse
  owed,      \* what each peer has sent and the other has not read, as a history
  peer,      \* each peer: open, half (sends no more), closed
  reset,     \* the connection was reset
  open,      \* the sockets that the proxy has not closed
  ended,     \* the socket whose end has ended the session
  cut        \* connections the proxy has closed in the face of more data

peerVars == <<peer, reset>>
proxyVars == <<transfer, todo, reader, buffer, ended>>
vars == <<pc, proxyVars, inq, outq, owed, peerVars, open, cut>>

\* The client first: that is the order of the selector's array.
Sockets == {"c", "s"}
Other(r) == IF r = "c" THEN "s" ELSE "c"
First(S) == IF "c" \in S THEN "c" ELSE "s"

Over == pc \in {"done", "raised", "killed"}

TypeOK ==
  /\ pc \in {"while", "select", "for", "send", "log", "close", "done", "raised", "killed"}
  /\ transfer \in BOOLEAN /\ todo \subseteq Sockets /\ reader \in Sockets
  /\ buffer \in 0..Chunk /\ (buffer > 0 => pc \in {"send", "killed"})
  /\ {inq, outq} \subseteq [Sockets -> 0..Capacity] /\ owed \in [Sockets -> Nat]
  /\ peer \in [Sockets -> {"open", "half", "closed"}]
  /\ reset \subseteq {r \in Sockets : peer[r] = "closed"}
  /\ open \subseteq Sockets /\ (Over <=> open = {})
  /\ ended \in Sockets \cup {"none"} /\ cut \subseteq Sockets \ open

Init ==
  /\ pc = "while" /\ transfer = TRUE /\ todo = {} /\ reader = "c" /\ buffer = 0 /\ ended = "none"
  /\ inq = [r \in Sockets |-> 0] /\ outq = inq /\ owed = inq
  /\ peer = [r \in Sockets |-> "open"] /\ reset = {}
  /\ open = Sockets /\ cut = {}

-----------------------------------------------------------------------------
(* The peers and their connections. *)

PeerSends(r) ==
  /\ peer[r] = "open" /\ r \in open /\ inq[r] < Capacity
  /\ inq' = [inq EXCEPT ![r] = @ + 1] /\ owed' = [owed EXCEPT ![r] = @ + 1]
  /\ UNCHANGED <<pc, proxyVars, outq, peerVars, open, cut>>

PeerReads(r) ==
  /\ peer[r] # "closed" /\ outq[r] > 0
  /\ outq' = [outq EXCEPT ![r] = @ - 1] /\ owed' = [owed EXCEPT ![Other(r)] = @ - 1]
  /\ UNCHANGED <<pc, proxyVars, inq, peerVars, open, cut>>

PeerEnds(r) ==
  /\ peer[r] # "closed"
  /\ peer' = [peer EXCEPT ![r] = IF @ = "open" THEN "half" ELSE "closed"]
  /\ UNCHANGED <<pc, proxyVars, inq, outq, owed, reset, open, cut>>

(* What reaches a peer that has closed is answered with a reset.            *)
ResetArrives(r) ==
  /\ peer[r] = "closed" /\ outq[r] > 0
  /\ reset' = reset \cup {r} /\ outq' = [outq EXCEPT ![r] = 0]
  /\ UNCHANGED <<pc, proxyVars, inq, owed, peer, open, cut>>

(* So is what a peer sends to a socket that the proxy has closed, and what  *)
(* was still on its way to the peer may be lost.                           *)
PeerSendsLate(r) ==
  /\ peer[r] = "open" /\ r \notin open /\ r \notin cut
  /\ cut' = cut \cup {r}
  /\ \E n \in 0..outq[r] : outq' = [outq EXCEPT ![r] = n]
  /\ UNCHANGED <<pc, proxyVars, inq, owed, peerVars, open>>

-----------------------------------------------------------------------------
(* do_proxy. *)

While ==
  /\ pc = "while"
  /\ pc' = (IF transfer THEN "select" ELSE "close")
  /\ transfer' = FALSE
  /\ UNCHANGED <<todo, reader, buffer, ended, inq, outq, owed, peerVars, open, cut>>

Readable == {r \in Sockets : inq[r] > 0 \/ peer[r] # "open"}

Reported == Readable

(* poll:select(timeout); without an event it waits for one, or for the      *)
(* timeout.                                                                *)
Select ==
  /\ pc = "select" /\ (Readable = {} => Timed)
  /\ pc' = "for" /\ todo' = Reported
  /\ UNCHANGED <<transfer, reader, buffer, ended, inq, outq, owed, peerVars, open, cut>>

(* A mutant of AtEnd: a peer that has ended is not read to the end.         *)
AtEndHalf(r) == peer[r] # "open"

(* recv gives nothing. *)
AtEnd(r) == inq[r] = 0

Received(r) == IF inq[r] < Chunk THEN inq[r] ELSE Chunk

(* recv(4096). *)
Receive ==
  LET r == First(todo) IN
  /\ pc = "for" /\ todo # {} /\ ~AtEnd(r)
  /\ pc' = "send" /\ reader' = r /\ todo' = todo \ {r}
  /\ buffer' = Received(r)
  /\ inq' = [inq EXCEPT ![r] = IF @ < Chunk THEN 0 ELSE @ - Chunk]
  /\ UNCHANGED <<transfer, ended, outq, owed, peerVars, open, cut>>

(* The end of the stream, or its reset. *)
EndOfStream ==
  LET r == First(todo) IN
  /\ pc = "for" /\ todo # {} /\ AtEnd(r)
  /\ pc' = "while" /\ transfer' = FALSE /\ reader' = r /\ todo' = {} /\ ended' = r
  /\ UNCHANGED <<buffer, inq, outq, owed, peerVars, open, cut>>

ForEnds ==
  /\ pc = "for" /\ todo = {}
  /\ pc' = "while"
  /\ UNCHANGED <<proxyVars, inq, outq, owed, peerVars, open, cut>>

(* A blocking send puts the bytes into the connection as it has room. *)
Send ==
  LET w == Other(reader) IN
  /\ pc = "send" /\ buffer > 0 /\ w \notin reset /\ outq[w] < Capacity
  /\ outq' = [outq EXCEPT ![w] = @ + 1] /\ buffer' = buffer - 1
  /\ UNCHANGED <<pc, transfer, todo, reader, ended, inq, owed, peerVars, open, cut>>

(* What send returns is not looked at. *)
Sent ==
  /\ pc = "send" /\ (buffer = 0 \/ Other(reader) \in reset)
  /\ pc' = "log" /\ transfer' = TRUE /\ buffer' = 0
  /\ UNCHANGED <<todo, reader, ended, inq, outq, owed, peerVars, open, cut>>

(* SIGPIPE ends the process, and the kernel closes its sockets. *)
Killed ==
  /\ pc = "send" /\ buffer > 0 /\ Other(reader) \in reset
  /\ pc' = "killed" /\ open' = {}
  /\ cut' = cut \cup {r \in Sockets : inq[r] > 0}
  /\ UNCHANGED <<proxyVars, inq, outq, owed, peerVars>>

(* getpeername has an answer only while there is a connection. *)
Log ==
  /\ pc = "log"
  /\ IF reset = {} THEN pc' = "for" /\ UNCHANGED <<open, cut>>
     ELSE pc' = "raised" /\ open' = {} /\ cut' = cut \cup {r \in Sockets : inq[r] > 0}
  /\ UNCHANGED <<proxyVars, inq, outq, owed, peerVars>>

(* c:close() and s:close().  A connection closed with unread data is reset, *)
(* and loses what has not left the proxy.                                  *)
Close ==
  LET r == First(open) IN
  /\ pc = "close"
  /\ open' = open \ {r} /\ pc' = (IF open' = {} THEN "done" ELSE "close")
  /\ IF inq[r] = 0 THEN UNCHANGED <<cut, outq>>
     ELSE cut' = cut \cup {r} /\ \E n \in 0..outq[r] : outq' = [outq EXCEPT ![r] = n]
  /\ UNCHANGED <<proxyVars, inq, owed, peerVars>>

Proxy == While \/ Select \/ Receive \/ EndOfStream \/ ForEnds \/ Send \/ Sent \/ Killed \/ Log \/ Close

Network == \E r \in Sockets : ResetArrives(r)

Next ==
  \/ Proxy \/ Network
  \/ \E r \in Sockets : PeerSends(r) \/ PeerReads(r) \/ PeerEnds(r) \/ PeerSendsLate(r)

Spec == Init /\ [][Next]_vars

(* The proxy and the network go on, and both peers read what they are sent. *)
FairSpec ==
  /\ Spec /\ WF_vars(Proxy) /\ WF_vars(Network)
  /\ \A r \in Sockets : WF_vars(PeerReads(r))

-----------------------------------------------------------------------------
(* Properties. *)

Held(r) == IF reader = r THEN buffer ELSE 0

(* Nothing that one peer sends is lost or doubled on the way to the other   *)
(* while that one reads: it is in a queue, in the proxy's hands, or read.   *)
(* Only a peer that closes, or a connection closed in the face of more      *)
(* data, loses some.                                                       *)
NothingLost ==
  \A r \in Sockets :
    peer[Other(r)] # "closed" /\ Other(r) \notin cut =>
      owed[r] = inq[r] + Held(r) + outq[Other(r)]

(* The end of one direction ends the session.  That direction is complete:  *)
(* the other peer can read all that was sent; of the opposite direction     *)
(* what was not read yet is lost.                                          *)
EndedIsForwarded ==
  \A r \in Sockets :
    ended = r /\ peer[Other(r)] # "closed" /\ Other(r) \notin cut =>
      owed[r] = outq[Other(r)]

(* As long as both peers read, neither direction waits for the other: what  *)
(* has arrived is received, or the session is over.                        *)
Forwarded == \A r \in Sockets : inq[r] > 0 ~> inq[r] = 0 \/ Over

(* What every state of the component keeps. *)
Safety == TypeOK /\ NothingLost /\ EndedIsForwarded

-----------------------------------------------------------------------------
(* The inductive invariant behind the safety properties. *)

(* Nothing comes out of the connections that did not go in. *)
NothingMade == \A r \in Sockets : owed[r] >= inq[r] + Held(r) + outq[Other(r)]

(* What the selector reported stays readable until the loop comes to it. *)
TodoIsReadable == todo \subseteq Readable

(* The end of a stream is seen behind its last byte, and the session ends. *)
EndIsLast ==
  \A r \in Sockets :
    ended = r =>
      /\ inq[r] = 0 /\ peer[r] # "open"
      /\ pc \in {"while", "close", "done"} /\ (pc = "while" => ~transfer)

IInv == TypeOK /\ NothingLost /\ NothingMade /\ TodoIsReadable /\ EndIsLast

=============================================================================
