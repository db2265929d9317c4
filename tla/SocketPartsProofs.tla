--------------------------- MODULE SocketPartsProofs ---------------------------
(* The safety properties of SocketLife, TcpProxy and HttpClient, for every  *)
(* value of their constants, as the parts of SocketParts.                   *)
EXTENDS SocketParts, SequenceTheorems, WellFoundedInduction, TLAPS

-----------------------------------------------------------------------------
(* The proxy: its two connections. *)

(* Each socket has another, and the loop takes one that it was given. *)
LEMMA TwoSockets ==
  /\ \A r \in Proxy!Sockets :
       /\ Proxy!Other(r) \in Proxy!Sockets /\ Proxy!Other(r) # r /\ Proxy!Other(Proxy!Other(r)) = r
       /\ \A q \in Proxy!Sockets : q = r \/ q = Proxy!Other(r)
  /\ \A S : S \subseteq Proxy!Sockets /\ S # {} => Proxy!First(S) \in S
BY DEF Proxy!Sockets, Proxy!Other, Proxy!First

(* The invariant of the proxy holds as it begins. *)
LEMMA ProxyInit == Proxy!Init => Proxy!IInv
<1> SUFFICES ASSUME Proxy!Init PROVE Proxy!IInv
  OBVIOUS
<1>1. Capacity \in Nat \ {0} /\ Chunk \in Nat \ {0}
  BY Assumptions DEF Proxy!ProxyAssumption
<1>2. /\ inq = [r \in Proxy!Sockets |-> 0] /\ outq = inq /\ owed = inq /\ buffer = 0
      /\ todo = {} /\ ended = "none" /\ cut = {}
  BY DEF Proxy!Init
<1>3. Proxy!TypeOK
  BY <1>1 DEF Proxy!Init, Proxy!TypeOK, Proxy!Sockets, Proxy!Over
<1>4. Proxy!NothingLost /\ Proxy!NothingMade
  BY <1>2, TwoSockets DEF Proxy!NothingLost, Proxy!NothingMade, Proxy!Held
<1>5. Proxy!TodoIsReadable /\ Proxy!EndIsLast
  BY <1>2 DEF Proxy!TodoIsReadable, Proxy!EndIsLast, Proxy!Sockets
<1> QED
  BY <1>3, <1>4, <1>5 DEF Proxy!IInv

(* What the queues hold. *)
LEMMA Queues ==
  ASSUME Proxy!TypeOK
  PROVE  /\ Capacity \in Nat \ {0} /\ Chunk \in Nat \ {0}
         /\ inq \in [Proxy!Sockets -> 0..Capacity] /\ outq \in [Proxy!Sockets -> 0..Capacity]
         /\ owed \in [Proxy!Sockets -> Nat] /\ buffer \in 0..Chunk /\ reader \in Proxy!Sockets
         /\ \A r \in Proxy!Sockets : /\ inq[r] \in Nat /\ outq[r] \in Nat /\ owed[r] \in Nat
                                     /\ Proxy!Held(r) \in Nat
  BY Assumptions DEF Proxy!TypeOK, Proxy!ProxyAssumption, Proxy!Held

(* A step of a peer or of the network, which only moves bytes: what is      *)
(* known of the program stays.                                              *)
LEMMA ProxyKeeps ==
  ASSUME Proxy!IInv, UNCHANGED <<proxyPc, Proxy!proxyVars>>,
         \A r \in Proxy!Sockets : /\ inq'[r] >= inq[r] /\ (inq'[r] > inq[r] => peer[r] = "open")
                                  /\ (peer[r] # "open" => peer'[r] # "open"),
         inq' \in [Proxy!Sockets -> 0..Capacity]
  PROVE  Proxy!TodoIsReadable' /\ Proxy!EndIsLast'
<1>1. /\ inq \in [Proxy!Sockets -> 0..Capacity] /\ Capacity \in Nat
  BY Queues DEF Proxy!IInv
<1>2. Proxy!TodoIsReadable'
  BY <1>1 DEF Proxy!IInv, Proxy!TodoIsReadable, Proxy!Readable, Proxy!proxyVars
<1>3. Proxy!EndIsLast'
  BY <1>1 DEF Proxy!IInv, Proxy!EndIsLast, Proxy!proxyVars
<1> QED
  BY <1>2, <1>3

(* A byte that a peer sends is owed to the other. *)
LEMMA PeerSendsInv ==
  ASSUME Proxy!IInv, NEW r \in Proxy!Sockets, Proxy!PeerSends(r)
  PROVE  Proxy!IInv'
<1>1. Proxy!TypeOK
  BY DEF Proxy!IInv
<1>2. /\ peer[r] = "open" /\ inq[r] < Capacity
      /\ inq' = [inq EXCEPT ![r] = @ + 1] /\ owed' = [owed EXCEPT ![r] = @ + 1]
      /\ UNCHANGED <<proxyPc, transfer, todo, reader, buffer, ended, outq, peer, reset, open, cut>>
  BY DEF Proxy!PeerSends, Proxy!proxyVars, Proxy!peerVars
<1>3. inq' \in [Proxy!Sockets -> 0..Capacity] /\ owed' \in [Proxy!Sockets -> Nat]
  BY <1>1, <1>2, Queues
<1>4. Proxy!TypeOK'
  BY <1>1, <1>2, <1>3 DEF Proxy!TypeOK, Proxy!Over
<1>5. Proxy!NothingLost' /\ Proxy!NothingMade'
  BY <1>1, <1>2, Queues, TwoSockets DEF Proxy!IInv, Proxy!NothingLost, Proxy!NothingMade, Proxy!Held
<1>6. Proxy!TodoIsReadable' /\ Proxy!EndIsLast'
  BY <1>1, <1>2, <1>3, Queues, ProxyKeeps DEF Proxy!proxyVars
<1> QED
  BY <1>4, <1>5, <1>6 DEF Proxy!IInv

(* A byte that a peer reads is owed to it no more. *)
LEMMA PeerReadsInv ==
  ASSUME Proxy!IInv, NEW r \in Proxy!Sockets, Proxy!PeerReads(r)
  PROVE  Proxy!IInv'
<1>1. Proxy!TypeOK
  BY DEF Proxy!IInv
<1>2. PICK q \in Proxy!Sockets : q = Proxy!Other(r) /\ r = Proxy!Other(q) /\ q # r
  BY TwoSockets
<1>3. /\ outq[r] > 0 /\ outq' = [outq EXCEPT ![r] = @ - 1] /\ owed' = [owed EXCEPT ![q] = @ - 1]
      /\ UNCHANGED <<proxyPc, transfer, todo, reader, buffer, ended, inq, peer, reset, open, cut>>
  BY <1>2 DEF Proxy!PeerReads, Proxy!proxyVars, Proxy!peerVars
<1>4. owed[q] >= outq[r]
  BY <1>1, <1>2, Queues DEF Proxy!IInv, Proxy!NothingMade
<1>5. outq' \in [Proxy!Sockets -> 0..Capacity] /\ owed' \in [Proxy!Sockets -> Nat]
  BY <1>1, <1>3, <1>4, Queues
<1>6. Proxy!TypeOK'
  BY <1>1, <1>3, <1>5 DEF Proxy!TypeOK, Proxy!Over
<1>7. Proxy!NothingLost' /\ Proxy!NothingMade'
  <2>1. ASSUME NEW p \in Proxy!Sockets
        PROVE  /\ outq'[Proxy!Other(p)] = outq[Proxy!Other(p)] - (IF p = q THEN 1 ELSE 0)
               /\ owed'[p] = owed[p] - (IF p = q THEN 1 ELSE 0)
    <3>1. /\ outq'[r] = outq[r] - 1 /\ outq'[q] = outq[q] /\ outq[q] \in Nat
          /\ owed'[q] = owed[q] - 1 /\ owed'[r] = owed[r] /\ owed[r] \in Nat
      BY <1>1, <1>2, <1>3, Queues
    <3>2. CASE p = q
      BY <1>2, <3>1, <3>2
    <3>3. CASE p = r
      BY <1>2, <3>1, <3>3
    <3> QED
      BY <1>2, <3>2, <3>3, TwoSockets
  <2> QED
    BY <1>1, <1>3, <2>1, Queues, TwoSockets DEF Proxy!IInv, Proxy!NothingLost, Proxy!NothingMade, Proxy!Held
<1>8. Proxy!TodoIsReadable' /\ Proxy!EndIsLast'
  BY <1>1, <1>3, Queues, ProxyKeeps DEF Proxy!proxyVars
<1> QED
  BY <1>6, <1>7, <1>8 DEF Proxy!IInv

(* A peer that ends sends nothing more. *)
LEMMA PeerEndsInv ==
  ASSUME Proxy!IInv, NEW r \in Proxy!Sockets, Proxy!PeerEnds(r)
  PROVE  Proxy!IInv'
<1>1. Proxy!TypeOK
  BY DEF Proxy!IInv
<1>2. /\ peer[r] # "closed" /\ peer' = [peer EXCEPT ![r] = IF @ = "open" THEN "half" ELSE "closed"]
      /\ UNCHANGED <<proxyPc, transfer, todo, reader, buffer, ended, inq, outq, owed, reset, open, cut>>
  BY DEF Proxy!PeerEnds, Proxy!proxyVars
<1>3. /\ peer' \in [Proxy!Sockets -> {"open", "half", "closed"}]
      /\ \A q \in Proxy!Sockets : peer[q] # "open" => peer'[q] # "open"
      /\ \A q \in Proxy!Sockets : peer[q] = "closed" => peer'[q] = "closed"
  BY <1>1, <1>2 DEF Proxy!TypeOK
<1>4. Proxy!TypeOK'
  BY <1>1, <1>2, <1>3 DEF Proxy!TypeOK, Proxy!Over
<1>5. Proxy!NothingLost' /\ Proxy!NothingMade'
  BY <1>2, <1>3, TwoSockets DEF Proxy!IInv, Proxy!NothingLost, Proxy!NothingMade, Proxy!Held
<1>6. Proxy!TodoIsReadable' /\ Proxy!EndIsLast'
  BY <1>1, <1>2, <1>3, Queues, ProxyKeeps DEF Proxy!proxyVars
<1> QED
  BY <1>4, <1>5, <1>6 DEF Proxy!IInv

(* A reset takes what was on its way to a peer that has closed. *)
LEMMA ResetArrivesInv ==
  ASSUME Proxy!IInv, NEW r \in Proxy!Sockets, Proxy!ResetArrives(r)
  PROVE  Proxy!IInv'
<1>1. Proxy!TypeOK
  BY DEF Proxy!IInv
<1>2. /\ peer[r] = "closed" /\ reset' = reset \cup {r} /\ outq' = [outq EXCEPT ![r] = 0]
      /\ UNCHANGED <<proxyPc, transfer, todo, reader, buffer, ended, inq, owed, peer, open, cut>>
  BY DEF Proxy!ResetArrives, Proxy!proxyVars
<1>3. /\ outq' \in [Proxy!Sockets -> 0..Capacity]
      /\ \A q \in Proxy!Sockets : outq'[q] <= outq[q] /\ (peer[q] # "closed" => outq'[q] = outq[q])
  BY <1>1, <1>2, Queues
<1>4. Proxy!TypeOK'
  BY <1>1, <1>2, <1>3 DEF Proxy!TypeOK, Proxy!Over
<1>5. Proxy!NothingLost' /\ Proxy!NothingMade'
  BY <1>1, <1>2, <1>3, Queues, TwoSockets DEF Proxy!IInv, Proxy!NothingLost, Proxy!NothingMade, Proxy!Held
<1>6. Proxy!TodoIsReadable' /\ Proxy!EndIsLast'
  BY <1>1, <1>2, Queues, ProxyKeeps DEF Proxy!proxyVars
<1> QED
  BY <1>4, <1>5, <1>6 DEF Proxy!IInv

(* What comes for a socket that the proxy has closed cuts that connection. *)
LEMMA PeerSendsLateInv ==
  ASSUME Proxy!IInv, NEW r \in Proxy!Sockets, Proxy!PeerSendsLate(r)
  PROVE  Proxy!IInv'
<1>1. Proxy!TypeOK
  BY DEF Proxy!IInv
<1>2. /\ r \notin open /\ cut' = cut \cup {r}
      /\ UNCHANGED <<proxyPc, transfer, todo, reader, buffer, ended, inq, owed, peer, reset, open>>
  BY DEF Proxy!PeerSendsLate, Proxy!proxyVars, Proxy!peerVars
<1>3. PICK n \in 0..outq[r] : outq' = [outq EXCEPT ![r] = n]
  BY DEF Proxy!PeerSendsLate
<1>4. /\ outq' \in [Proxy!Sockets -> 0..Capacity]
      /\ \A q \in Proxy!Sockets : outq'[q] <= outq[q] /\ (q # r => outq'[q] = outq[q])
  BY <1>1, <1>3, Queues
<1>5. Proxy!TypeOK'
  BY <1>1, <1>2, <1>4 DEF Proxy!TypeOK, Proxy!Over
<1>6. Proxy!NothingLost' /\ Proxy!NothingMade'
  BY <1>1, <1>2, <1>4, Queues, TwoSockets DEF Proxy!IInv, Proxy!NothingLost, Proxy!NothingMade, Proxy!Held
<1>7. Proxy!TodoIsReadable' /\ Proxy!EndIsLast'
  BY <1>1, <1>2, Queues, ProxyKeeps DEF Proxy!proxyVars
<1> QED
  BY <1>5, <1>6, <1>7 DEF Proxy!IInv

-----------------------------------------------------------------------------
(* The proxy: do_proxy. *)

(* A step that moves no byte. *)
LEMMA NothingMoves ==
  ASSUME Proxy!IInv, UNCHANGED <<inq, outq, owed, peer, reader, buffer>>, cut \subseteq cut'
  PROVE  Proxy!NothingLost' /\ Proxy!NothingMade'
BY TwoSockets DEF Proxy!IInv, Proxy!NothingLost, Proxy!NothingMade, Proxy!Held

(* Before the end of a stream the session has no end. *)
LEMMA NotEnded ==
  ASSUME Proxy!IInv, proxyPc \notin {"close", "done"}, proxyPc = "while" => transfer
  PROVE  ended = "none"
BY DEF Proxy!IInv, Proxy!TypeOK, Proxy!EndIsLast

(* The loop begins again, or ends the session. *)
LEMMA WhileInv ==
  ASSUME Proxy!IInv, Proxy!While
  PROVE  Proxy!IInv'
<1>1. /\ proxyPc = "while" /\ proxyPc' = (IF transfer THEN "select" ELSE "close") /\ transfer' = FALSE
      /\ UNCHANGED <<todo, reader, buffer, ended, inq, outq, owed, peer, reset, open, cut>>
  BY DEF Proxy!While, Proxy!peerVars
<1>2. Proxy!TypeOK'
  BY <1>1 DEF Proxy!IInv, Proxy!TypeOK, Proxy!Over
<1>3. Proxy!NothingLost' /\ Proxy!NothingMade'
  BY <1>1, NothingMoves
<1>4. Proxy!TodoIsReadable'
  BY <1>1 DEF Proxy!IInv, Proxy!TodoIsReadable, Proxy!Readable
<1>5. Proxy!EndIsLast'
  BY <1>1, NotEnded DEF Proxy!IInv, Proxy!EndIsLast, Proxy!Sockets
<1> QED
  BY <1>2, <1>3, <1>4, <1>5 DEF Proxy!IInv

(* select names sockets that have something to read. *)
LEMMA SelectInv ==
  ASSUME Proxy!IInv, Proxy!Select
  PROVE  Proxy!IInv'
<1>1. /\ proxyPc = "select" /\ proxyPc' = "for" /\ todo' = Proxy!Readable
      /\ UNCHANGED <<transfer, reader, buffer, ended, inq, outq, owed, peer, reset, open, cut>>
  BY DEF Proxy!Select, Proxy!Reported, Proxy!peerVars
<1>2. Proxy!Readable \subseteq Proxy!Sockets
  BY DEF Proxy!Readable
<1>3. Proxy!TypeOK'
  BY <1>1, <1>2 DEF Proxy!IInv, Proxy!TypeOK, Proxy!Over
<1>4. Proxy!NothingLost' /\ Proxy!NothingMade'
  BY <1>1, NothingMoves
<1>5. Proxy!TodoIsReadable'
  BY <1>1 DEF Proxy!TodoIsReadable, Proxy!Readable
<1>6. Proxy!EndIsLast'
  BY <1>1, NotEnded DEF Proxy!EndIsLast, Proxy!Sockets
<1> QED
  BY <1>3, <1>4, <1>5, <1>6 DEF Proxy!IInv

(* What is received goes from the queue into the buffer. *)
LEMMA ReceiveInv ==
  ASSUME Proxy!IInv, Proxy!Receive
  PROVE  Proxy!IInv'
<1>1. Proxy!TypeOK /\ buffer = 0
  BY DEF Proxy!IInv, Proxy!TypeOK, Proxy!Receive
<1>2. todo # {} /\ todo \subseteq Proxy!Sockets
  BY <1>1 DEF Proxy!Receive, Proxy!TypeOK
<1>3. PICK r \in todo : r = Proxy!First(todo)
  BY <1>2, TwoSockets
<1>4. /\ proxyPc = "for" /\ inq[r] # 0 /\ proxyPc' = "send" /\ reader' = r /\ todo' = todo \ {r}
      /\ buffer' = Proxy!Received(r)
      /\ inq' = [inq EXCEPT ![r] = IF @ < Chunk THEN 0 ELSE @ - Chunk]
      /\ UNCHANGED <<transfer, ended, outq, owed, peer, reset, open, cut>>
  BY <1>3 DEF Proxy!Receive, Proxy!AtEnd, Proxy!peerVars
<1>5. r \in Proxy!Sockets
  BY <1>2, <1>3
<1>6. /\ buffer' \in 0..Chunk /\ inq' \in [Proxy!Sockets -> 0..Capacity]
      /\ inq[r] = inq'[r] + buffer'
      /\ \A q \in Proxy!Sockets : q # r => inq'[q] = inq[q]
  BY <1>1, <1>4, <1>5, Queues DEF Proxy!Received
<1>7. Proxy!TypeOK'
  BY <1>1, <1>4, <1>5, <1>6 DEF Proxy!TypeOK, Proxy!Over
<1>8. ASSUME NEW q \in Proxy!Sockets
      PROVE  inq'[q] + Proxy!Held(q)' = inq[q] + Proxy!Held(q)
  <2>1. Proxy!Held(q) = 0 /\ Proxy!Held(q)' = (IF q = r THEN buffer' ELSE 0)
    BY <1>1, <1>4 DEF Proxy!Held
  <2>2. inq[q] \in Nat /\ inq'[q] \in Nat /\ buffer' \in Nat
    BY <1>1, <1>6, Queues
  <2> QED
    BY <1>6, <2>1, <2>2
<1>9. Proxy!NothingLost' /\ Proxy!NothingMade'
  BY <1>4, <1>8, TwoSockets DEF Proxy!IInv, Proxy!NothingLost, Proxy!NothingMade
<1>10. Proxy!TodoIsReadable'
  BY <1>4, <1>6 DEF Proxy!IInv, Proxy!TodoIsReadable, Proxy!Readable
<1>11. Proxy!EndIsLast'
  BY <1>4, NotEnded DEF Proxy!EndIsLast, Proxy!Sockets
<1> QED
  BY <1>7, <1>9, <1>10, <1>11 DEF Proxy!IInv

(* An end that is received comes after everything before it. *)
LEMMA EndOfStreamInv ==
  ASSUME Proxy!IInv, Proxy!EndOfStream
  PROVE  Proxy!IInv'
<1>1. Proxy!TypeOK
  BY DEF Proxy!IInv
<1>2. todo # {} /\ todo \subseteq Proxy!Sockets
  BY <1>1 DEF Proxy!EndOfStream, Proxy!TypeOK
<1>3. PICK r \in todo : r = Proxy!First(todo)
  BY <1>2, TwoSockets
<1>4. /\ proxyPc = "for" /\ inq[r] = 0
      /\ proxyPc' = "while" /\ transfer' = FALSE /\ reader' = r /\ todo' = {} /\ ended' = r
      /\ UNCHANGED <<buffer, inq, outq, owed, peer, reset, open, cut>>
  BY <1>3 DEF Proxy!EndOfStream, Proxy!AtEnd, Proxy!peerVars
<1>5. r \in Proxy!Sockets /\ peer[r] # "open" /\ buffer = 0
  BY <1>1, <1>2, <1>3, <1>4 DEF Proxy!IInv, Proxy!TodoIsReadable, Proxy!Readable, Proxy!TypeOK
<1>6. Proxy!TypeOK'
  BY <1>1, <1>4, <1>5 DEF Proxy!TypeOK, Proxy!Over
<1>7. \A q \in Proxy!Sockets : Proxy!Held(q)' = 0 /\ Proxy!Held(q) = 0
  BY <1>4, <1>5 DEF Proxy!Held
<1>8. Proxy!NothingLost' /\ Proxy!NothingMade'
  BY <1>4, <1>7, TwoSockets DEF Proxy!IInv, Proxy!NothingLost, Proxy!NothingMade
<1>9. Proxy!TodoIsReadable'
  BY <1>4 DEF Proxy!TodoIsReadable
<1>10. Proxy!EndIsLast'
  BY <1>4, <1>5 DEF Proxy!EndIsLast
<1> QED
  BY <1>6, <1>8, <1>9, <1>10 DEF Proxy!IInv

(* The last socket of a round was looked at. *)
LEMMA ForEndsInv ==
  ASSUME Proxy!IInv, Proxy!ForEnds
  PROVE  Proxy!IInv'
<1>1. /\ proxyPc = "for" /\ proxyPc' = "while"
      /\ UNCHANGED <<transfer, todo, reader, buffer, ended, inq, outq, owed, peer, reset, open, cut>>
  BY DEF Proxy!ForEnds, Proxy!proxyVars, Proxy!peerVars
<1>2. Proxy!TypeOK'
  BY <1>1 DEF Proxy!IInv, Proxy!TypeOK, Proxy!Over
<1>3. Proxy!NothingLost' /\ Proxy!NothingMade'
  BY <1>1, NothingMoves
<1>4. Proxy!TodoIsReadable'
  BY <1>1 DEF Proxy!IInv, Proxy!TodoIsReadable, Proxy!Readable
<1>5. Proxy!EndIsLast'
  BY <1>1, NotEnded DEF Proxy!EndIsLast, Proxy!Sockets
<1> QED
  BY <1>2, <1>3, <1>4, <1>5 DEF Proxy!IInv

(* What is sent goes from the buffer into the other queue. *)
LEMMA SendInv ==
  ASSUME Proxy!IInv, Proxy!Send
  PROVE  Proxy!IInv'
<1>1. Proxy!TypeOK /\ reader \in Proxy!Sockets
  BY DEF Proxy!IInv, Proxy!TypeOK
<1>2. PICK w \in Proxy!Sockets : w = Proxy!Other(reader) /\ w # reader /\ reader = Proxy!Other(w)
  BY <1>1, TwoSockets
<1>3. /\ proxyPc = "send" /\ buffer > 0 /\ outq[w] < Capacity
      /\ outq' = [outq EXCEPT ![w] = @ + 1] /\ buffer' = buffer - 1
      /\ UNCHANGED <<proxyPc, transfer, todo, reader, ended, inq, owed, peer, reset, open, cut>>
  BY <1>2 DEF Proxy!Send, Proxy!peerVars
<1>4. outq' \in [Proxy!Sockets -> 0..Capacity] /\ buffer' \in 0..Chunk
  BY <1>1, <1>3, Queues
<1>5. Proxy!TypeOK'
  BY <1>1, <1>3, <1>4 DEF Proxy!TypeOK, Proxy!Over
<1>6. \A q \in Proxy!Sockets :
        Proxy!Held(q)' + outq'[Proxy!Other(q)] = Proxy!Held(q) + outq[Proxy!Other(q)]
  <2> SUFFICES ASSUME NEW q \in Proxy!Sockets
               PROVE  Proxy!Held(q)' + outq'[Proxy!Other(q)] = Proxy!Held(q) + outq[Proxy!Other(q)]
    OBVIOUS
  <2>1. buffer \in Nat /\ outq[w] \in Nat /\ outq'[w] = outq[w] + 1 /\ outq'[reader] = outq[reader]
    <3>1. outq \in [Proxy!Sockets -> 0..Capacity] /\ outq[w] \in Nat /\ buffer \in 0..Chunk /\ Chunk \in Nat
      BY <1>1, Queues
    <3>2. reader \in DOMAIN outq /\ w \in DOMAIN outq
      BY <1>1, <3>1
    <3>3. outq'[w] = outq[w] + 1 /\ outq'[reader] = outq[reader]
      BY <1>2, <1>3, <3>2
    <3> QED
      BY <3>1, <3>3
  <2>2. CASE q = reader
    BY <1>2, <1>3, <2>1, <2>2 DEF Proxy!Held
  <2>3. CASE q = w
    BY <1>2, <1>3, <2>1, <2>3 DEF Proxy!Held
  <2> QED
    BY <1>2, <2>2, <2>3, TwoSockets
<1>7. Proxy!NothingLost' /\ Proxy!NothingMade'
  <2>1. \A q \in Proxy!Sockets : /\ Proxy!Held(q)' \in Nat /\ outq'[Proxy!Other(q)] \in Nat
                                 /\ outq[Proxy!Other(q)] \in Nat
    BY <1>1, <1>4, Queues, TwoSockets DEF Proxy!Held
  <2>2. ASSUME NEW q \in Proxy!Sockets
        PROVE  inq'[q] + Proxy!Held(q)' + outq'[Proxy!Other(q)]
                 = inq[q] + Proxy!Held(q) + outq[Proxy!Other(q)]
    <3>1. inq[q] \in Nat /\ Proxy!Held(q) \in Nat /\ inq' = inq
      BY <1>1, <1>3, Queues
    <3> QED
      BY <1>6, <2>1, <3>1
  <2> QED
    BY <1>3, <2>2 DEF Proxy!IInv, Proxy!NothingLost, Proxy!NothingMade
<1>8. Proxy!TodoIsReadable'
  BY <1>3 DEF Proxy!IInv, Proxy!TodoIsReadable, Proxy!Readable
<1>9. Proxy!EndIsLast'
  BY <1>3, NotEnded DEF Proxy!EndIsLast, Proxy!Sockets
<1> QED
  BY <1>5, <1>7, <1>8, <1>9 DEF Proxy!IInv

(* What is left when the connection was reset is lost, and only then. *)
LEMMA SentInv ==
  ASSUME Proxy!IInv, Proxy!Sent
  PROVE  Proxy!IInv'
<1>1. Proxy!TypeOK /\ reader \in Proxy!Sockets
  BY DEF Proxy!IInv, Proxy!TypeOK
<1>2. /\ proxyPc = "send" /\ (buffer = 0 \/ Proxy!Other(reader) \in reset)
      /\ proxyPc' = "log" /\ transfer' = TRUE /\ buffer' = 0
      /\ UNCHANGED <<todo, reader, ended, inq, outq, owed, peer, reset, open, cut>>
  BY DEF Proxy!Sent, Proxy!peerVars
<1>3. Proxy!TypeOK'
  BY <1>1, <1>2, Queues DEF Proxy!TypeOK, Proxy!Over
<1>4. \A q \in Proxy!Sockets : /\ Proxy!Held(q)' = 0
                               /\ peer[Proxy!Other(q)] # "closed" => Proxy!Held(q) = 0
  BY <1>1, <1>2 DEF Proxy!Held, Proxy!TypeOK
<1>5. Proxy!NothingLost' /\ Proxy!NothingMade'
  <2>1. \A q \in Proxy!Sockets : outq[Proxy!Other(q)] \in Nat
    BY <1>1, Queues, TwoSockets
  <2> QED
    BY <1>1, <1>2, <1>4, <2>1, Queues DEF Proxy!IInv, Proxy!NothingLost, Proxy!NothingMade
<1>6. Proxy!TodoIsReadable'
  BY <1>2 DEF Proxy!IInv, Proxy!TodoIsReadable, Proxy!Readable
<1>7. Proxy!EndIsLast'
  BY <1>2, NotEnded DEF Proxy!EndIsLast, Proxy!Sockets
<1> QED
  BY <1>3, <1>5, <1>6, <1>7 DEF Proxy!IInv

(* The process ends, by SIGPIPE or by an error of Lua. *)
LEMMA BreaksOffInv ==
  ASSUME Proxy!IInv, Proxy!Killed \/ Proxy!Log
  PROVE  Proxy!IInv'
<1>1. /\ proxyPc \in {"send", "log"} /\ proxyPc' \in {"for", "raised", "killed"}
      /\ (proxyPc' # "killed" => proxyPc = "log")
      /\ IF proxyPc' = "for" THEN UNCHANGED <<open, cut>>
         ELSE open' = {} /\ cut' = cut \cup {r \in Proxy!Sockets : inq[r] > 0}
      /\ UNCHANGED <<transfer, todo, reader, buffer, ended, inq, outq, owed, peer, reset>>
  BY DEF Proxy!Killed, Proxy!Log, Proxy!proxyVars, Proxy!peerVars
<1>2. Proxy!TypeOK'
  BY <1>1 DEF Proxy!IInv, Proxy!TypeOK, Proxy!Over
<1>3. Proxy!NothingLost' /\ Proxy!NothingMade'
  BY <1>1, NothingMoves
<1>4. Proxy!TodoIsReadable'
  BY <1>1 DEF Proxy!IInv, Proxy!TodoIsReadable, Proxy!Readable
<1>5. Proxy!EndIsLast'
  BY <1>1, NotEnded DEF Proxy!EndIsLast, Proxy!Sockets
<1> QED
  BY <1>2, <1>3, <1>4, <1>5 DEF Proxy!IInv

(* A socket is closed; with unread data, what it still had to send may go. *)
LEMMA ProxyCloseInv ==
  ASSUME Proxy!IInv, Proxy!Close
  PROVE  Proxy!IInv'
<1>1. Proxy!TypeOK /\ open # {} /\ open \subseteq Proxy!Sockets
  BY DEF Proxy!IInv, Proxy!TypeOK, Proxy!Close, Proxy!Over
<1>2. PICK r \in open : r = Proxy!First(open)
  BY <1>1, TwoSockets
<1>3. /\ proxyPc = "close" /\ open' = open \ {r} /\ proxyPc' = (IF open' = {} THEN "done" ELSE "close")
      /\ cut \subseteq cut' /\ cut' \subseteq cut \cup {r}
      /\ UNCHANGED <<transfer, todo, reader, buffer, ended, inq, owed, peer, reset>>
  BY <1>2 DEF Proxy!Close, Proxy!proxyVars, Proxy!peerVars
<1>4. r \in Proxy!Sockets
  BY <1>1, <1>2
<1>5. /\ outq' \in [Proxy!Sockets -> 0..Capacity]
      /\ \A q \in Proxy!Sockets : outq'[q] <= outq[q] /\ (q \notin cut' => outq'[q] = outq[q])
  <2>1. CASE UNCHANGED outq
    BY <1>1, <2>1, Queues
  <2>2. ASSUME NEW n \in 0..outq[r], outq' = [outq EXCEPT ![r] = n], r \in cut'
        PROVE  /\ outq' \in [Proxy!Sockets -> 0..Capacity]
               /\ \A q \in Proxy!Sockets : outq'[q] <= outq[q] /\ (q \notin cut' => outq'[q] = outq[q])
    BY <1>1, <1>4, <2>2, Queues
  <2> QED
    BY <1>2, <2>1, <2>2 DEF Proxy!Close
<1>6. Proxy!TypeOK'
  BY <1>1, <1>3, <1>4, <1>5 DEF Proxy!TypeOK, Proxy!Over
<1>7. Proxy!NothingLost' /\ Proxy!NothingMade'
  <2>1. \A q \in Proxy!Sockets : outq'[Proxy!Other(q)] \in Nat /\ outq[Proxy!Other(q)] \in Nat
    BY <1>1, <1>5, Queues, TwoSockets
  <2> QED
    BY <1>1, <1>3, <1>5, <2>1, Queues, TwoSockets
    DEF Proxy!IInv, Proxy!NothingLost, Proxy!NothingMade, Proxy!Held
<1>8. Proxy!TodoIsReadable' /\ Proxy!EndIsLast'
  BY <1>3 DEF Proxy!IInv, Proxy!TodoIsReadable, Proxy!Readable, Proxy!EndIsLast
<1> QED
  BY <1>6, <1>7, <1>8 DEF Proxy!IInv

(* Every step of the proxy keeps its invariant. *)
LEMMA ProxyNextInv ==
  ASSUME Proxy!IInv, Proxy!Next
  PROVE  Proxy!IInv'
<1>1. CASE Proxy!Proxy
  BY <1>1, WhileInv, SelectInv, ReceiveInv, EndOfStreamInv, ForEndsInv, SendInv, SentInv, BreaksOffInv,
     ProxyCloseInv DEF Proxy!Proxy
<1>2. CASE \E r \in Proxy!Sockets : Proxy!ResetArrives(r) \/ Proxy!PeerSends(r) \/ Proxy!PeerReads(r)
                                   \/ Proxy!PeerEnds(r) \/ Proxy!PeerSendsLate(r)
  BY <1>2, ResetArrivesInv, PeerSendsInv, PeerReadsInv, PeerEndsInv, PeerSendsLateInv
<1> QED
  BY <1>1, <1>2 DEF Proxy!Next, Proxy!Network

(* So does a step of another part. *)
LEMMA ProxyStutter ==
  ASSUME Proxy!IInv, UNCHANGED proxyVars
  PROVE  Proxy!IInv'
BY DEF proxyVars, Proxy!IInv, Proxy!TypeOK, Proxy!NothingLost, Proxy!NothingMade, Proxy!Held,
       Proxy!TodoIsReadable, Proxy!Readable, Proxy!EndIsLast, Proxy!Over

(* What has ended was forwarded. *)
LEMMA ProxySafe ==
  ASSUME Proxy!IInv
  PROVE  Proxy!Safety
<1>1. Proxy!EndedIsForwarded
  <2> SUFFICES ASSUME NEW r \in Proxy!Sockets, ended = r, peer[Proxy!Other(r)] # "closed",
                      Proxy!Other(r) \notin cut
               PROVE  owed[r] = outq[Proxy!Other(r)]
    BY DEF Proxy!EndedIsForwarded
  <2>1. inq[r] = 0 /\ proxyPc \in {"while", "close", "done"}
    BY DEF Proxy!IInv, Proxy!EndIsLast
  <2>2. Proxy!Held(r) = 0
    BY <2>1 DEF Proxy!IInv, Proxy!TypeOK, Proxy!Held
  <2>3. outq[Proxy!Other(r)] \in Nat
    BY Queues, TwoSockets DEF Proxy!IInv
  <2> QED
    BY <2>1, <2>2, <2>3 DEF Proxy!IInv, Proxy!NothingLost
<1> QED
  BY <1>1 DEF Proxy!IInv, Proxy!Safety

-----------------------------------------------------------------------------
(* The HTTP client: the server's answers. *)

(* A body has something in it. *)
LEMMA HttpConstants == Length \in Nat \ {0} /\ MaxRequests \in Nat \ {0}
  BY Assumptions DEF Http!HttpAssumption

(* The end of a queue, and what is left behind its head. *)
LEMMA QueueSteps ==
  ASSUME NEW S, NEW s \in Seq(S)
  PROVE  /\ Len(s) \in Nat /\ (s = <<>> <=> Len(s) = 0)
         /\ \A a \in S : /\ Append(s, a) \in Seq(S) /\ Len(Append(s, a)) = Len(s) + 1
                         /\ \A i \in 1 .. Len(s) + 1 : Append(s, a)[i] = (IF i <= Len(s) THEN s[i] ELSE a)
         /\ s # <<>> => /\ Head(s) \in S /\ Head(s) = s[1] /\ Tail(s) \in Seq(S) /\ Len(Tail(s)) = Len(s) - 1
                        /\ \A i \in 1 .. Len(s) - 1 : Tail(s)[i] = s[i + 1]
<1>1. Len(s) \in Nat /\ (s = <<>> <=> Len(s) = 0)
  BY EmptySeq, LenProperties
<1>2. ASSUME NEW a \in S
      PROVE  /\ Append(s, a) \in Seq(S) /\ Len(Append(s, a)) = Len(s) + 1
             /\ \A i \in 1 .. Len(s) + 1 : Append(s, a)[i] = (IF i <= Len(s) THEN s[i] ELSE a)
  OBVIOUS
<1>3. ASSUME s # <<>>
      PROVE  /\ Head(s) \in S /\ Head(s) = s[1] /\ Tail(s) \in Seq(S) /\ Len(Tail(s)) = Len(s) - 1
             /\ \A i \in 1 .. Len(s) - 1 : Tail(s)[i] = s[i + 1]
  BY <1>3, HeadTailProperties
<1> QED
  BY <1>1, <1>2, <1>3

(* What a body is made of. *)
LEMMA BodyPieces ==
  ASSUME NEW k
  PROVE  /\ Http!Body(k) \in Seq({k} \X Http!Parts) /\ Len(Http!Body(k)) = Length
         /\ \A i \in 1..Length : Http!Body(k)[i] = <<k, "body">>
BY HttpConstants DEF Http!Body, Http!Parts

(* An answer is its lines and, where the server sends one, its body. *)
LEMMA AnswerPieces ==
  ASSUME NEW k, NEW answer \in Http!Answers(k)
  PROVE  \E withLength, withBody \in BOOLEAN :
           /\ answer \in Seq({k} \X Http!Parts)
           /\ Len(answer) = 3 + (IF withBody THEN Length ELSE 0)
           /\ \A i \in 1..Len(answer) : answer[i] = Http!PieceAt(k, i, withLength)
           /\ withBody /\ ~withLength =>
                answer = Http!Lines(k, <<"status", "header", "end">>) \o Http!Body(k)
<1> DEFINE L(withLength) == Http!Lines(k, <<"status", IF withLength THEN "length" ELSE "header", "end">>)
           A(withLength, withBody) == IF withBody THEN L(withLength) \o Http!Body(k) ELSE L(withLength)
<1>1. ASSUME NEW withLength \in BOOLEAN
      PROVE  /\ L(withLength) \in Seq({k} \X Http!Parts) /\ Len(L(withLength)) = 3
             /\ \A i \in 1..3 : L(withLength)[i] = Http!PieceAt(k, i, withLength)
  <2>1. ASSUME NEW second \in Http!Parts, second = (IF withLength THEN "length" ELSE "header")
        PROVE  /\ Http!Lines(k, <<"status", second, "end">>) \in Seq({k} \X Http!Parts)
               /\ Len(Http!Lines(k, <<"status", second, "end">>)) = 3
               /\ \A i \in 1..3 : Http!Lines(k, <<"status", second, "end">>)[i]
                                    = Http!PieceAt(k, i, withLength)
    <3>1. "status" \in Http!Parts /\ "end" \in Http!Parts
      BY DEF Http!Parts
    <3>2. /\ Http!Lines(k, <<"status", second, "end">>)[1] = <<k, "status">>
          /\ Http!Lines(k, <<"status", second, "end">>)[2] = <<k, second>>
          /\ Http!Lines(k, <<"status", second, "end">>)[3] = <<k, "end">>
          /\ Http!Lines(k, <<"status", second, "end">>) \in Seq({k} \X Http!Parts)
          /\ Len(Http!Lines(k, <<"status", second, "end">>)) = 3
      <4>1. /\ Len(<<"status", second, "end">>) = 3
            /\ \A i \in 1..3 : <<"status", second, "end">>[i] \in Http!Parts
        BY <2>1, <3>1
      <4> QED
        BY <4>1 DEF Http!Lines
    <3>3. /\ Http!PieceAt(k, 1, withLength) = <<k, "status">>
          /\ Http!PieceAt(k, 2, withLength) = <<k, second>>
          /\ Http!PieceAt(k, 3, withLength) = <<k, "end">>
      BY <2>1 DEF Http!PieceAt
    <3>4. \A i \in 1..3 : i = 1 \/ i = 2 \/ i = 3
      OBVIOUS
    <3> QED
      BY <3>2, <3>3, <3>4
  <2>2. (IF withLength THEN "length" ELSE "header") \in Http!Parts
    BY DEF Http!Parts
  <2> QED
    BY <2>1, <2>2
<1>2. ASSUME NEW withLength \in BOOLEAN, NEW withBody \in BOOLEAN
      PROVE  /\ A(withLength, withBody) \in Seq({k} \X Http!Parts)
             /\ Len(A(withLength, withBody)) = 3 + (IF withBody THEN Length ELSE 0)
             /\ \A i \in 1..Len(A(withLength, withBody)) :
                  A(withLength, withBody)[i] = Http!PieceAt(k, i, withLength)
  <2> DEFINE l == L(withLength)
             b == Http!Body(k)
  <2>1. l \in Seq({k} \X Http!Parts) /\ Len(l) = 3 /\ \A i \in 1..3 : l[i] = Http!PieceAt(k, i, withLength)
    BY <1>1
  <2>2. b \in Seq({k} \X Http!Parts) /\ Len(b) = Length /\ \A i \in 1..Length : b[i] = <<k, "body">>
    BY BodyPieces
  <2> HIDE DEF l, b
  <2>3. /\ l \o b \in Seq({k} \X Http!Parts) /\ Len(l \o b) = 3 + Length
        /\ \A i \in 1 .. 3 + Length : (l \o b)[i] = IF i <= 3 THEN l[i] ELSE b[i - 3]
    <3> DEFINE S == {k} \X Http!Parts
    <3>1. l \in Seq(S) /\ b \in Seq(S)
      BY <2>1, <2>2
    <3> HIDE DEF S
    <3>2. /\ l \o b \in Seq(S) /\ Len(l \o b) = Len(l) + Len(b)
          /\ \A i \in 1 .. Len(l) + Len(b) : (l \o b)[i] = IF i <= Len(l) THEN l[i] ELSE b[i - Len(l)]
      BY <3>1, ConcatProperties
    <3> QED
      BY <2>1, <2>2, <3>2 DEF S
  <2>4. ASSUME NEW i \in 1 .. 3 + Length
        PROVE  (l \o b)[i] = Http!PieceAt(k, i, withLength)
    <3>1. CASE i <= 3
      BY <2>1, <2>3, <3>1
    <3>2. CASE i > 3
      <4>1. i - 3 \in 1..Length
        BY <3>2, HttpConstants
      <4> QED
        BY <2>2, <2>3, <3>2, <4>1 DEF Http!PieceAt
    <3>3. i <= 3 \/ i > 3
      BY HttpConstants
    <3> QED
      BY <3>1, <3>2, <3>3
  <2>5. CASE withBody
    <3>1. A(withLength, withBody) = l \o b
      BY <2>5 DEF l, b
    <3> QED
      BY <2>3, <2>4, <2>5, <3>1, HttpConstants
  <2>6. CASE ~withBody
    <3>1. A(withLength, withBody) = l
      BY <2>6 DEF l
    <3>2. Len(l) = 3 + (IF withBody THEN Length ELSE 0)
      BY <2>1, <2>6
    <3>3. \A i \in 1..Len(l) : l[i] = Http!PieceAt(k, i, withLength)
      BY <2>1
    <3> HIDE DEF A
    <3> QED
      BY <2>1, <3>1, <3>2, <3>3
  <2> QED
    BY <2>5, <2>6
<1>3. \E withLength, withBody \in BOOLEAN : answer = A(withLength, withBody)
  <2>1. \/ answer = A(TRUE, TRUE) \/ answer = A(TRUE, FALSE)
        \/ answer = A(FALSE, FALSE) \/ answer = A(FALSE, TRUE)
    BY DEF Http!Answers
  <2> QED
    BY <2>1
<1>4. A(FALSE, TRUE) = Http!Lines(k, <<"status", "header", "end">>) \o Http!Body(k)
  OBVIOUS
<1> HIDE DEF A
<1> QED
  BY <1>2, <1>3, <1>4

-----------------------------------------------------------------------------
(* The HTTP client: what is on its way. *)

(* What the type invariant says of each queue and of the response. *)
LEMMA HttpTypes ==
  ASSUME Http!TypeOK
  PROVE  /\ request \in Nat /\ Len(wire) \in Nat /\ Len(script) \in Nat /\ Len(response.body) \in Nat
         /\ wire \in Seq(Http!Pieces) /\ script \in Seq(Http!Pieces) /\ response.body \in Seq(Http!Pieces)
         /\ response.status \in 0..request /\ response.length \in {0, Length} /\ response.length \in Nat
         /\ response.failed \in BOOLEAN
         /\ response = [status |-> response.status, length |-> response.length,
                        body |-> response.body, failed |-> response.failed]
<1>1. response \in Http!Response /\ wire \in Seq(Http!Pieces) /\ script \in Seq(Http!Pieces) /\ request \in Nat
  BY HttpConstants DEF Http!TypeOK
<1>2. response.body \in Seq(Http!Pieces)
  BY <1>1 DEF Http!Response
<1>3. Len(wire) \in Nat /\ Len(script) \in Nat /\ Len(response.body) \in Nat
  BY <1>1, <1>2, LenProperties
<1> QED
  BY <1>1, <1>2, <1>3, HttpConstants DEF Http!Response

(* A piece that arrives is still the next but those that wait. *)
LEMMA ArrivesKeeps ==
  ASSUME Http!TypeOK, Http!Arrives, NEW n \in Nat, NEW withLength, NEW withBody \in BOOLEAN,
         Http!OnItsWay(n, withLength, withBody)
  PROVE  Http!OnItsWay(n, withLength, withBody)'
<1>1. /\ script # <<>> /\ wire' = Append(wire, Head(script)) /\ script' = Tail(script)
      /\ request' = request /\ gone' = gone
  BY DEF Http!Arrives
<1>2. /\ Len(wire) \in Nat /\ Len(script) \in Nat \ {0}
      /\ Head(script) = script[1] /\ Len(wire') = Len(wire) + 1 /\ Len(script') = Len(script) - 1
      /\ \A i \in 1 .. Len(wire) + 1 : wire'[i] = (IF i <= Len(wire) THEN wire[i] ELSE script[1])
      /\ \A i \in 1 .. Len(script) - 1 : script'[i] = script[i + 1]
  BY <1>1, HttpTypes, QueueSteps
<1>3. \A i \in 1..Len(wire') : wire'[i] = Http!PieceAt(request, n + i, withLength)
  <2> SUFFICES ASSUME NEW i \in 1 .. Len(wire) + 1
               PROVE  wire'[i] = Http!PieceAt(request, n + i, withLength)
    BY <1>2
  <2>1. CASE i <= Len(wire)
    BY <1>2, <2>1 DEF Http!OnItsWay
  <2>2. CASE i = Len(wire) + 1
    <3>1. n + Len(wire) + 1 = n + i /\ 1 \in 1..Len(script)
      <4>1. Len(wire) \in Nat /\ Len(script) \in Nat \ {0}
        BY <1>2
      <4> QED
        BY <2>2, <4>1
    <3>2. script[1] = Http!PieceAt(request, n + Len(wire) + 1, withLength)
      BY <3>1 DEF Http!OnItsWay
    <3> QED
      BY <1>2, <2>2, <3>1, <3>2
  <2> QED
    BY <1>2, <2>1, <2>2
<1>4. \A i \in 1..Len(script') : script'[i] = Http!PieceAt(request, n + Len(wire') + i, withLength)
  <2> SUFFICES ASSUME NEW i \in 1 .. Len(script) - 1
               PROVE  script'[i] = Http!PieceAt(request, n + Len(wire') + i, withLength)
    BY <1>2
  <2>1. i + 1 \in 1..Len(script) /\ n + Len(wire) + (i + 1) = n + Len(wire') + i
    BY <1>2
  <2>2. script[i + 1] = Http!PieceAt(request, n + Len(wire) + (i + 1), withLength)
    BY <2>1 DEF Http!OnItsWay
  <2> QED
    BY <1>2, <2>1, <2>2
<1>5. n + Len(wire') + Len(script') = n + Len(wire) + Len(script)
  BY <1>2
<1> QED
  BY <1>1, <1>3, <1>4, <1>5 DEF Http!OnItsWay

(* Of what the server does not send any more, the rest has not arrived. *)
LEMMA ServerClosesKeeps ==
  ASSUME Http!TypeOK, Http!ServerCloses, NEW n \in Nat, NEW withLength, NEW withBody \in BOOLEAN,
         Http!OnItsWay(n, withLength, withBody)
  PROVE  Http!OnItsWay(n, withLength, withBody)'
<1>1. gone' = TRUE /\ script' = <<>> /\ UNCHANGED <<wire, request>>
  BY DEF Http!ServerCloses
<1>2. Len(script') = 0 /\ Len(wire) \in Nat /\ Len(script) \in Nat /\ Length \in Nat
  BY <1>1, HttpTypes, HttpConstants
<1>3. n + Len(wire') + Len(script') <= n + Len(wire) + Len(script)
  BY <1>1, <1>2
<1>4. \A i \in 1..Len(script') : script'[i] = Http!PieceAt(request, n + Len(wire') + i, withLength)
  BY <1>2
<1> QED
  BY <1>1, <1>2, <1>3, <1>4 DEF Http!OnItsWay

(* The client takes the next piece. *)
LEMMA TakesNext ==
  ASSUME Http!TypeOK, wire # <<>>, wire' = Tail(wire), UNCHANGED <<request, script, gone>>,
         NEW n \in Nat, NEW withLength, NEW withBody \in BOOLEAN, Http!OnItsWay(n, withLength, withBody)
  PROVE  /\ Head(wire) = Http!PieceAt(request, n + 1, withLength)
         /\ Http!OnItsWay(n + 1, withLength, withBody)'
         /\ n + 1 <= 3 + (IF withBody THEN Length ELSE 0)
<1>1. /\ Len(wire) \in Nat \ {0} /\ Len(script) \in Nat /\ Length \in Nat
      /\ Head(wire) = wire[1] /\ Len(wire') = Len(wire) - 1
      /\ \A i \in 1 .. Len(wire) - 1 : wire'[i] = wire[i + 1]
  BY HttpTypes, QueueSteps, HttpConstants
<1>2. Head(wire) = Http!PieceAt(request, n + 1, withLength)
  <2>1. 1 \in 1..Len(wire)
    BY <1>1
  <2> QED
    BY <1>1, <2>1 DEF Http!OnItsWay
<1>3. \A i \in 1..Len(wire') : wire'[i] = Http!PieceAt(request, (n + 1) + i, withLength)
  <2> SUFFICES ASSUME NEW i \in 1 .. Len(wire) - 1
               PROVE  wire'[i] = Http!PieceAt(request, (n + 1) + i, withLength)
    BY <1>1
  <2>1. i + 1 \in 1..Len(wire) /\ n + (i + 1) = (n + 1) + i
    BY <1>1
  <2>2. wire[i + 1] = Http!PieceAt(request, n + (i + 1), withLength)
    BY <2>1 DEF Http!OnItsWay
  <2> QED
    BY <1>1, <2>1, <2>2
<1>4. \A i \in 1..Len(script') : script'[i] = Http!PieceAt(request, (n + 1) + Len(wire') + i, withLength)
  <2>1. \A i \in 1..Len(script) : (n + 1) + Len(wire') + i = n + Len(wire) + i
    BY <1>1
  <2> QED
    BY <2>1 DEF Http!OnItsWay
<1>5. (n + 1) + Len(wire') + Len(script') = n + Len(wire) + Len(script)
  BY <1>1
<1>6. n + 1 <= 3 + (IF withBody THEN Length ELSE 0)
  BY <1>1 DEF Http!OnItsWay
<1> QED
  BY <1>2, <1>3, <1>4, <1>5, <1>6 DEF Http!OnItsWay

-----------------------------------------------------------------------------
(* The HTTP client: its calls. *)

(* The invariant of the client holds as it begins. *)
LEMMA HttpInit == Http!Init => Http!IInv
<1> SUFFICES ASSUME Http!Init PROVE Http!IInv
  OBVIOUS
<1>1. /\ httpPc = "idle" /\ closed = TRUE /\ request = 0 /\ wire = <<>> /\ script = <<>> /\ gone = FALSE
      /\ spoiled = FALSE /\ response = [status |-> 0, length |-> 0, body |-> <<>>, failed |-> FALSE]
  BY DEF Http!Init, Http!NoServer, Http!NoResponse
<1>2. <<>> \in Seq(Http!Pieces) /\ Len(<<>>) = 0
  BY EmptySeq
<1>3. Http!TypeOK
  <2>1. response \in Http!Response /\ Len(response.body) <= response.length
    BY <1>1, <1>2 DEF Http!Response
  <2>2. request \in 0..MaxRequests
    BY <1>1, HttpConstants
  <2>3. wire \in Seq(Http!Pieces) /\ script \in Seq(Http!Pieces)
    BY <1>1, <1>2
  <2> QED
    BY <1>1, <2>1, <2>2, <2>3 DEF Http!TypeOK
<1> QED
  BY <1>1, <1>3 DEF Http!IInv, Http!OwnResponse, Http!NothingLeftOver, Http!Room, Http!ReadingLines,
     Http!ReadingBody

(* A piece of an answer to an earlier request is one still when the next is  *)
(* sent.                                                                     *)
LEMMA PiecesGrow ==
  ASSUME Http!TypeOK, request' = request + 1, request < MaxRequests
  PROVE  /\ request' \in 1..MaxRequests /\ Http!Pieces \subseteq Http!Pieces'
         /\ wire \in Seq(Http!Pieces') /\ script \in Seq(Http!Pieces')
         /\ {request'} \X Http!Parts \subseteq Http!Pieces'
<1>1. request \in Nat /\ wire \in Seq(Http!Pieces) /\ script \in Seq(Http!Pieces) /\ MaxRequests \in Nat
  BY HttpTypes, HttpConstants
<1>2. 1..request \subseteq 1..request' /\ request' \in 1..request'
  BY <1>1
<1>3. Http!Pieces \subseteq Http!Pieces' /\ {request'} \X Http!Parts \subseteq Http!Pieces'
  BY <1>2 DEF Http!Pieces
<1> QED
  BY <1>1, <1>3, SeqMonotonic

(* The connection is closed, and the call returns with a reason. *)
LEMMA ClosedInv ==
  ASSUME Http!TypeOK, httpPc' = "idle", Http!Close, request' \in 0..MaxRequests,
         response' \in Http!Response', Len(response'.body) <= response'.length,
         response'.failed \/ response'.status = 0
  PROVE  Http!IInv'
<1>1. /\ closed' = TRUE /\ wire' = <<>> /\ script' = <<>> /\ gone' = FALSE /\ spoiled' = FALSE
  BY DEF Http!Close
<1>2. wire' \in Seq(Http!Pieces') /\ script' \in Seq(Http!Pieces')
  BY <1>1, EmptySeq
<1>3. Http!TypeOK'
  BY <1>1, <1>2 DEF Http!TypeOK
<1> QED
  BY <1>1, <1>3 DEF Http!IInv, Http!OwnResponse, Http!NothingLeftOver, Http!Room, Http!ReadingLines,
     Http!ReadingBody

(* The response that a request begins with is empty. *)
LEMMA NoResponseType ==
  /\ Http!NoResponse.status = 0 /\ Http!NoResponse.length = 0 /\ Http!NoResponse.body = <<>>
  /\ Http!NoResponse.failed = FALSE /\ Len(Http!NoResponse.body) = 0
  /\ (request' \in Nat => Http!NoResponse \in Http!Response')
<1>1. <<>> \in Seq(Http!Pieces') /\ Len(<<>>) = 0
  BY EmptySeq
<1> QED
  BY <1>1 DEF Http!NoResponse, Http!Response

(* A request that cannot be sent closes the connection. *)
LEMMA RequestFailsInv ==
  ASSUME Http!IInv, Http!RequestFails
  PROVE  Http!IInv'
<1>1. /\ httpPc' = "idle" /\ request' = request + 1 /\ request < MaxRequests
      /\ response' = Http!NoResponse /\ Http!Close /\ Http!TypeOK
  BY DEF Http!RequestFails, Http!IInv
<1>2. request' \in 0..MaxRequests /\ request' \in Nat
  BY <1>1, HttpTypes, HttpConstants
<1> QED
  BY <1>1, <1>2, NoResponseType, ClosedInv

(* A request puts the whole of an answer on its way. *)
LEMMA RequestInv ==
  ASSUME Http!IInv, Http!Request
  PROVE  Http!IInv'
<1>1. /\ httpPc = "idle" /\ httpPc' = "lines" /\ closed' = FALSE /\ request' = request + 1
      /\ request < MaxRequests /\ response' = Http!NoResponse /\ UNCHANGED <<wire, gone>>
      /\ Http!TypeOK
  BY DEF Http!Request, Http!IInv
<1>2. request' \in Nat /\ request' \in 0..MaxRequests
  BY <1>1, PiecesGrow, HttpConstants
<1>3. ~spoiled => wire = <<>> /\ script = <<>>
  BY <1>1 DEF Http!IInv, Http!NothingLeftOver, Http!TypeOK
<1>4. /\ script' \in Seq(Http!Pieces') /\ spoiled' \in BOOLEAN
      /\ ~spoiled' => \E withLength, withBody \in BOOLEAN : Http!OnItsWay(0, withLength, withBody)'
  <2>1. CASE gone
    <3>1. UNCHANGED <<script, spoiled, gone, wire>>
      BY <1>1, <2>1 DEF Http!Request
    <3>2. ~spoiled => Http!OnItsWay(0, FALSE, FALSE)'
      <4> SUFFICES ASSUME ~spoiled PROVE Http!OnItsWay(0, FALSE, FALSE)'
        OBVIOUS
      <4>1. Len(wire') = 0 /\ Len(script') = 0
        BY <1>3, <3>1, EmptySeq
      <4> QED
        BY <2>1, <3>1, <4>1 DEF Http!OnItsWay
    <3> QED
      BY <1>1, <3>1, <3>2, PiecesGrow DEF Http!TypeOK
  <2>2. CASE ~gone
    <3>1. PICK answer \in Http!Answers(request') :
            /\ script' = script \o answer
            /\ spoiled' = (spoiled \/ answer = Http!Lines(request', <<"status", "header", "end">>)
                                                \o Http!Body(request'))
      BY <2>2 DEF Http!Request
    <3>2. PICK withLength \in BOOLEAN, withBody \in BOOLEAN :
            /\ answer \in Seq({request'} \X Http!Parts)
            /\ Len(answer) = 3 + (IF withBody THEN Length ELSE 0)
            /\ \A i \in 1..Len(answer) : answer[i] = Http!PieceAt(request', i, withLength)
            /\ withBody /\ ~withLength =>
                 answer = Http!Lines(request', <<"status", "header", "end">>) \o Http!Body(request')
      BY AnswerPieces
    <3>3. answer \in Seq(Http!Pieces') /\ script \in Seq(Http!Pieces')
      BY <1>1, <3>2, PiecesGrow, SeqMonotonic
    <3>4. script' \in Seq(Http!Pieces')
      BY <3>1, <3>3, ConcatProperties
    <3>5. ASSUME ~spoiled' PROVE Http!OnItsWay(0, withLength, withBody)'
      <4>1. wire' = <<>> /\ script' = answer /\ gone' = FALSE
        BY <1>1, <1>3, <2>2, <3>1, <3>3, <3>5, ConcatEmptySeq DEF Http!TypeOK
      <4>2. Len(wire') = 0 /\ Len(answer) \in Nat
        BY <3>3, <4>1, LenProperties
      <4>3. \A i \in 1..Len(answer) : 0 + Len(wire') + i = i
        BY <4>2
      <4>4. 0 + Len(wire') + Len(script') = Len(answer)
        BY <4>1, <4>2
      <4>5. Len(answer) <= 3 + (IF withBody THEN Length ELSE 0)
        BY <3>2, <4>2
      <4>6. withBody => withLength
        BY <3>1, <3>2, <3>5
      <4>7. \A i \in 1..Len(answer) : answer[i] = Http!PieceAt(request', 0 + Len(wire') + i, withLength)
        BY <3>2, <4>3
      <4>8. 1..Len(wire') = {}
        BY <4>2
      <4>9. 0 + Len(wire') + Len(script') = 3 + (IF withBody THEN Length ELSE 0)
        BY <3>2, <4>4
      <4> QED
        BY <4>1, <4>4, <4>5, <4>6, <4>7, <4>8, <4>9 DEF Http!OnItsWay
    <3>6. spoiled' \in BOOLEAN
      BY <1>1, <3>1 DEF Http!TypeOK
    <3> QED
      BY <3>4, <3>5, <3>6
  <2> QED
    BY <1>1, <2>1, <2>2 DEF Http!TypeOK
<1>5. wire' \in Seq(Http!Pieces') /\ gone' \in BOOLEAN
  BY <1>1, PiecesGrow DEF Http!TypeOK
<1>6. Http!TypeOK'
  <2>1. response' \in Http!Response' /\ Len(response'.body) <= response'.length
    BY <1>1, <1>2, NoResponseType
  <2> QED
    BY <1>1, <1>2, <1>4, <1>5, <2>1 DEF Http!TypeOK
<1>7. Http!ReadingLines'
  <2>1. \A withLength : Http!AfterLines(0, withLength)'
    BY <1>1, NoResponseType DEF Http!AfterLines
  <2> QED
    BY <1>4, <2>1 DEF Http!ReadingLines
<1> QED
  BY <1>1, <1>6, <1>7, NoResponseType
  DEF Http!IInv, Http!OwnResponse, Http!NothingLeftOver, Http!Room, Http!ReadingBody

(* A step that only moves what is on its way keeps the rest. *)
LEMMA ServerMovesInv ==
  ASSUME Http!IInv, UNCHANGED <<httpPc, closed, request, response, spoiled>>, gone' \in BOOLEAN,
         wire' \in Seq(Http!Pieces), script' \in Seq(Http!Pieces),
         (closed \/ Http!NothingLeftOver) => (wire = <<>> /\ script = <<>> => wire' = <<>> /\ script' = <<>>),
         \A n \in Nat, withLength, withBody \in BOOLEAN :
           Http!OnItsWay(n, withLength, withBody) => Http!OnItsWay(n, withLength, withBody)'
  PROVE  Http!IInv'
<1>1. Http!TypeOK /\ Http!NothingLeftOver
  BY DEF Http!IInv
<1>2. Http!TypeOK'
  BY <1>1 DEF Http!TypeOK, Http!Response, Http!Pieces
<1>3. Http!ReadingLines'
  <2> SUFFICES ASSUME httpPc = "lines", ~spoiled
               PROVE  \E n \in 0..2, withLength, withBody \in BOOLEAN :
                        Http!OnItsWay(n, withLength, withBody)' /\ Http!AfterLines(n, withLength)'
    BY DEF Http!ReadingLines
  <2>1. PICK n \in 0..2, withLength \in BOOLEAN, withBody \in BOOLEAN :
          Http!OnItsWay(n, withLength, withBody) /\ Http!AfterLines(n, withLength)
    BY DEF Http!IInv, Http!ReadingLines
  <2>2. Http!AfterLines(n, withLength)'
    BY <2>1 DEF Http!AfterLines
  <2>3. n \in Nat
    OBVIOUS
  <2> QED
    BY <2>1, <2>2, <2>3
<1>4. Http!ReadingBody'
  <2> SUFFICES ASSUME httpPc = "body", ~spoiled
               PROVE  Http!ReadingBody'
    BY DEF Http!ReadingBody
  <2>1. PICK withBody \in BOOLEAN : Http!OnItsWay(3 + Len(response.body), TRUE, withBody)
    BY DEF Http!IInv, Http!ReadingBody
  <2>2. PICK n \in Nat : n = 3 + Len(response.body)
    BY <1>1, HttpTypes
  <2>3. Http!OnItsWay(n, TRUE, withBody)' /\ n = 3 + Len(response'.body)
    BY <2>1, <2>2
  <2>4. \E b \in BOOLEAN : Http!OnItsWay(3 + Len(response.body), TRUE, b)'
    <3>1. Http!OnItsWay(3 + Len(response.body), TRUE, withBody)'
      BY <2>3 DEF Http!OnItsWay
    <3> QED
      BY <3>1
  <2>5. Http!AfterLines(3, TRUE)' /\ ~response'.failed /\ Http!OwnBody'
    BY DEF Http!IInv, Http!ReadingBody, Http!AfterLines, Http!OwnBody
  <2> QED
    BY <2>4, <2>5 DEF Http!ReadingBody
<1>5. Http!OwnResponse' /\ Http!NothingLeftOver' /\ Http!Room'
  BY <1>1 DEF Http!IInv, Http!OwnResponse, Http!NothingLeftOver, Http!Room, Http!Body
<1> QED
  BY <1>2, <1>3, <1>4, <1>5 DEF Http!IInv

(* A piece that arrives leaves the order as it was. *)
LEMMA ArrivesInv ==
  ASSUME Http!IInv, Http!Arrives
  PROVE  Http!IInv'
<1>1. /\ script # <<>> /\ wire' = Append(wire, Head(script)) /\ script' = Tail(script)
      /\ UNCHANGED <<httpPc, closed, request, response, gone, spoiled>> /\ Http!TypeOK
  BY DEF Http!Arrives, Http!IInv
<1>2. wire' \in Seq(Http!Pieces) /\ script' \in Seq(Http!Pieces) /\ gone' \in BOOLEAN
  BY <1>1, HttpTypes, QueueSteps DEF Http!TypeOK
<1>3. \A n \in Nat, withLength, withBody \in BOOLEAN :
        Http!OnItsWay(n, withLength, withBody) => Http!OnItsWay(n, withLength, withBody)'
  BY <1>1, ArrivesKeeps
<1> QED
  BY <1>1, <1>2, <1>3, ServerMovesInv

(* A server that closes sends nothing more. *)
LEMMA ServerClosesInv ==
  ASSUME Http!IInv, Http!ServerCloses
  PROVE  Http!IInv'
<1>1. /\ gone' = TRUE /\ script' = <<>>
      /\ UNCHANGED <<httpPc, closed, request, response, wire, spoiled>> /\ Http!TypeOK
  BY DEF Http!ServerCloses, Http!IInv
<1>2. wire' \in Seq(Http!Pieces) /\ script' \in Seq(Http!Pieces)
  BY <1>1, HttpTypes, EmptySeq
<1>3. \A n \in Nat, withLength, withBody \in BOOLEAN :
        Http!OnItsWay(n, withLength, withBody) => Http!OnItsWay(n, withLength, withBody)'
  BY <1>1, ServerClosesKeeps
<1> QED
  BY <1>1, <1>2, <1>3, ServerMovesInv

(* A wait that ends in vain gives the response up. *)
LEMMA NothingComesInv ==
  ASSUME Http!IInv, Http!ReadsNothing \/ Http!BodyFails
  PROVE  Http!IInv'
<1>1. /\ httpPc' = "idle" /\ Http!Close /\ request' = request /\ Http!TypeOK
      /\ \/ response' = [Http!NoResponse EXCEPT !.failed = TRUE]
         \/ response' = [response EXCEPT !.failed = TRUE]
  BY DEF Http!ReadsNothing, Http!BodyFails, Http!OnNothing, Http!IInv
<1>2. /\ response \in Http!Response /\ Len(response.body) <= response.length
      /\ Http!NoResponse \in Http!Response
      /\ Len(Http!NoResponse.body) <= Http!NoResponse.length
  <2>1. <<>> \in Seq(Http!Pieces) /\ Len(<<>>) = 0
    BY EmptySeq
  <2> QED
    BY <1>1, <2>1, HttpTypes DEF Http!TypeOK, Http!NoResponse, Http!Response
<1>3. response' \in Http!Response /\ Len(response'.body) <= response'.length /\ response'.failed
  BY <1>1, <1>2 DEF Http!Response
<1>4. response' \in Http!Response' /\ request' \in 0..MaxRequests
  BY <1>1, <1>3 DEF Http!Response, Http!Pieces, Http!TypeOK
<1> QED
  BY <1>1, <1>3, <1>4, ClosedInv

(* With a line cut, or a body without a length, nothing is said of the rest. *)
LEMMA SpoiledInv ==
  ASSUME Http!TypeOK', spoiled', Http!Room'
  PROVE  Http!IInv'
BY DEF Http!IInv, Http!OwnResponse, Http!NothingLeftOver, Http!ReadingLines, Http!ReadingBody

(* A line that is cut spoils the connection. *)
LEMMA ReadsCutLineInv ==
  ASSUME Http!IInv, Http!ReadsCutLine
  PROVE  Http!IInv'
<1>1. /\ httpPc = "lines" /\ wire # <<>> /\ wire' = <<<<Head(wire)[1], "rest">>>> \o Tail(wire)
      /\ spoiled' = TRUE /\ UNCHANGED <<httpPc, closed, request, response, script, gone>>
      /\ Http!TypeOK /\ Http!Room
  BY DEF Http!ReadsCutLine, Http!IInv
<1>2. Head(wire) \in Http!Pieces /\ Tail(wire) \in Seq(Http!Pieces)
  BY <1>1, HttpTypes, QueueSteps
<1>3. <<Head(wire)[1], "rest">> \in Http!Pieces
  BY <1>2 DEF Http!Pieces, Http!Parts
<1>4. wire' \in Seq(Http!Pieces)
  <2>1. <<<<Head(wire)[1], "rest">>>> \in Seq(Http!Pieces)
    BY <1>3
  <2> QED
    BY <1>1, <1>2, <2>1, ConcatProperties
<1>5. Http!TypeOK'
  BY <1>1, <1>4 DEF Http!TypeOK, Http!Response, Http!Pieces
<1>6. Http!Room'
  BY <1>1 DEF Http!Room
<1> QED
  BY <1>1, <1>5, <1>6, SpoiledInv

(* What a line does to the types. *)
LEMMA ReadsLineType ==
  ASSUME Http!IInv, Http!ReadsLine
  PROVE  /\ Head(wire) \in Http!Pieces /\ wire' \in Seq(Http!Pieces)
         /\ \E status \in Http!StatusOf(Head(wire)) :
              response' = [response EXCEPT !.status = status, !.length = Http!LengthOf(Head(wire))]
         /\ response'.status \in Http!StatusOf(Head(wire)) /\ response'.length = Http!LengthOf(Head(wire))
         /\ response'.body = <<>> /\ Len(response'.body) = 0 /\ ~response'.failed
         /\ Http!TypeOK' /\ Http!Room'
<1>1. /\ httpPc = "lines" /\ wire # <<>> /\ wire' = Tail(wire)
      /\ UNCHANGED <<closed, request, script, gone, spoiled>> /\ Http!TypeOK /\ Http!Room
  BY DEF Http!ReadsLine, Http!IInv
<1>2. Head(wire) \in Http!Pieces /\ wire' \in Seq(Http!Pieces)
  BY <1>1, HttpTypes, QueueSteps
<1>3. PICK status \in Http!StatusOf(Head(wire)) :
        response' = [response EXCEPT !.status = status, !.length = Http!LengthOf(Head(wire))]
  BY DEF Http!ReadsLine
<1>4. status \in 0..request
  BY <1>1, <1>2, HttpTypes DEF Http!StatusOf, Http!Pieces
<1>5. Http!LengthOf(Head(wire)) \in {0, Length}
  BY <1>1, HttpTypes DEF Http!LengthOf
<1>6. /\ response' \in Http!Response /\ response'.status = status /\ response'.length = Http!LengthOf(Head(wire))
      /\ response'.body = response.body /\ response'.failed = response.failed
  BY <1>1, <1>3, <1>4, <1>5 DEF Http!TypeOK, Http!Response
<1>7. response'.body = <<>> /\ Len(response'.body) = 0 /\ ~response'.failed
  BY <1>1, <1>6, EmptySeq DEF Http!Room
<1>8. response'.length \in Nat
  BY <1>5, <1>6, HttpConstants
<1>9. httpPc' \in {"lines", "body", "idle"} /\ (httpPc' = "body" => response'.length > 0)
  BY <1>1 DEF Http!ReadsLine, Http!AfterHeaders
<1>10. Http!TypeOK'
  BY <1>1, <1>2, <1>6, <1>7, <1>8, <1>9 DEF Http!TypeOK, Http!Response, Http!Pieces
<1>11. Http!Room'
  BY <1>7, <1>9 DEF Http!Room
<1> QED
  BY <1>2, <1>3, <1>6, <1>7, <1>10, <1>11

(* A line that is read is the next one of the latest answer. *)
LEMMA ReadsLineInv ==
  ASSUME Http!IInv, Http!ReadsLine
  PROVE  Http!IInv'
<1>1. /\ httpPc = "lines" /\ wire # <<>> /\ wire' = Tail(wire)
      /\ UNCHANGED <<closed, request, script, gone, spoiled>> /\ Http!TypeOK
  BY DEF Http!ReadsLine, Http!IInv
<1>2. CASE spoiled
  BY <1>1, <1>2, ReadsLineType, SpoiledInv
<1>3. CASE ~spoiled
  <2>1. PICK n \in 0..2, withLength \in BOOLEAN, withBody \in BOOLEAN :
          Http!OnItsWay(n, withLength, withBody) /\ Http!AfterLines(n, withLength)
    BY <1>1, <1>3 DEF Http!IInv, Http!ReadingLines
  <2>2. n \in Nat /\ (n = 0 \/ n = 1 \/ n = 2)
    OBVIOUS
  <2>3. /\ Head(wire) = Http!PieceAt(request, n + 1, withLength)
        /\ Http!OnItsWay(n + 1, withLength, withBody)'
    BY <1>1, <2>1, <2>2, TakesNext
  <2>4. request \in Nat \ {0}
    <3>1. Head(wire) \in Http!Pieces /\ request \in Nat
      BY <1>1, ReadsLineType, HttpTypes
    <3> QED
      BY <3>1 DEF Http!Pieces
  <2>5. response'.status \in Http!StatusOf(Head(wire)) /\ response'.length = Http!LengthOf(Head(wire))
    BY ReadsLineType
  <2>6. Http!AfterLines(n + 1, withLength)'
    <3>1. CASE n = 0
      BY <1>1, <2>1, <2>3, <2>4, <2>5, <3>1
      DEF Http!AfterLines, Http!PieceAt, Http!StatusOf, Http!LengthOf
    <3>2. CASE n = 1
      BY <1>1, <2>1, <2>3, <2>4, <2>5, <3>2
      DEF Http!AfterLines, Http!PieceAt, Http!StatusOf, Http!LengthOf
    <3>3. CASE n = 2
      BY <1>1, <2>1, <2>3, <2>4, <2>5, <3>3
      DEF Http!AfterLines, Http!PieceAt, Http!StatusOf, Http!LengthOf
    <3> QED
      BY <2>2, <3>1, <3>2, <3>3
  <2>7. CASE n < 2
    <3>1. Head(wire)[2] \notin {"end", "body"}
      BY <2>2, <2>3, <2>7 DEF Http!PieceAt
    <3>2. httpPc' = "lines"
      BY <1>1, <3>1 DEF Http!ReadsLine
    <3>3. n + 1 \in 0..2
      BY <2>2, <2>7
    <3>4. Http!ReadingLines'
      BY <2>3, <2>6, <3>3 DEF Http!ReadingLines
    <3> QED
      BY <3>2, <3>4, ReadsLineType DEF Http!IInv, Http!OwnResponse, Http!NothingLeftOver, Http!ReadingBody
  <2>8. CASE n = 2
    <3>1. Head(wire)[2] = "end"
      BY <2>3, <2>8 DEF Http!PieceAt
    <3>2. httpPc' = Http!AfterHeaders(response'.length)
      BY <3>1 DEF Http!ReadsLine
    <3>3. /\ response'.status = request' /\ response'.length = (IF withLength THEN Length ELSE 0)
          /\ Http!OnItsWay(3, withLength, withBody)'
      BY <2>3, <2>4, <2>6, <2>8 DEF Http!AfterLines
    <3>4. CASE withLength
      <4>1. httpPc' = "body"
        BY <3>2, <3>3, <3>4, HttpConstants DEF Http!AfterHeaders
      <4>2. Http!AfterLines(3, TRUE)'
        BY <3>3, <3>4 DEF Http!AfterLines
      <4>3. Http!OnItsWay(3 + Len(response.body), TRUE, withBody)'
        <5>1. Len(response'.body) = 0
          BY ReadsLineType
        <5>2. 3 + Len(response'.body) = 3
          BY <5>1
        <5> QED
          BY <3>3, <3>4, <5>2 DEF Http!OnItsWay
      <4>4. Http!OwnBody'
        <5>1. Len(response'.body) = 0
          BY ReadsLineType
        <5>2. 1..Len(response'.body) = {}
          BY <5>1
        <5> QED
          BY <5>2 DEF Http!OwnBody
      <4>5. Http!ReadingBody'
        BY <4>2, <4>3, <4>4, ReadsLineType DEF Http!ReadingBody
      <4> QED
        BY <4>1, <4>5, ReadsLineType DEF Http!IInv, Http!OwnResponse, Http!NothingLeftOver, Http!ReadingLines
    <3>5. CASE ~withLength
      <4>1. httpPc' = "idle" /\ response'.length = 0
        BY <3>2, <3>3, <3>5 DEF Http!AfterHeaders
      <4>2. Http!TypeOK' /\ Len(wire') \in Nat /\ Len(script') \in Nat
        <5>1. Http!TypeOK'
          BY ReadsLineType
        <5>2. wire' \in Seq(Http!Pieces') /\ script' \in Seq(Http!Pieces')
          BY <5>1 DEF Http!TypeOK
        <5> QED
          BY <5>1, <5>2, LenProperties
      <4>3. Len(wire') = 0 /\ Len(script') = 0
        <5>1. 3 + Len(wire') + Len(script') <= 3
          BY <3>3, <3>5 DEF Http!OnItsWay
        <5> QED
          BY <4>2, <5>1
      <4>4. wire' = <<>> /\ script' = <<>>
        BY <4>2, <4>3, QueueSteps DEF Http!TypeOK
      <4> QED
        BY <3>3, <4>1, <4>4, ReadsLineType
        DEF Http!IInv, Http!OwnResponse, Http!NothingLeftOver, Http!ReadingLines, Http!ReadingBody
    <3> QED
      BY <3>4, <3>5
  <2> QED
    BY <2>2, <2>7, <2>8
<1> QED
  BY <1>2, <1>3

(* A piece of a body is the next one of the latest answer. *)
LEMMA ReadsBodyInv ==
  ASSUME Http!IInv, Http!ReadsBody
  PROVE  Http!IInv'
<1> DEFINE body == Append(response.body, Head(wire))
<1>1. /\ httpPc = "body" /\ wire # <<>> /\ wire' = Tail(wire) /\ response' = [response EXCEPT !.body = body]
      /\ httpPc' = (IF Len(body) = response.length THEN "idle" ELSE "body")
      /\ UNCHANGED <<closed, request, script, gone, spoiled>>
      /\ Http!TypeOK /\ Len(response.body) < response.length
  BY DEF Http!ReadsBody, Http!Whole, Http!IInv, Http!Room
<1>2. /\ response \in Http!Response /\ response.body \in Seq(Http!Pieces) /\ response.length \in Nat
      /\ Head(wire) \in Http!Pieces /\ wire' \in Seq(Http!Pieces) /\ Len(response.body) \in Nat
  BY <1>1, HttpTypes, QueueSteps DEF Http!TypeOK
<1>3. /\ body \in Seq(Http!Pieces) /\ Len(body) = Len(response.body) + 1
      /\ \A i \in 1 .. Len(response.body) + 1 :
           body[i] = (IF i <= Len(response.body) THEN response.body[i] ELSE Head(wire))
  BY <1>2, QueueSteps
<1> HIDE DEF body
<1>4. /\ response' \in Http!Response /\ response'.body = body /\ response'.status = response.status
      /\ response'.length = response.length /\ response'.failed = response.failed
  BY <1>1, <1>2, <1>3 DEF Http!Response
<1>5. Len(body) \in Nat /\ Len(body) <= response.length
  BY <1>1, <1>2, <1>3
<1>6. Http!TypeOK'
  BY <1>1, <1>2, <1>4, <1>5 DEF Http!TypeOK, Http!Response, Http!Pieces
<1>7. Http!Room'
  BY <1>1, <1>2, <1>4, <1>5 DEF Http!Room
<1>8. CASE spoiled
  BY <1>1, <1>6, <1>7, <1>8, SpoiledInv
<1>9. CASE ~spoiled
  <2>1. /\ response.status = request /\ response.length = Length /\ ~response.failed
        /\ \A i \in 1..Len(response.body) : response.body[i] = <<request, "body">>
    BY <1>1, <1>9 DEF Http!IInv, Http!ReadingBody, Http!AfterLines, Http!OwnBody
  <2>2. PICK withBody \in BOOLEAN : Http!OnItsWay(3 + Len(response.body), TRUE, withBody)
    BY <1>1, <1>9 DEF Http!IInv, Http!ReadingBody
  <2>3. PICK n \in Nat : n = 3 + Len(response.body)
    BY <1>2
  <2>4. /\ Head(wire) = Http!PieceAt(request, n + 1, TRUE)
        /\ Http!OnItsWay(n + 1, TRUE, withBody)'
        /\ n + 1 <= 3 + (IF withBody THEN Length ELSE 0)
    BY <1>1, <2>2, <2>3, TakesNext
  <2>5. Head(wire) = <<request, "body">> /\ withBody
    BY <1>2, <2>3, <2>4 DEF Http!PieceAt
  <2>6. \A i \in 1..Len(body) : body[i] = <<request, "body">>
    <3>1. ASSUME NEW i \in 1..Len(body) PROVE body[i] = <<request, "body">>
      <4>1. CASE i <= Len(response.body)
        <5>1. i \in 1..Len(response.body) /\ body[i] = response.body[i]
          BY <1>2, <1>3, <4>1
        <5> QED
          BY <2>1, <5>1
      <4>2. CASE ~ (i <= Len(response.body))
        <5>1. body[i] = Head(wire)
          BY <1>3, <4>2
        <5> QED
          BY <2>5, <5>1
      <4> QED
        BY <4>1, <4>2
    <3> QED
      BY <3>1
  <2>7. CASE Len(body) = response.length
    <3>1. httpPc' = "idle"
      BY <1>1, <2>7
    <3>2. Len(wire') \in Nat /\ Len(script') \in Nat /\ wire' \in Seq(Http!Pieces) /\ script' \in Seq(Http!Pieces)
      BY <1>1, <1>2, HttpTypes, LenProperties
    <3>3. Len(wire') = 0 /\ Len(script') = 0
      <4>1. n + 1 = 3 + Length
        BY <1>2, <1>3, <2>1, <2>3, <2>7
      <4>2. (n + 1) + Len(wire') + Len(script') <= 3 + Length
        BY <2>4, <2>5 DEF Http!OnItsWay
      <4> QED
        BY <3>2, <4>1, <4>2, HttpConstants
    <3>4. wire' = <<>> /\ script' = <<>>
      BY <3>2, <3>3, QueueSteps
    <3>5. body = Http!Body(request)
      <4>1. body \in Seq({request} \X Http!Parts)
        <5>1. \A i \in 1..Len(body) : body[i] \in {request} \X Http!Parts
          <6>1. <<request, "body">> \in {request} \X Http!Parts
            BY DEF Http!Parts
          <6> QED
            BY <2>6, <6>1
        <5> QED
          BY <1>3, <5>1
      <4>2. /\ Http!Body(request) \in Seq({request} \X Http!Parts) /\ Len(Http!Body(request)) = Length
            /\ \A i \in 1..Length : Http!Body(request)[i] = <<request, "body">>
        BY BodyPieces
      <4>3. Len(body) = Length
        BY <2>1, <2>7
      <4> QED
        BY <2>6, <4>1, <4>2, <4>3, SeqEqual
    <3>6. Http!OwnResponse'
      <4>1. response'.body = Http!Body(request)' /\ response'.length # 0 /\ response'.status = request'
        BY <1>1, <1>4, <2>1, <3>5, HttpConstants DEF Http!Body
      <4> QED
        BY <4>1 DEF Http!OwnResponse
    <3> QED
      BY <1>6, <1>7, <3>1, <3>4, <3>6 DEF Http!IInv, Http!NothingLeftOver, Http!ReadingLines, Http!ReadingBody
  <2>8. CASE Len(body) # response.length
    <3>1. httpPc' = "body"
      BY <1>1, <2>8
    <3>2. Http!OnItsWay(3 + Len(response.body), TRUE, withBody)'
      <4>1. 3 + Len(response'.body) = n + 1
        BY <1>2, <1>3, <1>4, <2>3
      <4> QED
        BY <2>4, <4>1 DEF Http!OnItsWay
    <3>3. Http!AfterLines(3, TRUE)' /\ ~response'.failed /\ Http!OwnBody'
      BY <1>1, <1>4, <2>1, <2>6 DEF Http!AfterLines, Http!OwnBody
    <3>4. Http!ReadingBody'
      BY <3>2, <3>3 DEF Http!ReadingBody
    <3> QED
      BY <1>6, <1>7, <3>1, <3>4 DEF Http!IInv, Http!OwnResponse, Http!NothingLeftOver, Http!ReadingLines
  <2> QED
    BY <2>7, <2>8
<1> QED
  BY <1>8, <1>9

(* Every step of the client keeps its invariant. *)
LEMMA HttpNextInv ==
  ASSUME Http!IInv, Http!Next
  PROVE  Http!IInv'
BY RequestInv, RequestFailsInv, ReadsLineInv, ReadsCutLineInv, NothingComesInv, ReadsBodyInv, ArrivesInv,
   ServerClosesInv DEF Http!Next, Http!GetResponse

(* So does a step of another part. *)
LEMMA HttpStutter ==
  ASSUME Http!IInv, UNCHANGED httpVars
  PROVE  Http!IInv'
<1>1. UNCHANGED <<httpPc, closed, request, response, wire, script, gone, spoiled>>
  BY DEF httpVars
<1>2. Http!TypeOK
  BY DEF Http!IInv
<1>3. \A n \in Nat, withLength, withBody \in BOOLEAN :
        Http!OnItsWay(n, withLength, withBody) => Http!OnItsWay(n, withLength, withBody)'
  BY <1>1 DEF Http!OnItsWay
<1> QED
  BY <1>1, <1>2, <1>3, ServerMovesInv DEF Http!TypeOK

-----------------------------------------------------------------------------
(* The sockets: what the kernel's answers are made of. *)

(* A set of numbers has a least one. *)
LEMMA Lowest ==
  ASSUME NEW S, S \subseteq Nat, S # {}
  PROVE  Socket!Min(S) \in S
<1>1. PICK x \in S : \A y \in S : ~ (<<y, x>> \in OpToRel(<, Nat))
  BY WFMin, NatLessThanWellFounded
<1>2. ASSUME NEW y \in S PROVE x <= y
  <2>1. ~ (y < x)
    BY <1>1 DEF OpToRel
  <2> QED
    BY <2>1
<1> QED
  BY <1>2 DEF Socket!Min

(* The least of two numbers. *)
LEMMA LowestOfTwo ==
  ASSUME NEW a \in Nat, NEW b \in Nat
  PROVE  Socket!Min({a, b}) = IF a <= b THEN a ELSE b
<1>1. Socket!Min({a, b}) \in {a, b} /\ \A y \in {a, b} : Socket!Min({a, b}) <= y
  <2>1. \E x \in {a, b} : \A y \in {a, b} : x <= y
    OBVIOUS
  <2> QED
    BY <2>1 DEF Socket!Min
<1> QED
  BY <1>1

(* The constants. *)
LEMMA SocketConstants ==
  /\ MaxFd \in Nat /\ MaxQueue \in Nat /\ Stdin \in BOOLEAN /\ Sizes \subseteq Nat
  /\ \A k \in Kinds : k \in {"inet", "unix"} \X {"stream", "dgram"}
  /\ \A call, type, size : <<call, type, size>> \in Receives => size \in Nat
  /\ Socket!Fds \subseteq Nat
BY Assumptions DEF Socket!SocketAssumption, Socket!Fds

(* A socket's family and type are never those of a free descriptor. *)
LEMMA KindIsAPair ==
  ASSUME NEW k \in Kinds
  PROVE  k # <<>>
<1>1. PICK family \in {"inet", "unix"}, type \in {"stream", "dgram"} : k = <<family, type>>
  BY SocketConstants
<1>2. Len(<<family, type>>) = 2 /\ Len(<<>>) = 0
  OBVIOUS
<1> QED
  BY <1>1, <1>2

(* The descriptor that a new socket gets was free. *)
LEMMA FreeDescriptor ==
  ASSUME Socket!Unused # {}
  PROVE  Socket!Min(Socket!Unused) \in Socket!Fds /\ file[Socket!Min(Socket!Unused)].state = "none"
<1>1. Socket!Unused \subseteq Nat
  BY SocketConstants DEF Socket!Unused
<1>2. Socket!Min(Socket!Unused) \in Socket!Unused
  BY <1>1, Lowest
<1> QED
  BY <1>2 DEF Socket!Unused

(* A new socket has nothing waiting. *)
LEMMA NewSockets ==
  ASSUME NEW k \in Kinds \cup {<<>>}
  PROVE  /\ Socket!NoFile \in Socket!File /\ Socket!NoFile.state = "none" /\ Socket!NoFile.inbox = <<>>
         /\ Socket!NewSocket(k) \in Socket!File /\ Socket!NewSocket(k).kind = k
         /\ Socket!NewSocket(k).state = "fresh" /\ Socket!NewSocket(k).inbox = <<>>
         /\ Len(<<>>) = 0
<1>1. <<>> \in Seq(Nat) /\ Len(<<>>) = 0 /\ 0 \in 0..MaxQueue
  BY SocketConstants
<1> QED
  BY <1>1 DEF Socket!NoFile, Socket!NewSocket, Socket!File

(* What an object that can be used stands for. *)
LEMMA UsableObject ==
  ASSUME Socket!Descriptors, NEW o \in Objects, Socket!Usable(o)
  PROVE  /\ sockfd[o] \in Socket!Fds /\ sockfd[o] > 0 /\ file[sockfd[o]] \in Socket!File
         /\ Len(file[sockfd[o]].inbox) <= MaxQueue
         /\ Socket!IsSocket(sockfd[o]) /\ file[sockfd[o]].kind = kind[o] /\ kind[o] \in Kinds
         /\ kind[o] \in {"inet", "unix"} \X {"stream", "dgram"}
         /\ \A p \in Objects : sockfd[p] = sockfd[o] => p = o
<1>1. sockfd[o] \in Socket!Fds /\ sockfd[o] > 0 /\ sockfd[o] # -2
  BY SocketConstants DEF Socket!Descriptors, Socket!TypeOK, Socket!Usable
<1>2. /\ file[sockfd[o]] \in Socket!File /\ Len(file[sockfd[o]].inbox) <= MaxQueue /\ kind[o] \in Kinds
  BY <1>1 DEF Socket!Descriptors, Socket!TypeOK
<1>3. /\ Socket!IsSocket(sockfd[o]) /\ file[sockfd[o]].kind = kind[o]
      /\ \A p \in Objects : sockfd[p] = sockfd[o] => p = o
  <2>1. sockfd[o] >= 0
    BY <1>1, SocketConstants DEF Socket!Fds
  <2> QED
    BY <2>1 DEF Socket!Descriptors, Socket!OwnDescriptor
<1> QED
  BY <1>1, <1>2, <1>3, SocketConstants

(* The invariant of the sockets holds as they begin. *)
LEMMA SocketInit == Socket!Init => Socket!IInv
<1> SUFFICES ASSUME Socket!Init PROVE Socket!IInv
  OBVIOUS
<1>1. Socket!NoFile \in Socket!File /\ Socket!NoFile.inbox = <<>> /\ Socket!NoFile.state = "none" /\ Len(<<>>) = 0
  BY NewSockets
<1>2. [Socket!NoFile EXCEPT !.state = "stdin"] \in Socket!File
  BY <1>1 DEF Socket!File
<1>3. /\ file \in [Socket!Fds -> Socket!File]
      /\ \A f \in Socket!Fds : file[f].inbox = <<>> /\ file[f].state \in {"none", "stdin"}
  BY <1>1, <1>2 DEF Socket!Init, Socket!NoFile
<1>4. sockfd = [o \in Objects |-> -2] /\ kind = [o \in Objects |-> <<>>] /\ told = {} /\ balance = [o \in Objects |-> 0]
      /\ refused = FALSE /\ undefined = FALSE
  BY DEF Socket!Init
<1>5. Socket!TypeOK
  <2>1. /\ sockfd \in [Objects -> Socket!Fds \cup {-1, -2}] /\ \A o \in Objects : sockfd[o] = -2
        /\ kind \in [Objects -> Kinds \cup {<<>>}] /\ balance \in [Objects -> Int]
    BY <1>4
  <2>2. \A f \in Socket!Fds : Len(file[f].inbox) <= MaxQueue
    BY <1>1, <1>3, SocketConstants
  <2> QED
    BY <1>3, <1>4, <2>1, <2>2 DEF Socket!TypeOK
<1>6. Socket!OwnDescriptor /\ Socket!NoneLeaks
  BY <1>3, <1>4 DEF Socket!OwnDescriptor, Socket!NoneLeaks, Socket!IsSocket
<1>7. Socket!InboxWhole
  BY <1>1, <1>3 DEF Socket!InboxWhole
<1>8. Socket!ToldIsOpen /\ Socket!ClosedIsTheEnd /\ Socket!TakenIsGiven
  BY <1>4 DEF Socket!ToldIsOpen, Socket!ClosedIsTheEnd, Socket!TakenIsGiven
<1> QED
  BY <1>5, <1>6, <1>7, <1>8 DEF Socket!IInv, Socket!Descriptors

-----------------------------------------------------------------------------
(* The sockets: steps that change one socket, which stays the socket it was. *)

(* A socket that is still the same socket leaves the descriptors as they are. *)
LEMMA SocketChanges ==
  ASSUME Socket!Descriptors, NEW f \in Socket!Fds, NEW g \in Socket!File, Socket!IsSocket(f),
         g.state \notin {"none", "stdin"}, g.kind = file[f].kind, Len(g.inbox) <= MaxQueue,
         file' = [file EXCEPT ![f] = g], UNCHANGED <<sockfd, kind, undefined>>,
         told' \subseteq Objects, balance' \in [Objects -> Int], refused' \in BOOLEAN
  PROVE  Socket!Descriptors'
<1>1. Socket!TypeOK /\ file \in [Socket!Fds -> Socket!File]
  BY DEF Socket!Descriptors, Socket!TypeOK
<1>2. /\ file' \in [Socket!Fds -> Socket!File]
      /\ \A h \in Socket!Fds : file'[h] = IF h = f THEN g ELSE file[h]
  BY <1>1
<1>3. Socket!TypeOK'
  BY <1>1, <1>2 DEF Socket!TypeOK
<1>4. \A h \in Socket!Fds : Socket!IsSocket(h)' = Socket!IsSocket(h) /\ file'[h].kind = file[h].kind
  BY <1>2 DEF Socket!IsSocket
<1>5. \A o \in Objects : sockfd[o] >= 0 => sockfd[o] \in Socket!Fds
  <2>1. sockfd \in [Objects -> Socket!Fds \cup {-1, -2}]
    BY <1>1 DEF Socket!TypeOK
  <2> QED
    BY <2>1
<1>6. Socket!OwnDescriptor' /\ Socket!NoneLeaks'
  <2>1. Socket!OwnDescriptor'
    BY <1>4, <1>5 DEF Socket!OwnDescriptor, Socket!Descriptors
  <2>2. Socket!NoneLeaks'
    BY <1>4 DEF Socket!NoneLeaks, Socket!Descriptors
  <2> QED
    BY <2>1, <2>2
<1> QED
  BY <1>3, <1>6 DEF Socket!Descriptors

(* What else such a step keeps: nothing that waits is touched. *)
LEMMA WaitingKept ==
  ASSUME Socket!IInv, NEW f \in Socket!Fds, NEW g \in Socket!File,
         g.kind = file[f].kind, g.inbox = file[f].inbox, file[f].done => g.done,
         file' = [file EXCEPT ![f] = g], UNCHANGED <<sockfd, kind, told, balance, undefined>>
  PROVE  /\ Socket!InboxWhole' /\ Socket!ToldIsOpen' /\ Socket!ClosedIsTheEnd' /\ Socket!TakenIsGiven'
<1>1. Socket!TypeOK /\ file \in [Socket!Fds -> Socket!File]
  BY DEF Socket!IInv, Socket!Descriptors, Socket!TypeOK
<1>2. \A h \in Socket!Fds : file'[h].inbox = file[h].inbox /\ file'[h].kind = file[h].kind /\ (file[h].done => file'[h].done)
  BY <1>1
<1>3. \A o \in told : o \in Objects /\ sockfd[o] \in Socket!Fds
  BY <1>1, SocketConstants DEF Socket!IInv, Socket!ToldIsOpen, Socket!TypeOK
<1> QED
  BY <1>2, <1>3 DEF Socket!IInv, Socket!InboxWhole, Socket!ToldIsOpen, Socket!ClosedIsTheEnd, Socket!TakenIsGiven, Socket!FileOf

(* A change of an object's socket that touches nothing that waits. *)
LEMMA ObjectChanges ==
  ASSUME Socket!Descriptors, NEW o \in Objects, Socket!Usable(o), NEW g \in Socket!File,
         g.state \notin {"none", "stdin"}, g.kind = file[sockfd[o]].kind, g.inbox = file[sockfd[o]].inbox, file[sockfd[o]].done => g.done,
         file' = [file EXCEPT ![sockfd[o]] = g],
         UNCHANGED <<sockfd, kind, told, balance, undefined>>, refused' \in BOOLEAN
  PROVE  Socket!Descriptors' /\ (Socket!IInv => Socket!IInv')
<1>1. /\ sockfd[o] \in Socket!Fds /\ file[sockfd[o]] \in Socket!File /\ Socket!IsSocket(sockfd[o])
      /\ Len(file[sockfd[o]].inbox) <= MaxQueue
  BY UsableObject
<1>2. told' \subseteq Objects /\ balance' \in [Objects -> Int]
  BY DEF Socket!Descriptors, Socket!TypeOK
<1>3. Socket!Descriptors'
  BY <1>1, <1>2, SocketChanges
<1>4. ASSUME Socket!IInv PROVE Socket!IInv'
  BY <1>1, <1>3, <1>4, WaitingKept DEF Socket!IInv
<1> QED
  BY <1>3, <1>4

(* bind changes the state of its socket, or refuses its arguments. *)
LEMMA BindInv ==
  ASSUME Socket!Descriptors, NEW o \in Objects, NEW arguments, NEW known \in BOOLEAN, Socket!Bind(o, arguments, known)
  PROVE  Socket!Descriptors' /\ (Socket!IInv => Socket!IInv')
<1>1. Socket!Usable(o) /\ UNCHANGED <<sockfd, kind, told, balance, undefined>>
  BY DEF Socket!Bind
<1>2. file[sockfd[o]] \in Socket!File /\ file[sockfd[o]].state \notin {"none", "stdin"}
  BY <1>1, UsableObject DEF Socket!IsSocket
<1> DEFINE g == [file[sockfd[o]] EXCEPT !.state = "bound"]
<1>3. g \in Socket!File /\ g.kind = file[sockfd[o]].kind /\ g.inbox = file[sockfd[o]].inbox /\ g.done = file[sockfd[o]].done
      /\ g.state = "bound"
  BY <1>2 DEF Socket!File
<1>4. CASE refused' = TRUE /\ UNCHANGED file
  <2>1. file' = [file EXCEPT ![sockfd[o]] = file[sockfd[o]]]
    BY <1>4 DEF Socket!Descriptors, Socket!TypeOK
  <2> QED
    BY <1>1, <1>2, <1>4, <2>1, ObjectChanges
<1>5. CASE file' = [file EXCEPT ![sockfd[o]] = g] /\ UNCHANGED refused
  <2>1. refused' \in BOOLEAN
    BY <1>5 DEF Socket!Descriptors, Socket!TypeOK
  <2> HIDE DEF g
  <2> QED
    BY <1>1, <1>3, <1>5, <2>1, ObjectChanges
<1> QED
  BY <1>4, <1>5 DEF Socket!Bind

(* connect changes the state of its socket. *)
LEMMA ConnectInv ==
  ASSUME Socket!Descriptors, NEW o \in Objects, NEW known \in BOOLEAN, Socket!Connect(o, known)
  PROVE  Socket!Descriptors' /\ (Socket!IInv => Socket!IInv')
<1> DEFINE g == [file[sockfd[o]] EXCEPT !.state = "connected"]
<1>1. Socket!Usable(o) /\ file' = [file EXCEPT ![sockfd[o]] = g]
      /\ UNCHANGED <<sockfd, kind, told, balance, refused, undefined>>
  BY DEF Socket!Connect
<1>2. file[sockfd[o]] \in Socket!File /\ file[sockfd[o]].state \notin {"none", "stdin"}
  BY <1>1, UsableObject DEF Socket!IsSocket
<1>3. /\ g \in Socket!File /\ g.kind = file[sockfd[o]].kind /\ g.inbox = file[sockfd[o]].inbox
      /\ file[sockfd[o]].done => g.done
      /\ g.state \notin {"none", "stdin"}
  BY <1>2 DEF Socket!File
<1>4. refused' \in BOOLEAN
  BY <1>1 DEF Socket!Descriptors, Socket!TypeOK
<1> HIDE DEF g
<1> QED
  BY <1>1, <1>3, <1>4, ObjectChanges

(* listen changes the state of its socket. *)
LEMMA ListenInv ==
  ASSUME Socket!Descriptors, NEW o \in Objects, Socket!Listen(o)
  PROVE  Socket!Descriptors' /\ (Socket!IInv => Socket!IInv')
<1> DEFINE g == [file[sockfd[o]] EXCEPT !.state = "listening"]
<1>1. Socket!Usable(o) /\ file' = [file EXCEPT ![sockfd[o]] = g]
      /\ UNCHANGED <<sockfd, kind, told, balance, refused, undefined>>
  BY DEF Socket!Listen
<1>2. file[sockfd[o]] \in Socket!File /\ file[sockfd[o]].state \notin {"none", "stdin"}
  BY <1>1, UsableObject DEF Socket!IsSocket
<1>3. /\ g \in Socket!File /\ g.kind = file[sockfd[o]].kind /\ g.inbox = file[sockfd[o]].inbox
      /\ file[sockfd[o]].done => g.done
      /\ g.state \notin {"none", "stdin"}
  BY <1>2 DEF Socket!File
<1>4. refused' \in BOOLEAN
  BY <1>1 DEF Socket!Descriptors, Socket!TypeOK
<1> HIDE DEF g
<1> QED
  BY <1>1, <1>3, <1>4, ObjectChanges

(* setblocking changes the mode of its socket. *)
LEMMA SetBlockingInv ==
  ASSUME Socket!Descriptors, NEW o \in Objects, NEW b \in BOOLEAN, Socket!SetBlocking(o, b)
  PROVE  Socket!Descriptors' /\ (Socket!IInv => Socket!IInv')
<1> DEFINE g == [file[sockfd[o]] EXCEPT !.nonblock = ~b]
<1>1. Socket!Usable(o) /\ file' = [file EXCEPT ![sockfd[o]] = g]
      /\ UNCHANGED <<sockfd, kind, told, balance, refused, undefined>>
  BY DEF Socket!SetBlocking
<1>2. file[sockfd[o]] \in Socket!File /\ file[sockfd[o]].state \notin {"none", "stdin"}
  BY <1>1, UsableObject DEF Socket!IsSocket
<1>3. /\ g \in Socket!File /\ g.kind = file[sockfd[o]].kind /\ g.inbox = file[sockfd[o]].inbox
      /\ file[sockfd[o]].done => g.done
      /\ g.state \notin {"none", "stdin"}
  BY <1>2 DEF Socket!File
<1>4. refused' \in BOOLEAN
  BY <1>1 DEF Socket!Descriptors, Socket!TypeOK
<1> HIDE DEF g
<1> QED
  BY <1>1, <1>3, <1>4, ObjectChanges

(* shutdown ends what comes to its socket, and keeps what waits. *)
LEMMA ShutdownReadInv ==
  ASSUME Socket!Descriptors, NEW o \in Objects, Socket!ShutdownRead(o)
  PROVE  Socket!Descriptors' /\ (Socket!IInv => Socket!IInv')
<1> DEFINE g == [file[sockfd[o]] EXCEPT !.done = TRUE]
<1>1. Socket!Usable(o) /\ file' = [file EXCEPT ![sockfd[o]] = g]
      /\ UNCHANGED <<sockfd, kind, told, balance, refused, undefined>>
  BY DEF Socket!ShutdownRead
<1>2. file[sockfd[o]] \in Socket!File /\ file[sockfd[o]].state \notin {"none", "stdin"}
  BY <1>1, UsableObject DEF Socket!IsSocket
<1>3. /\ g \in Socket!File /\ g.kind = file[sockfd[o]].kind /\ g.inbox = file[sockfd[o]].inbox
      /\ file[sockfd[o]].done => g.done
      /\ g.state \notin {"none", "stdin"}
  BY <1>2 DEF Socket!File
<1>4. refused' \in BOOLEAN
  BY <1>1 DEF Socket!Descriptors, Socket!TypeOK
<1> HIDE DEF g
<1> QED
  BY <1>1, <1>3, <1>4, ObjectChanges

-----------------------------------------------------------------------------
(* The sockets: made and closed. *)

(* A new object whose descriptor was free. *)
LEMMA SocketMade ==
  ASSUME Socket!Descriptors, NEW o \in Objects, NEW k \in Kinds, NEW n \in Socket!Fds,
         file[n].state = "none", Socket!NewObject(o, n, k),
         file' \in [Socket!Fds -> Socket!File], file'[n].kind = k, file'[n].inbox = <<>>,
         file'[n].state \notin {"none", "stdin"},
         \A h \in Socket!Fds \ {n} : /\ Socket!IsSocket(h)' = Socket!IsSocket(h) /\ file'[h].kind = file[h].kind
                                     /\ file'[h].inbox = file[h].inbox /\ file'[h].done = file[h].done,
         UNCHANGED <<told, refused, undefined>>
  PROVE  Socket!Descriptors' /\ (Socket!IInv => Socket!IInv')
<1>1. /\ sockfd \in [Objects -> Socket!Fds \cup {-1, -2}] /\ kind \in [Objects -> Kinds \cup {<<>>}]
      /\ balance \in [Objects -> Int] /\ Len(<<>>) = 0 /\ MaxQueue \in Nat
      /\ \A p \in Objects : sockfd[p] # -2 => kind[p] \in Kinds
      /\ \A f \in Socket!Fds : Len(file[f].inbox) <= MaxQueue
  BY SocketConstants DEF Socket!Descriptors, Socket!TypeOK
<1>2. /\ sockfd[o] = -2 /\ sockfd' = [sockfd EXCEPT ![o] = n] /\ kind' = [kind EXCEPT ![o] = k]
      /\ balance' = [balance EXCEPT ![o] = 0]
  BY DEF Socket!NewObject
<1>3. n \in Nat /\ n >= 0
  BY SocketConstants
<1>4. /\ sockfd' \in [Objects -> Socket!Fds \cup {-1, -2}] /\ kind' \in [Objects -> Kinds \cup {<<>>}]
      /\ balance' \in [Objects -> Int]
      /\ sockfd'[o] = n /\ kind'[o] = k /\ balance'[o] = 0
      /\ \A p \in Objects \ {o} : sockfd'[p] = sockfd[p] /\ kind'[p] = kind[p] /\ balance'[p] = balance[p]
  BY <1>1, <1>2
<1>5. Socket!TypeOK'
  <2>1. \A p \in Objects : sockfd'[p] # -2 => kind'[p] \in Kinds
    BY <1>1, <1>4
  <2>2. \A f \in Socket!Fds : Len(file'[f].inbox) <= MaxQueue
    BY <1>1
  <2>3. told' \subseteq Objects /\ refused' \in BOOLEAN /\ undefined' \in BOOLEAN
    BY DEF Socket!Descriptors, Socket!TypeOK
  <2> QED
    BY <1>4, <2>1, <2>2, <2>3 DEF Socket!TypeOK
<1>6. \A p \in Objects \ {o} : sockfd[p] >= 0 =>
        /\ sockfd[p] \in Socket!Fds /\ sockfd[p] # n /\ Socket!IsSocket(sockfd[p]) /\ file[sockfd[p]].kind = kind[p]
        /\ \A q \in Objects \ {p} : sockfd[q] # sockfd[p]
  BY <1>1 DEF Socket!Descriptors, Socket!OwnDescriptor, Socket!IsSocket
<1>7. Socket!OwnDescriptor'
  <2>1. Socket!IsSocket(n)'
    BY DEF Socket!IsSocket
  <2>2. ASSUME NEW p \in Objects, sockfd'[p] >= 0
        PROVE  /\ file'[sockfd'[p]].state \notin {"none", "stdin"} /\ file'[sockfd'[p]].kind = kind'[p]
               /\ \A q \in Objects \ {p} : sockfd'[q] # sockfd'[p]
    <3>1. CASE p = o
      <4>1. \A q \in Objects \ {p} : sockfd'[q] # n
        BY <1>3, <1>4, <1>6, <3>1
      <4> QED
        BY <1>4, <2>1, <3>1, <4>1
    <3>2. CASE p # o
      <4>1. /\ sockfd'[p] = sockfd[p] /\ kind'[p] = kind[p] /\ sockfd[p] \in Socket!Fds \ {n}
            /\ file[sockfd[p]].state \notin {"none", "stdin"} /\ file[sockfd[p]].kind = kind[p]
            /\ \A q \in Objects \ {p} : sockfd[q] # sockfd[p]
        BY <1>4, <1>6, <2>2, <3>2 DEF Socket!IsSocket
      <4>2. file'[sockfd[p]].state \notin {"none", "stdin"} /\ file'[sockfd[p]].kind = kind[p]
        BY <4>1 DEF Socket!IsSocket
      <4>3. \A q \in Objects \ {p} : sockfd'[q] # sockfd[p]
        BY <1>4, <4>1
      <4> QED
        BY <4>1, <4>2, <4>3
    <3> QED
      BY <3>1, <3>2
  <2> QED
    BY <2>2 DEF Socket!OwnDescriptor, Socket!IsSocket
<1>8. Socket!NoneLeaks'
  <2>1. ASSUME NEW h \in Socket!Fds \ {0}, Socket!IsSocket(h)' PROVE \E p \in Objects : sockfd'[p] = h
    <3>1. CASE h = n
      BY <1>4, <3>1
    <3>2. CASE h # n
      <4>1. PICK p \in Objects : sockfd[p] = h
        BY <2>1, <3>2 DEF Socket!Descriptors, Socket!NoneLeaks
      <4>2. h \in Nat
        BY SocketConstants
      <4>3. p # o
        BY <1>2, <4>1, <4>2
      <4> QED
        BY <1>4, <4>1, <4>3
    <3> QED
      BY <3>1, <3>2
  <2> QED
    BY <2>1 DEF Socket!NoneLeaks, Socket!IsSocket
<1>9. ASSUME Socket!IInv
      PROVE  Socket!InboxWhole' /\ Socket!ToldIsOpen' /\ Socket!ClosedIsTheEnd' /\ Socket!TakenIsGiven'
  <2>1. Socket!InboxWhole /\ Socket!ToldIsOpen /\ Socket!ClosedIsTheEnd /\ Socket!TakenIsGiven
    BY <1>9 DEF Socket!IInv
  <2>2. \A p \in told : p \in Objects \ {o} /\ sockfd'[p] = sockfd[p] /\ sockfd[p] \in Socket!Fds \ {n} /\ sockfd[p] > 0
    <3>1. ASSUME NEW p \in told PROVE p \in Objects \ {o} /\ sockfd[p] > 0
      BY <1>2, <2>1 DEF Socket!ToldIsOpen, Socket!Descriptors, Socket!TypeOK
    <3>2. ASSUME NEW p \in Objects \ {o}, sockfd[p] > 0 PROVE sockfd[p] \in Socket!Fds \ {n}
      <4>1. sockfd[p] \in Socket!Fds
        BY <1>1, <3>2
      <4>2. sockfd[p] >= 0
        BY <3>2, <4>1, SocketConstants DEF Socket!Fds
      <4> QED
        BY <1>6, <4>2
    <3> QED
      BY <1>4, <3>1, <3>2
  <2>3. Socket!InboxWhole'
    <3>1. \A i \in 1..Len(file'[n].inbox) : FALSE
      BY <1>1
    <3> QED
      BY <2>1, <3>1 DEF Socket!InboxWhole
  <2>4. Socket!ToldIsOpen' /\ Socket!ClosedIsTheEnd'
    BY <2>1, <2>2 DEF Socket!ToldIsOpen, Socket!ClosedIsTheEnd, Socket!FileOf
  <2>5. Socket!TakenIsGiven'
    BY <1>4, <2>1 DEF Socket!TakenIsGiven
  <2> QED
    BY <2>3, <2>4, <2>5
<1> QED
  BY <1>5, <1>7, <1>8, <1>9 DEF Socket!Descriptors, Socket!IInv

(* socket gives the new object a descriptor that was free. *)
LEMMA SocketCallInv ==
  ASSUME Socket!Descriptors, NEW o \in Objects, NEW k \in Kinds, Socket!Socket(o, k)
  PROVE  Socket!Descriptors' /\ (Socket!IInv => Socket!IInv')
<1> DEFINE n == Socket!Min(Socket!Unused)
<1>1. /\ Socket!Unused # {} /\ Socket!NewObject(o, n, k)
      /\ file' = [file EXCEPT ![n] = Socket!NewSocket(k)]
      /\ UNCHANGED <<told, refused, undefined>>
  BY DEF Socket!Socket
<1>2. n \in Socket!Fds /\ file[n].state = "none"
  BY <1>1, FreeDescriptor
<1> HIDE DEF n
<1>3. file \in [Socket!Fds -> Socket!File]
  BY DEF Socket!Descriptors, Socket!TypeOK
<1>4. /\ Socket!NewSocket(k) \in Socket!File /\ Socket!NewSocket(k).kind = k
      /\ Socket!NewSocket(k).state = "fresh" /\ Socket!NewSocket(k).inbox = <<>>
  BY NewSockets
<1>5. /\ file' \in [Socket!Fds -> Socket!File] /\ file'[n] = Socket!NewSocket(k)
      /\ \A h \in Socket!Fds \ {n} : file'[h] = file[h]
  BY <1>1, <1>2, <1>3, <1>4
<1> QED
  BY <1>1, <1>2, <1>4, <1>5, SocketMade DEF Socket!IsSocket

(* So does accept, and the listening socket loses a connection that waited. *)
LEMMA AcceptInv ==
  ASSUME Socket!Descriptors, NEW o \in Objects, NEW new \in Objects, Socket!Accept(o, new)
  PROVE  Socket!Descriptors' /\ (Socket!IInv => Socket!IInv')
<1> DEFINE n == Socket!Min(Socket!Unused)
           f == sockfd[o]
           made == [Socket!NewSocket(kind[o]) EXCEPT !.state = "connected"]
           less == [file[f] EXCEPT !.pending = @ - 1]
<1>1. /\ Socket!Usable(o) /\ Socket!Unused # {} /\ Socket!NewObject(new, n, kind[o])
      /\ file[f].state = "listening" /\ file[f].pending > 0
      /\ file' = [file EXCEPT ![f].pending = @ - 1, ![n] = made]
      /\ UNCHANGED <<told, refused, undefined>>
  BY DEF Socket!Accept, Socket!Inherited, Socket!FileOf
<1>2. n \in Socket!Fds /\ file[n].state = "none"
  BY <1>1, FreeDescriptor
<1>3. /\ f \in Socket!Fds /\ file[f] \in Socket!File /\ kind[o] \in Kinds
  BY <1>1, UsableObject
<1> HIDE DEF n
<1>4. f # n
  BY <1>1, <1>2
<1>5. file \in [Socket!Fds -> Socket!File]
  BY DEF Socket!Descriptors, Socket!TypeOK
<1>6. made \in Socket!File /\ made.kind = kind[o] /\ made.state = "connected" /\ made.inbox = <<>>
  <2>1. /\ Socket!NewSocket(kind[o]) \in Socket!File /\ Socket!NewSocket(kind[o]).kind = kind[o]
        /\ Socket!NewSocket(kind[o]).inbox = <<>>
    BY <1>3, NewSockets
  <2> HIDE DEF f
  <2> QED
    BY <2>1 DEF Socket!File
<1>7. less \in Socket!File /\ less.kind = file[f].kind /\ less.state = file[f].state /\ less.inbox = file[f].inbox
      /\ less.done = file[f].done
  <2>1. file[f].pending - 1 \in 0..MaxQueue
    BY <1>1, <1>3, SocketConstants DEF Socket!File
  <2> QED
    BY <1>3, <2>1 DEF Socket!File
<1>8. file' = [[file EXCEPT ![f] = less] EXCEPT ![n] = made]
  BY <1>1, <1>4, <1>3, <1>2, <1>5
<1> HIDE DEF made, less
<1>9. /\ file' \in [Socket!Fds -> Socket!File] /\ file'[n] = made /\ file'[f] = less
      /\ \A h \in Socket!Fds \ {n, f} : file'[h] = file[h]
  <2> HIDE DEF f
  <2> QED
    BY <1>2, <1>3, <1>4, <1>5, <1>6, <1>7, <1>8
<1> HIDE DEF f
<1>10. \A h \in Socket!Fds \ {n} :
         /\ Socket!IsSocket(h)' = Socket!IsSocket(h) /\ file'[h].kind = file[h].kind
         /\ file'[h].inbox = file[h].inbox /\ file'[h].done = file[h].done
  BY <1>7, <1>9 DEF Socket!IsSocket
<1> QED
  BY <1>1, <1>2, <1>3, <1>6, <1>9, <1>10, SocketMade

(* socketpair leaves the objects alone. *)
LEMMA SocketpairInv ==
  ASSUME Socket!Descriptors, NEW k \in Kinds, Socket!Socketpair(k)
  PROVE  Socket!Descriptors' /\ (Socket!IInv => Socket!IInv')
<1>1. undefined' = TRUE /\ UNCHANGED <<sockfd, kind, file, told, balance, refused>>
  BY DEF Socket!Socketpair
<1>2. Socket!Descriptors'
  BY <1>1 DEF Socket!Descriptors, Socket!TypeOK, Socket!OwnDescriptor, Socket!NoneLeaks, Socket!IsSocket
<1>3. ASSUME Socket!IInv
      PROVE  Socket!InboxWhole' /\ Socket!ToldIsOpen' /\ Socket!ClosedIsTheEnd' /\ Socket!TakenIsGiven'
  BY <1>1, <1>3 DEF Socket!IInv, Socket!InboxWhole, Socket!ToldIsOpen, Socket!ClosedIsTheEnd, Socket!TakenIsGiven,
     Socket!FileOf
<1> QED
  BY <1>2, <1>3 DEF Socket!IInv

(* close and the collector free the descriptor of their object and no other. *)
LEMMA CloseInv ==
  ASSUME Socket!Descriptors, NEW o \in Objects, NEW collected \in BOOLEAN, Socket!Close(o, collected)
  PROVE  Socket!Descriptors' /\ (Socket!IInv => Socket!IInv')
<1>1. /\ sockfd \in [Objects -> Socket!Fds \cup {-1, -2}] /\ kind \in [Objects -> Kinds \cup {<<>>}]
      /\ file \in [Socket!Fds -> Socket!File] /\ Len(<<>>) = 0
      /\ \A p \in Objects : sockfd[p] # -2 => kind[p] \in Kinds
      /\ \A f \in Socket!Fds : Len(file[f].inbox) <= MaxQueue
  BY SocketConstants DEF Socket!Descriptors, Socket!TypeOK
<1>2. /\ sockfd[o] # -2 /\ told' = told \ {o}
      /\ file' = IF sockfd[o] > 0 THEN [file EXCEPT ![sockfd[o]] = Socket!NoFile] ELSE file
      /\ UNCHANGED <<kind, balance, refused, undefined>>
      /\ sockfd' = [sockfd EXCEPT ![o] = IF collected THEN -2 ELSE IF sockfd[o] > 0 THEN -1 ELSE sockfd[o]]
  BY DEF Socket!Close, Socket!Closes, Socket!AfterClose
<1>3. /\ sockfd' \in [Objects -> Socket!Fds \cup {-1, -2}]
      /\ sockfd'[o] = IF collected THEN -2 ELSE IF sockfd[o] > 0 THEN -1 ELSE sockfd[o]
      /\ \A p \in Objects \ {o} : sockfd'[p] = sockfd[p]
  BY <1>1, <1>2
<1>4. /\ file' \in [Socket!Fds -> Socket!File]
      /\ \A f \in Socket!Fds : file'[f] = IF sockfd[o] > 0 /\ f = sockfd[o] THEN Socket!NoFile ELSE file[f]
  BY <1>1, <1>2, NewSockets
<1>5. Socket!NoFile.inbox = <<>> /\ Socket!NoFile.state = "none"
  BY NewSockets
<1>6. Socket!TypeOK'
  <2>1. \A p \in Objects : sockfd'[p] # -2 => kind'[p] \in Kinds
    BY <1>1, <1>2, <1>3
  <2>2. \A f \in Socket!Fds : Len(file'[f].inbox) <= MaxQueue
    BY <1>1, <1>4, <1>5, SocketConstants
  <2>3. told' \subseteq Objects /\ balance' \in [Objects -> Int] /\ refused' \in BOOLEAN /\ undefined' \in BOOLEAN
    BY <1>2 DEF Socket!Descriptors, Socket!TypeOK
  <2> QED
    BY <1>1, <1>2, <1>3, <1>4, <2>1, <2>2, <2>3 DEF Socket!TypeOK
<1>7. \A p \in Objects : sockfd[p] >= 0 =>
        /\ sockfd[p] \in Socket!Fds /\ Socket!IsSocket(sockfd[p]) /\ file[sockfd[p]].kind = kind[p]
        /\ \A q \in Objects \ {p} : sockfd[q] # sockfd[p]
  BY <1>1 DEF Socket!Descriptors, Socket!OwnDescriptor
<1>8. \A p \in Objects \ {o} : sockfd[p] >= 0 => file'[sockfd[p]] = file[sockfd[p]]
  BY <1>4, <1>7
<1>9. Socket!OwnDescriptor'
  <2>1. ASSUME NEW p \in Objects, sockfd'[p] >= 0
        PROVE  /\ file'[sockfd'[p]].state \notin {"none", "stdin"} /\ file'[sockfd'[p]].kind = kind'[p]
               /\ \A q \in Objects \ {p} : sockfd'[q] # sockfd'[p]
    <3>1. CASE p = o
      <4>1. sockfd'[o] = sockfd[o] /\ ~ (sockfd[o] > 0) /\ sockfd[o] >= 0
        BY <1>3, <2>1, <3>1
      <4> QED
        BY <1>2, <1>3, <1>4, <1>7, <3>1, <4>1 DEF Socket!IsSocket
    <3>2. CASE p # o
      <4>1. sockfd'[p] = sockfd[p] /\ sockfd[p] >= 0 /\ sockfd[p] # sockfd[o]
        BY <1>3, <1>7, <2>1, <3>2
      <4>2. sockfd'[o] # sockfd[p]
        BY <1>3, <4>1
      <4>3. \A q \in Objects \ {p} : sockfd'[q] # sockfd[p]
        BY <1>3, <1>7, <4>1, <4>2
      <4> QED
        BY <1>2, <1>7, <1>8, <3>2, <4>1, <4>3 DEF Socket!IsSocket
    <3> QED
      BY <3>1, <3>2
  <2> QED
    BY <2>1 DEF Socket!OwnDescriptor, Socket!IsSocket
<1>10. Socket!NoneLeaks'
  <2>1. ASSUME NEW h \in Socket!Fds \ {0}, Socket!IsSocket(h)' PROVE \E p \in Objects : sockfd'[p] = h
    <3>1. h \in Nat /\ h > 0
      BY SocketConstants
    <3>2. Socket!IsSocket(h) /\ sockfd[o] # h
      BY <1>4, <1>5, <2>1, <3>1 DEF Socket!IsSocket
    <3>3. PICK p \in Objects : sockfd[p] = h
      BY <3>2 DEF Socket!Descriptors, Socket!NoneLeaks
    <3> QED
      BY <1>3, <3>2, <3>3
  <2> QED
    BY <2>1 DEF Socket!NoneLeaks, Socket!IsSocket
<1>11. ASSUME Socket!IInv
       PROVE  Socket!InboxWhole' /\ Socket!ToldIsOpen' /\ Socket!ClosedIsTheEnd' /\ Socket!TakenIsGiven'
  <2>1. Socket!InboxWhole /\ Socket!ToldIsOpen /\ Socket!ClosedIsTheEnd /\ Socket!TakenIsGiven
    BY <1>11 DEF Socket!IInv
  <2>2. \A p \in told \ {o} : p \in Objects \ {o} /\ sockfd[p] > 0 /\ sockfd[p] >= 0
    <3>1. \A p \in told \ {o} : p \in Objects \ {o} /\ sockfd[p] > 0
      BY <2>1 DEF Socket!ToldIsOpen, Socket!Descriptors, Socket!TypeOK
    <3>2. \A p \in Objects : sockfd[p] > 0 => sockfd[p] >= 0
      BY <1>1 DEF Socket!Fds
    <3> QED
      BY <3>1, <3>2
  <2>3. Socket!InboxWhole'
    <3>1. \A i \in 1..Len(Socket!NoFile.inbox) : FALSE
      BY <1>1, <1>5
    <3> QED
      BY <1>4, <2>1, <3>1 DEF Socket!InboxWhole
  <2>4. Socket!ToldIsOpen' /\ Socket!ClosedIsTheEnd'
    BY <1>2, <1>3, <1>8, <2>1, <2>2 DEF Socket!ToldIsOpen, Socket!ClosedIsTheEnd, Socket!FileOf
  <2>5. Socket!TakenIsGiven'
    BY <1>2, <2>1 DEF Socket!TakenIsGiven
  <2> QED
    BY <2>3, <2>4, <2>5
<1> QED
  BY <1>6, <1>9, <1>10, <1>11 DEF Socket!Descriptors, Socket!IInv

-----------------------------------------------------------------------------
(* The sockets: what comes and what is taken. *)

(* What the system call leaves of a queue. *)
LEMMA Rests ==
  ASSUME NEW inbox \in Seq(Nat), NEW type \in {"stream", "dgram"}, NEW n \in Nat,
         NEW rest, rest = Socket!Rest(inbox, type = "stream", n)
  PROVE  /\ rest \in Seq(Nat) /\ Len(rest) <= Len(inbox) /\ (inbox = <<>> => rest = <<>>)
         /\ \A i \in 1..Len(rest) : \/ \E j \in 1..Len(inbox) : rest[i] = inbox[j]
                                    \/ type = "stream" /\ rest[i] > 0
<1>1. CASE inbox = <<>>
  <2>1. rest = <<>> /\ Len(rest) = 0 /\ rest \in Seq(Nat)
    BY <1>1 DEF Socket!Rest
  <2>2. \A i \in 1..Len(rest) : FALSE
    BY <2>1
  <2>3. Len(rest) <= Len(inbox)
    BY <1>1, <2>1
  <2> QED
    BY <2>1, <2>2, <2>3
<1>2. CASE inbox # <<>>
  <2>1. /\ Len(inbox) \in Nat \ {0} /\ Head(inbox) \in Nat /\ Head(inbox) = inbox[1]
        /\ Tail(inbox) \in Seq(Nat) /\ Len(Tail(inbox)) = Len(inbox) - 1
        /\ \A i \in 1..Len(inbox) - 1 : Tail(inbox)[i] = inbox[i + 1] /\ i + 1 \in 1..Len(inbox)
    BY <1>2
  <2>2. CASE type = "stream" /\ n < Head(inbox)
    <3>1. rest = <<Head(inbox) - n>> \o Tail(inbox)
      BY <1>2, <2>2 DEF Socket!Rest
    <3>2. Head(inbox) - n \in Nat /\ Head(inbox) - n > 0
      BY <2>1, <2>2
    <3>3. <<Head(inbox) - n>> \in Seq(Nat) /\ Len(<<Head(inbox) - n>>) = 1 /\ <<Head(inbox) - n>>[1] = Head(inbox) - n
      BY <3>2
    <3>4. /\ rest \in Seq(Nat) /\ Len(rest) = Len(inbox)
          /\ rest[1] = Head(inbox) - n
          /\ \A i \in 2..Len(inbox) : rest[i] = Tail(inbox)[i - 1]
      <4> DEFINE first == <<Head(inbox) - n>>
                 others == Tail(inbox)
      <4>1. /\ first \in Seq(Nat) /\ Len(first) = 1 /\ first[1] = Head(inbox) - n
            /\ others \in Seq(Nat) /\ Len(others) = Len(inbox) - 1 /\ rest = first \o others /\ Len(inbox) \in Nat \ {0}
        BY <2>1, <3>1, <3>3
      <4> HIDE DEF first, others
      <4>2. /\ first \o others \in Seq(Nat) /\ Len(first \o others) = Len(first) + Len(others)
            /\ \A i \in 1..Len(first) + Len(others) :
                 (first \o others)[i] = IF i <= Len(first) THEN first[i] ELSE others[i - Len(first)]
        <5>1. first \in Seq(Nat) /\ others \in Seq(Nat)
          BY <4>1
        <5> QED
          BY <5>1, ConcatProperties, Zenon
      <4>3. /\ rest \in Seq(Nat) /\ Len(rest) = Len(first) + Len(others)
            /\ \A i \in 1..Len(first) + Len(others) :
                 rest[i] = IF i <= Len(first) THEN first[i] ELSE others[i - Len(first)]
        BY <4>1, <4>2, Zenon
      <4>4. Len(first) + Len(others) = Len(inbox)
        BY <4>1
      <4>5. \A i \in 1..Len(inbox) : rest[i] = IF i <= 1 THEN first[i] ELSE others[i - 1]
        BY <4>1, <4>3, <4>4, Zenon
      <4>6. rest[1] = Head(inbox) - n
        <5>1. 1 \in 1..Len(inbox) /\ 1 <= 1
          BY <4>1
        <5> QED
          BY <4>1, <4>5, <5>1, Zenon
      <4>7. ASSUME NEW i \in 2..Len(inbox) PROVE rest[i] = others[i - 1]
        <5>1. i \in 1..Len(inbox) /\ ~(i <= 1)
          BY <4>1
        <5> QED
          BY <4>5, <5>1, Zenon
      <4> QED
        BY <4>3, <4>4, <4>6, <4>7, Zenon DEF others
    <3>5. ASSUME NEW i \in 2..Len(inbox) PROVE rest[i] = inbox[i] /\ i \in 1..Len(inbox)
      <4>1. i - 1 \in 1..Len(inbox) - 1 /\ (i - 1) + 1 = i
        BY <2>1
      <4> QED
        BY <2>1, <3>4, <4>1
    <3>6. ASSUME NEW i \in 1..Len(rest)
          PROVE  (\E j \in 1..Len(inbox) : rest[i] = inbox[j]) \/ (type = "stream" /\ rest[i] > 0)
      <4>1. i = 1 \/ i \in 2..Len(inbox)
        BY <2>1, <3>4
      <4> QED
        BY <2>2, <3>2, <3>4, <3>5, <4>1
    <3>7. Len(rest) <= Len(inbox)
      BY <2>1, <3>4
    <3> QED
      BY <1>2, <3>4, <3>6, <3>7
  <2>3. CASE ~ (type = "stream" /\ n < Head(inbox))
    <3>1. rest = Tail(inbox)
      BY <1>2, <2>3 DEF Socket!Rest
    <3>2. Len(rest) <= Len(inbox)
      BY <2>1, <3>1
    <3>3. ASSUME NEW i \in 1..Len(rest) PROVE \E j \in 1..Len(inbox) : rest[i] = inbox[j]
      BY <2>1, <3>1
    <3> QED
      BY <1>2, <2>1, <3>1, <3>2, <3>3
  <2> QED
    BY <2>2, <2>3
<1> QED
  BY <1>1, <1>2

(* What a receiving call can return; when nothing is asked for wrongly, a   *)
(* zero is the end.                                                         *)
LEMMA Lengths ==
  ASSUME Socket!Descriptors, NEW o \in Objects, Socket!Usable(o), NEW size \in Nat, NEW len \in Socket!Lengths(o, size)
  PROVE  LET inbox == file[sockfd[o]].inbox IN
         /\ inbox \in Seq(Nat) /\ len \in Nat \cup {-1}
         /\ len > 0 => inbox # <<>> /\ len = IF size <= inbox[1] THEN size ELSE inbox[1]
         /\ len = 0 /\ inbox # <<>> => size = 0 \/ inbox[1] = 0
         /\ len = 0 /\ inbox = <<>> => file[sockfd[o]].done
<1>1. file[sockfd[o]] \in Socket!File
  BY UsableObject
<1> DEFINE inbox == file[sockfd[o]].inbox
<1>2. inbox \in Seq(Nat)
  BY <1>1 DEF Socket!File
<1>3. CASE inbox = <<>>
  BY <1>2, <1>3 DEF Socket!Lengths, Socket!FileOf
<1>4. CASE inbox # <<>>
  <2>1. Head(inbox) \in Nat /\ Head(inbox) = inbox[1]
    BY <1>2, <1>4
  <2>2. len = -1 \/ len = IF size <= inbox[1] THEN size ELSE inbox[1]
    BY <1>4, <2>1, LowestOfTwo DEF Socket!Lengths, Socket!FileOf
  <2> QED
    BY <1>2, <1>4, <2>1, <2>2
<1> QED
  BY <1>3, <1>4

(* A receiving call keeps the descriptors; what it does to the bytes depends on the call. *)
LEMMA TakesInv ==
  ASSUME Socket!Descriptors, NEW o \in Objects, NEW call, NEW size, Socket!Takes(o, call, size)
  PROVE  Socket!Descriptors' /\ (Socket!ReceivesRight /\ Socket!IInv => Socket!IInv')
<1>1. /\ Socket!Usable(o) /\ <<call, kind[o][2], size>> \in Receives
      /\ UNCHANGED <<sockfd, kind, refused, undefined>>
  BY DEF Socket!Takes
<1> DEFINE f == sockfd[o]
           stream == kind[o][2] = "stream"
<1>2. PICK len \in Socket!Lengths(o, size) :
        /\ file' = IF len < 0 THEN file
                   ELSE [file EXCEPT ![f].inbox = Socket!Rest(@, stream, len)]
        /\ told' = IF Socket!Answer(len) = "closed" THEN told \cup {o} ELSE told
        /\ \E given \in {Socket!Pushed(call, len, size)} \cup IF Socket!MayRaise(call, kind[o]) THEN {0} ELSE {} :
             balance' = [balance EXCEPT ![o] = IF len > 0 THEN len - given ELSE 0]
  BY DEF Socket!Takes
<1>3. PICK given \in {Socket!Pushed(call, len, size)} \cup (IF Socket!MayRaise(call, kind[o]) THEN {0} ELSE {}) :
        balance' = [balance EXCEPT ![o] = IF len > 0 THEN len - given ELSE 0]
  BY <1>2
<1>4. /\ f \in Socket!Fds /\ f > 0 /\ file[f] \in Socket!File /\ Len(file[f].inbox) <= MaxQueue
      /\ Socket!IsSocket(f) /\ file[f].kind = kind[o] /\ kind[o] \in Kinds
      /\ kind[o] \in {"inet", "unix"} \X {"stream", "dgram"}
      /\ \A p \in Objects : sockfd[p] = f => p = o
  BY <1>1, UsableObject
<1>5. /\ file \in [Socket!Fds -> Socket!File] /\ sockfd \in [Objects -> Socket!Fds \cup {-1, -2}]
      /\ balance \in [Objects -> Int] /\ told \subseteq Objects /\ refused \in BOOLEAN
  BY DEF Socket!Descriptors, Socket!TypeOK
<1>6. size \in Nat
  BY <1>1, SocketConstants
<1>7. /\ file[f].inbox \in Seq(Nat) /\ len \in Nat \cup {-1}
      /\ len > 0 => file[f].inbox # <<>> /\ len = IF size <= file[f].inbox[1] THEN size ELSE file[f].inbox[1]
      /\ len = 0 /\ file[f].inbox # <<>> => size = 0 \/ file[f].inbox[1] = 0
      /\ len = 0 /\ file[f].inbox = <<>> => file[f].done
  BY <1>1, <1>6, Lengths
<1> DEFINE rest == IF len < 0 THEN file[f].inbox ELSE Socket!Rest(file[f].inbox, stream, len)
           g == [file[f] EXCEPT !.inbox = rest]
<1>8. /\ rest \in Seq(Nat) /\ Len(rest) <= Len(file[f].inbox) /\ (file[f].inbox = <<>> => rest = <<>>)
      /\ \A i \in 1..Len(rest) : \/ \E j \in 1..Len(file[f].inbox) : rest[i] = file[f].inbox[j]
                                 \/ stream /\ rest[i] > 0
  <2>1. CASE len < 0
    BY <1>7, <2>1
  <2>2. CASE ~ (len < 0)
    <3> DEFINE inbox == file[f].inbox
               type == kind[o][2]
    <3>1. /\ len \in Nat /\ type \in {"stream", "dgram"} /\ inbox \in Seq(Nat)
          /\ rest = Socket!Rest(inbox, type = "stream", len)
      BY <1>4, <1>7, <2>2
    <3> HIDE DEF rest, inbox, type
    <3>2. /\ rest \in Seq(Nat) /\ Len(rest) <= Len(inbox) /\ (inbox = <<>> => rest = <<>>)
          /\ \A i \in 1..Len(rest) : \/ \E j \in 1..Len(inbox) : rest[i] = inbox[j]
                                     \/ type = "stream" /\ rest[i] > 0
      BY <3>1, Rests
    <3> QED
      BY <3>2 DEF inbox, type
  <2> QED
    BY <2>1, <2>2
<1>9. file' = [file EXCEPT ![f] = g]
  <2>1. CASE len < 0
    <3>1. g = file[f]
      BY <1>4, <2>1 DEF Socket!File
    <3> QED
      BY <1>2, <1>5, <2>1, <3>1
  <2>2. CASE ~ (len < 0)
    BY <1>2, <2>2
  <2> QED
    BY <2>1, <2>2
<1> HIDE DEF f, rest
<1>10. /\ g \in Socket!File /\ g.kind = file[f].kind /\ g.inbox = rest /\ g.done = file[f].done
       /\ g.state = file[f].state
  BY <1>4, <1>8 DEF Socket!File
<1> HIDE DEF g
<1>11. Len(g.inbox) <= MaxQueue
  <2>1. Len(rest) \in Nat /\ Len(file[f].inbox) \in Nat /\ MaxQueue \in Nat
    BY <1>7, <1>8, SocketConstants
  <2> QED
    BY <1>4, <1>8, <1>10, <2>1
<1>12. told' \subseteq Objects
  BY <1>2, <1>5
<1>13. balance' \in [Objects -> Int]
  <2>1. given \in Int
    BY <1>3, <1>6, <1>7 DEF Socket!Pushed
  <2>2. (IF len > 0 THEN len - given ELSE 0) \in Int
    BY <1>7, <2>1
  <2> QED
    BY <1>3, <1>5, <2>2
<1>14. Socket!Descriptors'
  <2>1. g.state \notin {"none", "stdin"} /\ g.kind = file[f].kind
    BY <1>4, <1>10 DEF Socket!IsSocket
  <2>2. refused' \in BOOLEAN /\ UNCHANGED <<sockfd, kind, undefined>>
    BY <1>1, <1>5
  <2> QED
    BY <1>4, <1>9, <1>10, <1>11, <1>12, <1>13, <2>1, <2>2, SocketChanges
<1>15. ASSUME Socket!ReceivesRight, Socket!IInv
       PROVE  Socket!InboxWhole' /\ Socket!ToldIsOpen' /\ Socket!ClosedIsTheEnd' /\ Socket!TakenIsGiven'
  <2>1. Socket!InboxWhole /\ Socket!ToldIsOpen /\ Socket!ClosedIsTheEnd /\ Socket!TakenIsGiven
    BY <1>15 DEF Socket!IInv
  <2>2. /\ size > 0 /\ ~Socket!MayRaise(call, kind[o])
        /\ call = "recvmsg" => \A s \in Sizes : size <= s
    <3> DEFINE r == <<call, kind[o][2], size>>
    <3>1. r \in Receives /\ r[1] = call /\ r[2] = kind[o][2] /\ r[3] = size
      BY <1>1
    <3> HIDE DEF r
    <3>2. r[3] > 0 /\ (r[1] = "recvmsg" => \A s \in Sizes : r[3] <= s)
      BY <1>15, <3>1 DEF Socket!ReceivesRight
    <3>3. \A k \in Kinds : r[2] = k[2] => ~Socket!MayRaise(r[1], k)
      BY <1>15, <3>1 DEF Socket!ReceivesRight
    <3> QED
      BY <1>4, <3>1, <3>2, <3>3
  <2>3. \A h \in Socket!Fds : file'[h] = IF h = f THEN g ELSE file[h]
    BY <1>4, <1>5, <1>9
  <2>4. file[f].inbox # <<>> => 1 \in 1..Len(file[f].inbox) /\ file[f].inbox[1] > 0
    <3>1. file[f].inbox # <<>> => 1 \in 1..Len(file[f].inbox)
      BY <1>7
    <3> QED
      BY <1>4, <2>1, <3>1 DEF Socket!InboxWhole
  <2>5. Socket!InboxWhole'
    <3>1. ASSUME NEW i \in 1..Len(rest)
          PROVE  rest[i] > 0 /\ (kind[o][2] = "dgram" => rest[i] \in Sizes)
      <4>1. CASE stream /\ rest[i] > 0
        BY <4>1
      <4>2. CASE \E j \in 1..Len(file[f].inbox) : rest[i] = file[f].inbox[j]
        <5>1. kind[o] # <<>>
          BY <1>4, KindIsAPair
        <5> QED
          BY <1>4, <2>1, <4>2, <5>1 DEF Socket!InboxWhole
      <4> QED
        BY <1>8, <4>1, <4>2
    <3>2. \A i \in 1..Len(g.inbox) : g.inbox[i] > 0 /\ (g.kind # <<>> /\ g.kind[2] = "dgram" => g.inbox[i] \in Sizes)
      BY <1>4, <1>10, <3>1
    <3> QED
      BY <2>1, <2>3, <3>2 DEF Socket!InboxWhole
  <2>6. Socket!Answer(len) = "closed" => file[f].done /\ file[f].inbox = <<>>
    <3>1. Socket!Answer(len) = "closed" => len = 0
      BY <1>7 DEF Socket!Answer
    <3> QED
      BY <1>6, <1>7, <2>2, <2>4, <3>1
  <2>7. Socket!ToldIsOpen'
    BY <1>1, <1>2, <1>4, <2>1 DEF Socket!ToldIsOpen, f
  <2>8. Socket!ClosedIsTheEnd'
    <3>1. ASSUME NEW p \in told' PROVE file'[sockfd[p]].done /\ file'[sockfd[p]].inbox = <<>>
      <4>1. p \in told => file[sockfd[p]].done /\ file[sockfd[p]].inbox = <<>> /\ sockfd[p] > 0
        BY <2>1 DEF Socket!ClosedIsTheEnd, Socket!FileOf, Socket!ToldIsOpen
      <4>2. p \in Objects /\ (p \in told \/ (p = o /\ Socket!Answer(len) = "closed"))
        BY <1>2, <1>12
      <4>3. CASE p = o
        <5>1. file[f].done /\ file[f].inbox = <<>> /\ sockfd[p] = f
          BY <2>6, <4>1, <4>2, <4>3 DEF f
        <5> QED
          BY <1>4, <1>8, <1>10, <2>3, <5>1
      <4>4. CASE p # o
        <5>1. sockfd[p] \in Socket!Fds /\ sockfd[p] # f
          BY <1>4, <1>5, <4>1, <4>2, <4>4
        <5> QED
          BY <2>3, <4>1, <4>2, <4>4, <5>1
      <4> QED
        BY <4>3, <4>4
    <3> QED
      BY <1>1, <3>1 DEF Socket!ClosedIsTheEnd, Socket!FileOf
  <2>9. Socket!TakenIsGiven'
    <3>1. given = Socket!Pushed(call, len, size)
      BY <2>2
    <3>2. len > 0 => given = len
      <4>1. CASE call = "recvmsg"
        <5>1. kind[o][2] = "dgram" /\ kind[o] # <<>>
          BY <2>2, <4>1 DEF Socket!MayRaise
        <5>2. len > 0 => file[f].inbox[1] \in Sizes
          BY <1>4, <1>7, <2>1, <2>4, <5>1 DEF Socket!InboxWhole
        <5>3. len > 0 => len = size
          BY <1>7, <2>2, <4>1, <5>2
        <5> QED
          BY <3>1, <4>1, <5>3 DEF Socket!Pushed
      <4>2. CASE call # "recvmsg"
        BY <3>1, <4>2 DEF Socket!Pushed
      <4> QED
        BY <4>1, <4>2
    <3>3. (IF len > 0 THEN len - given ELSE 0) = 0
      BY <1>7, <3>2
    <3> QED
      BY <1>3, <1>5, <2>1, <3>3 DEF Socket!TakenIsGiven
  <2> QED
    BY <2>5, <2>7, <2>8, <2>9
<1> QED
  BY <1>14, <1>15 DEF Socket!IInv

(* A message that a peer sends waits at an open socket. *)
LEMMA SocketPeerSendsInv ==
  ASSUME Socket!Descriptors, NEW f \in Socket!Fds, NEW size \in Sizes, Socket!PeerSends(f, size)
  PROVE  Socket!Descriptors' /\ (Socket!ReceivesRight /\ Socket!IInv => Socket!IInv')
<1> DEFINE g == [file[f] EXCEPT !.inbox = Append(file[f].inbox, size)]
<1>1. /\ file[f].state \in {"connected", "bound"} /\ ~file[f].done /\ Len(file[f].inbox) < MaxQueue
      /\ file' = [file EXCEPT ![f] = g]
      /\ UNCHANGED <<sockfd, kind, told, balance, refused, undefined>>
  BY DEF Socket!PeerSends
<1>2. /\ file \in [Socket!Fds -> Socket!File] /\ file[f] \in Socket!File
      /\ balance \in [Objects -> Int] /\ told \subseteq Objects /\ refused \in BOOLEAN
      /\ sockfd \in [Objects -> Socket!Fds \cup {-1, -2}]
  BY DEF Socket!Descriptors, Socket!TypeOK
<1>3. size \in Nat /\ file[f].inbox \in Seq(Nat)
  BY <1>2, SocketConstants DEF Socket!File
<1>4. /\ Append(file[f].inbox, size) \in Seq(Nat) /\ Len(Append(file[f].inbox, size)) = Len(file[f].inbox) + 1
      /\ \A i \in 1..Len(file[f].inbox) : Append(file[f].inbox, size)[i] = file[f].inbox[i]
      /\ Append(file[f].inbox, size)[Len(file[f].inbox) + 1] = size
      /\ \A i \in 1..Len(Append(file[f].inbox, size)) : i \in 1..Len(file[f].inbox) \/ i = Len(file[f].inbox) + 1
  BY <1>3
<1>5. /\ g \in Socket!File /\ g.kind = file[f].kind /\ g.state = file[f].state /\ g.done = file[f].done
      /\ g.inbox = Append(file[f].inbox, size)
  BY <1>2, <1>4 DEF Socket!File
<1> HIDE DEF g
<1>6. Socket!Descriptors'
  <2>1. Len(g.inbox) <= MaxQueue
    BY <1>1, <1>3, <1>4, <1>5, SocketConstants
  <2>2. Socket!IsSocket(f) /\ g.state \notin {"none", "stdin"}
    BY <1>1, <1>5 DEF Socket!IsSocket
  <2>3. UNCHANGED <<sockfd, kind, undefined>> /\ told' \subseteq Objects /\ balance' \in [Objects -> Int] /\ refused' \in BOOLEAN
    BY <1>1, <1>2
  <2> QED
    BY <1>1, <1>5, <2>1, <2>2, <2>3, SocketChanges
<1>7. ASSUME Socket!ReceivesRight, Socket!IInv
      PROVE  Socket!InboxWhole' /\ Socket!ToldIsOpen' /\ Socket!ClosedIsTheEnd' /\ Socket!TakenIsGiven'
  <2>1. Socket!InboxWhole /\ Socket!ToldIsOpen /\ Socket!ClosedIsTheEnd /\ Socket!TakenIsGiven
    BY <1>7 DEF Socket!IInv
  <2>2. size > 0
    BY <1>3, <1>7 DEF Socket!ReceivesRight
  <2>3. \A h \in Socket!Fds : file'[h] = IF h = f THEN g ELSE file[h]
    BY <1>1, <1>2
  <2>4. \A i \in 1..Len(g.inbox) : g.inbox[i] > 0 /\ (g.kind # <<>> /\ g.kind[2] = "dgram" => g.inbox[i] \in Sizes)
    BY <1>4, <1>5, <2>1, <2>2 DEF Socket!InboxWhole
  <2>5. Socket!InboxWhole'
    BY <2>1, <2>3, <2>4 DEF Socket!InboxWhole
  <2>6. Socket!ToldIsOpen' /\ Socket!TakenIsGiven'
    BY <1>1, <2>1 DEF Socket!ToldIsOpen, Socket!TakenIsGiven
  <2>7. \A p \in told : sockfd[p] \in Socket!Fds /\ file[sockfd[p]].done /\ file[sockfd[p]].inbox = <<>>
    BY <1>2, <2>1 DEF Socket!ToldIsOpen, Socket!ClosedIsTheEnd, Socket!FileOf
  <2>8. \A p \in told : file'[sockfd[p]] = file[sockfd[p]]
    BY <1>1, <2>3, <2>7
  <2>9. Socket!ClosedIsTheEnd'
    BY <1>1, <2>7, <2>8 DEF Socket!ClosedIsTheEnd, Socket!FileOf
  <2> QED
    BY <2>5, <2>6, <2>9
<1> QED
  BY <1>6, <1>7 DEF Socket!IInv

(* The other steps of a peer touch nothing that waits. *)
LEMMA PeerChanges ==
  ASSUME Socket!Descriptors, NEW f \in Socket!Fds, Socket!IsSocket(f), NEW g \in Socket!File,
         g.state = file[f].state, g.kind = file[f].kind, g.inbox = file[f].inbox, file[f].done => g.done,
         file' = [file EXCEPT ![f] = g],
         UNCHANGED <<sockfd, kind, told, balance, refused, undefined>>
  PROVE  Socket!Descriptors' /\ (Socket!IInv => Socket!IInv')
<1>1. /\ told' \subseteq Objects /\ balance' \in [Objects -> Int] /\ refused' \in BOOLEAN
      /\ Len(file[f].inbox) <= MaxQueue
  BY DEF Socket!Descriptors, Socket!TypeOK
<1>2. g.state \notin {"none", "stdin"}
  BY DEF Socket!IsSocket
<1>3. Socket!Descriptors'
  BY <1>1, <1>2, SocketChanges
<1>4. ASSUME Socket!IInv PROVE Socket!IInv'
  BY <1>1, <1>3, <1>4, WaitingKept DEF Socket!IInv
<1> QED
  BY <1>3, <1>4

(* A peer that closes leaves what waits. *)
LEMMA SocketPeerClosesInv ==
  ASSUME Socket!Descriptors, NEW f \in Socket!Fds, Socket!PeerCloses(f)
  PROVE  Socket!Descriptors' /\ (Socket!IInv => Socket!IInv')
<1> DEFINE g == [file[f] EXCEPT !.done = TRUE]
<1>1. /\ file[f].state = "connected" /\ file' = [file EXCEPT ![f] = g]
      /\ UNCHANGED <<sockfd, kind, told, balance, refused, undefined>>
  BY DEF Socket!PeerCloses
<1>2. file[f] \in Socket!File
  BY DEF Socket!Descriptors, Socket!TypeOK
<1>3. /\ g \in Socket!File /\ g.kind = file[f].kind /\ g.state = file[f].state /\ g.done /\ g.inbox = file[f].inbox
  BY <1>2 DEF Socket!File
<1> HIDE DEF g
<1> QED
  BY <1>1, <1>3, PeerChanges DEF Socket!IsSocket

(* A connection waits at a listening socket. *)
LEMMA SocketPeerConnectsInv ==
  ASSUME Socket!Descriptors, NEW f \in Socket!Fds, Socket!PeerConnects(f)
  PROVE  Socket!Descriptors' /\ (Socket!IInv => Socket!IInv')
<1> DEFINE g == [file[f] EXCEPT !.pending = @ + 1]
<1>1. /\ file[f].state = "listening" /\ file[f].pending < MaxQueue /\ file' = [file EXCEPT ![f] = g]
      /\ UNCHANGED <<sockfd, kind, told, balance, refused, undefined>>
  BY DEF Socket!PeerConnects
<1>2. file[f] \in Socket!File
  BY DEF Socket!Descriptors, Socket!TypeOK
<1>3. file[f].pending + 1 \in 0..MaxQueue
  BY <1>1, <1>2, SocketConstants DEF Socket!File
<1>4. /\ g \in Socket!File /\ g.kind = file[f].kind /\ g.state = file[f].state /\ g.done = file[f].done
      /\ g.inbox = file[f].inbox
  BY <1>2, <1>3 DEF Socket!File
<1> HIDE DEF g
<1> QED
  BY <1>1, <1>4, PeerChanges DEF Socket!IsSocket

(* Every step of the sockets keeps the descriptors, and those of right calls the rest. *)
LEMMA SocketNextInv ==
  ASSUME Socket!Descriptors, Socket!Next
  PROVE  Socket!Descriptors' /\ (Socket!ReceivesRight /\ Socket!IInv => Socket!IInv')
<1>1. ASSUME NEW k \in Kinds, Socket!Socketpair(k) \/ \E o \in Objects : Socket!Socket(o, k)
      PROVE  Socket!Descriptors' /\ (Socket!IInv => Socket!IInv')
  BY <1>1, SocketpairInv, SocketCallInv
<1>2. ASSUME NEW o \in Objects, \E new \in Objects : Socket!Accept(o, new)
      PROVE  Socket!Descriptors' /\ (Socket!IInv => Socket!IInv')
  BY <1>2, AcceptInv
<1>3. ASSUME NEW o \in Objects, NEW b \in BOOLEAN, Socket!Close(o, b) \/ Socket!SetBlocking(o, b)
      PROVE  Socket!Descriptors' /\ (Socket!IInv => Socket!IInv')
  BY <1>3, CloseInv, SetBlockingInv
<1>4. ASSUME NEW o \in Objects, NEW arguments, NEW known \in BOOLEAN,
             Socket!Bind(o, arguments, known) \/ Socket!Connect(o, known)
      PROVE  Socket!Descriptors' /\ (Socket!IInv => Socket!IInv')
  BY <1>4, BindInv, ConnectInv
<1>5. ASSUME NEW o \in Objects, Socket!Listen(o) \/ Socket!ShutdownRead(o)
      PROVE  Socket!Descriptors' /\ (Socket!IInv => Socket!IInv')
  BY <1>5, ListenInv, ShutdownReadInv
<1>6. ASSUME NEW o \in Objects, NEW size, Socket!Recv(o, size) \/ Socket!RecvFrom(o, size) \/ Socket!RecvMsg(o, size)
      PROVE  Socket!Descriptors' /\ (Socket!ReceivesRight /\ Socket!IInv => Socket!IInv')
  BY <1>6, TakesInv DEF Socket!Recv, Socket!RecvFrom, Socket!RecvMsg
<1>7. ASSUME NEW f \in Socket!Fds,
             Socket!PeerCloses(f) \/ Socket!PeerConnects(f) \/ \E size \in Sizes : Socket!PeerSends(f, size)
      PROVE  Socket!Descriptors' /\ (Socket!ReceivesRight /\ Socket!IInv => Socket!IInv')
  BY <1>7, SocketPeerClosesInv, SocketPeerConnectsInv, SocketPeerSendsInv
<1> QED
  BY <1>1, <1>2, <1>3, <1>4, <1>5, <1>6, <1>7 DEF Socket!Next

(* So does a step of another part. *)
LEMMA SocketStutter ==
  ASSUME Socket!Descriptors, UNCHANGED socketVars
  PROVE  Socket!Descriptors' /\ (Socket!IInv => Socket!IInv')
<1>1. UNCHANGED <<sockfd, kind, file, told, balance, refused, undefined>>
  BY DEF socketVars
<1>2. Socket!Descriptors'
  BY <1>1 DEF Socket!Descriptors, Socket!TypeOK, Socket!OwnDescriptor, Socket!NoneLeaks, Socket!IsSocket
<1>3. ASSUME Socket!IInv
      PROVE  Socket!InboxWhole' /\ Socket!ToldIsOpen' /\ Socket!ClosedIsTheEnd' /\ Socket!TakenIsGiven'
  BY <1>1, <1>3 DEF Socket!IInv, Socket!InboxWhole, Socket!ToldIsOpen, Socket!ClosedIsTheEnd, Socket!TakenIsGiven,
     Socket!FileOf
<1> QED
  BY <1>2, <1>3 DEF Socket!IInv

-----------------------------------------------------------------------------
(* The specification. *)

(* A step of the composition is a step of each part, or leaves it alone. *)
LEMMA StepOfParts ==
  ASSUME [Next]_vars
  PROVE  /\ Socket!Next \/ UNCHANGED socketVars
         /\ Proxy!Next \/ UNCHANGED proxyVars
         /\ Http!Next \/ UNCHANGED httpVars
         /\ part' = part
<1>1. CASE UNCHANGED vars
  BY <1>1 DEF vars
<1>2. CASE Next
  BY <1>2 DEF Next, Only
<1> QED
  BY <1>1, <1>2

(* tcp_proxy.lua: nothing that a peer sends is lost or doubled on its way,   *)
(* and the direction whose end ends the session is complete, whatever the   *)
(* capacities of the sockets and the size of the buffer are.                *)
THEOREM ProxyCorrect == Spec => []ProxySafety
<1>1. Init => Proxy!IInv
  BY ProxyInit DEF Init
<1>2. Proxy!IInv /\ [Next]_vars => Proxy!IInv'
  BY StepOfParts, ProxyNextInv, ProxyStutter
<1>3. Proxy!IInv => ProxySafety
  BY ProxySafe DEF ProxySafety
<1> QED
  BY <1>1, <1>2, <1>3, PTL DEF Spec

(* http.lua: a response answers the latest request, and a connection that   *)
(* is kept has nothing left on it, whatever the server sends.               *)
THEOREM HttpCorrect == Spec => []HttpSafety
<1>1. Init => Http!IInv
  BY HttpInit DEF Init
<1>2. Http!IInv /\ [Next]_vars => Http!IInv'
  BY StepOfParts, HttpNextInv, HttpStutter
<1>3. Http!IInv => HttpSafety
  BY DEF Http!IInv, Http!Safety, HttpSafety
<1> QED
  BY <1>1, <1>2, <1>3, PTL DEF Spec

(* lsocklib.c: an open object has a live descriptor of its own, and only     *)
(* descriptor 0 is ever left behind, whatever is received, and after any    *)
(* number of closed and collected objects whose numbers were given again.   *)
DescriptorsRight == part = "sockets" => Socket!Descriptors

(* It holds whatever the calls ask for and the peers send. *)
THEOREM DescriptorsCorrect == Spec => []DescriptorsRight
<1>1. Init => Socket!Descriptors
  BY SocketInit DEF Init, Socket!IInv
<1>2. Socket!Descriptors /\ [Next]_vars => Socket!Descriptors'
  BY StepOfParts, SocketNextInv, SocketStutter
<1>3. Socket!Descriptors => DescriptorsRight
  BY DEF DescriptorsRight
<1> QED
  BY <1>1, <1>2, <1>3, PTL DEF Spec

(* lsocklib.c: where the application asks for something, no message is       *)
(* empty, recvmsg is asked for no more than each message has, and an        *)
(* address is read only where the kernel writes one, the end of a stream is *)
(* reported only when nothing more comes, and every byte taken is given.    *)
THEOREM SocketCorrect == Socket!ReceivesRight => (Spec => []SocketSafety)
<1> SUFFICES ASSUME Socket!ReceivesRight PROVE Spec => []SocketSafety
  OBVIOUS
<1>1. Init => Socket!IInv
  BY SocketInit DEF Init
<1>2. Socket!IInv /\ [Next]_vars => Socket!IInv'
  BY StepOfParts, SocketNextInv, SocketStutter DEF Socket!IInv
<1>3. Socket!IInv => SocketSafety
  BY DEF Socket!IInv, Socket!Descriptors, Socket!Safety, SocketSafety
<1> QED
  BY <1>1, <1>2, <1>3, PTL DEF Spec

=============================================================================
