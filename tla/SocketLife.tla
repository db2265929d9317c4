------------------------------- MODULE SocketLife -------------------------------
(***************************************************************************)
(* The socket objects of lsocklib.c and the descriptors behind them.  An   *)
(* object has a number that the kernel gives to another file once it is    *)
(* closed; it is closed by close() or by the collector.  The peers are the  *)
(* environment.  (Names of peers, and what is sent, are left out: no call   *)
(* of this module looks at them.)                                          *)
(***************************************************************************)
EXTENDS Integers, Sequences, FiniteSets, FiniteSetsExt

CONSTANTS
  Objects,    \* userdata
  MaxFd,      \* bound: the largest descriptor
  Kinds,      \* the families and types in use
  Receives,   \* the receiving calls in use, with the type of socket and the size asked for
  Stdin,      \* whether descriptor 0 is the standard input
  Sizes,      \* the sizes of what a peer sends
  MaxQueue    \* bound: what waits at a socket

SocketAssumption ==
  /\ {MaxFd, MaxQueue} \subseteq Nat
  /\ Kinds \subseteq {"inet", "unix"} \X {"stream", "dgram"}
  /\ Receives \subseteq {"recv", "recvfrom", "recvmsg"} \X {"stream", "dgram"} \X Nat
  /\ Stdin \in BOOLEAN
  /\ Sizes \subseteq Nat

VARIABLES
  sockfd,   \* sockobj.sockfd; -2 of an object that does not exist
  kind,     \* sockobj.family and sockobj.type
  file,     \* what a descriptor stands for in the kernel
  told,     \* the objects that were told that the peer has closed
  balance,  \* history: the bytes taken from the kernel and not given to the application
  refused,  \* history: a documented call was refused for its arguments
  undefined \* history: the behaviour is undefined from here on

vars == <<sockfd, kind, file, told, balance, refused, undefined>>

Fds == 0 .. MaxFd
NoFile == [kind |-> <<>>, state |-> "none", nonblock |-> FALSE, inbox |-> <<>>, done |-> FALSE, pending |-> 0]
File ==
  [kind : Kinds \cup {<<>>}, state : {"none", "stdin", "fresh", "bound", "listening", "connected"},
   nonblock : BOOLEAN, inbox : Seq(Nat), done : BOOLEAN, pending : 0..MaxQueue]
NewSocket(k) == [NoFile EXCEPT !.kind = k, !.state = "fresh"]

TypeOK ==
  /\ sockfd \in [Objects -> Fds \cup {-1, -2}]
  /\ kind \in [Objects -> Kinds \cup {<<>>}]
  /\ \A o \in Objects : sockfd[o] # -2 => kind[o] \in Kinds
  /\ file \in [Fds -> File]
  /\ \A f \in Fds : Len(file[f].inbox) <= MaxQueue
  /\ told \subseteq Objects /\ balance \in [Objects -> Int] /\ refused \in BOOLEAN /\ undefined \in BOOLEAN

Init ==
  /\ sockfd = [o \in Objects |-> -2] /\ kind = [o \in Objects |-> <<>>]
  /\ file = [f \in Fds |-> IF Stdin /\ f = 0 THEN [NoFile EXCEPT !.state = "stdin"] ELSE NoFile]
  /\ told = {} /\ balance = [o \in Objects |-> 0] /\ refused = FALSE /\ undefined = FALSE

(* The kernel gives the lowest descriptor. *)
Unused == {f \in Fds : file[f].state = "none"}

-----------------------------------------------------------------------------
(* Objects. *)

(* lsock_checkobj. *)
Usable(o) == sockfd[o] > 0 /\ ~undefined
FileOf(o) == file[sockfd[o]]

(* accept() gives the new object the family and type of the old one. *)
Inherited(o) == kind[o]

NewObject(o, f, k) ==
  /\ sockfd[o] = -2
  /\ sockfd' = [sockfd EXCEPT ![o] = f]
  /\ kind' = [kind EXCEPT ![o] = k]
  /\ balance' = [balance EXCEPT ![o] = 0]

(* socket.socket(family, type). *)
Socket(o, k) ==
  /\ ~undefined /\ Unused # {}
  /\ NewObject(o, Min(Unused), k)
  /\ file' = [file EXCEPT ![Min(Unused)] = NewSocket(k)]
  /\ UNCHANGED <<told, refused, undefined>>

(* socket.socketpair(): lua_rawseti finds a userdata where it takes a table. *)
Socketpair(k) ==
  /\ ~undefined /\ Cardinality(Unused) > 1
  /\ undefined' = TRUE
  /\ UNCHANGED <<sockfd, kind, file, told, balance, refused>>

(* sockobj:accept(); a blocking socket waits for a connection. *)
Accept(o, new) ==
  /\ Usable(o) /\ FileOf(o).state = "listening" /\ FileOf(o).pending > 0 /\ Unused # {}
  /\ NewObject(new, Min(Unused), Inherited(o))
  /\ file' = [file EXCEPT ![sockfd[o]].pending = @ - 1,
                          ![Min(Unused)] = [NewSocket(kind[o]) EXCEPT !.state = "connected"]]
  /\ UNCHANGED <<told, refused, undefined>>

Closes(f) == f > 0

AfterClose(f) == IF Closes(f) THEN -1 ELSE f

(* sockobj:close(), and __gc: then the object is there no more. *)
Close(o, collected) ==
  /\ sockfd[o] # -2 /\ ~undefined
  /\ file' = IF Closes(sockfd[o]) THEN [file EXCEPT ![sockfd[o]] = NoFile] ELSE file
  /\ sockfd' = [sockfd EXCEPT ![o] = IF collected THEN -2 ELSE AfterClose(@)]
  /\ told' = told \ {o}
  /\ UNCHANGED <<kind, balance, refused, undefined>>

-----------------------------------------------------------------------------
(* Addresses. *)

(* sockobj:bind(): the arguments are (port, ip_addr), a table, (unix_path)  *)
(* as documented, or anything and then the path.                           *)
BindArguments(family) == IF family = "inet" THEN {"port", "table"} ELSE {"path", "path second"}

(* gen_sockaddr: a path is taken as it is, and a host may be unknown. *)
AddressLength(family, known) == IF family = "inet" /\ ~known THEN 0 ELSE 1

(* A path in the second place is not looked at; bind() may also fail. *)
Bind(o, arguments, known) ==
  /\ Usable(o) /\ FileOf(o).state = "fresh" /\ arguments \in BindArguments(kind[o][1])
  /\ IF arguments = "path"
     THEN refused' = TRUE /\ UNCHANGED file
     ELSE /\ AddressLength(kind[o][1], known) > 0
          /\ file' = [file EXCEPT ![sockfd[o]].state = "bound"]
          /\ UNCHANGED refused
  /\ UNCHANGED <<sockfd, kind, told, balance, undefined>>

(* sockobj:connect(). *)
Connect(o, known) ==
  /\ Usable(o) /\ AddressLength(kind[o][1], known) > 0 /\ FileOf(o).state \in {"fresh", "bound"} /\ kind[o][2] = "stream"
  /\ file' = [file EXCEPT ![sockfd[o]].state = "connected"]
  /\ UNCHANGED <<sockfd, kind, told, balance, refused, undefined>>

(* sockobj:listen(). *)
Listen(o) ==
  /\ Usable(o) /\ FileOf(o).state = "bound" /\ kind[o][2] = "stream"
  /\ file' = [file EXCEPT ![sockfd[o]].state = "listening"]
  /\ UNCHANGED <<sockfd, kind, told, balance, refused, undefined>>

(* sockobj:setblocking(flag). *)
SetBlocking(o, blocking) ==
  /\ Usable(o) /\ FileOf(o).nonblock = blocking
  /\ file' = [file EXCEPT ![sockfd[o]].nonblock = ~blocking]
  /\ UNCHANGED <<sockfd, kind, told, balance, refused, undefined>>

(* sockobj:shutdown(SHUT_RD): what follows is an end of file. *)
ShutdownRead(o) ==
  /\ Usable(o) /\ FileOf(o).state = "connected"
  /\ file' = [file EXCEPT ![sockfd[o]].done = TRUE]
  /\ UNCHANGED <<sockfd, kind, told, balance, refused, undefined>>

-----------------------------------------------------------------------------
(* Receiving. *)

(* What the system call does: a stream keeps what was not asked for. *)
Rest(inbox, stream, n) ==
  IF inbox = <<>> THEN <<>>
  ELSE IF stream /\ n < Head(inbox) THEN <<Head(inbox) - n>> \o Tail(inbox) ELSE Tail(inbox)

(* What recv makes of the system call's value; -1 is EAGAIN or EINTR.       *)
Answer(len) == IF len > 0 THEN "bytes" ELSE IF len = 0 THEN "closed" ELSE "empty"

(* Mutants of Pushed: the whole buffer; a byte is kept for a NUL.          *)
PushedBuffer(call, len, size) == size
PushedLess(call, len, size) == len - 1

(* How many bytes the application gets: recvmsg pushes iov_len. *)
Pushed(call, len, size) == IF call = "recvmsg" THEN size ELSE len

(* Whether the kernel wrote the peer's address, which lsock_pushaddr reads; *)
(* a family that is not one raises an error.                               *)
MayRaise(call, k) == call # "recv" /\ k # <<"inet", "dgram">>

Lengths(o, size) ==
  (IF FileOf(o).inbox # <<>> THEN {Min({size, Head(FileOf(o).inbox)})}
   ELSE IF FileOf(o).done THEN {0}
   ELSE IF FileOf(o).nonblock THEN {-1} ELSE {}) \cup {-1}

Takes(o, call, size) ==
  /\ Usable(o) /\ <<call, kind[o][2], size>> \in Receives
  /\ FileOf(o).state \in (IF kind[o][2] = "stream" THEN {"connected"} ELSE {"bound"})
  /\ \E len \in Lengths(o, size) :
       /\ file' = IF len < 0 THEN file
                  ELSE [file EXCEPT ![sockfd[o]].inbox = Rest(@, kind[o][2] = "stream", len)]
       /\ told' = IF Answer(len) = "closed" THEN told \cup {o} ELSE told
       /\ \E given \in {Pushed(call, len, size)} \cup IF MayRaise(call, kind[o]) THEN {0} ELSE {} :
            balance' = [balance EXCEPT ![o] = IF len > 0 THEN len - given ELSE 0]
  /\ UNCHANGED <<sockfd, kind, refused, undefined>>

(* sockobj:recv(bufsize), recvfrom(bufsize) and recvmsg(bufsize). *)
Recv(o, size) == Takes(o, "recv", size)
RecvFrom(o, size) == Takes(o, "recvfrom", size)
RecvMsg(o, size) == Takes(o, "recvmsg", size)

-----------------------------------------------------------------------------
(* The peers. *)

PeerSends(f, size) ==
  /\ file[f].state = (IF file[f].kind = <<>> THEN "none"
                      ELSE IF file[f].kind[2] = "stream" THEN "connected" ELSE "bound")
  /\ file[f].kind # <<>> /\ ~file[f].done /\ Len(file[f].inbox) < MaxQueue
  /\ file[f].kind[2] = "stream" => size > 0
  /\ file' = [file EXCEPT ![f].inbox = Append(@, size)]
  /\ UNCHANGED <<sockfd, kind, told, balance, refused, undefined>>

PeerCloses(f) ==
  /\ file[f].state = "connected" /\ ~file[f].done
  /\ file' = [file EXCEPT ![f].done = TRUE]
  /\ UNCHANGED <<sockfd, kind, told, balance, refused, undefined>>

PeerConnects(f) ==
  /\ file[f].state = "listening" /\ file[f].pending < MaxQueue
  /\ file' = [file EXCEPT ![f].pending = @ + 1]
  /\ UNCHANGED <<sockfd, kind, told, balance, refused, undefined>>

Next ==
  \/ \E k \in Kinds : Socketpair(k) \/ \E o \in Objects : Socket(o, k)
  \/ \E o \in Objects :
       \/ \E new \in Objects : Accept(o, new)
       \/ \E b \in BOOLEAN : Close(o, b) \/ SetBlocking(o, b)
       \/ \E arguments \in {"port", "table", "path", "path second"}, known \in BOOLEAN :
            Bind(o, arguments, known) \/ Connect(o, known)
       \/ Listen(o) \/ ShutdownRead(o)
       \/ \E size \in {receive[3] : receive \in Receives} : Recv(o, size) \/ RecvFrom(o, size) \/ RecvMsg(o, size)
  \/ \E f \in Fds : PeerCloses(f) \/ PeerConnects(f) \/ \E size \in Sizes : PeerSends(f, size)

Spec == Init /\ [][Next]_vars

-----------------------------------------------------------------------------
(* Properties. *)

IsSocket(f) == file[f].state \notin {"none", "stdin"}

(* An open object has a descriptor of its own, which is still the socket    *)
(* that it was made for: close() never closes what another object uses.    *)
OwnDescriptor ==
  \A o \in Objects : sockfd[o] >= 0 =>
    /\ IsSocket(sockfd[o]) /\ file[sockfd[o]].kind = kind[o]
    /\ \A p \in Objects \ {o} : sockfd[p] # sockfd[o]

(* A socket that no object stands for any more is closed: only descriptor 0 *)
(* is left open by close() and by the collector.                           *)
NoneLeaks == \A f \in Fds \ {0} : IsSocket(f) => \E o \in Objects : sockfd[o] = f

(* An open object can be used: the checks of close(), of the collector and  *)
(* of every call agree with closed() on what a closed socket is.           *)
(* The code does not keep it: README, "Disagreements".                      *)
OpenIsUsable == \A o \in Objects : sockfd[o] # -2 /\ sockfd[o] # -1 => sockfd[o] > 0

(* "connection closed by peer" means that nothing more will come: neither   *)
(* an empty message, nor a call that was interrupted or found nothing yet,  *)
(* is taken for the end.                                                   *)
ClosedIsTheEnd == \A o \in told : FileOf(o).done /\ FileOf(o).inbox = <<>>

(* Every byte that a call takes from the socket is given to the             *)
(* application, and nothing else is.                                       *)
TakenIsGiven == \A o \in Objects : balance[o] = 0

(* bind() takes the arguments that the documentation says.                 *)
(* The code does not keep it: README, "Disagreements".                      *)
BindAsDocumented == ~refused

(* socketpair() returns.                                                   *)
(* The code does not keep it: README, "Disagreements".                      *)
PairReturns == ~undefined

(* What every state of the component keeps. *)
Safety == TypeOK /\ OwnDescriptor /\ NoneLeaks /\ ClosedIsTheEnd /\ TakenIsGiven

-----------------------------------------------------------------------------
(* The inductive invariants behind the safety properties. *)

(* The receiving calls that the code gets right: messages that are not      *)
(* empty, something asked for, an address wherever one is read, and for     *)
(* recvmsg a buffer that each message fills.                                *)
ReceivesRight ==
  /\ 0 \notin Sizes
  /\ \A r \in Receives :
       /\ r[3] > 0
       /\ \A k \in Kinds : r[2] = k[2] => ~MayRaise(r[1], k)
       /\ r[1] = "recvmsg" => \A size \in Sizes : r[3] <= size

(* What waits at a socket of datagrams are whole messages, and nothing that *)
(* waits is empty.                                                          *)
InboxWhole ==
  \A f \in Fds : \A i \in 1..Len(file[f].inbox) :
    /\ file[f].inbox[i] > 0
    /\ file[f].kind # <<>> /\ file[f].kind[2] = "dgram" => file[f].inbox[i] \in Sizes

ToldIsOpen == \A o \in told : sockfd[o] > 0

Descriptors == TypeOK /\ OwnDescriptor /\ NoneLeaks

IInv == Descriptors /\ InboxWhole /\ ToldIsOpen /\ ClosedIsTheEnd /\ TakenIsGiven

=============================================================================
