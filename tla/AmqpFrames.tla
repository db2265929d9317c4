------------------------------- MODULE AmqpFrames -------------------------------
(***************************************************************************)
(* Deliveries, gets and the drain loop of lamqplib.c.  The server writes   *)
(* the frames of a channel in order, and the frames of different channels  *)
(* in any order.  A call that waits for its reply puts every other frame   *)
(* into the list of librabbitmq; basic_get puts the reply itself there, so *)
(* that drain_events finds the message as if it had been delivered.        *)
(***************************************************************************)
EXTENDS Integers, Sequences, FiniteSets, SequencesExt

CONSTANTS
  Channels,
  MaxSent   \* bound: how many messages the server sends on each channel

FramesAssumption == MaxSent \in [Channels -> Nat]

VARIABLES
  sent,    \* how many messages the server has sent on each channel
  outbox,  \* the frames of each channel that were not read from the socket
  asked,   \* the requests that the server has not answered
  frames,  \* the list of librabbitmq
  call,    \* the call that is under way
  given,   \* history: the messages that drain_events returned, for each channel
  announced, \* history: the messages that basic_get announced
  dropped  \* history: a frame was dropped, or was not the one that had to come

vars == <<sent, outbox, asked, frames, call, given, announced, dropped>>

Contents == {"deliver", "get_ok"}
Frame(c, kind, msg) == [channel |-> c, kind |-> kind, msg |-> msg]
Idle == [op |-> "none"]
Rpc(c) == [op |-> "rpc", channel |-> c]
Get(c) == [op |-> "get", channel |-> c]
Drain == [op |-> "drain"]
Reading(part, f) == [op |-> part, channel |-> f.channel, method |-> f]

TypeOK ==
  /\ \A c \in Channels : sent[c] \in 0..MaxSent[c]
  /\ \A c \in Channels : \A f \in Range(outbox[c]) : f.channel = c
  /\ asked \in [Channels -> {"none", "rpc", "get"}]
  /\ call.op \in {"none", "rpc", "get", "drain", "header", "body"}
  /\ \A c \in Channels : Range(given[c]) \subseteq 1 .. sent[c] /\ announced[c] \subseteq 1 .. sent[c]
  /\ dropped \in BOOLEAN

Init ==
  /\ sent = [c \in Channels |-> 0] /\ outbox = [c \in Channels |-> <<>>]
  /\ asked = [c \in Channels |-> "none"] /\ frames = <<>> /\ call = Idle
  /\ given = [c \in Channels |-> <<>>] /\ announced = [c \in Channels |-> {}] /\ dropped = FALSE

-----------------------------------------------------------------------------
(* The server. *)

(* A message is a method, a header and, unless it is empty, a body. *)
Message(c, kind, msg, empty) ==
  <<Frame(c, kind, msg), Frame(c, "header", IF empty THEN -msg ELSE msg)>>
  \o IF empty THEN <<>> ELSE <<Frame(c, "body", msg)>>

Sends(c, kind, empty) ==
  /\ sent[c] < MaxSent[c]
  /\ sent' = [sent EXCEPT ![c] = @ + 1]
  /\ outbox' = [outbox EXCEPT ![c] = @ \o Message(c, kind, sent[c] + 1, empty)]

ServerDelivers(c, empty) ==
  /\ Sends(c, "deliver", empty)
  /\ UNCHANGED <<asked, frames, call, given, announced, dropped>>

ServerReplies(c) ==
  /\ \/ asked[c] = "get" /\ \E empty \in BOOLEAN : Sends(c, "get_ok", empty)
     \/ /\ asked[c] # "none"
        /\ outbox' = [outbox EXCEPT ![c] = Append(@, Frame(c, IF asked[c] = "get" THEN "get_empty" ELSE "ok", 0))]
        /\ UNCHANGED sent
  /\ asked' = [asked EXCEPT ![c] = "none"]
  /\ UNCHANGED <<frames, call, given, announced, dropped>>

-----------------------------------------------------------------------------
(* Requests. *)

(* amqp_simple_rpc reads the socket and never the list. *)
Requests(c, op) ==
  /\ call = Idle
  /\ call' = op /\ asked' = [asked EXCEPT ![c] = op.op]
  /\ UNCHANGED <<sent, outbox, frames, given, announced, dropped>>

(* channel:basic_consume(), basic_qos() and other calls that have a reply. *)
CallRpc(c) == Requests(c, Rpc(c))

(* channel:basic_get(queue). *)
BasicGet(c) == Requests(c, Get(c))

IsReply(f) ==
  /\ f.channel = call.channel
  /\ f.kind \in (IF call.op = "rpc" THEN {"ok"} ELSE {"get_ok", "get_empty"})

(* Mutants of Requeued: the frame goes first; it is forgotten.             *)
RequeuedFirst(list, f) == IF f.kind = "get_ok" THEN <<f>> \o list ELSE list

RequeuedNowhere(list, f) == list

(* The reply to basic_get goes to the end of the list. *)
Requeued(list, f) == IF f.kind = "get_ok" THEN Append(list, f) ELSE list

AwaitReply(c) ==
  LET f == Head(outbox[c]) IN
  /\ call.op \in {"rpc", "get"} /\ outbox[c] # <<>>
  /\ outbox' = [outbox EXCEPT ![c] = Tail(@)]
  /\ IF IsReply(f)
     THEN /\ call' = Idle /\ frames' = Requeued(frames, f)
          /\ announced' = IF f.kind = "get_ok" THEN [announced EXCEPT ![c] = @ \cup {f.msg}] ELSE announced
     ELSE frames' = Append(frames, f) /\ UNCHANGED <<call, announced>>
  /\ UNCHANGED <<sent, asked, given, dropped>>

-----------------------------------------------------------------------------
(* connection:drain_events(timeout) and drain_event. *)

DrainEvents ==
  /\ call = Idle
  /\ call' = Drain
  /\ UNCHANGED <<sent, outbox, asked, frames, given, announced, dropped>>

(* The frame that starts an event; another one is dropped. *)
Takes(f) ==
  /\ call' = IF f.kind \in Contents THEN Reading("header", f) ELSE Drain
  /\ dropped' = (dropped \/ f.kind \notin Contents)

FromList ==
  /\ call = Drain /\ frames # <<>>
  /\ Takes(Head(frames)) /\ frames' = Tail(frames)
  /\ UNCHANGED <<sent, outbox, asked, given, announced>>

FromSocket(c) ==
  /\ call = Drain /\ frames = <<>> /\ outbox[c] # <<>>
  /\ Takes(Head(outbox[c])) /\ outbox' = [outbox EXCEPT ![c] = Tail(@)]
  /\ UNCHANGED <<sent, asked, frames, given, announced>>

(* The timeout is over and nothing has come. *)
TimesOut ==
  /\ call = Drain /\ frames = <<>>
  /\ call' = Idle
  /\ UNCHANGED <<sent, outbox, asked, frames, given, announced, dropped>>

(* amqp_read_message is given the channel of the frame. *)
ReadsChannel == {call.channel}

(* The table that is returned is made of the method and of the message. *)
Event(m, f) == m.msg

(* The message is read up to its end, and then returned. *)
Continues(f) ==
  LET m == call.method
      whole == f.kind = "body" \/ f.msg < 0
  IN /\ dropped' = (dropped \/ f.kind # call.op \/ f.msg \notin {m.msg, -m.msg} \/ f.channel # m.channel)
     /\ IF whole THEN call' = Idle /\ given' = [given EXCEPT ![m.channel] = Append(@, Event(m, f))]
        ELSE call' = Reading("body", m) /\ UNCHANGED given

(* The first frame of the channel in the list, or else from the socket;     *)
(* frames of other channels that are read meanwhile go to the list.        *)
InList == {i \in DOMAIN frames : frames[i].channel \in ReadsChannel}

ReadListed ==
  /\ call.op \in {"header", "body"} /\ InList # {}
  /\ LET first == CHOOSE i \in InList : \A j \in InList : i <= j
     IN Continues(frames[first]) /\ frames' = RemoveAt(frames, first)
  /\ UNCHANGED <<sent, outbox, asked, announced>>

ReadSocket(c) ==
  /\ call.op \in {"header", "body"} /\ InList = {} /\ outbox[c] # <<>>
  /\ outbox' = [outbox EXCEPT ![c] = Tail(@)]
  /\ IF c \in ReadsChannel THEN Continues(Head(outbox[c])) /\ UNCHANGED frames
     ELSE frames' = Append(frames, Head(outbox[c])) /\ UNCHANGED <<call, given, dropped>>
  /\ UNCHANGED <<sent, asked, announced>>

Next ==
  \/ \E c \in Channels :
       \/ \E empty \in BOOLEAN : ServerDelivers(c, empty)
       \/ ServerReplies(c) \/ CallRpc(c) \/ BasicGet(c)
       \/ AwaitReply(c) \/ FromSocket(c) \/ ReadSocket(c)
  \/ DrainEvents \/ FromList \/ TimesOut \/ ReadListed

Spec == Init /\ [][Next]_vars

(* The server answers, the client reads what there is to read, and the     *)
(* application goes on calling drain_events.                               *)
Reads(c) == AwaitReply(c) \/ FromSocket(c) \/ ReadSocket(c)
FairSpec ==
  /\ Spec
  /\ \A c \in Channels : WF_vars(ServerReplies(c)) /\ SF_vars(Reads(c))
  /\ WF_vars(FromList) /\ WF_vars(ReadListed) /\ SF_vars(DrainEvents) /\ WF_vars(TimesOut)

-----------------------------------------------------------------------------
(* Properties. *)

(* The application gets the messages of a channel in the order in which     *)
(* the server sent them, none twice and none left out, however requests,   *)
(* gets and drains on other channels came in between.                      *)
InOrder == \A c \in Channels : given[c] = [i \in DOMAIN given[c] |-> i]

(* Every frame is read by a step that expects it: the header and the body   *)
(* that are read are those of the message that was begun.                  *)
FramesInPlace == ~dropped

(* A message that basic_get announced is not lost: it has been given, is    *)
(* being read, or starts with a frame in the list.                         *)
AnnouncedIsThere ==
  \A c \in Channels : \A m \in announced[c] :
    \/ m \in Range(given[c])
    \/ call.op \in {"header", "body"} /\ call.method.channel = c /\ call.method.msg = m
    \/ Frame(c, "get_ok", m) \in Range(frames)

(* What was sent is given at last, if the application goes on draining.     *)
SentIsGiven == \A c \in Channels : \A m \in 1..MaxSent[c] : sent[c] >= m ~> m \in Range(given[c])

(* What every state of the component keeps. *)
Safety == TypeOK /\ InOrder /\ FramesInPlace /\ AnnouncedIsThere

-----------------------------------------------------------------------------
(* The inductive invariant behind the safety properties. *)

Kinds == Contents \cup {"header", "body"}
Replies == {"ok", "get_empty"}
AllFrames == [channel : Channels, kind : Kinds \cup Replies, msg : Int]

FramesTyped ==
  /\ sent \in [Channels -> Nat] /\ outbox \in [Channels -> Seq(AllFrames)] /\ frames \in Seq(AllFrames)
  /\ call \in {Idle, Drain} \cup {Rpc(c) : c \in Channels} \cup {Get(c) : c \in Channels}
              \cup {Reading(part, f) : part \in {"header", "body"}, f \in AllFrames}
  /\ given \in [Channels -> Seq(Nat)] /\ announced \in [Channels -> SUBSET Nat]

(* The message that a frame belongs to, and its place in the message. *)
MessageOf(f) == IF f.msg < 0 THEN -f.msg ELSE f.msg
Place(f) == IF f.kind \in Contents THEN 0 ELSE IF f.kind = "header" THEN 1 ELSE 2

(* Any frame but the header of an empty message, whose number is negative.  *)
Filled(f) == f.msg > 0

Precedes(f, g) == MessageOf(f) < MessageOf(g) \/ (MessageOf(f) = MessageOf(g) /\ Place(f) < Place(g))

(* The frames of c that were not given yet: in the list, and then in the    *)
(* socket.                                                                 *)
Left(list, box, c) ==
  {list[i] : i \in {i \in 1..Len(list) : list[i].channel = c}}
  \cup {box[i] : i \in {i \in 1..Len(box) : box[i].kind \in Kinds}}

(* They are in the order in which they were sent. *)
Sequential(list, box, c) ==
  /\ \A i, j \in 1..Len(list) :
       i < j /\ list[i].channel = c /\ list[j].channel = c => Precedes(list[i], list[j])
  /\ \A i \in 1..Len(list), j \in 1..Len(box) :
       list[i].channel = c /\ box[j].kind \in Kinds => Precedes(list[i], box[j])
  /\ \A i, j \in 1..Len(box) :
       i < j /\ box[i].kind \in Kinds /\ box[j].kind \in Kinds => Precedes(box[i], box[j])

InSequence == \A c \in Channels : Sequential(frames, outbox[c], c)

Has(S, n, place) == \E f \in S : MessageOf(f) = n /\ Place(f) = place

(* The frames S are those of the messages after the first g, up to the last *)
(* that was sent, without those before the given place in the first one: a  *)
(* method, a header that says whether there is a body, and the body.       *)
Complete(S, g, last, place) ==
  /\ place > 0 => g < last
  /\ \A f \in S :
       /\ f.kind \in Kinds /\ MessageOf(f) \in g + 1 .. last
       /\ f.kind # "header" => Filled(f)
       /\ MessageOf(f) = g + 1 => Place(f) >= place
  /\ \A n \in g + 1 .. last :
       /\ n > g + 1 \/ place = 0 => Has(S, n, 0)
       /\ n > g + 1 \/ place <= 1 =>
            \E f \in S : MessageOf(f) = n /\ Place(f) = 1 /\ (Filled(f) <=> Has(S, n, 2))
       /\ n = g + 1 /\ place = 2 => Has(S, n, 2)

(* The place that is read next in the first message left of c. *)
NextPlace(c) ==
  IF call.op = "header" /\ call.channel = c THEN 1 ELSE IF call.op = "body" /\ call.channel = c THEN 2 ELSE 0

NoneMissing ==
  \A c \in Channels : Complete(Left(frames, outbox[c], c), Len(given[c]), sent[c], NextPlace(c))

(* The message being read is the one after the last that was given.        *)
ReadsNext ==
  call.op \in {"header", "body"} =>
    call.method.channel = call.channel /\ call.method.msg = Len(given[call.channel]) + 1

(* A reply is on its way only to the call that waits for it, and after that *)
(* call has been answered.                                                 *)
Awaits(c, op) == call.op = op /\ call.channel = c
IsAnswer(f) == f.kind \in Replies \cup {"get_ok"}
RepliesAwaited ==
  \A c \in Channels :
    /\ asked[c] # "none" => Awaits(c, asked[c])
    /\ \A i \in 1..Len(outbox[c]) : IsAnswer(outbox[c][i]) =>
         /\ Awaits(c, IF outbox[c][i].kind = "ok" THEN "rpc" ELSE "get") /\ asked[c] = "none"
         /\ \A j \in 1..Len(outbox[c]) : IsAnswer(outbox[c][j]) => i = j

IInv ==
  /\ TypeOK /\ FramesTyped /\ InSequence /\ NoneMissing /\ ReadsNext /\ RepliesAwaited
  /\ InOrder /\ FramesInPlace /\ AnnouncedIsThere

=============================================================================
