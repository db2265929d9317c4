------------------------------ MODULE AmqpChannel ------------------------------
(***************************************************************************)
(* The connection and channel bookkeeping of lamqplib.c (the Lua module    *)
(* "rabbitmq"), between one Lua application and one AMQP server.           *)
(*                                                                         *)
(* The client keeps a status, a bitmap of the channel numbers it believes  *)
(* open and, in every channel object, a number and a time stamp.  The      *)
(* server keeps its own view of every channel and talks asynchronously: a  *)
(* close notice it sends is read by whichever call reads the socket next,  *)
(* and a call that waits for its reply sets other channels' notices aside  *)
(* in the frame list of librabbitmq, where only drain_events looks.        *)
(*                                                                         *)
(* The application is one Lua thread, so a call is one action, except that *)
(* a call whose reply the server will never send leaves `call' set until   *)
(* the link breaks.  Content frames are left out (RabbitMQ writes a        *)
(* message's frames back to back, so reading one moves no close notice).   *)
(***************************************************************************)
EXTENDS Integers

CONSTANTS
  Handle,          \* the channel objects (Lua userdata) the application can hold
  NoHandle,        \* not a channel object
  MaxId,           \* the last number the bitmap conn->channels has a bit for
  ChannelMaxes,    \* what channel_max may be negotiated to at login
  Heartbeat,       \* whether the connection was configured with a heartbeat
  MaxTime,         \* bound: the last second of the wall clock
  MaxConnections   \* bound: how often the connection is established

ASSUME ChannelAssumption ==
  /\ NoHandle \notin Handle
  /\ MaxId \in Nat \ {0}
  /\ ChannelMaxes \subseteq 1 .. MaxId
  /\ Heartbeat \in BOOLEAN
  /\ MaxTime \in Nat
  /\ MaxConnections \in Nat

Number == 1 .. MaxId               \* channel numbers; 0 is the connection itself

VARIABLES
  state,       \* conn->state: "null", or "set" to librabbitmq's connection object
  status,      \* conn->status: 1 good, 0 closed, -1 broken
  timestamp,   \* conn->timestamp: when the connection was established
  channels,    \* conn->channels: the numbers whose bit is set
  live,        \* the channel objects that exist
  channelId,   \* ch->channel_id
  stamp,       \* ch->timestamp
  born,        \* history: which connection a channel object was made on
  epoch,       \* history: how many connections were established
  channelMax,  \* amqp_get_channel_max(conn->state), negotiated at login
  now,         \* time(NULL)
  call,        \* the call that is blocked in librabbitmq, or Idle
  link,        \* the transport: "none", "up", "closing", "lost" or "expired"
  server,      \* the server's view of every channel
  wire,        \* close notices sent by the server and not read (0: connection.close)
  queued,      \* close notices read and set aside in librabbitmq's frame list
  overran      \* history: the scan left the bitmap on this connection

connVars   == <<state, status, timestamp, channels, epoch, channelMax>>
objectVars == <<live, channelId, stamp, born>>
netVars    == <<link, server, wire, queued>>
vars       == <<connVars, objectVars, now, call, netVars, overran>>

Idle == [op |-> "none", ch |-> NoHandle, id |-> 0]

Call == [op : {"rpc", "open", "close"}, ch : Handle, id : Number]

ConnTypeOK ==
  /\ state \in {"null", "set"}
  /\ status \in {-1, 0, 1}
  /\ timestamp \in 0 .. MaxTime
  /\ channels \in SUBSET (0 .. MaxId)
  /\ epoch \in 0 .. MaxConnections
  /\ channelMax \in ChannelMaxes \cup {0}

ObjectTypeOK ==
  /\ live \in SUBSET Handle
  /\ channelId \in [Handle -> Number \cup {-1}]
  /\ stamp \in [Handle -> 0 .. MaxTime]
  /\ born \in [Handle -> 0 .. MaxConnections]

NetTypeOK ==
  /\ link \in {"none", "up", "closing", "lost", "expired"}
  /\ server \in [Number -> {"closed", "open", "closing"}]
  /\ wire \in SUBSET (0 .. MaxId)
  /\ queued \in SUBSET (0 .. MaxId)

(* The type of the variables. *)
TypeOK ==
  /\ ConnTypeOK
  /\ ObjectTypeOK
  /\ NetTypeOK
  /\ now \in 0 .. MaxTime
  /\ call \in Call \cup {Idle}
  /\ overran \in BOOLEAN

AllClosed == [n \in Number |-> "closed"]

(* cn_create before its login succeeded: a zeroed connection_t. *)
Init ==
  /\ state = "null"
  /\ status = 0
  /\ timestamp = 0
  /\ channels = {}
  /\ live = {}
  /\ channelId = [h \in Handle |-> -1]
  /\ stamp = [h \in Handle |-> 0]
  /\ born = [h \in Handle |-> 0]
  /\ epoch = 0
  /\ channelMax = 0
  /\ now = 0
  /\ call = Idle
  /\ link = "none"
  /\ server = AllClosed
  /\ wire = {}
  /\ queued = {}
  /\ overran = FALSE

-----------------------------------------------------------------------------
(* The checks in front of every operation. *)

(* connection:good(), and the macro check_connection. *)
Good == state = "set" /\ status > 0

(* Mutants of Usable: the time stamp, or the bit, is not looked at. *)
UsableAtAnyTime(h) == h \in live /\ Good /\ channelId[h] \in channels \ {0}
UsableWithoutBit(h) == h \in live /\ Good /\ stamp[h] >= timestamp /\ channelId[h] > 0

(* The macro check_channel. *)
Usable(h) ==
  /\ h \in live
  /\ Good
  /\ stamp[h] >= timestamp
  /\ channelId[h] > 0
  /\ channelId[h] \in channels

(* luaL_argcheck on the argument of connection:channel(id). *)
ArgOk(id) == id >= 0 /\ (channelMax = 0 \/ id < channelMax)

(* The scan of the bitmap for its first clear bit. *)
IsFirstFree(n) ==
  /\ n \notin channels
  /\ \A m \in 0 .. (n - 1) : m \in channels

-----------------------------------------------------------------------------
(* librabbitmq and the server, as lamqplib.c uses them. *)

(* The frames `f' that a waiting call reads and sets aside. *)
SetAside(f) ==
  /\ wire' = wire \ f
  /\ queued' = queued \cup f

(* amqp_simple_rpc on channel c.  It reads the socket only, never the frame *)
(* list, until the expected reply, a close of channel c or a close of the   *)
(* connection, and sets everything else aside.  `answered' says whether the *)
(* server replies to the request.  Nothing follows a connection.close.      *)
SimpleRpc(c, answered, outcome) ==
  \/ /\ outcome = "reply"
     /\ link = "up" /\ answered
     /\ wire \cap {0, c} = {}
     /\ SetAside(wire)
     /\ UNCHANGED link
  \/ /\ outcome = "channel_close"
     /\ link # "expired"
     /\ c \in wire
     /\ \E before \in SUBSET (wire \ {0, c}) :
          /\ wire' = wire \ (before \cup {c})
          /\ queued' = queued \cup before
     /\ UNCHANGED link
  \/ /\ outcome = "connection_close"
     /\ link # "expired"
     /\ 0 \in wire /\ c \notin wire
     /\ wire' = {}
     /\ queued' = queued \cup (wire \ {0})
     /\ UNCHANGED link
  \/ /\ outcome = "lost"           \* SOCKET_ERROR, CONNECTION_CLOSED, SSL_ERROR
     /\ link = "lost"
     /\ \/ UNCHANGED <<wire, queued>>
        \/ wire \cap {0, c} = {} /\ SetAside(wire)
     /\ UNCHANGED link
  \/ /\ outcome = "other_error"    \* HEARTBEAT_TIMEOUT, then SOCKET_CLOSED
     /\ \/ /\ link = "lost" /\ Heartbeat
           /\ wire \cap {0, c} = {}
           /\ SetAside(wire)
           /\ link' = "expired"
        \/ /\ link = "expired"
           /\ UNCHANGED <<wire, queued, link>>
  \/ /\ outcome = "silence"
     /\ link \in {"up", "closing"}
     /\ link = "up" => ~answered
     /\ wire \cap {0, c} = {}
     /\ SetAside(wire)
     /\ UNCHANGED link

Outcome == {"reply", "channel_close", "connection_close", "lost", "other_error", "silence"}

(* The server receives channel.close-ok. *)
ServerReceivesCloseOk(c) == server' = [server EXCEPT ![c] = "closed"]

(* The server closes one channel (an error in a request, a deleted queue): *)
(* from here until the close-ok it discards what it receives on it.        *)
ServerCloseChannel(c) ==
  /\ link = "up"
  /\ server[c] = "open"
  /\ server' = [server EXCEPT ![c] = "closing"]
  /\ wire' = wire \cup {c}
  /\ UNCHANGED <<connVars, objectVars, now, call, link, queued>>

(* The server closes the connection (shutdown, a forced close). *)
ServerCloseConnection ==
  /\ link = "up"
  /\ link' = "closing"
  /\ server' = AllClosed
  /\ wire' = wire \cup {0}
  /\ UNCHANGED <<connVars, objectVars, now, call, queued>>

(* The transport breaks; what was sent may or may not still arrive. *)
LinkLost ==
  /\ link \in {"up", "closing"}
  /\ link' = "lost"
  /\ server' = AllClosed
  /\ wire' \in {wire, {}}
  /\ UNCHANGED <<connVars, objectVars, now, call, queued>>

(* The wall clock, which time(NULL) reads in whole seconds, advances. *)
Tick ==
  /\ now < MaxTime
  /\ now' = now + 1
  /\ UNCHANGED <<connVars, objectVars, call, netVars>>

-----------------------------------------------------------------------------
(* What lamqplib.c does with the result of a call. *)

(* A mutant of ConnectionBroken: the bitmap is not reset. *)
ConnectionBrokenKeepsBits ==
  status' = -1 /\ UNCHANGED <<state, channels, timestamp, epoch, channelMax>>

(* The effect of the check_status macro, and of a connection.close. *)
ConnectionBroken ==
  /\ channels' = {0}
  /\ status' = -1
  /\ UNCHANGED <<state, timestamp, epoch, channelMax>>

(* A mutant of Forget: the number is reset to 0. *)
ForgetToZero(h) == channelId' = [channelId EXCEPT ![h] = 0]

(* ch->channel_id = -1. *)
Forget(h) == channelId' = [channelId EXCEPT ![h] = -1]

(* assert_rpc_reply: report the error after check_rpc_reply.  A failed call *)
(* that checks against no case changes nothing; a silent one blocks.        *)
CheckRpcReply(h, c, outcome) ==
  \/ /\ outcome \in {"reply", "other_error"}
     /\ UNCHANGED <<connVars, channelId, server>>
  \/ /\ outcome = "channel_close"
     /\ channels' = channels \ {c}
     /\ Forget(h)
     /\ ServerReceivesCloseOk(c)
     /\ UNCHANGED <<state, status, timestamp, epoch, channelMax>>
  \/ /\ outcome \in {"connection_close", "lost"}
     /\ ConnectionBroken
     /\ Forget(h)
     /\ UNCHANGED server

Blocks(op, h, c) ==
  /\ call' = [op |-> op, ch |-> h, id |-> c]
  /\ UNCHANGED <<connVars, channelId, server>>

-----------------------------------------------------------------------------
(* The connection object. *)

(* connection:connect() and the login of amqp.connect{}; one that fails      *)
(* leaves everything as it was.                                              *)
Establish ==
  /\ call = Idle
  /\ state = "null"
  /\ epoch < MaxConnections
  /\ state' = "set"
  /\ status' = 1
  /\ timestamp' = now
  /\ channels' = {0}
  /\ epoch' = epoch + 1
  /\ channelMax' \in ChannelMaxes
  /\ link' = "up"
  /\ server' = AllClosed
  /\ wire' = {}
  /\ queued' = {}
  /\ UNCHANGED <<objectVars, now, call>>

(* connection:close(); the bitmap and the time stamp are left as they are. *)
CloseConnection ==
  /\ call = Idle
  /\ state = "set"
  /\ state' = "null"
  /\ status' = 0
  /\ link' = "none"
  /\ server' = AllClosed
  /\ wire' = {}
  /\ queued' = {}
  /\ UNCHANGED <<timestamp, channels, epoch, channelMax, objectVars, now, call>>

(* connection:drain_events() gets a close notice, from the frame list first. *)
(* The channel object that check_rpc_reply resets is a temporary one: the    *)
(* application's own object keeps its number.                                *)
DrainClose(c) ==
  /\ call = Idle
  /\ Good
  /\ \/ /\ c \in queued
        /\ c = 0 => queued = {0}
        /\ queued' = queued \ {c}
        /\ UNCHANGED wire
     \/ /\ queued = {}
        /\ link # "expired"
        /\ c \in wire
        /\ c = 0 => wire = {0}
        /\ wire' = wire \ {c}
        /\ UNCHANGED queued
  /\ IF c = 0
     THEN /\ ConnectionBroken
          /\ link' = IF link = "closing" THEN "lost" ELSE link
          /\ UNCHANGED server
     ELSE /\ channels' = channels \ {c}
          /\ ServerReceivesCloseOk(c)
          /\ UNCHANGED <<state, status, timestamp, epoch, channelMax, link>>
  /\ UNCHANGED <<objectVars, now, call>>

(* connection:drain_events() finds the link broken.  A heartbeat timeout is *)
(* not one of the errors check_status knows.                                *)
DrainError ==
  /\ call = Idle
  /\ Good
  /\ queued = {}
  /\ \/ link = "lost" /\ wire = {} /\ ConnectionBroken /\ UNCHANGED link
     \/ link = "expired" /\ ConnectionBroken /\ UNCHANGED link
     \/ /\ link = "lost" /\ wire = {} /\ Heartbeat
        /\ link' = "expired"
        /\ UNCHANGED connVars
  /\ UNCHANGED <<objectVars, now, call, server, wire, queued>>

-----------------------------------------------------------------------------
(* The channel objects. *)

MakeObject(h, c) ==
  /\ live' = live \cup {h}
  /\ channelId' = [channelId EXCEPT ![h] = c]
  /\ stamp' = [stamp EXCEPT ![h] = now]
  /\ born' = [born EXCEPT ![h] = epoch]

CanMake(h) == call = Idle /\ Good /\ h \in Handle \ live

(* The number connection:channel(arg) settles on. *)
Chooses(arg, c) ==
  /\ ArgOk(arg)
  /\ IF arg = 0 THEN IsFirstFree(c) ELSE c = arg

(* connection:channel(id) on a number whose bit is set: one more object for *)
(* the same channel, and nothing is sent.                                   *)
AttachChannel(h, arg) ==
  /\ CanMake(h)
  /\ Chooses(arg, arg)
  /\ arg \in channels \ {0}
  /\ MakeObject(h, arg)
  /\ UNCHANGED <<connVars, now, call, netVars>>

(* A mutant of Opened: whatever amqp_channel_open returned is taken. *)
OpenedRegardless(outcome) == outcome # "silence"

(* Whether amqp_channel_open returned the server's open-ok. *)
Opened(outcome) == outcome = "reply"

(* connection:channel([id]) on a number whose bit is clear.  A failed open  *)
(* is reported but not given to check_rpc_reply.                            *)
OpenChannel(h, arg, c) ==
  /\ CanMake(h)
  /\ Chooses(arg, c)
  /\ c \notin channels
  /\ c <= channelMax \/ link # "up"
  /\ \E outcome \in Outcome :
       /\ SimpleRpc(c, server[c] = "closed", outcome)
       /\ \/ /\ Opened(outcome)
             /\ channels' = channels \cup {c}
             /\ server' = [server EXCEPT ![c] = "open"]
             /\ MakeObject(h, c)
             /\ UNCHANGED <<state, status, timestamp, epoch, channelMax, call>>
          \/ /\ ~Opened(outcome) /\ outcome # "silence"
             /\ UNCHANGED <<connVars, objectVars, call, server>>
          \/ /\ outcome = "silence"
             /\ Blocks("open", h, c)
             /\ UNCHANGED <<live, stamp, born>>
  /\ UNCHANGED now

(* The server answers an open by closing the connection, and                 *)
(* amqp_channel_open returns that close.                                     *)
ServerRefuses(c) ==
  /\ link = "up" /\ wire \cap {0, c} = {}
  /\ link' = "closing"
  /\ server' = AllClosed
  /\ SetAside(wire)

(* connection:channel() on a number above the negotiated maximum. *)
OpenRefused(h, arg, c) ==
  /\ CanMake(h)
  /\ Chooses(arg, c)
  /\ c \notin channels
  /\ c > channelMax
  /\ ServerRefuses(c)
  /\ UNCHANGED <<connVars, objectVars, now, call>>

(* connection:channel() with every bit set: the scan leaves the bitmap.  What *)
(* follows it is memory of nobody's, and the position of the first clear bit  *)
(* there, cut to 16 bits when it is sent, is any number, one the server has   *)
(* open (0 is refused like it, and is left out) or one it is closing: there   *)
(* the request is not answered, and a close notice that amqp_channel_open     *)
(* finds is consumed without a close-ok, as after every failed open.          *)
ScanLeavesBitmap(h, c) ==
  /\ CanMake(h)
  /\ ArgOk(0)
  /\ channels = 0 .. MaxId
  /\ \/ /\ server[c] = "open"
        /\ ServerRefuses(c)
        /\ UNCHANGED <<connVars, objectVars, call>>
     \/ /\ link = "up" => server[c] # "open"
        /\ \E outcome \in Outcome :
             /\ SimpleRpc(c, FALSE, outcome)
             /\ \/ outcome # "silence" /\ UNCHANGED <<connVars, objectVars, call, server>>
                \/ outcome = "silence" /\ Blocks("open", h, c) /\ UNCHANGED <<live, stamp, born>>
  /\ UNCHANGED now

(* Every operation of a channel that waits for a reply: flow, exchange_*,    *)
(* queue_*, basic_qos, basic_consume, basic_cancel, basic_recover,           *)
(* basic_get, tx_* and confirm_select.  A request the server rejects is a    *)
(* channel it closes just before the call reads.                             *)
Request(h) ==
  /\ call = Idle
  /\ Usable(h)
  /\ LET c == channelId[h] IN
       \E outcome \in Outcome :
         /\ SimpleRpc(c, server[c] = "open", outcome)
         /\ \/ CheckRpcReply(h, c, outcome) /\ UNCHANGED call
            \/ outcome = "silence" /\ Blocks("rpc", h, c)
  /\ UNCHANGED <<live, stamp, born, now>>

(* The operations that only send (basic_publish, basic_ack, basic_nack,      *)
(* basic_reject), when sending fails with an error check_status knows.       *)
SendFails(h) ==
  /\ call = Idle
  /\ Usable(h)
  /\ link = "lost"
  /\ ConnectionBroken
  /\ Forget(h)
  /\ UNCHANGED <<live, stamp, born, now, call, netVars>>

(* basic_publish when no heartbeat came in time: amqp_try_recv moves what    *)
(* has arrived to the frame list, a connection.close too.                    *)
PublishReceives(h) ==
  /\ call = Idle
  /\ Usable(h)
  /\ Heartbeat
  /\ link # "expired"
  /\ \E f \in SUBSET wire :
       /\ 0 \in f => f = wire
       /\ SetAside(f)
  /\ UNCHANGED <<connVars, objectVars, now, call, link, server>>

(* A mutant of CloseDone: the bit stays set. *)
CloseDoneKeepsBit(h, c) == Forget(h) /\ UNCHANGED connVars

(* channel:close() forgets the channel, whatever amqp_channel_close returned. *)
CloseDone(h, c) ==
  /\ channels' = channels \ {c}
  /\ Forget(h)
  /\ UNCHANGED <<state, status, timestamp, epoch, channelMax>>

(* A mutant of ServerAfterClose: channel:close() also sends the close-ok for a *)
(* notice it has not read.                                                     *)
ServerAfterCloseOk(c, outcome) == server' = [server EXCEPT ![c] = "closed"]

(* The server answers a channel.close even on a channel it is closing, but     *)
(* there it keeps waiting for its own close-ok, which channel:close() never    *)
(* sends: it does not look at what amqp_channel_close returned.                *)
ServerAfterClose(c, outcome) ==
  server' = IF outcome = "reply" /\ server[c] = "open"
            THEN [server EXCEPT ![c] = "closed"] ELSE server

(* channel:close() when it sends: it looks at the bit, not at the time stamp. *)
CloseChannel(h) ==
  /\ call = Idle
  /\ h \in live
  /\ LET c == channelId[h] IN
       /\ c > 0
       /\ Good /\ c \in channels
       /\ \E outcome \in Outcome :
            /\ SimpleRpc(c, TRUE, outcome)
            /\ \/ /\ outcome # "silence"
                  /\ CloseDone(h, c)
                  /\ ServerAfterClose(c, outcome)
                  /\ UNCHANGED call
               \/ outcome = "silence" /\ Blocks("close", h, c)
  /\ UNCHANGED <<live, stamp, born, now>>

(* channel:close() when there is nothing to send, and channel:good() when it *)
(* finds the channel gone: the object forgets its number.                    *)
ForgetClosed(h) ==
  /\ call = Idle
  /\ h \in live
  /\ channelId[h] > 0
  /\ ~Good \/ channelId[h] \notin channels
  /\ Forget(h)
  /\ UNCHANGED <<connVars, live, stamp, born, now, call, netVars>>

(* channel:__gc(): the channel stays open and its bit set. *)
FreeChannel(h) ==
  /\ call = Idle
  /\ h \in live
  /\ live' = live \ {h}
  /\ Forget(h)
  /\ stamp' = [stamp EXCEPT ![h] = 0]
  /\ born' = [born EXCEPT ![h] = 0]
  /\ UNCHANGED <<connVars, now, call, netVars>>

(* The blocked call gets something to return. *)
BlockedReturns ==
  /\ call # Idle
  /\ \E outcome \in Outcome \ {"silence"} :
       /\ SimpleRpc(call.id, FALSE, outcome)
       /\ \/ call.op = "rpc" /\ CheckRpcReply(call.ch, call.id, outcome)
          \/ call.op = "open" /\ UNCHANGED <<connVars, channelId, server>>
          \/ call.op = "close" /\ CloseDone(call.ch, call.id) /\ UNCHANGED server
  /\ call' = Idle
  /\ UNCHANGED <<live, stamp, born, now>>

-----------------------------------------------------------------------------

ConnectionStep ==
  \/ Establish
  \/ CloseConnection
  \/ \E c \in 0 .. MaxId : DrainClose(c)
  \/ DrainError

ChannelStep(h) ==
  \/ \E arg \in 1 .. MaxId : AttachChannel(h, arg)
  \/ \E arg \in 0 .. MaxId, c \in Number : OpenChannel(h, arg, c)
  \/ \E arg \in 0 .. MaxId, c \in Number : OpenRefused(h, arg, c)
  \/ Request(h)
  \/ SendFails(h)
  \/ PublishReceives(h)
  \/ CloseChannel(h)
  \/ ForgetClosed(h)
  \/ FreeChannel(h)

ServerStep ==
  \/ \E c \in Number : ServerCloseChannel(c)
  \/ ServerCloseConnection
  \/ LinkLost

Step ==
  \/ ConnectionStep
  \/ \E h \in Handle : ChannelStep(h)
  \/ BlockedReturns
  \/ ServerStep
  \/ Tick

Next ==
  \/ Step /\ overran' = (overran /\ epoch' = epoch)
  \/ \E h \in Handle, c \in Number : ScanLeavesBitmap(h, c) /\ overran' = TRUE

Spec == Init /\ [][Next]_vars

-----------------------------------------------------------------------------
(* Properties. *)

(* conn->status and conn->state, written at seven places, always agree on    *)
(* whether there is a connection; a broken one has no channel left in the    *)
(* bitmap, and a good one never loses bit 0, so that the scan for a free     *)
(* number cannot hand out the connection's own channel 0.                    *)
StatusMatchesState ==
  /\ state = "set" <=> status # 0
  /\ status = -1 => channels = {0}
  /\ status = 1 => 0 \in channels

(* The scan for a clear bit in connection:channel() has no bound of its own. *)
(* It leaves conn->channels, whatever was opened, closed and lost before,    *)
(* only when the negotiated maximum is the bitmap's last number (65535) and  *)
(* each number but 0 is a channel the server has open or is closing.         *)
ScanLeavesBitmapOnlyWhenFull ==
  (\A n \in 0 .. MaxId : n \in channels) =>
    /\ channelMax = MaxId
    /\ link = "up" => \A c \in Number : server[c] # "closed"

(* While the link is up, a channel the server holds open has its bit set,    *)
(* and a set bit is a channel the server holds open or one whose close       *)
(* notice the client has still to read (on the socket or set aside); a scan  *)
(* that leaves the bitmap may consume a notice and break this.               *)
BitmapMatchesServer ==
  link = "up" /\ status = 1 /\ ~overran =>
    \A c \in Number :
      /\ server[c] = "open" => c \in channels
      /\ c \in channels => \/ server[c] = "open"
                           \/ server[c] = "closing" /\ c \in wire \cup queued

(* A close notice that is still to be read, however long it was set aside    *)
(* and whatever was closed and opened since, is about the channel the server *)
(* is waiting to close: the close-ok and the cleared bit never hit a channel *)
(* that was opened again under the same number.                              *)
NoticeMatchesChannel ==
  link = "up" => \A c \in (wire \cup queued) \ {0} : server[c] = "closing"

(* A channel object made on an earlier connection passes check_channel on    *)
(* this one only if it was made in the very second this connection was       *)
(* established: the time stamps have a resolution of one second.             *)
OldObjectNeedsSameSecond ==
  \A h \in Handle : Usable(h) /\ born[h] < epoch => stamp[h] = timestamp

(* A call blocks for ever, while the link is up, only on a channel the       *)
(* server is closing; and if it is an operation of a channel object, because *)
(* another channel's call read the close notice and set it aside (or a scan  *)
(* that left the bitmap consumed it).                                        *)
BlockedOnClosingChannel ==
  call # Idle /\ link = "up" =>
    /\ server[call.id] = "closing"
    /\ call.op = "rpc" => overran \/ call.id \in queued

-----------------------------------------------------------------------------
(* What makes the properties inductive. *)

(* The server refuses every number above the maximum it negotiated. *)
BitmapNegotiated == channels \subseteq 0 .. channelMax

(* Time stamps follow the clock and the connections. *)
TimesOrdered ==
  /\ timestamp <= now
  /\ \A h \in Handle :
       /\ stamp[h] <= now
       /\ born[h] <= epoch
       /\ born[h] < epoch => stamp[h] <= timestamp

(* The application has no way to close or break a connection while one of    *)
(* its calls is blocked.                                                      *)
BlockedIsGood == call # Idle => Good

(* While the link is up: nobody has closed the connection, no notice is in    *)
(* two places, and BitmapMatchesServer, NoticeMatchesChannel and              *)
(* BlockedOnClosingChannel hold together.                                     *)
LinkInv ==
  link = "up" =>
    /\ Good
    /\ 0 \notin wire \cup queued
    /\ wire \cap queued = {}
    /\ \A c \in Number : server[c] = "open" => c \in channels
    /\ \A c \in channels \ {0} :
         \/ server[c] = "open"
         \/ server[c] = "closing" /\ (overran \/ c \in wire \cup queued)
    /\ \A c \in wire \cup queued : server[c] = "closing"
    /\ call # Idle =>
         /\ server[call.id] = "closing"
         /\ call.id \notin wire
         /\ call.op = "rpc" => overran \/ call.id \in queued

(* The inductive invariant. *)
IInv ==
  /\ TypeOK
  /\ StatusMatchesState
  /\ BitmapNegotiated
  /\ TimesOrdered
  /\ BlockedIsGood
  /\ LinkInv

-----------------------------------------------------------------------------
(* What the code says of itself. *)

(* The message of the argument check, "channel id in (0, channel_max]":      *)
(* every one of these numbers may be asked for.                              *)
DocumentedRange == state = "set" => \A id \in 1 .. channelMax : ArgOk(id)

(* The same range, for the number the code picks when it is not given one.   *)
AutomaticNumberInRange ==
  Good /\ link = "up" => \A c \in Number : Chooses(0, c) => c <= channelMax

=============================================================================
