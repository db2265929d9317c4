-------------------------- MODULE AmqpChannelProofs --------------------------
(* Type correctness and the inductive invariant of AmqpChannel, for every   *)
(* set of channel objects, bitmap size, negotiated maximum and clock.       *)
EXTENDS AmqpChannel, TLAPS

-----------------------------------------------------------------------------
(* What the operators that several actions share do to the types. *)

LEMMA SimpleRpcType ==
  ASSUME NetTypeOK, NEW c \in Number, NEW answered \in BOOLEAN, NEW outcome,
         SimpleRpc(c, answered, outcome),
         server' \in [Number -> {"closed", "open", "closing"}]
  PROVE  NetTypeOK'
  BY DEF SimpleRpc, SetAside, NetTypeOK

LEMMA BrokenType ==
  ASSUME ConnTypeOK, ConnectionBroken
  PROVE  ConnTypeOK'
  BY ChannelAssumption DEF ConnectionBroken, ConnTypeOK

LEMMA ForgetType ==
  ASSUME ObjectTypeOK, NEW h \in Handle, Forget(h), UNCHANGED <<live, stamp, born>>
  PROVE  ObjectTypeOK'
  BY DEF Forget, ObjectTypeOK

LEMMA CloseOkType ==
  ASSUME NetTypeOK, NEW c \in Number, ServerReceivesCloseOk(c)
  PROVE  server' \in [Number -> {"closed", "open", "closing"}]
  BY DEF ServerReceivesCloseOk, NetTypeOK

LEMMA UnchangedTypes ==
  /\ ConnTypeOK /\ UNCHANGED connVars => ConnTypeOK'
  /\ ObjectTypeOK /\ UNCHANGED objectVars => ObjectTypeOK'
  /\ NetTypeOK /\ UNCHANGED netVars => NetTypeOK'
  BY DEF ConnTypeOK, ObjectTypeOK, NetTypeOK, connVars, objectVars, netVars

LEMMA ClearBitType ==
  ASSUME ConnTypeOK, NEW c, channels' = channels \ {c},
         UNCHANGED <<state, status, timestamp, epoch, channelMax>>
  PROVE  ConnTypeOK'
  BY DEF ConnTypeOK

LEMMA CheckRpcReplyType ==
  ASSUME TypeOK, NEW h \in Handle, NEW c \in Number, NEW outcome,
         CheckRpcReply(h, c, outcome), UNCHANGED <<live, stamp, born>>
  PROVE  /\ ConnTypeOK' /\ ObjectTypeOK'
         /\ server' \in [Number -> {"closed", "open", "closing"}]
<1>1. CASE UNCHANGED <<connVars, channelId, server>>
  BY <1>1, UnchangedTypes DEF TypeOK, objectVars, NetTypeOK
<1>2. CASE /\ channels' = channels \ {c} /\ Forget(h) /\ ServerReceivesCloseOk(c)
           /\ UNCHANGED <<state, status, timestamp, epoch, channelMax>>
  BY <1>2, ClearBitType, ForgetType, CloseOkType DEF TypeOK
<1>3. CASE ConnectionBroken /\ Forget(h) /\ UNCHANGED server
  BY <1>3, BrokenType, ForgetType DEF TypeOK, NetTypeOK
<1> QED
  BY <1>1, <1>2, <1>3 DEF CheckRpcReply

LEMMA MakeObjectType ==
  ASSUME TypeOK, NEW h \in Handle, NEW c \in Number, MakeObject(h, c)
  PROVE  ObjectTypeOK'
  BY DEF MakeObject, TypeOK, ConnTypeOK, ObjectTypeOK

LEMMA BlocksType ==
  ASSUME TypeOK, NEW h \in Handle, NEW c \in Number, NEW op \in {"rpc", "open", "close"},
         Blocks(op, h, c), UNCHANGED <<live, stamp, born>>
  PROVE  ConnTypeOK' /\ ObjectTypeOK' /\ server' = server /\ call' \in Call
  BY UnchangedTypes DEF Blocks, TypeOK, Call, objectVars

LEMMA ServerTypeKept ==
  ASSUME NetTypeOK, UNCHANGED server
  PROVE  server' \in [Number -> {"closed", "open", "closing"}]
  BY DEF NetTypeOK

-----------------------------------------------------------------------------
LEMMA TypeInit == Init => TypeOK
<1> SUFFICES ASSUME Init PROVE TypeOK
  OBVIOUS
<1> USE ChannelAssumption DEF Init
<1>1. ConnTypeOK
  BY DEF ConnTypeOK
<1>2. ObjectTypeOK
  BY DEF ObjectTypeOK, Number
<1>3. NetTypeOK
  BY DEF NetTypeOK, AllClosed
<1>4. now \in 0 .. MaxTime /\ call \in Call \cup {Idle}
  OBVIOUS
<1>5. overran \in BOOLEAN
  OBVIOUS
<1> QED
  BY <1>1, <1>2, <1>3, <1>4, <1>5 DEF TypeOK

LEMMA TypeStep == TypeOK /\ [Next]_vars => TypeOK'
<1> SUFFICES ASSUME TypeOK, [Next]_vars PROVE TypeOK'
  OBVIOUS
<1>0. overran' \in BOOLEAN
  BY DEF Next, vars, TypeOK
<1> USE ChannelAssumption, <1>0 DEF TypeOK
<1>1. CASE Establish
  BY <1>1, UnchangedTypes DEF Establish, ConnTypeOK, NetTypeOK, AllClosed
<1>2. CASE CloseConnection
  BY <1>2, UnchangedTypes DEF CloseConnection, ConnTypeOK, NetTypeOK, AllClosed
<1>3. ASSUME NEW c \in 0 .. MaxId, DrainClose(c) PROVE TypeOK'
  <2>1. ObjectTypeOK' /\ UNCHANGED <<now, call>>
    BY <1>3, UnchangedTypes DEF DrainClose
  <2>2. /\ wire' \in SUBSET (0 .. MaxId) /\ queued' \in SUBSET (0 .. MaxId)
        /\ link' \in {"none", "up", "closing", "lost", "expired"}
    BY <1>3 DEF DrainClose, NetTypeOK
  <2>3. CASE c = 0
    BY <1>3, <2>1, <2>2, <2>3, BrokenType DEF DrainClose, NetTypeOK
  <2>4. CASE c # 0
    <3>1. c \in Number
      BY <2>4 DEF Number
    <3> QED
      BY <1>3, <2>1, <2>2, <2>4, <3>1, ClearBitType, CloseOkType DEF DrainClose, NetTypeOK
  <2> QED
    BY <2>3, <2>4
<1>4. CASE DrainError
  <2>1. ConnTypeOK'
    BY <1>4, BrokenType, UnchangedTypes DEF DrainError
  <2>2. NetTypeOK'
    BY <1>4 DEF DrainError, NetTypeOK
  <2> QED
    BY <1>4, <2>1, <2>2, UnchangedTypes DEF DrainError
<1>5. ASSUME NEW h \in Handle, NEW arg \in 1 .. MaxId, AttachChannel(h, arg) PROVE TypeOK'
  BY <1>5, MakeObjectType, UnchangedTypes DEF AttachChannel, Number
<1>6. ASSUME NEW h \in Handle, NEW arg \in 0 .. MaxId, NEW c \in Number, OpenChannel(h, arg, c)
      PROVE  TypeOK'
  <2>1. PICK outcome \in Outcome :
          /\ SimpleRpc(c, server[c] = "closed", outcome)
          /\ \/ /\ channels' = channels \cup {c}
                /\ server' = [server EXCEPT ![c] = "open"]
                /\ MakeObject(h, c)
                /\ UNCHANGED <<state, status, timestamp, epoch, channelMax, call>>
             \/ UNCHANGED <<connVars, objectVars, call, server>>
             \/ Blocks("open", h, c) /\ UNCHANGED <<live, stamp, born>>
    BY <1>6 DEF OpenChannel, Opened
  <2>2. now' = now
    BY <1>6 DEF OpenChannel, Opened
  <2>3. CASE /\ channels' = channels \cup {c}
             /\ server' = [server EXCEPT ![c] = "open"]
             /\ MakeObject(h, c)
             /\ UNCHANGED <<state, status, timestamp, epoch, channelMax, call>>
    <3>1. ConnTypeOK'
      BY <2>3 DEF ConnTypeOK, Number
    <3>2. server' \in [Number -> {"closed", "open", "closing"}]
      BY <2>3 DEF NetTypeOK
    <3>3. NetTypeOK'
      BY <2>1, <3>2, SimpleRpcType
    <3> QED
      BY <2>2, <2>3, <3>1, <3>3, MakeObjectType
  <2>4. CASE UNCHANGED <<connVars, objectVars, call, server>>
    BY <2>1, <2>2, <2>4, SimpleRpcType, UnchangedTypes, ServerTypeKept
  <2>5. CASE Blocks("open", h, c) /\ UNCHANGED <<live, stamp, born>>
    BY <2>1, <2>2, <2>5, SimpleRpcType, BlocksType, ServerTypeKept
  <2> QED
    BY <2>1, <2>3, <2>4, <2>5
<1>7. ASSUME NEW h \in Handle, NEW arg \in 0 .. MaxId, NEW c \in Number, OpenRefused(h, arg, c)
      PROVE  TypeOK'
  BY <1>7, UnchangedTypes DEF OpenRefused, ServerRefuses, SetAside, NetTypeOK, AllClosed
<1>8. ASSUME NEW h \in Handle, Request(h) PROVE TypeOK'
  <2> DEFINE c == channelId[h]
  <2>1. c \in Number
    BY <1>8 DEF Request, Usable, ObjectTypeOK, Number
  <2>2. PICK outcome \in Outcome :
          /\ SimpleRpc(c, server[c] = "open", outcome)
          /\ \/ CheckRpcReply(h, c, outcome) /\ UNCHANGED call
             \/ Blocks("rpc", h, c)
    BY <1>8 DEF Request
  <2>3. UNCHANGED <<live, stamp, born, now>>
    BY <1>8 DEF Request
  <2> HIDE DEF c
  <2>4. CASE CheckRpcReply(h, c, outcome) /\ UNCHANGED call
    BY <2>1, <2>2, <2>3, <2>4, SimpleRpcType, CheckRpcReplyType
  <2>5. CASE Blocks("rpc", h, c)
    BY <2>1, <2>2, <2>3, <2>5, SimpleRpcType, BlocksType, ServerTypeKept
  <2> QED
    BY <2>2, <2>4, <2>5
<1>9. ASSUME NEW h \in Handle, SendFails(h) PROVE TypeOK'
  BY <1>9, BrokenType, ForgetType, UnchangedTypes DEF SendFails
<1>10. ASSUME NEW h \in Handle, PublishReceives(h) PROVE TypeOK'
  BY <1>10, UnchangedTypes DEF PublishReceives, SetAside, NetTypeOK
<1>11. ASSUME NEW h \in Handle, CloseChannel(h) PROVE TypeOK'
  <2> DEFINE c == channelId[h]
  <2>1. c \in Number
    BY <1>11 DEF CloseChannel, ObjectTypeOK, Number
  <2>2. PICK outcome \in Outcome :
          /\ SimpleRpc(c, TRUE, outcome)
          /\ \/ /\ CloseDone(h, c)
                /\ server' = IF outcome = "reply" /\ server[c] = "open"
                             THEN [server EXCEPT ![c] = "closed"] ELSE server
                /\ UNCHANGED call
             \/ Blocks("close", h, c)
    BY <1>11 DEF CloseChannel, ServerAfterClose
  <2>3. UNCHANGED <<live, stamp, born, now>>
    BY <1>11 DEF CloseChannel
  <2> HIDE DEF c
  <2>4. CASE /\ CloseDone(h, c)
             /\ server' = IF outcome = "reply" /\ server[c] = "open"
                          THEN [server EXCEPT ![c] = "closed"] ELSE server
             /\ UNCHANGED call
    <3>1. server' \in [Number -> {"closed", "open", "closing"}]
      BY <2>4 DEF NetTypeOK
    <3>2. ConnTypeOK' /\ ObjectTypeOK'
      BY <2>3, <2>4, ClearBitType, ForgetType DEF CloseDone
    <3> QED
      BY <2>1, <2>2, <2>3, <2>4, <3>1, <3>2, SimpleRpcType
  <2>5. CASE Blocks("close", h, c)
    BY <2>1, <2>2, <2>3, <2>5, SimpleRpcType, BlocksType, ServerTypeKept
  <2> QED
    BY <2>2, <2>4, <2>5
<1>12. ASSUME NEW h \in Handle, ForgetClosed(h) PROVE TypeOK'
  BY <1>12, ForgetType, UnchangedTypes DEF ForgetClosed
<1>13. ASSUME NEW h \in Handle, FreeChannel(h) PROVE TypeOK'
  BY <1>13, UnchangedTypes DEF FreeChannel, Forget, ObjectTypeOK
<1>14. CASE BlockedReturns
  <2>1. call \in Call
    BY <1>14 DEF BlockedReturns
  <2>2. call.id \in Number /\ call.ch \in Handle
    BY <2>1 DEF Call
  <2>3. PICK outcome \in Outcome :
          /\ SimpleRpc(call.id, FALSE, outcome)
          /\ \/ CheckRpcReply(call.ch, call.id, outcome)
             \/ UNCHANGED <<connVars, channelId, server>>
             \/ CloseDone(call.ch, call.id) /\ UNCHANGED server
    BY <1>14 DEF BlockedReturns
  <2>4. call' = Idle /\ UNCHANGED <<live, stamp, born, now>>
    BY <1>14 DEF BlockedReturns
  <2>5. CASE CheckRpcReply(call.ch, call.id, outcome)
    BY <2>2, <2>3, <2>4, <2>5, SimpleRpcType, CheckRpcReplyType
  <2>6. CASE UNCHANGED <<connVars, channelId, server>>
    BY <2>2, <2>3, <2>4, <2>6, SimpleRpcType, UnchangedTypes, ServerTypeKept DEF objectVars
  <2>7. CASE CloseDone(call.ch, call.id) /\ UNCHANGED server
    <3>1. ConnTypeOK' /\ ObjectTypeOK'
      BY <2>2, <2>4, <2>7, ClearBitType, ForgetType DEF CloseDone
    <3> QED
      BY <2>2, <2>3, <2>4, <2>7, <3>1, SimpleRpcType, ServerTypeKept
  <2> QED
    BY <2>3, <2>5, <2>6, <2>7
<1>15. CASE ServerStep
  <2>1. ASSUME NEW c \in Number, ServerCloseChannel(c) PROVE TypeOK'
    <3>1. c \in 0 .. MaxId
      BY DEF Number
    <3> QED
      BY <2>1, <3>1, UnchangedTypes DEF ServerCloseChannel, NetTypeOK
  <2>2. CASE ServerCloseConnection
    BY <2>2, UnchangedTypes DEF ServerCloseConnection, NetTypeOK, AllClosed
  <2>3. CASE LinkLost
    <3>1. wire' = wire \/ wire' = {}
      BY <2>3 DEF LinkLost
    <3> QED
      BY <2>3, <3>1, UnchangedTypes DEF LinkLost, NetTypeOK, AllClosed
  <2> QED
    BY <1>15, <2>1, <2>2, <2>3 DEF ServerStep
<1>16. CASE Tick
  BY <1>16, UnchangedTypes DEF Tick
<1>17. CASE UNCHANGED vars
  BY <1>17, UnchangedTypes DEF vars
<1>18. ASSUME NEW h \in Handle, NEW c \in Number, ScanLeavesBitmap(h, c) PROVE TypeOK'
  <2>1. UNCHANGED <<connVars, live, stamp, born, now>>
    BY <1>18 DEF ScanLeavesBitmap, Blocks, objectVars
  <2>2. CASE ServerRefuses(c) /\ UNCHANGED <<connVars, objectVars, call>>
    BY <2>1, <2>2, UnchangedTypes DEF ServerRefuses, SetAside, NetTypeOK, AllClosed
  <2>3. ASSUME NEW outcome \in Outcome, SimpleRpc(c, FALSE, outcome),
               UNCHANGED <<connVars, objectVars, call, server>>
        PROVE  TypeOK'
    BY <2>1, <2>3, SimpleRpcType, UnchangedTypes, ServerTypeKept
  <2>4. ASSUME NEW outcome \in Outcome, SimpleRpc(c, FALSE, outcome), Blocks("open", h, c)
        PROVE  TypeOK'
    BY <2>1, <2>4, SimpleRpcType, BlocksType, ServerTypeKept
  <2> QED
    BY <1>18, <2>2, <2>3, <2>4 DEF ScanLeavesBitmap
<1> QED
  BY <1>1, <1>2, <1>3, <1>4, <1>5, <1>6, <1>7, <1>8, <1>9, <1>10, <1>11, <1>12, <1>13, <1>14,
     <1>15, <1>16, <1>17, <1>18 DEF Next, Step, ConnectionStep, ChannelStep

(* Every variable keeps its type: the bookkeeping of the connection and of  *)
(* its channel objects never leaves the values the code gives a meaning to. *)
THEOREM TypeCorrect == Spec => []TypeOK
  BY TypeInit, TypeStep, PTL DEF Spec


-----------------------------------------------------------------------------
(* What a step can do to the connection, whichever action it is.  Errors     *)
(* are only ever noticed by a call on a good connection.                     *)

ClearsBit(c) == channels' = channels \ {c} /\ UNCHANGED <<state, status, timestamp, epoch, channelMax>>

SetsBit(c) ==
  /\ Good /\ c <= channelMax
  /\ channels' = channels \cup {c} /\ UNCHANGED <<state, status, timestamp, epoch, channelMax>>

ConnEffect ==
  \/ UNCHANGED connVars
  \/ Establish
  \/ CloseConnection
  \/ Good /\ ConnectionBroken
  \/ \E c \in Number : ClearsBit(c)
  \/ \E c \in Number : SetsBit(c)

LEMMA CheckRpcReplyEffect ==
  ASSUME Good, NEW h \in Handle, NEW c \in Number, NEW outcome, CheckRpcReply(h, c, outcome)
  PROVE  ConnEffect
  BY DEF CheckRpcReply, ConnEffect, ClearsBit

LEMMA ConnectionEffect ==
  ASSUME TypeOK, BlockedIsGood, [Next]_vars
  PROVE  ConnEffect
<1>1. CASE ConnectionStep
  <2>1. ASSUME NEW c \in 0 .. MaxId, DrainClose(c) PROVE ConnEffect
    <3>1. CASE c = 0
      BY <2>1, <3>1 DEF DrainClose, ConnEffect
    <3>2. CASE c # 0
      BY <2>1, <3>2 DEF DrainClose, ConnEffect, ClearsBit, Number
    <3> QED
      BY <3>1, <3>2
  <2>2. CASE DrainError
    BY <2>2 DEF DrainError, ConnEffect
  <2> QED
    BY <1>1, <2>1, <2>2 DEF ConnectionStep, ConnEffect
<1>2. ASSUME NEW h \in Handle, ChannelStep(h) PROVE ConnEffect
  <2>1. ASSUME NEW arg \in 0 .. MaxId, NEW c \in Number, OpenChannel(h, arg, c) PROVE ConnEffect
    <3>1. PICK outcome \in Outcome :
            /\ SimpleRpc(c, server[c] = "closed", outcome)
            /\ \/ /\ outcome = "reply"
                  /\ channels' = channels \cup {c}
                  /\ UNCHANGED <<state, status, timestamp, epoch, channelMax>>
               \/ UNCHANGED connVars
      BY <2>1 DEF OpenChannel, Opened, Blocks
    <3>2. outcome = "reply" => Good /\ c <= channelMax
      BY <2>1, <3>1 DEF OpenChannel, Opened, SimpleRpc, CanMake
    <3> QED
      BY <3>1, <3>2 DEF ConnEffect, SetsBit
  <2>2. CASE Request(h)
    <3> DEFINE c == channelId[h]
    <3>1. c \in Number /\ Good
      BY <2>2 DEF Request, Usable, TypeOK, ObjectTypeOK, Number
    <3>2. PICK outcome \in Outcome : CheckRpcReply(h, c, outcome) \/ Blocks("rpc", h, c)
      BY <2>2 DEF Request
    <3> HIDE DEF c
    <3> QED
      BY <3>1, <3>2, CheckRpcReplyEffect DEF Blocks, ConnEffect
  <2>3. CASE CloseChannel(h)
    <3> DEFINE c == channelId[h]
    <3>1. c \in Number
      BY <2>3 DEF CloseChannel, TypeOK, ObjectTypeOK, Number
    <3>2. CloseDone(h, c) \/ Blocks("close", h, c)
      BY <2>3 DEF CloseChannel
    <3> HIDE DEF c
    <3> QED
      BY <3>1, <3>2 DEF Blocks, CloseDone, ConnEffect, ClearsBit
  <2>4. CASE SendFails(h)
    BY <2>4 DEF SendFails, Usable, ConnEffect
  <2>5. CASE PublishReceives(h) \/ ForgetClosed(h) \/ FreeChannel(h)
    BY <2>5 DEF PublishReceives, ForgetClosed, FreeChannel, ConnEffect
  <2>6. CASE \E arg \in 1 .. MaxId : AttachChannel(h, arg)
    BY <2>6 DEF AttachChannel, ConnEffect
  <2>7. CASE \E arg \in 0 .. MaxId, c \in Number : OpenRefused(h, arg, c)
    BY <2>7 DEF OpenRefused, ConnEffect
  <2> QED
    BY <1>2, <2>1, <2>2, <2>3, <2>4, <2>5, <2>6, <2>7 DEF ChannelStep
<1>3. CASE BlockedReturns
  <2>1. call.id \in Number /\ call.ch \in Handle /\ Good
    BY <1>3 DEF BlockedReturns, BlockedIsGood, TypeOK, Call
  <2>2. \/ \E outcome \in Outcome : CheckRpcReply(call.ch, call.id, outcome)
        \/ UNCHANGED connVars
        \/ CloseDone(call.ch, call.id)
    BY <1>3 DEF BlockedReturns
  <2> QED
    BY <2>1, <2>2, CheckRpcReplyEffect DEF CloseDone, ConnEffect, ClearsBit
<1>4. CASE ServerStep \/ Tick
  BY <1>4 DEF ServerStep, ServerCloseChannel, ServerCloseConnection, LinkLost, Tick, ConnEffect
<1>5. CASE UNCHANGED vars
  BY <1>5 DEF vars, ConnEffect
<1>6. CASE \E h \in Handle, c \in Number : ScanLeavesBitmap(h, c)
  BY <1>6 DEF ScanLeavesBitmap, Blocks, ConnEffect
<1> QED
  BY <1>1, <1>2, <1>3, <1>4, <1>5, <1>6 DEF Next, Step

LEMMA StatusStep ==
  ASSUME TypeOK, StatusMatchesState, BitmapNegotiated, ConnEffect
  PROVE  StatusMatchesState' /\ BitmapNegotiated'
<1> USE ChannelAssumption DEF TypeOK, ConnTypeOK
<1>1. CASE UNCHANGED connVars
  BY <1>1 DEF connVars, StatusMatchesState, BitmapNegotiated
<1>2. CASE Establish
  BY <1>2 DEF Establish, StatusMatchesState, BitmapNegotiated
<1>3. CASE CloseConnection
  BY <1>3 DEF CloseConnection, StatusMatchesState, BitmapNegotiated
<1>4. CASE Good /\ ConnectionBroken
  BY <1>4 DEF Good, ConnectionBroken, StatusMatchesState, BitmapNegotiated
<1>5. ASSUME NEW c \in Number, ClearsBit(c) PROVE StatusMatchesState' /\ BitmapNegotiated'
  BY <1>5 DEF ClearsBit, StatusMatchesState, BitmapNegotiated, Number
<1>6. ASSUME NEW c \in Number, SetsBit(c) PROVE StatusMatchesState' /\ BitmapNegotiated'
  BY <1>6 DEF SetsBit, StatusMatchesState, BitmapNegotiated, Number, Good
<1> QED
  BY <1>1, <1>2, <1>3, <1>4, <1>5, <1>6 DEF ConnEffect

-----------------------------------------------------------------------------
(* Time stamps: only Establish, a new object and __gc write them.            *)

KeepsTimes == UNCHANGED <<stamp, born, timestamp, epoch, channelMax>> /\ now' \in {now, now + 1}

TimesEffect ==
  \/ KeepsTimes
  \/ Establish
  \/ \E h \in Handle, c \in Number : MakeObject(h, c) /\ UNCHANGED <<timestamp, epoch, now>>
  \/ \E h \in Handle : FreeChannel(h)

LEMMA ActionTimes == ASSUME [Next]_vars PROVE TimesEffect
<1> USE DEF connVars, objectVars
<1>1. CASE ConnectionStep
  <2>1. CASE \E c \in 0 .. MaxId : DrainClose(c)
    BY <2>1 DEF DrainClose, ConnectionBroken, TimesEffect, KeepsTimes
  <2>2. CASE DrainError \/ CloseConnection
    BY <2>2 DEF DrainError, CloseConnection, ConnectionBroken, TimesEffect, KeepsTimes
  <2> QED
    BY <1>1, <2>1, <2>2 DEF ConnectionStep, TimesEffect
<1>2. ASSUME NEW h \in Handle, ChannelStep(h) PROVE TimesEffect
  <2>1. CASE \E arg \in 1 .. MaxId : AttachChannel(h, arg)
    BY <2>1 DEF AttachChannel, TimesEffect, Number
  <2>2. ASSUME NEW arg \in 0 .. MaxId, NEW c \in Number, OpenChannel(h, arg, c) PROVE TimesEffect
    BY <2>2 DEF OpenChannel, Opened, Blocks, TimesEffect, KeepsTimes
  <2>3. CASE \E arg \in 0 .. MaxId, c \in Number : OpenRefused(h, arg, c)
    BY <2>3 DEF OpenRefused, TimesEffect, KeepsTimes
  <2>4. CASE Request(h)
    BY <2>4 DEF Request, CheckRpcReply, ConnectionBroken, Blocks, TimesEffect, KeepsTimes
  <2>5. CASE CloseChannel(h)
    BY <2>5 DEF CloseChannel, CloseDone, Blocks, TimesEffect, KeepsTimes
  <2>6. CASE SendFails(h) \/ PublishReceives(h) \/ ForgetClosed(h)
    BY <2>6 DEF SendFails, PublishReceives, ForgetClosed, ConnectionBroken, TimesEffect, KeepsTimes
  <2> QED
    BY <1>2, <2>1, <2>2, <2>3, <2>4, <2>5, <2>6 DEF ChannelStep, TimesEffect
<1>3. CASE BlockedReturns
  BY <1>3 DEF BlockedReturns, CheckRpcReply, ConnectionBroken, CloseDone, TimesEffect, KeepsTimes
<1>4. CASE ServerStep \/ Tick
  BY <1>4 DEF ServerStep, ServerCloseChannel, ServerCloseConnection, LinkLost, Tick,
              TimesEffect, KeepsTimes
<1>5. CASE UNCHANGED vars
  BY <1>5 DEF vars, TimesEffect, KeepsTimes
<1>6. CASE \E h \in Handle, c \in Number : ScanLeavesBitmap(h, c)
  BY <1>6 DEF ScanLeavesBitmap, Blocks, TimesEffect, KeepsTimes
<1> QED
  BY <1>1, <1>2, <1>3, <1>4, <1>5, <1>6 DEF Next, Step

(* Only a new connection makes a scan that left the bitmap past.             *)
LEMMA OverranKept ==
  ASSUME [Next]_vars
  PROVE  Establish \/ (overran => overran')
<1>1. CASE UNCHANGED epoch
  BY <1>1 DEF Next, vars
<1>2. CASE Establish
  BY <1>2
<1> QED
  BY <1>1, <1>2, ActionTimes DEF TimesEffect, KeepsTimes, MakeObject, FreeChannel, connVars

LEMMA TimesStep ==
  ASSUME TypeOK, TypeOK', TimesOrdered, TimesEffect
  PROVE  TimesOrdered'
<1> USE ChannelAssumption DEF TypeOK, ConnTypeOK, ObjectTypeOK
<1>1. CASE KeepsTimes
  BY <1>1 DEF KeepsTimes, TimesOrdered
<1>2. CASE Establish
  BY <1>2 DEF Establish, objectVars, TimesOrdered
<1>3. ASSUME NEW h \in Handle, NEW c \in Number, MakeObject(h, c),
             UNCHANGED <<timestamp, epoch, now>>
      PROVE  TimesOrdered'
  BY <1>3 DEF MakeObject, TimesOrdered
<1>4. ASSUME NEW h \in Handle, FreeChannel(h) PROVE TimesOrdered'
  BY <1>4 DEF FreeChannel, connVars, TimesOrdered
<1> QED
  BY <1>1, <1>2, <1>3, <1>4 DEF TimesEffect

-----------------------------------------------------------------------------
(* A blocked call keeps the application from touching the connection.        *)

LEMMA BlockedStep ==
  ASSUME BlockedIsGood, [Next]_vars
  PROVE  BlockedIsGood'
<1> SUFFICES ASSUME call' # Idle PROVE Good'
  BY DEF BlockedIsGood
<1> SUFFICES Good /\ UNCHANGED connVars
  BY DEF Good, connVars
<1>1. CASE UNCHANGED vars
  BY <1>1 DEF vars, connVars, BlockedIsGood
<1>2. CASE ServerStep \/ Tick
  BY <1>2 DEF ServerStep, ServerCloseChannel, ServerCloseConnection, LinkLost, Tick, BlockedIsGood
<1>3. CASE BlockedReturns
  BY <1>3 DEF BlockedReturns
<1>4. CASE ConnectionStep
  BY <1>4 DEF ConnectionStep, Establish, CloseConnection, DrainClose, DrainError
<1>5. ASSUME NEW h \in Handle, ChannelStep(h) PROVE Good /\ UNCHANGED connVars
  <2>1. CASE \E arg \in 0 .. MaxId, c \in Number : OpenChannel(h, arg, c)
    BY <2>1 DEF OpenChannel, Opened, CanMake, Blocks
  <2>2. CASE Request(h)
    BY <2>2 DEF Request, Usable, Blocks
  <2>3. CASE CloseChannel(h)
    BY <2>3 DEF CloseChannel, Blocks
  <2>4. CASE \/ \E arg \in 1 .. MaxId : AttachChannel(h, arg)
             \/ \E arg \in 0 .. MaxId, c \in Number : OpenRefused(h, arg, c)
    BY <2>4 DEF AttachChannel, OpenRefused, CanMake
  <2>5. CASE SendFails(h) \/ PublishReceives(h) \/ ForgetClosed(h) \/ FreeChannel(h)
    BY <2>5 DEF SendFails, PublishReceives, ForgetClosed, FreeChannel
  <2> QED
    BY <1>5, <2>1, <2>2, <2>3, <2>4, <2>5 DEF ChannelStep
<1>6. CASE \E h \in Handle, c \in Number : ScanLeavesBitmap(h, c)
  BY <1>6 DEF ScanLeavesBitmap, CanMake, Blocks
<1> QED
  BY <1>1, <1>2, <1>3, <1>4, <1>5, <1>6 DEF Next, Step

-----------------------------------------------------------------------------
(* While the link is up.                                                     *)

LinkUpInv ==
  /\ Good
  /\ 0 \notin wire \cup queued
  /\ wire \cap queued = {}
  /\ \A c \in Number : server[c] = "open" => c \in channels
  /\ \A c \in channels \ {0} : \/ server[c] = "open"
                               \/ server[c] = "closing" /\ (overran \/ c \in wire \cup queued)
  /\ \A c \in wire \cup queued : server[c] = "closing"

LinkCallInv ==
  call # Idle =>
    /\ server[call.id] = "closing"
    /\ call.id \notin wire
    /\ call.op = "rpc" => overran \/ call.id \in queued

LEMMA LinkInvParts == LinkInv <=> (link = "up" => LinkUpInv /\ LinkCallInv)
  BY DEF LinkInv, LinkUpInv, LinkCallInv

(* What a call that waits for a reply does to the notices while the link is  *)
(* up: none is lost, none is doubled, and only the one of the call's own     *)
(* channel is consumed.                                                      *)
LEMMA RpcNotices ==
  ASSUME NEW c, NEW answered \in BOOLEAN, NEW outcome, SimpleRpc(c, answered, outcome),
         link = "up", 0 \notin wire \cup queued, wire \cap queued = {}
  PROVE  /\ link' = "up"
         /\ wire' \cap queued' = {}
         /\ \/ /\ outcome = "reply" /\ answered
               /\ c \notin wire /\ wire' = {} /\ queued' = wire \cup queued
            \/ /\ outcome = "silence" /\ ~answered
               /\ c \notin wire /\ wire' = {} /\ queued' = wire \cup queued
            \/ /\ outcome = "channel_close"
               /\ c \in wire
               /\ wire' \cup queued' = (wire \cup queued) \ {c}
               /\ wire' \subseteq wire
<1>1. CASE outcome = "reply" \/ outcome = "silence"
  BY <1>1 DEF SimpleRpc, SetAside
<1>2. CASE outcome = "channel_close"
  <2>1. PICK before \in SUBSET (wire \ {0, c}) :
          /\ wire' = wire \ (before \cup {c})
          /\ queued' = queued \cup before
          /\ c \in wire
          /\ UNCHANGED link
    BY <1>2 DEF SimpleRpc
  <2> QED
    BY <1>2, <2>1
<1>3. outcome \in {"reply", "silence", "channel_close"}
  BY DEF SimpleRpc
<1> QED
  BY <1>1, <1>2, <1>3

LEMMA RpcLink ==
  ASSUME NEW c, NEW answered, NEW outcome, SimpleRpc(c, answered, outcome), link' = "up"
  PROVE  link = "up"
  BY DEF SimpleRpc

LEMMA NoticesKept ==
  ASSUME LinkUpInv, overran => overran', UNCHANGED <<state, status, channels, server>>,
         wire' \cup queued' = wire \cup queued, wire' \cap queued' = {}
  PROVE  LinkUpInv'
  BY DEF LinkUpInv, Good

(* The server's view of channel c changes to v.                              *)
LEMMA ServerUpdate ==
  ASSUME TypeOK, 0 \notin wire \cup queued, NEW c \in Number, NEW v,
         server' = [server EXCEPT ![c] = v]
  PROVE  /\ \A n \in Number : server'[n] = IF n = c THEN v ELSE server[n]
         /\ channels \ {0} \subseteq Number /\ wire \cup queued \subseteq Number
         /\ c # 0
<1>1. server \in [Number -> {"closed", "open", "closing"}]
  BY DEF TypeOK, NetTypeOK
<1>2. channels \ {0} \subseteq Number /\ wire \cup queued \subseteq Number
  BY DEF TypeOK, ConnTypeOK, NetTypeOK, Number
<1>3. c # 0
  BY ChannelAssumption DEF Number
<1> QED
  BY <1>1, <1>2, <1>3

LEMMA NoticeConsumed ==
  ASSUME TypeOK, LinkUpInv, overran => overran', NEW c \in Number, ServerReceivesCloseOk(c),
         channels' = channels \ {c}, UNCHANGED <<state, status>>,
         wire' \cup queued' = (wire \cup queued) \ {c}, wire' \cap queued' = {}
  PROVE  LinkUpInv'
<1>1. /\ \A n \in Number : server'[n] = IF n = c THEN "closed" ELSE server[n]
      /\ channels \ {0} \subseteq Number /\ wire \cup queued \subseteq Number
      /\ c # 0
  BY ServerUpdate DEF LinkUpInv, ServerReceivesCloseOk
<1> QED
  BY <1>1 DEF LinkUpInv, Good

(* A scan that leaves the bitmap, on a link that stays up.                   *)
LEMMA OverrunStep ==
  ASSUME TypeOK, LinkUpInv, link = "up", link' = "up", overran',
         NEW h \in Handle, NEW c \in Number, ScanLeavesBitmap(h, c)
  PROVE  LinkUpInv' /\ LinkCallInv'
<1>1. call = Idle /\ c \in channels \ {0} /\ UNCHANGED <<state, status, channels, server>>
  <2>1. c \in channels \ {0}
    BY ChannelAssumption DEF ScanLeavesBitmap, Number
  <2>2. call = Idle /\ UNCHANGED <<state, status, channels>>
    BY DEF ScanLeavesBitmap, CanMake, Blocks, connVars
  <2> QED
    BY <2>1, <2>2 DEF ScanLeavesBitmap, ServerRefuses, Blocks
<1>2. PICK outcome \in Outcome :
        /\ SimpleRpc(c, FALSE, outcome)
        /\ \/ outcome # "silence" /\ UNCHANGED call
           \/ outcome = "silence" /\ Blocks("open", h, c)
  BY DEF ScanLeavesBitmap, ServerRefuses
<1>3. server[c] = "closing"
  BY <1>1 DEF ScanLeavesBitmap, ServerRefuses, LinkUpInv
<1>4. /\ wire' \cup queued' \subseteq wire \cup queued /\ wire' \cap queued' = {}
      /\ outcome = "silence" => wire' = {}
  BY <1>2, RpcNotices DEF LinkUpInv
<1>5. LinkUpInv'
  BY <1>1, <1>4 DEF LinkUpInv, Good
<1>6. LinkCallInv'
  <2>1. CASE outcome = "silence"
    BY <1>1, <1>2, <1>3, <1>4, <2>1 DEF Blocks, LinkCallInv
  <2>2. CASE outcome # "silence"
    BY <1>1, <1>2, <2>2 DEF LinkCallInv
  <2> QED
    BY <2>1, <2>2
<1> QED
  BY <1>5, <1>6

(* Every step keeps LinkInv; only Establish brings the link up.              *)
LEMMA LinkStep ==
  ASSUME TypeOK, LinkInv, [Next]_vars
  PROVE  LinkInv'
<1> SUFFICES ASSUME link' = "up" PROVE LinkUpInv' /\ LinkCallInv'
  BY DEF LinkInv, LinkUpInv, LinkCallInv
<1> DEFINE Goal == LinkUpInv' /\ LinkCallInv'
<1>0. link = "up" => LinkUpInv /\ LinkCallInv
  BY LinkInvParts
<1>1. CASE Establish
  BY <1>1 DEF Establish, LinkUpInv, LinkCallInv, Good, AllClosed
<1> SUFFICES ASSUME overran => overran' PROVE Goal
  BY <1>1, OverranKept
<1>2. ASSUME NEW c \in 0 .. MaxId, DrainClose(c) PROVE Goal
  <2>1. link = "up" /\ LinkUpInv
    BY <1>0, <1>2 DEF DrainClose
  <2>2. c \in wire \cup queued
    BY <1>2 DEF DrainClose
  <2>3. c # 0 /\ c \in Number
    BY <2>1, <2>2 DEF LinkUpInv, Number
  <2>4. /\ wire' \cup queued' = (wire \cup queued) \ {c} 
        /\ wire' \cap queued' = {}
    BY <1>2, <2>1 DEF DrainClose, LinkUpInv
  <2>5. /\ ServerReceivesCloseOk(c) /\ channels' = channels \ {c}
        /\ UNCHANGED <<state, status>> /\ call' = Idle
    BY <1>2, <2>3 DEF DrainClose
  <2>6. LinkUpInv'
    BY <2>1, <2>3, <2>4, <2>5, NoticeConsumed
  <2> QED
    BY <2>5, <2>6 DEF LinkCallInv
<1>3. CASE CloseConnection \/ DrainError
  BY <1>3 DEF CloseConnection, DrainError
<1>4. ASSUME NEW h \in Handle, ChannelStep(h) PROVE Goal
  <2>1. ASSUME NEW arg \in 1 .. MaxId, AttachChannel(h, arg) PROVE Goal
    BY <1>0, <2>1, NoticesKept
       DEF AttachChannel, CanMake, connVars, netVars, LinkUpInv, LinkCallInv
  <2>2. ASSUME NEW arg \in 0 .. MaxId, NEW c \in Number, OpenChannel(h, arg, c) PROVE Goal
    <3>1. PICK outcome \in Outcome :
            /\ SimpleRpc(c, server[c] = "closed", outcome)
            /\ \/ /\ outcome = "reply"
                  /\ channels' = channels \cup {c}
                  /\ server' = [server EXCEPT ![c] = "open"]
                  /\ UNCHANGED <<state, status, call>>
               \/ /\ outcome \in Outcome \ {"reply", "silence"}
                  /\ UNCHANGED <<connVars, objectVars, call, server>>
               \/ outcome = "silence" /\ Blocks("open", h, c)
      BY <2>2 DEF OpenChannel, Opened
    <3>2. link = "up" /\ LinkUpInv /\ call = Idle /\ c \notin channels
      BY <1>0, <2>2, <3>1, RpcLink DEF OpenChannel, Opened, CanMake
    <3>3. c # 0 /\ server[c] \in {"closed", "open", "closing"}
      BY DEF Number, TypeOK, NetTypeOK
    <3>4. server[c] # "open"
      BY <3>2 DEF LinkUpInv
    <3>5. CASE outcome = "reply"
      <4>1. /\ channels' = channels \cup {c}
            /\ server' = [server EXCEPT ![c] = "open"]
            /\ UNCHANGED <<state, status, call>>
        BY <3>1, <3>5 DEF Blocks
      <4>2. server[c] = "closed" /\ wire' = {} /\ queued' = wire \cup queued
        BY <3>1, <3>2, <3>5, RpcNotices DEF LinkUpInv
      <4>3. c \notin wire \cup queued
        BY <3>2, <4>2 DEF LinkUpInv
      <4>4. LinkUpInv'
        <5>1. /\ \A n \in Number : server'[n] = IF n = c THEN "open" ELSE server[n]
              /\ channels \ {0} \subseteq Number /\ wire \cup queued \subseteq Number
          BY <3>2, <4>1, ServerUpdate DEF LinkUpInv
        <5>2. wire' \cup queued' = wire \cup queued /\ wire' \cap queued' = {}
          BY <4>2
        <5> QED
          BY <3>2, <3>3, <4>1, <4>3, <5>1, <5>2 DEF LinkUpInv, Good
      <4> QED
        BY <3>2, <4>1, <4>4 DEF LinkCallInv
    <3>6. CASE outcome = "silence"
      <4>1. Blocks("open", h, c)
        BY <3>1, <3>6
      <4>2. /\ server[c] # "closed"
            /\ c \notin wire /\ wire' = {} /\ queued' = wire \cup queued
        BY <3>1, <3>2, <3>6, RpcNotices DEF LinkUpInv
      <4>3. LinkUpInv'
        BY <3>2, <4>1, <4>2, NoticesKept DEF Blocks, connVars
      <4>4. server'[c] = "closing" /\ call'.id = c /\ call'.op = "open"
        BY <3>3, <3>4, <4>1, <4>2 DEF Blocks
      <4> QED
        BY <4>2, <4>3, <4>4 DEF LinkCallInv
    <3>7. CASE outcome = "channel_close"
      <4>1. c \in wire
        BY <3>1, <3>7 DEF SimpleRpc
      <4> QED
        BY <3>1, <3>2, <3>7, <4>1, RpcNotices DEF LinkUpInv, LinkCallInv, connVars, Good
    <3> QED
      BY <3>1, <3>2, <3>5, <3>6, <3>7, RpcNotices DEF LinkUpInv
  <2>3. ASSUME NEW arg \in 0 .. MaxId, NEW c \in Number, OpenRefused(h, arg, c) PROVE Goal
    BY <2>3 DEF OpenRefused, ServerRefuses
  <2>4. CASE Request(h)
    <3> DEFINE c == channelId[h]
    <3>1. c \in Number /\ c \in channels /\ call = Idle
      BY <2>4 DEF Request, Usable, TypeOK, ObjectTypeOK, Number
    <3>2. PICK outcome \in Outcome :
            /\ SimpleRpc(c, server[c] = "open", outcome)
            /\ \/ CheckRpcReply(h, c, outcome) /\ UNCHANGED call
               \/ outcome = "silence" /\ Blocks("rpc", h, c)
      BY <2>4 DEF Request
    <3> HIDE DEF c
    <3>3. link = "up" /\ LinkUpInv
      BY <1>0, <3>2, RpcLink
    <3>4. CASE outcome = "reply"
      <4>1. UNCHANGED <<state, status, channels, server, call>>
        BY <3>2, <3>4 DEF CheckRpcReply, connVars
      <4>2. wire' \cup queued' = wire \cup queued /\ wire' \cap queued' = {}
        <5>1. 0 \notin wire \cup queued /\ wire \cap queued = {}
          BY <3>3 DEF LinkUpInv
        <5>2. (server[c] = "open") \in BOOLEAN
          OBVIOUS
        <5>3. SimpleRpc(c, server[c] = "open", outcome)
          BY <3>2
        <5>4. wire' \cap queued' = {}
          BY <3>3, <5>1, <5>2, <5>3, RpcNotices, Zenon
        <5>5. wire' = {} /\ queued' = wire \cup queued
          BY <3>4, <5>3 DEF SimpleRpc, SetAside
        <5> QED
          BY <5>4, <5>5
      <4>3. LinkUpInv'
        BY <3>3, <4>1, <4>2, NoticesKept
      <4> QED
        BY <3>1, <4>1, <4>3 DEF LinkCallInv
    <3>5. CASE outcome = "channel_close"
      <4>1. /\ channels' = channels \ {c} /\ ServerReceivesCloseOk(c)
            /\ UNCHANGED <<state, status, call>>
        BY <3>2, <3>5 DEF CheckRpcReply
      <4>2. LinkUpInv'
        <5>1. /\ wire' \cup queued' = (wire \cup queued) \ {c}
              /\ wire' \cap queued' = {}
          BY <3>2, <3>3, <3>5, RpcNotices DEF LinkUpInv
        <5> QED
          BY <3>1, <3>3, <4>1, <5>1, NoticeConsumed
      <4> QED
        BY <3>1, <4>1, <4>2 DEF LinkCallInv
    <3>6. CASE outcome = "silence"
      <4>1. Blocks("rpc", h, c)
        BY <3>2, <3>6 DEF CheckRpcReply
      <4>2. /\ server[c] # "open"
            /\ c \notin wire /\ wire' = {} /\ queued' = wire \cup queued
        BY <3>2, <3>3, <3>6, RpcNotices DEF LinkUpInv
      <4>3. LinkUpInv'
        BY <3>3, <4>1, <4>2, NoticesKept DEF Blocks, connVars
      <4>4. server[c] = "closing" /\ (overran \/ c \in wire \cup queued)
        BY <3>1, <3>3, <4>2 DEF LinkUpInv, Number
      <4>5. server'[c] = "closing" /\ call'.id = c
        BY <4>1, <4>4 DEF Blocks
      <4> QED
        BY <4>2, <4>3, <4>4, <4>5 DEF LinkCallInv
    <3> QED
      BY <3>2, <3>3, <3>4, <3>5, <3>6, RpcNotices DEF LinkUpInv
  <2>5. CASE CloseChannel(h)
    <3> DEFINE c == channelId[h]
    <3>1. c \in Number /\ call = Idle
      BY <2>5 DEF CloseChannel, TypeOK, ObjectTypeOK, Number
    <3>2. PICK outcome \in Outcome :
            /\ SimpleRpc(c, TRUE, outcome)
            /\ \/ /\ CloseDone(h, c)
                  /\ server' = IF outcome = "reply" /\ server[c] = "open"
                               THEN [server EXCEPT ![c] = "closed"] ELSE server
                  /\ UNCHANGED call
               \/ outcome = "silence" /\ Blocks("close", h, c)
      BY <2>5 DEF CloseChannel, ServerAfterClose
    <3> HIDE DEF c
    <3>3. link = "up" /\ LinkUpInv
      BY <1>0, <3>2, RpcLink
    <3>4. outcome \in {"reply", "channel_close"}
      BY <3>2, <3>3, RpcNotices DEF LinkUpInv
    <3>5. /\ channels' = channels \ {c} /\ UNCHANGED <<state, status, call>>
          /\ server' = IF outcome = "reply" /\ server[c] = "open"
                       THEN [server EXCEPT ![c] = "closed"] ELSE server
      BY <3>2, <3>4 DEF CloseDone
    <3>6. CASE outcome = "reply"
      <4>0. 0 \notin wire \cup queued /\ wire \cap queued = {}
        BY <3>3 DEF LinkUpInv
      <4>1. c \notin wire /\ wire' = {} /\ queued' = wire \cup queued
        BY <3>2, <3>6, <4>0 DEF SimpleRpc, SetAside
      <4>2. CASE server[c] = "open"
        <5>0. server' = [server EXCEPT ![c] = "closed"]
          BY <3>5, <3>6, <4>2
        <5>1. /\ \A n \in Number : server'[n] = IF n = c THEN "closed" ELSE server[n]
              /\ channels \ {0} \subseteq Number /\ wire \cup queued \subseteq Number
          BY <3>1, <3>3, <5>0, ServerUpdate DEF LinkUpInv
        <5>2. wire' \cup queued' = wire \cup queued /\ wire' \cap queued' = {}
          BY <4>1
        <5>3. c \notin wire \cup queued
          BY <3>3, <4>2 DEF LinkUpInv
        <5>4. LinkUpInv'
          BY <3>1, <3>3, <3>5, <5>1, <5>2, <5>3 DEF LinkUpInv, Good
        <5> QED
          BY <3>1, <3>5, <5>4 DEF LinkCallInv
      <4>3. CASE server[c] # "open"
        BY <3>1, <3>3, <3>5, <3>6, <4>1, <4>3 DEF LinkUpInv, LinkCallInv, Good
      <4> QED
        BY <4>2, <4>3
    <3>7. CASE outcome = "channel_close"
      <4>1. wire' \cup queued' = (wire \cup queued) \ {c} /\ wire' \cap queued' = {} /\ c \in wire
        BY <3>2, <3>3, <3>7, RpcNotices DEF LinkUpInv
      <4> QED
        BY <3>1, <3>3, <3>5, <3>7, <4>1 DEF LinkUpInv, LinkCallInv, Good
    <3> QED
      BY <3>4, <3>6, <3>7
  <2>6. CASE SendFails(h)
    BY <2>6 DEF SendFails, netVars
  <2>7. CASE PublishReceives(h)
    <3>1. PICK f \in SUBSET wire : SetAside(f)
      BY <2>7 DEF PublishReceives
    <3>2. UNCHANGED <<state, status, channels, server, link, call>> /\ call = Idle
      BY <2>7 DEF PublishReceives, connVars
    <3>3. wire' \cup queued' = wire \cup queued /\ (link = "up" => wire' \cap queued' = {})
      BY <1>0, <3>1 DEF SetAside, LinkUpInv
    <3> QED
      BY <1>0, <3>2, <3>3, NoticesKept DEF LinkCallInv
  <2>8. CASE ForgetClosed(h) \/ FreeChannel(h)
    <3>1. UNCHANGED <<connVars, call, netVars>> /\ call = Idle
      BY <2>8 DEF ForgetClosed, FreeChannel
    <3> QED
      BY <1>0, <3>1, NoticesKept DEF connVars, netVars, LinkUpInv, LinkCallInv
  <2> QED
    BY <1>4, <2>1, <2>2, <2>3, <2>4, <2>5, <2>6, <2>7, <2>8 DEF ChannelStep
<1>5. CASE BlockedReturns
  <2>1. PICK outcome \in Outcome \ {"silence"} : SimpleRpc(call.id, FALSE, outcome)
    BY <1>5 DEF BlockedReturns
  <2>2. link = "up" /\ LinkUpInv /\ LinkCallInv /\ call # Idle
    BY <1>0, <1>5, <2>1, RpcLink DEF BlockedReturns
  <2>3. call.id \in wire
    BY <2>1, <2>2, RpcNotices DEF LinkUpInv
  <2> QED
    BY <2>2, <2>3 DEF LinkCallInv
<1>6. ASSUME NEW c \in Number, ServerCloseChannel(c) PROVE Goal
  <2>1. link = "up" /\ LinkUpInv /\ LinkCallInv
    BY <1>0, <1>6 DEF ServerCloseChannel
  <2>2. /\ server[c] = "open" /\ server' = [server EXCEPT ![c] = "closing"]
        /\ wire' = wire \cup {c} /\ UNCHANGED <<state, status, channels, call, queued>>
    BY <1>6 DEF ServerCloseChannel, connVars
  <2>3. c \notin wire \cup queued /\ c # 0
    BY <2>1, <2>2 DEF LinkUpInv, Number
  <2>4. LinkUpInv'
    <3>1. /\ \A n \in Number : server'[n] = IF n = c THEN "closing" ELSE server[n]
          /\ channels \ {0} \subseteq Number /\ wire \cup queued \subseteq Number
      BY <2>1, <2>2, ServerUpdate DEF LinkUpInv
    <3>2. wire' \cup queued' = (wire \cup queued) \cup {c} /\ wire' \cap queued' = {}
      BY <2>1, <2>2, <2>3 DEF LinkUpInv
    <3> QED
      BY <2>1, <2>2, <2>3, <3>1, <3>2 DEF LinkUpInv, Good
  <2>5. LinkCallInv'
    <3> SUFFICES ASSUME call # Idle PROVE LinkCallInv'
      BY <2>2 DEF LinkCallInv
    <3>1. call.id \in Number /\ call.id # c
      BY <2>1, <2>2 DEF LinkCallInv, TypeOK, Call
    <3> QED
      BY <2>1, <2>2, <3>1 DEF LinkCallInv, TypeOK, NetTypeOK
  <2> QED
    BY <2>4, <2>5
<1>7. CASE ServerCloseConnection \/ LinkLost
  BY <1>7 DEF ServerCloseConnection, LinkLost
<1>8. CASE Tick \/ UNCHANGED vars
  <2>1. UNCHANGED <<connVars, call, netVars>>
    BY <1>8 DEF Tick, vars
  <2> QED
    BY <1>0, <2>1, NoticesKept DEF connVars, netVars, LinkUpInv, LinkCallInv
<1>9. ASSUME NEW h \in Handle, NEW c \in Number, ScanLeavesBitmap(h, c), overran' PROVE Goal
  <2>1. link = "up"
    BY <1>9, RpcLink DEF ScanLeavesBitmap, ServerRefuses
  <2> QED
    BY <1>0, <1>9, <2>1, OverrunStep
<1> QED
  BY <1>1, <1>2, <1>3, <1>4, <1>5, <1>6, <1>7, <1>8, <1>9
     DEF Next, Step, ConnectionStep, ServerStep

-----------------------------------------------------------------------------
(* The inductive invariant holds in every state, for every set of channel    *)
(* objects, bitmap size, negotiated maximum and number of connections.       *)
THEOREM InductiveInvariant == Spec => []IInv
<1>1. Init => IInv
  <2> SUFFICES ASSUME Init PROVE IInv
    OBVIOUS
  <2>1. TypeOK
    BY TypeInit
  <2>2. StatusMatchesState /\ BitmapNegotiated /\ BlockedIsGood /\ LinkInv
    BY DEF Init, StatusMatchesState, BitmapNegotiated, BlockedIsGood, LinkInv
  <2>3. TimesOrdered
    BY DEF Init, TimesOrdered
  <2> QED
    BY <2>1, <2>2, <2>3 DEF IInv
<1>2. IInv /\ [Next]_vars => IInv'
  <2> SUFFICES ASSUME IInv, [Next]_vars PROVE IInv'
    OBVIOUS
  <2>1. TypeOK'
    BY TypeStep DEF IInv
  <2>2. StatusMatchesState' /\ BitmapNegotiated'
    BY ConnectionEffect, StatusStep DEF IInv
  <2>3. TimesOrdered'
    BY <2>1, ActionTimes, TimesStep DEF IInv
  <2>4. BlockedIsGood'
    BY BlockedStep DEF IInv
  <2>5. LinkInv'
    BY LinkStep DEF IInv
  <2> QED
    BY <2>1, <2>2, <2>3, <2>4, <2>5 DEF IInv
<1> QED
  BY <1>1, <1>2, PTL DEF Spec

(* conn->status and conn->state agree whatever errors are noticed, and no    *)
(* bit of a broken connection survives.                                      *)
THEOREM StatusCorrect == Spec => []StatusMatchesState
<1>1. IInv => StatusMatchesState
  BY DEF IInv
<1> QED
  BY <1>1, InductiveInvariant, PTL

(* The scan of connection:channel() leaves the bitmap only when channel_max  *)
(* is the bitmap's last number and the server holds or closes each channel.  *)
THEOREM ScanCorrect == Spec => []ScanLeavesBitmapOnlyWhenFull
<1>1. IInv => ScanLeavesBitmapOnlyWhenFull
  <2> SUFFICES ASSUME IInv, \A n \in 0 .. MaxId : n \in channels
               PROVE  /\ channelMax = MaxId
                      /\ link = "up" => \A c \in Number : server[c] # "closed"
    BY DEF ScanLeavesBitmapOnlyWhenFull
  <2>1. MaxId \in channels
    BY ChannelAssumption
  <2>2. channelMax \in Int /\ channelMax <= MaxId
    BY ChannelAssumption DEF IInv, TypeOK, ConnTypeOK
  <2>3. channelMax = MaxId
    BY <2>1, <2>2, ChannelAssumption DEF IInv, BitmapNegotiated
  <2>4. Number \subseteq channels \ {0}
    BY ChannelAssumption DEF Number
  <2> QED
    BY <2>3, <2>4 DEF IInv, LinkInv
<1> QED
  BY <1>1, InductiveInvariant, PTL

(* The bitmap agrees with the server, up to the notices not read yet.        *)
THEOREM BitmapCorrect == Spec => []BitmapMatchesServer
<1>1. IInv => BitmapMatchesServer
  <2> SUFFICES ASSUME IInv, link = "up", ~overran, NEW c \in Number
               PROVE  /\ server[c] = "open" => c \in channels
                      /\ c \in channels => \/ server[c] = "open"
                                           \/ server[c] = "closing" /\ c \in wire \cup queued
    BY DEF BitmapMatchesServer
  <2>1. c # 0
    BY ChannelAssumption DEF Number
  <2> QED
    BY <2>1 DEF IInv, LinkInv
<1> QED
  BY <1>1, InductiveInvariant, PTL

(* A late close notice never hits a channel opened again under its number.   *)
THEOREM NoticeCorrect == Spec => []NoticeMatchesChannel
<1>1. IInv => NoticeMatchesChannel
  BY DEF IInv, LinkInv, NoticeMatchesChannel
<1> QED
  BY <1>1, InductiveInvariant, PTL

(* Only an object made in the second of a reconnect survives it.             *)
THEOREM OldObjectCorrect == Spec => []OldObjectNeedsSameSecond
<1>1. IInv => OldObjectNeedsSameSecond
  <2> SUFFICES ASSUME IInv, NEW h \in Handle, Usable(h), born[h] < epoch
               PROVE  stamp[h] = timestamp
    BY DEF OldObjectNeedsSameSecond
  <2>1. stamp[h] >= timestamp /\ stamp[h] <= timestamp
    BY DEF IInv, TimesOrdered, Usable
  <2>2. stamp[h] \in Int /\ timestamp \in Int
    BY DEF IInv, TypeOK, ConnTypeOK, ObjectTypeOK
  <2> QED
    BY <2>1, <2>2
<1> QED
  BY <1>1, InductiveInvariant, PTL

(* A call that blocks for ever waits on a channel the server is closing.     *)
THEOREM BlockedCorrect == Spec => []BlockedOnClosingChannel
<1>1. IInv => BlockedOnClosingChannel
  BY DEF IInv, LinkInv, BlockedOnClosingChannel
<1> QED
  BY <1>1, InductiveInvariant, PTL

=============================================================================
