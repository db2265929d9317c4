---------------------------- MODULE FtpClientProofs ----------------------------
(* The safety properties of FtpClient, for either mode and however far the  *)
(* server is behind when a call begins.                                     *)
EXTENDS FtpClient, SequenceTheorems, TLAPS

(* The control connection carries at most two replies ahead of the client. *)
LEMMA Single ==
  ASSUME NEW S, NEW a \in S
  PROVE  /\ <<a>> # <<>> /\ Head(<<a>>) = a /\ Tail(<<a>>) = <<>> /\ Append(<<>>, a) = <<a>>
         /\ <<a>> \in Seq(S) /\ <<>> \in Seq(S)
  OBVIOUS

(* Two replies are read in the order in which they came. *)
LEMMA Pair ==
  ASSUME NEW S, NEW a \in S, NEW b \in S
  PROVE  /\ <<a, b>> # <<>> /\ Head(<<a, b>>) = a /\ Tail(<<a, b>>) = <<b>> /\ Append(<<a>>, b) = <<a, b>>
         /\ <<a, b>> \in Seq(S)
<1>1. <<a, b>> \in Seq(S) /\ <<a>> \in Seq(S) /\ <<b>> \in Seq(S)
  OBVIOUS
<1>2. <<a, b>> # <<>> /\ Head(<<a, b>>) = a
  OBVIOUS
<1>3. Tail(<<a, b>>) = <<b>>
  <2>1. Tail(<<a, b>>) \in Seq(S) /\ Len(Tail(<<a, b>>)) = 1 /\ Tail(<<a, b>>)[1] = b
    OBVIOUS
  <2> QED
    BY <1>1, <2>1, SeqEqual
<1>4. Append(<<a>>, b) = <<a, b>>
  <2>1. /\ Append(<<a>>, b) \in Seq(S) /\ Len(Append(<<a>>, b)) = 2
        /\ Append(<<a>>, b)[1] = a /\ Append(<<a>>, b)[2] = b
    OBVIOUS
  <2>2. Len(<<a, b>>) = 2 /\ <<a, b>>[1] = a /\ <<a, b>>[2] = b
    OBVIOUS
  <2> DEFINE s == Append(<<a>>, b)
             t == <<a, b>>
  <2>3. Len(s) = Len(t) /\ \A i \in 1 .. Len(s) : s[i] = t[i]
    BY <2>1, <2>2
  <2> QED
    BY <1>1, <2>1, <2>3, SeqEqual
<1> QED
  BY <1>1, <1>2, <1>3, <1>4

(* A queue stays a queue. *)
LEMMA QueueType ==
  ASSUME NEW S, NEW s \in Seq(S)
  PROVE  /\ \A a \in S : Append(s, a) \in Seq(S)
         /\ s # <<>> => Head(s) \in S /\ Tail(s) \in Seq(S)
  OBVIOUS

-----------------------------------------------------------------------------
(* The pieces of the client. *)

(* What getreply returns, and that a client that gave up stays so. *)
LEMMA GetReplyType ==
  ASSUME TypeOK, NEW r, GetReply(r)
  PROVE  /\ own' \in BOOLEAN /\ gaveUp' \in BOOLEAN /\ replies' \in Seq(Reply) /\ r \in Outcome
         /\ gaveUp => gaveUp'
         /\ replies' = replies \/ (replies # <<>> /\ replies' = Tail(replies))
<1>1. replies # <<>> => Head(replies) \in Reply /\ Tail(replies) \in Seq(Reply)
  BY QueueType DEF TypeOK
<1>2. CASE replies # <<>>
  <2>1. Head(replies).class \in Outcome
    BY <1>1, <1>2 DEF Reply
  <2> QED
    BY <1>1, <1>2, <2>1 DEF GetReply, TypeOK
<1>3. CASE replies = <<>>
  BY <1>3 DEF GetReply, TypeOK, Outcome
<1> QED
  BY <1>2, <1>3

(* sendcmd puts a command after those that are on their way. *)
LEMMA SendCmdType ==
  ASSUME TypeOK, NEW c \in Command, NEW then, SendCmd(c, then)
  PROVE  commands' \in Seq(Command) /\ cmd' = c /\ pc' = then /\ result' = result
  BY QueueType DEF TypeOK, SendCmd

(* The client's half of the types. *)
LEMMA ControlType ==
  ASSUME TypeOK, UNCHANGED <<call, mode, serverVars, backlog, lineVars>>,
         data' \in {"none", "open", "listening", "connected"},
         own' \in BOOLEAN, gaveUp' \in BOOLEAN,
         replies' \in Seq(Reply), commands' \in Seq(Command), cmd' \in Command,
         pc' \in {"idle", "closed", "reply", "final", "connect", "accept", "data"},
         result' \in {"none", "ok", "failed", "raised"}
  PROVE  TypeOK'
  BY DEF TypeOK, serverVars, lineVars

(* A reply to c is a reply, and it can be read again. *)
LEMMA ReplyToType ==
  ASSUME NEW c \in Command, NEW a \in ReplyTo(c)
  PROVE  a \in Reply /\ a.cmd = c /\ a.class \in Outcome \ {Lost}
  BY DEF ReplyTo, Reply

(* What the server says to c is a reply to it. *)
LEMMA SaysReplyTo ==
  ASSUME NEW c \in Command, NEW k \in Outcome \ {Lost}, NEW fits \in BOOLEAN
  PROVE  /\ [cmd |-> c, class |-> k, fits |-> fits] \in ReplyTo(c)
         /\ [cmd |-> c, class |-> k, fits |-> fits] \in Preliminary(c) <=> k = PRELIM
  BY DEF ReplyTo, Reply, Preliminary

(* The classes differ, and none of them is Lost. *)
LEMMA Classes ==
  /\ {PRELIM, COMPLETE, CONTINUE, ERROR} \subseteq Outcome \ {Lost}
  /\ PRELIM # ERROR /\ PRELIM # COMPLETE /\ PRELIM # CONTINUE /\ PRELIM # Lost
  BY DEF Outcome, Lost, PRELIM, COMPLETE, CONTINUE, ERROR

(* One reply is read, and nothing else is on its way. *)
LEMMA ReadsOne ==
  ASSUME IInv, NEW r, GetReply(r), UNCHANGED <<up, odd>>,
         OneReply(cmd) \/ SecondReply(cmd) \/ ~Regular
  PROVE  Regular' => own' /\ commands = <<>> /\ working = NoCommand /\ replies' = <<>>
<1> SUFFICES ASSUME Regular'
             PROVE  own' /\ commands = <<>> /\ working = NoCommand /\ replies' = <<>>
  OBVIOUS
<1>1. TypeOK /\ gaveUp \in BOOLEAN /\ odd \in BOOLEAN /\ cmd \in Command
  BY DEF IInv, InCall, TypeOK
<1>2. Regular
  BY <1>1, GetReplyType DEF Regular
<1>3. own
  BY <1>2 DEF IInv, InCall, OwnReplies
<1>4. CASE replies # <<>>
  <2>1. PICK a \in ReplyTo(cmd) : OnItsWay(<<>>, NoCommand, <<a>>)
    BY <1>2, <1>4 DEF OneReply, SecondReply, OnItsWay, Quiet
  <2>2. a \in Reply /\ a.cmd = cmd
    BY <1>1, <2>1, ReplyToType
  <2>3. replies = <<a>>
    BY <2>1 DEF OnItsWay
  <2>4. Head(replies) = a /\ Tail(replies) = <<>>
    BY <2>2, <2>3, Single
  <2>5. Head(replies).cmd = cmd
    BY <2>2, <2>4
  <2>6. replies' = Tail(replies) /\ (own' <=> own /\ Head(replies).cmd = cmd)
    BY <1>4 DEF GetReply
  <2> QED
    BY <1>3, <2>1, <2>4, <2>5, <2>6 DEF OnItsWay
<1>5. CASE replies = <<>>
  <2>1. ~up /\ own' = own /\ replies' = <<>>
    BY <1>1, <1>5 DEF GetReply, Regular, TypeOK
  <2>2. Quiet
    <3>1. ASSUME NEW a \in ReplyTo(cmd) PROVE replies # <<a>>
      BY <1>1, <1>5, <3>1, ReplyToType, Single
    <3> QED
      BY <1>2, <2>1, <3>1 DEF OneReply, SecondReply, OnItsWay
  <2> QED
    BY <1>3, <2>1, <2>2 DEF Quiet, OnItsWay
<1> QED
  BY <1>4, <1>5

(* The command is on its way, unless the server has gone. *)
LEMMA SendsOne ==
  ASSUME NEW c \in Command, NEW then, SendCmd(c, then), commands = <<>>, UNCHANGED up,
         working' = NoCommand, replies' = <<>>, up \in BOOLEAN
  PROVE  OneReply(c)' /\ TwoReplies(c)'
<1>1. commands' = IF up THEN <<c>> ELSE <<>>
  BY Single DEF SendCmd
<1> QED
  BY <1>1 DEF OneReply, TwoReplies, Quiet, OnItsWay

(* A call ends: it has read all its replies, and closed its data socket or    *)
(* raised.                                                                    *)
LEMMA EndOfCallInv ==
  ASSUME IInv, TypeOK', pc' \in {"idle", "closed"},
         result' # "raised" => data' = "none",
         \/ data' = "none"
         \/ data' = "open" /\ mode' = "passive"
         \/ data' = "connected" /\ call' = "list",
         Regular' => own' /\ Quiet',
         RaisesForAReason'
  PROVE  InCall'
BY DEF IInv, InCall, OwnReplies, WaitsInCall, DataOfStep, InStep

(* It ends without raising. *)
LEMMA ReturnInv ==
  ASSUME IInv, TypeOK', pc' \in {"idle", "closed"}, result' # "raised", data' = "none",
         Regular' => own' /\ Quiet'
  PROVE  InCall'
BY EndOfCallInv DEF RaisesForAReason

(* A command that is not a transfer is sent. *)
LEMMA NextCommandInv ==
  ASSUME IInv, TypeOK', pc' = "reply", cmd' \notin Transfer,
         cmd' \in {"PASV", "PORT"} => call' \in {"get", "put", "list"},
         cmd' = "PORT" => mode' = "active",
         cmd' = "MDTM" => call' = "time",
         cmd' = "PASV" => mode' = "passive",
         cmd' # "PORT" => data' = "none",
         Regular' => own' /\ OneReply(cmd)'
  PROVE  InCall'
BY DEF IInv, InCall, OwnReplies, RaisesForAReason, WaitsInCall, DataOfStep, InStep

-----------------------------------------------------------------------------
(* The steps on the control connection. *)

(* What every step that reads one reply does. *)
LEMMA AnsweredGives ==
  ASSUME IInv, NEW c \in Command \ (Transfer \cup {"PORT"}), NEW r,
         pc = "reply", cmd = c, GetReply(r), UNCHANGED <<call, mode, serverVars>>
  PROVE  /\ own' \in BOOLEAN /\ gaveUp' \in BOOLEAN /\ replies' \in Seq(Reply)
         /\ data = "none" /\ UNCHANGED <<call, mode, up>>
         /\ Regular' => own' /\ commands = <<>> /\ working' = NoCommand /\ replies' = <<>>
<1>1. TypeOK
  BY DEF IInv, InCall
<1>2. data = "none"
  BY <1>1 DEF IInv, InCall, DataOfStep
<1>3. OneReply(cmd) \/ ~Regular
  BY <1>1 DEF IInv, InCall, InStep
<1>4. UNCHANGED <<call, mode, working, up, odd>>
  BY <1>1 DEF serverVars
<1>5. Regular' => own' /\ commands = <<>> /\ working = NoCommand /\ replies' = <<>>
  BY <1>1, <1>3, <1>4, ReadsOne
<1> QED
  BY <1>1, <1>2, <1>4, <1>5, GetReplyType

(* A reply is read, and then the next command of the call is sent. *)
LEMMA AnsweredThenSends ==
  ASSUME IInv, NEW c \in Command \ (Transfer \cup {"PORT"}), NEW r, Answered(c, r),
         NEW next \in Command \ (Transfer \cup {"PASV", "PORT", "MDTM"}), SendCmd(next, "reply")
  PROVE  InCall'
<1>1. TypeOK /\ up \in BOOLEAN
  BY DEF IInv, InCall, TypeOK
<1>2. /\ own' \in BOOLEAN /\ gaveUp' \in BOOLEAN /\ replies' \in Seq(Reply)
      /\ data' = "none" /\ UNCHANGED <<call, mode, up>>
      /\ Regular' => own' /\ commands = <<>> /\ working' = NoCommand /\ replies' = <<>>
  BY AnsweredGives DEF Answered, ControlOnly
<1>3. commands' \in Seq(Command) /\ cmd' = next /\ pc' = "reply" /\ result' = result
  BY <1>1, SendCmdType
<1>4. TypeOK'
  BY <1>1, <1>2, <1>3, ControlType DEF Answered, ControlOnly, TypeOK
<1>5. Regular' => own' /\ OneReply(next)'
  BY <1>1, <1>2, SendsOne
<1> QED
  BY <1>2, <1>3, <1>4, <1>5, NextCommandInv DEF OneReply

(* A reply is read, and then the call returns. *)
LEMMA AnsweredThenEnds ==
  ASSUME IInv, NEW c \in Command \ (Transfer \cup {"PORT"}), NEW r, Answered(c, r),
         pc' \in {"idle", "closed"}, result' \in {"ok", "failed"}, UNCHANGED <<cmd, commands>>
  PROVE  InCall'
<1>1. TypeOK
  BY DEF IInv, InCall
<1>2. /\ own' \in BOOLEAN /\ gaveUp' \in BOOLEAN /\ replies' \in Seq(Reply)
      /\ data' = "none" /\ UNCHANGED <<call, mode, up>>
      /\ Regular' => own' /\ commands = <<>> /\ working' = NoCommand /\ replies' = <<>>
  BY AnsweredGives DEF Answered, ControlOnly
<1>3. TypeOK'
  BY <1>1, <1>2, ControlType DEF Answered, ControlOnly, TypeOK
<1> QED
  BY <1>2, <1>3, ReturnInv DEF Quiet, OnItsWay

(* The commands that get one reply. *)
LEMMA CommandsAre ==
  {"greeting", "USER", "PASS", "TYPE", "SIMPLE", "MDTM", "RNFR", "RNTO", "PASV", "QUIT"}
    \subseteq Command \ (Transfer \cup {"PORT"})
BY DEF Command, Transfer

(* The steps of the login keep the invariant. *)
LEMMA LoginInv ==
  ASSUME IInv, GreetingAnswered \/ UserAnswered \/ PassAnswered \/ TypeAnswered
  PROVE  InCall'
<1>1. {"USER", "PASS", "TYPE"} \subseteq Command \ (Transfer \cup {"PASV", "PORT", "MDTM"})
  BY DEF Command, Transfer
<1>2. CASE GreetingAnswered
  BY <1>1, <1>2, CommandsAre, AnsweredThenSends, AnsweredThenEnds DEF GreetingAnswered, Abandon
<1>3. CASE UserAnswered
  <2>1. PICK r \in Outcome :
          /\ Answered("USER", r)
          /\ CASE r = COMPLETE -> SendCmd("TYPE", "reply")
               [] r = CONTINUE -> SendCmd("PASS", "reply")
               [] OTHER        -> Abandon
    BY <1>3 DEF UserAnswered
  <2>2. SendCmd("TYPE", "reply") \/ SendCmd("PASS", "reply") \/ Abandon
    BY <2>1 DEF COMPLETE, CONTINUE
  <2> QED
    BY <1>1, <2>1, <2>2, CommandsAre, AnsweredThenSends, AnsweredThenEnds DEF Abandon
<1>4. CASE PassAnswered
  BY <1>1, <1>4, CommandsAre, AnsweredThenSends, AnsweredThenEnds DEF PassAnswered, Abandon
<1>5. CASE TypeAnswered
  BY <1>5, CommandsAre, AnsweredThenEnds DEF TypeAnswered, Finish
<1> QED
  BY <1>2, <1>3, <1>4, <1>5

(* So do those of a command that needs no data connection. *)
LEMMA SimpleInv ==
  ASSUME IInv, Answers("SIMPLE") \/ RnfrAnswered \/ Answers("RNTO") \/ QuitAnswered
  PROVE  InCall'
<1>1. "RNTO" \in Command \ (Transfer \cup {"PASV", "PORT", "MDTM"})
  BY DEF Command, Transfer
<1>2. ASSUME NEW c \in {"SIMPLE", "RNTO"}, Answers(c) PROVE InCall'
  BY <1>2, CommandsAre, AnsweredThenEnds DEF Answers, Finish
<1>3. CASE RnfrAnswered
  BY <1>1, <1>3, CommandsAre, AnsweredThenSends, AnsweredThenEnds DEF RnfrAnswered, Finish
<1>4. CASE QuitAnswered
  BY <1>4, CommandsAre, AnsweredThenEnds DEF QuitAnswered
<1> QED
  BY <1>2, <1>3, <1>4

(* In the regular case a reply that is read for its text fits. *)
LEMMA RegularFits ==
  ASSUME IInv, NEW c \in Command \ (Transfer \cup {"PORT"}), pc = "reply", cmd = c,
         NEW r, GetReply(r), r # Lost, UNCHANGED <<call, mode, serverVars>>, Regular'
  PROVE  Fits
<1>1. TypeOK /\ own' /\ replies # <<>> /\ UNCHANGED odd
  BY AnsweredGives DEF IInv, InCall, GetReply, serverVars
<1>2. Head(replies).cmd = cmd
  BY <1>1, Zenon DEF GetReply
<1>3. Head(replies) = replies[1] /\ 1 \in 1 .. Len(replies)
  BY <1>1 DEF TypeOK
<1>4. replies[1].fits
  BY <1>1, <1>3 DEF IInv, Told, OddIsTold, Regular
<1> QED
  BY <1>1, <1>2, <1>3, <1>4 DEF Fits

(* time raises only over a reply that does not fit. *)
LEMMA TimeAnsweredInv ==
  ASSUME IInv, TimeAnswered
  PROVE  InCall'
<1>1. PICK r \in Outcome :
        /\ Answered("MDTM", r)
        /\ Finish(IF r # COMPLETE THEN "failed" ELSE IF Fits THEN "ok" ELSE "raised")
  BY DEF TimeAnswered
<1>2. CASE r # COMPLETE \/ Fits
  BY <1>1, <1>2, CommandsAre, AnsweredThenEnds DEF Finish
<1>3. CASE r = COMPLETE /\ ~Fits
  <2>1. TypeOK /\ pc' = "idle" /\ result' = "raised" /\ UNCHANGED <<cmd, commands>> /\ call = "time"
    BY <1>1, <1>3 DEF Finish, IInv, InCall, WaitsInCall, Answered
  <2>2. /\ own' \in BOOLEAN /\ gaveUp' \in BOOLEAN /\ replies' \in Seq(Reply)
        /\ data' = "none" /\ UNCHANGED <<call, mode, up>>
        /\ Regular' => own' /\ commands = <<>> /\ working' = NoCommand /\ replies' = <<>>
    BY <1>1, CommandsAre, AnsweredGives DEF Answered, ControlOnly
  <2>3. TypeOK'
    BY <1>1, <2>1, <2>2, ControlType DEF Answered, ControlOnly, TypeOK
  <2>4. ~Regular'
    BY <1>1, <1>3, CommandsAre, Classes, RegularFits DEF Answered, ControlOnly, COMPLETE, Lost
  <2>5. RaisesForAReason'
    BY <2>1, <2>2, <2>4 DEF RaisesForAReason
  <2> QED
    BY <2>1, <2>2, <2>3, <2>4, <2>5, EndOfCallInv
<1> QED
  BY <1>2, <1>3

-----------------------------------------------------------------------------
(* The steps that begin a call. *)

(* Between two calls nothing is on its way. *)
LEMMA IdleGives ==
  ASSUME IInv, pc = "idle"
  PROVE  Regular => own /\ commands = <<>> /\ working = NoCommand /\ replies = <<>>
BY DEF IInv, InCall, OwnReplies, InStep, Quiet, OnItsWay

(* So does the command with which a call begins. *)
LEMMA BeginInv ==
  ASSUME IInv, NEW c \in {"simple", "time", "rename", "close"}, Begin(c)
  PROVE  InCall'
<1> DEFINE first == FirstCommand(c)
<1>1. first \in {"SIMPLE", "MDTM", "RNFR", "QUIT"} /\ (first = "MDTM" => c = "time")
  BY DEF FirstCommand
<1>2. first \in Command /\ first \notin Transfer \cup {"PASV", "PORT"}
  BY <1>1 DEF Command, Transfer
<1>3. TypeOK /\ up \in BOOLEAN /\ SendCmd(first, "reply")
  BY DEF IInv, InCall, TypeOK, Begin
<1> HIDE DEF first
<1>4. commands' \in Seq(Command) /\ cmd' = first /\ pc' = "reply" /\ result' = result
  BY <1>2, <1>3, SendCmdType
<1>5. TypeOK'
  BY <1>2, <1>3, <1>4 DEF TypeOK, Begin, serverVars
<1>6. Regular' => own' /\ OneReply(first)'
  BY <1>2, <1>3, IdleGives, SendsOne DEF Begin, serverVars, Regular
<1> QED
  BY <1>1, <1>2, <1>4, <1>5, <1>6, NextCommandInv DEF Begin, OneReply

(* So does the command with which a transfer begins. *)
LEMMA BeginTransferInv ==
  ASSUME IInv, NEW c \in {"get", "put", "list"}, NEW m \in Modes, BeginTransfer(c, m)
  PROVE  InCall'
<1> DEFINE first == IF m = "passive" THEN "PASV" ELSE "PORT"
<1>1. first \in Command /\ first \notin Transfer /\ m \in {"passive", "active"}
  BY FtpAssumption DEF Command, Transfer
<1>2. /\ TypeOK /\ up \in BOOLEAN /\ SendCmd(first, "reply") /\ call' = c /\ mode' = m
      /\ IF m = "passive" THEN data' = "none" /\ UNCHANGED backlog
         ELSE data' = "listening" /\ backlog' = FALSE
      /\ UNCHANGED <<own, gaveUp, replies, serverVars, more>> /\ row' = "none" /\ pc = "idle"
  BY DEF IInv, InCall, TypeOK, BeginTransfer
<1>3. first = "PASV" => m = "passive"
  BY <1>1
<1>4. first = "PORT" => m = "active"
  BY <1>1
<1> HIDE DEF first
<1>5. commands' \in Seq(Command) /\ cmd' = first /\ pc' = "reply" /\ result' = result
  BY <1>1, <1>2, SendCmdType
<1>6. TypeOK'
  <2>1. data' \in {"none", "open", "listening", "connected"} /\ backlog' \in BOOLEAN
        /\ row' \in {"none", "file", "blank"}
    BY <1>2 DEF TypeOK
  <2>2. /\ pc' = "reply" /\ call' = c /\ mode' \in Modes /\ cmd' \in Command /\ commands' \in Seq(Command)
        /\ UNCHANGED <<result, own, gaveUp, replies, up, working, remote, odd, more>>
    BY <1>1, <1>2, <1>5 DEF serverVars
  <2> QED
    BY <1>2, <2>1, <2>2 DEF TypeOK
<1>7. Regular' => own' /\ OneReply(first)'
  BY <1>1, <1>2, IdleGives, SendsOne DEF serverVars, Regular
<1>8. /\ cmd' # "PORT" => data' = "none"
      /\ cmd' # "MDTM"
  BY <1>1, <1>2, <1>5 DEF first
<1> QED
  BY <1>1, <1>2, <1>3, <1>4, <1>5, <1>6, <1>7, <1>8, NextCommandInv DEF OneReply

(* So does a transfer that cannot listen. *)
LEMMA BeginFailsInv ==
  ASSUME IInv, NEW c \in {"get", "put", "list"}, NEW m \in Modes, BeginFails(c, m)
  PROVE  InCall'
<1>1. TypeOK'
  BY DEF IInv, InCall, TypeOK, BeginFails, Finish, serverVars
<1> QED
  BY <1>1, IdleGives, ReturnInv DEF BeginFails, Finish, Quiet, OnItsWay, serverVars, Regular

-----------------------------------------------------------------------------
(* The steps of a transfer. *)

(* The command of a transfer is one of those that transfer. *)
LEMMA TransferCommandType ==
  ASSUME IInv, pc = "connect" \/ (pc = "reply" /\ cmd \in {"PASV", "PORT"})
  PROVE  TransferCommand \in Transfer /\ TransferCommand \in Command
BY DEF IInv, InCall, WaitsInCall, TransferCommand, Transfer, Command

(* The answer to PASV keeps the invariant: a failed one ends the call, and so *)
(* does one without an address or from a server that is gone, which raises.   *)
LEMMA PasvAnsweredInv ==
  ASSUME IInv, PasvAnswered
  PROVE  InCall'
<1>1. PICK r \in Outcome :
        /\ pc = "reply" /\ cmd = "PASV" /\ GetReply(r)
        /\ IF r = COMPLETE
           THEN /\ data' = "open"
                /\ \/ Fits /\ pc' = "connect" /\ UNCHANGED <<cmd, commands, result>>
                   \/ (~Fits \/ ~up) /\ Finish("raised")
           ELSE Finish("failed") /\ UNCHANGED data
        /\ UNCHANGED <<call, mode, serverVars, backlog, lineVars>>
  BY DEF PasvAnswered
<1>2. /\ own' \in BOOLEAN /\ gaveUp' \in BOOLEAN /\ replies' \in Seq(Reply)
      /\ data = "none" /\ UNCHANGED <<call, mode, up>>
      /\ Regular' => own' /\ commands = <<>> /\ working' = NoCommand /\ replies' = <<>>
  BY <1>1, CommandsAre, AnsweredGives
<1>3. TypeOK /\ call' \in {"get", "put", "list"} /\ mode' = "passive" /\ UNCHANGED <<cmd, commands>>
  BY <1>1 DEF IInv, InCall, WaitsInCall, Finish
<1>4. CASE r = COMPLETE /\ pc' = "connect" /\ UNCHANGED result
  <2>1. data' = "open"
    BY <1>1, <1>4
  <2>2. TypeOK'
    BY <1>1, <1>2, <1>3, <1>4, <2>1, ControlType DEF TypeOK
  <2> QED
    BY <1>2, <1>3, <1>4, <2>2
       DEF IInv, InCall, OwnReplies, RaisesForAReason, WaitsInCall, DataOfStep, InStep, Quiet, OnItsWay
<1>5. CASE r = COMPLETE /\ (~Fits \/ ~up) /\ Finish("raised")
  <2>1. data' = "open" /\ pc' = "idle" /\ result' = "raised"
    BY <1>1, <1>5 DEF Finish
  <2>2. TypeOK'
    BY <1>1, <1>2, <1>3, <2>1, ControlType DEF TypeOK
  <2>3. ~Regular' \/ ~up'
    BY <1>1, <1>2, <1>5, CommandsAre, RegularFits DEF COMPLETE, Lost
  <2>4. RaisesForAReason'
    BY <1>3, <2>1, <2>3 DEF RaisesForAReason
  <2> QED
    BY <1>2, <1>3, <2>1, <2>2, <2>4, EndOfCallInv DEF Quiet, OnItsWay
<1>6. CASE r # COMPLETE
  <2>1. Finish("failed") /\ data' = "none"
    BY <1>1, <1>2, <1>6
  <2>2. TypeOK'
    BY <1>1, <1>2, <1>3, <2>1, ControlType DEF TypeOK, Finish
  <2> QED
    BY <1>2, <1>3, <2>1, <2>2, ReturnInv DEF Finish, Quiet, OnItsWay
<1> QED
  BY <1>1, <1>4, <1>5, <1>6

(* Either way of opening the data connection leads to two replies. *)
LEMMA TransferBeginsInv ==
  ASSUME IInv, TypeOK', cmd' \in Transfer, call' \in {"get", "put", "list"},
         \/ pc' = "reply" /\ data' = "connected"
         \/ pc' = "accept" /\ mode' = "active",
         Regular' => own' /\ TwoReplies(cmd)'
  PROVE  InCall'
BY DEF IInv, InCall, OwnReplies, RaisesForAReason, WaitsInCall, DataOfStep, InStep, Transfer

(* So does the data connection to the server. *)
LEMMA ConnectInv ==
  ASSUME IInv, Connect
  PROVE  InCall'
<1>1. TypeOK /\ up \in BOOLEAN /\ pc = "connect" /\ SendCmd(TransferCommand, "reply")
  BY DEF IInv, InCall, TypeOK, Connect
<1>2. PICK next \in Transfer : next \in Command /\ SendCmd(next, "reply")
  BY <1>1, TransferCommandType
<1>3. commands' \in Seq(Command) /\ cmd' = next /\ pc' = "reply" /\ result' = result
  BY <1>1, <1>2, SendCmdType
<1>4. TypeOK'
  BY <1>1, <1>2, <1>3 DEF TypeOK, Connect, lineVars
<1>5. Regular => own /\ commands = <<>> /\ working = NoCommand /\ replies = <<>>
  BY <1>1 DEF IInv, InCall, OwnReplies, InStep, Quiet, OnItsWay
<1>6. Regular' => own' /\ TwoReplies(next)'
  BY <1>1, <1>2, <1>5, SendsOne DEF Connect, Regular
<1>7. data' = "connected" /\ call' \in {"get", "put", "list"}
  BY DEF IInv, InCall, WaitsInCall, Connect
<1> QED
  BY <1>2, <1>3, <1>4, <1>6, <1>7, TransferBeginsInv DEF TwoReplies

(* So does one that the server refuses. *)
LEMMA ConnectFailsInv ==
  ASSUME IInv, ConnectFails
  PROVE  InCall'
<1>1. TypeOK'
  BY DEF IInv, InCall, TypeOK, ConnectFails, AfterConnectFailure, Finish, serverVars, lineVars
<1>2. Regular => own /\ Quiet
  BY DEF IInv, InCall, OwnReplies, InStep, ConnectFails
<1> QED
  BY <1>1, <1>2, ReturnInv
     DEF ConnectFails, AfterConnectFailure, Finish, Quiet, OnItsWay, serverVars, Regular

(* So does the answer to PORT. *)
LEMMA PortAnsweredInv ==
  ASSUME IInv, PortAnswered
  PROVE  InCall'
<1>1. PICK r \in Outcome :
        /\ pc = "reply" /\ cmd = "PORT" /\ GetReply(r)
        /\ IF r = COMPLETE
           THEN SendCmd(TransferCommand, "accept") /\ UNCHANGED <<data, backlog>>
           ELSE Finish("failed") /\ data' = "none" /\ backlog' = FALSE
        /\ UNCHANGED <<call, mode, serverVars, lineVars>>
  BY DEF PortAnswered
<1>2. TypeOK /\ up \in BOOLEAN /\ UNCHANGED <<call, mode, working, remote, up, odd, more, row>>
  BY <1>1 DEF IInv, InCall, TypeOK, serverVars, lineVars
<1>3. own' \in BOOLEAN /\ gaveUp' \in BOOLEAN /\ replies' \in Seq(Reply)
  BY <1>1, <1>2, GetReplyType
<1>4. Regular' => own' /\ commands = <<>> /\ working = NoCommand /\ replies' = <<>>
  <2>1. OneReply(cmd) \/ ~Regular
    BY <1>1 DEF IInv, InCall, InStep, Transfer
  <2> QED
    BY <1>1, <1>2, <2>1, ReadsOne
<1>5. CASE r = COMPLETE
  <2>1. PICK next \in Transfer : next \in Command /\ SendCmd(next, "accept")
    BY <1>1, <1>5, TransferCommandType
  <2>2. commands' \in Seq(Command) /\ cmd' = next /\ pc' = "accept" /\ result' = result
    BY <1>2, <2>1, SendCmdType
  <2>3. TypeOK'
    BY <1>1, <1>2, <1>3, <1>5, <2>1, <2>2 DEF TypeOK
  <2>4. Regular' => own' /\ TwoReplies(next)'
    BY <1>2, <1>4, <2>1, SendsOne
  <2>5. mode' = "active" /\ call' \in {"get", "put", "list"}
    BY <1>1, <1>2 DEF IInv, InCall, WaitsInCall
  <2> QED
    BY <2>1, <2>2, <2>3, <2>4, <2>5, TransferBeginsInv DEF TwoReplies
<1>6. CASE r # COMPLETE
  <2>1. Finish("failed") /\ data' = "none" /\ backlog' = FALSE
    BY <1>1, <1>6
  <2>2. TypeOK'
    BY <1>2, <1>3, <2>1 DEF TypeOK, Finish
  <2> QED
    BY <1>2, <1>4, <2>1, <2>2, ReturnInv DEF Finish, Quiet, OnItsWay
<1> QED
  BY <1>5, <1>6

(* So does the data connection from the server. *)
LEMMA AcceptInv ==
  ASSUME IInv, Accept
  PROVE  InCall'
<1>1. TypeOK'
  <2>1. /\ TypeOK /\ pc' = "reply" /\ data' = "connected"
        /\ backlog' = FALSE
        /\ UNCHANGED <<call, mode, cmd, result, own, gaveUp, up, commands, replies, working, remote,
                       odd, more, row>>
    BY DEF IInv, InCall, TypeOK, Accept, serverVars, lineVars
  <2>2. /\ own' \in BOOLEAN /\ gaveUp' \in BOOLEAN /\ backlog' \in BOOLEAN /\ up' \in BOOLEAN
        /\ odd' \in BOOLEAN /\ more' \in BOOLEAN
    BY <2>1, Zenon DEF TypeOK
  <2>3. /\ call' \in {"connect", "simple", "time", "rename", "get", "put", "list", "close"}
        /\ mode' \in Modes \cup {"none"} /\ cmd' \in Command
        /\ result' \in {"none", "ok", "failed", "raised"}
        /\ commands' \in Seq(Command) /\ replies' \in Seq(Reply)
        /\ working' \in Transfer \cup {NoCommand}
        /\ remote' \in {"none", "listening", "connected", "closed"} /\ row' \in {"none", "file", "blank"}
    BY <2>1, Zenon DEF TypeOK
  <2> QED
    BY <2>1, <2>2, <2>3 DEF TypeOK
<1>2. cmd \in Transfer /\ call' \in {"get", "put", "list"} /\ (Regular => own /\ TwoReplies(cmd))
  BY DEF IInv, InCall, WaitsInCall, OwnReplies, InStep, Accept
<1>3. UNCHANGED <<cmd, own, gaveUp, up, commands, replies, working, odd>>
  BY DEF Accept, serverVars
<1>4. Regular' => own' /\ TwoReplies(cmd)'
  BY <1>2, <1>3 DEF TwoReplies, Quiet, OnItsWay, Regular
<1> QED
  BY <1>1, <1>2, <1>3, <1>4, TransferBeginsInv DEF Accept

(* So does one that does not come in time. *)
LEMMA AcceptTimesOutInv ==
  ASSUME IInv, AcceptTimesOut
  PROVE  InCall'
<1>1. TypeOK'
  BY DEF IInv, InCall, TypeOK, AcceptTimesOut, serverVars, lineVars
<1>2. cmd \in Transfer /\ mode = "active"
  BY DEF IInv, InCall, WaitsInCall, AcceptTimesOut
<1> QED
  BY <1>1, <1>2
     DEF IInv, InCall, OwnReplies, RaisesForAReason, WaitsInCall, DataOfStep, InStep, AcceptTimesOut, Transfer, Regular

(* The first reply of a transfer: a preliminary one announces a second. *)
LEMMA ReadsFirst ==
  ASSUME IInv, pc = "reply", cmd \in Transfer, NEW r, GetReply(r),
         UNCHANGED <<cmd, commands, serverVars>>
  PROVE  Regular' => own' /\ IF r = PRELIM THEN SecondReply(cmd)' ELSE Quiet'
<1> SUFFICES ASSUME Regular'
             PROVE  own' /\ IF r = PRELIM THEN SecondReply(cmd)' ELSE Quiet'
  OBVIOUS
<1>1. TypeOK /\ gaveUp \in BOOLEAN /\ odd \in BOOLEAN /\ cmd \in Command /\ UNCHANGED <<working, up, odd>>
  BY DEF IInv, InCall, TypeOK, serverVars
<1>2. Regular
  BY <1>1, GetReplyType DEF Regular
<1>3. own /\ TwoReplies(cmd)
  BY <1>2 DEF IInv, InCall, OwnReplies, InStep
<1>4. Preliminary(cmd) \subseteq ReplyTo(cmd) /\ \A a \in Preliminary(cmd) : a.class = PRELIM
  BY DEF Preliminary
<1>5. \A a \in ReplyTo(cmd) : a \in Reply /\ a.cmd = cmd /\ (a \notin Preliminary(cmd) => a.class # PRELIM)
  BY <1>1, ReplyToType DEF Preliminary
<1>6. ASSUME NEW a \in ReplyTo(cmd), replies = <<a>>
      PROVE  own' /\ r = a.class /\ replies' = <<>>
  <2>1. Head(replies) = a /\ Tail(replies) = <<>> /\ replies # <<>>
    BY <1>5, <1>6, Single
  <2>2. r = Head(replies).class /\ replies' = Tail(replies) /\ (own' <=> own /\ Head(replies).cmd = cmd)
    BY <2>1 DEF GetReply
  <2> QED
    BY <1>3, <1>5, <2>1, <2>2
<1>7. ASSUME NEW a \in Preliminary(cmd), NEW b \in ReplyTo(cmd), replies = <<a, b>>
      PROVE  own' /\ r = PRELIM /\ replies' = <<b>>
  <2>1. Head(replies) = a /\ Tail(replies) = <<b>> /\ replies # <<>>
    BY <1>4, <1>5, <1>7, Pair
  <2>2. r = Head(replies).class /\ replies' = Tail(replies) /\ (own' <=> own /\ Head(replies).cmd = cmd)
    BY <2>1 DEF GetReply
  <2> QED
    BY <1>3, <1>4, <1>5, <2>1, <2>2
<1>8. ASSUME replies = <<>>
      PROVE  own' /\ ~up /\ replies' = <<>> /\ r # PRELIM
  BY <1>1, <1>2, <1>3, <1>8, Classes DEF GetReply, Regular, TypeOK
<1>9. CASE replies = <<>>
  <2>1. \A a \in ReplyTo(cmd) : replies # <<a>>
    BY <1>5, <1>9, Single
  <2>2. \A a \in Preliminary(cmd), b \in ReplyTo(cmd) : replies # <<a, b>>
    BY <1>4, <1>5, <1>9, Pair
  <2>3. Quiet
    BY <1>3, <1>4, <1>8, <1>9, <2>1, <2>2 DEF TwoReplies, OnItsWay, Quiet
  <2> QED
    BY <1>1, <1>8, <1>9, <2>3 DEF OnItsWay, Quiet
<1>10. CASE replies # <<>>
  <2>1. CASE up /\ \E a \in Preliminary(cmd) : OnItsWay(<<>>, cmd, <<a>>)
    BY <1>1, <1>4, <1>6, <2>1 DEF OnItsWay, SecondReply
  <2>2. CASE \E a \in ReplyTo(cmd) \ Preliminary(cmd) : OnItsWay(<<>>, NoCommand, <<a>>)
    BY <1>1, <1>5, <1>6, <2>2 DEF OnItsWay, Quiet
  <2>3. CASE \E a \in Preliminary(cmd), b \in ReplyTo(cmd) : OnItsWay(<<>>, NoCommand, <<a, b>>)
    BY <1>1, <1>7, <2>3 DEF OnItsWay, SecondReply
  <2>4. CASE ~up /\ \E a \in Preliminary(cmd) : OnItsWay(<<>>, NoCommand, <<a>>)
    BY <1>1, <1>4, <1>6, <2>4 DEF OnItsWay, SecondReply, Quiet
  <2> QED
    BY <1>3, <1>10, <2>1, <2>2, <2>3, <2>4 DEF TwoReplies, OnItsWay, Quiet
<1> QED
  BY <1>9, <1>10

(* So does the first answer to a transfer's command. *)
LEMMA TransferAnsweredInv ==
  ASSUME IInv, TransferAnswered
  PROVE  InCall'
<1>1. PICK r \in Outcome :
        /\ pc = "reply" /\ cmd \in Transfer /\ GetReply(r)
        /\ CASE r = PRELIM /\ data = "connected" ->
                  pc' = "data" /\ UNCHANGED <<cmd, commands, result, data>>
             [] r = PRELIM /\ data # "connected" -> Finish("raised") /\ UNCHANGED data
             [] OTHER -> Finish("failed") /\ data' = Released(data)
        /\ UNCHANGED <<call, mode, serverVars, backlog, lineVars>>
  BY DEF TransferAnswered
<1>2. TypeOK /\ UNCHANGED <<call, mode, working, remote, up, odd, backlog, more, row, cmd, commands>>
  BY <1>1 DEF IInv, InCall, serverVars, lineVars, Finish
<1>3. own' \in BOOLEAN /\ gaveUp' \in BOOLEAN /\ replies' \in Seq(Reply) /\ (gaveUp => gaveUp')
  BY <1>1, <1>2, GetReplyType
<1>4. Regular' => own' /\ IF r = PRELIM THEN SecondReply(cmd)' ELSE Quiet'
  BY <1>1, <1>2, ReadsFirst DEF serverVars
<1>5. CASE r = PRELIM /\ data = "connected"
  <2>1. pc' = "data" /\ UNCHANGED <<result, data>>
    BY <1>1, <1>5
  <2>2. TypeOK'
    BY <1>2, <1>3, <2>1 DEF TypeOK
  <2> QED
    BY <1>1, <1>2, <1>4, <1>5, <2>1, <2>2
       DEF IInv, InCall, OwnReplies, RaisesForAReason, WaitsInCall, DataOfStep, InStep
<1>6. CASE r = PRELIM /\ data # "connected"
  <2>1. Finish("raised") /\ UNCHANGED data
    BY <1>1, <1>6
  <2>2. TypeOK'
    BY <1>2, <1>3, <2>1 DEF TypeOK, Finish
  <2>3. data' = "none" /\ gaveUp' /\ mode' = "active" /\ call' \in {"get", "put", "list"}
    BY <1>1, <1>2, <1>3, <1>6, <2>1 DEF IInv, InCall, DataOfStep, WaitsInCall
  <2>4. RaisesForAReason' /\ ~Regular'
    BY <2>3 DEF RaisesForAReason, Regular
  <2> QED
    BY <2>1, <2>2, <2>3, <2>4, EndOfCallInv DEF Finish
<1>7. CASE r # PRELIM
  <2>1. Finish("failed") /\ data' = "none"
    BY <1>1, <1>7 DEF Released
  <2>2. TypeOK'
    BY <1>2, <1>3, <2>1 DEF TypeOK, Finish
  <2> QED
    BY <1>4, <1>7, <2>1, <2>2, ReturnInv DEF Finish
<1> QED
  BY <1>5, <1>6, <1>7

(* The data connection is closed, and the second reply is due. *)
LEMMA DataEndsInv ==
  ASSUME IInv, Transferred \/ Listed
  PROVE  InCall'
<1>1. /\ pc = "data" /\ data' = "none" /\ pc' = "final"
      /\ UNCHANGED <<call, mode, cmd, result, own, gaveUp, commands, replies, serverVars, backlog, lineVars>>
  BY DEF Transferred, Listed, AfterData
<1>2. TypeOK'
  BY <1>1 DEF IInv, InCall, TypeOK, serverVars, lineVars
<1>3. cmd \in Transfer /\ (Regular => own /\ SecondReply(cmd))
  BY <1>1 DEF IInv, InCall, WaitsInCall, OwnReplies, InStep
<1>4. Regular' => own' /\ SecondReply(cmd)'
  BY <1>1, <1>3 DEF SecondReply, Quiet, OnItsWay, serverVars, Regular
<1> QED
  BY <1>1, <1>2, <1>3, <1>4
     DEF IInv, InCall, OwnReplies, RaisesForAReason, WaitsInCall, DataOfStep, InStep

(* A row that cannot be parsed ends list, with its last reply still to come. *)
LEMMA RowRaisesInv ==
  ASSUME IInv, RowRaises
  PROVE  InCall'
<1>1. /\ pc = "data" /\ call' = "list" /\ row = "blank" /\ row' = "none" /\ pc' = "idle" /\ result' = "raised"
      /\ UNCHANGED <<call, mode, cmd, commands, data, own, gaveUp, replies, working, remote, up, odd, backlog, more>>
  BY DEF RowRaises, Finish, serverVars
<1>2. TypeOK'
  BY <1>1 DEF IInv, InCall, TypeOK
<1>3. odd /\ data = "connected"
  BY <1>1 DEF IInv, InCall, DataOfStep, Told, BlankIsTold
<1>4. RaisesForAReason' /\ ~Regular'
  BY <1>1, <1>3 DEF RaisesForAReason, Regular
<1> QED
  BY <1>1, <1>2, <1>3, <1>4, EndOfCallInv

(* So does the answer that follows the data. *)
LEMMA FinalAnsweredInv ==
  ASSUME IInv, FinalAnswered
  PROVE  InCall'
<1>1. PICK r \in Outcome : pc = "final" /\ GetReply(r) /\ Finish("ok") /\ ControlOnly
  BY DEF FinalAnswered
<1>2. TypeOK /\ UNCHANGED <<call, mode, data, working, up, odd, cmd, commands>> /\ pc' = "idle" /\ result' = "ok"
  BY <1>1 DEF IInv, InCall, ControlOnly, serverVars, Finish
<1>3. own' \in BOOLEAN /\ gaveUp' \in BOOLEAN /\ replies' \in Seq(Reply)
  BY <1>1, <1>2, GetReplyType
<1>4. TypeOK'
  BY <1>1, <1>2, <1>3, ControlType DEF ControlOnly, TypeOK
<1>5. data = "none" /\ (SecondReply(cmd) \/ ~Regular)
  BY <1>1 DEF IInv, InCall, DataOfStep, InStep
<1>6. Regular' => own' /\ commands = <<>> /\ working = NoCommand /\ replies' = <<>>
  BY <1>1, <1>2, <1>5, ReadsOne
<1> QED
  BY <1>2, <1>4, <1>5, <1>6, ReturnInv DEF Quiet, OnItsWay

-----------------------------------------------------------------------------
(* The server's steps. *)

(* A step of the server moves what is under way, and the client nowhere. *)
LEMMA ServerInv ==
  ASSUME IInv, TypeOK', UNCHANGED clientVars, odd => odd', up' => up,
         Regular => \A c \in Command :
           /\ Quiet => Quiet'
           /\ OneReply(c) /\ c \notin Transfer => OneReply(c)'
           /\ TwoReplies(c) /\ c \in Transfer => TwoReplies(c)'
           /\ SecondReply(c) /\ c \in Transfer => SecondReply(c)'
  PROVE  InCall'
<1>1. /\ OwnReplies' /\ RaisesForAReason' /\ WaitsInCall' /\ DataOfStep'
  BY DEF IInv, InCall, OwnReplies, RaisesForAReason, WaitsInCall, DataOfStep, clientVars, Regular
<1>2. InStep'
  <2>1. UNCHANGED <<pc, cmd, gaveUp>> /\ cmd \in Command
    BY DEF IInv, InCall, TypeOK, clientVars
  <2> SUFFICES ASSUME Regular
               PROVE  /\ pc \in {"idle", "closed", "connect"} => Quiet'
                      /\ pc = "reply" /\ cmd \notin Transfer => OneReply(cmd)'
                      /\ pc \in {"reply", "accept"} /\ cmd \in Transfer => TwoReplies(cmd)'
                      /\ pc \in {"data", "final"} => SecondReply(cmd)'
    BY <2>1 DEF InStep, Regular
  <2>2. PICK c \in Command : c = cmd
    BY <2>1
  <2>3. /\ OneReply(c)' => OneReply(cmd)'
        /\ TwoReplies(c)' => TwoReplies(cmd)'
        /\ SecondReply(c)' => SecondReply(cmd)'
    BY <2>1, <2>2 DEF OneReply, TwoReplies, SecondReply, OnItsWay, Quiet
  <2> QED
    BY <2>2, <2>3 DEF IInv, InCall, InStep, WaitsInCall
<1> QED
  BY <1>1, <1>2 DEF IInv, InCall

(* A line that is passed over leaves the call where it is. *)
LEMMA LinePassedInv ==
  ASSUME IInv, PassesLine \/ KeepsRow
  PROVE  InCall'
<1>1. /\ UNCHANGED <<clientVars, commands, replies, working, remote, up, odd, backlog>>
      /\ more' \in BOOLEAN /\ row' \in {"none", "file", "blank"}
  BY DEF PassesLine, KeepsRow, serverVars, IInv, InCall, TypeOK
<1>2. TypeOK'
  BY <1>1 DEF IInv, InCall, TypeOK, clientVars
<1> QED
  BY <1>1, <1>2, ServerInv DEF Quiet, OneReply, TwoReplies, SecondReply, OnItsWay

(* The server takes a command that begins no transfer. *)
LEMMA ServerAnswersInv ==
  ASSUME IInv, ServerAnswers
  PROVE  InCall'
<1> DEFINE d == Head(commands)
<1>1. TypeOK /\ up /\ working = NoCommand /\ commands # <<>>
  BY DEF IInv, InCall, ServerAnswers
<1>2. d \in Command /\ Tail(commands) \in Seq(Command)
  BY <1>1, QueueType DEF TypeOK
<1>3. PICK class \in Replies(d), fits \in BOOLEAN :
        /\ Says(d, class, fits)
        /\ odd' = (odd \/ ~fits)
        /\ remote' = CASE d = "PASV" /\ class = COMPLETE -> "listening"
                       [] d = "PORT" /\ class = COMPLETE -> "none"
                       [] OTHER -> remote
  BY DEF ServerAnswers
<1>4. d \notin Transfer /\ commands' = Tail(commands) /\ UNCHANGED <<clientVars, working, backlog, lineVars>>
      /\ up' \in BOOLEAN
  BY DEF ServerAnswers
<1>5. class \in Outcome \ {Lost}
  BY <1>3 DEF Replies, Outcome, Lost, PRELIM, COMPLETE, CONTINUE, ERROR
<1> DEFINE a == [cmd |-> d, class |-> class, fits |-> fits]
<1>6. remote' \in {"none", "listening", "connected", "closed"}
  BY <1>1, <1>3 DEF TypeOK
<1>7. a \in ReplyTo(d) /\ a \in Reply
  BY <1>2, <1>3, <1>5, SaysReplyTo, ReplyToType
<1>8. replies' = Append(replies, a) /\ replies' \in Seq(Reply)
  BY <1>1, <1>3, <1>7, QueueType DEF TypeOK, Says
<1> HIDE DEF a
<1>9. TypeOK'
  BY <1>1, <1>2, <1>3, <1>4, <1>6, <1>8 DEF TypeOK, clientVars, lineVars
<1>10. ASSUME NEW c \in Command, OnItsWay(<<c>>, NoCommand, <<>>)
       PROVE  c \notin Transfer /\ OneReply(c)'
  <2>1. d = c /\ Tail(commands) = <<>>
    BY <1>10, Single DEF OnItsWay
  <2>2. replies' = <<a>> /\ a \in ReplyTo(c)
    BY <1>7, <1>8, <1>10, <2>1, Single DEF OnItsWay
  <2>3. commands' = <<>> /\ working' = NoCommand
    BY <1>1, <1>4, <2>1
  <2> QED
    BY <1>4, <2>1, <2>2, <2>3 DEF OneReply, OnItsWay
<1>11. ASSUME NEW c \in Command
       PROVE  /\ Quiet => Quiet'
              /\ OneReply(c) /\ c \notin Transfer => OneReply(c)'
              /\ TwoReplies(c) /\ c \in Transfer => TwoReplies(c)'
              /\ SecondReply(c) /\ c \in Transfer => SecondReply(c)'
  <2>1. c # NoCommand
    BY <1>11 DEF Command, Transfer, NoCommand
  <2>2. ~Quiet
    BY <1>1 DEF Quiet, OnItsWay
  <2>3. OneReply(c) => OneReply(c)'
    BY <1>1, <1>10 DEF OneReply, OnItsWay, Quiet
  <2>4. ~(TwoReplies(c) /\ c \in Transfer)
    BY <1>1, <1>10 DEF TwoReplies, OnItsWay, Quiet
  <2>5. ~SecondReply(c)
    BY <1>1 DEF SecondReply, OnItsWay, Quiet
  <2> QED
    BY <2>2, <2>3, <2>4, <2>5
<1> QED
  BY <1>1, <1>3, <1>4, <1>9, <1>11, ServerInv

(* A server that takes a transfer's command says one thing first. *)
LEMMA TransferTaken ==
  ASSUME IInv, commands # <<>>, Head(commands) \in Transfer, NEW k \in Outcome \ {Lost},
         Says(Head(commands), k, TRUE), commands' = Tail(commands)
  PROVE  /\ commands' \in Seq(Command) /\ replies' \in Seq(Reply)
         /\ \A c \in Command : commands = <<c>> /\ replies = <<>> =>
              /\ c = Head(commands) /\ commands' = <<>>
              /\ \E a \in ReplyTo(c) : replies' = <<a>> /\ (a \in Preliminary(c) <=> k = PRELIM)
<1> DEFINE d == Head(commands)
           a == [cmd |-> d, class |-> k, fits |-> TRUE]
<1>1. d \in Command /\ Tail(commands) \in Seq(Command)
  BY QueueType DEF IInv, InCall, TypeOK
<1>2. a \in ReplyTo(d) /\ a \in Reply /\ (a \in Preliminary(d) <=> k = PRELIM)
  BY <1>1, SaysReplyTo, ReplyToType
<1>3. replies' = Append(replies, a) /\ replies' \in Seq(Reply)
  BY <1>2, QueueType DEF IInv, InCall, TypeOK, Says
<1> HIDE DEF a
<1>4. ASSUME NEW c \in Command, commands = <<c>>, replies = <<>>
      PROVE  c = d /\ commands' = <<>> /\ replies' = <<a>>
  <2>1. d = c /\ commands' = <<>>
    BY <1>4, Single
  <2> QED
    BY <1>2, <1>3, <1>4, <2>1, Single
<1> QED
  BY <1>1, <1>2, <1>3, <1>4

(* The server refuses a transfer: one reply, and the transfer is over. *)
LEMMA ServerRefusesInv ==
  ASSUME IInv, ServerRefuses
  PROVE  InCall'
<1>1. /\ TypeOK /\ working = NoCommand /\ commands # <<>> /\ Head(commands) \in Transfer
      /\ Says(Head(commands), ERROR, TRUE) /\ commands' = Tail(commands)
      /\ UNCHANGED <<clientVars, serverVars, backlog, lineVars>>
  BY DEF IInv, InCall, ServerRefuses
<1>2. ERROR \in Outcome \ {Lost} /\ ERROR # PRELIM
  BY Classes
<1>3. /\ commands' \in Seq(Command) /\ replies' \in Seq(Reply)
      /\ \A c \in Command : commands = <<c>> /\ replies = <<>> =>
           /\ c = Head(commands) /\ commands' = <<>>
           /\ \E a \in ReplyTo(c) : replies' = <<a>> /\ (a \in Preliminary(c) <=> ERROR = PRELIM)
  BY <1>1, <1>2, TransferTaken
<1>4. TypeOK'
  BY <1>1, <1>3 DEF TypeOK, clientVars, serverVars, lineVars
<1>5. ASSUME NEW c \in Command
      PROVE  /\ Quiet => Quiet'
             /\ OneReply(c) /\ c \notin Transfer => OneReply(c)'
             /\ TwoReplies(c) /\ c \in Transfer => TwoReplies(c)'
             /\ SecondReply(c) /\ c \in Transfer => SecondReply(c)'
  <2>1. ~Quiet /\ ~SecondReply(c)
    BY <1>1 DEF Quiet, SecondReply, OnItsWay
  <2>2. ~(OneReply(c) /\ c \notin Transfer)
    BY <1>1, <1>3, <1>5 DEF OneReply, Quiet, OnItsWay
  <2>3. TwoReplies(c) => commands = <<c>> /\ replies = <<>>
    BY <1>1, <1>5 DEF TwoReplies, Quiet, OnItsWay, Command, Transfer, NoCommand
  <2>4. TwoReplies(c) => TwoReplies(c)'
    <3> SUFFICES ASSUME TwoReplies(c) PROVE TwoReplies(c)'
      OBVIOUS
    <3>1. PICK a \in ReplyTo(c) : replies' = <<a>> /\ a \notin Preliminary(c)
      BY <1>2, <1>3, <1>5, <2>3
    <3>2. commands' = <<>> /\ working' = NoCommand
      BY <1>1, <1>3, <1>5, <2>3 DEF serverVars
    <3> QED
      BY <3>1, <3>2 DEF TwoReplies, OnItsWay
  <2> QED
    BY <2>1, <2>2, <2>4
<1> QED
  BY <1>1, <1>4, <1>5, ServerInv DEF serverVars

(* The server begins a transfer: a preliminary reply, and another to follow. *)
LEMMA ServerBeginsInv ==
  ASSUME IInv, ServerBegins
  PROVE  InCall'
<1>1. /\ TypeOK /\ up /\ working = NoCommand /\ commands # <<>> /\ Head(commands) \in Transfer
      /\ Says(Head(commands), PRELIM, TRUE) /\ commands' = Tail(commands)
      /\ working' = Head(commands) /\ UNCHANGED <<clientVars, remote, up, odd, backlog, lineVars>>
  BY DEF IInv, InCall, ServerBegins
<1>2. PRELIM \in Outcome \ {Lost}
  BY Classes
<1>3. /\ commands' \in Seq(Command) /\ replies' \in Seq(Reply)
      /\ \A c \in Command : commands = <<c>> /\ replies = <<>> =>
           /\ c = Head(commands) /\ commands' = <<>>
           /\ \E a \in ReplyTo(c) : replies' = <<a>> /\ (a \in Preliminary(c) <=> PRELIM = PRELIM)
  BY <1>1, <1>2, TransferTaken
<1>4. TypeOK'
  BY <1>1, <1>3 DEF TypeOK, clientVars, lineVars
<1>5. ASSUME NEW c \in Command
      PROVE  /\ Quiet => Quiet'
             /\ OneReply(c) /\ c \notin Transfer => OneReply(c)'
             /\ TwoReplies(c) /\ c \in Transfer => TwoReplies(c)'
             /\ SecondReply(c) /\ c \in Transfer => SecondReply(c)'
  <2>1. ~Quiet /\ ~SecondReply(c)
    BY <1>1 DEF Quiet, SecondReply, OnItsWay
  <2>2. ~(OneReply(c) /\ c \notin Transfer)
    BY <1>1, <1>3, <1>5 DEF OneReply, Quiet, OnItsWay
  <2>3. TwoReplies(c) => commands = <<c>> /\ replies = <<>>
    BY <1>1, <1>5 DEF TwoReplies, Quiet, OnItsWay, Command, Transfer, NoCommand
  <2>4. TwoReplies(c) => TwoReplies(c)'
    <3> SUFFICES ASSUME TwoReplies(c) PROVE TwoReplies(c)'
      OBVIOUS
    <3>1. PICK a \in Preliminary(c) : replies' = <<a>>
      BY <1>3, <1>5, <2>3
    <3>2. commands' = <<>> /\ working' = c /\ up'
      BY <1>1, <1>3, <1>5, <2>3
    <3> QED
      BY <3>1, <3>2 DEF TwoReplies, OnItsWay
  <2> QED
    BY <2>1, <2>2, <2>4
<1> QED
  BY <1>1, <1>4, <1>5, ServerInv

(* The server connects the data connection of an active transfer. *)
LEMMA ServerConnectsInv ==
  ASSUME IInv, ServerConnects
  PROVE  InCall'
<1>1. UNCHANGED <<clientVars, commands, replies, working, up, odd, lineVars>>
  BY DEF ServerConnects
<1>2. TypeOK'
  BY DEF IInv, InCall, ServerConnects, TypeOK, clientVars, lineVars
<1>3. ASSUME NEW c \in Command
      PROVE  /\ Quiet => Quiet'
             /\ OneReply(c) => OneReply(c)'
             /\ TwoReplies(c) => TwoReplies(c)'
             /\ SecondReply(c) => SecondReply(c)'
  BY <1>1 DEF Quiet, OneReply, TwoReplies, SecondReply, OnItsWay
<1> QED
  BY <1>1, <1>2, <1>3, ServerInv

(* The server gives the second reply of a transfer. *)
LEMMA ServerEndsInv ==
  ASSUME IInv, NEW class \in {COMPLETE, ERROR}, ServerEnds(class)
  PROVE  InCall'
<1>1. /\ TypeOK /\ up /\ working \in Transfer /\ Says(working, class, TRUE)
      /\ remote' = "closed" /\ working' = NoCommand /\ UNCHANGED <<clientVars, commands, up, odd, backlog, lineVars>>
  BY DEF IInv, InCall, TypeOK, ServerEnds
<1> DEFINE b == [cmd |-> working, class |-> class, fits |-> TRUE]
<1>2. class \in Outcome \ {Lost} /\ class # PRELIM
  BY Classes
<1>3. b \in ReplyTo(working) /\ b \in Reply
  <2>1. working \in Command
    BY <1>1 DEF Command
  <2>2. b \in ReplyTo(working)
    BY <1>2, <2>1, SaysReplyTo, Zenon
  <2> QED
    BY <2>1, <2>2, ReplyToType
<1>4. replies' = Append(replies, b) /\ replies' \in Seq(Reply)
  BY <1>1, <1>3, QueueType DEF TypeOK, Says
<1> HIDE DEF b
<1>5. TypeOK'
  BY <1>1, <1>4 DEF TypeOK, clientVars, lineVars
<1>6. working # NoCommand
  BY <1>1 DEF Transfer, NoCommand
<1>7. ASSUME NEW c \in Command
      PROVE  /\ Quiet => Quiet'
             /\ OneReply(c) /\ c \notin Transfer => OneReply(c)'
             /\ TwoReplies(c) /\ c \in Transfer => TwoReplies(c)'
             /\ SecondReply(c) /\ c \in Transfer => SecondReply(c)'
  <2>1. ~Quiet /\ ~OneReply(c)
    BY <1>6 DEF Quiet, OneReply, OnItsWay
  <2>2. SecondReply(c) => SecondReply(c)'
    <3> SUFFICES ASSUME SecondReply(c) PROVE SecondReply(c)'
      OBVIOUS
    <3>1. working = c /\ commands = <<>> /\ replies = <<>>
      BY <1>6 DEF SecondReply, Quiet, OnItsWay
    <3>2. replies' = <<b>> /\ b \in ReplyTo(c)
      BY <1>3, <1>4, <3>1, Single
    <3> QED
      BY <1>1, <3>1, <3>2 DEF SecondReply, OnItsWay
  <2>3. TwoReplies(c) => TwoReplies(c)'
    <3> SUFFICES ASSUME TwoReplies(c) PROVE TwoReplies(c)'
      OBVIOUS
    <3>1. PICK a \in Preliminary(c) : working = c /\ commands = <<>> /\ replies = <<a>>
      BY <1>6 DEF TwoReplies, Quiet, OnItsWay
    <3>2. a \in Reply
      BY <1>7, <3>1, ReplyToType DEF Preliminary
    <3>3. replies' = <<a, b>> /\ b \in ReplyTo(c)
      BY <1>3, <1>4, <3>1, <3>2, Pair
    <3> QED
      BY <1>1, <3>1, <3>3 DEF TwoReplies, OnItsWay
  <2> QED
    BY <2>1, <2>2, <2>3
<1> QED
  BY <1>1, <1>5, <1>7, ServerInv

(* The server goes away: what it has said can still be read. *)
LEMMA ServerGoesAwayInv ==
  ASSUME IInv, ServerGoesAway
  PROVE  InCall'
<1>1. /\ up' = FALSE /\ commands' = <<>> /\ working' = NoCommand /\ remote' = "closed"
      /\ UNCHANGED <<clientVars, replies, backlog, odd, lineVars>>
  BY DEF ServerGoesAway
<1>2. TypeOK'
  <2>1. commands' \in Seq(Command) /\ replies' \in Seq(Reply) /\ up' \in BOOLEAN
    <3>1. <<>> \in Seq(Command)
      OBVIOUS
    <3> QED
      BY <1>1, <3>1 DEF IInv, InCall, TypeOK
  <2> QED
    BY <1>1, <2>1 DEF IInv, InCall, TypeOK, clientVars, lineVars
<1>3. ASSUME NEW c \in Command
      PROVE  /\ Quiet => Quiet'
             /\ OneReply(c) => OneReply(c)'
             /\ TwoReplies(c) => TwoReplies(c)'
             /\ SecondReply(c) => SecondReply(c)'
  <2>1. Quiet => Quiet'
    BY <1>1 DEF Quiet, OnItsWay
  <2>2. OneReply(c) => OneReply(c)'
    BY <1>1 DEF OneReply, Quiet, OnItsWay
  <2>3. TwoReplies(c) => TwoReplies(c)'
    BY <1>1 DEF TwoReplies, Quiet, OnItsWay
  <2>4. SecondReply(c) => SecondReply(c)'
    BY <1>1 DEF SecondReply, Quiet, OnItsWay
  <2> QED
    BY <2>1, <2>2, <2>3, <2>4
<1> QED
  BY <1>1, <1>2, <1>3, ServerInv

(* A line that ends no reply, or one of the listing, moves nothing else. *)
LEMMA ServerLinesInv ==
  ASSUME IInv, ServerSaysMore \/ \E line \in {"file", "blank"} : ServerLists(line)
  PROVE  InCall'
<1>1. /\ UNCHANGED <<clientVars, commands, replies, working, remote, up, backlog>>
      /\ more' \in BOOLEAN /\ row' \in {"none", "file", "blank"} /\ odd' \in BOOLEAN /\ (odd => odd')
  BY DEF ServerSaysMore, ServerLists, serverVars, IInv, InCall, TypeOK
<1>2. TypeOK'
  BY <1>1 DEF IInv, InCall, TypeOK, clientVars
<1> QED
  BY <1>1, <1>2, ServerInv DEF Quiet, OneReply, TwoReplies, SecondReply, OnItsWay

-----------------------------------------------------------------------------
(* What the client cannot read is known for odd. *)

(* Reading brings nothing new. *)
LEMMA ReadKeepsTold ==
  ASSUME TypeOK, Told, UNCHANGED odd, row' \in {row, "none"},
         replies' = replies \/ (replies # <<>> /\ replies' = Tail(replies))
  PROVE  Told'
<1>1. BlankIsTold'
  BY DEF Told, BlankIsTold
<1>2. CASE replies' = replies
  BY <1>1, <1>2 DEF Told, OddIsTold
<1>3. CASE replies # <<>> /\ replies' = Tail(replies)
  <2>1. Len(replies') = Len(replies) - 1 /\ \A i \in 1 .. Len(replies') : replies'[i] = replies[i + 1]
    BY <1>3 DEF TypeOK
  <2> DEFINE n == Len(replies)
  <2>2. n \in Nat /\ Len(replies') = n - 1
    BY <2>1 DEF TypeOK
  <2> HIDE DEF n
  <2>3. \A i \in 1 .. (n - 1) : i + 1 \in 1 .. n
    BY <2>2
  <2> QED
    BY <1>1, <2>1, <2>2, <2>3 DEF Told, OddIsTold, n
<1> QED
  BY <1>2, <1>3

(* A reply that does not fit is counted when it is sent. *)
LEMMA SayKeepsTold ==
  ASSUME TypeOK, Told, NEW c, NEW k, NEW fits \in BOOLEAN, Says(c, k, fits),
         odd' = (odd \/ ~fits), UNCHANGED row
  PROVE  Told'
<1> DEFINE a == [cmd |-> c, class |-> k, fits |-> fits]
<1>1. replies' = Append(replies, a) /\ a.fits = fits /\ replies \in Seq(Reply)
  BY DEF Says, TypeOK
<1> HIDE DEF a
<1>2. /\ Len(replies') = Len(replies) + 1 /\ Len(replies) \in Nat
      /\ \A i \in 1 .. Len(replies') : replies'[i] = IF i = Len(replies) + 1 THEN a ELSE replies[i]
  BY <1>1
<1>3. OddIsTold'
  <2> SUFFICES ASSUME ~odd', NEW i \in 1 .. Len(replies') PROVE replies'[i].fits
    BY DEF OddIsTold
  <2>1. CASE i = Len(replies) + 1
    BY <1>1, <1>2, <2>1
  <2>2. CASE i # Len(replies) + 1
    <3>1. i \in 1 .. Len(replies) /\ replies'[i] = replies[i]
      BY <1>2, <2>2
    <3>2. ~odd
      BY DEF TypeOK
    <3> QED
      BY <3>1, <3>2 DEF Told, OddIsTold
  <2> QED
    BY <2>1, <2>2
<1> QED
  BY <1>3 DEF Told, BlankIsTold

(* The steps of the client, between and in its calls. *)
LEMMA ClientTold ==
  ASSUME IInv,
         \/ ClientStep \/ Transferred
         \/ \E c \in {"simple", "time", "rename", "close"} : Begin(c)
         \/ \E c \in {"get", "put", "list"}, m \in Modes : BeginTransfer(c, m) \/ BeginFails(c, m)
  PROVE  Told'
<1>1. TypeOK /\ Told
  BY DEF IInv, InCall
<1>2. UNCHANGED odd /\ row' \in {row, "none"}
  BY DEF ClientStep, Transferred, Begin, BeginTransfer, BeginFails, GreetingAnswered, UserAnswered, PassAnswered,
         TypeAnswered, Answers, TimeAnswered, RnfrAnswered, QuitAnswered, PasvAnswered, Connect, ConnectFails,
         PortAnswered, Accept, AcceptTimesOut, TransferAnswered, KeepsRow, RowRaises, Listed, FinalAnswered,
         PassesLine, Answered, ControlOnly, serverVars, lineVars
<1>3. replies' = replies \/ (replies # <<>> /\ replies' = Tail(replies))
  BY DEF ClientStep, Transferred, Begin, BeginTransfer, BeginFails, GreetingAnswered, UserAnswered, PassAnswered,
         TypeAnswered, Answers, TimeAnswered, RnfrAnswered, QuitAnswered, PasvAnswered, Connect, ConnectFails,
         PortAnswered, Accept, AcceptTimesOut, TransferAnswered, KeepsRow, RowRaises, Listed, FinalAnswered,
         PassesLine, Answered, GetReply
<1> QED
  BY <1>1, <1>2, <1>3, ReadKeepsTold

(* The steps of the server. *)
LEMMA ServerTold ==
  ASSUME IInv, ServerStep
  PROVE  Told'
<1>1. TypeOK /\ Told /\ odd \in BOOLEAN
  BY DEF IInv, InCall, TypeOK
<1>2. CASE ServerAnswers
  BY <1>1, <1>2, SayKeepsTold DEF ServerAnswers, lineVars
<1>3. CASE ServerRefuses \/ ServerBegins \/ \E class \in {COMPLETE, ERROR} : ServerEnds(class)
  <2>1. /\ \E c \in Command \cup {NoCommand}, k \in Outcome : Says(c, k, TRUE)
        /\ UNCHANGED <<odd, row>>
    <3>1. CASE ServerRefuses \/ ServerBegins
      <4>1. Head(commands) \in Command /\ PRELIM \in Outcome /\ ERROR \in Outcome
        BY <1>1, <3>1, QueueType, Classes DEF ServerRefuses, ServerBegins, TypeOK
      <4> QED
        BY <3>1, <4>1 DEF ServerRefuses, ServerBegins, serverVars, lineVars
    <3>2. CASE \E class \in {COMPLETE, ERROR} : ServerEnds(class)
      <4>1. working \in Command \cup {NoCommand} /\ {COMPLETE, ERROR} \subseteq Outcome
        BY <1>1, Classes DEF TypeOK, Command
      <4> QED
        BY <3>2, <4>1 DEF ServerEnds, lineVars
    <3> QED
      BY <1>3, <3>1, <3>2
  <2>2. odd' = (odd \/ ~TRUE)
    BY <1>1, <2>1
  <2> QED
    BY <1>1, <2>1, <2>2, SayKeepsTold
<1>4. CASE ServerConnects \/ ServerGoesAway \/ ServerSaysMore
  BY <1>1, <1>4, ReadKeepsTold DEF ServerConnects, ServerGoesAway, ServerSaysMore, serverVars, lineVars
<1>5. ASSUME NEW line \in {"file", "blank"}, ServerLists(line) PROVE Told'
  BY <1>1, <1>5 DEF ServerLists, Told, OddIsTold, BlankIsTold
<1> QED
  BY <1>2, <1>3, <1>4, <1>5 DEF ServerStep

-----------------------------------------------------------------------------
(* The specification. *)

(* The client starts by waiting for the one reply that the server owes it. *)
LEMMA InitInv == Init => IInv
<1> SUFFICES ASSUME Init PROVE IInv
  OBVIOUS
<1>1. "greeting" \in Command \ (Transfer \cup {"PASV", "PORT", "MDTM"})
  BY DEF Command, Transfer
<1>2. TypeOK
  <2>1. <<"greeting">> \in Seq(Command) /\ <<>> \in Seq(Reply)
    BY <1>1
  <2> QED
    BY <1>1, <2>1 DEF Init, TypeOK
<1>3. OneReply("greeting")
  BY DEF Init, OneReply, OnItsWay
<1> QED
  BY <1>1, <1>2, <1>3 DEF Init, IInv, InCall, OwnReplies, RaisesForAReason, WaitsInCall, DataOfStep, InStep,
     Told, OddIsTold, BlankIsTold

(* IInv depends on the state only. *)
LEMMA StutterInv ==
  ASSUME IInv, UNCHANGED vars
  PROVE  IInv'
<1>1. UNCHANGED <<clientVars, commands, replies, working, up, remote, odd, backlog, more, row>>
  BY DEF vars, serverVars, lineVars
<1>2. TypeOK'
  BY <1>1 DEF IInv, InCall, TypeOK, clientVars
<1>4. Told'
  BY <1>1, ReadKeepsTold DEF IInv, InCall
<1>3. ASSUME NEW c \in Command
      PROVE  /\ Quiet => Quiet'
             /\ OneReply(c) => OneReply(c)'
             /\ TwoReplies(c) => TwoReplies(c)'
             /\ SecondReply(c) => SecondReply(c)'
  BY <1>1 DEF Quiet, OneReply, TwoReplies, SecondReply, OnItsWay
<1> QED
  BY <1>1, <1>2, <1>3, <1>4, ServerInv DEF IInv

(* Every state is typed and, until a wait has timed out or the server has   *)
(* said what the client cannot read, what is on its way between the two    *)
(* sides is exactly what the call in progress still reads.                 *)
THEOREM InductiveInvariant == Spec => []IInv
<1>1. ASSUME IInv, [Next]_vars PROVE IInv'
  <2>1. ASSUME NEW c \in {"simple", "time", "rename", "close"}, Begin(c) PROVE IInv'
    BY <1>1, <2>1, BeginInv, ClientTold DEF IInv
  <2>2. ASSUME NEW c \in {"get", "put", "list"}, NEW m \in Modes, BeginTransfer(c, m) PROVE IInv'
    BY <1>1, <2>2, BeginTransferInv, ClientTold DEF IInv
  <2>3. ASSUME NEW c \in {"get", "put", "list"}, NEW m \in Modes, BeginFails(c, m) PROVE IInv'
    BY <1>1, <2>3, BeginFailsInv, ClientTold DEF IInv
  <2>4. ASSUME ClientStep PROVE IInv'
    <3>1. InCall'
      BY <1>1, <2>4, LoginInv, SimpleInv, TimeAnsweredInv, PasvAnsweredInv, ConnectInv, ConnectFailsInv,
         PortAnsweredInv, AcceptInv, AcceptTimesOutInv, TransferAnsweredInv, DataEndsInv, RowRaisesInv,
         LinePassedInv, FinalAnsweredInv DEF ClientStep
    <3> QED
      BY <1>1, <2>4, <3>1, ClientTold DEF IInv
  <2>5. ASSUME Transferred PROVE IInv'
    BY <1>1, <2>5, DataEndsInv, ClientTold DEF IInv
  <2>6. ASSUME ServerStep PROVE IInv'
    <3>1. ASSUME NEW class \in {COMPLETE, ERROR}, ServerEnds(class) PROVE InCall'
      BY <1>1, <3>1, ServerEndsInv
    <3>2. InCall'
      BY <1>1, <2>6, <3>1, ServerAnswersInv, ServerRefusesInv, ServerBeginsInv, ServerConnectsInv,
         ServerLinesInv, ServerGoesAwayInv DEF ServerStep
    <3> QED
      BY <1>1, <2>6, <3>2, ServerTold DEF IInv
  <2>7. CASE UNCHANGED vars
    BY <1>1, <2>7, StutterInv
  <2> QED
    BY <1>1, <2>1, <2>2, <2>3, <2>4, <2>5, <2>6, <2>7 DEF Next
<1> QED
  BY <1>1, InitInv, PTL DEF Spec

(* The variables keep their types, whatever the server does. *)
THEOREM TypeCorrect == Spec => []TypeOK
<1>1. IInv => TypeOK
  BY DEF IInv, InCall
<1> QED
  BY <1>1, InductiveInvariant, PTL

(* Until a wait has timed out or the server has said what the client cannot  *)
(* read, the client acts on each reply for the command it answers: every     *)
(* path through every call reads as many replies as come.                    *)
THEOREM OwnRepliesCorrect == Spec => []OwnReplies
<1>1. IInv => OwnReplies
  BY DEF IInv, InCall
<1> QED
  BY <1>1, InductiveInvariant, PTL

(* A call that has returned has closed its data socket and its listener; what *)
(* one that raised leaves open is the socket of pasvconn or of list.          *)
THEOREM DataClosedCorrect == Spec => []DataClosed
<1>1. IInv => DataClosed
  BY DEF IInv, InCall, DataOfStep, DataClosed
<1> QED
  BY <1>1, InductiveInvariant, PTL

(* Only time and the transfers raise, and none of them before a wait has      *)
(* timed out, the server has said what the client cannot read, or a server    *)
(* that answered PASV has gone.                                               *)
THEOREM RaisesCorrect == Spec => []RaisesForAReason
<1>1. IInv => RaisesForAReason
  BY DEF IInv, InCall
<1> QED
  BY <1>1, InductiveInvariant, PTL

=============================================================================
