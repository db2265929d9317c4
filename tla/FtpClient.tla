------------------------------- MODULE FtpClient -------------------------------
(***************************************************************************)
(* libs/ftp.lua against an FTP server.  The client sends one command at a  *)
(* time and reads one reply with a timeout; nothing but the order ties a   *)
(* reply to its command.  A transfer takes several: PASV or PORT, the      *)
(* command, the data connection, and two replies.  The server answers      *)
(* whenever it likes, in as many lines as it likes, refuses, says what the *)
(* client cannot read, fails in the middle, or goes away.                  *)
(***************************************************************************)
EXTENDS Integers, Sequences

CONSTANTS
  Modes,         \* the modes that pasv_mode sets: "passive", "active"
  MaxPending     \* bound: how far the server may be behind when a call begins

ASSUME FtpAssumption ==
  /\ Modes \subseteq {"passive", "active"}
  /\ MaxPending \in Nat

Transfer == {"RETR", "STOR", "LIST"}
Command == Transfer \cup
  {"greeting", "USER", "PASS", "TYPE", "SIMPLE", "MDTM", "RNFR", "RNTO", "PASV", "PORT", "QUIT"}
NoCommand == "none"

(* The classes of replies: the first digit of the code.  Lost is get_reply's *)
(* -1, for a timeout or a connection that is gone.                           *)
PRELIM == 1
COMPLETE == 2
CONTINUE == 3
ERROR == 5
Lost == -1
Outcome == {PRELIM, COMPLETE, CONTINUE, ERROR, Lost}

(* A reply, and whether its text has what the client takes from the reply to *)
(* such a command: the address for PASV, the time for MDTM.                  *)
Reply == [cmd : Command, class : Outcome \ {Lost}, fits : BOOLEAN]

VARIABLES
  pc,            \* what the client waits for: "idle" and "closed" are between calls
  call,          \* the call it is in, or the last one
  mode,          \* the mode of the transfer
  cmd,           \* the command it sent last
  data,          \* its data socket: "none", "open", "listening" or "connected"
  result,        \* how the last call ended
  own,           \* history: every reply was taken for the command it answers
  gaveUp,        \* history: some wait has timed out
  odd,           \* history: the server has said what the client cannot read
  commands,      \* on the control connection, to the server
  replies,       \* on the control connection, to the client
  more,          \* whether a line comes before them that does not end a reply
  row,           \* on the data connection, in list: the next line
  working,       \* the transfer that the server has begun
  remote,        \* the server's data socket
  backlog,       \* whether a connection waits at the listening data socket
  up             \* whether the server holds the control connection

clientVars == <<pc, call, mode, cmd, data, result, own, gaveUp>>
serverVars == <<working, remote, up, odd>>
lineVars == <<more, row>>
vars == <<clientVars, commands, replies, serverVars, backlog, lineVars>>

(* The type of the variables. *)
TypeOK ==
  /\ pc \in {"idle", "closed", "reply", "final", "connect", "accept", "data"}
  /\ call \in {"connect", "simple", "time", "rename", "get", "put", "list", "close"}
  /\ mode \in Modes \cup {"none"}
  /\ cmd \in Command
  /\ data \in {"none", "open", "listening", "connected"}
  /\ result \in {"none", "ok", "failed", "raised"}
  /\ own \in BOOLEAN /\ gaveUp \in BOOLEAN /\ backlog \in BOOLEAN /\ up \in BOOLEAN
  /\ commands \in Seq(Command) /\ replies \in Seq(Reply)
  /\ working \in Transfer \cup {NoCommand}
  /\ remote \in {"none", "listening", "connected", "closed"}
  /\ odd \in BOOLEAN /\ more \in BOOLEAN /\ row \in {"none", "file", "blank"}

(* FtpConnect has connected, and the server has to greet it. *)
Init ==
  /\ pc = "reply" /\ call = "connect" /\ mode = "none" /\ cmd = "greeting"
  /\ data = "none" /\ result = "none" /\ own = TRUE /\ gaveUp = FALSE
  /\ commands = <<"greeting">> /\ replies = <<>>
  /\ working = NoCommand /\ remote = "none" /\ backlog = FALSE /\ up = TRUE
  /\ odd = FALSE /\ more = FALSE /\ row = "none"

-----------------------------------------------------------------------------
(* The pieces of the client. *)

(* send_cmd: what is sent to a server that is gone is lost. *)
SendCmd(c, then) ==
  /\ cmd' = c
  /\ commands' = IF up THEN Append(commands, c) ELSE commands
  /\ pc' = then
  /\ UNCHANGED result

Finish(r) ==
  /\ pc' = "idle"
  /\ result' = r
  /\ UNCHANGED <<cmd, commands>>

(* get_reply's loop goes round: a line that ends no reply is passed over, and *)
(* the next one has the whole timeout again.                                 *)
PassesLine ==
  /\ pc \in {"reply", "final"} /\ more
  /\ more' = FALSE
  /\ UNCHANGED <<clientVars, commands, replies, serverVars, backlog, row>>

(* get_reply returns: the next reply, whatever command it is for; a timeout, *)
(* or the end of the connection, only when no line comes.                    *)
GetReply(r) ==
  \/ /\ ~more /\ replies # <<>>
     /\ r = Head(replies).class
     /\ replies' = Tail(replies)
     /\ own' = (own /\ Head(replies).cmd = cmd)
     /\ UNCHANGED gaveUp
  \/ /\ ~more /\ replies = <<>>
     /\ r = Lost
     /\ gaveUp' = (gaveUp \/ up)
     /\ UNCHANGED <<replies, own>>

(* What a step that only sends or reads on the control connection leaves alone. *)
ControlOnly == UNCHANGED <<call, mode, data, serverVars, backlog, lineVars>>

(* Whether string.match finds in the reply that is read what the client looks *)
(* for: it is the reply to this command, and the server put it there.         *)
Fits == replies # <<>> /\ Head(replies).cmd = cmd /\ Head(replies).fits

(* A reply to c is read, and the client goes on with it. *)
Answered(c, r) == pc = "reply" /\ cmd = c /\ GetReply(r) /\ ControlOnly

(* FtpConnect returns nil. *)
Abandon ==
  /\ pc' = "closed" /\ result' = "failed"
  /\ UNCHANGED <<cmd, commands>>

GreetingAnswered ==
  \E r \in Outcome :
    /\ Answered("greeting", r)
    /\ IF r = COMPLETE THEN SendCmd("USER", "reply") ELSE Abandon

UserAnswered ==
  \E r \in Outcome :
    /\ Answered("USER", r)
    /\ CASE r = COMPLETE -> SendCmd("TYPE", "reply")
         [] r = CONTINUE -> SendCmd("PASS", "reply")
         [] OTHER        -> Abandon

PassAnswered ==
  \E r \in Outcome :
    /\ Answered("PASS", r)
    /\ IF r = COMPLETE THEN SendCmd("TYPE", "reply") ELSE Abandon

(* The reply to TYPE is read, and ignored. *)
TypeAnswered == \E r \in Outcome : Answered("TYPE", r) /\ Finish("ok")

(* A mutant of FirstCommand: close does not say goodbye. *)
FirstCommandButQuit(c) ==
  CASE c = "simple" -> "SIMPLE" [] c = "time" -> "MDTM" [] c = "rename" -> "RNFR" [] c = "close" -> NoCommand

(* The first command of a call that is not a transfer. *)
FirstCommand(c) ==
  CASE c = "simple" -> "SIMPLE" [] c = "time" -> "MDTM" [] c = "rename" -> "RNFR" [] c = "close" -> "QUIT"

(* pwd, chdir, mkdir, rmdir, remove and size; time; rename; close.  A socket *)
(* that a call left when it raised is garbage by now.                        *)
Begin(c) ==
  /\ pc = "idle" /\ Len(commands) + Len(replies) <= MaxPending
  /\ call' = c /\ data' = "none" /\ row' = "none"
  /\ SendCmd(FirstCommand(c), "reply")
  /\ UNCHANGED <<mode, own, gaveUp, replies, serverVars, backlog, more>>

Answers(c) ==
  \E r \in Outcome :
    /\ Answered(c, r)
    /\ Finish(IF r = COMPLETE THEN "ok" ELSE "failed")

(* filetime: os.time raises when it is given no fields. *)
TimeAnswered ==
  \E r \in Outcome :
    /\ Answered("MDTM", r)
    /\ Finish(IF r # COMPLETE THEN "failed" ELSE IF Fits THEN "ok" ELSE "raised")

RnfrAnswered ==
  \E r \in Outcome :
    /\ Answered("RNFR", r)
    /\ IF r = CONTINUE THEN SendCmd("RNTO", "reply") ELSE Finish("failed")

QuitAnswered ==
  \E r \in Outcome :
    /\ Answered("QUIT", r)
    /\ pc' = "closed" /\ result' = "ok"
    /\ UNCHANGED <<cmd, commands>>

-----------------------------------------------------------------------------
(* Transfers. *)

TransferCommand == CASE call = "get" -> "RETR" [] call = "put" -> "STOR" [] call = "list" -> "LIST"

(* get, put and list, up to data_init; PORT comes after bind and listen. *)
BeginTransfer(c, m) ==
  /\ pc = "idle" /\ Len(commands) + Len(replies) <= MaxPending
  /\ call' = c /\ mode' = m /\ row' = "none"
  /\ IF m = "passive"
     THEN SendCmd("PASV", "reply") /\ data' = "none" /\ UNCHANGED backlog
     ELSE SendCmd("PORT", "reply") /\ data' = "listening" /\ backlog' = FALSE
  /\ UNCHANGED <<own, gaveUp, replies, serverVars, more>>

(* The local file cannot be opened, or bind or listen fails. *)
BeginFails(c, m) ==
  /\ pc = "idle"
  /\ c = "list" => m = "active"
  /\ call' = c /\ mode' = m /\ data' = "none" /\ row' = "none"
  /\ Finish("failed")
  /\ UNCHANGED <<own, gaveUp, replies, serverVars, backlog, more>>

(* pasvconn has its socket before it looks for the address: without the six  *)
(* numbers it does arithmetic on nil, and once the connection is reset it    *)
(* indexes the nil that getpeername returns.                                 *)
PasvAnswered ==
  \E r \in Outcome :
    /\ pc = "reply" /\ cmd = "PASV" /\ GetReply(r)
    /\ IF r = COMPLETE
       THEN /\ data' = "open"
            /\ \/ Fits /\ pc' = "connect" /\ UNCHANGED <<cmd, commands, result>>
               \/ (~Fits \/ ~up) /\ Finish("raised")
       ELSE Finish("failed") /\ UNCHANGED data
    /\ UNCHANGED <<call, mode, serverVars, backlog, lineVars>>

Connect ==
  /\ pc = "connect" /\ remote = "listening"
  /\ data' = "connected" /\ remote' = "connected"
  /\ SendCmd(TransferCommand, "reply")
  /\ UNCHANGED <<call, mode, own, gaveUp, replies, working, up, odd, backlog, lineVars>>

(* A mutant of AfterConnectFailure: the transfer goes on without the connection. *)
GoOnRegardless == SendCmd(TransferCommand, "reply")

AfterConnectFailure == Finish("failed")

ConnectFails ==
  /\ pc = "connect"
  /\ AfterConnectFailure /\ data' = "none"
  /\ UNCHANGED <<call, mode, own, gaveUp, replies, serverVars, backlog, lineVars>>

PortAnswered ==
  \E r \in Outcome :
    /\ pc = "reply" /\ cmd = "PORT" /\ GetReply(r)
    /\ IF r = COMPLETE
       THEN SendCmd(TransferCommand, "accept") /\ UNCHANGED <<data, backlog>>
       ELSE Finish("failed") /\ data' = "none" /\ backlog' = FALSE
    /\ UNCHANGED <<call, mode, serverVars, lineVars>>

(* portconn: the first connection that comes is the data connection. *)
Accept ==
  /\ pc = "accept" /\ backlog
  /\ data' = "connected" /\ backlog' = FALSE
  /\ pc' = "reply"
  /\ UNCHANGED <<call, mode, cmd, result, own, gaveUp, commands, replies, serverVars, lineVars>>

(* A mutant of AcceptGivesUp: portconn waits as long as it takes. *)
AcceptNeverGivesUp == FALSE

AcceptGivesUp == ~backlog

(* portconn returns nil; getfile, putfile and list go on to read the reply. *)
AcceptTimesOut ==
  /\ pc = "accept" /\ AcceptGivesUp
  /\ data' = "none" /\ gaveUp' = TRUE
  /\ pc' = "reply"
  /\ UNCHANGED <<call, mode, cmd, result, own, commands, replies, serverVars, backlog, lineVars>>

(* A mutant of Released: the data socket is not closed when the server refuses. *)
NotReleased(d) == d

(* What becomes of the data socket when the server refuses. *)
Released(d) == "none"

(* The reply to the transfer's command: without a data connection, a PRELIM  *)
(* reply leads to a method call on nil.                                      *)
TransferAnswered ==
  \E r \in Outcome :
    /\ pc = "reply" /\ cmd \in Transfer /\ GetReply(r)
    /\ CASE r = PRELIM /\ data = "connected" ->
              pc' = "data" /\ UNCHANGED <<cmd, commands, result, data>>
         [] r = PRELIM /\ data # "connected" -> Finish("raised") /\ UNCHANGED data
         [] OTHER -> Finish("failed") /\ data' = Released(data)
    /\ UNCHANGED <<call, mode, serverVars, backlog, lineVars>>

(* A mutant of AfterData: the second reply is not read. *)
AfterDataIdle == "idle"

AfterData == "final"

(* recv returns nil in get; everything is sent in put; the data connection is *)
(* closed, and the second reply is due.                                       *)
Transferred ==
  /\ pc = "data" /\ call \in {"get", "put"}
  /\ call = "get" => remote # "connected"
  /\ data' = "none" /\ pc' = AfterData
  /\ UNCHANGED <<call, mode, cmd, result, own, gaveUp, commands, replies, serverVars, backlog, lineVars>>

(* list's loop goes round: a line is kept, or is too short, and the next one *)
(* has the whole timeout again.                                              *)
KeepsRow ==
  /\ pc = "data" /\ call = "list" /\ row = "file"
  /\ row' = "none"
  /\ UNCHANGED <<clientVars, commands, replies, serverVars, backlog, more>>

(* parse_file indexes the first word of a long line that has none.  The call *)
(* leaves its data socket open and its last reply unread.                    *)
RowRaises ==
  /\ pc = "data" /\ call = "list" /\ row = "blank"
  /\ row' = "none"
  /\ Finish("raised")
  /\ UNCHANGED <<call, mode, data, own, gaveUp, replies, serverVars, backlog, more>>

(* readline returns an error in list: the end, or a timeout. *)
Listed ==
  /\ pc = "data" /\ call = "list" /\ row = "none"
  /\ data' = "none" /\ pc' = AfterData
  /\ UNCHANGED <<call, mode, cmd, result, own, gaveUp, commands, replies, serverVars, backlog, lineVars>>

(* Whatever the second reply says, the call returns true. *)
FinalAnswered ==
  \E r \in Outcome :
    /\ pc = "final" /\ GetReply(r)
    /\ Finish("ok")
    /\ ControlOnly

-----------------------------------------------------------------------------
(* The server. *)

Replies(c) ==
  CASE c = "USER" -> {COMPLETE, CONTINUE, ERROR}
    [] c = "RNFR" -> {CONTINUE, ERROR}
    [] c = "QUIT" -> {COMPLETE}
    [] OTHER      -> {COMPLETE, ERROR}

Says(c, class, fits) == replies' = Append(replies, [cmd |-> c, class |-> class, fits |-> fits])

ServerAnswers ==
  /\ up /\ working = NoCommand /\ commands # <<>>
  /\ LET c == Head(commands) IN
     /\ c \notin Transfer
     /\ \E class \in Replies(c), fits \in BOOLEAN :
          /\ fits \/ (c \in {"PASV", "MDTM"} /\ class = COMPLETE)
          /\ Says(c, class, fits)
          /\ odd' = (odd \/ ~fits)
          /\ remote' = CASE c = "PASV" /\ class = COMPLETE -> "listening"
                         [] c = "PORT" /\ class = COMPLETE -> "none"
                         [] OTHER -> remote
     /\ up' = (c # "QUIT")
  /\ commands' = Tail(commands)
  /\ UNCHANGED <<clientVars, working, backlog, lineVars>>

ServerRefuses ==
  /\ up /\ working = NoCommand /\ commands # <<>> /\ Head(commands) \in Transfer
  /\ Says(Head(commands), ERROR, TRUE)
  /\ commands' = Tail(commands)
  /\ UNCHANGED <<clientVars, serverVars, backlog, lineVars>>

(* 125 or 150: the transfer begins, in active mode before or after the server *)
(* connects.                                                                  *)
ServerBegins ==
  /\ up /\ working = NoCommand /\ commands # <<>> /\ Head(commands) \in Transfer
  /\ Says(Head(commands), PRELIM, TRUE)
  /\ commands' = Tail(commands)
  /\ working' = Head(commands)
  /\ UNCHANGED <<clientVars, remote, up, odd, backlog, lineVars>>

ServerConnects ==
  /\ up /\ remote = "none" /\ data = "listening" /\ ~backlog
  /\ working # NoCommand \/ (commands # <<>> /\ Head(commands) \in Transfer)
  /\ remote' = "connected" /\ backlog' = TRUE
  /\ UNCHANGED <<clientVars, commands, replies, working, up, odd, lineVars>>

(* The transfer is complete, or fails; the server closes its data socket.    *)
ServerEnds(class) ==
  /\ up /\ working # NoCommand
  /\ class = COMPLETE => remote = "connected" /\ (working = "STOR" => data = "none")
  /\ Says(working, class, TRUE)
  /\ remote' = "closed" /\ working' = NoCommand
  /\ UNCHANGED <<clientVars, commands, up, odd, backlog, lineVars>>

(* A line of a reply but its last, or one that is no reply at all. *)
ServerSaysMore ==
  /\ up /\ ~more /\ replies = <<>>
  /\ more' = TRUE
  /\ UNCHANGED <<clientVars, commands, replies, serverVars, backlog, row>>

(* The next line of the listing; a blank one is longer than twenty blanks. *)
ServerLists(line) ==
  /\ working = "LIST" /\ remote = "connected" /\ data = "connected" /\ row = "none"
  /\ row' = line
  /\ odd' = (odd \/ line = "blank")
  /\ UNCHANGED <<clientVars, commands, replies, working, remote, up, backlog, more>>

ServerGoesAway ==
  /\ up
  /\ up' = FALSE /\ commands' = <<>> /\ working' = NoCommand /\ remote' = "closed"
  /\ UNCHANGED <<clientVars, replies, backlog, odd, lineVars>>

-----------------------------------------------------------------------------

(* The client's steps that do not depend on the server: it has an answer, or *)
(* a timeout.                                                                *)
ClientStep ==
  \/ GreetingAnswered \/ UserAnswered \/ PassAnswered \/ TypeAnswered
  \/ Answers("SIMPLE") \/ TimeAnswered \/ RnfrAnswered \/ Answers("RNTO") \/ QuitAnswered
  \/ PasvAnswered \/ Connect \/ ConnectFails
  \/ PortAnswered \/ Accept \/ AcceptTimesOut
  \/ TransferAnswered \/ KeepsRow \/ RowRaises \/ Listed \/ FinalAnswered
  \/ PassesLine

ServerStep ==
  \/ ServerAnswers \/ ServerRefuses \/ ServerBegins \/ ServerConnects
  \/ \E class \in {COMPLETE, ERROR} : ServerEnds(class)
  \/ ServerSaysMore \/ \E line \in {"file", "blank"} : ServerLists(line)
  \/ ServerGoesAway

Next ==
  \/ \E c \in {"simple", "time", "rename", "close"} : Begin(c)
  \/ \E c \in {"get", "put", "list"}, m \in Modes : BeginTransfer(c, m) \/ BeginFails(c, m)
  \/ ClientStep
  \/ Transferred
  \/ ServerStep

Spec == Init /\ [][Next]_vars

(* The client runs; the server need not do anything. *)
FairSpec == Spec /\ WF_vars(ClientStep)

-----------------------------------------------------------------------------
(* Properties. *)

(* No wait has timed out, and the server has said nothing the client cannot *)
(* read.                                                                    *)
Regular == ~gaveUp /\ ~odd

(* As long as that is so, each reply the client acts on is the one to the    *)
(* command it sent: every path through every call reads as many replies as   *)
(* the server sends, in however many lines.                                  *)
OwnReplies == Regular => own

(* No call that returns leaves its data socket or its listener open, whatever *)
(* step fails.  Only one that raises does: pasvconn after its socket is made, *)
(* and list over a line it cannot parse.                                      *)
DataClosed ==
  pc \in {"idle", "closed"} /\ data # "none" =>
    /\ result = "raised"
    /\ (data = "open" /\ mode = "passive") \/ (data = "connected" /\ call = "list")

(* A call raises only when a wait has timed out, the server has said what the *)
(* client cannot read, or PASV was answered and then the connection was lost; *)
(* only time and the transfers do, and get and put over an active connection  *)
(* only when it did not come in time.                                         *)
RaisesForAReason ==
  pc = "idle" /\ result = "raised" =>
    \/ call = "time" /\ ~Regular
    \/ call \in {"get", "put", "list"} /\ IF mode = "active" THEN gaveUp ELSE ~Regular \/ ~up
    \/ call = "list" /\ odd

(* Whatever else the server does, or does not do, each call but get and put  *)
(* returns, if lines that end no reply and lines of the listing come to an   *)
(* end: each of them is given the whole timeout again, and while they come   *)
(* list and every reply go on for ever.                                      *)
CallsReturn ==
  <>[](~more /\ row = "none") =>
    (pc \notin {"idle", "closed"} /\ call \notin {"get", "put"} ~> pc \in {"idle", "closed"})

-----------------------------------------------------------------------------
(* The inductive invariant behind the safety properties. *)

(* What the client waits for, and the call and the mode that it is for. *)
WaitsInCall ==
  /\ pc = "connect" \/ (pc = "reply" /\ cmd \in {"PASV", "PORT"} \cup Transfer) \/ pc = "accept" =>
       call \in {"get", "put", "list"}
  /\ pc = "reply" /\ cmd = "PASV" => mode = "passive"
  /\ pc = "reply" /\ cmd = "MDTM" => call = "time"
  /\ pc = "accept" \/ (pc = "reply" /\ cmd = "PORT") => mode = "active"
  /\ pc \in {"accept", "data", "final"} => cmd \in Transfer

(* The data socket at each step: a transfer whose reply is read without a   *)
(* data connection is an active one that has waited in vain.               *)
DataOfStep ==
  /\ pc = "final" \/ (pc \in {"idle", "closed"} /\ result # "raised") => data = "none"
  /\ pc \in {"idle", "closed"} =>
       data = "none" \/ (data = "open" /\ mode = "passive") \/ (data = "connected" /\ call = "list")
  /\ pc = "reply" /\ cmd \notin Transfer \cup {"PORT"} => data = "none"
  /\ pc = "reply" /\ cmd \in Transfer /\ data # "connected" => data = "none" /\ gaveUp /\ mode = "active"
  /\ pc = "data" => data = "connected"

(* A reply the client cannot read is one of the odd things the server said. *)
OddIsTold == ~odd => \A i \in 1 .. Len(replies) : replies[i].fits

(* So is a blank row. *)
BlankIsTold == row = "blank" => odd

(* What is on its way between the client and the server. *)
OnItsWay(c, w, r) == commands = c /\ working = w /\ replies = r

Quiet == OnItsWay(<<>>, NoCommand, <<>>)
ReplyTo(c) == {a \in Reply : a.cmd = c}
Preliminary(c) == {a \in ReplyTo(c) : a.class = PRELIM}

(* The command c, or the reply to it. *)
OneReply(c) ==
  \/ up /\ OnItsWay(<<c>>, NoCommand, <<>>)
  \/ \E a \in ReplyTo(c) : OnItsWay(<<>>, NoCommand, <<a>>)
  \/ ~up /\ Quiet

(* The transfer c that the server performs, or its second reply. *)
SecondReply(c) ==
  \/ up /\ OnItsWay(<<>>, c, <<>>)
  \/ \E a \in ReplyTo(c) : OnItsWay(<<>>, NoCommand, <<a>>)
  \/ ~up /\ Quiet

(* The command of a transfer, or one reply that refuses it, or two. *)
TwoReplies(c) ==
  \/ up /\ OnItsWay(<<c>>, NoCommand, <<>>)
  \/ up /\ \E a \in Preliminary(c) : OnItsWay(<<>>, c, <<a>>)
  \/ \E a \in ReplyTo(c) \ Preliminary(c) : OnItsWay(<<>>, NoCommand, <<a>>)
  \/ \E a \in Preliminary(c), b \in ReplyTo(c) : OnItsWay(<<>>, NoCommand, <<a, b>>)
  \/ ~up /\ \E a \in Preliminary(c) : OnItsWay(<<>>, NoCommand, <<a>>)
  \/ ~up /\ Quiet

(* In the regular case, what is under way is just what the call still reads. *)
InStep ==
  Regular =>
    /\ pc \in {"idle", "closed", "connect"} => Quiet
    /\ pc = "reply" /\ cmd \notin Transfer => OneReply(cmd)
    /\ pc \in {"reply", "accept"} /\ cmd \in Transfer => TwoReplies(cmd)
    /\ pc \in {"data", "final"} => SecondReply(cmd)

Told == OddIsTold /\ BlankIsTold

InCall ==
  /\ TypeOK /\ OwnReplies /\ RaisesForAReason
  /\ WaitsInCall /\ DataOfStep /\ InStep

IInv == Told /\ InCall

=============================================================================
