-------------------------------- MODULE MCWaits --------------------------------
(***************************************************************************)
(* Every call that waits, and whether it ends: each component by itself, as *)
(* part says, under the fairness of its own FairSpec.  Since part never    *)
(* changes, a condition of one component and one of another are one here:  *)
(* whichever of the two goes on, it is of the part that runs.              *)
(***************************************************************************)
EXTENDS Integers, TLC

CONSTANTS f1, f2, i1, p1, p2, d1, NoEvent

VARIABLES
  part,
  fds, len, size, position, active, kernel, event, told, overtaken,
  buffer, end, errno, linePc, lineAsked, lineSize, timeout, left, wait, due, take, line, answer,
  lineSent, returned,
  nonblock, object, queued, value, clock, call, asked, knows, invalid,
  shellPc, ends, writers, written, piped, collected, rfds, closed, late, shell, behind, termed,
  status,
  proxyPc, transfer, todo, reader, held, inq, outq, owed, peer, reset, open, ended, cut,
  httpPc, httpClosed, request, response, wire, script, gone, spoiled,
  sent, outbox, rpcs, frames, amqpCall, given, announced, dropped

pollVars == <<fds, len, size, position, active, kernel, event, told, overtaken>>
lineVars == <<buffer, end, errno, linePc, lineAsked, lineSize, timeout, left, wait, due, take, line, answer,
              lineSent, returned>>
posixVars == <<nonblock, object, queued, value, clock, call, asked, knows, invalid>>
shellVars == <<shellPc, ends, writers, written, piped, collected, rfds, closed, late, shell, behind, termed, status>>
proxyVars == <<proxyPc, transfer, todo, reader, held, inq, outq, owed, peer, reset, open, ended, cut>>
httpVars == <<httpPc, httpClosed, request, response, wire, script, gone, spoiled>>
framesVars == <<sent, outbox, rpcs, frames, amqpCall, given, announced, dropped>>
vars == <<part, pollVars, lineVars, posixVars, shellVars, proxyVars, httpVars, framesVars>>

Poll == INSTANCE PollSelector WITH
  Fd <- {f1, f2}, Event <- {"in"}, Unmasked <- {"in"}, Iter <- {i1}, InitialSize <- 1

Line == INSTANCE ReadLine WITH
  Chunk <- 1, Sizes <- {-1, 0}, Timeouts <- {-1, 2}, Second <- 1, Blocking <- TRUE, Signals <- TRUE,
  Leftover <- {"none", "again", "other"}, MaxBytes <- 2,
  pc <- linePc, asked <- lineAsked, size <- lineSize, sent <- lineSent

Posix == INSTANCE PosixIpc WITH
  Processes <- {p1, p2}, Descriptions <- {d1}, Second <- 2, Timeouts <- {-1, 3}, Forks <- TRUE,
  MaxMsg <- 1, SemMax <- 1

Shell(T) == INSTANCE RunShell WITH
  Timed <- T, Traps <- FALSE, MaxWrites <- 2, Capacity <- 1,
  pc <- shellPc, open <- ends, left <- behind

Proxy == INSTANCE TcpProxy WITH Timed <- FALSE, Capacity <- 1, Chunk <- 2, pc <- proxyPc, buffer <- held

Http == INSTANCE HttpClient WITH Length <- 2, MaxRequests <- 2, pc <- httpPc, closed <- httpClosed

Frames == INSTANCE AmqpFrames WITH
  Channels <- {"a", "b"}, MaxSent <- [a |-> 1, b |-> 1], asked <- rpcs, call <- amqpCall

ASSUME Assumptions ==
  /\ Poll!PollAssumption /\ Line!ReadLineAssumption /\ Posix!PosixAssumption
  /\ \A timed \in BOOLEAN : Shell(timed)!RunShellAssumption
  /\ Proxy!ProxyAssumption /\ Http!HttpAssumption /\ Frames!FramesAssumption

Init ==
  /\ part \in {"poll", "line", "posix", "shell", "timed shell", "proxy", "http", "frames"}
  /\ Poll!Init /\ Line!Init /\ Shell(TRUE)!Init /\ Proxy!Init /\ Http!Init /\ Frames!Init
  /\ Posix!Init /\ (part # "posix" => value = 0)

-----------------------------------------------------------------------------
(* A step of one part. *)

Is(name) == part = name /\ UNCHANGED part

OfPoll == Is("poll") /\ UNCHANGED <<lineVars, posixVars, shellVars, proxyVars, httpVars, framesVars>>
OfLine == Is("line") /\ UNCHANGED <<pollVars, posixVars, shellVars, proxyVars, httpVars, framesVars>>
OfPosix == Is("posix") /\ UNCHANGED <<pollVars, lineVars, shellVars, proxyVars, httpVars, framesVars>>
OfShell == Is("shell") /\ UNCHANGED <<pollVars, lineVars, posixVars, proxyVars, httpVars, framesVars>>
OfTimedShell == Is("timed shell") /\ UNCHANGED <<pollVars, lineVars, posixVars, proxyVars, httpVars, framesVars>>
OfProxy == Is("proxy") /\ UNCHANGED <<pollVars, lineVars, posixVars, shellVars, httpVars, framesVars>>
OfHttp == Is("http") /\ UNCHANGED <<pollVars, lineVars, posixVars, shellVars, proxyVars, framesVars>>
OfFrames == Is("frames") /\ UNCHANGED <<pollVars, lineVars, posixVars, shellVars, proxyVars, httpVars>>

(* The histories of readline are cut down to what is under way, so that    *)
(* MaxBytes bounds that and not how much the peer sends: it may go on for   *)
(* ever.  No step of the call reads more of its pieces than whether it has  *)
(* any.                                                                     *)
Forgets ==
  /\ OfLine
  /\ line' = IF line = <<>> THEN <<>> ELSE <<line[1]>>
  /\ returned' = <<>>
  /\ lineSent' = buffer
  /\ answer' = [answer EXCEPT !.bytes = <<>>]
  /\ UNCHANGED <<buffer, end, errno, linePc, lineAsked, lineSize, timeout, left, wait, due, take>>

Next ==
  \/ OfPoll /\ Poll!LoopNext
  \/ OfLine /\ Line!Next
  \/ Forgets
  \/ OfPosix /\ Posix!Next
  \/ OfShell /\ Shell(FALSE)!Next
  \/ OfTimedShell /\ Shell(TRUE)!Next
  \/ OfProxy /\ Proxy!Next
  \/ OfHttp /\ Http!Next
  \/ OfFrames /\ Frames!Next

(* The process that waits goes on: it is scheduled, and the kernel wakes it. *)
GoesOn ==
  \/ OfPoll /\ (\E it \in {i1} : Poll!NextEvent(it) \/ Poll!EndOfEvents(it))
  \/ OfLine /\ Line!Step
  \/ OfPosix /\ Posix!Expires(p1)
  \/ OfShell /\ Shell(FALSE)!RunShell
  \/ OfTimedShell /\ Shell(TRUE)!RunShell
  \/ OfProxy /\ Proxy!Proxy
  \/ OfHttp /\ Http!GetResponse
  \/ OfFrames /\ (Frames!FromList \/ Frames!ReadListed \/ Frames!TimesOut)

(* So does what it waits for: the time, the network, the server, and the   *)
(* application that calls again.                                           *)
OthersGoOn ==
  \/ OfPoll /\ (active = {} /\ \E it \in {i1} : Poll!Select(it))
  \/ OfLine /\ Line!Tick
  \/ OfPosix /\ Posix!Expires(p2)
  \/ OfShell /\ Shell(FALSE)!TimePasses
  \/ OfTimedShell /\ Shell(TRUE)!TimePasses
  \/ OfProxy /\ Proxy!Network
  \/ OfFrames /\ (\E c \in {"a", "b"} : Frames!ServerReplies(c))

(* A signal ends a command, and the peers of the proxy read.               *)
Ends ==
  \/ OfShell /\ Shell(FALSE)!Terminated
  \/ OfTimedShell /\ Shell(TRUE)!Terminated
  \/ OfProxy /\ Proxy!PeerReads("c")
ServerReads == OfProxy /\ Proxy!PeerReads("s")

(* What is possible again and again happens at last: calls that return at  *)
(* once do not stop the time, and neither channel has the socket for itself. *)
TimeOrChannelA ==
  \/ OfPosix /\ Posix!Tick
  \/ OfFrames /\ Frames!Reads("a")
ChannelB == OfFrames /\ Frames!Reads("b")
Drains == OfFrames /\ Frames!DrainEvents

Spec ==
  /\ Init /\ [][Next]_vars
  /\ WF_vars(GoesOn) /\ WF_vars(OthersGoOn) /\ WF_vars(Ends) /\ WF_vars(ServerReads)
  /\ SF_vars(TimeOrChannelA) /\ SF_vars(ChannelB) /\ SF_vars(Drains)

-----------------------------------------------------------------------------

(* lsocklib.c: a descriptor that stays ready is handed out again and again by*)
(* an event loop, although an iterator may miss it when another one goes.  *)
NotStarved == part = "poll" => Poll!NotStarved

(* lsocklib.c: readline with a timeout returns, or spins on a stale errno, if *)
(* the peer at last sends no more.                                         *)
TimedCallReturnsOrSpins == part = "line" => Line!TimedCallReturnsOrSpins

(* The other calls that wait, or the first and the second of them: processes *)
(* in calls with a timeout, the streams of a command, the sides of the proxy *)
(* and the messages of two channels.                                       *)
Waits(p, s, r, c) ==
  CASE part = "posix" -> call[p].op # "none" /\ call[p].timeout >= 0
    [] part = "shell" -> shell # "none" /\ writers[s] = {}
    [] part = "timed shell" -> TRUE
    [] part = "proxy" -> inq[r] > 0
    [] part = "http" -> httpPc # "idle"
    [] part = "frames" -> sent[c] = 1
    [] OTHER -> FALSE

Answered(p, r, c) ==
  CASE part = "posix" -> call[p].op = "none"
    [] part = "shell" -> shellPc = "done"
    [] part = "timed shell" -> shellPc \in {"done", "raised"}
    [] part = "proxy" -> inq[r] = 0 \/ Proxy!Over
    [] part = "http" -> httpPc = "idle"
    [] part = "frames" -> given[c] = <<1>>
    [] OTHER -> TRUE

(* Each of them ends.  It is PosixIpc's TimedCallReturns, RunShell's Returns *)
(* and EndReturns, TcpProxy's Forwarded, HttpClient's Returns and          *)
(* AmqpFrames' SentIsGiven in one.                                         *)
EveryCallEnds ==
  /\ Waits(p1, "stdout", "c", "a") ~> Answered(p1, "c", "a")
  /\ Waits(p2, "stderr", "s", "b") ~> Answered(p2, "s", "b")
=============================================================================
