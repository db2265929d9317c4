-------------------------------- MODULE ReadLine --------------------------------
(***************************************************************************)
(* socket:readline(size, timeout) of lsocklib.c on a stream socket: poll   *)
(* for input, look at what has arrived with MSG_PEEK, take it up to the    *)
(* first newline, and go on until there is a whole line, the size is       *)
(* reached, time is over or the stream ends.  The peer sends and closes,   *)
(* and time passes, between any two steps.                                 *)
(*                                                                         *)
(* `errno' is a variable, as it is in C: a call that succeeds leaves it    *)
(* alone, and recv at the end of the stream succeeds.                      *)
(***************************************************************************)
EXTENDS Integers, Sequences

CONSTANTS
  Chunk,        \* sizeof(buffer)
  Sizes,        \* the sizes the application asks for; negative: any
  Timeouts,     \* the timeouts the application gives, in ticks; negative: for ever
  Second,       \* how many ticks a second has
  Blocking,     \* whether the socket is in blocking mode
  Signals,      \* whether signals interrupt poll(2)
  Leftover,     \* what the application's other calls leave in errno
  MaxBytes      \* bound: how much the peer sends

Errno == {"none", "again", "other"}   \* "again": EAGAIN, EWOULDBLOCK or EINTR

ASSUME ReadLineAssumption ==
  /\ Chunk \in Nat \ {0}
  /\ Sizes \subseteq Int
  /\ Timeouts \subseteq Int
  /\ Second \in Nat \ {0}
  /\ Blocking \in BOOLEAN /\ Signals \in BOOLEAN
  /\ Leftover \subseteq Errno
  /\ MaxBytes \in Nat

VARIABLES
  buffer,       \* what has arrived at the socket and is not taken
  end,          \* whether the peer closed or reset the connection
  errno,
  pc,           \* where the call is
  asked,        \* history: the call's size argument
  size,         \* how much of it is left
  timeout,      \* the timeout of the next poll
  left,         \* how long until endtime
  wait,         \* how much longer the poll blocks
  due,          \* history: how long until the time the caller gave is over
  take,         \* how much of what was peeked belongs to the line
  line,         \* the pieces on the Lua stack
  answer,       \* what the latest call returned
  sent,         \* history: everything the peer sent
  returned      \* history: everything the calls returned

peerVars == <<buffer, end, sent>>
callVars == <<pc, asked, size, timeout, left, wait, due, take, line>>
vars == <<peerVars, callVars, errno, answer, returned>>

Byte == {"x", "\n"}

(* The type of the variables. *)
TypeOK ==
  /\ buffer \in Seq(Byte) /\ sent \in Seq(Byte) /\ returned \in Seq(Byte)
  /\ end \in {"open", "reset", "closed"}
  /\ errno \in Errno
  /\ pc \in {"idle", "poll", "peek", "take"}
  /\ asked \in Int /\ size \in Int /\ timeout \in Int
  /\ left \in Nat /\ wait \in Nat /\ due \in Nat /\ take \in Nat
  /\ line \in Seq(Byte)
  /\ answer \in [kind : {"line", "timeout", "error", "closed"}, bytes : Seq(Byte), asked : Int]

Init ==
  /\ buffer = <<>> /\ end = "open" /\ sent = <<>>
  /\ errno = "none"
  /\ pc = "idle"
  /\ asked = -1 /\ size = -1 /\ timeout = -1
  /\ left = 0 /\ wait = 0 /\ due = 0 /\ take = 0
  /\ line = <<>>
  /\ answer = [kind |-> "timeout", bytes |-> <<>>, asked |-> -1]
  /\ returned = <<>>

-----------------------------------------------------------------------------

(* A mutant of Deadline: no test for a timeout that means for ever. *)
DeadlineOfAny(t) == Second * (t \div Second) + (IF t % Second = 0 THEN 0 ELSE Second)

(* time_add: how far away it sets endtime.  A part of a second becomes a     *)
(* multiple of a second in microseconds, which it takes for one second.      *)
Deadline(t) ==
  IF t <= 0 THEN 0
  ELSE Second * (t \div Second) + (IF t % Second = 0 THEN 0 ELSE Second)

(* A mutant of TimeLeft: each poll gets the whole timeout again. *)
WholeTimeout == timeout

(* The timeout of the next poll, after some time has passed: time_left. *)
TimeLeft == IF timeout > 0 THEN left ELSE timeout

(* The top of the loop, with the timeout t. *)
Loop(t) ==
  /\ timeout' = t
  /\ IF t >= 0 THEN pc' = "poll" /\ wait' = t ELSE pc' = "peek" /\ wait' = 0

(* A mutant of Answer: an error or the end of the stream wins over the part  *)
(* of a line that was taken before it.                                       *)
AnswerByCode(ret, bytes) ==
  [kind |-> CASE ret = 1 -> "line" [] ret = 0 -> "timeout"
              [] ret = -1 -> "error" [] ret = -2 -> "closed",
   bytes |-> bytes, asked |-> asked]

(* A mutant of Answer: every failure is taken for the end of the stream. *)
AnswerClosed(ret, bytes) ==
  [kind |-> IF bytes # <<>> THEN "line" ELSE IF ret = 0 THEN "timeout" ELSE "closed",
   bytes |-> bytes, asked |-> asked]

(* What a call returns: what it has taken, or else why there is nothing. *)
Answer(ret, bytes) ==
  [kind |-> IF bytes # <<>> THEN "line"
            ELSE CASE ret = 0 -> "timeout" [] ret = -1 -> "error" [] ret = -2 -> "closed",
   bytes |-> bytes, asked |-> asked]

Return(ret, bytes) ==
  /\ answer' = Answer(ret, bytes)
  /\ returned' = IF answer'.kind = "line" THEN returned \o bytes ELSE returned
  /\ pc' = "idle" /\ asked' = -1 /\ size' = -1 /\ timeout' = -1
  /\ left' = 0 /\ wait' = 0 /\ due' = 0 /\ take' = 0 /\ line' = <<>>

(* sockobj:readline(n, t) is called. *)
ReadLine(n, t) ==
  /\ pc = "idle"
  /\ asked' = n /\ size' = n
  /\ left' = Deadline(t)
  /\ due' = IF t > 0 THEN t ELSE 0
  /\ Loop(t)
  /\ UNCHANGED <<peerVars, errno, take, line, answer, returned>>

(* poll(2) finds input, the end of the stream or an error. *)
PollReady ==
  /\ pc = "poll"
  /\ buffer # <<>> \/ end # "open"
  /\ pc' = "peek" /\ wait' = 0
  /\ UNCHANGED <<peerVars, errno, asked, size, timeout, left, due, take, line, answer, returned>>

PollTimesOut ==
  /\ pc = "poll"
  /\ buffer = <<>> /\ end = "open" /\ wait = 0
  /\ Return(0, line)
  /\ UNCHANGED <<peerVars, errno>>

(* A signal handler runs while poll(2) waits. *)
PollInterrupted ==
  /\ Signals /\ pc = "poll"
  /\ buffer = <<>> /\ end = "open" /\ wait > 0
  /\ errno' = "again"
  /\ Return(-1, line)
  /\ UNCHANGED peerVars

-----------------------------------------------------------------------------

(* What MSG_PEEK shows of the input. *)
Room == IF size >= 0 /\ size < Chunk THEN size ELSE Chunk
Peeked == SubSeq(buffer, 1, IF Len(buffer) < Room THEN Len(buffer) ELSE Room)

(* A mutant of UpToNewline: everything that was peeked. *)
UpToTheEnd(s) == Len(s)

(* How many bytes of s belong to the line. *)
UpToNewline(s) ==
  IF \E i \in 1 .. Len(s) : s[i] = "\n"
  THEN CHOOSE i \in 1 .. Len(s) : s[i] = "\n" /\ \A j \in 1 .. (i - 1) : s[j] # "\n"
  ELSE Len(s)

PeekInput ==
  /\ pc = "peek" /\ buffer # <<>> /\ Room > 0
  /\ take' = UpToNewline(Peeked)
  /\ pc' = "take"
  /\ UNCHANGED <<peerVars, errno, asked, size, timeout, left, wait, due, line, answer, returned>>

(* A mutant of TriesAgain: the end of the stream is always tried again. *)
TriesAgainAtEnd(e) == e # "other"

(* The test behind the label retry. *)
TriesAgain(e) == e = "again"

(* recv returns 0, at the end of the stream or because it was asked for no   *)
(* byte (with no input it waits even then), and errno is what an earlier     *)
(* call left there.                                                          *)
PeekEnd ==
  /\ pc = "peek"
  /\ \/ buffer = <<>> /\ end = "closed"
     \/ buffer # <<>> /\ Room = 0
  /\ IF TriesAgain(errno)
     THEN Loop(TimeLeft) /\ UNCHANGED <<asked, size, left, due, take, line, answer, returned>>
     ELSE Return(-2, line)
  /\ UNCHANGED <<peerVars, errno>>

(* recv reports the reset, once. *)
PeekReset ==
  /\ pc = "peek" /\ buffer = <<>> /\ end = "reset"
  /\ end' = "closed"
  /\ errno' = "other"
  /\ Return(-1, line)
  /\ UNCHANGED <<buffer, sent>>

(* recv does not wait for input on a socket in non-blocking mode. *)
PeekNothing ==
  /\ pc = "peek" /\ buffer = <<>> /\ end = "open" /\ ~Blocking
  /\ errno' = "again"
  /\ Loop(TimeLeft)
  /\ UNCHANGED <<peerVars, asked, size, left, due, take, line, answer, returned>>

(* How much of the size is left after n bytes more. *)
Left(n) == IF size > 0 THEN size - n ELSE size

(* The second recv takes what belongs to the line. *)
Take ==
  /\ pc = "take"
  /\ buffer' = SubSeq(buffer, take + 1, Len(buffer))
  /\ LET bytes == line \o SubSeq(buffer, 1, take) IN
     IF buffer[take] = "\n" \/ Left(take) = 0
     THEN Return(1, bytes)
     ELSE /\ line' = bytes
          /\ size' = Left(take)
          /\ take' = 0
          /\ Loop(TimeLeft)
          /\ UNCHANGED <<asked, left, due, answer, returned>>
  /\ UNCHANGED <<end, sent, errno>>

-----------------------------------------------------------------------------
(* The environment. *)

Send(b) ==
  /\ end = "open" /\ Len(sent) < MaxBytes
  /\ buffer' = Append(buffer, b)
  /\ sent' = Append(sent, b)
  /\ UNCHANGED <<end, errno, callVars, answer, returned>>

Close(how) ==
  /\ end = "open"
  /\ end' = how
  /\ UNCHANGED <<buffer, sent, errno, callVars, answer, returned>>

(* Another call of the application fails. *)
OtherCall(e) ==
  /\ pc = "idle"
  /\ errno' = e
  /\ UNCHANGED <<peerVars, callVars, answer, returned>>

Tick ==
  /\ pc # "idle" /\ (left > 0 \/ wait > 0 \/ due > 0)
  /\ left' = IF left > 0 THEN left - 1 ELSE 0
  /\ wait' = IF wait > 0 THEN wait - 1 ELSE 0
  /\ due' = IF due > 0 THEN due - 1 ELSE 0
  /\ UNCHANGED <<peerVars, errno, pc, asked, size, timeout, take, line, answer, returned>>

(* A step of the call. *)
Step ==
  \/ PollReady \/ PollTimesOut \/ PollInterrupted
  \/ PeekInput \/ PeekEnd \/ PeekReset \/ PeekNothing
  \/ Take

Next ==
  \/ \E n \in Sizes, t \in Timeouts : ReadLine(n, t)
  \/ Step
  \/ \E b \in Byte : Send(b)
  \/ \E how \in {"reset", "closed"} : Close(how)
  \/ \E e \in Leftover : OtherCall(e)
  \/ Tick

Spec == Init /\ [][Next]_vars

(* The process runs and time passes; the peer owes nothing. *)
FairSpec == Spec /\ WF_vars(Step) /\ WF_vars(Tick)

-----------------------------------------------------------------------------
(* Properties. *)

(* Whatever way the calls end, they hand over every byte they took, in order. *)
StreamIntact == returned \o line \o buffer = sent

(* A line that is returned has its newline at the end only, and is no longer *)
(* than the caller allows, however it arrived in pieces.                     *)
LinesAreLines ==
  answer.kind = "line" =>
    /\ \A i \in 1 .. (Len(answer.bytes) - 1) : answer.bytes[i] # "\n"
    /\ answer.asked > 0 => Len(answer.bytes) <= answer.asked

(* "connection closed by peer" is returned only after the last byte, or to a *)
(* call that asked for no byte at all, which meets any input with it.        *)
ClosedMeansDrained ==
  answer.kind = "closed" => answer.asked = 0 \/ (end = "closed" /\ buffer = <<>>)

(* Through all its polls, a call does not wait beyond the time it was given. *)
WaitsNoLonger == pc = "poll" => wait <= due

(* A call with a timeout returns. *)
TimedCallReturns == pc # "idle" /\ timeout >= 0 ~> pc = "idle"

(* recv returns 0 and errno holds what the code takes for "try again": the   *)
(* call polls and peeks for ever, whatever its timeout.                      *)
Spinning ==
  /\ pc # "idle" /\ errno = "again"
  /\ \/ buffer = <<>> /\ end = "closed"
     \/ buffer # <<>> /\ Room = 0

(* That is the only way: a call with a timeout returns or spins, if the peer *)
(* at last sends no more.  While input comes without a newline the call goes *)
(* on past its deadline: each further poll has no time left and finds it.    *)
TimedCallReturnsOrSpins ==
  <>[][~ \E b \in Byte : Send(b)]_vars =>
    (pc # "idle" /\ timeout >= 0 ~> pc = "idle" \/ Spinning)

-----------------------------------------------------------------------------
(* The inductive invariant behind the safety properties. *)

(* A piece that is held has no newline: it would have ended the line. *)
HeldHasNoNewline == \A i \in 1 .. Len(line) : line[i] # "\n"

(* While a call is under way, size is what the pieces leave of what it asked *)
(* for; between two calls no piece is held.                                  *)
SizeIsLeft ==
  IF pc = "idle" THEN line = <<>>
  ELSE IF asked > 0 THEN size > 0 /\ Len(line) + size = asked
  ELSE size = asked /\ (asked = 0 => line = <<>>)

(* What was peeked is still there when it is taken: at most size bytes, of   *)
(* which none but the last is a newline.                                     *)
PeekedIsThere ==
  pc = "take" =>
    /\ size # 0 /\ take \in 1 .. Len(buffer)
    /\ size > 0 => take <= size
    /\ \A i \in 1 .. (take - 1) : buffer[i] # "\n"

IInv ==
  /\ TypeOK /\ StreamIntact /\ LinesAreLines /\ ClosedMeansDrained
  /\ HeldHasNoNewline /\ SizeIsLeft /\ PeekedIsThere

(* The inductive invariant behind WaitsNoLonger, for timeouts that are whole *)
(* seconds: neither the deadline nor the poll is later than the caller said. *)
DeadlineIsDue == left <= due /\ WaitsNoLonger

=============================================================================
