------------------------------- MODULE PosixIpc -------------------------------
(***************************************************************************)
(* lipclib.c: POSIX message queues and semaphores, and their timed waits.  *)
(* A queue object keeps what it believes to be the mode of its descriptor; *)
(* the mode belongs to the open description, which fork makes two          *)
(* processes share.  A timeout is turned into an absolute time, in seconds *)
(* and nanoseconds.                                                        *)
(***************************************************************************)
EXTENDS Integers, Sequences, FiniteSets

CONSTANTS
  Processes,
  Descriptions,  \* the open descriptions of the queue that are ever made
  Second,        \* how many ticks (nanoseconds) a second has
  Timeouts,      \* the timeouts in use, in ticks; a negative one means none
  Forks,         \* whether processes fork
  MaxMsg,        \* mq_maxmsg
  SemMax         \* bound: the largest value of the semaphore

PosixAssumption ==
  /\ {Second, MaxMsg} \subseteq Nat \ {0} /\ SemMax \in Nat /\ Timeouts \subseteq Int /\ Forks \in BOOLEAN
  /\ 0 \notin Descriptions

VARIABLES
  nonblock,  \* O_NONBLOCK of each open description
  object,    \* mq_obj of each process
  queued,    \* how many messages the queue has
  value,     \* the semaphore
  clock,     \* the nanoseconds of the current second
  call,      \* the call of each process that waits
  asked,     \* history: the mode of the last setblocking(), if its object knew the mode
  knows,     \* history: the processes whose object saw how each description got its mode
  invalid    \* history: the nanoseconds of the times that were refused

vars == <<nonblock, object, queued, value, clock, call, asked, knows, invalid>>

NoObject == [mqdes |-> 0, nonblock |-> FALSE, msgbuf |-> FALSE]
NoCall == [op |-> "none", timed |-> FALSE, timeout |-> 0, left |-> 0, waited |-> 0]
Ops == {"receive", "send", "wait"}

TypeOK ==
  /\ nonblock \in [Descriptions -> BOOLEAN]
  /\ object \in [Processes -> [mqdes : Descriptions \cup {0}, nonblock : BOOLEAN, msgbuf : BOOLEAN]]
  /\ queued \in 0..MaxMsg /\ value \in 0..SemMax /\ clock \in 0 .. Second - 1
  /\ \A p \in Processes :
       /\ call[p].op \in Ops \cup {"none"} /\ call[p].left \in Nat /\ call[p].waited \in Nat
       /\ object[p].msgbuf = (object[p].mqdes # 0)
  /\ asked \in [Descriptions -> {"none", "blocking", "nonblocking"}]
  /\ knows \in [Descriptions -> SUBSET Processes] /\ invalid \subseteq Nat

Init ==
  /\ nonblock = [d \in Descriptions |-> FALSE] /\ object = [p \in Processes |-> NoObject]
  /\ queued = 0 /\ value \in 0..SemMax /\ clock = 0
  /\ call = [p \in Processes |-> NoCall]
  /\ asked = [d \in Descriptions |-> "none"] /\ knows = [d \in Descriptions |-> {}] /\ invalid = {}

Idle(p) == call[p] = NoCall
Open(p) == Idle(p) /\ object[p].mqdes # 0

-----------------------------------------------------------------------------
(* The object. *)

Unused == {d \in Descriptions : \A p \in Processes : object[p].mqdes # d}

(* ipc.mq_open(name, oflags): the mode is asked of the descriptor. *)
MqOpen(p, mode) ==
  /\ Idle(p) /\ object[p] = NoObject
  /\ \E d \in Unused :
       /\ nonblock' = [nonblock EXCEPT ![d] = mode]
       /\ object' = [object EXCEPT ![p] = [mqdes |-> d, nonblock |-> nonblock'[d], msgbuf |-> TRUE]]
       /\ asked' = [asked EXCEPT ![d] = "none"]
       /\ knows' = [knows EXCEPT ![d] = {p}]
  /\ UNCHANGED <<queued, value, clock, call, invalid>>

Closed(o) == NoObject

(* mq:close(). *)
MqClose(p) ==
  /\ Open(p)
  /\ object' = [object EXCEPT ![p] = Closed(@)]
  /\ knows' = [knows EXCEPT ![object[p].mqdes] = @ \ {p}]
  /\ UNCHANGED <<nonblock, queued, value, clock, call, asked, invalid>>

(* The object remembers the mode that mq_setattr has set. *)
ModeSet(o, mode) == [o EXCEPT !.nonblock = mode]

(* mq:setblocking(bool) calls mq_setattr if the object believes otherwise,   *)
(* and returns true.                                                        *)
SetBlocking(p, blocking) ==
  LET o == object[p]
      mode == IF blocking THEN "blocking" ELSE "nonblocking"
  IN
  /\ Open(p)
  /\ IF o.nonblock = ~blocking
     THEN /\ asked' = [asked EXCEPT ![o.mqdes] = IF p \in knows[o.mqdes] THEN mode ELSE "none"]
          /\ UNCHANGED <<nonblock, object, knows>>
     ELSE /\ nonblock' = [nonblock EXCEPT ![o.mqdes] = ~blocking]
          /\ object' = [object EXCEPT ![p] = ModeSet(o, ~blocking)]
          /\ asked' = [asked EXCEPT ![o.mqdes] = mode]
          /\ knows' = [knows EXCEPT ![o.mqdes] = {p}]
  /\ UNCHANGED <<queued, value, clock, call, invalid>>

(* sys.fork(): the child has a copy of the object. *)
Fork(p, q) ==
  LET d == object[p].mqdes IN
  /\ Forks /\ Open(p) /\ p # q /\ Idle(q) /\ object[q] = NoObject
  /\ object' = [object EXCEPT ![q] = object[p]]
  /\ knows' = [knows EXCEPT ![d] = IF p \in @ THEN @ \cup {q} ELSE @ \ {q}]
  /\ UNCHANGED <<nonblock, queued, value, clock, call, asked, invalid>>

-----------------------------------------------------------------------------
(* Times. *)

(* expire_time: the nanoseconds, and the second they carry. *)
Carries(n) == n > Second
Nanoseconds(n) == IF Carries(n) THEN n % Second ELSE n

(* A mutant of CarriedSecond: tv_sec is left as it is.                     *)
SecondLost(n) == 0

CarriedSecond(n) == IF Carries(n) THEN Second ELSE 0

(* How far the absolute time is from now. *)
UntilExpiry(timeout) ==
  LET n == clock + (timeout % Second)
  IN (timeout \div Second) * Second + CarriedSecond(n) + Nanoseconds(n) - clock

ValidTime(timeout) == Nanoseconds(clock + (timeout % Second)) < Second

IsTimed(timeout) == timeout >= 0

-----------------------------------------------------------------------------
(* Calls that may wait. *)

CanGo(op) ==
  CASE op = "receive" -> queued > 0
    [] op = "send" -> queued < MaxMsg
    [] op = "wait" -> value > 0

Gone(op) ==
  CASE op = "receive" -> queued' = queued - 1 /\ UNCHANGED value
    [] op = "send" -> queued' = queued + 1 /\ UNCHANGED value
    [] op = "wait" -> value' = value - 1 /\ UNCHANGED queued

(* The system call: it succeeds, refuses an invalid time, returns because   *)
(* the description says so, or waits.                                      *)
Begin(p, op, timeout, mayWait) ==
  /\ Idle(p)
  /\ \/ /\ IsTimed(timeout) /\ ~ValidTime(timeout)
        /\ invalid' = invalid \cup {clock + (timeout % Second)}
        /\ UNCHANGED <<queued, value, call>>
     \/ /\ IsTimed(timeout) => ValidTime(timeout)
        /\ IF CanGo(op)
           THEN Gone(op) /\ UNCHANGED call
           ELSE /\ call' = [call EXCEPT ![p] =
                     IF mayWait THEN [op |-> op, timed |-> IsTimed(timeout), timeout |-> timeout, waited |-> 0,
                                      left |-> IF IsTimed(timeout) THEN UntilExpiry(timeout) ELSE 0]
                     ELSE NoCall]
                /\ UNCHANGED <<queued, value>>
        /\ UNCHANGED invalid
  /\ UNCHANGED <<nonblock, object, clock, asked, knows>>

(* mq:receive(timeout) and mq:send(message, priority, timeout). *)
Receive(p, timeout) == Open(p) /\ Begin(p, "receive", timeout, ~nonblock[object[p].mqdes])
Send(p, timeout) == Open(p) /\ Begin(p, "send", timeout, ~nonblock[object[p].mqdes])

(* sem:wait(timeout) and sem:trywait(). *)
Wait(p, timeout) == Begin(p, "wait", timeout, TRUE)
TryWait(p) == Begin(p, "wait", -1, FALSE)

(* sem:post(). *)
Post(p) ==
  /\ Idle(p) /\ value < SemMax
  /\ value' = value + 1
  /\ UNCHANGED <<nonblock, object, queued, clock, call, asked, knows, invalid>>

Goes(p) ==
  /\ ~Idle(p) /\ CanGo(call[p].op)
  /\ Gone(call[p].op)
  /\ call' = [call EXCEPT ![p] = NoCall]
  /\ UNCHANGED <<nonblock, object, clock, asked, knows, invalid>>

(* ETIMEDOUT. *)
Expires(p) ==
  /\ call[p].timed /\ call[p].left = 0
  /\ call' = [call EXCEPT ![p] = NoCall]
  /\ UNCHANGED <<nonblock, object, queued, value, clock, asked, knows, invalid>>

(* EINTR. *)
Interrupted(p) ==
  /\ ~Idle(p)
  /\ call' = [call EXCEPT ![p] = NoCall]
  /\ UNCHANGED <<nonblock, object, queued, value, clock, asked, knows, invalid>>

(* Time passes, and no call sleeps beyond its time. *)
Tick ==
  /\ \A p \in Processes : call[p].timed => call[p].left > 0
  /\ clock' = (clock + 1) % Second
  /\ call' = [p \in Processes |-> IF call[p].timed
                                  THEN [call[p] EXCEPT !.left = @ - 1, !.waited = @ + 1] ELSE call[p]]
  /\ UNCHANGED <<nonblock, object, queued, value, asked, knows, invalid>>

Next ==
  \/ Tick
  \/ \E p \in Processes :
       \/ \E b \in BOOLEAN : MqOpen(p, b) \/ SetBlocking(p, b)
       \/ MqClose(p) \/ \E q \in Processes : Fork(p, q)
       \/ \E t \in Timeouts : Receive(p, t) \/ Send(p, t) \/ Wait(p, t)
       \/ TryWait(p) \/ Post(p)
       \/ Goes(p) \/ Expires(p) \/ Interrupted(p)

Spec == Init /\ [][Next]_vars

(* The kernel wakes a call whose time has come, and time goes on: calls     *)
(* that return at once, one after the other, do not stop it.               *)
FairSpec == Spec /\ SF_vars(Tick) /\ \A p \in Processes : WF_vars(Expires(p))

-----------------------------------------------------------------------------
(* Properties. *)

(* The absolute time is the timeout away: the call neither gives up before  *)
(* its timeout nor sleeps past it, in whatever part of a second it began.  *)
WaitsAsLong ==
  \A p \in Processes : call[p].timed => call[p].waited + call[p].left = call[p].timeout

(* A call with a timeout, and be it 0, returns although nobody sends,       *)
(* receives or posts.                                                      *)
TimedCallReturns ==
  \A p \in Processes : call[p].op # "none" /\ call[p].timeout >= 0 ~> call[p].op = "none"

(* setblocking() leaves the descriptor in the mode it was asked for, also    *)
(* when processes share the description, unless another one has changed it   *)
(* behind the object's back: then it may return true and change nothing.     *)
ModeAsAsked ==
  \A d \in Descriptions : /\ asked[d] = "blocking" => ~nonblock[d]
                          /\ asked[d] = "nonblocking" => nonblock[d]

(* A time is refused only where its nanoseconds and those of the clock make  *)
(* a second exactly, which expire_time does not carry.                       *)
RefusedAtSecond == invalid \subseteq {Second}

(* What the header says of timeouts: any number of seconds may be given,   *)
(* at any time.                                                            *)
(* The code does not keep it: README, "Disagreements".                      *)
TimesAreValid == invalid = {}

(* What every state of the component keeps. *)
Safety == TypeOK /\ WaitsAsLong /\ ModeAsAsked /\ RefusedAtSecond

(* What makes it so: a call that waits is one of the three, and the objects  *)
(* that saw a description get its mode have that mode.                      *)
Waiting ==
  /\ call \in [Processes -> [op : Ops \cup {"none"}, timed : BOOLEAN, timeout : Int, left : Nat, waited : Nat]]
  /\ \A p \in Processes : call[p].op = "none" => Idle(p)

ModeKnown ==
  \A p \in Processes : LET d == object[p].mqdes IN
    d # 0 /\ p \in knows[d] => object[p].nonblock = nonblock[d]

IInv == TypeOK /\ Waiting /\ WaitsAsLong /\ ModeKnown /\ ModeAsAsked /\ RefusedAtSecond

=============================================================================
