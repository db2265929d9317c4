----------------------------- MODULE ReadLineProofs -----------------------------
(* The safety properties of ReadLine, for every chunk size, every set of    *)
(* sizes and timeouts, and however much the peer sends.                     *)
EXTENDS ReadLine, SequenceTheorems, FiniteSetTheorems, WellFoundedInduction, TLAPS

(* Quotient and rest make the number. *)
LEMMA Division ==
  ASSUME NEW t \in Nat
  PROVE  /\ t \div Second \in Nat /\ t % Second \in Nat
         /\ t = Second * (t \div Second) + (t % Second)
  BY ReadLineAssumption

(* time_add sets endtime at or after now. *)
LEMMA DeadlineType ==
  ASSUME NEW t \in Int
  PROVE  Deadline(t) \in Nat
<1>1. CASE t <= 0
  BY <1>1 DEF Deadline
<1>2. CASE t > 0
  <2>1. t \div Second \in Nat
    BY <1>2, Division
  <2>2. Second * (t \div Second) \in Nat
    BY <2>1, ReadLineAssumption
  <2> QED
    BY <1>2, <2>2, ReadLineAssumption DEF Deadline
<1> QED
  BY <1>1, <1>2

(* time_add is exact for whole seconds. *)
LEMMA DeadlineExact ==
  ASSUME NEW t \in Int, t > 0, t % Second = 0
  PROVE  Deadline(t) = t
  BY Division, ReadLineAssumption DEF Deadline

(* A sequence is what is taken from its front and what is left. *)
LEMMA TakeSplits ==
  ASSUME NEW s \in Seq(Byte), NEW n \in 1 .. Len(s)
  PROVE  /\ SubSeq(s, 1, n) \in Seq(Byte) /\ SubSeq(s, n + 1, Len(s)) \in Seq(Byte)
         /\ Len(SubSeq(s, 1, n)) = n
         /\ \A i \in 1 .. n : SubSeq(s, 1, n)[i] = s[i]
         /\ SubSeq(s, 1, n) \o SubSeq(s, n + 1, Len(s)) = s
<1>1. Len(s) \in Nat /\ \A i \in 1 .. Len(s) : s[i] \in Byte
  BY LenProperties, ElementOfSeq
<1>2. /\ SubSeq(s, 1, n) \in Seq(Byte)
      /\ Len(SubSeq(s, 1, n)) = n
      /\ \A i \in 1 .. n : SubSeq(s, 1, n)[i] = s[i]
  <2>1. 1 \in Int /\ n \in Int /\ \A i \in 1 .. n : s[i] \in Byte
    BY <1>1
  <2>2. /\ SubSeq(s, 1, n) \in Seq(Byte)
        /\ Len(SubSeq(s, 1, n)) = IF 1 <= n THEN n - 1 + 1 ELSE 0
        /\ \A i \in 1 .. n - 1 + 1 : SubSeq(s, 1, n)[i] = s[1 + i - 1]
    BY <2>1, SubSeqProperties
  <2> QED
    BY <1>1, <2>2
<1>3. SubSeq(s, n + 1, Len(s)) \in Seq(Byte)
  <2>1. n + 1 \in Int /\ Len(s) \in Int /\ \A i \in n + 1 .. Len(s) : s[i] \in Byte
    BY <1>1
  <2> QED
    BY <2>1, SubSeqProperties
<1>4. SubSeq(s, 1, n) \o SubSeq(s, n + 1, Len(s)) = SubSeq(s, 1, Len(s))
  <2>1. 1 \in 1 .. Len(s) + 1 /\ n \in 1 - 1 .. Len(s) /\ Len(s) \in n .. Len(s)
    BY <1>1
  <2> QED
    BY <2>1, ConcatAdjacentSubSeq
<1> QED
  BY <1>2, <1>3, <1>4, SubSeqFull

(* Pieces may be joined in any grouping. *)
LEMMA JoinAssociates ==
  ASSUME NEW s \in Seq(Byte), NEW t \in Seq(Byte), NEW u \in Seq(Byte)
  PROVE  (s \o t) \o u = s \o (t \o u)
  BY ConcatAssociative

-----------------------------------------------------------------------------
(* The top of the loop and the end of a call. *)

(* The top of the loop goes to poll, or straight to recv. *)
LEMMA LoopType ==
  ASSUME NEW t \in Int, Loop(t)
  PROVE  timeout' = t /\ wait' \in Nat /\ pc' \in {"poll", "peek"}
  BY DEF Loop

(* The invariant holds before the first call. *)
LEMMA InitInv == Init => IInv
<1> SUFFICES ASSUME Init PROVE IInv
  OBVIOUS
<1>1. <<>> \in Seq(Byte) /\ Len(<<>>) = 0 /\ <<>> \o <<>> \o <<>> = <<>>
  BY EmptySeq, ConcatEmptySeq
<1> QED
  BY <1>1 DEF Init, IInv, TypeOK, Errno, StreamIntact, LinesAreLines, ClosedMeansDrained,
              HeldHasNoNewline, SizeIsLeft, PeekedIsThere

(* What Return says of the variables, when there is a line or a reason. *)
LEMMA ReturnGives ==
  ASSUME TypeOK, NEW ret, NEW bytes \in Seq(Byte), Return(ret, bytes),
         ret \in {0, -1, -2} \/ bytes # <<>>
  PROVE  /\ pc' = "idle" /\ line' = <<>>
         /\ {asked', size', timeout'} \subseteq Int /\ {left', wait', due', take'} \subseteq Nat
         /\ answer' \in [kind : {"line", "timeout", "error", "closed"}, bytes : Seq(Byte), asked : Int]
         /\ answer'.bytes = bytes /\ answer'.asked = asked
         /\ answer'.kind = "line" <=> bytes # <<>>
         /\ answer'.kind = "closed" => ret = -2
         /\ returned' = returned \o bytes
<1>1. answer' = Answer(ret, bytes) /\ asked \in Int
  BY DEF Return, TypeOK
<1>2. /\ answer'.kind \in {"line", "timeout", "error", "closed"}
      /\ answer'.kind = "line" <=> bytes # <<>>
      /\ answer'.kind = "closed" => ret = -2
  BY <1>1 DEF Answer
<1>3. answer'.bytes = bytes /\ answer'.asked = asked
  BY <1>1 DEF Answer
<1>4. answer' \in [kind : {"line", "timeout", "error", "closed"}, bytes : Seq(Byte), asked : Int]
  BY <1>1, <1>2 DEF Answer
<1>5. returned' = returned \o bytes
  <2>1. CASE bytes = <<>>
    <3>1. returned' = returned
      BY <2>1, <1>2 DEF Return
    <3> QED
      BY <3>1, <2>1, ConcatEmptySeq DEF TypeOK
  <2>2. CASE bytes # <<>>
    BY <2>2, <1>2 DEF Return
  <2> QED
    BY <2>1, <2>2
<1> QED
  BY <1>2, <1>3, <1>4, <1>5 DEF Return

(* A call may return the piece it holds, and with the bytes it takes now a  *)
(* whole line: what it returns and leaves is still what was sent.          *)
LEMMA ReturnInv ==
  ASSUME IInv, NEW ret, NEW bytes \in Seq(Byte), Return(ret, bytes),
         ret \in {0, -1, -2} \/ bytes # <<>>,
         \A i \in 1 .. (Len(bytes) - 1) : bytes[i] # "\n",
         asked > 0 => Len(bytes) <= asked,
         ret = -2 => asked = 0 \/ (end' = "closed" /\ buffer' = <<>>),
         buffer' \in Seq(Byte), bytes \o buffer' = line \o buffer,
         sent' = sent, end' \in {"open", "reset", "closed"}, errno' \in Errno
  PROVE  IInv'
<1>1. TypeOK
  BY DEF IInv
<1>2. /\ pc' = "idle" /\ line' = <<>>
      /\ {asked', size', timeout'} \subseteq Int /\ {left', wait', due', take'} \subseteq Nat
      /\ answer' \in [kind : {"line", "timeout", "error", "closed"}, bytes : Seq(Byte), asked : Int]
      /\ answer'.bytes = bytes /\ answer'.asked = asked
      /\ answer'.kind = "line" <=> bytes # <<>>
      /\ answer'.kind = "closed" => ret = -2
      /\ returned' = returned \o bytes
  BY <1>1, ReturnGives
<1>3. returned' \in Seq(Byte) /\ <<>> \in Seq(Byte) /\ Len(<<>>) = 0
  BY <1>1, <1>2, ConcatProperties, EmptySeq DEF TypeOK
<1>4. TypeOK'
  BY <1>1, <1>2, <1>3 DEF TypeOK
<1>5. StreamIntact'
  <2>1. returned \in Seq(Byte) /\ line \in Seq(Byte) /\ buffer \in Seq(Byte)
    BY <1>1 DEF TypeOK
  <2>2. returned' \o line' = returned \o bytes
    BY <1>2, <1>3, ConcatEmptySeq
  <2>3. (returned \o bytes) \o buffer' = returned \o (bytes \o buffer')
    BY <2>1, JoinAssociates
  <2>4. returned \o (line \o buffer) = (returned \o line) \o buffer
    BY <2>1, JoinAssociates
  <2> QED
    BY <2>2, <2>3, <2>4 DEF IInv, StreamIntact
<1>6. LinesAreLines' /\ ClosedMeansDrained'
  BY <1>2 DEF LinesAreLines, ClosedMeansDrained
<1> QED
  BY <1>2, <1>3, <1>4, <1>5, <1>6 DEF IInv, HeldHasNoNewline, SizeIsLeft, PeekedIsThere

-----------------------------------------------------------------------------
(* What is peeked and how much of it belongs to the line. *)

(* Every set of numbers that is not empty has a least one: the one whose     *)
(* numbers from 0 up are a smallest set under inclusion.                     *)
LEMMA LeastExists ==
  ASSUME NEW T, T \subseteq Nat, T # {}
  PROVE  \E x \in T : \A y \in T : x <= y
<1> DEFINE R == StrictSubsetOrdering(Nat)
           UpTo == {0 .. i : i \in T}
<1>1. UpTo \subseteq FiniteSubsetsOf(Nat) /\ UpTo # {}
  <2>1. ASSUME NEW i \in T PROVE 0 .. i \in FiniteSubsetsOf(Nat)
    <3>1. 0 \in Int /\ i \in Int
      OBVIOUS
    <3>2. IsFiniteSet(0 .. i)
      BY <3>1, FS_Interval
    <3>3. 0 .. i \in SUBSET Nat
      OBVIOUS
    <3> QED
      BY <3>2, <3>3 DEF FiniteSubsetsOf
  <2> QED
    BY <2>1
<1>2. PICK x \in T : \A y \in T : ~ (<<0 .. y, 0 .. x>> \in R)
  <2>1. \E u \in UpTo : \A v \in UpTo : ~ (<<v, u>> \in R)
    <3> HIDE DEF R, UpTo
    <3>1. IsWellFoundedOn(R, FiniteSubsetsOf(Nat))
      BY FS_StrictSubsetOrderingWellFounded DEF R
    <3> QED
      BY <1>1, <3>1, WFMin
  <2> QED
    BY <2>1
<1>3. ASSUME NEW y \in T PROVE x <= y
  <2>1. SUFFICES ASSUME ~ (x <= y) PROVE FALSE
    OBVIOUS
  <2>2. 0 .. y \subseteq 0 .. x /\ x \in 0 .. x /\ ~ (x \in 0 .. y)
    BY <2>1
  <2>3. 0 .. y \in SUBSET Nat /\ 0 .. x \in SUBSET Nat
    OBVIOUS
  <2>4. <<0 .. y, 0 .. x>> \in R
    BY <2>2, <2>3 DEF StrictSubsetOrdering
  <2> QED
    BY <1>2, <2>4
<1> QED
  BY <1>3

(* The line ends at the first newline. *)
LEMMA UpToNewlineGives ==
  ASSUME NEW s \in Seq(Byte), s # <<>>
  PROVE  /\ UpToNewline(s) \in 1 .. Len(s)
         /\ \A i \in 1 .. (UpToNewline(s) - 1) : s[i] # "\n"
<1>1. Len(s) \in Nat \ {0}
  BY EmptySeq
<1>2. CASE \E i \in 1 .. Len(s) : s[i] = "\n"
  <2> DEFINE First(i) == s[i] = "\n" /\ \A j \in 1 .. (i - 1) : s[j] # "\n"
             Newlines == {i \in 1 .. Len(s) : s[i] = "\n"}
  <2>1. PICK i \in Newlines : \A j \in Newlines : i <= j
    <3>1. Newlines \subseteq Nat /\ Newlines # {}
      BY <1>1, <1>2
    <3> QED
      BY <3>1, LeastExists
  <2>2. i \in 1 .. Len(s) /\ First(i)
    BY <1>1, <2>1
  <2>3. UpToNewline(s) = CHOOSE k \in 1 .. Len(s) : First(k)
    BY <1>2 DEF UpToNewline
  <2>4. UpToNewline(s) \in 1 .. Len(s) /\ First(UpToNewline(s))
    BY <2>2, <2>3
  <2> QED
    BY <2>4
<1>3. CASE ~ \E i \in 1 .. Len(s) : s[i] = "\n"
  BY <1>1, <1>3 DEF UpToNewline
<1> QED
  BY <1>2, <1>3

(* MSG_PEEK shows a beginning of the input, no longer than the size allows. *)
LEMMA PeekedGives ==
  ASSUME TypeOK, buffer # <<>>, size # 0
  PROVE  /\ Peeked \in Seq(Byte) /\ Peeked # <<>>
         /\ Len(Peeked) <= Len(buffer) /\ (size > 0 => Len(Peeked) <= size)
         /\ \A i \in 1 .. Len(Peeked) : Peeked[i] = buffer[i]
<1> DEFINE n == IF Len(buffer) < Room THEN Len(buffer) ELSE Room
<1>1. Len(buffer) \in Nat \ {0}
  BY EmptySeq DEF TypeOK
<1>2. Room \in Nat \ {0} /\ (size > 0 => Room <= size)
  BY ReadLineAssumption DEF TypeOK, Room
<1>3. n \in 1 .. Len(buffer) /\ (size > 0 => n <= size)
  BY <1>1, <1>2 DEF TypeOK
<1>4. /\ SubSeq(buffer, 1, n) \in Seq(Byte) /\ Len(SubSeq(buffer, 1, n)) = n
      /\ \A i \in 1 .. n : SubSeq(buffer, 1, n)[i] = buffer[i]
  BY <1>3, TakeSplits DEF TypeOK
<1>5. Peeked = SubSeq(buffer, 1, n)
  BY DEF Peeked
<1> HIDE DEF n
<1>6. Len(Peeked) = n
  BY <1>4, <1>5
<1> QED
  BY <1>1, <1>3, <1>4, <1>5, <1>6, EmptySeq

-----------------------------------------------------------------------------
(* The steps of a call that neither take input nor return. *)

(* A step that leaves the stream, the pieces and the answer alone. *)
LEMMA GoOnInv ==
  ASSUME IInv, TypeOK', SizeIsLeft', pc' # "take",
         UNCHANGED <<buffer, sent, returned, line, answer>>,
         end = "closed" => end' = "closed"
  PROVE  IInv'
BY DEF IInv, StreamIntact, LinesAreLines, ClosedMeansDrained, HeldHasNoNewline, PeekedIsThere

(* The timeout of the next poll is a number. *)
LEMMA TimeLeftType == TypeOK => TimeLeft \in Int
BY DEF TypeOK, TimeLeft

(* The call goes round the loop again with what it holds. *)
LEMMA AgainInv ==
  ASSUME IInv, pc \in {"poll", "peek"}, Loop(TimeLeft), errno' \in Errno,
         UNCHANGED <<peerVars, asked, size, left, due, take, line, answer, returned>>
  PROVE  IInv'
<1>1. TypeOK
  BY DEF IInv
<1>2. timeout' \in Int /\ wait' \in Nat /\ pc' \in {"poll", "peek"}
  BY <1>1, TimeLeftType, LoopType
<1>3. TypeOK'
  BY <1>1, <1>2 DEF TypeOK, peerVars
<1>4. SizeIsLeft'
  BY <1>2 DEF IInv, SizeIsLeft
<1> QED
  BY <1>2, <1>3, <1>4, GoOnInv DEF peerVars

(* A call begins with no piece held. *)
LEMMA ReadLineInv ==
  ASSUME IInv, NEW n \in Sizes, NEW t \in Timeouts, ReadLine(n, t)
  PROVE  IInv'
<1>1. TypeOK
  BY DEF IInv
<1>2. n \in Int /\ t \in Int
  BY ReadLineAssumption
<1>3. timeout' \in Int /\ wait' \in Nat /\ pc' \in {"poll", "peek"}
  BY <1>2, LoopType DEF ReadLine
<1>4. left' \in Nat /\ due' \in Nat
  BY <1>2, DeadlineType DEF ReadLine
<1>5. TypeOK'
  BY <1>1, <1>2, <1>3, <1>4 DEF TypeOK, ReadLine, peerVars
<1>6. SizeIsLeft'
  <2>1. line' = <<>> /\ asked' = n /\ size' = n
    BY DEF IInv, SizeIsLeft, ReadLine
  <2>2. Len(<<>>) = 0
    BY EmptySeq
  <2> QED
    BY <1>2, <1>3, <2>1, <2>2 DEF SizeIsLeft
<1> QED
  BY <1>3, <1>5, <1>6, GoOnInv DEF ReadLine, peerVars

(* poll finds something. *)
LEMMA PollReadyInv ==
  ASSUME IInv, PollReady
  PROVE  IInv'
<1>1. TypeOK'
  BY DEF IInv, TypeOK, PollReady, peerVars
<1>2. SizeIsLeft' /\ pc' # "take"
  BY DEF IInv, SizeIsLeft, PollReady
<1> QED
  BY <1>1, <1>2, GoOnInv DEF PollReady, peerVars

(* Time passes. *)
LEMMA TickInv ==
  ASSUME IInv, Tick
  PROVE  IInv'
<1>1. TypeOK'
  BY DEF IInv, TypeOK, Tick, peerVars
<1> QED
  BY <1>1 DEF IInv, StreamIntact, LinesAreLines, ClosedMeansDrained, HeldHasNoNewline, SizeIsLeft,
              PeekedIsThere, Tick, peerVars

(* Another call leaves its errno. *)
LEMMA OtherCallInv ==
  ASSUME IInv, NEW e \in Leftover, OtherCall(e)
  PROVE  IInv'
<1>1. TypeOK'
  BY ReadLineAssumption DEF IInv, TypeOK, OtherCall, peerVars, callVars
<1> QED
  BY <1>1 DEF IInv, StreamIntact, LinesAreLines, ClosedMeansDrained, HeldHasNoNewline, SizeIsLeft,
              PeekedIsThere, OtherCall, peerVars, callVars

(* The peer closes or resets: no call has said so before. *)
LEMMA CloseInv ==
  ASSUME IInv, NEW how \in {"reset", "closed"}, Close(how)
  PROVE  IInv'
<1>1. TypeOK'
  BY DEF IInv, TypeOK, Close, callVars
<1>2. ClosedMeansDrained'
  BY DEF IInv, ClosedMeansDrained, Close
<1> QED
  BY <1>1, <1>2 DEF IInv, StreamIntact, LinesAreLines, HeldHasNoNewline, SizeIsLeft, PeekedIsThere,
                    Close, callVars

(* What is sent comes behind what was peeked. *)
LEMMA SendInv ==
  ASSUME IInv, NEW b \in Byte, Send(b)
  PROVE  IInv'
<1>1. TypeOK
  BY DEF IInv
<1>2. /\ <<b>> \in Seq(Byte)
      /\ buffer' = buffer \o <<b>> /\ sent' = sent \o <<b>>
      /\ buffer' \in Seq(Byte) /\ sent' \in Seq(Byte)
      /\ Len(buffer') = Len(buffer) + 1 /\ Len(buffer) \in Nat
      /\ \A i \in 1 .. Len(buffer) : buffer'[i] = buffer[i]
  BY <1>1, AppendIsConcat, AppendProperties, LenProperties DEF TypeOK, Send
<1>3. TypeOK'
  BY <1>1, <1>2 DEF TypeOK, Send, callVars
<1>4. StreamIntact'
  <2>1. /\ returned \in Seq(Byte) /\ line \in Seq(Byte) /\ buffer \in Seq(Byte)
        /\ returned \o line \in Seq(Byte) /\ <<b>> \in Seq(Byte)
    BY <1>1, <1>2, ConcatProperties DEF TypeOK
  <2>2. ((returned \o line) \o buffer) \o <<b>> = (returned \o line) \o (buffer \o <<b>>)
    BY <2>1, JoinAssociates
  <2> QED
    BY <1>2, <2>2 DEF IInv, StreamIntact, Send, callVars
<1>5. ClosedMeansDrained'
  BY DEF IInv, ClosedMeansDrained, Send
<1>6. PeekedIsThere'
  <2>1. SUFFICES ASSUME pc' = "take"
                 PROVE  /\ size # 0 /\ take \in 1 .. Len(buffer')
                        /\ size > 0 => take <= size
                        /\ \A i \in 1 .. (take - 1) : buffer'[i] # "\n"
    BY DEF PeekedIsThere, Send, callVars
  <2>2. /\ size # 0 /\ take \in 1 .. Len(buffer)
        /\ size > 0 => take <= size
        /\ \A i \in 1 .. (take - 1) : buffer[i] # "\n"
    BY <2>1 DEF IInv, PeekedIsThere, Send, callVars
  <2> QED
    BY <1>2, <2>2
<1> QED
  BY <1>3, <1>4, <1>5, <1>6 DEF IInv, LinesAreLines, HeldHasNoNewline, SizeIsLeft, Send, callVars

-----------------------------------------------------------------------------
(* The steps that return what is held, and why. *)

(* What is held has no newline and is no longer than what was asked for. *)
LEMMA ReturnHeldInv ==
  ASSUME IInv, pc \in {"poll", "peek"}, NEW ret \in {0, -1, -2}, Return(ret, line),
         ret = -2 => asked = 0 \/ (end' = "closed" /\ buffer' = <<>>),
         UNCHANGED <<buffer, sent>>, end' \in {"open", "reset", "closed"}, errno' \in Errno
  PROVE  IInv'
<1>1. line \in Seq(Byte) /\ buffer \in Seq(Byte) /\ Len(line) \in Nat /\ size \in Int
  BY LenProperties DEF IInv, TypeOK
<1>2. \A i \in 1 .. (Len(line) - 1) : line[i] # "\n"
  BY <1>1 DEF IInv, HeldHasNoNewline
<1>3. asked > 0 => Len(line) <= asked
  BY <1>1 DEF IInv, TypeOK, SizeIsLeft
<1> QED
  BY <1>1, <1>2, <1>3, ReturnInv

(* Time is over: the pieces are returned. *)
LEMMA PollTimesOutInv ==
  ASSUME IInv, PollTimesOut
  PROVE  IInv'
<1>1. end' \in {"open", "reset", "closed"} /\ errno' \in Errno
  BY DEF IInv, TypeOK, PollTimesOut, peerVars
<1> QED
  BY <1>1, ReturnHeldInv DEF PollTimesOut, peerVars

(* A signal interrupts poll: the pieces are returned. *)
LEMMA PollInterruptedInv ==
  ASSUME IInv, PollInterrupted
  PROVE  IInv'
<1>1. end' \in {"open", "reset", "closed"} /\ errno' \in Errno
  BY DEF IInv, TypeOK, PollInterrupted, peerVars, Errno
<1> QED
  BY <1>1, ReturnHeldInv DEF PollInterrupted, peerVars

(* The end of the stream: the call returns, or goes on for a stale errno. *)
LEMMA PeekEndInv ==
  ASSUME IInv, PeekEnd
  PROVE  IInv'
<1>1. /\ asked = 0 \/ (end' = "closed" /\ buffer' = <<>>)
      /\ end' \in {"open", "reset", "closed"} /\ errno' \in Errno
  BY ReadLineAssumption DEF IInv, TypeOK, PeekEnd, Room, SizeIsLeft, peerVars
<1>2. CASE TriesAgain(errno)
  BY <1>1, <1>2, AgainInv DEF PeekEnd
<1>3. CASE ~ TriesAgain(errno)
  BY <1>1, <1>3, ReturnHeldInv DEF PeekEnd, peerVars
<1> QED
  BY <1>2, <1>3

(* A reset: the pieces are returned. *)
LEMMA PeekResetInv ==
  ASSUME IInv, PeekReset
  PROVE  IInv'
BY ReturnHeldInv DEF PeekReset, Errno

(* recv would block: the call goes on. *)
LEMMA PeekNothingInv ==
  ASSUME IInv, PeekNothing
  PROVE  IInv'
<1>1. errno' \in Errno
  BY DEF PeekNothing, Errno
<1> QED
  BY <1>1, AgainInv DEF PeekNothing

-----------------------------------------------------------------------------
(* The steps that look at the input and take it. *)

(* There is input, and its newline is found. *)
LEMMA PeekInputInv ==
  ASSUME IInv, PeekInput
  PROVE  IInv'
<1>1. TypeOK /\ size # 0 /\ buffer # <<>>
  BY ReadLineAssumption DEF IInv, TypeOK, Room, PeekInput
<1>2. /\ Peeked \in Seq(Byte) /\ Peeked # <<>>
      /\ Len(Peeked) <= Len(buffer) /\ (size > 0 => Len(Peeked) <= size)
      /\ \A i \in 1 .. Len(Peeked) : Peeked[i] = buffer[i]
  BY <1>1, PeekedGives
<1>3. /\ take' \in 1 .. Len(Peeked)
      /\ \A i \in 1 .. (take' - 1) : Peeked[i] # "\n"
  BY <1>2, UpToNewlineGives DEF PeekInput
<1>4. Len(Peeked) \in Nat /\ Len(buffer) \in Nat /\ size \in Int
  BY <1>1, <1>2, LenProperties DEF TypeOK
<1>5. TypeOK'
  BY <1>1, <1>3, <1>4 DEF TypeOK, PeekInput, peerVars
<1>6. PeekedIsThere'
  <2>1. /\ take' \in 1 .. Len(buffer)
        /\ size > 0 => take' <= size
        /\ \A i \in 1 .. (take' - 1) : buffer[i] # "\n"
    <3> DEFINE n == Len(Peeked)
               k == take'
    <3>1. n \in Nat /\ n <= Len(buffer) /\ (size > 0 => n <= size) /\ k \in 1 .. n
      BY <1>2, <1>3, <1>4
    <3>2. \A i \in 1 .. n : Peeked[i] = buffer[i]
      BY <1>2
    <3>3. \A i \in 1 .. (k - 1) : Peeked[i] # "\n"
      BY <1>3
    <3> HIDE DEF n, k
    <3>4. k \in 1 .. Len(buffer) /\ (size > 0 => k <= size)
      BY <1>4, <3>1
    <3>5. \A i \in 1 .. (k - 1) : i \in 1 .. n
      BY <3>1
    <3>6. \A i \in 1 .. (k - 1) : buffer[i] # "\n"
      BY <3>2, <3>3, <3>5
    <3> QED
      BY <3>4, <3>6 DEF k
  <2> QED
    BY <1>1, <2>1 DEF PeekedIsThere, PeekInput, peerVars
<1> QED
  BY <1>5, <1>6 DEF IInv, StreamIntact, LinesAreLines, ClosedMeansDrained, HeldHasNoNewline, SizeIsLeft,
                    PeekInput, peerVars

(* The pieces with what is taken now. *)
LEMMA TakenGives ==
  ASSUME IInv, pc = "take",
         NEW bytes, bytes = line \o SubSeq(buffer, 1, take),
         NEW rest, rest = SubSeq(buffer, take + 1, Len(buffer))
  PROVE  /\ bytes \in Seq(Byte) /\ rest \in Seq(Byte)
         /\ bytes \o rest = line \o buffer
         /\ Len(bytes) = Len(line) + take /\ Len(line) \in Nat /\ take \in Nat \ {0}
         /\ \A i \in 1 .. (Len(bytes) - 1) : bytes[i] # "\n"
         /\ bytes[Len(bytes)] = buffer[take]
<1> DEFINE piece == SubSeq(buffer, 1, take)
<1>1. /\ line \in Seq(Byte) /\ buffer \in Seq(Byte) /\ take \in 1 .. Len(buffer)
      /\ \A i \in 1 .. (take - 1) : buffer[i] # "\n"
      /\ \A i \in 1 .. Len(line) : line[i] # "\n"
  BY DEF IInv, TypeOK, PeekedIsThere, HeldHasNoNewline
<1>2. /\ piece \in Seq(Byte) /\ rest \in Seq(Byte)
      /\ Len(piece) = take
      /\ \A i \in 1 .. take : piece[i] = buffer[i]
      /\ piece \o rest = buffer
  BY <1>1, TakeSplits
<1>3. Len(line) \in Nat /\ Len(buffer) \in Nat
  BY <1>1, LenProperties
<1> HIDE DEF piece
<1>4. /\ bytes \in Seq(Byte)
      /\ Len(bytes) = Len(line) + take
      /\ \A i \in 1 .. Len(line) + take : bytes[i] = IF i <= Len(line) THEN line[i] ELSE piece[i - Len(line)]
  BY <1>1, <1>2, ConcatProperties DEF piece
<1>5. \A i \in 1 .. (Len(bytes) - 1) : bytes[i] # "\n"
  <2> TAKE i \in 1 .. (Len(bytes) - 1)
  <2>1. CASE i <= Len(line)
    BY <1>1, <1>3, <1>4, <2>1
  <2>2. CASE i > Len(line)
    <3>1. i - Len(line) \in 1 .. (take - 1) /\ i \in 1 .. Len(line) + take /\ ~ (i <= Len(line))
      BY <1>1, <1>3, <1>4, <2>2
    <3>2. bytes[i] = piece[i - Len(line)]
      BY <1>4, <3>1
    <3>3. piece[i - Len(line)] = buffer[i - Len(line)]
      BY <1>1, <1>2, <1>3, <3>1
    <3> QED
      BY <1>1, <3>1, <3>2, <3>3
  <2>3. i <= Len(line) \/ i > Len(line)
    BY <1>1, <1>3, <1>4
  <2> QED
    BY <2>1, <2>2, <2>3
<1>6. bytes[Len(bytes)] = buffer[take]
  <2>1. /\ Len(bytes) \in 1 .. Len(line) + take /\ ~ (Len(bytes) <= Len(line))
        /\ Len(bytes) - Len(line) = take /\ take \in 1 .. take
    BY <1>1, <1>3, <1>4
  <2>2. bytes[Len(bytes)] = piece[take]
    BY <1>4, <2>1
  <2> QED
    BY <1>2, <2>1, <2>2
<1>7. bytes \o rest = line \o buffer
  <2>1. (line \o piece) \o rest = line \o (piece \o rest)
    <3>1. line \in Seq(Byte) /\ piece \in Seq(Byte) /\ rest \in Seq(Byte)
      BY <1>1, <1>2
    <3> QED
      BY <3>1, JoinAssociates
  <2>2. bytes = line \o piece
    BY DEF piece
  <2>3. piece \o rest = buffer
    BY <1>2
  <2> QED
    BY <2>1, <2>2, <2>3
<1>8. rest \in Seq(Byte) /\ take \in Nat \ {0}
  <2>1. take \in Nat \ {0}
    BY <1>1, <1>3
  <2> QED
    BY <1>2, <2>1
<1>9. bytes \in Seq(Byte) /\ Len(bytes) = Len(line) + take
  BY <1>4
<1> QED
  BY <1>3, <1>5, <1>6, <1>7, <1>8, <1>9

(* The piece is taken: the call returns the line, or holds the piece. *)
LEMMA TakeInv ==
  ASSUME IInv, Take
  PROVE  IInv'
<1> DEFINE bytes == line \o SubSeq(buffer, 1, take)
           rest == SubSeq(buffer, take + 1, Len(buffer))
<1>1. TypeOK /\ pc = "take" /\ buffer' = rest /\ UNCHANGED <<end, sent, errno>>
  BY DEF IInv, Take
<1>2. /\ bytes \in Seq(Byte) /\ rest \in Seq(Byte)
      /\ bytes \o rest = line \o buffer
      /\ Len(bytes) = Len(line) + take /\ Len(line) \in Nat /\ take \in Nat \ {0}
      /\ \A i \in 1 .. (Len(bytes) - 1) : bytes[i] # "\n"
      /\ bytes[Len(bytes)] = buffer[take]
  BY <1>1, TakenGives
<1>3. size \in Int /\ asked \in Int /\ (size > 0 => take <= size)
  BY <1>1 DEF IInv, TypeOK, PeekedIsThere
<1>4. IF asked > 0 THEN size > 0 /\ Len(line) + size = asked ELSE size < 0 /\ size = asked
  BY <1>1 DEF IInv, TypeOK, SizeIsLeft, PeekedIsThere
<1>5. CASE buffer[take] = "\n" \/ Left(take) = 0
  <2>1. Return(1, bytes)
    BY <1>5 DEF Take
  <2> HIDE DEF bytes, rest
  <2>2. bytes # <<>>
    BY <1>2, EmptySeq
  <2>3. asked > 0 => Len(bytes) <= asked
    BY <1>2, <1>3, <1>4
  <2>4. end' \in {"open", "reset", "closed"} /\ errno' \in Errno
    BY <1>1 DEF TypeOK
  <2>5. buffer' \in Seq(Byte) /\ bytes \o buffer' = line \o buffer /\ sent' = sent
    BY <1>1, <1>2
  <2>6. bytes \in Seq(Byte) /\ \A i \in 1 .. (Len(bytes) - 1) : bytes[i] # "\n"
    BY <1>2
  <2>7. 1 # -2
    OBVIOUS
  <2> QED
    BY <2>1, <2>2, <2>3, <2>4, <2>5, <2>6, <2>7, ReturnInv
<1>6. CASE ~ (buffer[take] = "\n" \/ Left(take) = 0)
  <2>1. /\ line' = bytes /\ size' = Left(take) /\ take' = 0 /\ Loop(TimeLeft)
        /\ UNCHANGED <<asked, left, due, answer, returned>>
    BY <1>6 DEF Take
  <2> HIDE DEF bytes, rest
  <2>2. timeout' \in Int /\ wait' \in Nat /\ pc' \in {"poll", "peek"}
    BY <1>1, <2>1, TimeLeftType, LoopType
  <2>3. Left(take) \in Int /\ (size > 0 => Left(take) = size - take) /\ (size < 0 => Left(take) = size)
    BY <1>2, <1>3 DEF Left
  <2>4. TypeOK'
    BY <1>1, <1>2, <2>1, <2>2, <2>3 DEF TypeOK
  <2>5. SizeIsLeft'
    <3>0. Left(take) # 0 /\ Len(line') = Len(line) + take /\ size' = Left(take) /\ asked' = asked
      BY <1>2, <1>6, <2>1
    <3>1. asked > 0 => Left(take) > 0 /\ (Len(line) + take) + Left(take) = asked
      <4>1. /\ Len(line) \in Nat /\ take \in Nat \ {0} /\ size \in Int /\ asked \in Int
            /\ Left(take) \in Int
        BY <1>2, <1>3, <2>3
      <4> QED
        BY <1>3, <1>4, <2>3, <3>0, <4>1
    <3>2. ~ (asked > 0) => size' = asked /\ asked # 0
      BY <1>3, <1>4, <2>1, <2>3
    <3> QED
      BY <2>2, <3>0, <3>1, <3>2 DEF SizeIsLeft
  <2>6. HeldHasNoNewline'
    <3>1. \A i \in 1 .. Len(bytes) : bytes[i] # "\n"
      BY <1>2, <1>6
    <3> QED
      BY <2>1, <3>1 DEF HeldHasNoNewline
  <2>7. StreamIntact'
    <3>1. returned \in Seq(Byte) /\ line \in Seq(Byte) /\ buffer \in Seq(Byte)
      BY <1>1 DEF TypeOK
    <3>2. (returned \o bytes) \o rest = returned \o (bytes \o rest)
      BY <1>2, <3>1, JoinAssociates
    <3>3. returned \o (line \o buffer) = (returned \o line) \o buffer
      BY <3>1, JoinAssociates
    <3> QED
      BY <1>1, <1>2, <2>1, <3>2, <3>3 DEF IInv, StreamIntact
  <2>8. LinesAreLines'
    BY <2>1 DEF IInv, LinesAreLines
  <2>9. ClosedMeansDrained'
    <3>1. ASSUME answer.kind = "closed", answer.asked # 0 PROVE FALSE
      <4>1. buffer = <<>> /\ take \in 1 .. Len(buffer)
        BY <1>1, <3>1 DEF IInv, ClosedMeansDrained, PeekedIsThere
      <4> QED
        BY <4>1, EmptySeq
    <3> QED
      BY <2>1, <3>1 DEF ClosedMeansDrained
  <2> QED
    BY <2>2, <2>4, <2>5, <2>6, <2>7, <2>8, <2>9 DEF IInv, PeekedIsThere
<1> QED
  BY <1>5, <1>6

-----------------------------------------------------------------------------
(* The theorems. *)

(* The inductive invariant holds in every state of every call: no way out of *)
(* the loop of sockobj_readline loses a byte or ends a line too late.        *)
THEOREM InductiveInvariant == Spec => []IInv
<1>1. ASSUME IInv, [Next]_vars PROVE IInv'
  <2>1. ASSUME NEW n \in Sizes, NEW t \in Timeouts, ReadLine(n, t) PROVE IInv'
    BY <1>1, <2>1, ReadLineInv
  <2>2. CASE Step
    BY <1>1, <2>2, PollReadyInv, PollTimesOutInv, PollInterruptedInv, PeekInputInv, PeekEndInv,
       PeekResetInv, PeekNothingInv, TakeInv DEF Step
  <2>3. ASSUME NEW b \in Byte, Send(b) PROVE IInv'
    BY <1>1, <2>3, SendInv
  <2>4. ASSUME NEW how \in {"reset", "closed"}, Close(how) PROVE IInv'
    BY <1>1, <2>4, CloseInv
  <2>5. ASSUME NEW e \in Leftover, OtherCall(e) PROVE IInv'
    BY <1>1, <2>5, OtherCallInv
  <2>6. CASE Tick
    BY <1>1, <2>6, TickInv
  <2>7. CASE UNCHANGED vars
    BY <1>1, <2>7 DEF vars, peerVars, callVars, IInv, TypeOK, StreamIntact, LinesAreLines,
       ClosedMeansDrained, HeldHasNoNewline, SizeIsLeft, PeekedIsThere
  <2> QED
    BY <1>1, <2>1, <2>2, <2>3, <2>4, <2>5, <2>6, <2>7 DEF Next
<1> QED
  BY <1>1, InitInv, PTL DEF Spec

(* The variables keep their types, whatever the peer sends. *)
THEOREM TypeCorrect == Spec => []TypeOK
<1>1. IInv => TypeOK
  BY DEF IInv
<1> QED
  BY <1>1, InductiveInvariant, PTL

(* readline hands over every byte it takes from the socket, in order. *)
THEOREM StreamCorrect == Spec => []StreamIntact
<1>1. IInv => StreamIntact
  BY DEF IInv
<1> QED
  BY <1>1, InductiveInvariant, PTL

(* A line that readline returns ends at its first newline and has at most    *)
(* the size that was asked for.                                              *)
THEOREM LinesCorrect == Spec => []LinesAreLines
<1>1. IInv => LinesAreLines
  BY DEF IInv
<1> QED
  BY <1>1, InductiveInvariant, PTL

(* readline says that the peer closed only when the input is used up, or to  *)
(* a call that asked for no byte.                                            *)
THEOREM ClosedCorrect == Spec => []ClosedMeansDrained
<1>1. IInv => ClosedMeansDrained
  BY DEF IInv
<1> QED
  BY <1>1, InductiveInvariant, PTL

-----------------------------------------------------------------------------
(* How long a call waits. *)

(* A timeout that is a whole number of seconds, or not positive: the ones    *)
(* time_add does not round.                                                  *)
WholeSeconds == \A t \in Timeouts : t > 0 => t % Second = 0

(* The next poll of a call waits for no longer than what is left. *)
LEMMA LoopWaits ==
  ASSUME TypeOK, Loop(TimeLeft), left <= due, left' = left, due' = due
  PROVE  DeadlineIsDue'
BY DEF TypeOK, Loop, TimeLeft, DeadlineIsDue, WaitsNoLonger

(* A call that has returned waits for nothing. *)
LEMMA ReturnWaits ==
  ASSUME NEW ret, NEW bytes, Return(ret, bytes)
  PROVE  DeadlineIsDue'
BY DEF Return, DeadlineIsDue, WaitsNoLonger

(* The first poll waits for no longer than the caller said. *)
LEMMA ReadLineWaits ==
  ASSUME WholeSeconds, NEW n \in Sizes, NEW t \in Timeouts, ReadLine(n, t)
  PROVE  DeadlineIsDue'
<1>1. t \in Int
  BY ReadLineAssumption
<1>2. CASE t > 0
  <2>1. Deadline(t) = t
    BY <1>1, <1>2, DeadlineExact DEF WholeSeconds
  <2> QED
    BY <1>1, <1>2, <2>1 DEF ReadLine, Loop, DeadlineIsDue, WaitsNoLonger
<1>3. CASE t <= 0
  <2>1. Deadline(t) = 0
    BY <1>3 DEF Deadline
  <2> QED
    BY <1>1, <1>3, <2>1 DEF ReadLine, Loop, DeadlineIsDue, WaitsNoLonger
<1> QED
  BY <1>1, <1>2, <1>3

(* While the application gives whole seconds, none of the polls of a call    *)
(* waits beyond the time that the caller gave.                               *)
THEOREM WaitsCorrect == WholeSeconds => (Spec => []WaitsNoLonger)
<1> SUFFICES ASSUME WholeSeconds PROVE Spec => []WaitsNoLonger
  OBVIOUS
<1>1. Init => DeadlineIsDue
  BY DEF Init, DeadlineIsDue, WaitsNoLonger
<1>2. ASSUME TypeOK, DeadlineIsDue, [Next]_vars PROVE DeadlineIsDue'
  <2>1. left <= due /\ WaitsNoLonger
    BY <1>2 DEF DeadlineIsDue
  <2>2. ASSUME NEW n \in Sizes, NEW t \in Timeouts, ReadLine(n, t) PROVE DeadlineIsDue'
    BY <2>2, ReadLineWaits
  <2>3. CASE PollReady \/ PeekInput
    BY <2>1, <2>3 DEF PollReady, PeekInput, DeadlineIsDue, WaitsNoLonger
  <2>4. CASE PollTimesOut \/ PollInterrupted \/ PeekReset
    BY <2>4, ReturnWaits DEF PollTimesOut, PollInterrupted, PeekReset
  <2>5. CASE PeekNothing
    BY <1>2, <2>1, <2>5, LoopWaits DEF PeekNothing
  <2>6. CASE PeekEnd
    BY <1>2, <2>1, <2>6, LoopWaits, ReturnWaits DEF PeekEnd
  <2>7. CASE Take
    <3>1. CASE buffer[take] = "\n" \/ Left(take) = 0
      BY <2>7, <3>1, ReturnWaits DEF Take
    <3>2. CASE ~ (buffer[take] = "\n" \/ Left(take) = 0)
      BY <1>2, <2>1, <2>7, <3>2, LoopWaits DEF Take
    <3> QED
      BY <3>1, <3>2
  <2>8. CASE Tick
    BY <1>2, <2>1, <2>8 DEF Tick, TypeOK, DeadlineIsDue, WaitsNoLonger
  <2>9. ASSUME NEW b \in Byte, Send(b) PROVE DeadlineIsDue'
    BY <2>1, <2>9 DEF Send, callVars, DeadlineIsDue, WaitsNoLonger
  <2>10. ASSUME NEW how \in {"reset", "closed"}, Close(how) PROVE DeadlineIsDue'
    BY <2>1, <2>10 DEF Close, callVars, DeadlineIsDue, WaitsNoLonger
  <2>11. ASSUME NEW e \in Leftover, OtherCall(e) PROVE DeadlineIsDue'
    BY <2>1, <2>11 DEF OtherCall, callVars, DeadlineIsDue, WaitsNoLonger
  <2>12. CASE UNCHANGED vars
    BY <2>1, <2>12 DEF vars, callVars, DeadlineIsDue, WaitsNoLonger
  <2> QED
    BY <1>2, <2>2, <2>3, <2>4, <2>5, <2>6, <2>7, <2>8, <2>9, <2>10, <2>11, <2>12 DEF Next, Step
<1>3. DeadlineIsDue => WaitsNoLonger
  BY DEF DeadlineIsDue
<1> QED
  BY <1>1, <1>2, <1>3, TypeCorrect, PTL DEF Spec

=============================================================================
