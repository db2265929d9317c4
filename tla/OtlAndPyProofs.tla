----------------------------- MODULE OtlAndPyProofs -----------------------------
(***************************************************************************)
(* The bindings of BindingParts that count what they hold: the database    *)
(* sessions, and what a step of a cursor, of the connection or of the      *)
(* server keeps; then Python objects and their references.                 *)
(***************************************************************************)
EXTENDS BindingParts, SequenceTheorems, FiniteSetTheorems, WellFoundedInduction, TLAPS

-----------------------------------------------------------------------------
(* Rows, and how often each is kept. *)

(* The bounds of the model. *)
LEMMA Bounds ==
  /\ Width \in Nat /\ Width >= 1 /\ BatchSizes \subseteq Nat \ {0}
  /\ MaxRows \in Nat /\ MaxSessions \in Nat /\ MaxSessions >= 1 /\ MaxFailures \in Nat
  /\ ReportsClosed \in BOOLEAN
BY PartsAssumptions DEF Otl!OtlAssumption

(* The row of one bind. *)
LEMMA WholeRow ==
  ASSUME NEW r \in 1..MaxRows
  PROVE  Otl!Whole(r) \in Otl!AllRows
BY Bounds DEF Otl!Whole, Otl!AllRows

LEMMA WholeOf ==
  ASSUME NEW r, NEW q, Otl!Whole(r) = Otl!Whole(q)
  PROVE  r = q
<1>1. 1 \in 1..Width
  BY Bounds
<1>2. Otl!Whole(r)[1] = r /\ Otl!Whole(q)[1] = q
  BY <1>1 DEF Otl!Whole
<1> QED
  BY <1>2

(* The instance counts as the theorems about finite sets do. *)
LEMMA SameCardinality == \A S : Otl!Cardinality(S) = Cardinality(S)
BY DEF Otl!Cardinality, Cardinality

(* How often rows are in a buffer: a number, which is positive for the rows *)
(* that are there, and one for a row that is there once.                   *)
LEMMA CopiesTyped ==
  ASSUME NEW rows, NEW n \in Nat
  PROVE  /\ Otl!Copies(rows, n) \in [Otl!AllRows -> Nat]
         /\ \A row \in Otl!AllRows : Otl!Copies(rows, n)[row] > 0 <=> \E i \in 1..n : rows[i] = row
<1> SUFFICES ASSUME NEW row \in Otl!AllRows
             PROVE  LET S == {i \in 1..n : rows[i] = row} IN
                    Cardinality(S) \in Nat /\ (Cardinality(S) > 0 <=> \E i \in 1..n : rows[i] = row)
  BY SameCardinality DEF Otl!Copies
<1> DEFINE S == {i \in 1..n : rows[i] = row}
<1>1. IsFiniteSet(S)
  <2>1. IsFiniteSet(1..n)
    BY FS_Interval
  <2> QED
    BY <2>1, FS_Subset
<1>2. Cardinality(S) \in Nat /\ (Cardinality(S) = 0 <=> S = {})
  BY <1>1, FS_CardinalityType, FS_EmptySet
<1> QED
  BY <1>2

LEMMA CopiesOnce ==
  ASSUME NEW rows, NEW n \in Nat, NEW row \in Otl!AllRows,
         \A i, j \in 1..n : rows[i] = row /\ rows[j] = row => i = j
  PROVE  Otl!Copies(rows, n)[row] <= 1
<1> DEFINE S == {i \in 1..n : rows[i] = row}
<1>1. CASE S = {}
  BY <1>1, FS_EmptySet, SameCardinality DEF Otl!Copies
<1>2. CASE S # {}
  <2>1. PICK i \in S : TRUE
    BY <1>2
  <2>2. S = {i}
    BY <2>1
  <2>3. Cardinality({i}) = 1
    BY FS_Singleton
  <2> QED
    BY <2>2, <2>3, SameCardinality DEF Otl!Copies
<1> QED
  BY <1>1, <1>2

(* A step may add rows to the database, and commit them. *)
Grows == \A row \in Otl!AllRows : table'[row] >= table[row]
Adds(rows) == \A row \in Otl!AllRows : Otl!Stored'[row] = Otl!Stored[row] + rows[row]
Commits(rows) == \A row \in Otl!AllRows : table'[row] >= rows[row]

(* What the database has after rows arrived. *)
LEMMA StoreTyped ==
  ASSUME pending \in [Otl!AllRows -> Nat], table \in [Otl!AllRows -> Nat],
         NEW rows \in [Otl!AllRows -> Nat], NEW commits \in BOOLEAN, Otl!Store(rows, commits)
  PROVE  /\ pending' \in [Otl!AllRows -> Nat] /\ table' \in [Otl!AllRows -> Nat]
         /\ Otl!Stored \in [Otl!AllRows -> Nat] /\ Otl!Stored' \in [Otl!AllRows -> Nat]
         /\ Adds(rows) /\ Grows /\ (commits => Commits(rows))
<1>1. CASE commits
  BY <1>1 DEF Adds, Grows, Commits, Otl!Store, Otl!Stored, Otl!And, Otl!NoRows
<1>2. CASE ~commits
  BY <1>2 DEF Adds, Grows, Otl!Store, Otl!Stored, Otl!And, Otl!NoRows
<1> QED
  BY <1>1, <1>2

LEMMA UndoTyped ==
  ASSUME pending \in [Otl!AllRows -> Nat], table \in [Otl!AllRows -> Nat], Otl!Undo
  PROVE  /\ pending' \in [Otl!AllRows -> Nat] /\ table' = table /\ confirmed' \subseteq confirmed
         /\ Otl!Stored \in [Otl!AllRows -> Nat] /\ Otl!Stored' \in [Otl!AllRows -> Nat]
         /\ \A row \in Otl!AllRows : Otl!Stored'[row] <= Otl!Stored[row]
BY DEF Otl!Undo, Otl!Stored, Otl!And, Otl!NoRows

LEMMA NothingArrives == Otl!NoRows \in [Otl!AllRows -> Nat] /\ \A row \in Otl!AllRows : Otl!NoRows[row] = 0
BY DEF Otl!NoRows

-----------------------------------------------------------------------------
(* What a flush may leave. *)

(* A buffer that keeps what it had, without becoming executable, or is empty. *)
Drops(s, of) ==
  \/ s.rows = of.rows /\ s.part = of.part /\ (Otl!Executable(s) => Otl!Executable(of))
  \/ Otl!IsEmpty(s)

SameCursor(s, of) == s.kind = of.kind /\ s.session = of.session /\ s.size = of.size

(* Rows reach the database from a stream that executes; they leave its     *)
(* buffer, or an error is reported.                                        *)
Sound(o, s) ==
  /\ o.stream \in Otl!Streams /\ SameCursor(o.stream, s) /\ Drops(o.stream, s)
  /\ o.ok \in BOOLEAN /\ o.commits \in BOOLEAN /\ o.throws \in BOOLEAN
  /\ o.rows \in [Otl!AllRows -> Nat]
  /\ \/ o.rows = Otl!NoRows
     \/ Otl!Executable(s) /\ connOk /\ \E k \in 0 .. Len(s.rows) : o.rows = Otl!Copies(s.rows, k)
  /\ o.rows = Otl!NoRows \/ ~Otl!Executable(o.stream) \/ Otl!IsEmpty(o.stream) \/ ~o.ok
  /\ Otl!Executable(o.stream) => o.stream.part = <<>>
  /\ ~o.throws => /\ Otl!Executable(o.stream) <=> Otl!Executable(s)
                  /\ Otl!Executable(s) => Otl!IsEmpty(o.stream)
                  /\ connOk => o.ok
  /\ ~o.throws /\ Otl!Executable(s) /\ connOk =>
       /\ Otl!IsEmpty(s) \/ (o.commits /\ o.rows = Otl!Copies(s.rows, Len(s.rows)))

(* An emptied stream. *)
LEMMA EmptiedTyped ==
  ASSUME NEW s \in Otl!Streams
  PROVE  /\ Otl!Emptied(s) \in Otl!Streams /\ Otl!IsEmpty(Otl!Emptied(s)) /\ SameCursor(Otl!Emptied(s), s)
         /\ Otl!Emptied(s).ok = s.ok /\ Otl!Emptied(s).flagged = s.flagged
<1>1. <<>> \in Seq(Otl!AllRows) /\ <<>> \in Seq(1..MaxRows)
  OBVIOUS
<1> QED
  BY <1>1 DEF Otl!Emptied, Otl!IsEmpty, Otl!Streams, SameCursor

(* What a stream executes. *)
LEMMA ExecutedSound ==
  ASSUME NEW s \in Otl!Streams, autoCommit \in BOOLEAN, connOk = TRUE,
         Otl!Executable(s), s.part = <<>>, NEW o \in Otl!Executed(s)
  PROVE  Sound(o, s)
<1>1. Len(s.rows) \in Nat
  BY DEF Otl!Streams
<1>2. \A k \in 0 .. Len(s.rows) : Otl!Copies(s.rows, k) \in [Otl!AllRows -> Nat]
  BY <1>1, CopiesTyped
<1>3. CASE o = Otl!Outcome(Otl!Emptied(s), TRUE, Otl!Copies(s.rows, Len(s.rows)), TRUE, FALSE)
  BY <1>1, <1>2, <1>3, EmptiedTyped DEF Sound, Drops, Otl!Outcome, Otl!IsEmpty, Otl!Executable
<1>4. CASE o = Otl!Outcome(s, FALSE, Otl!Copies(s.rows, Len(s.rows)), autoCommit, TRUE)
  BY <1>1, <1>2, <1>4 DEF Sound, SameCursor, Drops, Otl!Outcome, Otl!Executable
<1>5. ASSUME NEW k \in 0 .. Len(s.rows),
             o = Otl!Outcome([s EXCEPT !.ok = FALSE], connOk, Otl!Copies(s.rows, k), autoCommit, TRUE)
      PROVE  Sound(o, s)
  BY <1>1, <1>2, <1>5 DEF Sound, SameCursor, Drops, Otl!Outcome, Otl!Streams, Otl!Executable
<1> DEFINE failed(k) ==
             Otl!Outcome([s EXCEPT !.ok = FALSE], connOk, Otl!Copies(s.rows, k), autoCommit, TRUE)
<1>6. \/ o = Otl!Outcome(Otl!Emptied(s), TRUE, Otl!Copies(s.rows, Len(s.rows)), TRUE, FALSE)
      \/ o = Otl!Outcome(s, FALSE, Otl!Copies(s.rows, Len(s.rows)), autoCommit, TRUE)
      \/ \E k \in 0 .. Len(s.rows) : o = failed(k)
  <2>1. CASE Otl!Answers(s)
    <3>1. o \in {Otl!Outcome(Otl!Emptied(s), TRUE, Otl!Copies(s.rows, Len(s.rows)), TRUE, FALSE),
                 Otl!Outcome(s, FALSE, Otl!Copies(s.rows, Len(s.rows)), autoCommit, TRUE)}
               \cup {failed(k) : k \in 0 .. Len(s.rows) - 1}
      BY <2>1 DEF Otl!Executed
    <3>2. \A k \in 0 .. Len(s.rows) - 1 : k \in 0 .. Len(s.rows)
      BY <1>1
    <3> QED
      BY <3>1, <3>2, Zenon
  <2>2. CASE ~Otl!Answers(s)
    <3>1. o \in {failed(0)}
      BY <2>2 DEF Otl!Executed
    <3>2. 0 \in 0 .. Len(s.rows)
      BY <1>1
    <3> QED
      BY <3>1, <3>2, Zenon
  <2> QED
    BY <2>1, <2>2
<1> QED
  BY <1>3, <1>4, <1>5, <1>6

(* What a flush does. *)
LEMMA FlushedSound ==
  ASSUME NEW s \in Otl!Streams, autoCommit \in BOOLEAN, connOk \in BOOLEAN, NEW o \in Otl!Flushed(s)
  PROVE  Sound(o, s)
<1>1. CASE Otl!IsEmpty(s) \/ s.flagged
  <2>1. o = Otl!Outcome(s, connOk, Otl!NoRows, FALSE, FALSE)
    BY <1>1 DEF Otl!Flushed
  <2> QED
    BY <1>1, <2>1, NothingArrives DEF Sound, SameCursor, Drops, Otl!Outcome, Otl!IsEmpty, Otl!Executable
<1>2. CASE ~Otl!IsEmpty(s) /\ ~s.flagged /\ ~(s.ok /\ connOk)
  <2>1. o = Otl!Outcome(Otl!Emptied(s), connOk, Otl!NoRows, FALSE, FALSE)
    BY <1>2 DEF Otl!Flushed
  <2> QED
    BY <1>2, <2>1, NothingArrives, EmptiedTyped DEF Sound, Drops, Otl!Outcome, Otl!IsEmpty, Otl!Executable
<1>3. CASE ~Otl!IsEmpty(s) /\ ~s.flagged /\ s.ok /\ connOk /\ s.part # <<>>
  <2>1. o = Otl!Outcome([s EXCEPT !.flagged = TRUE], connOk, Otl!NoRows, FALSE, TRUE)
    BY <1>3 DEF Otl!Flushed
  <2> QED
    BY <1>3, <2>1, NothingArrives
    DEF Sound, SameCursor, Drops, Otl!Outcome, Otl!Streams, Otl!Executable
<1>4. CASE ~Otl!IsEmpty(s) /\ ~s.flagged /\ s.ok /\ connOk /\ s.part = <<>>
  <2>1. o \in Otl!Executed(s)
    BY <1>4 DEF Otl!Flushed
  <2> QED
    BY <1>4, <2>1, ExecutedSound DEF Otl!Executable
<1> QED
  BY <1>1, <1>2, <1>3, <1>4

-----------------------------------------------------------------------------
(* What the database has after a flush. *)

(* Each row of a bind is stored once, or is at one place in one buffer. *)
AtOnePlace(s, r) ==
  \A i, j \in 1..Len(s.rows) : s.rows[i] = Otl!Whole(r) /\ s.rows[j] = Otl!Whole(r) => i = j
InBuffer(s, r) == Otl!Executable(s) /\ Otl!Keeps(s, r)
Once(st, db) ==
  \A r \in 1..MaxRows :
    /\ db[Otl!Whole(r)] <= 1
    /\ \A c \in Cursors : InBuffer(st[c], r) =>
         /\ db[Otl!Whole(r)] = 0 /\ AtOnePlace(st[c], r)
         /\ \A d \in Cursors : InBuffer(st[d], r) => c = d

LEMMA KeptOnceIsOnce == Otl!KeptOnce <=> (failures = 0 => Once(stream, Otl!Stored))
BY DEF Otl!KeptOnce, Once, InBuffer, AtOnePlace, Otl!Times

(* A stream that drops rows keeps no others. *)
LEMMA DropsKeeps ==
  ASSUME NEW s, NEW of, Drops(s, of), NEW r
  PROVE  /\ Otl!Keeps(s, r) => Otl!Keeps(of, r)
         /\ InBuffer(s, r) => InBuffer(of, r)
         /\ AtOnePlace(of, r) => AtOnePlace(s, r)
         /\ Otl!IsEmpty(s) => ~Otl!Keeps(s, r)
BY DEF Drops, Otl!IsEmpty, Otl!Keeps, InBuffer, AtOnePlace

(* A flush moves rows from a buffer to the database. *)
LEMMA OnceMoves ==
  ASSUME Once(stream, Otl!Stored), stream \in [Cursors -> Otl!Streams],
         Otl!Stored \in [Otl!AllRows -> Nat], NEW c \in Cursors, NEW o, Sound(o, stream[c]), o.ok \/ ~connOk,
         NEW db \in [Otl!AllRows -> Nat], \A row \in Otl!AllRows : db[row] = Otl!Stored[row] + o.rows[row]
  PROVE  Once([stream EXCEPT ![c] = o.stream], db)
<1> DEFINE st == [stream EXCEPT ![c] = o.stream]
<1>1. \A d \in Cursors : Drops(st[d], stream[d])
  BY DEF Sound, Drops
<1>2. SUFFICES ASSUME NEW r \in 1..MaxRows
               PROVE  /\ db[Otl!Whole(r)] <= 1
                      /\ \A d \in Cursors : InBuffer(st[d], r) =>
                           /\ db[Otl!Whole(r)] = 0 /\ AtOnePlace(st[d], r)
                           /\ \A e \in Cursors : InBuffer(st[e], r) => d = e
  BY DEF Once
<1> DEFINE row == Otl!Whole(r)
<1>3. row \in Otl!AllRows
  BY WholeRow
<1>4. /\ \A d \in Cursors : InBuffer(st[d], r) => InBuffer(stream[d], r)
      /\ \A d \in Cursors : AtOnePlace(stream[d], r) => AtOnePlace(st[d], r)
  BY <1>1, DropsKeeps
<1>5. /\ Otl!Stored[row] <= 1
      /\ \A d \in Cursors : InBuffer(stream[d], r) =>
           /\ Otl!Stored[row] = 0 /\ AtOnePlace(stream[d], r)
           /\ \A e \in Cursors : InBuffer(stream[e], r) => d = e
  BY DEF Once
<1>6. CASE o.rows[row] = 0
  <2>1. db[row] = Otl!Stored[row]
    BY <1>3, <1>6
  <2> QED
    BY <2>1, <1>4, <1>5
<1>7. CASE o.rows[row] # 0
  <2>1. o.rows # Otl!NoRows
    BY <1>3, <1>7, NothingArrives
  <2>2. PICK k \in 0 .. Len(stream[c].rows) : o.rows = Otl!Copies(stream[c].rows, k)
    BY <2>1 DEF Sound
  <2>3. Otl!Executable(stream[c]) /\ connOk /\ k \in Nat /\ Len(stream[c].rows) \in Nat
    BY <2>1 DEF Sound, Otl!Streams
  <2>4. PICK i \in 1..k : stream[c].rows[i] = row
    <3>1. o.rows[row] > 0
      BY <1>3, <1>7 DEF Sound
    <3> QED
      BY <3>1, <2>2, <2>3, <1>3, CopiesTyped
  <2>5. InBuffer(stream[c], r)
    BY <2>3, <2>4 DEF InBuffer, Otl!Keeps
  <2>6. o.rows[row] <= 1
    <3>1. \A i_1, j \in 1..k : stream[c].rows[i_1] = row /\ stream[c].rows[j] = row => i_1 = j
      BY <2>3, <2>5, <1>5 DEF AtOnePlace
    <3> QED
      BY <3>1, <2>2, <2>3, <1>3, CopiesOnce
  <2>7. ~InBuffer(o.stream, r)
    BY <2>1, <2>3, DropsKeeps DEF Sound, InBuffer
  <2>8. \A d \in Cursors : ~InBuffer(st[d], r)
    BY <2>5, <2>7, <1>4, <1>5
  <2>9. db[row] = o.rows[row]
    BY <2>5, <1>3, <1>5 DEF Sound
  <2> QED
    BY <2>6, <2>8, <2>9
<1> QED
  BY <1>6, <1>7

(* Each row that the database has after a step was there, or in a buffer   *)
(* that executes.                                                          *)
Sourced ==
  \A row \in Otl!AllRows : Otl!Stored'[row] > 0 =>
    \/ Otl!Stored[row] > 0
    \/ \E c \in Cursors : Otl!Executable(stream[c]) /\ \E i \in 1..Len(stream[c].rows) : stream[c].rows[i] = row

(* Whatever a flush does, the database and the buffers agree. *)
LEMMA FlushKeeps ==
  ASSUME Otl!IInv, NEW c \in Cursors, NEW o \in Otl!Flushed(stream[c]), Otl!Apply(o)
  PROVE  /\ Sound(o, stream[c])
         /\ pending' \in [Otl!AllRows -> Nat] /\ table' \in [Otl!AllRows -> Nat] /\ Grows
         /\ connOk' = o.ok /\ failures' \in 0..MaxFailures /\ failures' >= failures
         /\ Sourced
         /\ failures' = 0 => Once([stream EXCEPT ![c] = o.stream], Otl!Stored')
         /\ ~o.throws /\ Otl!Executable(stream[c]) /\ connOk =>
              \A r \in 1..MaxRows : Otl!Keeps(stream[c], r) => table'[Otl!Whole(r)] > 0
<1>1. /\ stream \in [Cursors -> Otl!Streams] /\ autoCommit \in BOOLEAN /\ connOk \in BOOLEAN
      /\ pending \in [Otl!AllRows -> Nat] /\ table \in [Otl!AllRows -> Nat]
      /\ failures \in 0..MaxFailures
  BY DEF Otl!IInv, Otl!TypeOK
<1>2. Sound(o, stream[c])
  BY <1>1, FlushedSound
<1>3. o.rows \in [Otl!AllRows -> Nat] /\ o.commits \in BOOLEAN /\ o.ok \in BOOLEAN
  BY <1>2 DEF Sound
<1>4. Otl!Store(o.rows, o.commits)
  BY DEF Otl!Apply
<1>5. /\ pending' \in [Otl!AllRows -> Nat] /\ table' \in [Otl!AllRows -> Nat]
      /\ Otl!Stored \in [Otl!AllRows -> Nat] /\ Otl!Stored' \in [Otl!AllRows -> Nat]
      /\ Adds(o.rows) /\ Grows /\ (o.commits => Commits(o.rows))
  BY <1>1, <1>3, <1>4, StoreTyped
<1>6. connOk' = o.ok /\ failures' \in 0..MaxFailures /\ failures' >= failures
      /\ (failures' = 0 => failures = 0 /\ (o.ok \/ ~connOk))
  BY <1>1, <1>3, Bounds DEF Otl!Apply
<1>7. \A k \in 0 .. Len(stream[c].rows) : \A row \in Otl!AllRows :
        Otl!Copies(stream[c].rows, k)[row] > 0 => \E i \in 1..Len(stream[c].rows) : stream[c].rows[i] = row
  <2>1. Len(stream[c].rows) \in Nat
    BY <1>1 DEF Otl!Streams
  <2> QED
    BY <2>1, CopiesTyped
<1>8. ASSUME NEW row \in Otl!AllRows, Otl!Stored'[row] > 0
      PROVE  \/ Otl!Stored[row] > 0
             \/ Otl!Executable(stream[c]) /\ \E i \in 1..Len(stream[c].rows) : stream[c].rows[i] = row
  <2>1. CASE o.rows = Otl!NoRows
    BY <2>1, <1>5, <1>8, NothingArrives DEF Adds
  <2>2. CASE o.rows # Otl!NoRows
    <3>1. PICK k \in 0 .. Len(stream[c].rows) : o.rows = Otl!Copies(stream[c].rows, k)
      BY <2>2, <1>2 DEF Sound
    <3>2. Otl!Executable(stream[c])
      BY <2>2, <1>2 DEF Sound
    <3>3. CASE Otl!Stored[row] > 0
      BY <3>3
    <3>4. CASE ~(Otl!Stored[row] > 0)
      <4>1. o.rows[row] > 0
        BY <3>4, <1>5, <1>3, <1>8 DEF Adds
      <4> QED
        BY <4>1, <3>1, <3>2, <1>7
    <3> QED
      BY <3>3, <3>4
  <2> QED
    BY <2>1, <2>2
<1>9. failures' = 0 => Once([stream EXCEPT ![c] = o.stream], Otl!Stored')
  <2>1. failures = 0 => Once(stream, Otl!Stored)
    BY KeptOnceIsOnce DEF Otl!IInv
  <2> DEFINE db == Otl!Stored'
  <2>2. db \in [Otl!AllRows -> Nat] /\ \A row \in Otl!AllRows : db[row] = Otl!Stored[row] + o.rows[row]
    BY <1>5 DEF Adds
  <2> HIDE DEF db
  <2>3. failures' = 0 => Once([stream EXCEPT ![c] = o.stream], db)
    BY <2>1, <2>2, <1>1, <1>2, <1>5, <1>6, OnceMoves
  <2> QED
    BY <2>3 DEF db
<1>10. ASSUME ~o.throws, Otl!Executable(stream[c]), connOk, NEW r \in 1..MaxRows, Otl!Keeps(stream[c], r)
       PROVE  table'[Otl!Whole(r)] > 0
  <2>1. ~Otl!IsEmpty(stream[c])
    BY <1>10 DEF Otl!IsEmpty, Otl!Keeps
  <2>2. o.commits /\ o.rows = Otl!Copies(stream[c].rows, Len(stream[c].rows))
    BY <2>1, <1>2, <1>10 DEF Sound
  <2>3. Otl!Whole(r) \in Otl!AllRows /\ Len(stream[c].rows) \in Nat
    BY <1>1, WholeRow DEF Otl!Streams
  <2>4. o.rows[Otl!Whole(r)] > 0
    BY <2>2, <2>3, <1>10, CopiesTyped DEF Otl!Keeps
  <2> QED
    BY <2>2, <2>3, <2>4, <1>3, <1>5 DEF Commits
<1> QED
  BY <1>2, <1>5, <1>6, <1>8, <1>9, <1>10 DEF Sourced

-----------------------------------------------------------------------------
(* Steps that write no value. *)

(* What the database has is a number of each row. *)
LEMMA StoredTyped ==
  /\ Otl!TypeOK => Otl!Stored \in [Otl!AllRows -> Nat]
  /\ Otl!TypeOK' => Otl!Stored' \in [Otl!AllRows -> Nat]
BY DEF Otl!TypeOK, Otl!Stored, Otl!And

(* A call of bind that is under way. *)
LEMMA CallTyped ==
  ASSUME Otl!TypeOK, ~Otl!Idle
  PROVE  /\ call \in [cursor : Cursors, row : 1..binds, done : 0..Width, check : BOOLEAN]
         /\ call.cursor \in Cursors /\ call.row \in 1..binds /\ call.row \in 1..MaxRows
         /\ call.done \in 0..Width /\ call.check \in BOOLEAN
<1>1. /\ call \in [cursor : Cursors, row : 1..binds, done : 0..Width, check : BOOLEAN]
      /\ binds \in 0..MaxRows
  BY DEF Otl!TypeOK, Otl!Idle
<1>2. call.row \in 1..MaxRows
  BY <1>1, Bounds
<1> QED
  BY <1>1, <1>2

(* The call goes on with the same row, or there is none. *)
SameCall ==
  \/ call' = call \/ call' = Otl!NoCall
  \/ ~Otl!Idle /\ call' = [call EXCEPT !.check = FALSE]

LEMMA SameCallKeeps ==
  ASSUME Otl!TypeOK, SameCall, binds' = binds
  PROVE  /\ \A r : Otl!Incomplete(r)' => Otl!Incomplete(r)
         /\ ~Otl!Idle' => ~Otl!Idle /\ call'.row = call.row /\ call'.done = call.done /\ call'.cursor = call.cursor
         /\ \A c : Otl!Binding(c)' => Otl!Binding(c)
<1>1. ASSUME call' = call
      PROVE  /\ \A r : Otl!Incomplete(r)' => Otl!Incomplete(r)
             /\ ~Otl!Idle' => ~Otl!Idle /\ call'.row = call.row /\ call'.done = call.done /\ call'.cursor = call.cursor
             /\ \A c : Otl!Binding(c)' => Otl!Binding(c)
  BY <1>1 DEF Otl!Incomplete, Otl!Idle, Otl!Binding, Otl!NoCall
<1>2. ASSUME call' = Otl!NoCall
      PROVE  (\A r : Otl!Incomplete(r)' => Otl!Incomplete(r)) /\ Otl!Idle' /\ (\A c : ~Otl!Binding(c)')
  BY <1>2 DEF Otl!Incomplete, Otl!Idle, Otl!Binding, Otl!NoCall
<1>3. ASSUME ~Otl!Idle, call' = [call EXCEPT !.check = FALSE]
      PROVE  /\ \A r : Otl!Incomplete(r)' => Otl!Incomplete(r)
             /\ ~Otl!Idle /\ call'.row = call.row /\ call'.done = call.done /\ call'.cursor = call.cursor
             /\ \A c : Otl!Binding(c)' => Otl!Binding(c)
  <2>1. call'.row = call.row /\ call'.done = call.done /\ call'.cursor = call.cursor
    BY <1>3, CallTyped
  <2> QED
    BY <2>1, <1>3 DEF Otl!Incomplete, Otl!Binding
<1> QED
  BY <1>1, <1>2, <1>3 DEF SameCall

(* What a step that writes no value leaves of the buffers and of the call. *)
Dropping ==
  /\ \A c \in Cursors : Drops(stream'[c], stream[c])
  /\ \A c \in Cursors : trouble[c] => trouble'[c] \/ Otl!IsEmpty(stream'[c])
  /\ binds' = binds /\ (raised => raised')
  /\ SameCall /\ Sourced

(* The rows in the database are still whole. *)
LEMMA SourcedWhole ==
  ASSUME Otl!IInv, Sourced, binds' = binds, raised => raised'
  PROVE  Otl!RowsAreWhole'
<1>1. SUFFICES ASSUME ~raised', NEW row \in Otl!AllRows, Otl!Stored'[row] > 0
               PROVE  \E r \in 1..binds : row = Otl!Whole(r)
  BY DEF Otl!RowsAreWhole
<1>2. ~raised
  BY <1>1
<1>3. CASE Otl!Stored[row] > 0
  BY <1>2, <1>3 DEF Otl!IInv, Otl!RowsAreWhole
<1>4. ASSUME NEW c \in Cursors, Otl!Executable(stream[c]),
             NEW i \in 1..Len(stream[c].rows), stream[c].rows[i] = row
      PROVE  \E r \in 1..binds : row = Otl!Whole(r)
  BY <1>2, <1>4 DEF Otl!IInv, Otl!RowsAligned, Otl!HoldsWholeRows
<1> QED
  BY <1>1, <1>3, <1>4 DEF Sourced

(* A buffer that executes still has whole rows. *)
LEMMA DroppingAligned ==
  ASSUME Otl!IInv, Dropping,
         \A c \in Cursors : Otl!Executable(stream'[c]) /\ (~raised' \/ ~trouble'[c]) => Otl!HoldsItsBind(c)'
  PROVE  Otl!RowsAligned'
<1>1. SUFFICES ASSUME NEW c \in Cursors, Otl!Executable(stream'[c]), ~raised' \/ ~trouble'[c]
               PROVE  Otl!HoldsWholeRows(c)'
  BY DEF Otl!RowsAligned
<1>2. CASE Otl!IsEmpty(stream'[c])
  BY <1>2 DEF Otl!IsEmpty, Otl!HoldsWholeRows
<1>3. CASE ~Otl!IsEmpty(stream'[c])
  <2>1. stream'[c].rows = stream[c].rows /\ Otl!Executable(stream[c]) /\ (~raised \/ ~trouble[c])
    BY <1>1, <1>3 DEF Dropping, Drops
  <2>2. Otl!HoldsWholeRows(c)
    BY <2>1 DEF Otl!IInv, Otl!RowsAligned
  <2> QED
    BY <2>1, <2>2 DEF Otl!HoldsWholeRows, Dropping
<1> QED
  BY <1>2, <1>3

(* The row of a bind that is not complete is still nowhere. *)
LEMMA DroppingNotYet ==
  ASSUME Otl!IInv, Otl!TypeOK', Dropping
  PROVE  Otl!NotYetWhole'
<1>1. /\ \A r : Otl!Incomplete(r)' => Otl!Incomplete(r)
      /\ ~Otl!Idle' => ~Otl!Idle /\ call'.row = call.row /\ call'.done = call.done /\ call'.cursor = call.cursor
      /\ \A c : Otl!Binding(c)' => Otl!Binding(c)
  BY SameCallKeeps DEF Otl!IInv, Dropping
<1>2. ASSUME NEW r \in 1..MaxRows, Otl!Incomplete(r)'
      PROVE  Otl!Times(r)' = 0 /\ \A c \in Cursors : ~Otl!Keeps(stream'[c], r)
  <2>1. Otl!Times(r) = 0 /\ \A c \in Cursors : ~Otl!Keeps(stream[c], r)
    BY <1>1, <1>2 DEF Otl!IInv, Otl!NotYetWhole
  <2>2. \A c \in Cursors : ~Otl!Keeps(stream'[c], r)
    BY <2>1, DropsKeeps DEF Dropping
  <2>3. Otl!Whole(r) \in Otl!AllRows
    BY WholeRow
  <2>4. ~(Otl!Stored'[Otl!Whole(r)] > 0)
    BY <2>1, <2>3 DEF Dropping, Sourced, Otl!Keeps, Otl!Times
  <2> QED
    BY <2>2, <2>3, <2>4, StoredTyped DEF Otl!Times
<1>3. ASSUME NEW c \in Cursors, NEW i \in 1..Len(stream'[c].part)
      PROVE  /\ stream'[c].part[i] <= binds'
             /\ ~Otl!Idle' /\ stream'[c].part[i] = call'.row => call'.cursor = c
  <2>1. i \in 1..Len(stream[c].part) /\ stream'[c].part = stream[c].part
    BY <1>3 DEF Dropping, Drops, Otl!IsEmpty
  <2> QED
    BY <1>1, <2>1 DEF Dropping, Otl!IInv, Otl!NotYetWhole
<1>4. ASSUME NEW c \in Cursors, Otl!Binding(c)',
             \A i \in 1..Len(stream'[c].part) : stream'[c].part[i] = call'.row
      PROVE  Len(stream'[c].part) <= call'.done
  <2>1. /\ Otl!Binding(c) /\ ~Otl!Idle' /\ ~Otl!Idle /\ call.done \in Nat
        /\ call'.row = call.row /\ call'.done = call.done
    BY <1>1, <1>4, CallTyped DEF Otl!Binding, Otl!IInv
  <2>2. CASE Otl!IsEmpty(stream'[c])
    BY <2>1, <2>2 DEF Otl!IsEmpty
  <2>3. CASE ~Otl!IsEmpty(stream'[c])
    <3>1. stream'[c].part = stream[c].part
      BY <2>3 DEF Dropping, Drops
    <3> QED
      BY <1>4, <2>1, <3>1 DEF Otl!IInv, Otl!NotYetWhole
  <2> QED
    BY <2>2, <2>3
<1>5. Otl!NotYetWhole' <=>
        /\ \A r \in 1..MaxRows : Otl!Incomplete(r)' =>
             Otl!Times(r)' = 0 /\ \A c \in Cursors : ~Otl!Keeps(stream'[c], r)
        /\ \A c \in Cursors : \A i \in 1..Len(stream'[c].part) :
             stream'[c].part[i] <= binds' /\ (~Otl!Idle' /\ stream'[c].part[i] = call'.row => call'.cursor = c)
        /\ \A c \in Cursors : Otl!Binding(c)' =>
             ((\A i \in 1..Len(stream'[c].part) : stream'[c].part[i] = call'.row)
                => Len(stream'[c].part) <= call'.done)
  BY DEF Otl!NotYetWhole
<1> QED
  BY <1>2, <1>3, <1>4, <1>5

(* A step that writes no value keeps the invariant, as far as the database, *)
(* the buffers and the call go.                                            *)
LEMMA DroppingKeeps ==
  ASSUME Otl!IInv, Otl!TypeOK', Dropping, Otl!StatusMatchesConnection', Otl!BuffersFit',
         failures' = 0 => Once(stream', Otl!Stored'),
         \A c \in Cursors : Otl!Executable(stream'[c]) /\ (~raised' \/ ~trouble'[c]) => Otl!HoldsItsBind(c)',
         Otl!AcceptedIsKept', Otl!ConfirmedIsCommitted'
  PROVE  Otl!IInv'
<1>1. Otl!RowsAreWhole'
  BY SourcedWhole DEF Dropping
<1>2. Otl!RowsAligned'
  BY DroppingAligned
<1>3. Otl!NotYetWhole'
  BY DroppingNotYet
<1>4. Otl!KeptOnce'
  BY DEF Otl!KeptOnce, Once, InBuffer, AtOnePlace, Otl!Times
<1> QED
  BY <1>1, <1>2, <1>3, <1>4 DEF Otl!IInv

-----------------------------------------------------------------------------
(* Steps that leave the buffers and the call as they are. *)

SameBuffer(s, of) ==
  s.rows = of.rows /\ s.part = of.part /\ s.ok = of.ok /\ s.flagged = of.flagged /\ s.size = of.size

Shrinks == \A row \in Otl!AllRows : Otl!Stored'[row] <= Otl!Stored[row]

(* Rows that are committed stay committed. *)
LEMMA GrowsKeeps ==
  ASSUME Otl!TypeOK, Otl!TypeOK', Grows, NEW r \in 1..binds, table[Otl!Whole(r)] > 0
  PROVE  table'[Otl!Whole(r)] > 0
<1>1. /\ table \in [Otl!AllRows -> Nat] /\ table' \in [Otl!AllRows -> Nat]
      /\ r \in 1..MaxRows
  BY Bounds DEF Otl!TypeOK
<1>2. Otl!Whole(r) \in Otl!AllRows
  BY <1>1, WholeRow
<1> QED
  BY <1>1, <1>2 DEF Grows

Quiet ==
  /\ \A c \in Cursors : SameBuffer(stream'[c], stream[c])
  /\ UNCHANGED <<call, binds, raised, accepted>>
  /\ failures' = 0 => failures = 0
  /\ \A c \in Cursors : trouble[c] => trouble'[c]
  /\ Shrinks /\ Grows /\ confirmed' \subseteq confirmed
  /\ ~Otl!Idle => connected'
  /\ \A c \in Cursors : ~trouble'[c] => (connected' => connOk')

LEMMA QuietKeeps ==
  ASSUME Otl!IInv, Otl!TypeOK', Otl!StatusMatchesConnection', Quiet
  PROVE  Otl!IInv'
<1>1. \A c \in Cursors : /\ Otl!Executable(stream'[c]) <=> Otl!Executable(stream[c])
                         /\ Otl!Full(stream'[c]) <=> Otl!Full(stream[c])
                         /\ stream'[c].rows = stream[c].rows /\ stream'[c].part = stream[c].part
                         /\ \A r : Otl!Keeps(stream'[c], r) <=> Otl!Keeps(stream[c], r)
  BY DEF Quiet, SameBuffer, Otl!Executable, Otl!Full, Otl!Keeps
<1>2. Dropping
  <2>1. Sourced
    BY StoredTyped DEF Otl!IInv, Quiet, Shrinks, Sourced
  <2> QED
    BY <1>1, <2>1 DEF Quiet, Dropping, Drops, SameCall
<1>3. Otl!BuffersFit'
  <2>1. ASSUME call.check PROVE Otl!Full(stream'[call.cursor])
    <3>1. ~Otl!Idle
      BY <2>1 DEF Otl!Idle, Otl!NoCall
    <3> QED
      BY <1>1, <2>1, <3>1, CallTyped DEF Otl!IInv, Otl!BuffersFit
  <2>2. ASSUME ~Otl!Idle PROVE stream'[call.cursor].size > 0
    BY <2>2, CallTyped DEF Otl!IInv, Otl!BuffersFit, Quiet, SameBuffer
  <2> QED
    BY <1>1, <2>1, <2>2 DEF Otl!IInv, Otl!BuffersFit, Otl!Idle, Quiet
<1>4. ASSUME failures' = 0 PROVE Once(stream', Otl!Stored')
  <2>1. Once(stream, Otl!Stored)
    BY <1>4, KeptOnceIsOnce DEF Quiet, Otl!IInv
  <2>2. Otl!Stored \in [Otl!AllRows -> Nat] /\ Otl!Stored' \in [Otl!AllRows -> Nat]
    BY StoredTyped DEF Otl!IInv
  <2>3. \A r \in 1..MaxRows : Otl!Stored'[Otl!Whole(r)] <= Otl!Stored[Otl!Whole(r)]
    BY WholeRow DEF Quiet, Shrinks
  <2>4. \A c \in Cursors : \A r : /\ InBuffer(stream'[c], r) <=> InBuffer(stream[c], r)
                                  /\ AtOnePlace(stream'[c], r) <=> AtOnePlace(stream[c], r)
    BY <1>1 DEF InBuffer, AtOnePlace
  <2>5. \A r \in 1..MaxRows : Otl!Stored'[Otl!Whole(r)] \in Nat /\ Otl!Stored[Otl!Whole(r)] \in Nat
    BY <2>2, WholeRow
  <2> QED
    BY <2>1, <2>3, <2>4, <2>5 DEF Once
<1>5. ASSUME NEW c \in Cursors, Otl!Executable(stream'[c]), ~raised' \/ ~trouble'[c]
      PROVE  Otl!HoldsItsBind(c)'
  <2>1. Otl!HoldsItsBind(c)
    BY <1>1, <1>5 DEF Quiet, Otl!IInv, Otl!RowsAligned
  <2> QED
    BY <1>1, <2>1 DEF Quiet, Otl!HoldsItsBind, Otl!Binding, Otl!Idle
<1>6. Otl!AcceptedIsKept'
  <2>1. ~Otl!Idle' => connected'
    BY DEF Quiet, Otl!Idle
  <2>2. \A r \in 1..binds : table[Otl!Whole(r)] > 0 => table'[Otl!Whole(r)] > 0
    BY GrowsKeeps DEF Otl!IInv, Quiet
  <2>3. ASSUME NEW c \in Cursors, ~trouble'[c]
        PROVE  /\ Otl!Executable(stream'[c]) /\ (connected' => connOk')
               /\ \A r \in accepted'[c] : Otl!Kept(c, r)'
               /\ Otl!Binding(c)' /\ call'.done = Width => Otl!Kept(c, call.row)'
    <3>1. /\ Otl!Executable(stream[c])
          /\ \A r \in accepted[c] : Otl!Kept(c, r)
          /\ Otl!Binding(c) /\ call.done = Width => Otl!Kept(c, call.row)
      BY <2>3 DEF Quiet, Otl!IInv, Otl!AcceptedIsKept
    <3>2. \A r \in 1..binds : Otl!Kept(c, r) => Otl!Kept(c, r)'
      BY <1>1, <2>2 DEF Otl!Kept
    <3>3. accepted[c] \in SUBSET (1..binds)
      BY DEF Otl!IInv, Otl!TypeOK
    <3>4. Otl!Binding(c) => call.row \in 1..binds
      BY CallTyped DEF Otl!Binding, Otl!IInv
    <3>5. Otl!Binding(c)' => Otl!Binding(c)
      BY DEF Quiet, Otl!Binding, Otl!Idle
    <3> QED
      BY <1>1, <2>3, <3>1, <3>2, <3>3, <3>4, <3>5 DEF Quiet
  <2> QED
    BY <2>1, <2>3 DEF Otl!AcceptedIsKept, Quiet
<1>7. Otl!ConfirmedIsCommitted'
  BY GrowsKeeps DEF Quiet, Otl!ConfirmedIsCommitted, Otl!IInv, Otl!TypeOK
<1> QED
  BY <1>2, <1>3, <1>4, <1>5, <1>6, <1>7, DroppingKeeps

(* Nothing that was pending is left, or all of it is committed. *)
LEMMA UndoQuiet ==
  ASSUME Otl!TypeOK, Otl!Undo
  PROVE  /\ pending' \in [Otl!AllRows -> Nat] /\ table' \in [Otl!AllRows -> Nat]
         /\ Shrinks /\ Grows /\ confirmed' \subseteq confirmed
<1>1. pending \in [Otl!AllRows -> Nat] /\ table \in [Otl!AllRows -> Nat]
  BY DEF Otl!TypeOK
<1>2. \A row \in Otl!AllRows : table[row] >= table[row]
  BY <1>1
<1> QED
  BY <1>1, <1>2, UndoTyped DEF Shrinks, Grows

LEMMA StoreQuiet ==
  ASSUME Otl!TypeOK, NEW commits \in BOOLEAN, Otl!Store(Otl!NoRows, commits)
  PROVE  /\ pending' \in [Otl!AllRows -> Nat] /\ table' \in [Otl!AllRows -> Nat]
         /\ Shrinks /\ Grows
<1>1. pending \in [Otl!AllRows -> Nat] /\ table \in [Otl!AllRows -> Nat]
  BY DEF Otl!TypeOK
<1>2. /\ pending' \in [Otl!AllRows -> Nat] /\ table' \in [Otl!AllRows -> Nat]
      /\ Otl!Stored \in [Otl!AllRows -> Nat] /\ Otl!Stored' \in [Otl!AllRows -> Nat]
      /\ Adds(Otl!NoRows) /\ Grows
  BY <1>1, NothingArrives, StoreTyped
<1>3. \A row \in Otl!AllRows : Otl!Stored'[row] = Otl!Stored[row]
  BY <1>2, NothingArrives DEF Adds
<1> QED
  BY <1>2, <1>3 DEF Shrinks

LEMMA UnchangedQuiet ==
  ASSUME Otl!TypeOK, UNCHANGED <<pending, table>>
  PROVE  /\ pending' \in [Otl!AllRows -> Nat] /\ table' \in [Otl!AllRows -> Nat]
         /\ Shrinks /\ Grows
BY DEF Otl!TypeOK, Shrinks, Grows, Otl!Stored, Otl!And

(* What a step of the connection may change. *)
ConnectionStep ==
  /\ UNCHANGED <<object, batch, stream, call, binds, raised, accepted>>
  /\ status' \in {-1, 0, 1} /\ session' \in session..MaxSessions
  /\ connected' \in BOOLEAN /\ connOk' \in BOOLEAN /\ autoCommit' \in BOOLEAN /\ alive' \in BOOLEAN
  /\ pending' \in [Otl!AllRows -> Nat] /\ table' \in [Otl!AllRows -> Nat]
  /\ Shrinks /\ Grows /\ confirmed' \subseteq confirmed
  /\ failures' \in failures..MaxFailures /\ trouble' \in [Cursors -> BOOLEAN]
  /\ \A c \in Cursors : trouble[c] => trouble'[c]
  /\ ~Otl!Idle => connected'
  /\ \A c \in Cursors : ~trouble'[c] => (connected' => connOk')
  /\ Otl!StatusMatchesConnection'

LEMMA ConnectionStepKeeps ==
  ASSUME Otl!IInv, ConnectionStep
  PROVE  Otl!IInv'
<1>1. session \in 1..MaxSessions /\ failures \in 0..MaxFailures /\ session' \in Nat /\ failures' \in Nat
      /\ MaxSessions \in Nat /\ MaxFailures \in Nat
  BY Bounds DEF Otl!IInv, Otl!TypeOK, ConnectionStep
<1>2. Otl!TypeOK'
  <2>1. session' \in 1..MaxSessions /\ failures' \in 0..MaxFailures /\ session <= session'
    BY <1>1 DEF ConnectionStep
  <2>2. \A c \in Cursors : stream[c].session <= session'
    <3>1. \A c \in Cursors : stream[c].session \in Nat /\ stream[c].session <= session
      BY DEF Otl!IInv, Otl!TypeOK, Otl!Streams
    <3> QED
      BY <1>1, <2>1, <3>1
  <2> QED
    BY <2>1, <2>2 DEF Otl!IInv, Otl!TypeOK, ConnectionStep
<1>3. Quiet
  BY <1>1 DEF Quiet, SameBuffer, ConnectionStep
<1> QED
  BY <1>2, <1>3, QuietKeeps DEF ConnectionStep

(* The connection is closed, opened again or found broken. *)
LEMMA OpeningKeeps ==
  ASSUME Otl!IInv
  PROVE  /\ Otl!CloseConnect => Otl!IInv'
         /\ Otl!ConnectFails => Otl!IInv'
         /\ \A auto \in BOOLEAN : Otl!Connect(auto) => Otl!IInv'
         /\ Otl!SessionLost => Otl!IInv'
<1>1. Otl!TypeOK /\ Otl!AcceptedIsKept /\ Otl!StatusMatchesConnection
  BY DEF Otl!IInv
<1>2. session \in 1..MaxSessions /\ failures \in 0..MaxFailures /\ trouble \in [Cursors -> BOOLEAN]
      /\ session \in session..MaxSessions /\ failures \in failures..MaxFailures
  BY <1>1, Bounds DEF Otl!TypeOK
<1>3. ASSUME Otl!CloseConnect PROVE Otl!IInv'
  <2>1. status' = 0 /\ connected' = FALSE /\ connOk' \in BOOLEAN
    BY <1>1, <1>3 DEF Otl!CloseConnect, Otl!Closed, Otl!TypeOK
  <2>2. Otl!Undo /\ alive' = FALSE /\ Otl!Idle
    BY <1>3 DEF Otl!CloseConnect, Otl!EndSession
  <2>3. UNCHANGED <<autoCommit, session, object, batch, stream, call, binds, raised, failures, trouble, accepted>>
    BY <1>3 DEF Otl!CloseConnect, Otl!cursorVars
  <2>4. Otl!StatusMatchesConnection' /\ \A c \in Cursors : ~trouble'[c] => (connected' => connOk')
    BY <2>1 DEF Otl!StatusMatchesConnection
  <2>5. /\ pending' \in [Otl!AllRows -> Nat] /\ table' \in [Otl!AllRows -> Nat]
        /\ Shrinks /\ Grows /\ confirmed' \subseteq confirmed
    BY <1>1, <2>2, UndoQuiet
  <2>6. ConnectionStep
    BY <1>1, <1>2, <2>1, <2>2, <2>3, <2>4, <2>5 DEF Otl!TypeOK, ConnectionStep
  <2> QED
    BY <2>6, ConnectionStepKeeps
<1>4. ASSUME Otl!ConnectFails PROVE Otl!IInv'
  <2>1. status' \in {-1, 0, 1} /\ status' # 1 /\ connected' = FALSE /\ connOk' = FALSE
    BY <1>1, <1>4 DEF Otl!ConnectFails, Otl!StatusAfterFailure, Otl!Closed, Otl!TypeOK
  <2>2. Otl!Undo /\ alive' = FALSE /\ Otl!Idle
    BY <1>4 DEF Otl!ConnectFails, Otl!EndSession
  <2>3. ConnectionStep
    BY <1>1, <1>2, <1>4, <2>1, <2>2, UndoQuiet
    DEF Otl!ConnectFails, Otl!cursorVars, Otl!StatusMatchesConnection, Otl!TypeOK, ConnectionStep
  <2> QED
    BY <2>3, ConnectionStepKeeps
<1>5. ASSUME NEW auto \in BOOLEAN, Otl!Connect(auto) PROVE Otl!IInv'
  <2>1. session' \in session..MaxSessions
    BY <1>2, <1>5, Bounds DEF Otl!Connect
  <2>2. ConnectionStep
    BY <1>1, <1>2, <1>5, <2>1, UndoQuiet
    DEF Otl!Connect, Otl!cursorVars, Otl!StatusMatchesConnection, Otl!TypeOK, ConnectionStep
  <2> QED
    BY <2>2, ConnectionStepKeeps
<1>6. ASSUME Otl!SessionLost PROVE Otl!IInv'
  <2>1. ConnectionStep
    BY <1>1, <1>2, <1>6, UndoQuiet
    DEF Otl!SessionLost, Otl!EndSession, Otl!cursorVars, Otl!StatusMatchesConnection, Otl!AcceptedIsKept,
        Otl!TypeOK, ConnectionStep
  <2> QED
    BY <2>1, ConnectionStepKeeps
<1> QED
  BY <1>3, <1>4, <1>5, <1>6

(* The requests of the connection. *)
LEMMA RequestKeeps ==
  ASSUME Otl!IInv
  PROVE  /\ Otl!Commit => Otl!IInv'
         /\ Otl!Rollback => Otl!IInv'
         /\ \A auto \in BOOLEAN : Otl!SetAutoCommit(auto) => Otl!IInv'
         /\ Otl!ConnectionCallFails => Otl!IInv'
         /\ Otl!DirectExecFails => Otl!IInv'
<1>1. Otl!TypeOK /\ Otl!AcceptedIsKept /\ Otl!StatusMatchesConnection
  BY DEF Otl!IInv
<1>2. session \in 1..MaxSessions /\ failures \in 0..MaxFailures /\ trouble \in [Cursors -> BOOLEAN]
      /\ session \in session..MaxSessions /\ failures \in failures..MaxFailures
  BY <1>1, Bounds DEF Otl!TypeOK
<1>3. ASSUME Otl!Commit PROVE Otl!IInv'
  <2>1. ConnectionStep
    BY <1>1, <1>2, <1>3, StoreQuiet
    DEF Otl!Commit, Otl!cursorVars, Otl!historyVars, Otl!StatusMatchesConnection, Otl!TypeOK, ConnectionStep
  <2> QED
    BY <2>1, ConnectionStepKeeps
<1>4. ASSUME Otl!Rollback PROVE Otl!IInv'
  <2>1. ConnectionStep
    BY <1>1, <1>2, <1>4, UndoQuiet
    DEF Otl!Rollback, Otl!cursorVars, Otl!StatusMatchesConnection, Otl!TypeOK, ConnectionStep
  <2> QED
    BY <2>1, ConnectionStepKeeps
<1>5. ASSUME NEW auto \in BOOLEAN, Otl!SetAutoCommit(auto) PROVE Otl!IInv'
  <2>1. ConnectionStep
    BY <1>1, <1>2, <1>5, StoreQuiet
    DEF Otl!SetAutoCommit, Otl!cursorVars, Otl!historyVars, Otl!StatusMatchesConnection, Otl!TypeOK, ConnectionStep
  <2> QED
    BY <2>1, ConnectionStepKeeps
<1>6. ASSUME Otl!ConnectionCallFails PROVE Otl!IInv'
  <2>1. failures' \in failures..MaxFailures
    BY <1>2, <1>6, Bounds DEF Otl!ConnectionCallFails
  <2>2. status' \in {-1, 0, 1} /\ (status' = 1 => connected) /\ (status' = 0 => ~connected)
    BY <1>1, <1>6 DEF Otl!ConnectionCallFails, Otl!CheckConnect, Otl!HandleException,
                      Otl!StatusMatchesConnection, Otl!TypeOK
  <2>3. trouble' \in [Cursors -> BOOLEAN] /\ \A c \in Cursors : trouble'[c]
    BY <1>6 DEF Otl!ConnectionCallFails
  <2>4. ConnectionStep
    BY <1>1, <1>2, <1>6, <2>1, <2>2, <2>3, UnchangedQuiet
    DEF Otl!ConnectionCallFails, Otl!cursorVars, Otl!dbVars, Otl!StatusMatchesConnection, Otl!TypeOK, ConnectionStep
  <2> QED
    BY <2>4, ConnectionStepKeeps
<1>7. ASSUME Otl!DirectExecFails PROVE Otl!IInv'
  <2>1. status' \in {-1, 0, 1} /\ (status' = 1 => connected) /\ (status' = 0 => ~connected)
    BY <1>1, <1>7 DEF Otl!DirectExecFails, Otl!CheckConnect, Otl!HandleException,
                      Otl!StatusMatchesConnection, Otl!TypeOK
  <2>2. ConnectionStep
    BY <1>1, <1>2, <1>7, <2>1, UnchangedQuiet
    DEF Otl!DirectExecFails, Otl!cursorVars, Otl!dbVars, Otl!historyVars, Otl!StatusMatchesConnection,
        Otl!AcceptedIsKept, Otl!TypeOK, ConnectionStep
  <2> QED
    BY <2>2, ConnectionStepKeeps
<1> QED
  BY <1>3, <1>4, <1>5, <1>6, <1>7

-----------------------------------------------------------------------------
(* The cursors. *)

(* What a step that runs nothing on the connection leaves of it. *)
LEMMA NoRequest ==
  ASSUME Otl!IInv, UNCHANGED <<connected, connOk, autoCommit, session, alive, call, binds, pending, table>>,
         UNCHANGED <<raised, failures, trouble, accepted, confirmed>>,
         \A c \in Cursors : SameBuffer(stream'[c], stream[c])
  PROVE  Quiet
<1>1. /\ Shrinks /\ Grows
      /\ ~Otl!Idle => connected
      /\ \A c \in Cursors : ~trouble[c] => (connected => connOk)
  BY UnchangedQuiet DEF Otl!IInv, Otl!AcceptedIsKept
<1> QED
  BY <1>1 DEF Quiet

(* The status after an error that is reported. *)
LEMMA HandledStatus ==
  ASSUME Otl!IInv, NEW answered, Otl!HandleException(answered), Otl!CheckConnect \/ ~Otl!Idle, connected' = connected
  PROVE  status' \in {-1, 0, 1} /\ Otl!StatusMatchesConnection'
<1>1. status \in {-1, 0, 1} /\ connected
  BY DEF Otl!IInv, Otl!TypeOK, Otl!AcceptedIsKept, Otl!CheckConnect
<1>2. status # 0
  BY <1>1 DEF Otl!IInv, Otl!StatusMatchesConnection
<1>3. status' = status \/ status' = -1
  BY DEF Otl!HandleException
<1> QED
  BY <1>1, <1>2, <1>3 DEF Otl!StatusMatchesConnection

(* A row has been fetched. *)
LEMMA FetchedTyped ==
  ASSUME NEW s \in Otl!Streams, s.left > 0
  PROVE  LET f == [s EXCEPT !.left = @ - 1] IN
         f \in Otl!Streams /\ SameBuffer(f, s) /\ f.session = s.session /\ f.kind = s.kind
<1>1. s.left \in Nat
  BY DEF Otl!Streams
<1>2. s.left - 1 \in Nat
  BY <1>1
<1> QED
  BY <1>2 DEF Otl!Streams, SameBuffer

(* Cursors are made, given a batch size and fetched from. *)
LEMMA CursorKeeps ==
  ASSUME Otl!IInv, NEW c \in Cursors
  PROVE  /\ Otl!Cursor(c) => Otl!IInv'
         /\ \A n \in BatchSizes : Otl!SetBatchSize(c, n) => Otl!IInv'
         /\ Otl!Fetch(c) => Otl!IInv'
<1>1. Otl!TypeOK /\ Otl!StatusMatchesConnection
  BY DEF Otl!IInv
<1>2. \A d \in Cursors : SameBuffer(stream[d], stream[d])
  BY DEF SameBuffer
<1>3. ASSUME Otl!Cursor(c) PROVE Otl!IInv'
  <2>1. Otl!TypeOK'
    BY <1>1, <1>3 DEF Otl!Cursor, Otl!TypeOK, Otl!connVars, Otl!dbVars, Otl!historyVars
  <2>2. Quiet /\ Otl!StatusMatchesConnection'
    BY <1>1, <1>2, <1>3, NoRequest
    DEF Otl!Cursor, Otl!connVars, Otl!dbVars, Otl!historyVars, Otl!StatusMatchesConnection
  <2> QED
    BY <2>1, <2>2, QuietKeeps
<1>4. ASSUME NEW n \in BatchSizes, Otl!SetBatchSize(c, n) PROVE Otl!IInv'
  <2>1. Otl!TypeOK'
    BY <1>1, <1>4 DEF Otl!SetBatchSize, Otl!TypeOK, Otl!connVars, Otl!dbVars, Otl!historyVars
  <2>2. Quiet /\ Otl!StatusMatchesConnection'
    BY <1>1, <1>2, <1>4, NoRequest
    DEF Otl!SetBatchSize, Otl!connVars, Otl!dbVars, Otl!historyVars, Otl!StatusMatchesConnection
  <2> QED
    BY <2>1, <2>2, QuietKeeps
<1>5. ASSUME Otl!Fetch(c) PROVE Otl!IInv'
  <2>1. stream \in [Cursors -> Otl!Streams] /\ stream[c] \in Otl!Streams /\ stream[c].left > 0
    BY <1>1, <1>5 DEF Otl!TypeOK, Otl!Fetch
  <2>2. status' \in {-1, 0, 1} /\ Otl!StatusMatchesConnection'
    BY <1>1, <1>5, HandledStatus DEF Otl!Fetch, Otl!GoodStream, Otl!StatusMatchesConnection, Otl!TypeOK
  <2>3. /\ stream' \in [Cursors -> Otl!Streams]
        /\ \A d \in Cursors : SameBuffer(stream'[d], stream[d])
        /\ \A d \in Cursors : stream'[d].session = stream[d].session /\ stream'[d].kind = stream[d].kind
    <3> DEFINE f == [stream[c] EXCEPT !.left = @ - 1]
    <3>1. f \in Otl!Streams /\ SameBuffer(f, stream[c]) /\ f.session = stream[c].session /\ f.kind = stream[c].kind
      BY <2>1, FetchedTyped
    <3>2. \/ stream' = stream
          \/ stream' = [stream EXCEPT ![c] = f]
      BY <1>5, <2>1 DEF Otl!Fetch
    <3> HIDE DEF f
    <3> QED
      BY <1>2, <2>1, <3>1, <3>2
  <2>4. Otl!TypeOK'
    BY <1>1, <1>5, <2>2, <2>3 DEF Otl!Fetch, Otl!TypeOK, Otl!dbVars, Otl!historyVars, SameBuffer
  <2>5. Quiet
    BY <1>5, <2>3, NoRequest DEF Otl!Fetch, Otl!dbVars, Otl!historyVars
  <2> QED
    BY <2>2, <2>4, <2>5, QuietKeeps
<1> QED
  BY <1>3, <1>4, <1>5

(* What a call of a cursor, other than a bind, leaves when s is its stream. *)
CallOf(c, s) ==
  /\ Otl!Idle /\ UNCHANGED <<call, binds, raised>>
  /\ stream' = [stream EXCEPT ![c] = s] /\ Drops(s, stream[c])
  /\ s.size = stream[c].size \/ Otl!IsEmpty(s)
  /\ Otl!Executable(s) => s.part = <<>>
  /\ \A d \in Cursors : trouble[d] => trouble'[d] \/ (d = c /\ Otl!IsEmpty(s))
  /\ \A d \in Cursors : ~trouble'[d] => (connected' => connOk')
  /\ ~trouble'[c] => Otl!Executable(s)
  /\ accepted' = [accepted EXCEPT ![c] = {}]
  /\ Sourced /\ Grows /\ (failures' = 0 => Once(stream', Otl!Stored'))

LEMMA CallOfKeeps ==
  ASSUME Otl!IInv, Otl!TypeOK', Otl!StatusMatchesConnection', Otl!ConfirmedIsCommitted',
         NEW c \in Cursors, NEW s, CallOf(c, s)
  PROVE  Otl!IInv'
<1>1. /\ stream' \in [Cursors -> Otl!Streams] /\ stream'[c] = s
      /\ \A d \in Cursors : d # c => stream'[d] = stream[d]
  BY DEF Otl!IInv, Otl!TypeOK, CallOf
<1>2. Otl!Idle /\ Otl!Idle' /\ ~call.check /\ ~call'.check
  BY DEF CallOf, Otl!Idle, Otl!NoCall
<1>3. \A d \in Cursors : Drops(stream'[d], stream[d])
  BY <1>1 DEF CallOf, Drops
<1>4. Dropping
  BY <1>1, <1>3 DEF CallOf, Dropping, SameCall
<1>5. Otl!BuffersFit'
  <2>1. Otl!Full(s) => s.part = <<>>
    BY DEF CallOf, Drops, Otl!IInv, Otl!BuffersFit, Otl!Full, Otl!IsEmpty
  <2> QED
    BY <1>1, <1>2, <2>1 DEF Otl!IInv, Otl!BuffersFit
<1>6. ASSUME NEW d \in Cursors, Otl!Executable(stream'[d]), ~raised' \/ ~trouble'[d]
      PROVE  Otl!HoldsItsBind(d)'
  <2>1. stream'[d].part = <<>>
    <3>1. CASE d = c
      BY <1>1, <1>6, <3>1 DEF CallOf
    <3>2. CASE d # c
      <4>1. Otl!HoldsItsBind(d)
        BY <1>1, <1>6, <3>2 DEF CallOf, Otl!IInv, Otl!RowsAligned
      <4> QED
        BY <1>1, <1>2, <3>2, <4>1 DEF Otl!HoldsItsBind, Otl!Binding
    <3> QED
      BY <3>1, <3>2
  <2> QED
    BY <1>2, <2>1 DEF Otl!HoldsItsBind, Otl!Binding
<1>7. Otl!AcceptedIsKept'
  <2>1. ASSUME NEW d \in Cursors, ~trouble'[d]
        PROVE  /\ Otl!Executable(stream'[d]) /\ (connected' => connOk')
               /\ \A r \in accepted'[d] : Otl!Kept(d, r)'
    <3>1. accepted \in [Cursors -> SUBSET (1..binds)]
      BY DEF Otl!IInv, Otl!TypeOK
    <3>2. CASE d = c
      BY <1>1, <2>1, <3>1, <3>2 DEF CallOf
    <3>3. CASE d # c
      <4>1. ~trouble[d] /\ accepted'[d] = accepted[d] /\ stream'[d] = stream[d]
        BY <1>1, <2>1, <3>1, <3>3 DEF CallOf
      <4>2. Otl!Executable(stream[d]) /\ \A r \in accepted[d] : Otl!Kept(d, r)
        BY <4>1 DEF Otl!IInv, Otl!AcceptedIsKept
      <4>3. \A r \in 1..binds : table[Otl!Whole(r)] > 0 => table'[Otl!Whole(r)] > 0
        BY GrowsKeeps DEF Otl!IInv, CallOf
      <4> QED
        BY <2>1, <3>1, <4>1, <4>2, <4>3 DEF CallOf, Otl!Kept
    <3> QED
      BY <3>2, <3>3
  <2> QED
    BY <1>2, <2>1 DEF Otl!AcceptedIsKept, Otl!Binding
<1> QED
  BY <1>4, <1>5, <1>6, <1>7, DroppingKeeps DEF CallOf

(* A stream that cursor c may have. *)
Fits(c, s) ==
  /\ s \in Otl!Streams /\ s.session <= session
  /\ Len(s.rows) <= s.size /\ Len(s.part) < Width
  /\ s.kind # "none" => object'[c] = "live" /\ s.size > 0

LEMMA CallTypes ==
  ASSUME Otl!TypeOK, NEW c \in Cursors, NEW s, Fits(c, s), stream' = [stream EXCEPT ![c] = s],
         UNCHANGED <<connected, autoCommit, session, alive, batch, binds>>,
         object' \in [Cursors -> {"none", "live", "collected"}],
         \A d \in Cursors : d # c => object'[d] = object[d],
         status' \in {-1, 0, 1}, connOk' \in BOOLEAN, raised' \in BOOLEAN,
         pending' \in [Otl!AllRows -> Nat], table' \in [Otl!AllRows -> Nat],
         failures' \in 0..MaxFailures, trouble' \in [Cursors -> BOOLEAN],
         accepted' \in [Cursors -> SUBSET (1..binds)], confirmed' \subseteq 1..binds,
         call' = Otl!NoCall \/ call' \in [cursor : Cursors, row : 1..binds, done : 0..Width, check : BOOLEAN]
  PROVE  Otl!TypeOK'
<1>1. stream' \in [Cursors -> Otl!Streams] /\ stream'[c] = s /\ \A d \in Cursors : d # c => stream'[d] = stream[d]
  BY DEF Fits, Otl!TypeOK
<1>2. \A d \in Cursors :
        /\ stream'[d].session <= session'
        /\ Len(stream'[d].rows) <= stream'[d].size /\ Len(stream'[d].part) < Width
        /\ stream'[d].kind # "none" => object'[d] = "live" /\ stream'[d].size > 0
  BY <1>1 DEF Fits, Otl!TypeOK
<1> QED
  BY <1>1, <1>2 DEF Otl!TypeOK

(* A stream that drops rows still fits its cursor; so does none. *)
LEMMA DropsFits ==
  ASSUME Otl!TypeOK, NEW c \in Cursors, NEW s \in Otl!Streams,
         Drops(s, stream[c]), SameCursor(s, stream[c]), object' = object
  PROVE  Fits(c, s)
<1>1. stream[c] \in Otl!Streams /\ s.size \in Nat
  BY DEF Otl!TypeOK, Otl!Streams
<1>2. CASE s.rows = stream[c].rows /\ s.part = stream[c].part
  BY <1>2 DEF Otl!TypeOK, SameCursor, Fits
<1>3. CASE Otl!IsEmpty(s)
  <2>1. Len(s.rows) = 0 /\ Len(s.part) = 0
    BY <1>3 DEF Otl!IsEmpty
  <2>2. 0 <= s.size /\ 0 < Width
    BY <1>1, Bounds
  <2> QED
    BY <2>1, <2>2 DEF Otl!TypeOK, SameCursor, Fits
<1> QED
  BY <1>2, <1>3 DEF Drops

LEMMA NoStreamFits ==
  ASSUME Otl!TypeOK, NEW c \in Cursors
  PROVE  Fits(c, Otl!NoStream) /\ Otl!IsEmpty(Otl!NoStream) /\ Otl!Executable(Otl!NoStream)
<1>1. <<>> \in Seq(Otl!AllRows) /\ <<>> \in Seq(1..MaxRows)
  OBVIOUS
<1>2. 0 <= session /\ 0 < Width
  BY Bounds DEF Otl!TypeOK
<1> QED
  BY <1>1, <1>2 DEF Fits, Otl!NoStream, Otl!Streams, Otl!IsEmpty, Otl!Executable

(* A call that gives up the buffer keeps what is stored once. *)
LEMMA DropsOnce ==
  ASSUME NEW of \in [Cursors -> Otl!Streams], NEW db, Once(of, db), NEW c \in Cursors, NEW s, Drops(s, of[c])
  PROVE  Once([of EXCEPT ![c] = s], db)
<1> DEFINE st == [of EXCEPT ![c] = s]
<1>1. \A d \in Cursors : Drops(st[d], of[d])
  BY DEF Drops
<1>2. \A d \in Cursors : \A r : /\ InBuffer(st[d], r) => InBuffer(of[d], r)
                                /\ AtOnePlace(of[d], r) => AtOnePlace(st[d], r)
  BY <1>1, DropsKeeps
<1> HIDE DEF st
<1>3. Once(st, db)
  BY <1>2 DEF Once
<1> QED
  BY <1>3 DEF st

(* otl_stream:clean(). *)
LEMMA CleanKeeps ==
  ASSUME Otl!IInv, NEW c \in Cursors, NEW flags \in BOOLEAN, Otl!Clean(c, flags)
  PROVE  Otl!IInv'
<1> DEFINE s == Otl!Cleaned(stream[c], flags)
<1>1. Otl!TypeOK /\ stream[c] \in Otl!Streams /\ stream \in [Cursors -> Otl!Streams]
      /\ trouble \in [Cursors -> BOOLEAN] /\ connOk \in BOOLEAN
  BY DEF Otl!IInv, Otl!TypeOK
<1>2. /\ s \in Otl!Streams /\ Otl!IsEmpty(s) /\ SameCursor(s, stream[c])
      /\ IF flags THEN Otl!Executable(s) ELSE Otl!Executable(s) <=> Otl!Executable(stream[c])
  <2> DEFINE e == Otl!Emptied(stream[c])
  <2>1. /\ e \in Otl!Streams /\ Otl!IsEmpty(e) /\ SameCursor(e, stream[c])
        /\ e.ok = stream[c].ok /\ e.flagged = stream[c].flagged
    BY <1>1, EmptiedTyped
  <2>2. s = IF flags THEN [e EXCEPT !.ok = TRUE, !.flagged = FALSE] ELSE e
    BY DEF Otl!Cleaned
  <2> HIDE DEF e, s
  <2> QED
    BY <2>1, <2>2 DEF Otl!Streams, Otl!IsEmpty, SameCursor, Otl!Executable
<1>3. /\ Otl!Idle /\ stream' = [stream EXCEPT ![c] = s] /\ accepted' = [accepted EXCEPT ![c] = {}]
      /\ trouble' = [trouble EXCEPT ![c] = IF flags THEN ~connOk ELSE @]
      /\ UNCHANGED <<status, connected, connOk, autoCommit, session, alive, object, batch, call, binds>>
      /\ UNCHANGED <<pending, table, raised, failures, confirmed>>
  BY DEF Otl!Clean, Otl!connVars, Otl!dbVars
<1> HIDE DEF s
<1>4. Drops(s, stream[c])
  BY <1>2 DEF Drops
<1>5. Fits(c, s)
  BY <1>1, <1>2, <1>3, <1>4, DropsFits
<1>6. Otl!TypeOK'
  <2>1. trouble' \in [Cursors -> BOOLEAN] /\ accepted' \in [Cursors -> SUBSET (1..binds)]
    BY <1>1, <1>3 DEF Otl!TypeOK
  <2> QED
    BY <1>1, <1>3, <1>5, <2>1, CallTypes DEF Otl!TypeOK
<1>7. Grows /\ Sourced /\ Otl!Stored' = Otl!Stored
  <2>1. Otl!Stored' = Otl!Stored
    BY <1>3 DEF Otl!Stored
  <2> QED
    BY <1>1, <1>3, <2>1, UnchangedQuiet DEF Sourced
<1>8. failures' = 0 => Once(stream', Otl!Stored')
  BY <1>1, <1>3, <1>4, <1>7, DropsOnce, KeptOnceIsOnce DEF Otl!IInv
<1>9. /\ \A d \in Cursors : trouble[d] => trouble'[d] \/ (d = c /\ Otl!IsEmpty(s))
      /\ \A d \in Cursors : ~trouble'[d] => (connected' => connOk')
      /\ ~trouble'[c] => Otl!Executable(s)
  BY <1>1, <1>2, <1>3 DEF Otl!IInv, Otl!AcceptedIsKept
<1>10. CallOf(c, s)
  BY <1>2, <1>3, <1>4, <1>7, <1>8, <1>9 DEF CallOf, Otl!IsEmpty
<1>11. Otl!StatusMatchesConnection' /\ Otl!ConfirmedIsCommitted'
  BY <1>3 DEF Otl!IInv, Otl!StatusMatchesConnection, Otl!ConfirmedIsCommitted
<1> QED
  BY <1>6, <1>10, <1>11, CallOfKeeps

(* What a flush may do to the history of errors. *)
LEMMA TroubleTyped ==
  ASSUME Otl!TypeOK, NEW c \in Cursors, NEW o, Sound(o, stream[c])
  PROVE  /\ Otl!TroubleAfter(c, o) \in [Cursors -> BOOLEAN]
         /\ \A d \in Cursors : trouble[d] \/ ~o.ok => Otl!TroubleAfter(c, o)[d]
         /\ ~Otl!TroubleAfter(c, o)[c] => ~trouble[c] /\ o.ok /\ ~o.throws
BY DEF Otl!TroubleAfter, Otl!TypeOK, Sound

(* What a call that flushes leaves of the rest. *)
Flushing ==
  /\ Otl!Idle /\ UNCHANGED <<connected, autoCommit, session, alive, batch, call, binds, raised>>
  /\ Otl!TypeOK

LEMMA FlushingTypes ==
  ASSUME Otl!IInv, Flushing, NEW c \in Cursors, NEW o \in Otl!Flushed(stream[c]), Otl!Apply(o),
         NEW s, Fits(c, s), stream' = [stream EXCEPT ![c] = s], accepted' = [accepted EXCEPT ![c] = {}],
         object' \in [Cursors -> {"none", "live", "collected"}],
         \A d \in Cursors : d # c => object'[d] = object[d],
         status' \in {-1, 0, 1}, trouble' \in [Cursors -> BOOLEAN], confirmed' \subseteq 1..binds
  PROVE  Otl!TypeOK'
<1>1. /\ connOk' \in BOOLEAN /\ failures' \in 0..MaxFailures
      /\ pending' \in [Otl!AllRows -> Nat] /\ table' \in [Otl!AllRows -> Nat]
  BY FlushKeeps DEF Sound
<1>2. accepted' \in [Cursors -> SUBSET (1..binds)] /\ raised' \in BOOLEAN /\ call' = Otl!NoCall
  BY DEF Flushing, Otl!TypeOK, Otl!Idle
<1> QED
  BY <1>1, <1>2, CallTypes DEF Flushing

(* otl_stream:flush(). *)
LEMMA FlushStep ==
  ASSUME Otl!IInv, NEW c \in Cursors, Otl!Flush(c)
  PROVE  Otl!IInv'
<1>1. Otl!TypeOK /\ stream[c] \in Otl!Streams /\ stream \in [Cursors -> Otl!Streams]
      /\ Otl!AcceptedIsKept /\ Otl!ConfirmedIsCommitted
      /\ confirmed \subseteq 1..binds /\ accepted \in [Cursors -> SUBSET (1..binds)]
  BY DEF Otl!IInv, Otl!TypeOK
<1>2. PICK o \in Otl!Flushed(stream[c]) :
        /\ Otl!Apply(o)
        /\ stream' = [stream EXCEPT ![c] = o.stream]
        /\ trouble' = Otl!TroubleAfter(c, o)
        /\ IF o.throws THEN Otl!HandleException(Otl!Answers(o.stream)) ELSE UNCHANGED status
        /\ confirmed' = IF Otl!Succeeds(o) /\ ~trouble[c] THEN confirmed \cup accepted[c] ELSE confirmed
  BY DEF Otl!Flush
<1>3. /\ Flushing /\ accepted' = [accepted EXCEPT ![c] = {}]
      /\ UNCHANGED <<connected, object, call, binds, raised>> /\ Otl!Idle /\ Otl!CheckConnect
  BY <1>1 DEF Otl!Flush, Flushing, Otl!GoodStream
<1>4. /\ Sound(o, stream[c]) /\ Grows /\ Sourced /\ connOk' = o.ok
      /\ failures' = 0 => Once(stream', Otl!Stored')
      /\ ~o.throws /\ Otl!Executable(stream[c]) /\ connOk =>
           \A r \in 1..MaxRows : Otl!Keeps(stream[c], r) => table'[Otl!Whole(r)] > 0
  BY <1>2, FlushKeeps
<1>5. status' \in {-1, 0, 1} /\ Otl!StatusMatchesConnection'
  <2>1. CASE o.throws
    BY <1>2, <1>3, <2>1, HandledStatus
  <2>2. CASE ~o.throws
    BY <1>2, <1>3, <2>2 DEF Otl!IInv, Otl!TypeOK, Otl!StatusMatchesConnection
  <2> QED
    BY <2>1, <2>2
<1>6. trouble' \in [Cursors -> BOOLEAN]
      /\ (\A d \in Cursors : trouble[d] \/ ~o.ok => trouble'[d])
      /\ (~trouble'[c] => ~trouble[c] /\ o.ok /\ ~o.throws)
  BY <1>1, <1>2, <1>4, TroubleTyped
<1>7. Otl!TypeOK'
  <2>1. Fits(c, o.stream)
    BY <1>1, <1>3, <1>4, DropsFits DEF Sound
  <2>2. confirmed' \subseteq 1..binds
    BY <1>1, <1>2
  <2> QED
    BY <1>1, <1>2, <1>3, <1>5, <1>6, <2>1, <2>2, FlushingTypes DEF Otl!TypeOK
<1>8. CallOf(c, o.stream)
  <2>1. ~trouble'[c] => Otl!Executable(o.stream)
    BY <1>1, <1>4, <1>6 DEF Sound, Otl!AcceptedIsKept
  <2> QED
    BY <1>2, <1>3, <1>4, <1>6, <2>1 DEF CallOf, Sound, SameCursor
<1>9. Otl!ConfirmedIsCommitted'
  <2>1. \A r \in 1..binds : table[Otl!Whole(r)] > 0 => table'[Otl!Whole(r)] > 0
    BY <1>1, <1>4, <1>7, GrowsKeeps
  <2>2. SUFFICES ASSUME NEW r \in confirmed' PROVE table'[Otl!Whole(r)] > 0
    BY DEF Otl!ConfirmedIsCommitted
  <2>3. CASE r \in confirmed
    BY <1>1, <2>1, <2>3 DEF Otl!ConfirmedIsCommitted
  <2>4. CASE r \notin confirmed
    <3>1. ~o.throws /\ ~trouble[c] /\ r \in accepted[c]
      BY <1>2, <2>2, <2>4 DEF Otl!Succeeds
    <3>2. Otl!Executable(stream[c]) /\ connOk /\ Otl!Kept(c, r)
      BY <1>1, <1>3, <3>1 DEF Otl!AcceptedIsKept, Otl!CheckConnect
    <3>3. r \in 1..binds /\ r \in 1..MaxRows
      BY <1>1, <3>1, Bounds DEF Otl!TypeOK
    <3> QED
      BY <1>4, <2>1, <3>1, <3>2, <3>3 DEF Otl!Kept
  <2> QED
    BY <2>3, <2>4
<1> QED
  BY <1>5, <1>7, <1>8, <1>9, CallOfKeeps

(* A call that flushes its stream and then has another, with no rows.      *)
LEMMA ReplacedKeeps ==
  ASSUME Otl!IInv, Flushing, NEW c \in Cursors, NEW o \in Otl!Flushed(stream[c]), Otl!Apply(o),
         NEW s, Fits(c, s), Otl!IsEmpty(s), Otl!Executable(s), stream' = [stream EXCEPT ![c] = s],
         accepted' = [accepted EXCEPT ![c] = {}], UNCHANGED confirmed,
         object' \in [Cursors -> {"none", "live", "collected"}],
         \A d \in Cursors : d # c => object'[d] = object[d],
         status' \in {-1, 0, 1}, Otl!StatusMatchesConnection', trouble' \in [Cursors -> BOOLEAN],
         \A d \in Cursors : d # c => trouble'[d] = Otl!TroubleAfter(c, o)[d],
         ~trouble'[c] => o.ok
  PROVE  Otl!IInv'
<1>1. /\ Sound(o, stream[c]) /\ Grows /\ Sourced /\ connOk' = o.ok
      /\ failures' = 0 => Once([stream EXCEPT ![c] = o.stream], Otl!Stored')
  BY FlushKeeps
<1>2. Otl!TypeOK /\ stream \in [Cursors -> Otl!Streams] /\ Otl!ConfirmedIsCommitted /\ confirmed \subseteq 1..binds
  BY DEF Otl!IInv, Otl!TypeOK
<1>3. Otl!TypeOK'
  BY <1>2, FlushingTypes
<1>4. \A d \in Cursors : d # c => (trouble[d] \/ ~o.ok => trouble'[d])
  BY <1>1, <1>2, TroubleTyped
<1>5. failures' = 0 => Once(stream', Otl!Stored')
  <2> DEFINE of == [stream EXCEPT ![c] = o.stream]
             db == Otl!Stored'
  <2>1. of \in [Cursors -> Otl!Streams] /\ stream' = [of EXCEPT ![c] = s] /\ Drops(s, of[c])
    BY <1>1, <1>2 DEF Sound, Drops
  <2>2. failures' = 0 => Once(of, db)
    BY <1>1
  <2> HIDE DEF of, db
  <2>3. failures' = 0 => Once(stream', db)
    <3>1. ASSUME Once(of, db) PROVE Once([of EXCEPT ![c] = s], db)
      BY <2>1, <3>1, DropsOnce
    <3> QED
      BY <2>1, <2>2, <3>1
  <2> QED
    BY <2>3 DEF db
<1>6. CallOf(c, s)
  BY <1>1, <1>4, <1>5 DEF CallOf, Flushing, Drops, Otl!IsEmpty
<1>7. Otl!ConfirmedIsCommitted'
  <2>1. \A r \in 1..binds : table[Otl!Whole(r)] > 0 => table'[Otl!Whole(r)] > 0
    BY <1>1, <1>2, <1>3, GrowsKeeps
  <2> QED
    BY <1>2, <2>1 DEF Otl!ConfirmedIsCommitted
<1> QED
  BY <1>3, <1>6, <1>7, CallOfKeeps

(* otl_stream:close() and the collector. *)
LEMMA ClosesKeeps ==
  ASSUME Otl!IInv, NEW c \in Cursors, NEW after \in {"live", "collected"}, Otl!Closes(c, after)
  PROVE  Otl!IInv'
<1>1. Otl!TypeOK /\ Otl!StatusMatchesConnection
  BY DEF Otl!IInv
<1>2. PICK o \in Otl!Flushed(stream[c]) : Otl!Apply(o) /\ trouble' = Otl!TroubleAfter(c, o)
  BY DEF Otl!Closes
<1>3. /\ Flushing /\ stream' = [stream EXCEPT ![c] = Otl!NoStream] /\ accepted' = [accepted EXCEPT ![c] = {}]
      /\ object' = [object EXCEPT ![c] = after] /\ UNCHANGED <<status, connected, confirmed>>
  BY <1>1 DEF Otl!Closes, Flushing, Otl!Deleted
<1>4. Sound(o, stream[c])
  BY <1>2, FlushKeeps
<1>5. /\ object' \in [Cursors -> {"none", "live", "collected"}]
      /\ \A d \in Cursors : d # c => object'[d] = object[d]
  BY <1>1, <1>3 DEF Otl!TypeOK
<1>6. status' \in {-1, 0, 1} /\ Otl!StatusMatchesConnection'
  BY <1>1, <1>3 DEF Otl!TypeOK, Otl!StatusMatchesConnection
<1>7. trouble' \in [Cursors -> BOOLEAN] /\ (~trouble'[c] => o.ok)
  BY <1>1, <1>2, <1>4, TroubleTyped
<1> QED
  BY <1>1, <1>2, <1>3, <1>5, <1>6, <1>7, NoStreamFits, ReplacedKeeps

(* otl_stream:execute(). *)
LEMMA ExecuteKeeps ==
  ASSUME Otl!IInv, NEW c \in Cursors, NEW kind \in {"insert", "select"}, NEW n \in Nat, Otl!Execute(c, kind, n)
  PROVE  Otl!IInv'
<1>1. Otl!TypeOK /\ Otl!StatusMatchesConnection /\ trouble \in [Cursors -> BOOLEAN]
  BY DEF Otl!IInv, Otl!TypeOK
<1>2. PICK o \in Otl!Flushed(stream[c]) :
        /\ Otl!Apply(o)
        /\ \/ /\ stream' = [stream EXCEPT ![c] = Otl!NewStream(c, kind, n)]
              /\ trouble' = [Otl!TroubleAfter(c, o) EXCEPT ![c] = ~o.ok]
              /\ UNCHANGED status
           \/ /\ stream' = [stream EXCEPT ![c] = Otl!NoStream]
              /\ Otl!HandleException(alive)
              /\ trouble' = Otl!TroubleAfter(c, o)
  BY DEF Otl!Execute
<1>3. /\ Flushing /\ accepted' = [accepted EXCEPT ![c] = {}] /\ Otl!CheckConnect /\ object[c] = "live"
      /\ UNCHANGED <<connected, confirmed, object>>
  BY <1>1 DEF Otl!Execute, Flushing
<1>4. Sound(o, stream[c])
  BY <1>2, FlushKeeps
<1>5. Otl!TroubleAfter(c, o) \in [Cursors -> BOOLEAN] /\ (~Otl!TroubleAfter(c, o)[c] => o.ok) /\ o.ok \in BOOLEAN
  BY <1>1, <1>4, TroubleTyped DEF Sound
<1>6. object' \in [Cursors -> {"none", "live", "collected"}] /\ \A d \in Cursors : object'[d] = object[d]
  BY <1>1, <1>3 DEF Otl!TypeOK
<1>7. CASE stream' = [stream EXCEPT ![c] = Otl!NewStream(c, kind, n)]
           /\ trouble' = [Otl!TroubleAfter(c, o) EXCEPT ![c] = ~o.ok] /\ UNCHANGED status
  <2> DEFINE s == Otl!NewStream(c, kind, n)
  <2>1. <<>> \in Seq(Otl!AllRows) /\ <<>> \in Seq(1..MaxRows)
    OBVIOUS
  <2>2. batch[c] \in Nat /\ batch[c] > 0 /\ session \in Nat
    <3>1. batch[c] \in BatchSizes \cup {1} /\ session \in 1..MaxSessions
      BY <1>1 DEF Otl!TypeOK
    <3>2. BatchSizes \cup {1} \subseteq Nat \ {0} /\ 1..MaxSessions \subseteq Nat
      BY Bounds
    <3>3. batch[c] \in Nat \ {0} /\ session \in Nat
      BY <3>1, <3>2, Zenon
    <3> QED
      BY <3>3
  <2>3. Fits(c, s) /\ Otl!IsEmpty(s) /\ Otl!Executable(s)
    <3>1. n \in Nat /\ 0 \in Nat /\ (IF kind = "select" THEN n ELSE 0) \in Nat
      OBVIOUS
    <3>2. Otl!NoStream \in Otl!Streams
      BY <2>1 DEF Otl!NoStream, Otl!Streams
    <3>3. /\ s \in Otl!Streams /\ s.session = session /\ s.size = batch[c] /\ s.rows = <<>> /\ s.part = <<>>
          /\ s.ok /\ ~s.flagged
      BY <2>1, <2>2, <3>1, <3>2 DEF Otl!NewStream, Otl!NoStream, Otl!Streams
    <3>4. session <= session /\ 0 < Width /\ 0 <= batch[c]
      BY <2>2, Bounds
    <3> HIDE DEF s
    <3> QED
      BY <1>3, <2>2, <3>3, <3>4 DEF Fits, Otl!IsEmpty, Otl!Executable
  <2>4. status' \in {-1, 0, 1} /\ Otl!StatusMatchesConnection'
    BY <1>1, <1>3, <1>7 DEF Otl!TypeOK, Otl!StatusMatchesConnection
  <2>5. /\ trouble' \in [Cursors -> BOOLEAN] /\ (~trouble'[c] => o.ok)
        /\ \A d \in Cursors : d # c => trouble'[d] = Otl!TroubleAfter(c, o)[d]
    BY <1>5, <1>7
  <2> HIDE DEF s
  <2> QED
    BY <1>2, <1>3, <1>6, <1>7, <2>3, <2>4, <2>5, ReplacedKeeps DEF s
<1>8. CASE stream' = [stream EXCEPT ![c] = Otl!NoStream]
           /\ Otl!HandleException(alive) /\ trouble' = Otl!TroubleAfter(c, o)
  <2>1. status' \in {-1, 0, 1} /\ Otl!StatusMatchesConnection'
    BY <1>3, <1>8, HandledStatus
  <2>2. Fits(c, Otl!NoStream) /\ Otl!IsEmpty(Otl!NoStream) /\ Otl!Executable(Otl!NoStream)
    BY <1>1, NoStreamFits
  <2> QED
    BY <1>2, <1>3, <1>5, <1>6, <1>8, <2>1, <2>2, ReplacedKeeps
<1> QED
  BY <1>2, <1>7, <1>8

-----------------------------------------------------------------------------
(* A bind begins, and ends without a flush. *)

LEMMA BeginBindKeeps ==
  ASSUME Otl!IInv, NEW c \in Cursors, Otl!BeginBind(c)
  PROVE  Otl!IInv'
<1>1. /\ Otl!TypeOK /\ binds \in 0..MaxRows /\ binds < MaxRows /\ stream \in [Cursors -> Otl!Streams]
      /\ accepted \in [Cursors -> SUBSET (1..binds)] /\ confirmed \subseteq 1..binds
  BY DEF Otl!IInv, Otl!TypeOK, Otl!BeginBind
<1>2. /\ Otl!Idle /\ binds' = binds + 1 /\ connected /\ stream[c].kind # "none"
      /\ call' = [cursor |-> c, row |-> binds + 1, done |-> 0, check |-> FALSE]
      /\ UNCHANGED <<status, connected, connOk, autoCommit, session, alive, object, batch, stream, pending, table>>
      /\ UNCHANGED <<raised, failures, trouble, accepted, confirmed>>
  BY DEF Otl!BeginBind, Otl!connVars, Otl!cursorVars, Otl!dbVars, Otl!historyVars, Otl!GoodStream, Otl!CheckConnect
<1>3. /\ binds' \in 0..MaxRows /\ binds + 1 \in 1..binds' /\ \A r \in 1..binds : r \in 1..binds' /\ r # binds + 1
      /\ 0 < Width /\ 0 \in 0..Width /\ 0 # Width
  BY <1>1, <1>2, Bounds
<1>4. ~Otl!Idle' /\ call'.cursor = c /\ call'.row = binds + 1 /\ call'.done = 0 /\ ~call'.check
  BY <1>1, <1>2 DEF Otl!Idle, Otl!NoCall
<1>5. Otl!TypeOK'
  <2>1. call' \in [cursor : Cursors, row : 1..binds', done : 0..Width, check : BOOLEAN]
    BY <1>2, <1>3
  <2>2. accepted' \in [Cursors -> SUBSET (1..binds')] /\ confirmed' \subseteq 1..binds'
    BY <1>1, <1>2, <1>3
  <2> QED
    BY <1>1, <1>2, <1>3, <2>1, <2>2 DEF Otl!TypeOK
<1>6. \A d \in Cursors : \A r : /\ Otl!Executable(stream'[d]) <=> Otl!Executable(stream[d])
                                /\ Otl!Keeps(stream'[d], r) <=> Otl!Keeps(stream[d], r)
                                /\ Otl!Full(stream'[d]) <=> Otl!Full(stream[d])
  BY <1>2
<1>7. Otl!RowsAreWhole'
  BY <1>2, <1>3 DEF Otl!IInv, Otl!RowsAreWhole, Otl!Stored
<1>8. Otl!BuffersFit'
  BY <1>1, <1>2, <1>4, <1>6 DEF Otl!IInv, Otl!BuffersFit, Otl!TypeOK
<1>9. \A d \in Cursors : Otl!Executable(stream[d]) /\ (~raised \/ ~trouble[d]) => stream[d].part = <<>>
  BY <1>2 DEF Otl!IInv, Otl!RowsAligned, Otl!HoldsItsBind, Otl!Binding
<1>10. Otl!RowsAligned'
  <2>1. ASSUME NEW d \in Cursors, Otl!Executable(stream[d]), ~raised \/ ~trouble[d]
        PROVE  Otl!HoldsWholeRows(d)' /\ Otl!HoldsItsBind(d)'
    <3>1. Otl!HoldsWholeRows(d)'
      BY <1>2, <1>3, <2>1 DEF Otl!IInv, Otl!RowsAligned, Otl!HoldsWholeRows
    <3>2. stream'[d].part = <<>>
      BY <1>2, <1>9, <2>1
    <3>3. Otl!HoldsItsBind(d)'
      BY <1>4, <3>2 DEF Otl!HoldsItsBind
    <3> QED
      BY <3>1, <3>3
  <2> QED
    BY <1>2, <1>6, <2>1 DEF Otl!RowsAligned
<1>11. Otl!NotYetWhole'
  <2>1. ASSUME NEW r \in 1..MaxRows, Otl!Incomplete(r)'
        PROVE  Otl!Times(r)' = 0 /\ \A d \in Cursors : ~Otl!Keeps(stream'[d], r)
    <3>1. r > binds
      BY <1>1, <1>2, <1>4, <2>1 DEF Otl!Incomplete
    <3> QED
      BY <1>2, <1>6, <3>1 DEF Otl!IInv, Otl!NotYetWhole, Otl!Incomplete, Otl!Times, Otl!Stored
  <2>2. ASSUME NEW d \in Cursors, NEW i \in 1..Len(stream[d].part)
        PROVE  stream[d].part[i] <= binds' /\ stream[d].part[i] # call'.row
    <3>1. stream[d].part[i] \in 1..MaxRows /\ stream[d].part[i] <= binds
      <4>1. stream[d].part \in Seq(1..MaxRows)
        BY <1>1 DEF Otl!Streams
      <4>2. stream[d].part[i] \in 1..MaxRows
        BY <4>1, <2>2, ElementOfSeq, Zenon
      <4> QED
        BY <4>2 DEF Otl!IInv, Otl!NotYetWhole
    <3> QED
      BY <1>1, <1>2, <1>4, <3>1
  <2>3. ASSUME NEW d \in Cursors, \A i \in 1..Len(stream[d].part) : stream[d].part[i] = call'.row
        PROVE  Len(stream[d].part) <= 0
    <3>1. Len(stream[d].part) \in Nat
      BY <1>1 DEF Otl!Streams
    <3> QED
      BY <2>2, <2>3, <3>1
  <2> QED
    BY <1>2, <1>4, <2>1, <2>2, <2>3 DEF Otl!NotYetWhole
<1>12. Otl!KeptOnce'
  BY <1>2, <1>6 DEF Otl!IInv, Otl!KeptOnce, Otl!Times, Otl!Stored
<1>13. Otl!AcceptedIsKept' /\ Otl!ConfirmedIsCommitted' /\ Otl!StatusMatchesConnection'
  BY <1>2, <1>3, <1>4, <1>6
  DEF Otl!IInv, Otl!AcceptedIsKept, Otl!Kept, Otl!ConfirmedIsCommitted, Otl!StatusMatchesConnection
<1> QED
  BY <1>5, <1>7, <1>8, <1>10, <1>11, <1>12, <1>13 DEF Otl!IInv

(* What a bind that is over has left in place. *)
LEMMA EndsKeeps ==
  ASSUME Otl!IInv, ~Otl!Idle, call' = Otl!NoCall, Otl!TypeOK', raised => raised',
         UNCHANGED <<status, connected, connOk, stream, binds, pending, table, failures, confirmed>>,
         \A d \in Cursors : trouble[d] => trouble'[d],
         \A d \in Cursors : ~raised' \/ ~trouble'[d] => ~(Otl!Binding(d) /\ call.done < Width /\ call.done # 0),
         \A d \in Cursors : ~trouble'[d] => \A r \in accepted'[d] : Otl!Kept(d, r)
  PROVE  Otl!IInv'
<1>1. Otl!Idle' /\ ~call'.check
  BY DEF Otl!Idle, Otl!NoCall
<1>2. Otl!Stored' = Otl!Stored
  BY DEF Otl!Stored
<1>3. Dropping
  BY <1>2 DEF Dropping, Drops, SameCall, Sourced
<1>4. Otl!BuffersFit'
  BY <1>1 DEF Otl!IInv, Otl!BuffersFit, Otl!Full
<1>5. failures' = 0 => Once(stream', Otl!Stored')
  BY <1>2, KeptOnceIsOnce DEF Otl!IInv
<1>6. ASSUME NEW d \in Cursors, Otl!Executable(stream'[d]), ~raised' \/ ~trouble'[d]
      PROVE  Otl!HoldsItsBind(d)'
  <2>1. Otl!HoldsItsBind(d) /\ stream[d] \in Otl!Streams
    BY <1>6 DEF Otl!IInv, Otl!RowsAligned, Otl!TypeOK
  <2>2. stream[d].part = <<>>
    BY <1>6, <2>1 DEF Otl!HoldsItsBind, Otl!Streams
  <2> QED
    BY <1>1, <2>2 DEF Otl!HoldsItsBind, Otl!Binding
<1>7. Otl!AcceptedIsKept'
  BY <1>1 DEF Otl!IInv, Otl!AcceptedIsKept, Otl!Binding, Otl!Kept, Otl!Executable
<1>8. Otl!StatusMatchesConnection' /\ Otl!ConfirmedIsCommitted'
  BY DEF Otl!IInv, Otl!StatusMatchesConnection, Otl!ConfirmedIsCommitted
<1> QED
  BY <1>3, <1>4, <1>5, <1>6, <1>7, <1>8, DroppingKeeps

(* A bind meets a value of the wrong type. *)
LEMMA BindRaisesKeeps ==
  ASSUME Otl!IInv, Otl!BindRaises
  PROVE  Otl!IInv'
<1>1. /\ Otl!TypeOK /\ ~Otl!Idle /\ trouble \in [Cursors -> BOOLEAN] /\ raised \in BOOLEAN
      /\ call.cursor \in Cursors /\ call.done \in 0..Width
  BY CallTyped DEF Otl!IInv, Otl!TypeOK, Otl!BindRaises
<1>2. /\ call' = Otl!NoCall /\ trouble' = [trouble EXCEPT ![call.cursor] = TRUE]
      /\ raised' = (raised \/ call.done > 0)
      /\ UNCHANGED <<status, connected, connOk, autoCommit, session, alive, object, batch, stream>>
      /\ UNCHANGED <<binds, pending, table, failures, accepted, confirmed>>
  BY DEF Otl!BindRaises, Otl!Mismatched, Otl!BindStops, Otl!connVars, Otl!cursorVars, Otl!dbVars
<1>3. Otl!TypeOK'
  BY <1>1, <1>2 DEF Otl!TypeOK
<1>4. \A d \in Cursors : trouble[d] => trouble'[d]
  BY <1>1, <1>2
<1>5. \A d \in Cursors : ~raised' \/ ~trouble'[d] => ~(Otl!Binding(d) /\ call.done < Width /\ call.done # 0)
  <2>1. call.done # 0 => raised'
    <3>1. call.done # 0 => call.done > 0
      BY <1>1, Bounds
    <3> QED
      BY <1>2, <3>1, Zenon
  <2>2. \A d \in Cursors : ~trouble'[d] => d # call.cursor
    BY <1>1, <1>2
  <2> QED
    BY <2>1, <2>2 DEF Otl!Binding
<1>6. \A d \in Cursors : ~trouble'[d] => \A r \in accepted'[d] : Otl!Kept(d, r)
  BY <1>2, <1>4 DEF Otl!IInv, Otl!AcceptedIsKept
<1>7. raised => raised'
  BY <1>2
<1> QED
  BY <1>1, <1>2, <1>3, <1>4, <1>5, <1>6, <1>7, EndsKeeps

(* A bind returns true. *)
LEMMA BindReturnsKeeps ==
  ASSUME Otl!IInv, Otl!BindReturns
  PROVE  Otl!IInv'
<1>1. /\ Otl!TypeOK /\ ~Otl!Idle /\ accepted \in [Cursors -> SUBSET (1..binds)]
      /\ call.cursor \in Cursors /\ call.row \in 1..binds /\ call.done = Width
  BY CallTyped DEF Otl!IInv, Otl!TypeOK, Otl!BindReturns
<1>2. /\ call' = Otl!NoCall
      /\ accepted' = [accepted EXCEPT ![call.cursor] = @ \cup {call.row}]
      /\ UNCHANGED <<status, connected, connOk, autoCommit, session, alive, object, batch, stream>>
      /\ UNCHANGED <<binds, pending, table, raised, failures, trouble, confirmed>>
  BY DEF Otl!BindReturns, Otl!connVars, Otl!cursorVars, Otl!dbVars
<1>3. Otl!TypeOK'
  <2>1. accepted' \in [Cursors -> SUBSET (1..binds)]
    BY <1>1, <1>2
  <2> QED
    BY <1>1, <1>2, <2>1 DEF Otl!TypeOK
<1>4. ASSUME NEW d \in Cursors, ~trouble'[d], NEW r \in accepted'[d]
      PROVE  Otl!Kept(d, r)
  <2>1. CASE r \in accepted[d]
    BY <1>2, <1>4, <2>1 DEF Otl!IInv, Otl!AcceptedIsKept
  <2>2. CASE d = call.cursor /\ r = call.row
    BY <1>1, <1>2, <1>4, <2>2 DEF Otl!IInv, Otl!AcceptedIsKept, Otl!Binding
  <2> QED
    BY <1>1, <1>2, <1>4, <2>1, <2>2
<1>5. \A d \in Cursors : ~(Otl!Binding(d) /\ call.done < Width)
  BY <1>1, Bounds
<1> QED
  BY <1>1, <1>2, <1>3, <1>4, <1>5, EndsKeeps

-----------------------------------------------------------------------------
(* A bind flushes a full buffer. *)

(* What such a flush leaves of the rest. *)
BindFlush(c, o) ==
  /\ ~Otl!Idle /\ c = call.cursor /\ o \in Otl!Flushed(stream[c]) /\ Otl!Apply(o)
  /\ UNCHANGED <<connected, autoCommit, session, alive, object, batch, binds, raised, accepted, confirmed>>

(* What is known after it, of the database and of the stream. *)
LEMMA BindFlushed ==
  ASSUME Otl!IInv, NEW c, NEW o, BindFlush(c, o)
  PROVE  /\ c \in Cursors /\ Sound(o, stream[c]) /\ Fits(c, o.stream) /\ Grows /\ Sourced
         /\ connOk' = o.ok /\ connOk' \in BOOLEAN /\ failures' \in 0..MaxFailures /\ failures' >= failures
         /\ pending' \in [Otl!AllRows -> Nat] /\ table' \in [Otl!AllRows -> Nat]
         /\ failures' = 0 => Once([stream EXCEPT ![c] = o.stream], Otl!Stored')
         /\ Otl!Full(o.stream) => o.stream.part = <<>>
         /\ o.stream.size > 0
<1>1. c \in Cursors /\ stream[c].size > 0 /\ Otl!TypeOK /\ o \in Otl!Flushed(stream[c]) /\ Otl!Apply(o)
  BY CallTyped DEF BindFlush, Otl!IInv, Otl!BuffersFit
<1>2. /\ Sound(o, stream[c]) /\ Grows /\ Sourced
      /\ connOk' = o.ok /\ failures' \in 0..MaxFailures /\ failures' >= failures
      /\ pending' \in [Otl!AllRows -> Nat] /\ table' \in [Otl!AllRows -> Nat]
      /\ failures' = 0 => Once([stream EXCEPT ![c] = o.stream], Otl!Stored')
  BY <1>1, FlushKeeps
<1>3. Fits(c, o.stream)
  BY <1>1, <1>2, DropsFits DEF Sound, BindFlush
<1>4. Otl!Full(o.stream) => o.stream.part = <<>>
  BY <1>1, <1>2 DEF Sound, Drops, SameCursor, Otl!IsEmpty, Otl!Full, Otl!IInv, Otl!BuffersFit
<1>5. o.stream.size > 0 /\ connOk' \in BOOLEAN
  BY <1>1, <1>2 DEF Sound, SameCursor
<1> QED
  BY <1>1, <1>2, <1>3, <1>4, <1>5

(* The values that other cursors hold, while one binds. *)
LEMMA OthersEmpty ==
  ASSUME Otl!IInv, ~Otl!Idle, NEW d \in Cursors, d # call.cursor,
         Otl!Executable(stream[d]), ~raised \/ ~trouble[d]
  PROVE  Otl!HoldsWholeRows(d) /\ stream[d].part = <<>>
BY DEF Otl!IInv, Otl!RowsAligned, Otl!HoldsItsBind, Otl!Binding

(* What other cursors have had accepted is kept, when nothing is taken from *)
(* their buffers.                                                          *)
LEMMA OthersKept ==
  ASSUME Otl!IInv, Otl!TypeOK', Grows, NEW d \in Cursors, ~trouble[d], stream'[d] = stream[d]
  PROVE  Otl!Executable(stream'[d]) /\ \A r \in accepted[d] : Otl!Kept(d, r)'
<1>1. /\ Otl!Executable(stream[d]) /\ (\A r \in accepted[d] : Otl!Kept(d, r)) /\ accepted[d] \subseteq 1..binds
  BY DEF Otl!IInv, Otl!TypeOK, Otl!AcceptedIsKept
<1>2. \A r \in 1..binds : table[Otl!Whole(r)] > 0 => table'[Otl!Whole(r)] > 0
  BY GrowsKeeps DEF Otl!IInv
<1> QED
  BY <1>1, <1>2 DEF Otl!Kept

LEMMA ConfirmedKept ==
  ASSUME Otl!IInv, Otl!TypeOK', Grows, UNCHANGED confirmed
  PROVE  Otl!ConfirmedIsCommitted'
BY GrowsKeeps DEF Otl!IInv, Otl!TypeOK, Otl!ConfirmedIsCommitted

(* The flush fails, and the bind with it. *)
LEMMA BindStopsKeeps ==
  ASSUME Otl!IInv, NEW c, NEW o, BindFlush(c, o), o.throws, stream' = [stream EXCEPT ![c] = o.stream],
         Otl!BindStops(c, Otl!TroubleAfter(c, o)), Otl!HandleException(Otl!Answers(o.stream))
  PROVE  Otl!IInv'
<1>1. /\ c \in Cursors /\ Sound(o, stream[c]) /\ Fits(c, o.stream) /\ Grows /\ Sourced
      /\ connOk' = o.ok /\ connOk' \in BOOLEAN /\ failures' \in 0..MaxFailures
      /\ pending' \in [Otl!AllRows -> Nat] /\ table' \in [Otl!AllRows -> Nat]
      /\ failures' = 0 => Once([stream EXCEPT ![c] = o.stream], Otl!Stored')
      /\ Otl!Full(o.stream) => o.stream.part = <<>>
  BY BindFlushed
<1>2. /\ ~Otl!Idle /\ c = call.cursor /\ call' = Otl!NoCall /\ trouble' = Otl!TroubleAfter(c, o)
      /\ UNCHANGED <<connected, autoCommit, session, alive, object, batch, binds, raised, accepted, confirmed>>
  BY DEF BindFlush, Otl!BindStops
<1>3. /\ Otl!TypeOK /\ stream \in [Cursors -> Otl!Streams] /\ stream'[c] = o.stream
      /\ \A d \in Cursors : d # c => stream'[d] = stream[d]
  BY <1>1 DEF Otl!IInv, Otl!TypeOK
<1>4. status' \in {-1, 0, 1} /\ Otl!StatusMatchesConnection'
  BY <1>2, HandledStatus
<1>5. /\ trouble' \in [Cursors -> BOOLEAN] /\ trouble'[c]
      /\ \A d \in Cursors : trouble[d] \/ ~o.ok => trouble'[d]
  BY <1>1, <1>2, <1>3, TroubleTyped
<1>6. Otl!TypeOK'
  BY <1>1, <1>2, <1>3, <1>4, <1>5, CallTypes DEF Otl!TypeOK
<1>7. Otl!Idle' /\ ~call'.check
  BY <1>2 DEF Otl!Idle, Otl!NoCall
<1>8. Dropping
  <2>1. \A d \in Cursors : Drops(stream'[d], stream[d])
    BY <1>1, <1>3 DEF Sound, Drops
  <2> QED
    BY <1>1, <1>2, <1>5, <2>1 DEF Dropping, SameCall
<1>9. Otl!BuffersFit'
  BY <1>1, <1>3, <1>7 DEF Otl!IInv, Otl!BuffersFit
<1>10. ASSUME NEW d \in Cursors, Otl!Executable(stream'[d]), ~raised' \/ ~trouble'[d]
       PROVE  Otl!HoldsItsBind(d)'
  <2>1. CASE d = c
    BY <1>1, <1>3, <1>7, <1>10, <2>1 DEF Sound, Otl!HoldsItsBind, Otl!Binding
  <2>2. CASE d # c
    <3>1. stream[d].part = <<>>
      BY <1>2, <1>3, <1>5, <1>10, <2>2, OthersEmpty
    <3> QED
      BY <1>3, <1>7, <2>2, <3>1 DEF Otl!HoldsItsBind, Otl!Binding
  <2> QED
    BY <2>1, <2>2
<1>11. Otl!AcceptedIsKept'
  <2>1. ASSUME NEW d \in Cursors, ~trouble'[d]
        PROVE  Otl!Executable(stream'[d]) /\ connOk' /\ \A r \in accepted'[d] : Otl!Kept(d, r)'
    <3>1. d # c /\ ~trouble[d] /\ o.ok
      BY <1>5, <2>1
    <3> QED
      BY <1>1, <1>2, <1>3, <1>6, <3>1, OthersKept
  <2> QED
    BY <1>7, <2>1 DEF Otl!AcceptedIsKept, Otl!Binding
<1>12. Otl!ConfirmedIsCommitted'
  BY <1>1, <1>2, <1>6, ConfirmedKept
<1> QED
  BY <1>1, <1>3, <1>4, <1>6, <1>8, <1>9, <1>10, <1>11, <1>12, DroppingKeeps, Zenon

(* The flush of the buffer that a value has filled. *)
LEMMA CheckBufferKeeps ==
  ASSUME Otl!IInv, Otl!CheckBuffer
  PROVE  Otl!IInv'
<1>0. PICK c \in Cursors : c = call.cursor
  BY CallTyped DEF Otl!CheckBuffer, Otl!IInv
<1>1. PICK o \in Otl!Flushed(stream[c]) :
        /\ Otl!Apply(o)
        /\ stream' = [stream EXCEPT ![c] = o.stream]
        /\ IF o.throws
           THEN Otl!BindStops(c, Otl!TroubleAfter(c, o)) /\ Otl!HandleException(Otl!Answers(o.stream))
           ELSE call' = [call EXCEPT !.check = FALSE] /\ UNCHANGED <<status, trouble>>
  BY <1>0 DEF Otl!CheckBuffer
<1>2. BindFlush(c, o) /\ call.check
  BY <1>0, <1>1 DEF Otl!CheckBuffer, BindFlush
<1>3. CASE o.throws
  BY <1>1, <1>2, <1>3, BindStopsKeeps
<1>4. CASE ~o.throws
  <2>1. /\ c \in Cursors /\ Sound(o, stream[c]) /\ Fits(c, o.stream) /\ Grows /\ Sourced
        /\ connOk' = o.ok /\ connOk' \in BOOLEAN /\ failures' \in 0..MaxFailures
        /\ pending' \in [Otl!AllRows -> Nat] /\ table' \in [Otl!AllRows -> Nat]
        /\ failures' = 0 => Once(stream', Otl!Stored')
        /\ Otl!Full(o.stream) => o.stream.part = <<>>
        /\ o.stream.size > 0
    BY <1>1, <1>2, BindFlushed
  <2>2. /\ ~Otl!Idle /\ call' = [call EXCEPT !.check = FALSE]
        /\ UNCHANGED <<connected, autoCommit, session, alive, object, batch, binds, raised, accepted, confirmed>>
        /\ UNCHANGED <<status, trouble>>
    BY <1>1, <1>2, <1>4 DEF BindFlush
  <2>3. /\ call'.cursor = c /\ call'.row = call.row /\ call'.done = call.done /\ ~call'.check
        /\ call' \in [cursor : Cursors, row : 1..binds, done : 0..Width, check : BOOLEAN]
        /\ call.row \in 1..binds /\ call.row \in 1..MaxRows /\ call.done \in 0..Width /\ ~Otl!Idle'
    <3>1. call \in [cursor : Cursors, row : 1..binds, done : 0..Width, check : BOOLEAN]
          /\ call.row \in 1..binds /\ call.row \in 1..MaxRows /\ call.done \in 0..Width
      BY <2>2, CallTyped DEF Otl!IInv
    <3>2. /\ call'.cursor = c /\ call'.row = call.row /\ call'.done = call.done /\ ~call'.check
          /\ call' \in [cursor : Cursors, row : 1..binds, done : 0..Width, check : BOOLEAN]
      BY <1>0, <2>2, <3>1
    <3> QED
      BY <3>1, <3>2 DEF Otl!Idle, Otl!NoCall
  <2>4. /\ Otl!TypeOK /\ stream \in [Cursors -> Otl!Streams] /\ stream'[c] = o.stream
        /\ \A d \in Cursors : d # c => stream'[d] = stream[d]
        /\ Otl!StatusMatchesConnection' /\ connected /\ Otl!AcceptedIsKept
    BY <1>1, <2>1, <2>2 DEF Otl!IInv, Otl!TypeOK, Otl!StatusMatchesConnection, Otl!AcceptedIsKept
  <2>5. Otl!TypeOK'
    BY <1>1, <2>1, <2>2, <2>3, <2>4, CallTypes DEF Otl!TypeOK
  <2>6. Dropping
    <3>1. \A d \in Cursors : Drops(stream'[d], stream[d])
      BY <2>1, <2>4 DEF Sound, Drops
    <3> QED
      BY <2>1, <2>2, <3>1 DEF Dropping, SameCall
  <2>7. Otl!BuffersFit'
    BY <1>0, <2>1, <2>3, <2>4 DEF Otl!IInv, Otl!BuffersFit
  <2>8. ASSUME NEW d \in Cursors, Otl!Executable(stream'[d]), ~raised' \/ ~trouble'[d]
        PROVE  Otl!HoldsItsBind(d)'
    <3>1. CASE d = c
      <4>1. Otl!Executable(stream[c]) /\ (~raised \/ ~trouble[c]) /\ stream'[c].part = <<>>
        BY <1>4, <2>1, <2>2, <2>4, <2>8, <3>1 DEF Sound
      <4>2. stream[c].part = <<>> /\ Otl!HoldsItsBind(c)
        BY <1>0, <1>2, <2>1, <4>1 DEF Otl!IInv, Otl!BuffersFit, Otl!RowsAligned
      <4>3. call.done < Width => call.done = 0
        BY <1>0, <2>2, <4>2 DEF Otl!HoldsItsBind, Otl!Binding
      <4> QED
        BY <1>0, <2>3, <3>1, <4>1, <4>3 DEF Otl!HoldsItsBind
    <3>2. CASE d # c
      <4>1. stream[d].part = <<>>
        BY <2>2, <2>4, <2>8, <3>2, <1>0, OthersEmpty
      <4> QED
        BY <2>3, <2>4, <3>2, <4>1 DEF Otl!HoldsItsBind, Otl!Binding
    <3> QED
      BY <3>1, <3>2
  <2>9. Otl!AcceptedIsKept'
    <3>1. ASSUME NEW d \in Cursors, ~trouble[d] PROVE connOk'
      BY <1>4, <2>1, <2>4, <3>1 DEF Sound, Otl!AcceptedIsKept
    <3>2. ASSUME NEW d \in Cursors, d # c, ~trouble[d]
          PROVE  Otl!Executable(stream'[d]) /\ \A r \in accepted[d] : Otl!Kept(d, r)'
      BY <2>1, <2>4, <2>5, <3>2, OthersKept
    <3>3. ASSUME ~trouble[c]
          PROVE  /\ Otl!Executable(stream'[c]) /\ \A r \in accepted[c] : Otl!Kept(c, r)'
                 /\ call.done = Width => Otl!Kept(c, call.row)'
      <4>1. /\ Otl!Executable(stream[c]) /\ connOk /\ \A r \in accepted[c] : Otl!Kept(c, r)
            /\ call.done = Width => Otl!Kept(c, call.row)
        BY <2>1, <2>2, <2>4, <3>3, <1>0 DEF Otl!AcceptedIsKept, Otl!Binding
      <4>2. \A r \in 1..MaxRows : Otl!Keeps(stream[c], r) => table'[Otl!Whole(r)] > 0
        BY <1>1, <1>2, <1>4, <2>1, <4>1, FlushKeeps DEF BindFlush
      <4>3. \A r \in 1..binds : table[Otl!Whole(r)] > 0 => table'[Otl!Whole(r)] > 0
        BY <2>1, <2>4, <2>5, GrowsKeeps
      <4>4. \A r \in 1..binds : r \in 1..MaxRows
        BY <2>4, Bounds DEF Otl!TypeOK
      <4>5. \A r \in 1..binds : Otl!Kept(c, r) => Otl!Kept(c, r)'
        BY <4>2, <4>3, <4>4 DEF Otl!Kept
      <4>6. accepted[c] \subseteq 1..binds
        BY <2>1, <2>4 DEF Otl!TypeOK
      <4>7. Otl!Executable(stream'[c])
        BY <1>4, <2>1, <2>4, <4>1 DEF Sound
      <4> QED
        BY <2>3, <4>1, <4>5, <4>6, <4>7
    <3> QED
      BY <2>2, <2>3, <2>4, <3>1, <3>2, <3>3 DEF Otl!AcceptedIsKept, Otl!Binding, Otl!Kept
  <2>10. Otl!ConfirmedIsCommitted'
    BY <2>1, <2>2, <2>5, ConfirmedKept
  <2> QED
    BY <2>1, <2>4, <2>5, <2>6, <2>7, <2>8, <2>9, <2>10, DroppingKeeps, Zenon
<1> QED
  BY <1>3, <1>4

-----------------------------------------------------------------------------
(* A bind writes a value. *)

(* All of a sequence but its last element. *)
LEMMA FrontTyped ==
  ASSUME NEW S, NEW s \in Seq(S), Len(s) > 0
  PROVE  /\ Otl!Front(s) \in Seq(S) /\ Len(Otl!Front(s)) = Len(s) - 1
         /\ \A i \in 1 .. Len(s) - 1 : Otl!Front(s)[i] = s[i]
<1>1. Len(s) \in Nat /\ Len(s) - 1 \in Nat
  OBVIOUS
<1>2. \A i \in 1 .. Len(s) - 1 : s[i] \in S
  BY <1>1
<1>3. Otl!Front(s) = [i \in 1 .. Len(s) - 1 |-> s[i]]
  BY <1>1 DEF Otl!Front
<1> QED
  BY <1>1, <1>2, <1>3

(* The row that a value makes complete: it is a bind's row only when it is *)
(* made of the values of that bind.                                        *)
LEMMA AppendedRow ==
  ASSUME NEW values \in Seq(1..MaxRows), NEW v \in 1..MaxRows, Len(values) + 1 = Width
  PROVE  /\ Append(values, v) \in Otl!AllRows
         /\ \A r : Append(values, v) = Otl!Whole(r) => r = v /\ \A i \in 1..Len(values) : values[i] = v
         /\ (\A i \in 1..Len(values) : values[i] = v) => Append(values, v) = Otl!Whole(v)
<1> DEFINE row == Append(values, v)
<1>1. /\ Len(values) \in Nat /\ row \in Seq(1..MaxRows) /\ Len(row) = Width
      /\ row[Width] = v /\ \A i \in 1..Len(values) : row[i] = values[i]
  OBVIOUS
<1> HIDE DEF row
<1>2. row \in [1..Width -> 1..MaxRows]
  BY <1>1, LenProperties
<1>3. Width \in 1..Width /\ \A i \in 1..Width : i = Width \/ i \in 1..Len(values)
  BY <1>1, Bounds
<1>4. \A i \in 1..Len(values) : i \in 1..Width
  BY <1>1, Bounds
<1>5. ASSUME NEW r, row = Otl!Whole(r)
      PROVE  r = v /\ \A i \in 1..Len(values) : values[i] = v
  <2>1. \A i \in 1..Width : row[i] = r
    BY <1>5 DEF Otl!Whole
  <2> QED
    BY <1>1, <1>3, <1>4, <2>1
<1>6. ASSUME \A i \in 1..Len(values) : values[i] = v
      PROVE  row = Otl!Whole(v)
  <2>1. \A i \in 1..Width : row[i] = v
    BY <1>1, <1>3, <1>6
  <2> QED
    BY <1>2, <2>1 DEF Otl!Whole
<1>7. row \in Otl!AllRows
  BY <1>2 DEF Otl!AllRows
<1> QED
  BY <1>5, <1>6, <1>7 DEF row

(* What a value leaves of a buffer. *)
Extended(of, v) == Append(of.part, v)
Writes(s, of, v) ==
  /\ s \in Otl!Streams /\ SameCursor(s, of)
  /\ Len(s.rows) <= s.size /\ Len(s.part) < Width
  /\ Otl!Full(s) => s.part = <<>>
  /\ \A i \in 1..Len(s.rows) :
       \/ i \in 1..Len(of.rows) /\ s.rows[i] = of.rows[i]
       \/ i = Len(s.rows) /\ Len(of.part) + 1 = Width /\ s.rows[i] = Extended(of, v)
  /\ ~Otl!Full(of) => \A i \in 1..Len(of.rows) : i \in 1..Len(s.rows) /\ s.rows[i] = of.rows[i]
  /\ IF Len(of.part) + 1 = Width
     THEN s.part = <<>> /\ Len(s.rows) \in 1..Len(s.rows) /\ s.rows[Len(s.rows)] = Extended(of, v)
     ELSE s.part = Extended(of, v)

LEMMA WrittenWrites ==
  ASSUME NEW of \in Otl!Streams, NEW v \in 1..MaxRows, of.size > 0,
         Len(of.rows) <= of.size, Len(of.part) < Width, Otl!Full(of) => of.part = <<>>
  PROVE  /\ Writes(Otl!Written(of, v), of, v)
         /\ Otl!Written(of, v).ok = of.ok /\ Otl!Written(of, v).flagged = of.flagged
<1> DEFINE kept == IF Otl!Full(of) THEN Otl!Front(of.rows) ELSE of.rows
           row == Append(of.part, v)
           s == Otl!Written(of, v)
<1>1. /\ of.rows \in Seq(Otl!AllRows) /\ of.part \in Seq(1..MaxRows) /\ of.size \in Nat
      /\ Len(of.rows) \in Nat /\ Len(of.part) \in Nat
  BY DEF Otl!Streams
<1>2. /\ kept \in Seq(Otl!AllRows) /\ Len(kept) \in Nat /\ Len(kept) < of.size /\ Len(kept) <= Len(of.rows)
      /\ \A i \in 1..Len(kept) : i \in 1..Len(of.rows) /\ kept[i] = of.rows[i]
      /\ ~Otl!Full(of) => kept = of.rows
  <2>1. CASE Otl!Full(of)
    <3>1. Len(of.rows) = of.size /\ Len(of.rows) > 0
      BY <1>1, <2>1 DEF Otl!Full
    <3>2. /\ Otl!Front(of.rows) \in Seq(Otl!AllRows) /\ Len(Otl!Front(of.rows)) = Len(of.rows) - 1
          /\ \A i \in 1 .. Len(of.rows) - 1 : Otl!Front(of.rows)[i] = of.rows[i]
      BY <1>1, <3>1, FrontTyped
    <3>3. kept = Otl!Front(of.rows)
      BY <2>1
    <3> HIDE DEF kept
    <3> QED
      BY <1>1, <2>1, <3>1, <3>2, <3>3
  <2>2. CASE ~Otl!Full(of)
    <3>1. Len(of.rows) < of.size
      BY <1>1, <2>2 DEF Otl!Full
    <3> QED
      BY <1>1, <2>2, <3>1
  <2> QED
    BY <2>1, <2>2
<1>3. /\ row \in Seq(1..MaxRows) /\ Len(row) = Len(of.part) + 1
  BY <1>1
<1>4. s = IF Len(row) = Width THEN [of EXCEPT !.rows = Append(kept, row), !.part = <<>>]
          ELSE [of EXCEPT !.rows = kept, !.part = row]
  BY DEF Otl!Written
<1> HIDE DEF kept, s
<1>5. CASE Len(of.part) + 1 = Width
  <2>1. row \in Otl!AllRows
    BY <1>1, <1>5, AppendedRow
  <2> DEFINE rows == Append(kept, row)
  <2>2. /\ rows \in Seq(Otl!AllRows) /\ Len(rows) = Len(kept) + 1 /\ rows[Len(kept) + 1] = row
        /\ \A i \in 1..Len(kept) : rows[i] = kept[i]
    BY <1>2, <2>1
  <2> HIDE DEF rows
  <2>3. <<>> \in Seq(1..MaxRows) /\ Len(<<>>) = 0 /\ 0 < Width
    BY Bounds
  <2>4. s = [of EXCEPT !.rows = rows, !.part = <<>>]
    BY <1>3, <1>4, <1>5 DEF rows
  <2>5. /\ s \in Otl!Streams /\ SameCursor(s, of) /\ s.ok = of.ok /\ s.flagged = of.flagged
        /\ s.rows = rows /\ s.part = <<>> /\ s.size = of.size
    BY <2>2, <2>3, <2>4 DEF Otl!Streams, SameCursor
  <2>6. \A i \in 1..Len(rows) : i \in 1..Len(kept) \/ i = Len(kept) + 1
    BY <1>2, <2>2
  <2>7. Len(rows) <= of.size /\ Len(rows) \in 1..Len(rows)
    BY <1>1, <1>2, <2>2
  <2>8. \A i \in 1..Len(rows) :
          \/ i \in 1..Len(of.rows) /\ rows[i] = of.rows[i]
          \/ i = Len(rows) /\ rows[i] = row
    BY <1>2, <2>2, <2>6
  <2>9. ~Otl!Full(of) => \A i \in 1..Len(of.rows) : i \in 1..Len(rows) /\ rows[i] = of.rows[i]
    BY <1>1, <1>2, <2>2
  <2>10. Extended(of, v) = row
    BY DEF Extended
  <2> HIDE DEF row
  <2>11. \A i \in 1..Len(s.rows) :
           \/ i \in 1..Len(of.rows) /\ s.rows[i] = of.rows[i]
           \/ i = Len(s.rows) /\ Len(of.part) + 1 = Width /\ s.rows[i] = row
    BY <1>5, <2>5, <2>8
  <2>12. ~Otl!Full(of) => \A i \in 1..Len(of.rows) : i \in 1..Len(s.rows) /\ s.rows[i] = of.rows[i]
    BY <2>5, <2>9
  <2>13. s.part = <<>> /\ Len(s.rows) \in 1..Len(s.rows) /\ s.rows[Len(s.rows)] = row
    BY <2>2, <2>5, <2>7
  <2>14. Len(s.rows) <= s.size /\ Len(s.part) < Width
    BY <2>3, <2>5, <2>7
  <2> QED
    BY <1>5, <2>5, <2>10, <2>11, <2>12, <2>13, <2>14 DEF Writes, s
<1>6. CASE Len(of.part) + 1 # Width
  <2>1. s = [of EXCEPT !.rows = kept, !.part = row]
    BY <1>3, <1>4, <1>6
  <2>2. Len(row) < Width
    BY <1>1, <1>3, <1>6, Bounds
  <2> HIDE DEF row
  <2>3. /\ s \in Otl!Streams /\ SameCursor(s, of) /\ s.ok = of.ok /\ s.flagged = of.flagged
        /\ s.rows = kept /\ s.part = row /\ s.size = of.size
    BY <1>2, <1>3, <2>1 DEF Otl!Streams, SameCursor
  <2>4. ~Otl!Full(s) /\ Len(kept) <= of.size
    BY <1>1, <1>2, <2>3 DEF Otl!Full
  <2>5. ~Otl!Full(of) => \A i \in 1..Len(of.rows) : i \in 1..Len(kept) /\ kept[i] = of.rows[i]
    BY <1>2
  <2>6. Extended(of, v) = row
    BY DEF row, Extended
  <2>7. \A i \in 1..Len(s.rows) : i \in 1..Len(of.rows) /\ s.rows[i] = of.rows[i]
    BY <1>2, <2>3
  <2>8. ~Otl!Full(of) => \A i \in 1..Len(of.rows) : i \in 1..Len(s.rows) /\ s.rows[i] = of.rows[i]
    BY <2>3, <2>5
  <2>9. Len(s.rows) <= s.size /\ Len(s.part) < Width
    BY <2>2, <2>3, <2>4
  <2> QED
    BY <1>6, <2>3, <2>4, <2>6, <2>7, <2>8, <2>9 DEF Writes, s
<1> QED
  BY <1>5, <1>6 DEF s

(* A value is written to s1, which a flush has left of the buffer, and      *)
(* leaves s2.                                                              *)
Writing(c, s1, s2) ==
  /\ ~Otl!Idle /\ c = call.cursor /\ call.done < Width
  /\ s1 \in Otl!Streams /\ Drops(s1, stream[c]) /\ Writes(s2, s1, call.row)
  /\ Otl!Executable(s2) => Otl!Executable(s1) /\ s1.part = stream[c].part /\ ~Otl!Full(s1)
  /\ stream' = [stream EXCEPT ![c] = s2]
  /\ Sourced /\ Grows /\ (failures' = 0 => Once([stream EXCEPT ![c] = s1], Otl!Stored'))
  /\ UNCHANGED <<binds, raised, accepted, confirmed, connected>>
  /\ \/ call' = Otl!NoCall /\ ~Otl!Executable(s2)
     \/ call' = [call EXCEPT !.done = @ + 1, !.check = Otl!Full(s2)]

(* Where the streams are. *)
LEMMA WritingPlaces ==
  ASSUME Otl!IInv, NEW c, NEW s1, NEW s2, Writing(c, s1, s2)
  PROVE  /\ c \in Cursors /\ c = call.cursor /\ call.row \in 1..binds /\ call.row \in 1..MaxRows
         /\ call.done \in 0..Width /\ call.done < Width
         /\ stream \in [Cursors -> Otl!Streams] /\ stream'[c] = s2
         /\ \A d \in Cursors : d # c => stream'[d] = stream[d]
         /\ s1 \in Otl!Streams /\ s2 \in Otl!Streams
         /\ Len(s1.rows) \in Nat /\ Len(s1.part) \in Nat /\ s1.part \in Seq(1..MaxRows)
         /\ Len(s2.rows) \in Nat /\ Len(s2.part) \in Nat
<1>1. /\ c \in Cursors /\ c = call.cursor /\ call.row \in 1..binds /\ call.row \in 1..MaxRows
      /\ call.done \in 0..Width /\ call.done < Width
  BY CallTyped DEF Writing, Otl!IInv
<1>2. stream \in [Cursors -> Otl!Streams] /\ s1 \in Otl!Streams /\ s2 \in Otl!Streams
  BY DEF Writing, Writes, Otl!IInv, Otl!TypeOK
<1>3. stream'[c] = s2 /\ \A d \in Cursors : d # c => stream'[d] = stream[d]
  BY <1>1, <1>2 DEF Writing
<1>4. /\ Len(s1.rows) \in Nat /\ Len(s1.part) \in Nat /\ s1.part \in Seq(1..MaxRows)
      /\ Len(s2.rows) \in Nat /\ Len(s2.part) \in Nat
  BY <1>2 DEF Otl!Streams
<1> QED
  BY <1>1, <1>2, <1>3, <1>4

(* The call after the value. *)
LEMMA WritingCall ==
  ASSUME Otl!IInv, NEW c, NEW s1, NEW s2, Writing(c, s1, s2)
  PROVE  \/ Otl!Idle' /\ call' = Otl!NoCall /\ ~Otl!Executable(s2) /\ ~call'.check
         \/ /\ ~Otl!Idle' /\ call'.cursor = c /\ call'.row = call.row /\ call'.done = call.done + 1
            /\ call'.check <=> Otl!Full(s2)
            /\ call' \in [cursor : Cursors, row : 1..binds, done : 0..Width, check : BOOLEAN]
<1>1. call \in [cursor : Cursors, row : 1..binds, done : 0..Width, check : BOOLEAN] /\ c = call.cursor
  BY CallTyped DEF Writing, Otl!IInv
<1>2. ASSUME call' = Otl!NoCall PROVE Otl!Idle' /\ ~call'.check
  BY <1>2 DEF Otl!Idle, Otl!NoCall
<1>3. ASSUME call' = [call EXCEPT !.done = @ + 1, !.check = Otl!Full(s2)]
      PROVE  /\ ~Otl!Idle' /\ call'.cursor = c /\ call'.row = call.row /\ call'.done = call.done + 1
             /\ call'.check <=> Otl!Full(s2)
             /\ call' \in [cursor : Cursors, row : 1..binds, done : 0..Width, check : BOOLEAN]
  <2>1. call.done + 1 \in 0..Width /\ Otl!Full(s2) \in BOOLEAN
    <3>1. call.done < Width /\ call.done \in 0..Width
      BY WritingPlaces
    <3> QED
      BY <3>1, Bounds DEF Otl!Full
  <2>2. /\ call'.cursor = c /\ call'.row = call.row /\ call'.done = call.done + 1
        /\ call'.check = Otl!Full(s2)
        /\ call' \in [cursor : Cursors, row : 1..binds, done : 0..Width, check : BOOLEAN]
    BY <1>1, <1>3, <2>1
  <2>3. call'.row # 0
    BY <2>2, WritingPlaces
  <2> QED
    BY <2>2, <2>3 DEF Otl!Idle, Otl!NoCall
<1> QED
  BY <1>2, <1>3 DEF Writing

(* The row that the value makes complete. *)
LEMMA WritingMade ==
  ASSUME Otl!IInv, NEW c, NEW s1, NEW s2, Writing(c, s1, s2), Len(s1.part) + 1 = Width,
         NEW r, Append(s1.part, call.row) = Otl!Whole(r)
  PROVE  r = call.row /\ \A k \in 1..Len(s1.part) : s1.part[k] = call.row
<1>1. s1.part \in Seq(1..MaxRows) /\ call.row \in 1..MaxRows
  BY WritingPlaces
<1> QED
  BY <1>1, AppendedRow

(* A buffer that a value was written to has no rows but those that it had, *)
(* and the one that the value may make complete.                           *)
LEMMA WritingRows ==
  ASSUME Otl!IInv, NEW c, NEW s1, NEW s2, Writing(c, s1, s2)
  PROVE  /\ \A r \in 1..MaxRows : Otl!Keeps(s2, r) =>
              Otl!Keeps(s1, r) \/ (r = call.row /\ call.done + 1 = Width)
         /\ (\A i \in 1..Len(s1.part) : s1.part[i] = call.row) => Len(s1.part) <= call.done
         /\ \A i \in 1..Len(s1.part) : i \in 1..Len(stream[c].part) /\ s1.part[i] = stream[c].part[i]
<1>1. /\ c \in Cursors /\ c = call.cursor /\ call.row \in 1..MaxRows /\ call.done \in 0..Width /\ call.done < Width
      /\ Len(s1.part) \in Nat /\ s1.part \in Seq(1..MaxRows) /\ Len(s1.rows) \in Nat
  BY WritingPlaces
<1>2. s1.part = stream[c].part \/ s1.part = <<>>
  BY DEF Writing, Drops, Otl!IsEmpty
<1>3. (\A i \in 1..Len(s1.part) : s1.part[i] = call.row) => Len(s1.part) <= call.done
  <2>1. CASE s1.part = <<>>
    BY <1>1, <2>1
  <2>2. CASE s1.part = stream[c].part
    BY <1>1, <2>2 DEF Writing, Otl!Binding, Otl!IInv, Otl!NotYetWhole
  <2> QED
    BY <1>2, <2>1, <2>2
<1>4. ASSUME NEW r \in 1..MaxRows, Otl!Keeps(s2, r)
      PROVE  Otl!Keeps(s1, r) \/ (r = call.row /\ call.done + 1 = Width)
  <2>1. PICK i \in 1..Len(s2.rows) : s2.rows[i] = Otl!Whole(r)
    BY <1>4 DEF Otl!Keeps
  <2>2. CASE i \in 1..Len(s1.rows) /\ s2.rows[i] = s1.rows[i]
    BY <2>1, <2>2 DEF Otl!Keeps
  <2>3. CASE Len(s1.part) + 1 = Width /\ s2.rows[i] = Extended(s1, call.row)
    <3>1. Append(s1.part, call.row) = Otl!Whole(r)
      BY <2>1, <2>3 DEF Extended
    <3>2. r = call.row /\ \A k \in 1..Len(s1.part) : s1.part[k] = call.row
      BY <1>1, <2>3, <3>1, AppendedRow
    <3>3. Len(s1.part) <= call.done
      BY <1>3, <3>2
    <3> QED
      BY <1>1, <2>3, <3>2, <3>3, Bounds
  <2> QED
    BY <2>2, <2>3 DEF Writing, Writes
<1>5. \A i \in 1..Len(s1.part) : i \in 1..Len(stream[c].part) /\ s1.part[i] = stream[c].part[i]
  BY <1>2
<1> QED
  BY <1>3, <1>4, <1>5

(* The row of the bind under way is nowhere before its last value. *)
LEMMA RowNowhere ==
  ASSUME Otl!IInv, Otl!TypeOK', NEW c, NEW s1, NEW s2, Writing(c, s1, s2), NEW r \in 1..MaxRows, Otl!Incomplete(r)
  PROVE  /\ Otl!Stored'[Otl!Whole(r)] = 0 /\ ~Otl!Keeps(s1, r)
         /\ \A d \in Cursors : ~Otl!Keeps(stream[d], r)
<1>1. Otl!Times(r) = 0 /\ \A d \in Cursors : ~Otl!Keeps(stream[d], r)
  BY DEF Otl!IInv, Otl!NotYetWhole
<1>2. ~Otl!Keeps(s1, r)
  BY <1>1, WritingPlaces, DropsKeeps DEF Writing
<1>3. Otl!Whole(r) \in Otl!AllRows
  BY WholeRow
<1>4. ~(Otl!Stored'[Otl!Whole(r)] > 0)
  BY <1>1, <1>3 DEF Writing, Sourced, Otl!Keeps, Otl!Times
<1>5. Otl!Stored'[Otl!Whole(r)] \in Nat
  BY <1>3, StoredTyped
<1> QED
  BY <1>1, <1>2, <1>4, <1>5

(* Each row is still stored once, or is at one place in one buffer. *)
LEMMA WritingOnce ==
  ASSUME Otl!IInv, Otl!TypeOK', NEW c, NEW s1, NEW s2, Writing(c, s1, s2), failures' = 0
  PROVE  Once(stream', Otl!Stored')
<1> DEFINE st == [stream EXCEPT ![c] = s1]
<1>1. /\ c \in Cursors /\ stream'[c] = s2 /\ call.row \in 1..MaxRows
      /\ \A d \in Cursors : d # c => stream'[d] = stream[d]
      /\ stream \in [Cursors -> Otl!Streams]
      /\ Len(s1.rows) \in Nat /\ Len(s2.rows) \in Nat
  BY WritingPlaces
<1>2. st[c] = s1 /\ \A d \in Cursors : d # c => st[d] = stream[d]
  BY <1>1
<1>3. Once(st, Otl!Stored')
  BY DEF Writing
<1> HIDE DEF st
<1>4. Otl!Incomplete(call.row)
  BY DEF Writing, Otl!Incomplete
<1>5. SUFFICES ASSUME NEW r \in 1..MaxRows
               PROVE  /\ Otl!Stored'[Otl!Whole(r)] <= 1
                      /\ \A d \in Cursors : InBuffer(stream'[d], r) =>
                           /\ Otl!Stored'[Otl!Whole(r)] = 0 /\ AtOnePlace(stream'[d], r)
                           /\ \A e \in Cursors : InBuffer(stream'[e], r) => d = e
  BY DEF Once
<1>6. /\ Otl!Stored'[Otl!Whole(r)] <= 1
      /\ \A d \in Cursors : InBuffer(st[d], r) =>
           /\ Otl!Stored'[Otl!Whole(r)] = 0 /\ AtOnePlace(st[d], r)
           /\ \A e \in Cursors : InBuffer(st[e], r) => d = e
  BY <1>3 DEF Once
<1>7. CASE r = call.row
  <2>1. /\ Otl!Stored'[Otl!Whole(r)] = 0 /\ ~Otl!Keeps(s1, r)
        /\ \A d \in Cursors : ~Otl!Keeps(stream[d], r)
    BY <1>1, <1>4, <1>7, RowNowhere
  <2>2. \A d \in Cursors : InBuffer(stream'[d], r) => d = c
    BY <1>1, <2>1 DEF InBuffer
  <2>3. AtOnePlace(s2, r)
    <3>1. \A i \in 1..Len(s2.rows) : s2.rows[i] = Otl!Whole(r) => i = Len(s2.rows)
      BY <2>1 DEF Writing, Writes, Otl!Keeps
    <3> QED
      BY <1>1, <3>1 DEF AtOnePlace
  <2> QED
    BY <1>1, <2>1, <2>2, <2>3
<1>8. CASE r # call.row
  <2>1. Otl!Keeps(s2, r) => Otl!Keeps(s1, r)
    BY <1>8, WritingRows
  <2>2. InBuffer(s2, r) => InBuffer(s1, r)
    BY <2>1 DEF InBuffer, Writing
  <2>3. ASSUME InBuffer(s2, r), AtOnePlace(s1, r) PROVE AtOnePlace(s2, r)
    <3>1. ASSUME NEW i \in 1..Len(s2.rows), s2.rows[i] = Otl!Whole(r)
          PROVE  i \in 1..Len(s1.rows) /\ s1.rows[i] = Otl!Whole(r)
      <4>1. CASE i \in 1..Len(s1.rows) /\ s2.rows[i] = s1.rows[i]
        BY <3>1, <4>1
      <4>2. CASE Len(s1.part) + 1 = Width /\ s2.rows[i] = Extended(s1, call.row)
        <5>1. Append(s1.part, call.row) = Otl!Whole(r)
          BY <3>1, <4>2 DEF Extended
        <5>2. r = call.row
          BY <5>1, <4>2, WritingMade
        <5> QED
          BY <1>8, <5>2
      <4> QED
        BY <4>1, <4>2 DEF Writing, Writes
    <3> QED
      BY <2>3, <3>1 DEF AtOnePlace
  <2>4. \A d \in Cursors : InBuffer(stream'[d], r) => InBuffer(st[d], r)
    BY <1>1, <1>2, <2>2
  <2>5. ASSUME NEW d \in Cursors, InBuffer(stream'[d], r), AtOnePlace(st[d], r)
        PROVE  AtOnePlace(stream'[d], r)
    BY <1>1, <1>2, <2>3, <2>5
  <2> QED
    BY <1>6, <2>4, <2>5
<1> QED
  BY <1>7, <1>8

(* A row that is not complete is still nowhere. *)
LEMMA WritingNotYet ==
  ASSUME Otl!IInv, Otl!TypeOK', NEW c, NEW s1, NEW s2, Writing(c, s1, s2)
  PROVE  Otl!NotYetWhole'
<1>1. /\ c \in Cursors /\ c = call.cursor /\ call.row \in 1..binds /\ call.row \in 1..MaxRows
      /\ call.done \in 0..Width /\ call.done < Width
      /\ stream'[c] = s2 /\ \A d \in Cursors : d # c => stream'[d] = stream[d]
      /\ Len(s1.part) \in Nat /\ s1.part \in Seq(1..MaxRows) /\ binds' = binds
      /\ binds \in Nat
  <2>1. binds' = binds /\ call.row \in 1..binds
    BY WritingPlaces DEF Writing
  <2>2. binds \in Nat
    BY Bounds DEF Otl!IInv, Otl!TypeOK
  <2> QED
    BY <2>1, <2>2, WritingPlaces
<1>2. \/ Otl!Idle'
      \/ ~Otl!Idle' /\ call'.cursor = c /\ call'.row = call.row /\ call'.done = call.done + 1
  BY WritingCall
<1>3. /\ \A r \in 1..MaxRows : Otl!Keeps(s2, r) =>
           Otl!Keeps(s1, r) \/ (r = call.row /\ call.done + 1 = Width)
      /\ (\A i \in 1..Len(s1.part) : s1.part[i] = call.row) => Len(s1.part) <= call.done
      /\ \A i \in 1..Len(s1.part) : i \in 1..Len(stream[c].part) /\ s1.part[i] = stream[c].part[i]
  BY WritingRows
<1>4. s2.part = <<>> \/ s2.part = Append(s1.part, call.row)
  BY DEF Writing, Writes, Extended
<1>5. /\ \A d \in Cursors : \A i \in 1..Len(stream[d].part) :
           stream[d].part[i] <= binds /\ (stream[d].part[i] = call.row => c = d)
  BY <1>1 DEF Writing, Otl!IInv, Otl!NotYetWhole
<1>6. ASSUME NEW r \in 1..MaxRows, Otl!Incomplete(r)'
      PROVE  Otl!Times(r)' = 0 /\ \A d \in Cursors : ~Otl!Keeps(stream'[d], r)
  <2>1. r > binds \/ (r = call.row /\ call.done + 1 < Width)
    BY <1>1, <1>2, <1>6 DEF Otl!Incomplete
  <2>2. Otl!Incomplete(r)
    BY <1>1, <2>1 DEF Writing, Otl!Incomplete
  <2>3. /\ Otl!Stored'[Otl!Whole(r)] = 0 /\ ~Otl!Keeps(s1, r)
        /\ \A d \in Cursors : ~Otl!Keeps(stream[d], r)
    BY <2>2, RowNowhere
  <2>4. ~Otl!Keeps(s2, r)
    <3>1. ~(r = call.row /\ call.done + 1 = Width)
      BY <1>1, <2>1, Bounds
    <3> QED
      BY <1>3, <2>3, <3>1
  <2> QED
    BY <1>1, <2>3, <2>4 DEF Otl!Times
<1>7. ASSUME NEW i \in 1..Len(s2.part)
      PROVE  s2.part[i] <= binds /\ (i = Len(s1.part) + 1 => s2.part[i] = call.row)
             /\ (i # Len(s1.part) + 1 => i \in 1..Len(s1.part) /\ s2.part[i] = s1.part[i])
  <2>1. s2.part = Append(s1.part, call.row) /\ i \in 1 .. Len(s1.part) + 1
    BY <1>1, <1>4, <1>7
  <2>2. CASE i = Len(s1.part) + 1
    BY <1>1, <2>1, <2>2
  <2>3. CASE i # Len(s1.part) + 1
    <3>1. i \in 1..Len(s1.part)
      BY <1>1, <2>1, <2>3
    <3>2. s2.part[i] = s1.part[i]
      BY <1>1, <2>1, <3>1
    <3> QED
      BY <1>3, <1>5, <1>1, <2>3, <3>1, <3>2
  <2> QED
    BY <2>2, <2>3
<1>8. ASSUME NEW d \in Cursors, NEW i \in 1..Len(stream'[d].part)
      PROVE  stream'[d].part[i] <= binds' /\ (~Otl!Idle' /\ stream'[d].part[i] = call'.row => call'.cursor = d)
  <2>1. CASE d = c
    BY <1>1, <1>2, <1>7, <1>8, <2>1
  <2>2. CASE d # c
    BY <1>1, <1>2, <1>5, <1>8, <2>2
  <2> QED
    BY <2>1, <2>2
<1>9. ASSUME NEW d \in Cursors, Otl!Binding(d)',
             \A i \in 1..Len(stream'[d].part) : stream'[d].part[i] = call'.row
      PROVE  Len(stream'[d].part) <= call'.done
  <2>1. d = c /\ call'.row = call.row /\ call'.done = call.done + 1
    BY <1>2, <1>9 DEF Otl!Binding
  <2>2. CASE s2.part = <<>>
    BY <1>1, <2>1, <2>2
  <2>3. CASE s2.part = Append(s1.part, call.row)
    <3>1. Len(s2.part) = Len(s1.part) + 1 /\ \A i \in 1..Len(s1.part) : s2.part[i] = s1.part[i] /\ i \in 1..Len(s2.part)
      BY <1>1, <2>3
    <3>2. \A i \in 1..Len(s1.part) : s1.part[i] = call.row
      BY <1>1, <1>9, <2>1, <3>1
    <3> QED
      BY <1>1, <1>3, <2>1, <3>1, <3>2
  <2> QED
    BY <1>4, <2>2, <2>3
<1>10. Otl!NotYetWhole' <=>
        /\ \A r \in 1..MaxRows : Otl!Incomplete(r)' =>
             Otl!Times(r)' = 0 /\ \A d \in Cursors : ~Otl!Keeps(stream'[d], r)
        /\ \A d \in Cursors : \A i \in 1..Len(stream'[d].part) :
             stream'[d].part[i] <= binds' /\ (~Otl!Idle' /\ stream'[d].part[i] = call'.row => call'.cursor = d)
        /\ \A d \in Cursors : Otl!Binding(d)' =>
             ((\A i \in 1..Len(stream'[d].part) : stream'[d].part[i] = call'.row)
                => Len(stream'[d].part) <= call'.done)
  BY DEF Otl!NotYetWhole
<1> QED
  BY <1>6, <1>8, <1>9, <1>10

(* The errors that the writing of a value leaves. *)
WritesSafely(c, s1, s2) ==
  /\ Otl!Executable(s2) => Otl!Executable(stream[c])
  /\ \A d \in Cursors : trouble[d] => trouble'[d]
  /\ \A d \in Cursors : ~trouble'[d] => connOk'
  /\ ~trouble'[c] =>
       /\ Otl!Executable(s2)
       /\ \A r \in 1..MaxRows : Otl!Keeps(stream[c], r) => table'[Otl!Whole(r)] > 0 \/ Otl!Keeps(s1, r)

(* The value completes the row that its bind has begun, or continues it. *)
LEMMA WritingBind ==
  ASSUME Otl!IInv, NEW c, NEW s1, NEW s2, Writing(c, s1, s2), WritesSafely(c, s1, s2),
         Otl!Executable(s2), ~raised \/ ~trouble[c]
  PROVE  /\ Otl!HoldsWholeRows(c) /\ ~Otl!Idle' /\ call'.cursor = c /\ call'.row = call.row
         /\ call'.done = call.done + 1 /\ Len(s1.part) = call.done /\ Extended(s1, call.row) = Append(s1.part, call.row)
         /\ \A i \in 1..Len(s1.part) : s1.part[i] = call.row
         /\ Len(s1.part) + 1 = Width => Extended(s1, call.row) = Otl!Whole(call.row)
<1>1. /\ c \in Cursors /\ c = call.cursor /\ call.row \in 1..MaxRows /\ call.done \in 0..Width /\ call.done < Width
      /\ s1.part \in Seq(1..MaxRows)
  BY WritingPlaces
<1>2. Otl!Executable(stream[c]) /\ s1.part = stream[c].part /\ ~Otl!Idle
  BY DEF Writing, WritesSafely
<1>3. Otl!HoldsWholeRows(c) /\ Otl!HoldsItsBind(c)
  BY <1>1, <1>2 DEF Otl!IInv, Otl!RowsAligned
<1>4. Len(s1.part) = call.done /\ \A i \in 1..Len(s1.part) : s1.part[i] = call.row
  BY <1>1, <1>2, <1>3 DEF Otl!HoldsItsBind, Otl!Binding
<1>5. Len(s1.part) + 1 = Width => Append(s1.part, call.row) = Otl!Whole(call.row)
  BY <1>1, <1>4, AppendedRow
<1>6. ~Otl!Idle' /\ call'.cursor = c /\ call'.row = call.row /\ call'.done = call.done + 1
  BY WritingCall
<1> QED
  BY <1>3, <1>4, <1>5, <1>6 DEF Extended

(* The buffers hold the rows of binds. *)
LEMMA WritingAligned ==
  ASSUME Otl!IInv, NEW c, NEW s1, NEW s2, Writing(c, s1, s2), WritesSafely(c, s1, s2)
  PROVE  Otl!RowsAligned'
<1>1. /\ c \in Cursors /\ c = call.cursor /\ call.row \in 1..binds /\ call.row \in 1..MaxRows
      /\ call.done \in 0..Width /\ call.done < Width /\ Width \in Nat
      /\ stream'[c] = s2 /\ \A d \in Cursors : d # c => stream'[d] = stream[d]
      /\ Len(s1.part) \in Nat /\ s1.part \in Seq(1..MaxRows)
      /\ binds' = binds /\ raised' = raised /\ ~Otl!Idle
  BY WritingPlaces, Bounds DEF Writing
<1>2. ASSUME Otl!Executable(s2), ~raised \/ ~trouble'[c]
      PROVE  Otl!HoldsWholeRows(c)' /\ Otl!HoldsItsBind(c)'
  <2>1. ~raised \/ ~trouble[c]
    BY <1>1, <1>2 DEF WritesSafely
  <2>2. /\ Otl!HoldsWholeRows(c) /\ ~Otl!Idle' /\ call'.cursor = c /\ call'.row = call.row
        /\ call'.done = call.done + 1 /\ Len(s1.part) = call.done /\ Extended(s1, call.row) = Append(s1.part, call.row)
        /\ \A i \in 1..Len(s1.part) : s1.part[i] = call.row
        /\ Len(s1.part) + 1 = Width => Extended(s1, call.row) = Otl!Whole(call.row)
    BY <1>2, <2>1, WritingBind
  <2>3. ASSUME NEW i \in 1..Len(s2.rows) PROVE \E r \in 1..binds : s2.rows[i] = Otl!Whole(r)
    <3>1. CASE i \in 1..Len(s1.rows) /\ s2.rows[i] = s1.rows[i]
      <4>1. s1.rows = stream[c].rows
        BY <3>1 DEF Writing, Drops, Otl!IsEmpty
      <4> QED
        BY <2>2, <3>1, <4>1 DEF Otl!HoldsWholeRows
    <3>2. CASE Len(s1.part) + 1 = Width /\ s2.rows[i] = Extended(s1, call.row)
      BY <1>1, <2>2, <3>2
    <3> QED
      BY <3>1, <3>2 DEF Writing, Writes
  <2>4. CASE Len(s1.part) + 1 = Width
    <3>1. s2.part = <<>> /\ ~(call'.done < Width)
      BY <1>1, <2>2, <2>4 DEF Writing, Writes
    <3> QED
      BY <1>1, <2>3, <3>1 DEF Otl!HoldsWholeRows, Otl!HoldsItsBind
  <2>5. CASE Len(s1.part) + 1 # Width
    <3>1. s2.part = Append(s1.part, call.row)
      BY <2>2, <2>5 DEF Writing, Writes
    <3>2. Len(s2.part) = call.done + 1 /\ \A i \in 1 .. call.done + 1 : s2.part[i] = call.row
      BY <1>1, <2>2, <3>1
    <3>3. call'.done < Width
      BY <1>1, <2>2, <2>5
    <3> QED
      BY <1>1, <2>2, <2>3, <3>2, <3>3 DEF Otl!HoldsWholeRows, Otl!HoldsItsBind, Otl!Binding
  <2> QED
    BY <2>4, <2>5
<1>3. ASSUME NEW d \in Cursors, d # c, Otl!Executable(stream[d]), ~raised \/ ~trouble'[d]
      PROVE  Otl!HoldsWholeRows(d)' /\ Otl!HoldsItsBind(d)'
  <2>1. ~raised \/ ~trouble[d]
    BY <1>3 DEF WritesSafely
  <2>2. Otl!HoldsWholeRows(d) /\ stream[d].part = <<>>
    BY <1>1, <1>3, <2>1, OthersEmpty
  <2>3. ~Otl!Binding(d)'
    BY <1>3, WritingCall DEF Otl!Binding
  <2> QED
    BY <1>1, <1>3, <2>2, <2>3 DEF Otl!HoldsWholeRows, Otl!HoldsItsBind
<1> QED
  BY <1>1, <1>2, <1>3 DEF Otl!RowsAligned

(* What binds returned true for is kept. *)
LEMMA WritingAccepted ==
  ASSUME Otl!IInv, Otl!TypeOK', NEW c, NEW s1, NEW s2, Writing(c, s1, s2), WritesSafely(c, s1, s2)
  PROVE  Otl!AcceptedIsKept'
<1>1. /\ c \in Cursors /\ c = call.cursor /\ call.row \in 1..binds /\ call.row \in 1..MaxRows
      /\ call.done \in 0..Width /\ call.done < Width /\ Width \in Nat
      /\ stream'[c] = s2 /\ \A d \in Cursors : d # c => stream'[d] = stream[d]
      /\ Len(s1.part) \in Nat
      /\ binds' = binds /\ accepted' = accepted /\ ~Otl!Idle /\ connected' = connected
  BY WritingPlaces, Bounds DEF Writing
<1>2. connected'
  BY <1>1 DEF Otl!IInv, Otl!AcceptedIsKept
<1>3. ASSUME NEW d \in Cursors, d # c, ~trouble'[d]
      PROVE  /\ Otl!Executable(stream'[d]) /\ connOk' /\ \A r \in accepted'[d] : Otl!Kept(d, r)'
             /\ ~Otl!Binding(d)'
  <2>1. ~trouble[d] /\ connOk'
    BY <1>3 DEF WritesSafely
  <2>2. Otl!Executable(stream'[d]) /\ \A r \in accepted[d] : Otl!Kept(d, r)'
    BY <1>1, <1>3, <2>1, OthersKept DEF Writing
  <2>3. ~Otl!Binding(d)'
    BY <1>3, WritingCall DEF Otl!Binding
  <2> QED
    BY <1>1, <2>1, <2>2, <2>3
<1>4. ASSUME ~trouble'[c]
      PROVE  /\ Otl!Executable(s2) /\ connOk' /\ \A r \in accepted[c] : Otl!Kept(c, r)'
             /\ call'.row = call.row /\ (call'.done = Width => Otl!Keeps(s2, call.row))
  <2>1. /\ ~trouble[c] /\ connOk' /\ Otl!Executable(s2)
        /\ \A r \in 1..MaxRows : Otl!Keeps(stream[c], r) => table'[Otl!Whole(r)] > 0 \/ Otl!Keeps(s1, r)
    BY <1>1, <1>4 DEF WritesSafely
  <2>2. \A r \in accepted[c] : Otl!Kept(c, r)
    BY <1>1, <2>1 DEF Otl!IInv, Otl!AcceptedIsKept
  <2>3. \A r \in accepted[c] : r \in 1..binds /\ r \in 1..MaxRows
    BY <1>1, Bounds DEF Otl!IInv, Otl!TypeOK
  <2>4. \A r \in 1..binds : table[Otl!Whole(r)] > 0 => table'[Otl!Whole(r)] > 0
    BY GrowsKeeps DEF Otl!IInv, Writing
  <2>5. \A r : Otl!Keeps(s1, r) => Otl!Keeps(s2, r)
    BY <2>1 DEF Writing, Writes, Otl!Keeps
  <2>6. \A r \in accepted[c] : table'[Otl!Whole(r)] > 0 \/ Otl!Keeps(s2, r)
    BY <2>1, <2>2, <2>3, <2>4, <2>5 DEF Otl!Kept
  <2>7. /\ call'.done = call.done + 1 /\ Len(s1.part) = call.done /\ call'.row = call.row
        /\ Len(s1.part) + 1 = Width => Extended(s1, call.row) = Otl!Whole(call.row)
    BY <2>1, WritingBind
  <2>8. call'.done = Width => Otl!Keeps(s2, call.row)
    BY <1>1, <2>7 DEF Writing, Writes, Otl!Keeps
  <2> QED
    BY <1>1, <2>1, <2>6, <2>7, <2>8 DEF Otl!Kept
<1>5. ASSUME NEW d \in Cursors, ~trouble'[d]
      PROVE  /\ Otl!Executable(stream'[d]) /\ connOk' /\ \A r \in accepted'[d] : Otl!Kept(d, r)'
             /\ Otl!Binding(d)' /\ call'.done = Width => Otl!Kept(d, call.row)'
  <2>1. CASE d = c
    BY <1>1, <1>4, <1>5, <2>1 DEF Otl!Kept
  <2>2. CASE d # c
    BY <1>3, <1>5, <2>2
  <2> QED
    BY <2>1, <2>2
<1> QED
  BY <1>2, <1>5 DEF Otl!AcceptedIsKept

(* Whatever becomes of it, the writing of a value keeps the invariant. *)
LEMMA WritingKeeps ==
  ASSUME Otl!IInv, Otl!TypeOK', NEW c, NEW s1, NEW s2, Writing(c, s1, s2), WritesSafely(c, s1, s2),
         UNCHANGED status, s1.size > 0
  PROVE  Otl!IInv'
<1>1. /\ c \in Cursors /\ c = call.cursor
      /\ stream'[c] = s2 /\ \A d \in Cursors : d # c => stream'[d] = stream[d]
  BY WritingPlaces
<1>2. /\ s2.size > 0 /\ (Otl!Full(s2) => s2.part = <<>>)
  BY DEF Writing, Writes, SameCursor
<1>3. Otl!BuffersFit'
  BY <1>1, <1>2, WritingCall DEF Otl!IInv, Otl!BuffersFit
<1>4. Otl!StatusMatchesConnection'
  BY DEF Writing, Otl!IInv, Otl!StatusMatchesConnection
<1>5. Otl!RowsAreWhole'
  BY SourcedWhole DEF Writing
<1>6. Otl!RowsAligned'
  BY WritingAligned
<1>7. Otl!NotYetWhole'
  BY WritingNotYet
<1>8. Otl!KeptOnce'
  <2>1. failures' = 0 => Once(stream', Otl!Stored')
    BY WritingOnce
  <2> QED
    BY <2>1 DEF Otl!KeptOnce, Once, InBuffer, AtOnePlace, Otl!Times
<1>9. Otl!AcceptedIsKept'
  BY WritingAccepted
<1>10. Otl!ConfirmedIsCommitted'
  BY ConfirmedKept DEF Writing
<1> QED
  BY <1>3, <1>4, <1>5, <1>6, <1>7, <1>8, <1>9, <1>10 DEF Otl!IInv

(* The stream that a value has been written to may be the cursor's. *)
LEMMA WritesFits ==
  ASSUME Otl!TypeOK, NEW c \in Cursors, NEW s1, NEW s2, Fits(c, s1), Writes(s2, s1, call.row)
  PROVE  Fits(c, s2)
BY DEF Fits, Writes, SameCursor

(* A value is written after a flush that reports nothing. *)
LEMMA WrittenAfterFlush ==
  ASSUME Otl!IInv, NEW c, NEW o, BindFlush(c, o), ~o.throws, Otl!Full(stream[c]), call.done < Width,
         UNCHANGED <<status, trouble>>,
         stream' = [stream EXCEPT ![c] = Otl!Written(o.stream, call.row)],
         call' = [call EXCEPT !.done = @ + 1, !.check = Otl!Full(Otl!Written(o.stream, call.row))]
  PROVE  Otl!IInv'
<1> DEFINE s1 == o.stream
           s2 == Otl!Written(o.stream, call.row)
<1>1. /\ c \in Cursors /\ Sound(o, stream[c]) /\ Fits(c, s1) /\ Grows /\ Sourced
      /\ connOk' = o.ok /\ connOk' \in BOOLEAN /\ failures' \in 0..MaxFailures
      /\ pending' \in [Otl!AllRows -> Nat] /\ table' \in [Otl!AllRows -> Nat]
      /\ failures' = 0 => Once([stream EXCEPT ![c] = s1], Otl!Stored')
      /\ Otl!Full(s1) => s1.part = <<>>
      /\ s1.size > 0
  BY BindFlushed
<1>2. /\ ~Otl!Idle /\ c = call.cursor /\ Otl!TypeOK
      /\ UNCHANGED <<connected, autoCommit, session, alive, object, batch, binds, raised, accepted, confirmed>>
  BY DEF BindFlush, Otl!IInv
<1>3. /\ call \in [cursor : Cursors, row : 1..binds, done : 0..Width, check : BOOLEAN]
      /\ call.row \in 1..MaxRows /\ call.done \in 0..Width
  BY <1>2, CallTyped
<1>4. s1 \in Otl!Streams /\ Len(s1.rows) <= s1.size /\ Len(s1.part) < Width
  BY <1>1 DEF Fits
<1>5. Writes(s2, s1, call.row) /\ s2.ok = s1.ok /\ s2.flagged = s1.flagged
  BY <1>1, <1>3, <1>4, WrittenWrites
<1>6. Fits(c, s2)
  BY <1>1, <1>2, <1>5, WritesFits
<1> HIDE DEF s1, s2
<1>7. /\ Otl!Executable(s1) <=> Otl!Executable(stream[c])
      /\ Otl!Executable(stream[c]) => Otl!IsEmpty(s1)
      /\ connOk => connOk'
      /\ Drops(s1, stream[c])
  BY <1>1 DEF Sound, s1
<1>8. Otl!Executable(s2) <=> Otl!Executable(s1)
  BY <1>5 DEF Otl!Executable
<1>9. stream[c].part = <<>>
  BY <1>1 DEF Otl!IInv, Otl!BuffersFit
<1>10. call' = [call EXCEPT !.done = @ + 1, !.check = Otl!Full(s2)] /\ stream' = [stream EXCEPT ![c] = s2]
  BY DEF s2
<1>11. Otl!IsEmpty(s1) => s1.part = <<>> /\ ~Otl!Full(s1)
  BY <1>1 DEF Otl!IsEmpty, Otl!Full
<1>12. Writing(c, s1, s2)
  <2>1. failures' = 0 => Once([stream EXCEPT ![c] = s1], Otl!Stored')
    BY <1>1 DEF s1
  <2> QED
    BY <1>1, <1>2, <1>4, <1>5, <1>7, <1>8, <1>9, <1>10, <1>11, <2>1 DEF Writing
<1>13. WritesSafely(c, s1, s2)
  <2>1. \A d \in Cursors : ~trouble[d] => Otl!Executable(stream[d]) /\ connOk
    BY <1>2 DEF Otl!IInv, Otl!AcceptedIsKept
  <2>2. ASSUME ~trouble[c] PROVE \A r \in 1..MaxRows : Otl!Keeps(stream[c], r) => table'[Otl!Whole(r)] > 0
    BY <1>1, <2>1, <2>2, FlushKeeps DEF BindFlush
  <2> QED
    BY <1>1, <1>7, <1>8, <2>1, <2>2 DEF WritesSafely
<1>14. Otl!TypeOK'
  <2>1. call' = Otl!NoCall \/ call' \in [cursor : Cursors, row : 1..binds, done : 0..Width, check : BOOLEAN]
    BY <1>12, WritingCall
  <2> QED
    BY <1>1, <1>2, <1>6, <1>10, <2>1, CallTypes DEF Otl!TypeOK
<1> QED
  BY <1>1, <1>2, <1>12, <1>13, <1>14, WritingKeeps DEF s1

(* The buffer of the cursor that a bind writes to. *)
LEMMA BindBuffer ==
  ASSUME Otl!IInv, ~Otl!Idle, NEW c, c = call.cursor
  PROVE  /\ c \in Cursors
         /\ stream[c] \in Otl!Streams /\ stream[c].session <= session
         /\ Len(stream[c].rows) <= stream[c].size /\ Len(stream[c].part) < Width
         /\ stream[c].kind # "none" => object[c] = "live" /\ stream[c].size > 0
         /\ stream[c].size > 0 /\ (Otl!Full(stream[c]) => stream[c].part = <<>>)
         /\ call \in [cursor : Cursors, row : 1..binds, done : 0..Width, check : BOOLEAN]
         /\ call.row \in 1..MaxRows /\ call.done \in 0..Width
         /\ Drops(stream[c], stream[c]) /\ stream = [stream EXCEPT ![c] = stream[c]]
         /\ failures = 0 => Once(stream, Otl!Stored)
BY CallTyped, KeptOnceIsOnce DEF Otl!IInv, Otl!TypeOK, Otl!BuffersFit, Drops

(* A value is written to a buffer that has room. *)
LEMMA WrittenWithRoom ==
  ASSUME Otl!IInv, ~Otl!Idle, NEW c, c = call.cursor, ~Otl!Full(stream[c]), call.done < Width,
         UNCHANGED <<status, connected, connOk, autoCommit, session, alive, object, batch, binds,
                     raised, failures, accepted, confirmed>>,
         pending' \in [Otl!AllRows -> Nat], table' \in [Otl!AllRows -> Nat], Shrinks, Grows,
         NEW s, stream' = [stream EXCEPT ![c] = s], Writes(s, stream[c], call.row),
         \/ /\ call' = Otl!NoCall /\ ~Otl!Executable(s) /\ trouble' = [trouble EXCEPT ![c] = TRUE]
         \/ /\ call' = [call EXCEPT !.done = @ + 1, !.check = Otl!Full(s)] /\ trouble' = trouble
            /\ Otl!Executable(s) <=> Otl!Executable(stream[c])
  PROVE  Otl!IInv'
<1>1. /\ c \in Cursors /\ stream[c] \in Otl!Streams /\ stream[c].size > 0
      /\ call \in [cursor : Cursors, row : 1..binds, done : 0..Width, check : BOOLEAN]
      /\ call.row \in 1..MaxRows /\ call.done \in 0..Width
      /\ Drops(stream[c], stream[c]) /\ stream = [stream EXCEPT ![c] = stream[c]]
      /\ failures = 0 => Once(stream, Otl!Stored)
  BY BindBuffer
<1>2. Otl!TypeOK /\ trouble \in [Cursors -> BOOLEAN]
  BY DEF Otl!IInv, Otl!TypeOK
<1>3. Fits(c, stream[c])
  BY <1>1, <1>2, DropsFits DEF SameCursor
<1>4. Fits(c, s)
  BY <1>1, <1>2, <1>3, WritesFits
<1>5. \A d \in Cursors : trouble'[d] = trouble[d] \/ (trouble'[d] /\ d = c)
  BY <1>1, <1>2
<1>6. Otl!TypeOK'
  <2>1. trouble' \in [Cursors -> BOOLEAN]
    BY <1>2
  <2>2. Otl!Full(s) \in BOOLEAN
    BY DEF Otl!Full
  <2>3. call' = Otl!NoCall \/ call' \in [cursor : Cursors, row : 1..binds, done : 0..Width, check : BOOLEAN]
    <3>1. call.done + 1 \in 0..Width
      BY <1>1, Bounds
    <3>2. \A full \in BOOLEAN : [call EXCEPT !.done = @ + 1, !.check = full]
                                 \in [cursor : Cursors, row : 1..binds, done : 0..Width, check : BOOLEAN]
      BY <1>1, <3>1
    <3> QED
      BY <2>2, <3>2
  <2> QED
    BY <1>1, <1>2, <1>4, <2>1, <2>3, CallTypes DEF Otl!TypeOK
<1>7. \A r \in 1..MaxRows : Otl!Stored'[Otl!Whole(r)] \in Nat /\ Otl!Stored[Otl!Whole(r)] \in Nat
                            /\ Otl!Stored'[Otl!Whole(r)] <= Otl!Stored[Otl!Whole(r)]
  BY <1>2, <1>6, StoredTyped, WholeRow DEF Shrinks
<1>8. Sourced
  BY <1>2, <1>6, StoredTyped DEF Shrinks, Sourced
<1>9. failures' = 0 => Once([stream EXCEPT ![c] = stream[c]], Otl!Stored')
  <2>1. failures' = 0 => Once(stream, Otl!Stored')
    BY <1>1, <1>7 DEF Once
  <2> QED
    BY <1>1, <2>1
<1>10. Writing(c, stream[c], s)
  BY <1>1, <1>8, <1>9 DEF Writing
<1>11. WritesSafely(c, stream[c], s)
  <2>1. connected /\ \A d \in Cursors : ~trouble[d] => Otl!Executable(stream[d]) /\ connOk
    BY DEF Otl!IInv, Otl!AcceptedIsKept
  <2> QED
    BY <1>1, <1>2, <1>5, <2>1 DEF WritesSafely
<1> QED
  BY <1>1, <1>6, <1>10, <1>11, WritingKeeps

(* WriteValue. *)
LEMMA WriteValueKeeps ==
  ASSUME Otl!IInv, Otl!WriteValue
  PROVE  Otl!IInv'
<1>1. PICK c \in Cursors : c = call.cursor
  BY CallTyped DEF Otl!WriteValue, Otl!IInv
<1>2. /\ ~Otl!Idle /\ call.done < Width
      /\ UNCHANGED <<connected, autoCommit, session, alive, object, batch, binds, raised, accepted, confirmed>>
  BY DEF Otl!WriteValue
<1>3. PICK o \in IF Otl!Full(stream[c]) THEN Otl!Flushed(stream[c])
                 ELSE {Otl!Outcome(stream[c], connOk, Otl!NoRows, FALSE, FALSE)} :
        /\ Otl!Apply(o)
        /\ IF o.throws
           THEN /\ Otl!BindStops(c, Otl!TroubleAfter(c, o))
                /\ Otl!HandleException(Otl!Answers(o.stream))
                /\ stream' = [stream EXCEPT ![c] = o.stream]
           ELSE /\ stream' = [stream EXCEPT ![c] = Otl!Written(o.stream, call.row)]
                /\ call' = [call EXCEPT !.done = @ + 1, !.check = Otl!Full(Otl!Written(o.stream, call.row))]
                /\ UNCHANGED <<status, trouble>>
  BY <1>1 DEF Otl!WriteValue
<1>4. CASE Otl!Full(stream[c])
  <2>1. BindFlush(c, o)
    BY <1>1, <1>2, <1>3, <1>4 DEF BindFlush
  <2>2. CASE o.throws
    BY <1>3, <2>1, <2>2, BindStopsKeeps
  <2>3. CASE ~o.throws
    BY <1>2, <1>3, <1>4, <2>1, <2>3, WrittenAfterFlush
  <2> QED
    BY <2>2, <2>3
<1>5. CASE ~Otl!Full(stream[c])
  <2>1. /\ o.stream = stream[c] /\ o.ok = connOk /\ o.rows = Otl!NoRows /\ o.commits = FALSE /\ o.throws = FALSE
    BY <1>3, <1>5 DEF Otl!Outcome
  <2>2. Otl!Store(Otl!NoRows, FALSE) /\ connOk' = connOk /\ failures' = failures
    <3>1. failures \in Nat
      BY Bounds DEF Otl!IInv, Otl!TypeOK
    <3>2. /\ Otl!Store(o.rows, o.commits) /\ connOk' = o.ok
          /\ failures' = failures + (IF connOk /\ ~o.ok THEN 1 ELSE 0)
      BY <1>3 DEF Otl!Apply
    <3>3. ~(connOk /\ ~o.ok)
      BY <2>1
    <3>4. failures' = failures
      BY <3>1, <3>2, <3>3
    <3> QED
      BY <2>1, <3>2, <3>4
  <2>3. pending' \in [Otl!AllRows -> Nat] /\ table' \in [Otl!AllRows -> Nat] /\ Shrinks /\ Grows
    BY <2>2, StoreQuiet DEF Otl!IInv
  <2> DEFINE s == Otl!Written(stream[c], call.row)
  <2>4. /\ stream' = [stream EXCEPT ![c] = s] /\ trouble' = trouble /\ status' = status
        /\ call' = [call EXCEPT !.done = @ + 1, !.check = Otl!Full(s)]
    BY <1>3, <2>1
  <2>5. Writes(s, stream[c], call.row) /\ s.ok = stream[c].ok /\ s.flagged = stream[c].flagged
    BY <1>1, <1>2, BindBuffer, WrittenWrites
  <2> HIDE DEF s
  <2>6. Otl!Executable(s) <=> Otl!Executable(stream[c])
    BY <2>5 DEF Otl!Executable
  <2> QED
    BY <1>1, <1>2, <1>5, <2>2, <2>3, <2>4, <2>5, <2>6, WrittenWithRoom
<1> QED
  BY <1>4, <1>5

(* BindRefused: the value takes its place, and the stream is flagged. *)
LEMMA BindRefusedKeeps ==
  ASSUME Otl!IInv, Otl!BindRefused
  PROVE  Otl!IInv'
<1>1. PICK c \in Cursors : c = call.cursor
  BY CallTyped DEF Otl!BindRefused, Otl!IInv
<1> DEFINE w == Otl!Written(stream[c], call.row)
           s == [w EXCEPT !.flagged = TRUE]
<1>2. /\ ~Otl!Idle /\ call.done < Width /\ ~Otl!Full(stream[c])
      /\ UNCHANGED <<status, connected, connOk, autoCommit, session, alive, object, batch, binds,
                     raised, failures, accepted, confirmed>>
      /\ UNCHANGED <<pending, table>>
  BY <1>1 DEF Otl!BindRefused, Otl!connVars, Otl!dbVars
<1>3. stream \in [Cursors -> Otl!Streams] /\ Otl!TypeOK
  BY DEF Otl!IInv, Otl!TypeOK
<1>4. /\ stream' = [stream EXCEPT ![c] = s] /\ call' = Otl!NoCall
      /\ trouble' = [trouble EXCEPT ![c] = TRUE]
  BY <1>1, <1>3 DEF Otl!BindRefused, Otl!BindStops
<1>5. Writes(w, stream[c], call.row)
  BY <1>1, <1>2, BindBuffer, WrittenWrites
<1> HIDE DEF w
<1>6. /\ s \in Otl!Streams /\ s.rows = w.rows /\ s.part = w.part /\ s.kind = w.kind
      /\ s.session = w.session /\ s.size = w.size /\ s.flagged = TRUE
  BY <1>5 DEF Writes, Otl!Streams
<1> HIDE DEF s
<1>7. Writes(s, stream[c], call.row) /\ ~Otl!Executable(s)
  BY <1>5, <1>6 DEF Writes, SameCursor, Otl!Full, Otl!Executable
<1>8. pending' \in [Otl!AllRows -> Nat] /\ table' \in [Otl!AllRows -> Nat] /\ Shrinks /\ Grows
  BY <1>2, <1>3, UnchangedQuiet
<1> QED
  BY <1>1, <1>2, <1>4, <1>7, <1>8, WrittenWithRoom

-----------------------------------------------------------------------------
(* The invariant and what it implies. *)

(* A new connection has no rows. *)
LEMMA OtlInit ==
  ASSUME Otl!Init
  PROVE  Otl!IInv
<1>1. \A row \in Otl!AllRows : Otl!Stored[row] = 0
  BY DEF Otl!Init, Otl!Stored, Otl!And, Otl!NoRows
<1>2. \A c \in Cursors : /\ stream[c] = Otl!NoStream /\ Len(stream[c].rows) = 0 /\ Len(stream[c].part) = 0
                         /\ stream[c].part = <<>> /\ Otl!Executable(stream[c]) /\ trouble[c] = FALSE
                         /\ accepted[c] = {} /\ \A r : ~Otl!Keeps(stream[c], r)
  BY DEF Otl!Init, Otl!NoStream, Otl!Executable, Otl!Keeps
<1>3. Otl!Idle /\ ~call.check
  BY DEF Otl!Init, Otl!Idle, Otl!NoCall
<1>4. Otl!TypeOK
  <2>1. Otl!NoStream \in Otl!Streams /\ Otl!NoStream.session = 0 /\ Otl!NoStream.size = 0 /\ Otl!NoStream.kind = "none"
    BY DEF Otl!NoStream, Otl!Streams
  <2>2. stream \in [Cursors -> Otl!Streams]
    BY <2>1 DEF Otl!Init
  <2>3. pending \in [Otl!AllRows -> Nat] /\ table \in [Otl!AllRows -> Nat]
    BY NothingArrives DEF Otl!Init
  <2>4. \A c \in Cursors :
          /\ stream[c].session <= session
          /\ Len(stream[c].rows) <= stream[c].size /\ Len(stream[c].part) < Width
          /\ stream[c].kind # "none" => object[c] = "live" /\ stream[c].size > 0
    BY <1>2, <2>1, Bounds DEF Otl!Init
  <2>5. call = Otl!NoCall /\ binds \in 0..MaxRows /\ failures \in 0..MaxFailures /\ session \in 1..MaxSessions
    BY Bounds DEF Otl!Init
  <2> QED
    BY <2>2, <2>3, <2>4, <2>5 DEF Otl!Init, Otl!TypeOK
<1>5. Otl!StatusMatchesConnection /\ Otl!ConfirmedIsCommitted
  BY DEF Otl!Init, Otl!StatusMatchesConnection, Otl!ConfirmedIsCommitted
<1>6. Otl!RowsAreWhole
  BY <1>1 DEF Otl!RowsAreWhole
<1>7. Otl!BuffersFit
  BY <1>2, <1>3 DEF Otl!BuffersFit
<1>8. Otl!RowsAligned
  BY <1>2, <1>3 DEF Otl!RowsAligned, Otl!HoldsWholeRows, Otl!HoldsItsBind, Otl!Binding
<1>9. \A r \in 1..MaxRows : Otl!Times(r) = 0
  BY <1>1, WholeRow DEF Otl!Times
<1>10. Otl!NotYetWhole
  BY <1>2, <1>3, <1>9 DEF Otl!NotYetWhole, Otl!Binding
<1>11. Otl!KeptOnce
  BY <1>2, <1>9 DEF Otl!KeptOnce
<1>12. Otl!AcceptedIsKept
  BY <1>2, <1>3 DEF Otl!Init, Otl!AcceptedIsKept, Otl!Binding
<1> QED
  BY <1>4, <1>5, <1>6, <1>7, <1>8, <1>10, <1>11, <1>12 DEF Otl!IInv

(* A step of a cursor. *)
LEMMA CursorStep ==
  ASSUME Otl!IInv, NEW c \in Cursors,
         \/ Otl!Cursor(c) \/ Otl!Fetch(c) \/ Otl!BeginBind(c) \/ Otl!Flush(c)
         \/ \E n \in BatchSizes : Otl!SetBatchSize(c, n)
         \/ Otl!Execute(c, "insert", 0) \/ Otl!Execute(c, "select", 1)
         \/ Otl!Closes(c, "live") \/ Otl!Closes(c, "collected")
         \/ \E flags \in BOOLEAN : Otl!Clean(c, flags)
  PROVE  Otl!IInv'
<1>1. /\ Otl!Execute(c, "insert", 0) => Otl!IInv'
      /\ Otl!Execute(c, "select", 1) => Otl!IInv'
  BY ExecuteKeeps
<1>2. /\ Otl!Closes(c, "live") => Otl!IInv'
      /\ Otl!Closes(c, "collected") => Otl!IInv'
  BY ClosesKeeps
<1>3. \A flags \in BOOLEAN : Otl!Clean(c, flags) => Otl!IInv'
  BY CleanKeeps
<1>4. Otl!BeginBind(c) \/ Otl!Flush(c) => Otl!IInv'
  BY BeginBindKeeps, FlushStep
<1> QED
  BY <1>1, <1>2, <1>3, <1>4, CursorKeeps, Zenon

(* Every step keeps the invariant. *)
LEMMA OtlStep ==
  ASSUME Otl!IInv, Otl!Next
  PROVE  Otl!IInv'
<1>1. /\ Otl!WriteValue \/ Otl!CheckBuffer \/ Otl!BindRaises \/ Otl!BindRefused \/ Otl!BindReturns => Otl!IInv'
  BY WriteValueKeeps, CheckBufferKeeps, BindRaisesKeeps, BindRefusedKeeps, BindReturnsKeeps
<1>2. ASSUME NEW c \in Cursors,
             \/ Otl!Cursor(c) \/ Otl!Fetch(c) \/ Otl!BeginBind(c) \/ Otl!Flush(c)
             \/ \E n \in BatchSizes : Otl!SetBatchSize(c, n)
             \/ Otl!Execute(c, "insert", 0) \/ Otl!Execute(c, "select", 1)
             \/ Otl!Closes(c, "live") \/ Otl!Closes(c, "collected")
             \/ \E flags \in BOOLEAN : Otl!Clean(c, flags)
      PROVE  Otl!IInv'
  BY <1>2, CursorStep
<1> QED
  BY <1>1, <1>2, OpeningKeeps, RequestKeeps, Zenon DEF Otl!Next

(* A step of another part changes nothing. *)
LEMMA OtlStutters ==
  ASSUME Otl!IInv, UNCHANGED otlVars
  PROVE  Otl!IInv'
<1>1. /\ UNCHANGED <<status, connected, connOk, autoCommit, session, alive, object, batch, stream, call, binds>>
      /\ UNCHANGED <<pending, table, raised, failures, trouble, accepted, confirmed>>
  BY DEF otlVars
<1>2. pending' \in [Otl!AllRows -> Nat] /\ table' \in [Otl!AllRows -> Nat] /\ Shrinks /\ Grows
  BY <1>1, UnchangedQuiet DEF Otl!IInv
<1>3. /\ status' \in {-1, 0, 1} /\ session' \in session..MaxSessions
      /\ connected' \in BOOLEAN /\ connOk' \in BOOLEAN /\ autoCommit' \in BOOLEAN /\ alive' \in BOOLEAN
      /\ failures' \in failures..MaxFailures /\ trouble' \in [Cursors -> BOOLEAN]
  BY <1>1, Bounds DEF Otl!IInv, Otl!TypeOK
<1>4. /\ ~Otl!Idle => connected'
      /\ \A c \in Cursors : ~trouble'[c] => (connected' => connOk')
      /\ Otl!StatusMatchesConnection'
  BY <1>1 DEF Otl!IInv, Otl!AcceptedIsKept, Otl!StatusMatchesConnection
<1> QED
  BY <1>1, <1>2, <1>3, <1>4, ConnectionStepKeeps DEF ConnectionStep

(* The safety properties follow. *)
LEMMA OtlSafe ==
  ASSUME Otl!IInv
  PROVE  Otl!Safety
<1>1. Otl!TypeOK /\ Otl!Stored \in [Otl!AllRows -> Nat]
  BY StoredTyped DEF Otl!IInv
<1>2. /\ table \in [Otl!AllRows -> Nat] /\ pending \in [Otl!AllRows -> Nat] /\ confirmed \subseteq 1..binds
      /\ \A r \in 1..binds : r \in 1..MaxRows
  BY <1>1, Bounds DEF Otl!TypeOK
<1>3. \A r \in 1..binds : Otl!Whole(r) \in Otl!AllRows
  BY <1>2, WholeRow
<1>4. \A row \in Otl!AllRows : table[row] > 0 => Otl!Stored[row] >= 1
  BY <1>2 DEF Otl!Stored, Otl!And
<1>5. Otl!FlushedIsStored
  BY <1>2, <1>3, <1>4 DEF Otl!IInv, Otl!ConfirmedIsCommitted, Otl!FlushedIsStored, Otl!Times
<1>6. Otl!StoredOnce
  BY <1>2 DEF Otl!IInv, Otl!KeptOnce, Otl!StoredOnce
<1> QED
  BY <1>5, <1>6 DEF Otl!IInv, Otl!Safety

(* The database sessions of lua_otl.hpp, for any number of cursors, rows,   *)
(* values in a row, sessions and failures, with batches of any size, and   *)
(* whether or not a lost session is reported: the status tells whether the *)
(* connection may be used or opened again, a row is stored whole unless a  *)
(* bind raised an error in the middle of one, it is stored once unless a   *)
(* request of the connection failed, and what a flush confirmed is in the  *)
(* database.                                                               *)
THEOREM OtlCorrect == PartsSpec => []OtlSafety
<1> DEFINE I == part = "otl" => Otl!IInv
<1>1. PartsInit => I
  BY OtlInit DEF PartsInit
<1>2. I /\ [PartsNext]_partsVars => I'
  <2> SUFFICES ASSUME I, [PartsNext]_partsVars, part' = "otl"
               PROVE  Otl!IInv'
    OBVIOUS
  <2>1. CASE Only("zlog") /\ Zlog!Next /\ UNCHANGED <<framesVars, otlVars, xmlVars, pyVars>>
    BY <2>1 DEF Only
  <2>2. CASE Only("frames") /\ Frames!Next /\ UNCHANGED <<zlogVars, otlVars, xmlVars, pyVars>>
    BY <2>2 DEF Only
  <2>3. CASE Only("otl") /\ Otl!Next /\ UNCHANGED <<zlogVars, framesVars, xmlVars, pyVars>>
    BY <2>3, OtlStep DEF Only
  <2>4. CASE UNCHANGED partsVars
    BY <2>4, OtlStutters DEF partsVars
  <2>5. CASE Only("xml") /\ Xml!Next /\ UNCHANGED <<zlogVars, framesVars, otlVars, pyVars>>
    BY <2>5 DEF Only
  <2>6. CASE Only("python") /\ Py!Next /\ UNCHANGED <<zlogVars, framesVars, otlVars, xmlVars>>
    BY <2>6 DEF Only
  <2> QED
    BY <2>1, <2>2, <2>3, <2>4, <2>5, <2>6 DEF PartsNext
<1>3. I => OtlSafety
  BY OtlSafe DEF OtlSafety
<1> QED
  BY <1>1, <1>2, <1>3, PTL DEF PartsSpec

-----------------------------------------------------------------------------
(* Python objects: induction, and counting.                                *)

(* Induction over the numbers up to n. *)
LEMMA UpToAll ==
  ASSUME NEW n \in Nat, NEW G, 0 \in G, \A i \in 0 .. n - 1 : i \in G => i + 1 \in G
  PROVE  0 .. n \subseteq G
<1> DEFINE Without == (0 .. n) \ G
<1> SUFFICES ASSUME Without # {} PROVE FALSE
  OBVIOUS
<1>1. Without \subseteq Nat
  OBVIOUS
<1> HIDE DEF Without
<1>2. PICK i \in Without : \A j \in Without : ~(<<j, i>> \in OpToRel(<, Nat))
  BY <1>1, WFMin, NatLessThanWellFounded
<1>3. ASSUME NEW j \in Without PROVE i <= j
  <2>1. ~(j < i)
    BY <1>1, <1>2 DEF OpToRel
  <2> QED
    BY <1>1, <2>1
<1>4. i \in 0 .. n /\ i \notin G
  BY DEF Without
<1>5. i # 0 /\ i - 1 \in 0 .. n - 1 /\ i - 1 \in 0 .. n /\ ~(i <= i - 1) /\ (i - 1) + 1 = i
  BY <1>4
<1>6. i - 1 \in G
  BY <1>3, <1>5 DEF Without
<1> QED
  BY <1>4, <1>5, <1>6

(* What is known of the constants. *)
LEMMA PyConstants ==
  /\ IsFiniteSet(Objects) /\ IsFiniteSet(Handles) /\ IsFiniteSet(Loops)
  /\ MaxRefs \in Nat /\ MaxArgs \in Nat /\ NoObject \notin Objects
  /\ Plain \notin Objects /\ Plain \notin Handles /\ Plain # NoObject
  /\ Bad \notin Objects /\ Bad \notin Handles /\ Bad # NoObject /\ Plain # Bad
<1>1. Py!PyAssumption
  BY PartsAssumptions
<1>2. {Plain, Bad} \cap (Objects \cup Handles \cup {NoObject}) = {}
  BY <1>1 DEF Py!PyAssumption
<1>3. ASSUME NEW v \in {Plain, Bad} PROVE v \notin Objects /\ v \notin Handles /\ v # NoObject
  BY <1>2
<1>4. Plain \in {Plain, Bad} /\ Bad \in {Plain, Bad}
  OBVIOUS
<1>5. /\ Plain \notin Objects /\ Plain \notin Handles /\ Plain # NoObject
      /\ Bad \notin Objects /\ Bad \notin Handles /\ Bad # NoObject
  BY <1>3, <1>4, Zenon
<1>6. IsFiniteSet(Objects) /\ IsFiniteSet(Handles) /\ IsFiniteSet(Loops)
  BY <1>1 DEF Py!PyAssumption, Py!IsFiniteSet, IsFiniteSet
<1> QED
  BY <1>1, <1>5, <1>6 DEF Py!PyAssumption

(* The number of elements, of the instance and of the library. *)
LEMMA CardinalityIsTheSame == ASSUME NEW S PROVE Py!Cardinality(S) = Cardinality(S)
BY DEF Py!Cardinality, Cardinality

(* Where a function has the value o, and how often. *)
Where(S, f, o) == {x \in S : f[x] = o}
Often(S, f, o) == Cardinality(Where(S, f, o))

(* A number, for a finite domain. *)
LEMMA OftenNat ==
  ASSUME NEW S, IsFiniteSet(S), NEW f, NEW o
  PROVE  IsFiniteSet(Where(S, f, o)) /\ Often(S, f, o) \in Nat
<1>1. IsFiniteSet(Where(S, f, o))
  BY FS_Subset DEF Where
<1> QED
  BY <1>1, FS_CardinalityType DEF Often

(* None, or at least one. *)
LEMMA OftenNone ==
  ASSUME NEW S, IsFiniteSet(S), NEW f, NEW o
  PROVE  Often(S, f, o) = 0 <=> \A x \in S : f[x] # o
<1>1. IsFiniteSet(Where(S, f, o))
  BY OftenNat
<1> QED
  BY <1>1, FS_EmptySet DEF Often, Where

(* Two functions that differ at x at most. *)
Elsewhere(S, f, g, x) == \A y \in S \ {x} : g[y] = f[y]

(* A place that now has the value o. *)
LEMMA OftenMore ==
  ASSUME NEW S, IsFiniteSet(S), NEW f, NEW g, NEW x \in S, NEW o, f[x] # o, g[x] = o,
         Elsewhere(S, f, g, x)
  PROVE  Often(S, g, o) = Often(S, f, o) + 1
<1>1. Where(S, g, o) = Where(S, f, o) \cup {x} /\ x \notin Where(S, f, o)
  BY DEF Where, Elsewhere
<1>2. IsFiniteSet(Where(S, f, o))
  BY OftenNat
<1> QED
  BY <1>1, <1>2, FS_AddElement DEF Often

(* A place that has changed, as it is for values that it has not now and had not before. *)
LEMMA OftenSame ==
  ASSUME NEW S, NEW f, NEW g, NEW x, NEW o, f[x] # o, g[x] # o, Elsewhere(S, f, g, x)
  PROVE  Often(S, g, o) = Often(S, f, o)
<1>1. Where(S, g, o) = Where(S, f, o)
  BY DEF Where, Elsewhere
<1> QED
  BY <1>1 DEF Often

-----------------------------------------------------------------------------
(* The references. *)

Targets == Objects \cup {NoObject}
Heaps == [refs : [Objects -> Nat], inner : [Objects -> Targets]]
Owed == [Objects -> Nat]

(* One more is owed for o. *)
OneMore(owed, o) == IF o \in Objects THEN [owed EXCEPT ![o] = @ + 1] ELSE owed

(* The references that others have to o: those inside of objects, and owed. *)
Needed(p, owed, o) == Often(Objects, p.inner, o) + owed[o]

(* The counts are enough for what is needed, and if nothing was lost they   *)
(* are no more, until a closure gives back what is not its own; what is    *)
(* freed refers to nothing, even then.                                     *)
Enough(p, owed, lost) ==
  \A o \in Objects :
    /\ again \/ (p.refs[o] >= Needed(p, owed, o) /\ (~lost => p.refs[o] = Needed(p, owed, o)))
    /\ p.refs[o] = 0 => p.inner[o] = NoObject

Balanced(p, owed, lost) == p \in Heaps /\ owed \in Owed /\ Enough(p, owed, lost)

(* The parts of a heap. *)
LEMMA HeapParts ==
  ASSUME NEW p \in Heaps
  PROVE  /\ p.refs \in [Objects -> Nat] /\ p.inner \in [Objects -> Targets]
         /\ \A o \in Objects : p.refs[o] \in Nat /\ Often(Objects, p.inner, o) \in Nat
<1>1. p.refs \in [Objects -> Nat] /\ p.inner \in [Objects -> Targets]
  BY DEF Heaps
<1>2. \A o \in Objects : Often(Objects, p.inner, o) \in Nat
  BY PyConstants, OftenNat
<1> QED
  BY <1>1, <1>2

(* After a closure gave back what is not its own, all that is left is that  *)
(* what is freed refers to nothing.                                        *)
LEMMA SoundAnyway ==
  ASSUME again, NEW p, NEW owed, NEW more \in Owed, NEW lost, NEW less, Balanced(p, owed, lost)
  PROVE  Balanced(p, more, less)
BY DEF Balanced, Enough

(* One more, of what. *)
LEMMA OneMoreOf ==
  ASSUME NEW owed \in Owed, NEW o
  PROVE  /\ OneMore(owed, o) \in Owed
         /\ \A x \in Objects : OneMore(owed, o)[x] = owed[x] + (IF x = o THEN 1 ELSE 0)
         /\ o \notin Objects => OneMore(owed, o) = owed
BY DEF OneMore, Owed

(* Py_INCREF makes the reference that is owed. *)
LEMMA IncrefSound ==
  ASSUME NEW p, NEW owed, NEW lost \in BOOLEAN, NEW o, Balanced(p, owed, lost)
  PROVE  Balanced(Py!Incref(p, o), OneMore(owed, o), lost)
<1>1. p \in Heaps /\ owed \in Owed /\ Enough(p, owed, lost)
  BY DEF Balanced
<1>2. CASE o \notin Objects
  BY <1>2 DEF Py!Incref, OneMore
<1>3. CASE o \in Objects
  <2> DEFINE q == [p EXCEPT !.refs[o] = @ + 1]
  <2>1. p.refs \in [Objects -> Nat] /\ p.inner \in [Objects -> Targets]
    BY <1>1, HeapParts
  <2>2. q = [refs |-> [p.refs EXCEPT ![o] = @ + 1], inner |-> p.inner]
    BY <1>1 DEF Heaps
  <2>3. q.refs = [p.refs EXCEPT ![o] = @ + 1] /\ q.inner = p.inner /\ q \in Heaps
    BY <2>1, <2>2 DEF Heaps
  <2>4. OneMore(owed, o) \in Owed
    BY <1>1, OneMoreOf
  <2> HIDE DEF q
  <2>5. ASSUME NEW x \in Objects
        PROVE  /\ \/ again
                  \/ /\ q.refs[x] >= Needed(q, OneMore(owed, o), x)
                     /\ ~lost => q.refs[x] = Needed(q, OneMore(owed, o), x)
               /\ q.refs[x] = 0 => q.inner[x] = NoObject
    <3>1. /\ again \/ (p.refs[x] >= Needed(p, owed, x) /\ (~lost => p.refs[x] = Needed(p, owed, x)))
          /\ p.refs[x] = 0 => p.inner[x] = NoObject
      BY <1>1 DEF Enough
    <3>2. OneMore(owed, o)[x] = owed[x] + (IF x = o THEN 1 ELSE 0) /\ owed[x] \in Nat
      BY <1>1, OneMoreOf DEF Owed
    <3>3. Often(Objects, p.inner, x) \in Nat /\ p.refs[x] \in Nat
      BY <1>1, HeapParts
    <3>4. q.refs[x] = p.refs[x] + (IF x = o THEN 1 ELSE 0)
      BY <2>1, <2>3
    <3> QED
      BY <2>3, <3>1, <3>2, <3>3, <3>4 DEF Needed
  <2>6. Enough(q, OneMore(owed, o), lost)
    BY <2>5 DEF Enough
  <2> QED
    BY <1>3, <2>3, <2>4, <2>6 DEF Balanced, Py!Incref, q
<1> QED
  BY <1>2, <1>3

(* A reference is given back, of an object that is needed elsewhere, or not. *)
LEMMA OneGivenBack ==
  ASSUME NEW s \in [heap : Heaps, next : Objects], NEW owed, NEW lost \in BOOLEAN,
         Balanced(s.heap, OneMore(owed, s.next), lost), owed \in Owed
  PROVE  LET t == Py!GivenBack(s) IN
         /\ t \in [heap : Heaps, next : Targets] /\ Balanced(t.heap, OneMore(owed, t.next), lost)
         /\ t.next \in Objects =>
              /\ s.heap.refs[s.next] = 1
              /\ t.heap.refs = [s.heap.refs EXCEPT ![s.next] = 0]
<1> DEFINE p == s.heap
           o == s.next
           more == OneMore(owed, o)
<1>1. p \in Heaps /\ more \in Owed /\ Enough(p, more, lost) /\ o \in Objects /\ o # NoObject
  BY PyConstants DEF Balanced
<1>2. p.refs \in [Objects -> Nat] /\ p.inner \in [Objects -> Targets]
  BY <1>1, HeapParts
<1>3. ASSUME NEW x \in Objects
      PROVE  /\ \/ again
                \/ /\ p.refs[x] >= Often(Objects, p.inner, x) + more[x]
                   /\ ~lost => p.refs[x] = Often(Objects, p.inner, x) + more[x]
             /\ p.refs[x] = 0 => p.inner[x] = NoObject
             /\ more[x] = owed[x] + (IF x = o THEN 1 ELSE 0)
             /\ owed[x] \in Nat /\ Often(Objects, p.inner, x) \in Nat /\ p.refs[x] \in Nat
  <2>1. /\ again \/ (p.refs[x] >= Needed(p, more, x) /\ (~lost => p.refs[x] = Needed(p, more, x)))
        /\ p.refs[x] = 0 => p.inner[x] = NoObject
    BY <1>1 DEF Enough
  <2>2. more[x] = owed[x] + (IF x = o THEN 1 ELSE 0) /\ owed[x] \in Nat
    BY <1>1, OneMoreOf DEF Owed
  <2>3. Often(Objects, p.inner, x) \in Nat /\ p.refs[x] \in Nat
    BY <1>1, HeapParts
  <2> QED
    BY <2>1, <2>2, <2>3 DEF Needed
<1> HIDE DEF p, o, more
<1>4. CASE p.refs[o] > 1
  <2> DEFINE q == [refs |-> [p.refs EXCEPT ![o] = @ - 1], inner |-> p.inner]
  <2>1. Py!GivenBack(s) = [heap |-> [p EXCEPT !.refs[o] = @ - 1], next |-> NoObject]
    BY <1>1, <1>4 DEF Py!GivenBack, p, o
  <2>2. [p EXCEPT !.refs[o] = @ - 1] = q
    BY <1>1 DEF Heaps
  <2>3. q.refs = [p.refs EXCEPT ![o] = @ - 1] /\ q.inner = p.inner
    OBVIOUS
  <2>4. [p.refs EXCEPT ![o] = @ - 1] \in [Objects -> Nat]
    BY <1>1, <1>2, <1>4
  <2>5. q \in Heaps
    BY <1>2, <2>4 DEF Heaps
  <2> HIDE DEF q
  <2>6. ASSUME NEW x \in Objects
        PROVE  /\ again \/ (q.refs[x] >= Needed(q, owed, x) /\ (~lost => q.refs[x] = Needed(q, owed, x)))
               /\ q.refs[x] = 0 => q.inner[x] = NoObject
    <3>1. q.refs[x] = p.refs[x] - (IF x = o THEN 1 ELSE 0)
      BY <1>2, <1>3, <2>3
    <3> QED
      BY <1>3, <1>4, <2>3, <3>1 DEF Needed
  <2>7. Balanced(q, owed, lost)
    BY <2>5, <2>6 DEF Balanced, Enough
  <2>8. OneMore(owed, NoObject) = owed
    BY PyConstants DEF OneMore
  <2> QED
    BY <2>1, <2>2, <2>5, <2>7, <2>8, PyConstants DEF Targets
<1>5. CASE ~(p.refs[o] > 1)
  <2> DEFINE q == [refs |-> [p.refs EXCEPT ![o] = 0], inner |-> [p.inner EXCEPT ![o] = NoObject]]
             i == p.inner[o]
  <2>1. Py!GivenBack(s) = [heap |-> [p EXCEPT !.refs[o] = 0, !.inner[o] = NoObject], next |-> i]
    <3>1. s.heap = p /\ s.next = o
      BY DEF p, o
    <3>2. Py!GivenBack(s) =
            [heap |-> [s.heap EXCEPT !.refs[s.next] = 0, !.inner[s.next] = NoObject],
             next |-> s.heap.inner[s.next]]
      <4>1. s.next \in Objects /\ ~(s.heap.refs[s.next] > 1)
        BY <1>1, <1>5, <3>1
      <4> QED
        BY <4>1, Zenon DEF Py!GivenBack
    <3> QED
      BY <3>1, <3>2
  <2>2. [p EXCEPT !.refs[o] = 0, !.inner[o] = NoObject] = q
    <3>1. p = [refs |-> p.refs, inner |-> p.inner]
      BY <1>1 DEF Heaps
    <3>2. [p EXCEPT !.refs[o] = 0] = [refs |-> [p.refs EXCEPT ![o] = 0], inner |-> p.inner]
      BY <3>1
    <3>3. [p EXCEPT !.refs[o] = 0, !.inner[o] = NoObject] = [[p EXCEPT !.refs[o] = 0] EXCEPT !.inner[o] = NoObject]
      OBVIOUS
    <3>4. \A r, in : [[refs |-> r, inner |-> in] EXCEPT !.inner[o] = NoObject]
                        = [refs |-> r, inner |-> [in EXCEPT ![o] = NoObject]]
      OBVIOUS
    <3> QED
      BY <3>2, <3>3, <3>4, Zenon
  <2>3. q.refs = [p.refs EXCEPT ![o] = 0] /\ q.inner = [p.inner EXCEPT ![o] = NoObject]
    OBVIOUS
  <2>4. q.refs \in [Objects -> Nat] /\ q.inner \in [Objects -> Targets] /\ i \in Targets
    BY <1>1, <1>2, <2>3 DEF Targets
  <2>5. q \in Heaps
    BY <2>4 DEF Heaps
  <2>6. ~again => p.refs[o] = 1 /\ Often(Objects, p.inner, o) = 0 /\ owed[o] = 0
    BY <1>1, <1>3, <1>5
  <2>7. ~again => \A y \in Objects : p.inner[y] # o
    BY <2>6, PyConstants, OftenNone
  <2>8. i # NoObject => p.refs[o] = 1
    BY <1>1, <1>3, <1>5
  <2>9. \A y \in Objects \ {o} : q.inner[y] = p.inner[y] /\ q.refs[y] = p.refs[y]
    BY <1>1, <1>2, <2>3
  <2>10. q.inner[o] = NoObject /\ q.refs[o] = 0
    BY <1>1, <1>2, <2>3
  <2> HIDE DEF q
  <2>11. ASSUME NEW x \in Objects, ~again
         PROVE  Often(Objects, p.inner, x) = Often(Objects, q.inner, x) + (IF x = i THEN 1 ELSE 0)
    <3>1. x # NoObject
      BY PyConstants
    <3>2. CASE x = i
      <4>1. q.inner[o] # x /\ p.inner[o] = x /\ Elsewhere(Objects, q.inner, p.inner, o)
        BY <2>9, <2>10, <3>1, <3>2 DEF Elsewhere
      <4>2. Often(Objects, p.inner, x) = Often(Objects, q.inner, x) + 1
        BY <1>1, <4>1, PyConstants, OftenMore
      <4> QED
        BY <3>2, <4>2
    <3>3. CASE x # i
      <4>1. q.inner[o] # x /\ p.inner[o] # x /\ Elsewhere(Objects, q.inner, p.inner, o)
        BY <2>9, <2>10, <3>1, <3>3 DEF Elsewhere
      <4>2. Often(Objects, p.inner, x) = Often(Objects, q.inner, x)
        BY <4>1, OftenSame
      <4>3. Often(Objects, q.inner, x) \in Nat
        BY <2>5, HeapParts
      <4> QED
        BY <3>3, <4>2, <4>3
    <3> QED
      BY <3>2, <3>3
  <2>12. OneMore(owed, i) \in Owed
    BY OneMoreOf
  <2>13. ASSUME NEW x \in Objects
         PROVE  /\ \/ again
                   \/ /\ q.refs[x] >= Needed(q, OneMore(owed, i), x)
                      /\ ~lost => q.refs[x] = Needed(q, OneMore(owed, i), x)
                /\ q.refs[x] = 0 => q.inner[x] = NoObject
    <3>1. OneMore(owed, i)[x] = owed[x] + (IF x = i THEN 1 ELSE 0)
      BY OneMoreOf
    <3>2. Often(Objects, q.inner, x) \in Nat
      BY <2>5, HeapParts
    <3>3. ~again => Needed(q, OneMore(owed, i), x) = Often(Objects, p.inner, x) + owed[x]
      BY <1>3, <2>11, <3>1, <3>2 DEF Needed
    <3>4. CASE x = o
      BY <2>6, <2>10, <3>3, <3>4
    <3>5. CASE x # o
      BY <1>3, <2>9, <3>3, <3>5
    <3> QED
      BY <3>4, <3>5
  <2>14. Balanced(q, OneMore(owed, i), lost)
    BY <2>5, <2>12, <2>13 DEF Balanced, Enough
  <2>15. Py!GivenBack(s) = [heap |-> q, next |-> i]
    BY <2>1, <2>2
  <2> HIDE DEF i
  <2> QED
    BY <2>3, <2>4, <2>5, <2>8, <2>14, <2>15, PyConstants DEF p, o
<1> QED
  BY <1>4, <1>5

(* The states between the steps of Py_DECREF. *)
DecrefStep(p, o, f, k) == IF k = 0 THEN [heap |-> p, next |-> o] ELSE Py!GivenBack(f[k - 1])

(* They exist. *)
LEMMA GivenBackSteps ==
  ASSUME NEW p, NEW o, NEW n \in Nat
  PROVE  \E f : f = [k \in 0 .. n |-> DecrefStep(p, o, f, k)]
<1> USE DEF DecrefStep
<1> DEFINE Step(f, k) == DecrefStep(p, o, f, k)
           G == {m \in 0 .. n : \E f : f = [k \in 0 .. m |-> Step(f, k)]}
<1>1. 0 \in G
  <2> DEFINE f == [k \in 0 .. 0 |-> [heap |-> p, next |-> o]]
  <2>1. \A k \in 0 .. 0 : k = 0
    OBVIOUS
  <2>2. f = [k \in 0 .. 0 |-> Step(f, k)]
    BY <2>1
  <2> HIDE DEF f, Step
  <2> QED
    BY <2>2
<1>2. ASSUME NEW m \in 0 .. n - 1, m \in G PROVE m + 1 \in G
  <2>1. PICK f : f = [k \in 0 .. m |-> Step(f, k)]
    BY <1>2
  <2> DEFINE h == [k \in 0 .. m + 1 |-> Step(f, k)]
  <2>2. ASSUME NEW k \in 0 .. m PROVE h[k] = f[k]
    <3> HIDE DEF Step
    <3> QED
      BY <2>1
  <2>3. ASSUME NEW k \in 0 .. m + 1 PROVE Step(f, k) = Step(h, k)
    <3>1. CASE k = 0
      BY <3>1
    <3>2. CASE k # 0
      <4>1. k - 1 \in 0 .. m
        BY <3>2
      <4>2. h[k - 1] = f[k - 1]
        BY <2>2, <4>1
      <4> HIDE DEF h
      <4> QED
        BY <3>2, <4>2
    <3> QED
      BY <3>1, <3>2
  <2>4. h = [k \in 0 .. m + 1 |-> Step(h, k)]
    <3> HIDE DEF Step
    <3> QED
      BY <2>3
  <2>5. m + 1 \in 0 .. n
    OBVIOUS
  <2> HIDE DEF h, Step
  <2> QED
    BY <2>4, <2>5
<1>3. n \in G
  <2> HIDE DEF G
  <2>1. \A i \in 0 .. n - 1 : i \in G => i + 1 \in G
    BY <1>2
  <2>2. n \in 0 .. n
    OBVIOUS
  <2> QED
    BY <1>1, <2>1, <2>2, UpToAll
<1> HIDE DEF Step
<1>4. PICK f : f = [k \in 0 .. n |-> Step(f, k)]
  BY <1>3
<1> HIDE DEF DecrefStep
<1> QED
  BY <1>4 DEF Step

(* Py_DECREF gives back a reference that was owed, and those that it frees  *)
(* in its turn; it ends at last, as there are only so many objects.        *)
LEMMA DecrefSound ==
  ASSUME NEW p, NEW owed \in Owed, NEW lost \in BOOLEAN, NEW o, Balanced(p, OneMore(owed, o), lost)
  PROVE  Balanced(Py!Decref(p, o), owed, lost)
<1> DEFINE n == Cardinality(Objects)
           after == CHOOSE f : f = [k \in 0 .. n |-> DecrefStep(p, o, f, k)]
           Alive(q) == {x \in Objects : q.refs[x] > 0}
           Fine(s) == s.heap \in Heaps /\ Balanced(s.heap, OneMore(owed, s.next), lost)
           Few(s, k) == s.next \in Objects => Cardinality(Alive(s.heap)) + k <= n
           G == {k \in 0 .. n : Fine(after[k]) /\ Few(after[k], k)}
<1>0. n \in Nat
  BY PyConstants, FS_CardinalityType
<1>1. Py!Decref(p, o) = after[n].heap
  BY CardinalityIsTheSame DEF Py!Decref, DecrefStep
<1>2. after = [k \in 0 .. n |-> DecrefStep(p, o, after, k)]
  <2> HIDE DEF n
  <2>1. \E f : f = [k \in 0 .. n |-> DecrefStep(p, o, f, k)]
    BY <1>0, GivenBackSteps
  <2> QED
    BY <2>1
<1>3. after[0] = [heap |-> p, next |-> o]
  <2> HIDE DEF after, n
  <2>1. 0 \in 0 .. n
    BY <1>0
  <2> QED
    BY <1>2, <2>1 DEF DecrefStep
<1>4. ASSUME NEW k \in 1 .. n PROVE after[k] = Py!GivenBack(after[k - 1])
  <2> HIDE DEF after, n
  <2>1. k \in 0 .. n /\ k # 0
    BY <1>0
  <2>2. after[k] = DecrefStep(p, o, after, k)
    BY <1>2, <2>1
  <2> QED
    BY <2>1, <2>2 DEF DecrefStep
<1> HIDE DEF after
<1>5. \A q : IsFiniteSet(Alive(q)) /\ Cardinality(Alive(q)) \in Nat /\ Cardinality(Alive(q)) <= n
  <2> TAKE q
  <2>1. Alive(q) \subseteq Objects
    OBVIOUS
  <2> HIDE DEF Alive
  <2> QED
    BY <2>1, PyConstants, FS_Subset, FS_CardinalityType
<1> HIDE DEF n
<1>6. 0 \in G
  <2>1. Fine(after[0])
    BY <1>3 DEF Balanced
  <2>2. Few(after[0], 0)
    <3> HIDE DEF Alive
    <3> QED
      BY <1>0, <1>5
  <2>3. 0 \in 0 .. n
    BY <1>0
  <2> HIDE DEF Fine, Few
  <2> QED
    BY <2>1, <2>2, <2>3
<1>7. ASSUME NEW k \in 0 .. n - 1, k \in G PROVE k + 1 \in G
  <2> DEFINE s == after[k]
             t == after[k + 1]
  <2>1. t = Py!GivenBack(s)
    <3>1. k + 1 \in 1 .. n /\ (k + 1) - 1 = k
      BY <1>0
    <3> QED
      BY <1>4, <3>1
  <2>2. Fine(s) /\ Few(s, k)
    <3> HIDE DEF Fine, Few
    <3> QED
      BY <1>7
  <2>3. k + 1 \in 0 .. n
    BY <1>0
  <2> HIDE DEF s, t
  <2>4. CASE s.next \notin Objects
    <3>1. t = s
      BY <2>1, <2>4 DEF Py!GivenBack
    <3>2. Fine(t) /\ Few(t, k + 1)
      BY <2>2, <2>4, <3>1
    <3> HIDE DEF Fine, Few
    <3> QED
      BY <2>3, <3>2 DEF t
  <2>5. CASE s.next \in Objects
    <3> DEFINE r == [heap |-> s.heap, next |-> s.next]
    <3>1. r \in [heap : Heaps, next : Objects] /\ Balanced(r.heap, OneMore(owed, r.next), lost)
      BY <2>2, <2>5
    <3>2. Py!GivenBack(r) = t
      BY <2>1, <2>5 DEF Py!GivenBack
    <3>3. /\ t \in [heap : Heaps, next : Targets] /\ Balanced(t.heap, OneMore(owed, t.next), lost)
          /\ t.next \in Objects =>
               s.heap.refs[s.next] = 1 /\ t.heap.refs = [s.heap.refs EXCEPT ![s.next] = 0]
      <4>1. r.heap = s.heap /\ r.next = s.next
        OBVIOUS
      <4> HIDE DEF r
      <4> QED
        BY <3>1, <3>2, <4>1, OneGivenBack
    <3>4. Fine(t)
      BY <3>3
    <3>5. Few(t, k + 1)
      <4> SUFFICES ASSUME t.next \in Objects PROVE Cardinality(Alive(t.heap)) + (k + 1) <= n
        OBVIOUS
      <4>1. s.heap.refs[s.next] = 1 /\ t.heap.refs = [s.heap.refs EXCEPT ![s.next] = 0]
        BY <3>3
      <4>2. s.heap.refs \in [Objects -> Nat]
        BY <2>2, HeapParts
      <4>3. Alive(t.heap) = Alive(s.heap) \ {s.next} /\ s.next \in Alive(s.heap)
        BY <2>5, <4>1, <4>2
      <4>4. Cardinality(Alive(s.heap)) + k <= n
        BY <2>2, <2>5
      <4> HIDE DEF Alive
      <4>5. Cardinality(Alive(t.heap)) = Cardinality(Alive(s.heap)) - 1
        <5>1. IsFiniteSet(Alive(s.heap))
          BY <1>5
        <5>2. Cardinality(Alive(s.heap) \ {s.next}) = Cardinality(Alive(s.heap)) - 1
          BY <4>3, <5>1, FS_RemoveElement
        <5> QED
          BY <4>3, <5>2
      <4> QED
        BY <1>0, <1>5, <4>4, <4>5
    <3> HIDE DEF Fine, Few
    <3> QED
      BY <2>3, <3>4, <3>5 DEF t
  <2> QED
    BY <2>4, <2>5
<1>8. n \in G
  <2> HIDE DEF G
  <2>1. \A i \in 0 .. n - 1 : i \in G => i + 1 \in G
    BY <1>7
  <2>2. n \in 0 .. n
    BY <1>0
  <2> QED
    BY <1>0, <1>6, <2>1, <2>2, UpToAll
<1>9. Fine(after[n]) /\ Few(after[n], n)
  <2> HIDE DEF Fine, Few
  <2> QED
    BY <1>8
<1> DEFINE s == after[n]
<1> HIDE DEF s
<1>10. Fine(s) /\ Few(s, n) /\ s = after[n]
  <2> HIDE DEF Fine, Few
  <2> QED
    BY <1>9 DEF s
<1>11. ~again => s.next \notin Objects
  <2> SUFFICES ASSUME ~again, s.next \in Objects PROVE FALSE
    OBVIOUS
  <2>1. Cardinality(Alive(s.heap)) = 0
    <3>1. Cardinality(Alive(s.heap)) + n <= n
      BY <1>10
    <3> HIDE DEF Alive
    <3> QED
      BY <1>0, <1>5, <3>1
  <2>2. Alive(s.heap) = {}
    <3> HIDE DEF Alive
    <3> QED
      BY <1>5, <2>1, FS_EmptySet
  <2>3. s.heap \in Heaps /\ s.heap.refs[s.next] \in Nat /\ Often(Objects, s.heap.inner, s.next) \in Nat
    BY <1>10, HeapParts
  <2>4. s.heap.refs[s.next] = 0
    BY <2>2, <2>3
  <2>5. s.heap.refs[s.next] >= Needed(s.heap, OneMore(owed, s.next), s.next)
    BY <1>10 DEF Balanced, Enough
  <2>6. OneMore(owed, s.next)[s.next] = owed[s.next] + 1 /\ owed[s.next] \in Nat
    BY OneMoreOf DEF Owed
  <2> QED
    BY <2>3, <2>4, <2>5, <2>6 DEF Needed
<1>12. CASE ~again
  BY <1>1, <1>10, <1>11, <1>12 DEF OneMore
<1>13. CASE again
  BY <1>1, <1>10, <1>13, SoundAnyway
<1> QED
  BY <1>12, <1>13

(* What is freed refers to nothing, and this is so whatever is given back.  *)
Clean(p) == \A o \in Objects : p.refs[o] = 0 => p.inner[o] = NoObject

(* A sound heap is clean. *)
LEMMA SoundIsClean ==
  ASSUME NEW p, NEW owed, NEW lost, Balanced(p, owed, lost)
  PROVE  p \in Heaps /\ Clean(p)
BY DEF Balanced, Enough, Clean

(* One reference. *)
LEMMA GivenBackClean ==
  ASSUME NEW s, s.heap \in Heaps, Clean(s.heap)
  PROVE  Py!GivenBack(s).heap \in Heaps /\ Clean(Py!GivenBack(s).heap)
<1> DEFINE p == s.heap
           o == s.next
           q == Py!GivenBack(s).heap
<1>1. p.refs \in [Objects -> Nat] /\ p.inner \in [Objects -> Targets]
      /\ p = [refs |-> p.refs, inner |-> p.inner] /\ Clean(p)
  BY HeapParts DEF Heaps
<1>2. CASE o \notin Objects
  BY <1>1, <1>2 DEF Py!GivenBack
<1>3. CASE o \in Objects /\ p.refs[o] > 1
  <2>1. q = [p EXCEPT !.refs[o] = @ - 1]
    BY <1>3 DEF Py!GivenBack
  <2> HIDE DEF p, q
  <2>2. q.refs = [p.refs EXCEPT ![o] = @ - 1] /\ q.inner = p.inner
    BY <1>1, <2>1
  <2>3. q = [refs |-> [p.refs EXCEPT ![o] = @ - 1], inner |-> p.inner]
    BY <1>1, <2>1
  <2>4. [p.refs EXCEPT ![o] = @ - 1] \in [Objects -> Nat]
    BY <1>1, <1>3
  <2>5. q \in Heaps
    BY <1>1, <2>3, <2>4 DEF Heaps
  <2>6. ASSUME NEW x \in Objects, q.refs[x] = 0 PROVE q.inner[x] = NoObject
    <3>1. p.refs[x] = 0
      BY <1>1, <1>3, <2>2, <2>6
    <3> QED
      BY <1>1, <2>2, <3>1 DEF Clean
  <2> QED
    BY <2>5, <2>6 DEF Clean, q
<1>4. CASE o \in Objects /\ ~(p.refs[o] > 1)
  <2>1. q = [p EXCEPT !.refs[o] = 0, !.inner[o] = NoObject]
    <3>1. Py!GivenBack(s) = [heap |-> [s.heap EXCEPT !.refs[s.next] = 0, !.inner[s.next] = NoObject],
                             next |-> s.heap.inner[s.next]]
      BY <1>4, Zenon DEF Py!GivenBack
    <3> QED
      BY <3>1
  <2> HIDE DEF p, q
  <2>2. q = [refs |-> [p.refs EXCEPT ![o] = 0], inner |-> [p.inner EXCEPT ![o] = NoObject]]
    <3>1. [p EXCEPT !.refs[o] = 0] = [refs |-> [p.refs EXCEPT ![o] = 0], inner |-> p.inner]
      BY <1>1
    <3>2. [p EXCEPT !.refs[o] = 0, !.inner[o] = NoObject] = [[p EXCEPT !.refs[o] = 0] EXCEPT !.inner[o] = NoObject]
      OBVIOUS
    <3>3. \A f, g : [[refs |-> f, inner |-> g] EXCEPT !.inner[o] = NoObject]
                      = [refs |-> f, inner |-> [g EXCEPT ![o] = NoObject]]
      OBVIOUS
    <3> QED
      BY <2>1, <3>1, <3>2, <3>3, Zenon
  <2>3. q.refs = [p.refs EXCEPT ![o] = 0] /\ q.inner = [p.inner EXCEPT ![o] = NoObject]
    BY <2>2
  <2>4. q.refs \in [Objects -> Nat] /\ q.inner \in [Objects -> Targets]
    <3>1. 0 \in Nat /\ NoObject \in Targets
      BY DEF Targets
    <3> QED
      BY <1>1, <2>3, <3>1
  <2>5. q \in Heaps
    BY <2>2, <2>3, <2>4 DEF Heaps
  <2>6. ASSUME NEW x \in Objects, q.refs[x] = 0 PROVE q.inner[x] = NoObject
    <3>1. CASE x = o
      BY <1>1, <1>4, <2>3, <3>1
    <3>2. CASE x # o
      <4>1. p.refs[x] = 0 /\ q.inner[x] = p.inner[x]
        BY <1>1, <2>3, <2>6, <3>2
      <4> QED
        BY <1>1, <4>1 DEF Clean
    <3> QED
      BY <3>1, <3>2
  <2> QED
    BY <2>5, <2>6 DEF Clean, q
<1> QED
  BY <1>2, <1>3, <1>4

(* Py_DECREF. *)
LEMMA DecrefClean ==
  ASSUME NEW p \in Heaps, Clean(p), NEW o
  PROVE  Py!Decref(p, o) \in Heaps /\ Clean(Py!Decref(p, o))
<1> DEFINE n == Cardinality(Objects)
           after == CHOOSE f : f = [k \in 0 .. n |-> DecrefStep(p, o, f, k)]
           Fine(s) == s.heap \in Heaps /\ Clean(s.heap)
           G == {k \in 0 .. n : Fine(after[k])}
<1>0. n \in Nat
  BY PyConstants, FS_CardinalityType
<1>1. Py!Decref(p, o) = after[n].heap
  BY CardinalityIsTheSame DEF Py!Decref, DecrefStep
<1>2. after = [k \in 0 .. n |-> DecrefStep(p, o, after, k)]
  <2> HIDE DEF n
  <2>1. \E f : f = [k \in 0 .. n |-> DecrefStep(p, o, f, k)]
    BY <1>0, GivenBackSteps
  <2> QED
    BY <2>1
<1> HIDE DEF after, n
<1>3. 0 \in G
  <2>1. 0 \in 0 .. n
    BY <1>0
  <2>2. after[0] = [heap |-> p, next |-> o]
    BY <1>2, <2>1 DEF DecrefStep
  <2> QED
    BY <2>1, <2>2
<1>4. ASSUME NEW k \in 0 .. n - 1, k \in G PROVE k + 1 \in G
  <2>1. k + 1 \in 0 .. n /\ k + 1 # 0 /\ (k + 1) - 1 = k
    BY <1>0
  <2>2. after[k + 1] = DecrefStep(p, o, after, k + 1)
    BY <1>2, <2>1
  <2>3. after[k + 1] = Py!GivenBack(after[k])
    BY <2>1, <2>2 DEF DecrefStep
  <2>4. Fine(after[k])
    BY <1>4
  <2>5. Fine(Py!GivenBack(after[k]))
    BY <2>4, GivenBackClean
  <2> QED
    BY <2>1, <2>3, <2>5
<1>5. n \in G
  <2> HIDE DEF G
  <2>1. \A i \in 0 .. n - 1 : i \in G => i + 1 \in G
    BY <1>4
  <2>2. n \in 0 .. n
    BY <1>0
  <2> QED
    BY <1>0, <1>3, <2>1, <2>2, UpToAll
<1>6. Fine(after[n])
  BY <1>5
<1> QED
  BY <1>1, <1>6

(* Whether something was lost already, or is now. *)
LEMMA SoundWhenLost ==
  ASSUME NEW p, NEW owed, NEW lost \in BOOLEAN, Balanced(p, owed, lost)
  PROVE  Balanced(p, owed, TRUE)
BY DEF Balanced, Enough

(* What is owed is lost. *)
LEMMA SoundWithout ==
  ASSUME NEW p, NEW owed \in Owed, NEW o, Balanced(p, OneMore(owed, o), TRUE)
  PROVE  Balanced(p, owed, TRUE)
<1>1. p \in Heaps /\ Enough(p, OneMore(owed, o), TRUE)
  BY DEF Balanced
<1>2. ASSUME NEW x \in Objects
      PROVE  (again \/ p.refs[x] >= Needed(p, owed, x)) /\ (p.refs[x] = 0 => p.inner[x] = NoObject)
  <2>1. (again \/ p.refs[x] >= Needed(p, OneMore(owed, o), x)) /\ (p.refs[x] = 0 => p.inner[x] = NoObject)
    BY <1>1 DEF Enough
  <2>2. OneMore(owed, o)[x] = owed[x] + (IF x = o THEN 1 ELSE 0) /\ owed[x] \in Nat
    BY OneMoreOf DEF Owed
  <2>3. p.refs[x] \in Nat /\ Often(Objects, p.inner, x) \in Nat
    BY <1>1, HeapParts
  <2> QED
    BY <2>1, <2>2, <2>3 DEF Needed
<1> QED
  BY <1>1, <1>2 DEF Balanced, Enough

(* A new reference is owed to somebody, and a new object refers to one that *)
(* is there.                                                               *)
LEMMA MadeSound ==
  ASSUME NEW p, NEW owed \in Owed, NEW lost \in BOOLEAN, Balanced(p, owed, lost), NEW o \in Objects,
         NEW in \in Targets, in \in Objects => again \/ p.refs[in] > 0
  PROVE  Balanced(Py!Made(p, o, in), OneMore(owed, o), lost)
<1>1. p \in Heaps /\ Enough(p, owed, lost) /\ p.refs \in [Objects -> Nat] /\ p.inner \in [Objects -> Targets]
  BY HeapParts DEF Balanced
<1>2. CASE p.refs[o] > 0
  BY <1>2, IncrefSound DEF Py!Made
<1>3. ASSUME ~(p.refs[o] > 0)
      PROVE  Py!Made(p, o, in) = Py!Incref([refs |-> [p.refs EXCEPT ![o] = 1], inner |-> [p.inner EXCEPT ![o] = in]], in)
  <2>1. p = [refs |-> p.refs, inner |-> p.inner]
    BY <1>1 DEF Heaps
  <2>2. [p EXCEPT !.refs[o] = 1] = [refs |-> [p.refs EXCEPT ![o] = 1], inner |-> p.inner]
    BY <2>1
  <2>3. [p EXCEPT !.refs[o] = 1, !.inner[o] = in] = [[p EXCEPT !.refs[o] = 1] EXCEPT !.inner[o] = in]
    OBVIOUS
  <2>4. \A f, g : [[refs |-> f, inner |-> g] EXCEPT !.inner[o] = in]
                    = [refs |-> f, inner |-> [g EXCEPT ![o] = in]]
    OBVIOUS
  <2>5. [p EXCEPT !.refs[o] = 1, !.inner[o] = in]
          = [refs |-> [p.refs EXCEPT ![o] = 1], inner |-> [p.inner EXCEPT ![o] = in]]
    BY <2>2, <2>3, <2>4, Zenon
  <2> QED
    BY <1>3, <2>5 DEF Py!Made
<1>4. CASE ~again /\ ~(p.refs[o] > 0)
  <2> DEFINE q == Py!Incref(p, in)
             more == OneMore(owed, in)
             r == [refs |-> [q.refs EXCEPT ![o] = 1], inner |-> [q.inner EXCEPT ![o] = in]]
  <2>1. p.refs[o] = 0 /\ p.inner[o] = NoObject
    BY <1>1, <1>4 DEF Enough
  <2>2. in # o
    BY <1>4, <2>1
  <2>3. Balanced(q, more, lost)
    BY IncrefSound
  <2>4. q \in Heaps /\ Enough(q, more, lost) /\ q.refs \in [Objects -> Nat] /\ q.inner \in [Objects -> Targets]
    BY <2>3, HeapParts DEF Balanced
  <2>5. q.refs[o] = 0 /\ q.inner = p.inner
    BY <1>1, <2>1, <2>2 DEF Py!Incref, Heaps
  <2>6. Py!Made(p, o, in) = r
    <3> DEFINE n == [refs |-> [p.refs EXCEPT ![o] = 1], inner |-> [p.inner EXCEPT ![o] = in]]
    <3>2. Py!Made(p, o, in) = Py!Incref(n, in)
      BY <1>3, <1>4
    <3>3. CASE in \notin Objects
      BY <3>2, <3>3 DEF Py!Incref
    <3>4. CASE in \in Objects
      <4>1. Py!Incref(n, in) = [refs |-> [n.refs EXCEPT ![in] = @ + 1], inner |-> n.inner]
        BY <3>4 DEF Py!Incref
      <4>2. q = [refs |-> [p.refs EXCEPT ![in] = @ + 1], inner |-> p.inner]
        BY <1>1, <3>4 DEF Py!Incref, Heaps
      <4>3. [[p.refs EXCEPT ![o] = 1] EXCEPT ![in] = @ + 1] = [[p.refs EXCEPT ![in] = @ + 1] EXCEPT ![o] = 1]
        BY <1>1, <2>2
      <4> QED
        BY <3>2, <4>1, <4>2, <4>3
    <3> QED
      BY <3>3, <3>4
  <2>7. r.refs = [q.refs EXCEPT ![o] = 1] /\ r.inner = [q.inner EXCEPT ![o] = in]
    OBVIOUS
  <2>8. r \in Heaps
    BY <2>4 DEF Heaps
  <2> HIDE DEF q, r, more
  <2>9. r.inner[o] = in /\ q.inner[o] = NoObject /\ r.refs[o] = 1
        /\ \A y \in Objects \ {o} : r.inner[y] = q.inner[y] /\ r.refs[y] = q.refs[y]
    BY <2>1, <2>4, <2>5, <2>7
  <2>10. ASSUME NEW x \in Objects
         PROVE  Often(Objects, r.inner, x) = Often(Objects, q.inner, x) + (IF x = in THEN 1 ELSE 0)
    <3>1. x # NoObject
      BY PyConstants
    <3>2. CASE x = in
      <4>1. r.inner[o] = x /\ q.inner[o] # x /\ Elsewhere(Objects, q.inner, r.inner, o)
        BY <2>9, <3>1, <3>2 DEF Elsewhere
      <4>2. Often(Objects, r.inner, x) = Often(Objects, q.inner, x) + 1
        BY <4>1, PyConstants, OftenMore
      <4> QED
        BY <3>2, <4>2
    <3>3. CASE x # in
      <4>1. r.inner[o] # x /\ q.inner[o] # x /\ Elsewhere(Objects, q.inner, r.inner, o)
        BY <2>9, <3>1, <3>3 DEF Elsewhere
      <4>2. Often(Objects, r.inner, x) = Often(Objects, q.inner, x)
        BY <4>1, OftenSame
      <4>3. Often(Objects, q.inner, x) \in Nat
        BY <2>4, HeapParts
      <4> QED
        BY <3>3, <4>2, <4>3
    <3> QED
      BY <3>2, <3>3
  <2>11. ASSUME NEW x \in Objects
         PROVE  /\ \/ again
                   \/ /\ r.refs[x] >= Needed(r, OneMore(owed, o), x)
                      /\ ~lost => r.refs[x] = Needed(r, OneMore(owed, o), x)
                /\ r.refs[x] = 0 => r.inner[x] = NoObject
    <3>1. /\ q.refs[x] >= Needed(q, more, x) /\ (~lost => q.refs[x] = Needed(q, more, x))
          /\ q.refs[x] = 0 => q.inner[x] = NoObject
      BY <1>4, <2>4 DEF Enough
    <3>2. /\ more[x] = owed[x] + (IF x = in THEN 1 ELSE 0)
          /\ OneMore(owed, o)[x] = owed[x] + (IF x = o THEN 1 ELSE 0) /\ owed[x] \in Nat
      BY OneMoreOf DEF Owed, more
    <3>3. Often(Objects, q.inner, x) \in Nat /\ q.refs[x] \in Nat
      BY <2>4, HeapParts
    <3>4. Needed(r, OneMore(owed, o), x) = Needed(q, more, x) + (IF x = o THEN 1 ELSE 0)
      BY <2>10, <3>2, <3>3 DEF Needed
    <3>5. Needed(q, more, x) \in Nat
      BY <3>2, <3>3 DEF Needed
    <3>6. CASE x = o
      BY <2>5, <2>9, <3>1, <3>4, <3>5, <3>6
    <3>7. CASE x # o
      BY <2>9, <3>1, <3>3, <3>4, <3>5, <3>7
    <3> QED
      BY <3>6, <3>7
  <2>12. OneMore(owed, o) \in Owed
    BY OneMoreOf
  <2>13. Balanced(r, OneMore(owed, o), lost)
    BY <2>8, <2>11, <2>12 DEF Balanced, Enough
  <2> QED
    BY <2>6, <2>13
<1>5. CASE again /\ ~(p.refs[o] > 0)
  <2> DEFINE r == [refs |-> [p.refs EXCEPT ![o] = 1], inner |-> [p.inner EXCEPT ![o] = in]]
  <2>1. r.refs = [p.refs EXCEPT ![o] = 1] /\ r.inner = [p.inner EXCEPT ![o] = in] /\ r \in Heaps
    BY <1>1 DEF Heaps
  <2>2. Py!Made(p, o, in) = Py!Incref(r, in)
    BY <1>3, <1>5
  <2> HIDE DEF r
  <2>3. ASSUME NEW x \in Objects, r.refs[x] = 0 PROVE r.inner[x] = NoObject
    <3>1. x # o
      BY <1>1, <2>1, <2>3
    <3>2. p.refs[x] = 0 /\ r.inner[x] = p.inner[x]
      BY <1>1, <2>1, <2>3, <3>1
    <3> QED
      BY <1>1, <3>2 DEF Enough
  <2>4. Balanced(r, owed, lost)
    BY <1>5, <2>1, <2>3 DEF Balanced, Enough
  <2>5. Balanced(Py!Incref(r, in), OneMore(owed, in), lost)
    BY <2>4, IncrefSound
  <2>6. OneMore(owed, o) \in Owed
    BY OneMoreOf
  <2> QED
    BY <1>5, <2>2, <2>5, <2>6, SoundAnyway
<1> QED
  BY <1>2, <1>4, <1>5

-----------------------------------------------------------------------------
(* The references that the arguments of a call have. *)

ItemOf(arg) == IF arg \in Handles THEN handle[arg] ELSE NoObject
Items(args) == [j \in 1 .. Len(args) |-> ItemOf(args[j])]
Lent(owed, args, i) == [o \in Objects |-> owed[o] + Often(1 .. i, Items(args), o)]

(* None of them is converted. *)
LEMMA LentNothing == ASSUME NEW owed \in Owed, NEW args PROVE Lent(owed, args, 0) = owed
<1>1. ASSUME NEW o \in Objects PROVE Lent(owed, args, 0)[o] = owed[o]
  <2>1. 1 .. 0 = {}
    OBVIOUS
  <2>2. Where(1 .. 0, Items(args), o) = {}
    BY <2>1 DEF Where
  <2>3. Often(1 .. 0, Items(args), o) = 0
    BY <2>2, FS_EmptySet DEF Often
  <2> QED
    BY <2>3 DEF Lent, Owed
<1> QED
  BY <1>1 DEF Lent, Owed

(* Their number is one, and the references owed. *)
LEMMA LentNat ==
  ASSUME NEW owed \in Owed, NEW args, NEW i \in Nat
  PROVE  /\ Lent(owed, args, i) \in Owed
         /\ \A o \in Objects : Lent(owed, args, i)[o] = owed[o] + Often(1 .. i, Items(args), o)
         /\ \A o \in Objects : owed[o] \in Nat /\ Often(1 .. i, Items(args), o) \in Nat
<1>1. ASSUME NEW o \in Objects PROVE owed[o] \in Nat /\ Often(1 .. i, Items(args), o) \in Nat
  <2>1. IsFiniteSet(1 .. i)
    BY FS_Interval
  <2> QED
    BY <2>1, OftenNat DEF Owed
<1> QED
  BY <1>1 DEF Lent, Owed

(* One more of them is converted. *)
LEMMA LentStep ==
  ASSUME NEW owed \in Owed, NEW args, Len(args) \in Nat, NEW i \in 0 .. Len(args) - 1
  PROVE  Lent(owed, args, i + 1) = OneMore(Lent(owed, args, i), ItemOf(args[i + 1]))
<1> DEFINE f == Items(args)
<1>1. f[i + 1] = ItemOf(args[i + 1])
  BY DEF Items
<1> HIDE DEF f
<1>2. ASSUME NEW o \in Objects
      PROVE  Often(1 .. i + 1, f, o) = Often(1 .. i, f, o) + (IF o = f[i + 1] THEN 1 ELSE 0)
  <2>0. 1 .. i + 1 = (1 .. i) \cup {i + 1} /\ i + 1 \notin 1 .. i /\ i \in Int
    OBVIOUS
  <2>1. 1 .. i + 1 = (1 .. i) \cup {i + 1} /\ i + 1 \notin 1 .. i /\ IsFiniteSet(1 .. i)
    <3>1. 1 \in Int /\ i \in Int
      OBVIOUS
    <3>2. IsFiniteSet(1 .. i)
      BY <3>1, FS_Interval, Zenon
    <3> QED
      BY <2>0, <3>2
  <2>2. IsFiniteSet(Where(1 .. i, f, o)) /\ Often(1 .. i, f, o) \in Nat
    BY <2>1, OftenNat
  <2>3. CASE o = f[i + 1]
    <3>1. Where(1 .. i + 1, f, o) = Where(1 .. i, f, o) \cup {i + 1} /\ i + 1 \notin Where(1 .. i, f, o)
      BY <2>1, <2>3 DEF Where
    <3> QED
      BY <2>2, <2>3, <3>1, FS_AddElement DEF Often
  <2>4. CASE o # f[i + 1]
    <3>1. Where(1 .. i + 1, f, o) = Where(1 .. i, f, o)
      BY <2>1, <2>4 DEF Where
    <3> QED
      BY <2>2, <2>4, <3>1 DEF Often
  <2> QED
    BY <2>3, <2>4
<1>3. i \in Nat /\ i + 1 \in Nat
  OBVIOUS
<1> DEFINE a == Lent(owed, args, i)
           b == Lent(owed, args, i + 1)
<1>4. a \in Owed /\ b \in Owed
  BY <1>3, LentNat
<1>5. ASSUME NEW o \in Objects PROVE b[o] = OneMore(a, f[i + 1])[o]
  <2>1. /\ a[o] = owed[o] + Often(1 .. i, f, o) /\ b[o] = owed[o] + Often(1 .. i + 1, f, o)
        /\ owed[o] \in Nat /\ Often(1 .. i, f, o) \in Nat
    BY <1>3, LentNat DEF f
  <2>2. OneMore(a, f[i + 1])[o] = a[o] + (IF o = f[i + 1] THEN 1 ELSE 0)
    BY <1>4, OneMoreOf
  <2> QED
    BY <1>2, <2>1, <2>2
<1>6. OneMore(a, f[i + 1]) \in Owed
  BY <1>4, OneMoreOf
<1> HIDE DEF a, b
<1>7. b = OneMore(a, f[i + 1])
  BY <1>4, <1>5, <1>6 DEF Owed
<1> QED
  BY <1>1, <1>7 DEF a, b

(* What else is owed does not matter for that. *)
LEMMA LentAndMore ==
  ASSUME NEW owed \in Owed, NEW args, NEW i \in Nat, NEW x \in Objects
  PROVE  OneMore(Lent(owed, args, i), x) = Lent(OneMore(owed, x), args, i)
<1> DEFINE a == OneMore(Lent(owed, args, i), x)
           b == Lent(OneMore(owed, x), args, i)
<1>1. Lent(owed, args, i) \in Owed /\ OneMore(owed, x) \in Owed
  BY LentNat, OneMoreOf
<1>2. a \in Owed /\ b \in Owed
  BY <1>1, LentNat, OneMoreOf
<1>3. ASSUME NEW o \in Objects PROVE a[o] = b[o]
  <2>1. a[o] = Lent(owed, args, i)[o] + (IF o = x THEN 1 ELSE 0)
    BY <1>1, OneMoreOf
  <2>2. /\ Lent(owed, args, i)[o] = owed[o] + Often(1 .. i, Items(args), o)
        /\ owed[o] \in Nat /\ Often(1 .. i, Items(args), o) \in Nat
    BY LentNat
  <2>3. b[o] = OneMore(owed, x)[o] + Often(1 .. i, Items(args), o)
    BY <1>1, LentNat
  <2>4. OneMore(owed, x)[o] = owed[o] + (IF o = x THEN 1 ELSE 0)
    BY OneMoreOf
  <2> QED
    BY <2>1, <2>2, <2>3, <2>4
<1> HIDE DEF a, b
<1> QED
  BY <1>2, <1>3 DEF Owed, a, b

(* The heap between the conversions. *)
TakenStep(args, f, k) == IF k = 0 THEN Py!Heap ELSE Py!Converted(f[k - 1], args[k])

(* It exists. *)
LEMMA TakenSteps ==
  ASSUME NEW args, NEW n \in Nat
  PROVE  \E f : f = [k \in 0 .. n |-> TakenStep(args, f, k)]
<1> USE DEF TakenStep
<1> DEFINE Step(f, k) == TakenStep(args, f, k)
           G == {m \in 0 .. n : \E f : f = [k \in 0 .. m |-> Step(f, k)]}
<1>1. 0 \in G
  <2> DEFINE f == [k \in 0 .. 0 |-> Py!Heap]
  <2>1. \A k \in 0 .. 0 : k = 0
    OBVIOUS
  <2>2. f = [k \in 0 .. 0 |-> Step(f, k)]
    BY <2>1
  <2> HIDE DEF f, Step
  <2> QED
    BY <2>2
<1>2. ASSUME NEW m \in 0 .. n - 1, m \in G PROVE m + 1 \in G
  <2>1. PICK f : f = [k \in 0 .. m |-> Step(f, k)]
    BY <1>2
  <2> DEFINE h == [k \in 0 .. m + 1 |-> Step(f, k)]
  <2>2. ASSUME NEW k \in 0 .. m PROVE h[k] = f[k]
    <3> HIDE DEF Step
    <3> QED
      BY <2>1
  <2>3. ASSUME NEW k \in 0 .. m + 1 PROVE Step(f, k) = Step(h, k)
    <3>1. CASE k = 0
      BY <3>1
    <3>2. CASE k # 0
      <4>1. k - 1 \in 0 .. m
        BY <3>2
      <4>2. h[k - 1] = f[k - 1]
        BY <2>2, <4>1
      <4> HIDE DEF h
      <4> QED
        BY <3>2, <4>2
    <3> QED
      BY <3>1, <3>2
  <2>4. h = [k \in 0 .. m + 1 |-> Step(h, k)]
    <3> HIDE DEF Step
    <3> QED
      BY <2>3
  <2>5. m + 1 \in 0 .. n
    OBVIOUS
  <2> HIDE DEF h, Step
  <2> QED
    BY <2>4, <2>5
<1>3. n \in G
  <2> HIDE DEF G
  <2>1. \A i \in 0 .. n - 1 : i \in G => i + 1 \in G
    BY <1>2
  <2>2. n \in 0 .. n
    OBVIOUS
  <2> QED
    BY <1>1, <2>1, <2>2, UpToAll
<1> HIDE DEF Step
<1>4. PICK f : f = [k \in 0 .. n |-> Step(f, k)]
  BY <1>3
<1> HIDE DEF TakenStep
<1> QED
  BY <1>4 DEF Step

(* The heap while the list is freed. *)
ReleasedStep(p, args, f, k) ==
  IF k = 0 THEN p ELSE Py!Decref(f[k - 1], ItemOf(args[Len(args) - k + 1]))

(* It exists. *)
LEMMA ReleasedSteps ==
  ASSUME NEW p, NEW args, NEW n \in Nat
  PROVE  \E f : f = [k \in 0 .. n |-> ReleasedStep(p, args, f, k)]
<1> USE DEF ReleasedStep
<1> DEFINE Step(f, k) == ReleasedStep(p, args, f, k)
           G == {m \in 0 .. n : \E f : f = [k \in 0 .. m |-> Step(f, k)]}
<1>1. 0 \in G
  <2> DEFINE f == [k \in 0 .. 0 |-> p]
  <2>1. \A k \in 0 .. 0 : k = 0
    OBVIOUS
  <2>2. f = [k \in 0 .. 0 |-> Step(f, k)]
    BY <2>1
  <2> HIDE DEF f, Step
  <2> QED
    BY <2>2
<1>2. ASSUME NEW m \in 0 .. n - 1, m \in G PROVE m + 1 \in G
  <2>1. PICK f : f = [k \in 0 .. m |-> Step(f, k)]
    BY <1>2
  <2> DEFINE h == [k \in 0 .. m + 1 |-> Step(f, k)]
  <2>2. ASSUME NEW k \in 0 .. m PROVE h[k] = f[k]
    <3> HIDE DEF Step
    <3> QED
      BY <2>1
  <2>3. ASSUME NEW k \in 0 .. m + 1 PROVE Step(f, k) = Step(h, k)
    <3>1. CASE k = 0
      BY <3>1
    <3>2. CASE k # 0
      <4>1. k - 1 \in 0 .. m
        BY <3>2
      <4>2. h[k - 1] = f[k - 1]
        BY <2>2, <4>1
      <4> HIDE DEF h
      <4> QED
        BY <3>2, <4>2
    <3> QED
      BY <3>1, <3>2
  <2>4. h = [k \in 0 .. m + 1 |-> Step(h, k)]
    <3> HIDE DEF Step
    <3> QED
      BY <2>3
  <2>5. m + 1 \in 0 .. n
    OBVIOUS
  <2> HIDE DEF h, Step
  <2> QED
    BY <2>4, <2>5
<1>3. n \in G
  <2> HIDE DEF G
  <2>1. \A i \in 0 .. n - 1 : i \in G => i + 1 \in G
    BY <1>2
  <2>2. n \in 0 .. n
    OBVIOUS
  <2> QED
    BY <1>1, <2>1, <2>2, UpToAll
<1> HIDE DEF Step
<1>4. PICK f : f = [k \in 0 .. n |-> Step(f, k)]
  BY <1>3
<1> HIDE DEF ReleasedStep
<1> QED
  BY <1>4 DEF Step

(* The conversion of the arguments takes a reference to each of their objects. *)
LEMMA TakenSound ==
  ASSUME NEW owed \in Owed, NEW lost \in BOOLEAN, NEW args, Len(args) \in Nat, Balanced(Py!Heap, owed, lost)
  PROVE  Balanced(Py!Taken(args), Lent(owed, args, Len(args)), lost)
<1> DEFINE n == Len(args)
           after == CHOOSE f : f = [k \in 0 .. n |-> TakenStep(args, f, k)]
           G == {k \in 0 .. n : Balanced(after[k], Lent(owed, args, k), lost)}
<1>1. Py!Taken(args) = after[n]
  BY DEF Py!Taken, TakenStep
<1>2. after = [k \in 0 .. n |-> TakenStep(args, after, k)]
  <2>1. \E f : f = [k \in 0 .. n |-> TakenStep(args, f, k)]
    BY TakenSteps
  <2> QED
    BY <2>1
<1> HIDE DEF after
<1>3. after[0] = Py!Heap
  <2>1. 0 \in 0 .. n
    OBVIOUS
  <2>2. after[0] = TakenStep(args, after, 0)
    BY <1>2, <2>1
  <2> QED
    BY <2>2 DEF TakenStep
<1>4. 0 \in G
  BY <1>3, LentNothing
<1>5. ASSUME NEW k \in 0 .. n - 1, k \in G PROVE k + 1 \in G
  <2>1. k + 1 \in 0 .. n /\ k + 1 # 0 /\ (k + 1) - 1 = k
    OBVIOUS
  <2>2. after[k + 1] = TakenStep(args, after, k + 1)
    BY <1>2, <2>1
  <2>3. after[k + 1] = Py!Converted(after[k], args[k + 1])
    BY <2>1, <2>2 DEF TakenStep
  <2>4. after[k + 1] = Py!Incref(after[k], ItemOf(args[k + 1]))
    BY <2>3, PyConstants DEF Py!Converted, Py!Incref, ItemOf
  <2>5. Balanced(after[k], Lent(owed, args, k), lost)
    BY <1>5
  <2>6. Balanced(after[k + 1], OneMore(Lent(owed, args, k), ItemOf(args[k + 1])), lost)
    BY <2>4, <2>5, IncrefSound
  <2>7. Lent(owed, args, k + 1) = OneMore(Lent(owed, args, k), ItemOf(args[k + 1]))
    BY LentStep
  <2> QED
    BY <2>1, <2>6, <2>7
<1>6. n \in G
  <2> HIDE DEF G
  <2>1. \A i \in 0 .. n - 1 : i \in G => i + 1 \in G
    BY <1>5
  <2>2. n \in Nat /\ n \in 0 .. n
    OBVIOUS
  <2> QED
    BY <1>4, <2>1, <2>2, UpToAll
<1> QED
  BY <1>1, <1>6

(* Freeing the list or tuple gives these references back.                  *)
LEMMA ReleasedSound ==
  ASSUME NEW p, NEW owed \in Owed, NEW lost \in BOOLEAN, NEW args, Len(args) \in Nat,
         Balanced(p, Lent(owed, args, Len(args)), lost)
  PROVE  Balanced(Py!Released(p, args), owed, lost)
<1> DEFINE n == Len(args)
           after == CHOOSE f : f = [k \in 0 .. n |-> ReleasedStep(p, args, f, k)]
           G == {k \in 0 .. n : Balanced(after[k], Lent(owed, args, n - k), lost)}
<1>1. Py!Released(p, args) = after[n]
  BY DEF Py!Released, ReleasedStep, ItemOf
<1>2. after = [k \in 0 .. n |-> ReleasedStep(p, args, after, k)]
  <2>1. \E f : f = [k \in 0 .. n |-> ReleasedStep(p, args, f, k)]
    BY ReleasedSteps
  <2> QED
    BY <2>1
<1> HIDE DEF after
<1>3. after[0] = p
  <2>1. 0 \in 0 .. n
    OBVIOUS
  <2>2. after[0] = ReleasedStep(p, args, after, 0)
    BY <1>2, <2>1
  <2> QED
    BY <2>2 DEF ReleasedStep
<1>4. 0 \in G
  <2>1. n - 0 = n /\ 0 \in 0 .. n
    OBVIOUS
  <2> QED
    BY <1>3, <2>1
<1>5. ASSUME NEW k \in 0 .. n - 1, k \in G PROVE k + 1 \in G
  <2> DEFINE i == n - (k + 1)
  <2>1. k + 1 \in 0 .. n /\ k + 1 # 0 /\ (k + 1) - 1 = k /\ n - (k + 1) + 1 = i + 1 /\ n - k = i + 1
    OBVIOUS
  <2>2. i \in 0 .. n - 1 /\ i \in Nat
    OBVIOUS
  <2>3. after[k + 1] = ReleasedStep(p, args, after, k + 1)
    BY <1>2, <2>1
  <2>4. after[k + 1] = Py!Decref(after[k], ItemOf(args[i + 1]))
    BY <2>1, <2>3 DEF ReleasedStep
  <2>5. Balanced(after[k], Lent(owed, args, i + 1), lost)
    BY <1>5, <2>1
  <2> HIDE DEF i
  <2>6. Lent(owed, args, i + 1) = OneMore(Lent(owed, args, i), ItemOf(args[i + 1]))
    BY <2>2, LentStep
  <2>7. Lent(owed, args, i) \in Owed
    BY <2>2, LentNat
  <2>8. Balanced(after[k + 1], Lent(owed, args, i), lost)
    BY <2>4, <2>5, <2>6, <2>7, DecrefSound
  <2> QED
    BY <2>1, <2>8 DEF i
<1>6. n \in G
  <2> HIDE DEF G
  <2>1. \A j \in 0 .. n - 1 : j \in G => j + 1 \in G
    BY <1>5
  <2>2. n \in Nat /\ n \in 0 .. n
    OBVIOUS
  <2> QED
    BY <1>4, <2>1, <2>2, UpToAll
<1>7. Balanced(after[n], Lent(owed, args, 0), lost)
  <2>1. n - n = 0
    OBVIOUS
  <2> QED
    BY <1>6, <2>1
<1> QED
  BY <1>1, <1>7, LentNothing

(* Who refers to an object from outside: userdata, loops that are not over, *)
(* Python's variables, and the error indicator.                            *)
LoopOf(c) == IF c.done THEN NoObject ELSE c.iter
LoopsOf(ls) == [l \in Loops |-> LoopOf(ls[l])]
External(hs, ls, g, e) ==
  [o \in Objects |-> Often(Handles, hs, o) + Often(Loops, LoopsOf(ls), o)
                       + (IF o \in g THEN 1 ELSE 0) + (IF e = o THEN 1 ELSE 0)]

(* They are so many. *)
LEMMA ExternalNat ==
  ASSUME NEW hs, NEW ls, NEW g, NEW e
  PROVE  /\ External(hs, ls, g, e) \in Owed
         /\ \A o \in Objects :
              /\ External(hs, ls, g, e)[o] = Often(Handles, hs, o) + Often(Loops, LoopsOf(ls), o)
                                               + (IF o \in g THEN 1 ELSE 0) + (IF e = o THEN 1 ELSE 0)
              /\ Often(Handles, hs, o) \in Nat /\ Often(Loops, LoopsOf(ls), o) \in Nat
<1>1. \A o \in Objects : Often(Handles, hs, o) \in Nat /\ Often(Loops, LoopsOf(ls), o) \in Nat
  BY PyConstants, OftenNat
<1> QED
  BY <1>1 DEF External, Owed

(* It is enough to compare what is owed for each object. *)
LEMMA OwedEqual ==
  ASSUME NEW a \in Owed, NEW b \in Owed, \A o \in Objects : a[o] = b[o]
  PROVE  a = b
BY DEF Owed

(* One place of a function that did not have the value of an object.       *)
LEMMA OftenChanged ==
  ASSUME NEW S, IsFiniteSet(S), NEW f, NEW g, NEW x \in S, NEW o \in Objects, f[x] \notin Objects,
         Elsewhere(S, f, g, x)
  PROVE  Often(S, g, o) = Often(S, f, o) + (IF o = g[x] THEN 1 ELSE 0)
<1>1. f[x] # o /\ Often(S, f, o) \in Nat
  BY OftenNat
<1>2. CASE o = g[x]
  <2>1. Often(S, g, o) = Often(S, f, o) + 1
    BY <1>1, <1>2, OftenMore
  <2> QED
    BY <1>2, <2>1
<1>3. CASE o # g[x]
  <2>1. Often(S, g, o) = Often(S, f, o)
    BY <1>1, <1>3, OftenSame
  <2> QED
    BY <1>1, <1>3, <2>1
<1> QED
  BY <1>2, <1>3

(* A userdata takes a reference. *)
LEMMA HandleTakes ==
  ASSUME NEW hs, NEW hs1, NEW ls, NEW g, NEW e, NEW h \in Handles, hs[h] \notin Objects,
         Elsewhere(Handles, hs, hs1, h)
  PROVE  External(hs1, ls, g, e) = OneMore(External(hs, ls, g, e), hs1[h])
<1> DEFINE m == hs
           n == hs1
           x == hs1[h]
           a == External(m, ls, g, e)
           b == External(n, ls, g, e)
<1>1. a \in Owed /\ b \in Owed /\ OneMore(a, x) \in Owed
  BY ExternalNat, OneMoreOf
<1>0. m[h] \notin Objects /\ n[h] = x /\ Elsewhere(Handles, m, n, h)
  OBVIOUS
<1> HIDE DEF m, n, x
<1>2. ASSUME NEW o \in Objects PROVE b[o] = OneMore(a, x)[o]
  <2>1. Often(Handles, n, o) = Often(Handles, m, o) + (IF o = n[h] THEN 1 ELSE 0)
    BY <1>0, PyConstants, OftenChanged
  <2>2. OneMore(a, x)[o] = a[o] + (IF o = x THEN 1 ELSE 0)
    BY <1>1, OneMoreOf
  <2>3. /\ a[o] = Often(Handles, m, o) + Often(Loops, LoopsOf(ls), o)
                    + (IF o \in g THEN 1 ELSE 0) + (IF e = o THEN 1 ELSE 0)
        /\ b[o] = Often(Handles, n, o) + Often(Loops, LoopsOf(ls), o)
                    + (IF o \in g THEN 1 ELSE 0) + (IF e = o THEN 1 ELSE 0)
        /\ Often(Handles, m, o) \in Nat /\ Often(Loops, LoopsOf(ls), o) \in Nat
    <3>1. /\ a[o] = Often(Handles, m, o) + Often(Loops, LoopsOf(ls), o)
                      + (IF o \in g THEN 1 ELSE 0) + (IF e = o THEN 1 ELSE 0)
          /\ Often(Handles, m, o) \in Nat /\ Often(Loops, LoopsOf(ls), o) \in Nat
      BY ExternalNat
    <3>2. b[o] = Often(Handles, n, o) + Often(Loops, LoopsOf(ls), o)
                   + (IF o \in g THEN 1 ELSE 0) + (IF e = o THEN 1 ELSE 0)
      BY ExternalNat
    <3> QED
      BY <3>1, <3>2
  <2> HIDE DEF a, b
  <2> QED
    BY <1>0, <2>1, <2>2, <2>3
<1> HIDE DEF a, b
<1>3. b = OneMore(a, x)
  BY <1>1, <1>2, OwedEqual
<1> QED
  BY <1>3 DEF a, b, m, n, x

(* A loop takes one. *)
LEMMA LoopTakes ==
  ASSUME NEW hs, NEW ls, NEW ls1, NEW g, NEW e, NEW l \in Loops, LoopOf(ls[l]) \notin Objects,
         Elsewhere(Loops, ls, ls1, l)
  PROVE  External(hs, ls1, g, e) = OneMore(External(hs, ls, g, e), LoopOf(ls1[l]))
<1> DEFINE a == External(hs, ls, g, e)
           b == External(hs, ls1, g, e)
           x == LoopOf(ls1[l])
           m == LoopsOf(ls)
           n == LoopsOf(ls1)
<1>1. a \in Owed /\ b \in Owed /\ OneMore(a, x) \in Owed
  BY ExternalNat, OneMoreOf
<1>2. m[l] \notin Objects /\ n[l] = x /\ Elsewhere(Loops, m, n, l)
  BY DEF LoopsOf, Elsewhere
<1> HIDE DEF x
<1>3. ASSUME NEW o \in Objects PROVE b[o] = OneMore(a, x)[o]
  <2>1. Often(Loops, n, o) = Often(Loops, m, o) + (IF o = n[l] THEN 1 ELSE 0)
    <3> HIDE DEF m, n
    <3> QED
      BY <1>2, PyConstants, OftenChanged
  <2>2. OneMore(a, x)[o] = a[o] + (IF o = x THEN 1 ELSE 0)
    BY <1>1, OneMoreOf
  <2>3. /\ a[o] = Often(Handles, hs, o) + Often(Loops, m, o)
                    + (IF o \in g THEN 1 ELSE 0) + (IF e = o THEN 1 ELSE 0)
        /\ b[o] = Often(Handles, hs, o) + Often(Loops, n, o)
                    + (IF o \in g THEN 1 ELSE 0) + (IF e = o THEN 1 ELSE 0)
        /\ Often(Handles, hs, o) \in Nat /\ Often(Loops, m, o) \in Nat
    BY ExternalNat
  <2> HIDE DEF a, b, m, n
  <2> QED
    BY <1>2, <2>1, <2>2, <2>3
<1> HIDE DEF a, b, m, n
<1>4. b = OneMore(a, x)
  BY <1>1, <1>3, OwedEqual
<1> QED
  BY <1>4 DEF a, b, x

(* The error indicator has one. *)
LEMMA ErrorTakes ==
  ASSUME NEW hs, NEW ls, NEW g, NEW e
  PROVE  External(hs, ls, g, e) = OneMore(External(hs, ls, g, NoObject), e)
<1> DEFINE a == External(hs, ls, g, NoObject)
           b == External(hs, ls, g, e)
<1>1. a \in Owed /\ b \in Owed /\ OneMore(a, e) \in Owed
  BY ExternalNat, OneMoreOf
<1>2. ASSUME NEW o \in Objects PROVE b[o] = OneMore(a, e)[o]
  <2>1. OneMore(a, e)[o] = a[o] + (IF o = e THEN 1 ELSE 0)
    BY <1>1, OneMoreOf
  <2>2. /\ a[o] = Often(Handles, hs, o) + Often(Loops, LoopsOf(ls), o)
                    + (IF o \in g THEN 1 ELSE 0) + (IF NoObject = o THEN 1 ELSE 0)
        /\ b[o] = Often(Handles, hs, o) + Often(Loops, LoopsOf(ls), o)
                    + (IF o \in g THEN 1 ELSE 0) + (IF e = o THEN 1 ELSE 0)
        /\ Often(Handles, hs, o) \in Nat /\ Often(Loops, LoopsOf(ls), o) \in Nat
    BY ExternalNat
  <2>3. NoObject # o
    BY PyConstants
  <2> HIDE DEF a, b
  <2> QED
    BY <2>1, <2>2, <2>3
<1> HIDE DEF a, b
<1>3. b = OneMore(a, e)
  BY <1>1, <1>2, OwedEqual
<1> QED
  BY <1>3 DEF a, b

(* A variable of Python takes one. *)
LEMMA GlobalTakes ==
  ASSUME NEW hs, NEW ls, NEW g, NEW e, NEW x \in Objects, x \notin g
  PROVE  External(hs, ls, g \cup {x}, e) = OneMore(External(hs, ls, g, e), x)
<1> DEFINE more == g \cup {x}
           a == External(hs, ls, g, e)
           b == External(hs, ls, more, e)
<1>0. \A o \in Objects : o \in more <=> o \in g \/ o = x
  OBVIOUS
<1> HIDE DEF more
<1>1. a \in Owed /\ b \in Owed /\ OneMore(a, x) \in Owed
  BY ExternalNat, OneMoreOf
<1>2. ASSUME NEW o \in Objects PROVE b[o] = OneMore(a, x)[o]
  <2>1. OneMore(a, x)[o] = a[o] + (IF o = x THEN 1 ELSE 0)
    BY <1>1, OneMoreOf
  <2>2. /\ a[o] = Often(Handles, hs, o) + Often(Loops, LoopsOf(ls), o)
                    + (IF o \in g THEN 1 ELSE 0) + (IF e = o THEN 1 ELSE 0)
        /\ b[o] = Often(Handles, hs, o) + Often(Loops, LoopsOf(ls), o)
                    + (IF o \in more THEN 1 ELSE 0) + (IF e = o THEN 1 ELSE 0)
        /\ Often(Handles, hs, o) \in Nat /\ Often(Loops, LoopsOf(ls), o) \in Nat
    BY ExternalNat
  <2> HIDE DEF a, b
  <2> QED
    BY <1>0, <2>1, <2>2
<1> HIDE DEF a, b
<1>3. b = OneMore(a, x)
  BY <1>1, <1>2, OwedEqual
<1> QED
  BY <1>3 DEF a, b, more

(* The inductive invariant. *)
PyOwed == External(handle, loop, globals, error)
PyLost == leaks # {}
PySound == Balanced(Py!Heap, PyOwed, PyLost)

PyTyped ==
  /\ refs \in [Objects -> 0 .. MaxRefs] /\ handle \in [Handles -> Targets]
  /\ loop \in [Loops -> [iter : Targets, done : BOOLEAN]]
  /\ globals \subseteq Objects /\ error \in Targets \cup {Plain}
  /\ leaks \subseteq {"conversion", "exception", "operator", "iterator"}
  /\ swallowed \in BOOLEAN /\ foreign \in BOOLEAN /\ misplaced \in BOOLEAN
  /\ again \in BOOLEAN

(* An error is left behind only where it was swallowed. *)
ErrorsLeft == (error # NoObject => swallowed) /\ (foreign => swallowed)

PyInv == PyTyped /\ PySound /\ ErrorsLeft

(* What the invariant says of the heap. *)
LEMMA PyKnown ==
  ASSUME PyInv
  PROVE  /\ Balanced(Py!Heap, PyOwed, PyLost) /\ PyLost \in BOOLEAN /\ PyOwed \in Owed
         /\ Py!Heap.refs = refs /\ Py!Heap.inner = inner
         /\ \A o \in Objects : refs[o] \in Nat
         /\ Py!Alive \subseteq Objects
<1>1. Balanced(Py!Heap, PyOwed, PyLost) /\ PyLost \in BOOLEAN
  BY DEF PyInv, PySound, PyLost
<1>2. PyOwed \in Owed /\ Py!Alive \subseteq Objects
  BY <1>1 DEF Balanced, Py!Alive
<1>3. Py!Heap.refs = refs /\ Py!Heap.inner = inner
  BY DEF Py!Heap
<1>4. \A o \in Objects : refs[o] \in Nat
  BY PyConstants DEF PyInv, PyTyped
<1> QED
  BY <1>1, <1>2, <1>3, <1>4

(* What is sound stays so. *)
LEMMA SoundNext ==
  ASSUME NEW p, Py!Heap' = p, again => again', Balanced(p, PyOwed', PyLost')
  PROVE  PySound'
<1>1. p \in Heaps /\ PyOwed' \in Owed /\ Enough(p, PyOwed', PyLost')
  BY DEF Balanced
<1>2. \A o \in Objects :
        /\ again' \/ (p.refs[o] >= Needed(p, PyOwed', o) /\ (~PyLost' => p.refs[o] = Needed(p, PyOwed', o)))
        /\ p.refs[o] = 0 => p.inner[o] = NoObject
  BY <1>1 DEF Enough
<1> QED
  BY <1>1, <1>2 DEF PySound, Balanced, Enough, Needed

(* The next heap is sound if the one it becomes is. *)
LEMMA HeapBecomes ==
  ASSUME NEW p, NEW lost \in BOOLEAN, lost => PyLost', again => again', Py!BecomesHeap(p), Balanced(p, PyOwed', lost)
  PROVE  PySound' /\ refs' \in [Objects -> 0 .. MaxRefs]
<1>1. p \in Heaps /\ refs' = p.refs /\ inner' = p.inner /\ \A o \in Objects : p.refs[o] <= MaxRefs
  BY DEF Balanced, Py!BecomesHeap
<1>2. Py!Heap' = p
  BY <1>1 DEF Py!Heap, Heaps
<1>3. Balanced(p, PyOwed', PyLost')
  <2>1. CASE PyLost'
    <3>1. Balanced(p, PyOwed', TRUE)
      BY SoundWhenLost
    <3>2. PyLost' = TRUE
      BY <2>1 DEF PyLost
    <3> QED
      BY <3>1, <3>2
  <2>2. CASE ~PyLost'
    <3>1. lost = FALSE /\ PyLost' = FALSE
      BY <2>2 DEF PyLost
    <3> QED
      BY <3>1
  <2> QED
    BY <2>1, <2>2
<1>4. PySound'
  BY <1>2, <1>3, SoundNext
<1>5. refs' \in [Objects -> 0 .. MaxRefs]
  BY <1>1, HeapParts, PyConstants
<1> QED
  BY <1>4, <1>5

(* After a closure gave back what is not its own. *)
LEMMA CleanBecomes ==
  ASSUME again', NEW p \in Heaps, Clean(p), Py!BecomesHeap(p), PyOwed' \in Owed
  PROVE  PySound' /\ refs' \in [Objects -> 0 .. MaxRefs]
<1>1. refs' = p.refs /\ inner' = p.inner /\ \A o \in Objects : p.refs[o] <= MaxRefs
  BY DEF Py!BecomesHeap
<1>2. Py!Heap' = p
  BY <1>1 DEF Py!Heap, Heaps
<1>3. PySound'
  BY <1>2 DEF PySound, Balanced, Enough, Clean
<1>4. refs' \in [Objects -> 0 .. MaxRefs]
  BY <1>1, HeapParts, PyConstants
<1> QED
  BY <1>3, <1>4

(* A reference that is owed keeps its object. *)
LEMMA OwedIsAlive ==
  ASSUME NEW p, NEW owed, NEW lost \in BOOLEAN, Balanced(p, owed, lost), NEW o \in Objects, owed[o] > 0
  PROVE  again \/ p.refs[o] > 0
<1>1. p \in Heaps /\ owed \in Owed /\ (again \/ p.refs[o] >= Needed(p, owed, o))
  BY DEF Balanced, Enough
<1>2. p.refs[o] \in Nat /\ Often(Objects, p.inner, o) \in Nat /\ owed[o] \in Nat
  BY <1>1, HeapParts DEF Owed
<1> QED
  BY <1>1, <1>2 DEF Needed

(* What a userdata refers to is owed. *)
LEMMA HandleIsOwed ==
  ASSUME NEW h \in Handles, handle[h] \in Objects
  PROVE  PyOwed[handle[h]] > 0
<1> DEFINE o == handle[h]
<1>0. o \in Objects
  OBVIOUS
<1>3. handle[h] = o
  OBVIOUS
<1> HIDE DEF o
<1>1. /\ PyOwed[o] = Often(Handles, handle, o) + Often(Loops, LoopsOf(loop), o)
                       + (IF o \in globals THEN 1 ELSE 0) + (IF error = o THEN 1 ELSE 0)
      /\ Often(Handles, handle, o) \in Nat /\ Often(Loops, LoopsOf(loop), o) \in Nat
  BY <1>0, ExternalNat DEF PyOwed
<1>2. Often(Handles, handle, o) # 0
  BY <1>3, PyConstants, OftenNone
<1> QED
  BY <1>0, <1>1, <1>2, <1>3

(* What is owed may be forgotten when something is lost. *)
LEMMA SoundLess ==
  ASSUME NEW p, NEW owed \in Owed, NEW less \in Owed, \A o \in Objects : less[o] <= owed[o], Balanced(p, owed, TRUE)
  PROVE  Balanced(p, less, TRUE)
<1>1. p \in Heaps /\ Enough(p, owed, TRUE)
  BY DEF Balanced
<1>2. ASSUME NEW x \in Objects
      PROVE  (again \/ p.refs[x] >= Needed(p, less, x)) /\ (p.refs[x] = 0 => p.inner[x] = NoObject)
  <2>1. (again \/ p.refs[x] >= Needed(p, owed, x)) /\ (p.refs[x] = 0 => p.inner[x] = NoObject)
    BY <1>1 DEF Enough
  <2>2. p.refs[x] \in Nat /\ Often(Objects, p.inner, x) \in Nat /\ owed[x] \in Nat /\ less[x] \in Nat /\ less[x] <= owed[x]
    BY <1>1, HeapParts DEF Owed
  <2> QED
    BY <2>1, <2>2 DEF Needed
<1> QED
  BY <1>1, <1>2 DEF Balanced, Enough

(* PyErr_Clear, or another error in its place. *)
LEMMA ErrorGivenBack ==
  ASSUME NEW p, NEW lost \in BOOLEAN, NEW hs, NEW ls, NEW g, NEW e, Balanced(p, External(hs, ls, g, e), lost)
  PROVE  /\ Balanced(Py!Decref(p, e), External(hs, ls, g, NoObject), lost)
         /\ Balanced(Py!Decref(p, e), External(hs, ls, g, Plain), lost)
<1>1. External(hs, ls, g, NoObject) \in Owed
  BY ExternalNat
<1>2. External(hs, ls, g, e) = OneMore(External(hs, ls, g, NoObject), e)
  BY ErrorTakes
<1>3. External(hs, ls, g, Plain) = OneMore(External(hs, ls, g, NoObject), Plain)
  BY ErrorTakes
<1>4. External(hs, ls, g, Plain) = External(hs, ls, g, NoObject)
  BY <1>3, PyConstants DEF OneMore
<1>5. Balanced(Py!Decref(p, e), External(hs, ls, g, NoObject), lost)
  BY <1>1, <1>2, DecrefSound
<1> QED
  BY <1>4, <1>5

(* The arguments of a call. *)
LEMMA ArgumentsLen ==
  ASSUME NEW args \in Py!Arguments
  PROVE  Len(args) \in Nat /\ \A n \in DOMAIN args : Len(SubSeq(args, 1, n - 1)) \in Nat
<1> DEFINE V == {h \in Handles : handle[h] # NoObject} \cup {Plain, Bad}
<1>1. PICK m \in 0 .. MaxArgs : args \in [1 .. m -> V]
  BY PyConstants DEF Py!Arguments, Py!SeqOf
<1>2. args \in Seq(V) /\ Len(args) = m /\ DOMAIN args = 1 .. m
  BY <1>1, PyConstants
<1>3. ASSUME NEW n \in DOMAIN args PROVE Len(SubSeq(args, 1, n - 1)) \in Nat
  <2>1. 1 \in Nat /\ n - 1 \in Nat
    BY <1>2
  <2> QED
    BY <1>2, <2>1
<1> QED
  BY <1>1, <1>2, <1>3

-----------------------------------------------------------------------------
(* The steps. *)

(* The arguments, until one that cannot be converted. *)
LEMMA ConversionKeeps ==
  ASSUME PyInv, NEW args \in Py!Arguments, Py!ConversionRaises(args)
  PROVE  PyInv'
<1>1. PICK n \in DOMAIN args : Py!BecomesHeap(Py!Taken(SubSeq(args, 1, n - 1)))
  BY DEF Py!ConversionRaises
<1> DEFINE before == SubSeq(args, 1, n - 1)
<1>2. UNCHANGED <<globals, error, handle, loop, swallowed, foreign, misplaced, again>> /\ leaks' = leaks \cup {"conversion"}
  BY DEF Py!ConversionRaises, Py!luaVars
<1>3. Len(before) \in Nat
  BY ArgumentsLen
<1> HIDE DEF before
<1>4. Balanced(Py!Taken(before), Lent(PyOwed, before, Len(before)), PyLost)
  BY <1>3, PyKnown, TakenSound
<1>5. Balanced(Py!Taken(before), Lent(PyOwed, before, Len(before)), TRUE)
  BY <1>4, PyKnown, SoundWhenLost
<1>6. Balanced(Py!Taken(before), PyOwed, TRUE)
  <2>1. Lent(PyOwed, before, Len(before)) \in Owed
        /\ \A o \in Objects : PyOwed[o] <= Lent(PyOwed, before, Len(before))[o]
    BY <1>3, PyKnown, LentNat
  <2> QED
    BY <1>5, <2>1, PyKnown, SoundLess
<1>7. PyOwed' = PyOwed /\ PyLost'
  BY <1>2 DEF PyOwed, PyLost
<1>8. PySound' /\ refs' \in [Objects -> 0 .. MaxRefs]
  BY <1>1, <1>2, <1>6, <1>7, HeapBecomes DEF before
<1> QED
  BY <1>2, <1>8 DEF PyInv, PyTyped, ErrorsLeft

(* A value that a set or dict refuses. *)
LEMMA UnhashableKeeps == PyInv /\ Py!Unhashable => PyInv'
<1> SUFFICES ASSUME PyInv, Py!Unhashable PROVE PyInv'
  OBVIOUS
<1>1. /\ UNCHANGED <<globals, handle, loop, leaks, foreign, misplaced, again>> /\ error' = Plain /\ swallowed' = TRUE
      /\ Py!BecomesHeap(Py!Decref(Py!Heap, error))
  BY DEF Py!Unhashable, Py!luaVars
<1>2. Balanced(Py!Decref(Py!Heap, error), External(handle, loop, globals, Plain), PyLost)
  BY PyKnown, ErrorGivenBack DEF PyOwed
<1>3. PyOwed' = External(handle, loop, globals, Plain) /\ PyLost' = PyLost
  BY <1>1 DEF PyOwed, PyLost
<1>4. PySound' /\ refs' \in [Objects -> 0 .. MaxRefs]
  BY <1>1, <1>2, <1>3, PyKnown, HeapBecomes
<1> QED
  BY <1>1, <1>4 DEF PyInv, PyTyped, ErrorsLeft

(* An error is reported, after the call gave its arguments back. *)
LEMMA ReportKeeps ==
  ASSUME PyInv, NEW p, Balanced(p, PyOwed, PyLost), Py!Report(p)
  PROVE  PyInv'
<1>1. UNCHANGED <<globals, handle, loop, swallowed, misplaced, again>> /\ leaks' = leaks \cup {"exception"}
  BY DEF Py!Report, Py!luaVars
<1>2. error' = NoObject
  BY DEF Py!Report, Py!Indicator
<1> DEFINE base == External(handle, loop, globals, NoObject)
<1>3. PyOwed' = base /\ PyLost' /\ base \in Owed
  BY <1>1, <1>2, ExternalNat DEF PyOwed, PyLost
<1>4. ASSUME NEW q, Balanced(q, base, TRUE), Py!BecomesHeap(q) PROVE PySound' /\ refs' \in [Objects -> 0 .. MaxRefs]
  BY <1>1, <1>3, <1>4, HeapBecomes
<1>5. CASE \E e \in {Plain} \cup {o \in Objects : p.refs[o] > 0} :
             Py!BecomesHeap(Py!Incref(Py!Decref(p, error), e)) /\ UNCHANGED foreign
  <2>1. PICK e : Py!BecomesHeap(Py!Incref(Py!Decref(p, error), e))
    BY <1>5
  <2>2. Balanced(Py!Decref(p, error), base, PyLost)
    BY PyKnown, ErrorGivenBack DEF PyOwed
  <2> HIDE DEF base
  <2>3. Balanced(Py!Decref(p, error), base, TRUE)
    BY <2>2, PyKnown, SoundWhenLost
  <2>4. Balanced(Py!Incref(Py!Decref(p, error), e), OneMore(base, e), TRUE)
    BY <2>3, IncrefSound
  <2>5. Balanced(Py!Incref(Py!Decref(p, error), e), base, TRUE)
    BY <1>3, <2>4, SoundWithout
  <2>6. PySound' /\ refs' \in [Objects -> 0 .. MaxRefs]
    BY <1>4, <2>1, <2>5
  <2> QED
    BY <1>1, <1>2, <1>5, <2>6, PyConstants DEF PyInv, PyTyped, ErrorsLeft, Targets
<1>6. CASE error # NoObject /\ Py!BecomesHeap(p) /\ foreign' = TRUE
  <2>1. PyOwed = OneMore(base, error)
    BY ErrorTakes DEF PyOwed
  <2> HIDE DEF base
  <2>2. Balanced(p, OneMore(base, error), TRUE)
    BY <2>1, PyKnown, SoundWhenLost
  <2>3. Balanced(p, base, TRUE)
    BY <1>3, <2>2, SoundWithout
  <2>4. PySound' /\ refs' \in [Objects -> 0 .. MaxRefs]
    BY <1>4, <1>6, <2>3
  <2> QED
    BY <1>1, <1>2, <1>6, <2>4, PyConstants DEF PyInv, PyTyped, ErrorsLeft, Targets
<1> QED
  BY <1>5, <1>6 DEF Py!Report

(* The objects that a call can return, or a new one. *)
LEMMA ResultsAreObjects ==
  ASSUME NEW p PROVE Py!Results(p) \subseteq Objects
<1> DEFINE free == {o \in Objects : p.refs[o] = 0}
<1>1. Py!Alive \subseteq Objects
  BY DEF Py!Alive
<1>2. free # {} => (CHOOSE o \in free : TRUE) \in free
  OBVIOUS
<1>3. free # {} => (CHOOSE o \in free : TRUE) \in Objects
  BY <1>2
<1> HIDE DEF free
<1>4. Py!Results(p) = Py!Alive \cup (IF free = {} THEN {} ELSE {CHOOSE o \in free : TRUE})
  BY DEF Py!Results, free
<1> QED
  BY <1>1, <1>3, <1>4

(* A new reference goes to Lua, after the call gave its arguments back. *)
LEMMA ReturnedSound ==
  ASSUME PyInv, NEW p, NEW args, Len(args) \in Nat, NEW lost \in BOOLEAN,
         Balanced(p, Lent(PyOwed, args, Len(args)), lost), lost => PyLost',
         Py!Returned(p, args), UNCHANGED <<globals, error, loop, again>>
  PROVE  PySound' /\ refs' \in [Objects -> 0 .. MaxRefs] /\ handle' \in [Handles -> Targets]
<1>1. PICK x \in Py!Results(p), h \in Handles :
        Py!BecomesHeap(Py!Released(Py!Made(p, x, NoObject), args)) /\ Py!NewObj(h, x)
  BY DEF Py!Returned
<1>2. x \in Objects
  BY ResultsAreObjects
<1>3. handle[h] = NoObject /\ handle' = [handle EXCEPT ![h] = x] /\ handle \in [Handles -> Targets]
  BY <1>1 DEF Py!NewObj, PyInv, PyTyped
<1>4. handle' \in [Handles -> Targets]
  BY <1>2, <1>3 DEF Targets
<1>5. PyOwed' = OneMore(PyOwed, x)
  <2>1. handle[h] \notin Objects /\ handle'[h] = x /\ Elsewhere(Handles, handle, handle', h)
    BY <1>3, PyConstants DEF Elsewhere
  <2>2. External(handle', loop, globals, error) = OneMore(External(handle, loop, globals, error), handle'[h])
    BY <2>1, HandleTakes
  <2> QED
    BY <2>1, <2>2 DEF PyOwed
<1> DEFINE made == Py!Made(p, x, NoObject)
<1>6. Lent(PyOwed, args, Len(args)) \in Owed /\ NoObject \in Targets /\ NoObject \notin Objects
  BY PyKnown, LentNat, PyConstants DEF Targets
<1>7. Balanced(made, OneMore(Lent(PyOwed, args, Len(args)), x), lost)
  BY <1>2, <1>6, MadeSound
<1>8. OneMore(Lent(PyOwed, args, Len(args)), x) = Lent(OneMore(PyOwed, x), args, Len(args))
  BY <1>2, PyKnown, LentAndMore
<1>9. OneMore(PyOwed, x) \in Owed
  BY PyKnown, OneMoreOf
<1> HIDE DEF made
<1>10. Balanced(Py!Released(made, args), OneMore(PyOwed, x), lost)
  BY <1>7, <1>8, <1>9, ReleasedSound
<1> QED
  BY <1>1, <1>4, <1>5, <1>10, HeapBecomes DEF made

(* What a call of Python returned goes to Lua, or was one of the constants. *)
LEMMA CallResultSound ==
  ASSUME PyInv, NEW p, NEW args, Len(args) \in Nat, NEW lost \in BOOLEAN,
         Balanced(p, Lent(PyOwed, args, Len(args)), lost), lost => PyLost', Py!CallResult(p, args)
  PROVE  PySound' /\ refs' \in [Objects -> 0 .. MaxRefs] /\ handle' \in [Handles -> Targets]
<1>1. UNCHANGED <<globals, error, loop, again>>
  BY DEF Py!CallResult
<1>2. CASE Py!Nothing(Py!Released(p, args))
  <2>1. Balanced(Py!Released(p, args), PyOwed, lost)
    BY PyKnown, ReleasedSound
  <2>2. Py!BecomesHeap(Py!Released(p, args)) /\ handle' = handle
    BY <1>2 DEF Py!Nothing
  <2>3. PyOwed' = PyOwed
    BY <1>1, <2>2 DEF PyOwed
  <2>4. PySound' /\ refs' \in [Objects -> 0 .. MaxRefs]
    BY <1>1, <2>1, <2>2, <2>3, HeapBecomes
  <2> QED
    BY <2>2, <2>4 DEF PyInv, PyTyped
<1>3. CASE Py!Returned(p, args)
  BY <1>1, <1>3, ReturnedSound
<1> QED
  BY <1>2, <1>3 DEF Py!CallResult

(* The heap with the arguments of a call, and after them. *)
LEMMA ArgumentsSound ==
  ASSUME PyInv, NEW args \in Py!Arguments
  PROVE  /\ Len(args) \in Nat /\ Balanced(Py!Taken(args), Lent(PyOwed, args, Len(args)), PyLost)
         /\ Balanced(Py!Released(Py!Taken(args), args), PyOwed, PyLost)
<1>1. Len(args) \in Nat
  BY ArgumentsLen
<1>2. Balanced(Py!Taken(args), Lent(PyOwed, args, Len(args)), PyLost)
  BY <1>1, PyKnown, TakenSound
<1>3. Balanced(Py!Released(Py!Taken(args), args), PyOwed, PyLost)
  BY <1>1, <1>2, PyKnown, ReleasedSound
<1> QED
  BY <1>1, <1>2, <1>3

(* A function of the module that returns an object. *)
LEMMA GivesKeeps ==
  ASSUME PyInv, NEW args \in Py!Arguments, Py!Gives(args)
  PROVE  PyInv'
<1>1. CASE Py!ConversionRaises(args)
  BY <1>1, ConversionKeeps
<1>2. CASE Py!Report(Py!Released(Py!Taken(args), args))
  BY <1>2, ArgumentsSound, ReportKeeps
<1>3. CASE Py!Returned(Py!Taken(args), args) /\ UNCHANGED <<globals, error, loop, Py!historyVars>>
  <2>1. UNCHANGED <<globals, error, loop, leaks, swallowed, foreign, misplaced, again>>
    BY <1>3 DEF Py!historyVars
  <2>2. PyLost' = PyLost
    BY <2>1 DEF PyLost
  <2>3. PySound' /\ refs' \in [Objects -> 0 .. MaxRefs] /\ handle' \in [Handles -> Targets]
    BY <1>3, <2>1, <2>2, ArgumentsSound, PyKnown, ReturnedSound
  <2> QED
    BY <2>1, <2>3 DEF PyInv, PyTyped, ErrorsLeft
<1> QED
  BY <1>1, <1>2, <1>3 DEF Py!Gives

(* python.call. *)
LEMMA CallKeeps ==
  ASSUME PyInv, NEW args \in Py!Arguments, NEW h \in Handles, Py!Call(h, args)
  PROVE  PyInv'
<1>1. CASE Py!ConversionRaises(args)
  BY <1>1, ConversionKeeps
<1>2. CASE Py!Report(Py!Released(Py!Taken(args), args))
  BY <1>2, ArgumentsSound, ReportKeeps
<1>3. CASE Py!CallResult(Py!Taken(args), args) /\ UNCHANGED leaks
  <2>1. UNCHANGED <<globals, error, loop, leaks, swallowed, foreign, misplaced, again>>
    BY <1>3 DEF Py!CallResult
  <2>2. PyLost' = PyLost
    BY <2>1 DEF PyLost
  <2>3. PySound' /\ refs' \in [Objects -> 0 .. MaxRefs] /\ handle' \in [Handles -> Targets]
    BY <1>3, <2>2, ArgumentsSound, PyKnown, CallResultSound
  <2> QED
    BY <2>1, <2>3 DEF PyInv, PyTyped, ErrorsLeft
<1> QED
  BY <1>1, <1>2, <1>3 DEF Py!Call

(* An operator: the method that was looked up refers to the object. *)
LEMMA OperatorKeeps ==
  ASSUME PyInv, NEW args \in Py!Arguments, NEW h \in Handles, Py!Operator(h, args)
  PROVE  PyInv'
<1>1. CASE Py!ConversionRaises(args)
  BY <1>1, ConversionKeeps
<1>2. CASE Py!Report(Py!Released(Py!Taken(args), args))
  BY <1>2, ArgumentsSound, ReportKeeps
<1>3. CASE \E method \in {o \in Py!Results(Py!Heap) : refs[o] = 0} :
             /\ Py!CallResult(Py!Made(Py!Taken(args), method, handle[h]), args)
             /\ leaks' = leaks \cup {"operator"}
  <2>1. PICK method \in Objects : Py!CallResult(Py!Made(Py!Taken(args), method, handle[h]), args)
    BY <1>3, ResultsAreObjects
  <2>2. UNCHANGED <<globals, error, loop, swallowed, foreign, misplaced, again>> /\ leaks' = leaks \cup {"operator"}
    BY <1>3 DEF Py!CallResult
  <2>3. handle[h] \in Targets /\ handle[h] # NoObject
    BY DEF PyInv, PyTyped, Py!Operator
  <2>4. handle[h] \in Objects
    BY <2>3 DEF Targets
  <2> DEFINE lent == Lent(PyOwed, args, Len(args))
             made == Py!Made(Py!Taken(args), method, handle[h])
  <2>5. Len(args) \in Nat /\ Balanced(Py!Taken(args), lent, PyLost) /\ lent \in Owed
    BY ArgumentsSound, PyKnown, LentNat
  <2>6. lent[handle[h]] > 0
    <3>1. PyOwed[handle[h]] > 0 /\ PyOwed \in Owed
      BY <2>4, HandleIsOwed, PyKnown
    <3>2. /\ lent[handle[h]] = PyOwed[handle[h]] + Often(1 .. Len(args), Items(args), handle[h])
          /\ Often(1 .. Len(args), Items(args), handle[h]) \in Nat /\ PyOwed[handle[h]] \in Nat
      BY <2>4, <2>5, <3>1, LentNat
    <3> QED
      BY <3>1, <3>2
  <2> HIDE DEF lent
  <2>7. again \/ Py!Taken(args).refs[handle[h]] > 0
    BY <2>4, <2>5, <2>6, PyKnown, OwedIsAlive
  <2>8. Balanced(made, OneMore(lent, method), PyLost)
    BY <2>3, <2>5, <2>7, PyKnown, MadeSound
  <2> HIDE DEF made
  <2>9. Balanced(made, lent, TRUE)
    <3>1. Balanced(made, OneMore(lent, method), TRUE)
      BY <2>8, PyKnown, SoundWhenLost
    <3> QED
      BY <2>5, <3>1, SoundWithout
  <2>10. PyLost'
    BY <2>2 DEF PyLost
  <2>11. PySound' /\ refs' \in [Objects -> 0 .. MaxRefs] /\ handle' \in [Handles -> Targets]
    BY <2>1, <2>5, <2>9, <2>10, CallResultSound DEF made, lent
  <2> QED
    BY <2>2, <2>11 DEF PyInv, PyTyped, ErrorsLeft
<1> QED
  BY <1>1, <1>2, <1>3 DEF Py!Operator

(* A statement sets or deletes a variable of Python. *)
LEMMA ExecKeeps ==
  ASSUME PyInv, NEW o \in Objects, Py!Exec(o)
  PROVE  PyInv'
<1>1. UNCHANGED <<error, handle, loop, leaks, swallowed, foreign, misplaced, again>>
  BY DEF Py!Exec, Py!luaVars, Py!historyVars
<1>2. PyLost' = PyLost /\ globals \subseteq Objects
  BY <1>1 DEF PyLost, PyInv, PyTyped
<1>3. CASE o \in Py!Alive \ globals /\ globals' = globals \cup {o} /\ Py!BecomesHeap(Py!Incref(Py!Heap, o))
  <2>1. External(handle, loop, globals \cup {o}, error) = OneMore(External(handle, loop, globals, error), o)
    BY <1>3, GlobalTakes
  <2>2. PyOwed' = OneMore(PyOwed, o)
    BY <1>1, <1>3, <2>1 DEF PyOwed
  <2>3. Balanced(Py!Incref(Py!Heap, o), OneMore(PyOwed, o), PyLost)
    BY PyKnown, IncrefSound
  <2>4. PySound' /\ refs' \in [Objects -> 0 .. MaxRefs]
    BY <1>1, <1>2, <1>3, <2>2, <2>3, PyKnown, HeapBecomes
  <2> QED
    BY <1>1, <1>2, <1>3, <2>4 DEF PyInv, PyTyped, ErrorsLeft
<1>4. CASE o \in globals /\ globals' = globals \ {o} /\ Py!BecomesHeap(Py!Decref(Py!Heap, o))
  <2> DEFINE rest == globals \ {o}
  <2>1. rest \cup {o} = globals /\ o \notin rest
    BY <1>4
  <2>2. PyOwed' = External(handle, loop, rest, error)
    BY <1>1, <1>4 DEF PyOwed
  <2> HIDE DEF rest
  <2>3. PyOwed = OneMore(PyOwed', o) /\ PyOwed' \in Owed
    <3>1. External(handle, loop, rest \cup {o}, error) = OneMore(External(handle, loop, rest, error), o)
      BY <2>1, GlobalTakes
    <3> QED
      BY <2>1, <2>2, <3>1, ExternalNat DEF PyOwed
  <2>4. Balanced(Py!Decref(Py!Heap, o), PyOwed', PyLost)
    BY <2>3, PyKnown, DecrefSound
  <2>5. PySound' /\ refs' \in [Objects -> 0 .. MaxRefs]
    BY <1>1, <1>2, <1>4, <2>4, PyKnown, HeapBecomes
  <2> QED
    BY <1>1, <1>2, <1>4, <2>5 DEF PyInv, PyTyped, ErrorsLeft
<1> QED
  BY <1>3, <1>4 DEF Py!Exec

(* __len, __tostring, repr, dir and type. *)
LEMMA LookKeeps ==
  ASSUME PyInv, NEW h \in Handles, Py!Look(h)
  PROVE  PyInv'
<1>1. CASE Py!Report(Py!Heap)
  BY <1>1, PyKnown, ReportKeeps
<1>2. CASE Py!BecomesHeap(Py!Decref(Py!Heap, error)) /\ error' = NoObject /\ UNCHANGED <<globals, Py!luaVars, Py!historyVars>>
  <2>1. UNCHANGED <<globals, handle, loop, leaks, swallowed, foreign, misplaced, again>> /\ error' = NoObject
    BY <1>2 DEF Py!luaVars, Py!historyVars
  <2>2. Balanced(Py!Decref(Py!Heap, error), External(handle, loop, globals, NoObject), PyLost)
    BY PyKnown, ErrorGivenBack DEF PyOwed
  <2>3. PyOwed' = External(handle, loop, globals, NoObject) /\ PyLost' = PyLost
    BY <2>1 DEF PyOwed, PyLost
  <2>4. PySound' /\ refs' \in [Objects -> 0 .. MaxRefs]
    BY <1>2, <2>1, <2>2, <2>3, PyKnown, HeapBecomes
  <2> QED
    BY <2>1, <2>4 DEF PyInv, PyTyped, ErrorsLeft, Targets
<1> QED
  BY <1>1, <1>2 DEF Py!Look

(* A userdata is made for x, which nothing but what is owed depends on. *)
LEMMA NewObjTakes ==
  ASSUME handle \in [Handles -> Targets], NEW h \in Handles, NEW x \in Objects, Py!NewObj(h, x), NEW ls, NEW g, NEW e
  PROVE  /\ handle' \in [Handles -> Targets]
         /\ External(handle', ls, g, e) = OneMore(External(handle, ls, g, e), x)
<1>1. handle[h] = NoObject /\ handle' = [handle EXCEPT ![h] = x]
  BY DEF Py!NewObj
<1>2. handle[h] \notin Objects /\ handle'[h] = x /\ Elsewhere(Handles, handle, handle', h)
  BY <1>1, PyConstants DEF Elsewhere
<1>3. External(handle', ls, g, e) = OneMore(External(handle, ls, g, e), handle'[h])
  BY <1>2, HandleTakes
<1>4. handle' \in [Handles -> Targets]
  BY <1>1 DEF Targets
<1> QED
  BY <1>2, <1>3, <1>4

(* python.tolua of a list or dict. *)
LEMMA ToluaKeeps ==
  ASSUME PyInv, NEW h \in Handles, NEW k \in Handles, NEW x \in Objects, Py!Tolua(h, k, x)
  PROVE  PyInv'
<1> DEFINE base == External(handle, loop, globals, NoObject)
           cleared == Py!Decref(Py!Heap, error)
<1>1. UNCHANGED <<globals, loop, leaks, swallowed, foreign, again>> /\ error' = NoObject
  BY DEF Py!Tolua
<1>2. Balanced(cleared, base, PyLost)
  BY PyKnown, ErrorGivenBack DEF PyOwed
<1>3. PyLost' = PyLost /\ handle \in [Handles -> Targets] /\ base \in Owed
  BY <1>1, ExternalNat DEF PyLost, PyInv, PyTyped
<1>4. misplaced' \in BOOLEAN
  BY DEF Py!Tolua, PyInv, PyTyped
<1>5. CASE Py!BecomesHeap(Py!Incref(cleared, x)) /\ Py!NewObj(k, x)
  <2>1. handle' \in [Handles -> Targets] /\ External(handle', loop, globals, NoObject) = OneMore(base, x)
    BY <1>3, <1>5, NewObjTakes
  <2>2. PyOwed' = OneMore(base, x)
    BY <1>1, <2>1 DEF PyOwed
  <2> HIDE DEF base, cleared
  <2>3. Balanced(Py!Incref(cleared, x), OneMore(base, x), PyLost)
    BY <1>2, PyKnown, IncrefSound
  <2>4. PySound' /\ refs' \in [Objects -> 0 .. MaxRefs]
    BY <1>1, <1>3, <1>5, <2>2, <2>3, PyKnown, HeapBecomes
  <2> QED
    BY <1>1, <1>4, <2>1, <2>4 DEF PyInv, PyTyped, ErrorsLeft, Targets
<1>6. CASE Py!BecomesHeap(cleared) /\ UNCHANGED handle
  <2>1. PyOwed' = base
    BY <1>1, <1>6 DEF PyOwed
  <2> HIDE DEF base, cleared
  <2>2. PySound' /\ refs' \in [Objects -> 0 .. MaxRefs]
    BY <1>1, <1>2, <1>3, <1>6, <2>1, PyKnown, HeapBecomes
  <2> QED
    BY <1>1, <1>3, <1>4, <1>6, <2>2 DEF PyInv, PyTyped, ErrorsLeft, Targets
<1> QED
  BY <1>5, <1>6 DEF Py!Tolua, Py!Nothing

(* pyobj_gc. *)
LEMMA GcKeeps ==
  ASSUME PyInv, NEW h \in Handles, Py!Gc(h)
  PROVE  PyInv'
<1>1. /\ UNCHANGED <<globals, error, loop, leaks, swallowed, foreign, misplaced, again>>
      /\ handle' = [handle EXCEPT ![h] = NoObject] /\ handle[h] # NoObject
      /\ Py!BecomesHeap(Py!Decref(Py!Heap, handle[h]))
  BY DEF Py!Gc, Py!historyVars
<1>2. handle \in [Handles -> Targets] /\ handle' \in [Handles -> Targets] /\ PyLost' = PyLost
  BY <1>1 DEF PyInv, PyTyped, Targets, PyLost
<1>3. handle'[h] \notin Objects /\ Elsewhere(Handles, handle', handle, h)
  BY <1>1, <1>2, PyConstants DEF Elsewhere
<1>4. External(handle, loop, globals, error) = OneMore(External(handle', loop, globals, error), handle[h])
  BY <1>3, HandleTakes
<1>5. PyOwed = OneMore(PyOwed', handle[h]) /\ PyOwed' \in Owed
  BY <1>1, <1>4, ExternalNat DEF PyOwed
<1>6. Balanced(Py!Decref(Py!Heap, handle[h]), PyOwed', PyLost)
  BY <1>5, PyKnown, DecrefSound
<1>7. PySound' /\ refs' \in [Objects -> 0 .. MaxRefs]
  BY <1>1, <1>2, <1>6, PyKnown, HeapBecomes
<1> QED
  BY <1>1, <1>2, <1>7 DEF PyInv, PyTyped, ErrorsLeft

(* The types of a loop. *)
LEMMA LoopsTyped ==
  ASSUME PyInv, NEW l \in Loops
  PROVE  /\ loop[l].iter \in Targets /\ loop[l].done \in BOOLEAN
         /\ loop[l] = [iter |-> loop[l].iter, done |-> loop[l].done]
BY DEF PyInv, PyTyped

(* python.iter: a new loop. *)
LEMMA IterKeeps ==
  ASSUME PyInv, NEW h \in Handles, NEW l \in Loops, Py!Iter(l, h)
  PROVE  PyInv'
<1>1. loop[l] = Py!NoLoop /\ handle[h] # NoObject
  BY DEF Py!Iter
<1>2. CASE Py!Report(Py!Heap)
  BY <1>2, PyKnown, ReportKeeps
<1>3. CASE /\ \E it \in {o \in Py!Results(Py!Heap) : refs[o] = 0} \cup {handle[h]} :
                 /\ Py!BecomesHeap(Py!Made(Py!Heap, it, handle[h]))
                 /\ loop' = [loop EXCEPT ![l].iter = it]
           /\ UNCHANGED <<globals, error, handle, Py!historyVars>>
  <2>1. handle[h] \in Objects /\ handle[h] \in Targets
    BY <1>1 DEF PyInv, PyTyped, Targets
  <2>2. PICK it \in Objects : /\ Py!BecomesHeap(Py!Made(Py!Heap, it, handle[h]))
                              /\ loop' = [loop EXCEPT ![l].iter = it]
    BY <1>3, <2>1, ResultsAreObjects
  <2>3. UNCHANGED <<globals, error, handle, leaks, swallowed, foreign, misplaced, again>>
    BY <1>3 DEF Py!historyVars
  <2>4. loop \in [Loops -> [iter : Targets, done : BOOLEAN]]
    BY DEF PyInv, PyTyped
  <2>5. loop[l].iter = NoObject /\ loop[l].done = FALSE
    BY <1>1 DEF Py!NoLoop
  <2>6. loop'[l] = [iter |-> it, done |-> FALSE] /\ Elsewhere(Loops, loop, loop', l)
    <3> DEFINE c == loop[l]
    <3>1. loop' = [loop EXCEPT ![l] = [c EXCEPT !.iter = it]]
      BY <2>2
    <3>2. c = [iter |-> NoObject, done |-> FALSE]
      BY <1>1 DEF Py!NoLoop
    <3> HIDE DEF c
    <3>3. \A u, d : u = [iter |-> NoObject, done |-> d] => [u EXCEPT !.iter = it] = [iter |-> it, done |-> d]
      OBVIOUS
    <3>4. [c EXCEPT !.iter = it] = [iter |-> it, done |-> FALSE]
      BY <3>2, <3>3
    <3> QED
      BY <2>4, <3>1, <3>4 DEF Elsewhere
  <2>7. loop' \in [Loops -> [iter : Targets, done : BOOLEAN]]
    <3>1. it \in Targets
      BY DEF Targets
    <3> QED
      BY <2>2, <2>4, <3>1
  <2>8. LoopOf(loop[l]) \notin Objects /\ LoopOf(loop'[l]) = it
    BY <2>5, <2>6, PyConstants DEF LoopOf
  <2>9. External(handle, loop', globals, error) = OneMore(External(handle, loop, globals, error), it)
    BY <2>6, <2>8, LoopTakes
  <2>10. PyOwed' = OneMore(PyOwed, it) /\ PyLost' = PyLost
    BY <2>3, <2>9 DEF PyOwed, PyLost
  <2>11. again \/ Py!Heap.refs[handle[h]] > 0
    BY <2>1, PyKnown, HandleIsOwed, OwedIsAlive
  <2>12. Balanced(Py!Made(Py!Heap, it, handle[h]), OneMore(PyOwed, it), PyLost)
    BY <2>1, <2>11, PyKnown, MadeSound
  <2>13. PySound' /\ refs' \in [Objects -> 0 .. MaxRefs]
    BY <2>2, <2>3, <2>10, <2>12, PyKnown, HeapBecomes
  <2> QED
    BY <2>3, <2>7, <2>13 DEF PyInv, PyTyped, ErrorsLeft
<1> QED
  BY <1>2, <1>3 DEF Py!Iter

(* The reference of a loop that ends, or is dropped. *)
LEMMA LoopGives ==
  ASSUME PyInv, NEW l \in Loops, NEW ls, Elsewhere(Loops, ls, loop, l), LoopOf(ls[l]) \notin Objects,
         ~loop[l].done, NEW e
  PROVE  External(handle, loop, globals, e) = OneMore(External(handle, ls, globals, e), loop[l].iter)
<1>1. LoopOf(loop[l]) = loop[l].iter
  BY DEF LoopOf
<1>2. External(handle, loop, globals, e) = OneMore(External(handle, ls, globals, e), LoopOf(loop[l]))
  BY LoopTakes
<1> QED
  BY <1>1, <1>2

(* An item, the end, or an error. *)
LEMMA NextItemKeeps ==
  ASSUME PyInv, NEW l \in Loops, Py!NextItem(l)
  PROVE  PyInv'
<1> DEFINE it == loop[l].iter
<1>1. it # NoObject /\ it \in Targets /\ again \in BOOLEAN /\ loop[l].done \in BOOLEAN
  BY LoopsTyped DEF Py!NextItem, PyInv, PyTyped
<1>2. CASE /\ \E x \in Py!Results(Py!Heap), h \in Handles :
                Py!BecomesHeap(Py!Made(Py!Heap, x, NoObject)) /\ Py!NewObj(h, x)
           /\ UNCHANGED <<globals, error, loop, Py!historyVars>>
  <2>1. PICK x \in Objects, h \in Handles : Py!BecomesHeap(Py!Made(Py!Heap, x, NoObject)) /\ Py!NewObj(h, x)
    BY <1>2, ResultsAreObjects
  <2>2. UNCHANGED <<globals, error, loop, leaks, swallowed, foreign, misplaced, again>>
    BY <1>2 DEF Py!historyVars
  <2>3. handle \in [Handles -> Targets]
    BY DEF PyInv, PyTyped
  <2>4. /\ handle' \in [Handles -> Targets]
        /\ External(handle', loop, globals, error) = OneMore(External(handle, loop, globals, error), x)
    BY <2>1, <2>3, NewObjTakes
  <2>5. PyOwed' = OneMore(PyOwed, x) /\ PyLost' = PyLost
    BY <2>2, <2>4 DEF PyOwed, PyLost
  <2>6. NoObject \in Targets /\ NoObject \notin Objects
    BY PyConstants DEF Targets
  <2>7. Balanced(Py!Made(Py!Heap, x, NoObject), OneMore(PyOwed, x), PyLost)
    BY <2>6, PyKnown, MadeSound
  <2>8. PySound' /\ refs' \in [Objects -> 0 .. MaxRefs]
    BY <2>1, <2>2, <2>5, <2>7, PyKnown, HeapBecomes
  <2> QED
    BY <2>2, <2>4, <2>8 DEF PyInv, PyTyped, ErrorsLeft
<1>3. CASE \E e \in {NoObject, Plain} :
          /\ Py!BecomesHeap(Py!Finished(IF e = Plain THEN Py!Decref(Py!Heap, error) ELSE Py!Heap, it, e))
          /\ error' = IF e = Plain THEN Plain ELSE error
          /\ swallowed' = (swallowed \/ e = Plain)
          /\ loop' = [loop EXCEPT ![l].done = TRUE]
          /\ again' = (again \/ loop[l].done)
          /\ UNCHANGED <<globals, handle, leaks, foreign, misplaced>>
  <2>1. PICK e \in {NoObject, Plain} :
          /\ Py!BecomesHeap(Py!Finished(IF e = Plain THEN Py!Decref(Py!Heap, error) ELSE Py!Heap, it, e))
          /\ error' = IF e = Plain THEN Plain ELSE error
          /\ swallowed' = (swallowed \/ e = Plain)
          /\ loop' = [loop EXCEPT ![l].done = TRUE]
          /\ again' = (again \/ loop[l].done)
          /\ UNCHANGED <<globals, handle, leaks, foreign, misplaced>>
    BY <1>3
  <2> DEFINE before == IF e = Plain THEN Py!Decref(Py!Heap, error) ELSE Py!Heap
  <2>2. Balanced(before, External(handle, loop, globals, error'), PyLost)
    <3>1. CASE e = Plain
      <4>1. Balanced(Py!Decref(Py!Heap, error), External(handle, loop, globals, Plain), PyLost)
        BY PyKnown, ErrorGivenBack DEF PyOwed
      <4> QED
        BY <2>1, <3>1, <4>1
    <3>2. CASE e # Plain
      BY <2>1, <3>2, PyKnown DEF PyOwed
    <3> QED
      BY <3>1, <3>2
  <2>3. loop \in [Loops -> [iter : Targets, done : BOOLEAN]]
    BY DEF PyInv, PyTyped
  <2>4. loop' \in [Loops -> [iter : Targets, done : BOOLEAN]] /\ loop'[l].done = TRUE
        /\ Elsewhere(Loops, loop', loop, l)
    BY <2>1, <2>3 DEF Elsewhere
  <2>5. LoopOf(loop'[l]) \notin Objects
    BY <2>4, PyConstants DEF LoopOf
  <2>6. ~loop[l].done =>
          External(handle, loop, globals, error') = OneMore(External(handle, loop', globals, error'), it)
    BY <1>1, <2>4, <2>5, LoopGives
  <2>7. PyOwed' = External(handle, loop', globals, error') /\ PyLost' = PyLost /\ PyOwed' \in Owed
    BY <2>1, ExternalNat DEF PyOwed, PyLost
  <2> HIDE DEF before, it
  <2>8. again => again'
    BY <2>1
  <2>9. Py!BecomesHeap(Py!Decref(before, it))
    BY <2>1 DEF Py!Finished, before
  <2>10. PySound' /\ refs' \in [Objects -> 0 .. MaxRefs]
    <3>1. CASE ~loop[l].done
      <4>1. Balanced(Py!Decref(before, it), PyOwed', PyLost)
        BY <2>2, <2>6, <2>7, <3>1, PyKnown, DecrefSound
      <4> QED
        BY <2>7, <2>8, <2>9, <4>1, PyKnown, HeapBecomes
    <3>2. CASE loop[l].done
      <4>1. again'
        BY <2>1, <3>2
      <4>2. before \in Heaps /\ Clean(before)
        BY <2>2, SoundIsClean DEF Balanced
      <4>3. Py!Decref(before, it) \in Heaps /\ Clean(Py!Decref(before, it))
        BY <4>2, DecrefClean
      <4> QED
        BY <2>7, <2>9, <4>1, <4>3, CleanBecomes
    <3> QED
      BY <1>1, <3>1, <3>2
  <2>11. error' \in Targets \cup {Plain} /\ swallowed' \in BOOLEAN /\ ErrorsLeft'
    BY <2>1 DEF PyInv, PyTyped, ErrorsLeft
  <2>12. again' \in BOOLEAN
    BY <1>1, <2>1
  <2> QED
    BY <2>1, <2>4, <2>10, <2>11, <2>12 DEF PyInv, PyTyped
<1> QED
  BY <1>2, <1>3 DEF Py!NextItem

(* The closure is collected. *)
LEMMA DropKeeps ==
  ASSUME PyInv, NEW l \in Loops, Py!Drop(l)
  PROVE  PyInv'
<1>1. /\ loop' = [loop EXCEPT ![l] = Py!NoLoop]
      /\ leaks' = IF loop[l].done THEN leaks ELSE leaks \cup {"iterator"}
      /\ UNCHANGED <<refs, inner, globals, error, handle, swallowed, foreign, misplaced, again>>
  BY DEF Py!Drop, Py!pyVars
<1>2. loop \in [Loops -> [iter : Targets, done : BOOLEAN]]
  BY DEF PyInv, PyTyped
<1>3. Py!NoLoop \in [iter : Targets, done : BOOLEAN]
  BY DEF Py!NoLoop, Targets
<1>4. /\ loop' \in [Loops -> [iter : Targets, done : BOOLEAN]] /\ loop'[l] = Py!NoLoop
      /\ Elsewhere(Loops, loop', loop, l) /\ Elsewhere(Loops, loop, loop', l)
  BY <1>1, <1>2, <1>3 DEF Elsewhere
<1>5. LoopOf(loop'[l]) = NoObject /\ NoObject \notin Objects
  BY <1>4, PyConstants DEF LoopOf, Py!NoLoop
<1>6. PyOwed' = External(handle, loop', globals, error) /\ PyOwed' \in Owed /\ Py!Heap' = Py!Heap
  BY <1>1, ExternalNat DEF PyOwed, Py!Heap
<1>7. Balanced(Py!Heap, PyOwed', PyLost')
  <2>1. CASE loop[l].done
    <3>1. LoopOf(loop[l]) \notin Objects
      BY <2>1, PyConstants DEF LoopOf
    <3>2. External(handle, loop', globals, error) = OneMore(External(handle, loop, globals, error), LoopOf(loop'[l]))
      BY <1>4, <3>1, LoopTakes
    <3>3. PyOwed' = PyOwed
      BY <1>5, <1>6, <3>2 DEF OneMore, PyOwed
    <3>4. PyLost' = PyLost
      BY <1>1, <2>1 DEF PyLost
    <3> QED
      BY <3>3, <3>4, PyKnown
  <2>2. CASE ~loop[l].done
    <3>1. External(handle, loop, globals, error) = OneMore(External(handle, loop', globals, error), loop[l].iter)
      BY <1>4, <1>5, <2>2, LoopGives
    <3>2. PyOwed = OneMore(PyOwed', loop[l].iter)
      BY <1>6, <3>1 DEF PyOwed
    <3>3. Balanced(Py!Heap, OneMore(PyOwed', loop[l].iter), TRUE)
      BY <3>2, PyKnown, SoundWhenLost
    <3>4. Balanced(Py!Heap, PyOwed', TRUE)
      BY <1>6, <3>3, SoundWithout
    <3>5. PyLost' = TRUE
      BY <1>1, <2>2 DEF PyLost
    <3> QED
      BY <3>4, <3>5
  <2> QED
    BY <2>1, <2>2
<1>8. PySound'
  BY <1>1, <1>6, <1>7, SoundNext
<1>9. leaks' \subseteq {"conversion", "exception", "operator", "iterator"}
  BY <1>1 DEF PyInv, PyTyped
<1> QED
  BY <1>1, <1>4, <1>8, <1>9 DEF PyInv, PyTyped, ErrorsLeft

(* It holds when nothing is there yet. *)
LEMMA PyFirst == Py!Init => PyInv
<1> SUFFICES ASSUME Py!Init PROVE PyInv
  OBVIOUS
<1>1. /\ refs = [o \in Objects |-> 0] /\ inner = [o \in Objects |-> NoObject]
      /\ globals = {} /\ error = NoObject
      /\ handle = [h \in Handles |-> NoObject] /\ loop = [l \in Loops |-> [iter |-> NoObject, done |-> FALSE]]
      /\ leaks = {} /\ swallowed = FALSE /\ foreign = FALSE /\ misplaced = FALSE /\ again = FALSE
  BY DEF Py!Init, Py!NoLoop
<1>2. PyTyped /\ ErrorsLeft
  <2>1. NoObject \in Targets /\ 0 \in 0 .. MaxRefs
    BY PyConstants DEF Targets
  <2>2. refs \in [Objects -> 0 .. MaxRefs] /\ handle \in [Handles -> Targets]
    BY <1>1, <2>1
  <2>3. [iter |-> NoObject, done |-> FALSE] \in [iter : Targets, done : BOOLEAN]
    BY <2>1
  <2>4. loop \in [Loops -> [iter : Targets, done : BOOLEAN]]
    BY <1>1, <2>3
  <2>5. leaks \subseteq {"conversion", "exception", "operator", "iterator"} /\ globals \subseteq Objects
    BY <1>1
  <2>6. swallowed \in BOOLEAN /\ foreign \in BOOLEAN /\ misplaced \in BOOLEAN /\ again \in BOOLEAN
    BY <1>1
  <2>7. error \in Targets \cup {Plain} /\ ErrorsLeft
    BY <1>1, <2>1 DEF ErrorsLeft
  <2> QED
    BY <2>2, <2>4, <2>5, <2>6, <2>7 DEF PyTyped
<1>3. Py!Heap \in Heaps /\ PyOwed \in Owed
  <2>1. Py!Heap \in Heaps
    BY <1>1 DEF Py!Heap, Heaps, Targets
  <2>2. PyOwed \in Owed
    BY ExternalNat DEF PyOwed
  <2> QED
    BY <2>1, <2>2
<1>4. ASSUME NEW o \in Objects
      PROVE  refs[o] = 0 /\ inner[o] = NoObject /\ Needed(Py!Heap, PyOwed, o) = 0
  <2>1. o # NoObject
    BY PyConstants
  <2>2. Often(Objects, inner, o) = 0
    <3>1. \A x \in Objects : inner[x] # o
      BY <1>1, <2>1
    <3> QED
      BY <3>1, PyConstants, OftenNone
  <2>3. Often(Handles, handle, o) = 0
    <3>1. \A x \in Handles : handle[x] # o
      BY <1>1, <2>1
    <3> QED
      BY <3>1, PyConstants, OftenNone
  <2>4. Often(Loops, LoopsOf(loop), o) = 0
    <3>1. \A x \in Loops : LoopsOf(loop)[x] # o
      BY <1>1, <2>1 DEF LoopsOf, LoopOf
    <3> QED
      BY <3>1, PyConstants, OftenNone
  <2>5. PyOwed[o] = Often(Handles, handle, o) + Often(Loops, LoopsOf(loop), o)
                      + (IF o \in globals THEN 1 ELSE 0) + (IF error = o THEN 1 ELSE 0)
    BY ExternalNat DEF PyOwed
  <2>6. PyOwed[o] = 0
    BY <1>1, <2>1, <2>3, <2>4, <2>5
  <2>7. Py!Heap.inner = inner
    BY DEF Py!Heap
  <2> QED
    BY <1>1, <2>2, <2>6, <2>7 DEF Needed
<1>5. Py!Heap.refs = refs /\ Py!Heap.inner = inner
  BY DEF Py!Heap
<1>6. Enough(Py!Heap, PyOwed, PyLost)
  BY <1>4, <1>5 DEF Enough
<1> QED
  BY <1>2, <1>3, <1>6 DEF PyInv, PySound, Balanced

(* A call without arguments. *)
LEMMA NoArguments == <<>> \in Py!Arguments
<1> DEFINE V == {h \in Handles : handle[h] # NoObject} \cup {Plain, Bad}
<1>1. <<>> \in [1 .. 0 -> V] /\ 0 \in 0 .. MaxArgs
  BY PyConstants
<1> QED
  BY <1>1 DEF Py!Arguments, Py!SeqOf

(* Every action keeps the invariant. *)
LEMMA PyNextKeeps == PyInv /\ Py!Next => PyInv'
<1> SUFFICES ASSUME PyInv, Py!Next PROVE PyInv'
  OBVIOUS
<1>1. ASSUME NEW args \in Py!Arguments,
             Py!Eval(args) \/ Py!Object(args) \/ (\E h \in Handles : Py!GetItem(h, args))
      PROVE  PyInv'
  <2>1. Py!Gives(args)
    BY <1>1 DEF Py!Eval, Py!Object, Py!GetItem
  <2> QED
    BY <2>1, GivesKeeps
<1>2. ASSUME NEW args \in Py!Arguments, NEW h \in Handles, Py!Call(h, args)
      PROVE  PyInv'
  BY <1>2, CallKeeps
<1>3. ASSUME NEW args \in Py!Arguments, NEW h \in Handles, Py!Operator(h, args)
      PROVE  PyInv'
  BY <1>3, OperatorKeeps
<1>4. ASSUME Py!Import \/ \E h \in Handles : Py!Index(h)
      PROVE  PyInv'
  <2>1. Py!Gives(<<>>)
    BY <1>4 DEF Py!Import, Py!Index
  <2> QED
    BY <2>1, NoArguments, GivesKeeps
<1>5. CASE Py!Unhashable
  BY <1>5, UnhashableKeeps
<1>6. ASSUME NEW o \in Objects, Py!Exec(o) PROVE PyInv'
  BY <1>6, ExecKeeps
<1>7. ASSUME NEW h \in Handles, Py!Look(h) PROVE PyInv'
  BY <1>7, LookKeeps
<1>8. ASSUME NEW h \in Handles, Py!Gc(h) PROVE PyInv'
  BY <1>8, GcKeeps
<1>9. ASSUME NEW h \in Handles, NEW l \in Loops, Py!Iter(l, h) PROVE PyInv'
  BY <1>9, IterKeeps
<1>10. ASSUME NEW h \in Handles, NEW k \in Handles, NEW x \in Objects, Py!Tolua(h, k, x) PROVE PyInv'
  BY <1>10, ToluaKeeps
<1>11. ASSUME NEW l \in Loops, Py!NextItem(l) PROVE PyInv'
  BY <1>11, NextItemKeeps
<1>12. ASSUME NEW l \in Loops, Py!Drop(l) PROVE PyInv'
  BY <1>12, DropKeeps
<1> QED
  BY <1>1, <1>2, <1>3, <1>4, <1>5, <1>6, <1>7, <1>8, <1>9, <1>10, <1>11, <1>12, Zenon DEF Py!Next

(* Nothing changes when its variables do not. *)
LEMMA PyStutters == PyInv /\ UNCHANGED pyVars => PyInv'
<1> SUFFICES ASSUME PyInv, UNCHANGED pyVars PROVE PyInv'
  OBVIOUS
<1>1. Py!Heap' = Py!Heap /\ PyOwed' = PyOwed /\ PyLost' = PyLost /\ again' = again
  BY DEF pyVars, Py!Heap, PyOwed, PyLost
<1>2. PySound'
  BY <1>1, PyKnown, SoundNext
<1> QED
  BY <1>2 DEF PyInv, PyTyped, ErrorsLeft, pyVars

(* Who refers to an object, as the module counts them. *)
LEMMA HoldersAreNeeded ==
  ASSUME NEW o \in Objects, \A l \in Loops : loop[l].done \in BOOLEAN
  PROVE  Py!Holders(o) = Needed(Py!Heap, PyOwed, o)
<1>1. Py!Quantify(Handles, LAMBDA h : handle[h] = o) = Often(Handles, handle, o)
  BY CardinalityIsTheSame DEF Py!Quantify, Often, Where
<1>2. Py!Quantify(Loops, LAMBDA l : loop[l].iter = o /\ ~loop[l].done) = Often(Loops, LoopsOf(loop), o)
  <2>1. {l \in Loops : loop[l].iter = o /\ ~loop[l].done} = Where(Loops, LoopsOf(loop), o)
    BY PyConstants DEF Where, LoopsOf, LoopOf
  <2> QED
    BY <2>1, CardinalityIsTheSame DEF Py!Quantify, Often
<1>3. Py!Quantify(Objects, LAMBDA p : inner[p] = o) = Often(Objects, inner, o)
  BY CardinalityIsTheSame DEF Py!Quantify, Often, Where
<1>4. /\ PyOwed[o] = Often(Handles, handle, o) + Often(Loops, LoopsOf(loop), o)
                       + (IF o \in globals THEN 1 ELSE 0) + (IF error = o THEN 1 ELSE 0)
      /\ Often(Handles, handle, o) \in Nat /\ Often(Loops, LoopsOf(loop), o) \in Nat
  BY ExternalNat DEF PyOwed
<1>5. Often(Objects, inner, o) \in Nat /\ Py!Heap.inner = inner
  BY PyConstants, OftenNat DEF Py!Heap
<1>6. Py!Holders(o) = Often(Handles, handle, o) + Often(Loops, LoopsOf(loop), o) + Often(Objects, inner, o)
                        + (IF o \in globals THEN 1 ELSE 0) + (IF error = o THEN 1 ELSE 0)
  BY <1>1, <1>2, <1>3 DEF Py!Holders
<1> QED
  BY <1>4, <1>5, <1>6 DEF Needed

(* What the invariant says. *)
LEMMA PySafe == PyInv => Py!Safety
<1> SUFFICES ASSUME PyInv PROVE Py!Safety
  OBVIOUS
<1>1. Balanced(Py!Heap, PyOwed, PyLost) /\ PyLost \in BOOLEAN /\ Py!Heap.refs = refs /\ Py!Heap.inner = inner
  BY PyKnown
<1>2. /\ Py!Heap \in Heaps
      /\ \A o \in Objects : /\ \/ again
                               \/ /\ refs[o] >= Needed(Py!Heap, PyOwed, o)
                                  /\ ~PyLost => refs[o] = Needed(Py!Heap, PyOwed, o)
                            /\ refs[o] = 0 => inner[o] = NoObject
  BY <1>1 DEF Balanced, Enough
<1>3. \A o \in Objects : Py!Holders(o) = Needed(Py!Heap, PyOwed, o)
  BY LoopsTyped, HoldersAreNeeded
<1>4. Py!HeldIsAlive
  BY <1>2, <1>3 DEF Py!HeldIsAlive
<1>5. Py!NothingLost
  BY <1>2, <1>3 DEF Py!NothingLost, PyLost
<1>6. Py!OwnErrors
  BY DEF PyInv, ErrorsLeft, Py!OwnErrors
<1>7. Py!TypeOK
  <2>1. inner \in [Objects -> Objects \cup {NoObject}]
    BY <1>1, <1>2, HeapParts DEF Targets
  <2>2. \A o \in Objects : refs[o] = 0 => inner[o] = NoObject
    BY <1>2
  <2>3. PyTyped
    BY DEF PyInv
  <2>4. error \in Objects \cup {NoObject, Plain}
    BY <2>3 DEF PyTyped, Targets
  <2> QED
    BY <2>1, <2>2, <2>3, <2>4 DEF PyTyped, Py!TypeOK, Targets
<1> QED
  BY <1>4, <1>5, <1>6, <1>7 DEF Py!Safety

(* Python objects held from Lua, for any objects, userdata, loops and        *)
(* arguments: until a closure is called after its end, what a userdata, a   *)
(* loop that is not over, another object, a variable of Python or the error *)
(* indicator refers to is not freed; as long as no call raised an error, no *)
(* operator was used and no loop was left either, an object is freed with   *)
(* the last of these; and, even after that, a call reports an error of      *)
(* another one only after one was left behind.                             *)
THEOREM PyCorrect == PartsSpec => []PySafety
<1> DEFINE I == part = "python" => PyInv
<1>1. PartsInit => I
  BY PyFirst DEF PartsInit
<1>2. I /\ [PartsNext]_partsVars => I'
  <2> SUFFICES ASSUME I, [PartsNext]_partsVars, part' = "python"
               PROVE  PyInv'
    OBVIOUS
  <2>1. CASE Only("zlog") /\ Zlog!Next /\ UNCHANGED <<framesVars, otlVars, xmlVars, pyVars>>
    BY <2>1 DEF Only
  <2>2. CASE Only("frames") /\ Frames!Next /\ UNCHANGED <<zlogVars, otlVars, xmlVars, pyVars>>
    BY <2>2 DEF Only
  <2>3. CASE Only("otl") /\ Otl!Next /\ UNCHANGED <<zlogVars, framesVars, xmlVars, pyVars>>
    BY <2>3 DEF Only
  <2>4. CASE Only("xml") /\ Xml!Next /\ UNCHANGED <<zlogVars, framesVars, otlVars, pyVars>>
    BY <2>4 DEF Only
  <2>5. CASE Only("python") /\ Py!Next /\ UNCHANGED <<zlogVars, framesVars, otlVars, xmlVars>>
    BY <2>5, PyNextKeeps DEF Only
  <2>6. CASE UNCHANGED partsVars
    BY <2>6, PyStutters DEF partsVars
  <2> QED
    BY <2>1, <2>2, <2>3, <2>4, <2>5, <2>6 DEF PartsNext
<1>3. I => PySafety
  BY PySafe DEF PySafety
<1> QED
  BY <1>1, <1>2, <1>3, PTL DEF PartsSpec

=============================================================================
