------------------------------- MODULE ShmCursor -------------------------------
(***************************************************************************)
(* lsvipc.c and lipclib.c: shared memory with a cursor.  Each process has  *)
(* an object of a System V segment or of a POSIX mapping; both read and    *)
(* write at a position they keep, without a lock.  A segment that is       *)
(* removed, or a name that is unlinked, lives on until nobody is attached. *)
(* Lengths and positions are size_t, whose sums wrap around.               *)
(***************************************************************************)
EXTENDS Integers, FiniteSets

CONSTANTS
  Processes,
  Size,       \* how many bytes the segment, and the POSIX object, has
  Word,       \* how many values a size_t has
  Lengths,    \* what read, write and seek are given: integers of Lua
  MaxMade     \* bound: how often the segment and the POSIX object are made

ShmAssumption ==
  /\ {Size, Word, MaxMade} \subseteq Nat /\ Lengths \subseteq Int
  /\ Size > 0 /\ Word % 2 = 0 /\ 2 * Size < Word

Kinds == {"sysv", "posix"}

VARIABLES
  object,   \* shm_obj of each process
  made,     \* how many segments of a kind have been made
  named,    \* the key or the name leads to the newest one
  memory,   \* the segments whose memory is there
  touched   \* the bytes the last call read or wrote, and of which segment

vars == <<object, made, named, memory, touched>>

(* seg: the segment of its identifier or descriptor; addr: the one that is  *)
(* attached, 0 for none; readonly: how it is attached.                     *)
NoObject == [kind |-> "sysv", seg |-> 0, addr |-> 0, size |-> 0, pos |-> 0, readonly |-> FALSE]
Nothing == [kind |-> "sysv", seg |-> 0, from |-> 0, to |-> 0]

Object == [kind : Kinds, seg : 0..MaxMade, addr : 0..MaxMade, size : 0..Size,
           pos : 0 .. Word - 1, readonly : BOOLEAN]

TypeOK ==
  /\ object \in [Processes -> Object]
  /\ made \in [Kinds -> 0..MaxMade] /\ named \in [Kinds -> BOOLEAN]
  /\ memory \subseteq Kinds \X (1..MaxMade)
  /\ \A p \in Processes : object[p].pos <= object[p].size

Init ==
  /\ object = [p \in Processes |-> NoObject]
  /\ made = [k \in Kinds |-> 0] /\ named = [k \in Kinds |-> FALSE]
  /\ memory = {} /\ touched = Nothing

-----------------------------------------------------------------------------
(* The kernel. *)

SizeT(n) == n % Word

(* A segment is there while it has a name or an attachment.  What an open  *)
(* descriptor keeps of a POSIX object is not looked at without a mapping.  *)
Kept(k, s, objects, isNamed) ==
  \/ isNamed /\ s = made'[k]
  \/ \E p \in Processes : objects[p].kind = k /\ objects[p].addr = s

Memory(objects, names) ==
  {ks \in Kinds \X (1..MaxMade) : ks[2] <= made'[ks[1]] /\ Kept(ks[1], ks[2], objects, names[ks[1]])}

(* The objects and names become these. *)
Become(objects, names) ==
  /\ object' = objects /\ named' = names
  /\ memory' = Memory(objects, names)
  /\ touched' = Nothing

Put(p, o) == [object EXCEPT ![p] = o]

(* Its object is of this kind. *)
Has(p, k) == object[p].kind = k /\ object[p].seg # 0

(* shmget and shm_open: the segment that has the key or name, or a new one. *)
Opens(p, k, size) ==
  /\ object[p].seg = 0
  /\ made' = [made EXCEPT ![k] = IF named[k] THEN @ ELSE @ + 1]
  /\ made'[k] <= MaxMade
  /\ Become(Put(p, [NoObject EXCEPT !.kind = k, !.seg = made'[k], !.size = size]),
            [named EXCEPT ![k] = TRUE])

-----------------------------------------------------------------------------
(* System V. *)

(* svipc.shmget. *)
ShmGet(p) == Opens(p, "sysv", Size)

(* shm:attach(readonly). *)
Attach(p, readonly) ==
  LET o == object[p] IN
  /\ Has(p, "sysv") /\ o.addr = 0 /\ <<"sysv", o.seg>> \in memory
  /\ UNCHANGED made
  /\ Become(Put(p, [o EXCEPT !.addr = o.seg, !.readonly = readonly]), named)

(* shm:detach(). *)
Detach(p) ==
  /\ Has(p, "sysv") /\ object[p].addr # 0
  /\ UNCHANGED made
  /\ Become(Put(p, [object[p] EXCEPT !.addr = 0]), named)

(* The collector detaches. *)
Collect(p) ==
  /\ Has(p, "sysv")
  /\ UNCHANGED made
  /\ Become(Put(p, NoObject), named)

(* shm:remove(), of the segment that has the key. *)
RemoveSegment(p) ==
  LET o == object[p] IN
  /\ Has(p, "sysv") /\ named["sysv"] /\ o.seg = made["sysv"]
  /\ UNCHANGED made
  /\ Become(object, [named EXCEPT !["sysv"] = FALSE])

-----------------------------------------------------------------------------
(* POSIX. *)

(* ipc.shm_open. *)
ShmOpen(p) == Opens(p, "posix", 0)

(* ipc.mmap(fd, prot, flags, offset, length): without a length the size of *)
(* the object is asked for.                                                *)
MmapLength(length) == IF length = 0 THEN Size ELSE length

Mmap(p, length, readonly) ==
  LET o == object[p] IN
  /\ Has(p, "posix") /\ o.addr = 0 /\ <<"posix", o.seg>> \in memory
  /\ UNCHANGED made
  /\ Become(Put(p, [o EXCEPT !.addr = o.seg, !.size = MmapLength(length),
                                      !.pos = 0, !.readonly = readonly]), named)

(* shm:close() forgets the mapping; the descriptor is the application's.   *)
CloseMap(p) ==
  /\ Has(p, "posix") /\ object[p].addr # 0
  /\ UNCHANGED made
  /\ Become(Put(p, NoObject), named)

(* ipc.shm_unlink(name). *)
Unlink ==
  /\ named["posix"]
  /\ UNCHANGED made
  /\ Become(object, [named EXCEPT !["posix"] = FALSE])

-----------------------------------------------------------------------------
(* The cursor. *)

(* A mutant of Clamped: the request is compared with the size alone.       *)
ClampedBySize(o, len) == IF o.size < len THEN o.size - o.pos ELSE len

(* What read takes: the sum wraps around. *)
Clamped(o, len) == IF o.size < SizeT(len + o.pos) THEN o.size - o.pos ELSE len

Touch(p, len) ==
  LET o == object[p] IN
  /\ object' = Put(p, [o EXCEPT !.pos = SizeT(@ + len)])
  /\ touched' = [kind |-> o.kind, seg |-> o.addr, from |-> o.pos, to |-> o.pos + len]
  /\ UNCHANGED <<made, named, memory>>

Reads(p, k, n) ==
  LET o == object[p]
      len == Clamped(o, SizeT(n))
  IN /\ Has(p, k) /\ o.addr # 0
     /\ 2 * len < Word   \* lua_pushlstring raises an error otherwise
     /\ Touch(p, len)

Writes(p, k, n) ==
  LET o == object[p] IN
  /\ Has(p, k) /\ o.addr # 0 /\ n >= 0 /\ 2 * n < Word
  /\ o.size >= SizeT(n + o.pos)
  /\ Touch(p, n)

(* shm:read(length) and shm:write(buffer) of System V. *)
ShmRead(p, n) == Reads(p, "sysv", n)

ShmWrite(p, n) == ~object[p].readonly /\ Writes(p, "sysv", n)

(* shm:read(length) and shm:write(buffer) of POSIX: a write to a mapping   *)
(* made for reading ends the process, and is left out.                     *)
MapRead(p, n) == Reads(p, "posix", n)
MapWrite(p, n) == ~object[p].readonly /\ Writes(p, "posix", n)

Abs(n) == IF n < 0 THEN -n ELSE n

InRange(o, n) == Abs(n) < o.size

(* shm:seek(offset), from the end when it is negative. *)
Seeks(p, k, n) ==
  LET o == object[p] IN
  /\ Has(p, k) /\ InRange(o, n)
  /\ object' = Put(p, [o EXCEPT !.pos = IF n < 0 THEN o.size + n ELSE n])
  /\ touched' = Nothing
  /\ UNCHANGED <<made, named, memory>>

ShmSeek(p, n) == Seeks(p, "sysv", n)
MapSeek(p, n) == Seeks(p, "posix", n)

(* The process exits. *)
Exit(p) ==
  /\ UNCHANGED made
  /\ Become([object EXCEPT ![p] = NoObject], named)

Next ==
  \/ Unlink
  \/ \E p \in Processes :
       \/ ShmGet(p) \/ Detach(p) \/ Collect(p) \/ RemoveSegment(p)
       \/ ShmOpen(p) \/ CloseMap(p) \/ Exit(p)
       \/ \E readonly \in BOOLEAN : Attach(p, readonly) \/ Mmap(p, 0, readonly) \/ Mmap(p, 1, readonly)
       \/ \E n \in Lengths : \/ ShmRead(p, n) \/ ShmWrite(p, n) \/ ShmSeek(p, n)
                             \/ MapRead(p, n) \/ MapWrite(p, n) \/ MapSeek(p, n)

Spec == Init /\ [][Next]_vars

-----------------------------------------------------------------------------
(* Properties. *)

(* Whatever lengths and offsets are given, negative ones that turn into    *)
(* huge ones and sums that wrap around included, the cursor reads and      *)
(* writes inside the memory that is attached.                              *)
StaysInside ==
  touched # Nothing =>
    /\ touched.to <= Size
    /\ <<touched.kind, touched.seg>> \in memory

(* What every state of the component keeps. *)
Safety == TypeOK /\ StaysInside

(* What makes it so: what is attached is the segment of the identifier, and *)
(* its memory is there.                                                    *)
AttachedIsThere ==
  \A p \in Processes :
    LET o == object[p] IN
    /\ o.seg <= made[o.kind] /\ o.addr \in {0, o.seg}
    /\ o.addr # 0 => <<o.kind, o.addr>> \in memory

IInv == TypeOK /\ AttachedIsThere /\ StaysInside

=============================================================================
