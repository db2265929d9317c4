------------------------------ MODULE ZlogRecords ------------------------------
(***************************************************************************)
(* The record functions of lzlog.c.  zlog calls a C function for each      *)
(* message of a rule that names a record.  The C functions are a fixed     *)
(* table, and each one runs the Lua function of its slot, inside zlog's    *)
(* call and with zlog's lock held for reading.                             *)
(***************************************************************************)
EXTENDS Integers, Sequences, SequencesExt

CONSTANTS
  States,     \* the Lua states of the process
  Names,      \* the records of zlog's rules
  Functions,  \* Lua functions
  Slots,      \* bound: LZLOG_RECORD_FUNC_NUM is 20
  MaxDepth,   \* bound: log calls inside one another
  MaxRaises   \* bound: the errors of record functions

ZlogAssumption == Slots \in Nat \ {0} /\ MaxDepth \in Nat /\ MaxRaises \in Nat

VARIABLES
  status,  \* the process runs, waits for a lock it holds, or has ended
  loaded,  \* the states that have loaded the module
  record,  \* LZLOG_RECORD
  output,  \* zlog's own table: the C function of each record
  calls,   \* the record functions that are running, the innermost last
  readers, \* how often zlog's lock is held for reading
  raised,  \* history: how often a record function has raised an error
  latest   \* history: the function that was set last for each name

vars == <<status, loaded, record, output, calls, readers, raised, latest>>

NotSet == "not set"
Free == [in_used |-> FALSE]
Used(L, rname, fn) == [in_used |-> TRUE, L |-> L, rname |-> rname, fn |-> fn]
Call(L, r) == [caller |-> L, rname |-> r, slot |-> output[r], run |-> record[output[r]]]

TypeOK ==
  /\ status \in {"runs", "stuck", "asserted", "panicked"}
  /\ loaded \subseteq States
  /\ record \in [1..Slots -> {Free} \cup {Used(L, r, f) : L \in loaded, r \in Names, f \in Functions}]
  /\ output \in [Names -> 0..Slots]
  /\ \A c \in Range(calls) : c.caller \in loaded /\ c.slot = output[c.rname] /\ c.run.in_used
  /\ readers \in 0 .. MaxDepth * (MaxRaises + 1) /\ raised \in 0..MaxRaises
  /\ latest \in [Names -> Functions \cup {NotSet}]

Init ==
  /\ status = "runs" /\ loaded = {} /\ record = [i \in 1..Slots |-> Free]
  /\ output = [r \in Names |-> 0] /\ calls = <<>> /\ readers = 0
  /\ raised = 0 /\ latest = [r \in Names |-> NotSet]

Running(L) == status = "runs" /\ L \in loaded

(* A call that takes zlog's lock for writing waits for its own process when *)
(* that holds the lock for reading.                                        *)
AfterWriteLock == IF readers = 0 THEN "runs" ELSE "stuck"

-----------------------------------------------------------------------------
(* luaopen_zlog clears the slots, and zlog keeps what it was told; then it  *)
(* calls dzlog_init, which takes the lock.                                 *)
Load(L) ==
  /\ status = "runs" /\ L \notin loaded
  /\ loaded' = loaded \cup {L} /\ record' = [i \in 1..Slots |-> Free]
  /\ status' = AfterWriteLock
  /\ UNCHANGED <<output, calls, readers, raised, latest>>

(* zlog.init() and zlog.reload(): the records stay as they are. *)
Reload(L) ==
  /\ Running(L)
  /\ status' = AfterWriteLock
  /\ UNCHANGED <<loaded, record, output, calls, readers, raised, latest>>

Duplicate(L, r) == \E i \in 1..Slots : record[i].in_used /\ record[i].L = L /\ record[i].rname = r

(* A mutant of FreeSlots: the test for in_used is left out.                *)
FreeSlotsAny == 1..Slots

FreeSlots == {i \in 1..Slots : ~record[i].in_used}

(* zlog.set_record(rname, function): the loop ends with the last free slot, *)
(* and refuses a name that is set and a table that is full.                *)
SetRecord(L, r, f) ==
  /\ Running(L) /\ ~Duplicate(L, r) /\ FreeSlots # {}
  /\ status' = AfterWriteLock
  /\ IF status' = "stuck" THEN UNCHANGED <<record, output, latest>>
     ELSE LET index == CHOOSE i \in FreeSlots : \A j \in FreeSlots : j <= i
          IN /\ record' = [record EXCEPT ![index] = Used(L, r, f)]
             /\ output' = [output EXCEPT ![r] = index]
             /\ latest' = [latest EXCEPT ![r] = f]
  /\ UNCHANGED <<loaded, calls, readers, raised>>

-----------------------------------------------------------------------------
(* zlog.debug() ... zlog.fatal(), with a rule that names the record r: the  *)
(* C function asserts that its slot is in use and runs the Lua function.   *)
Log(L, r) ==
  /\ Running(L) /\ output[r] # 0 /\ Len(calls) < MaxDepth
  /\ IF record[output[r]].in_used
     THEN calls' = Append(calls, Call(L, r)) /\ readers' = readers + 1 /\ UNCHANGED status
     ELSE status' = "asserted" /\ UNCHANGED <<calls, readers>>
  /\ UNCHANGED <<loaded, record, output, raised, latest>>

(* The function returns to zlog, which gives the lock back. *)
Returns ==
  /\ status = "runs" /\ calls # <<>>
  /\ calls' = Front(calls) /\ readers' = readers - 1
  /\ UNCHANGED <<status, loaded, record, output, raised, latest>>

(* lua_call does not return, and the frames of zlog up to the pcall that    *)
(* catches the error never give the lock back.                             *)
LocksLeft(n) == readers

(* The function raises an error; its state has a pcall only if the state    *)
(* is the one that logged.                                                 *)
Raises(n) ==
  /\ status = "runs" /\ n \in 1 .. Len(calls) /\ raised < MaxRaises
  /\ raised' = raised + 1
  /\ IF \A i \in Len(calls) - n + 1 .. Len(calls) : calls[i].run.L = calls[i].caller
     THEN /\ calls' = SubSeq(calls, 1, Len(calls) - n) /\ readers' = LocksLeft(n)
          /\ UNCHANGED status
     ELSE status' = "panicked" /\ UNCHANGED <<calls, readers>>
  /\ UNCHANGED <<loaded, record, output, latest>>

Next ==
  \/ \E L \in States :
       \/ Load(L) \/ Reload(L)
       \/ \E r \in Names : Log(L, r) \/ \E f \in Functions : SetRecord(L, r, f)
  \/ Returns
  \/ \E n \in 1..MaxDepth : Raises(n)

Spec == Init /\ [][Next]_vars

-----------------------------------------------------------------------------
(* Properties. *)

(* With one state: a message goes to the function that was set for the     *)
(* record of its rule, whatever was set, refused, logged or raised before, *)
(* with more names than slots.                                             *)
RunsLatest == \A c \in Range(calls) : c.run.rname = c.rname /\ c.run.fn = latest[c.rname]

(* zlog's lock is held while a record function runs, and for ever after one *)
(* has raised an error.  So reload and set_record wait for themselves in    *)
(* these two cases, and in no other.                                       *)
LockIsHeld == readers > 0 <=> calls # <<>> \/ raised > 0

(* The assertion of the C function: a slot that zlog calls is in use.       *)
(* The code does not keep it: README, "Disagreements".                      *)
CalledInUse == status # "asserted"

(* What every state of the component keeps. *)
Safety == TypeOK /\ RunsLatest /\ LockIsHeld

-----------------------------------------------------------------------------
(* The inductive invariants behind the safety properties. *)

(* RunsLatest is about a process with one state. *)
OneState == \A L, M \in States : L = M

UsedRecords == {Used(L, r, f) : L \in States, r \in Names, f \in Functions}

CallsTyped ==
  /\ calls \in Seq([caller : States, rname : Names, slot : 1..Slots, run : UsedRecords])
  /\ Len(calls) <= MaxDepth

(* The lock is held once for each function that runs, and for those that an *)
(* error has left.                                                         *)
LocksCounted ==
  /\ Len(calls) <= readers /\ readers <= Len(calls) + MaxDepth * raised
  /\ readers = Len(calls) => raised = 0 \/ status = "panicked"
  /\ raised = 0 => readers = Len(calls)
  /\ status = "panicked" => calls # <<>>

(* zlog's table leads to the slot that was set for the name. *)
SlotOfName ==
  /\ loaded = {} => \A r \in Names : output[r] = 0
  /\ \A r \in Names : output[r] # 0 =>
       LET slot == record[output[r]] IN slot.in_used /\ slot.rname = r /\ slot.fn = latest[r]

LockInv == TypeOK /\ CallsTyped /\ LocksCounted /\ LockIsHeld

IInv == LockInv /\ SlotOfName /\ RunsLatest

=============================================================================
