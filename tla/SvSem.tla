--------------------------------- MODULE SvSem ---------------------------------
(***************************************************************************)
(* lsvipc.c: System V semaphores.  add_op puts operations into an array of *)
(* the process's object, and done gives them to semop, which performs all  *)
(* of them or none.  Processes exit at any time, the kernel undoes what    *)
(* they did with SEM_UNDO, waiting calls are interrupted, and the set is   *)
(* removed and made again under the same key.                              *)
(***************************************************************************)
EXTENDS Integers, Sequences, Functions, FiniteSetsExt

CONSTANTS
  Processes,
  NSems,      \* how many semaphores the set has
  OpSets,     \* what the processes of a behaviour give to add_op: sets of integers of Lua
  SetValues,  \* what is given to setval and setall
  UShort,     \* how many values an unsigned short has
  SemMax,     \* SEMVMX, the largest value of a semaphore
  MaxSets     \* bound: how often the set is made

SemAssumption ==
  /\ {NSems, UShort} \subseteq Nat \ {0} /\ {SemMax, MaxSets} \subseteq Nat
  /\ IsFiniteSet(Processes)
  /\ (UNION OpSets) \cup SetValues \subseteq Int /\ OpSets # {} /\ UShort % 2 = 0 /\ 2 * SemMax < UShort

VARIABLES
  operands, \* what the processes give to add_op
  exists,   \* the set is there
  sets,     \* how many sets have been made
  value,    \* semval of each semaphore
  undo,     \* semadj of each process and semaphore
  object,   \* sem_obj of each process
  call,     \* its call of semop under way
  answer,   \* why its last done() returned, and whether it was told not to wait
  base,     \* history: the value each semaphore was given last
  clamped,  \* history: an undo would have left a value out of range since then
  added,    \* history: the operations added since the last done()
  wanted    \* history: the value of the last setall that returned true, or -1

kernelVars == <<exists, sets, value, undo, base, clamped, wanted>>
processVars == <<object, call, answer, added>>
vars == <<operands, kernelVars, processVars>>

Sems == 1..NSems
Limit == 3 * NSems
UndoRange == -SemMax - 1 .. SemMax

(* short and unsigned short. *)
Unsigned(n) == n % UShort
Short(n) == LET u == Unsigned(n) IN IF 2 * u < UShort THEN u ELSE u - UShort

Slot == [num : Sems, op : Int, undo : BOOLEAN, nowait : BOOLEAN]
EmptySlot == [num |-> 1, op |-> 0, undo |-> FALSE, nowait |-> FALSE]
NoObject == [set |-> 0, sops |-> [i \in 1..Limit |-> EmptySlot], nops |-> 0]
NoCall == [ops |-> <<>>, nowait |-> FALSE, asked |-> <<>>]
NoAnswer == [why |-> "none", nowait |-> FALSE]

TypeOK ==
  /\ operands \in OpSets /\ exists \in BOOLEAN /\ sets \in 0..MaxSets
  /\ value \in [Sems -> 0..SemMax]
  /\ \A p \in Processes :
       /\ undo[p] \in [Sems -> UndoRange]
       /\ object[p].set \in 0..sets /\ object[p].nops \in 0..Limit
       /\ \A i \in 1..Limit : object[p].sops[i] \in Slot
       /\ call[p].ops \in Seq(Slot)
       /\ answer[p].why \in {"none", "done", "EAGAIN", "EINTR", "EIDRM", "EINVAL", "ERANGE"}
  /\ base \in [Sems -> 0..SemMax] /\ clamped \in [Sems -> BOOLEAN]
  /\ wanted \in SetValues \cup {-1}

Zeros == [s \in Sems |-> 0]
NoClamp == [s \in Sems |-> FALSE]

Init ==
  /\ operands \in OpSets
  /\ exists = FALSE /\ sets = 0
  /\ value = Zeros /\ undo = [p \in Processes |-> Zeros]
  /\ object = [p \in Processes |-> NoObject]
  /\ call = [p \in Processes |-> NoCall] /\ answer = [p \in Processes |-> NoAnswer]
  /\ base = Zeros /\ clamped = NoClamp
  /\ added = [p \in Processes |-> <<>>] /\ wanted = -1

Has(p) == object[p].set # 0
Idle(p) == Has(p) /\ call[p] = NoCall

(* Its semid is that of the set that is there. *)
Valid(p) == exists /\ object[p].set = sets

-----------------------------------------------------------------------------
(* The set. *)

(* svipc.semget: opens the set, or makes one. *)
SemGet(p) ==
  /\ ~Has(p)
  /\ IF exists
     THEN UNCHANGED kernelVars
     ELSE /\ sets < MaxSets /\ sets' = sets + 1 /\ exists' = TRUE
          /\ value' = Zeros /\ undo' = [q \in Processes |-> Zeros]
          /\ base' = Zeros /\ clamped' = NoClamp /\ wanted' = -1
  /\ object' = [object EXCEPT ![p] = [NoObject EXCEPT !.set = sets']]
  /\ UNCHANGED <<call, answer, added>>

(* sem:remove(): the calls that wait return. *)
RemoveSet(p) ==
  /\ Idle(p) /\ Valid(p)
  /\ exists' = FALSE
  /\ undo' = [q \in Processes |-> Zeros] /\ value' = Zeros
  /\ base' = Zeros /\ clamped' = NoClamp
  /\ call' = [q \in Processes |-> NoCall]
  /\ answer' = [q \in Processes |-> IF call[q] = NoCall THEN answer[q]
                                    ELSE [why |-> "EIDRM", nowait |-> call[q].nowait]]
  /\ wanted' = -1
  /\ UNCHANGED <<sets, object, added>>

(* lsem_gc. *)
Collect(p) ==
  /\ Idle(p)
  /\ object' = [object EXCEPT ![p] = NoObject]
  /\ added' = [added EXCEPT ![p] = <<>>] /\ answer' = [answer EXCEPT ![p] = NoAnswer]
  /\ UNCHANGED <<kernelVars, call>>

(* semctl: a value that is set forgets what the processes would undo.      *)
Set(which, n) ==
  LET Put(f, x) == [s \in Sems |-> IF s \in which THEN x ELSE f[s]] IN
  /\ value' = Put(value, n) /\ base' = Put(base, n) /\ clamped' = Put(clamped, FALSE)
  /\ undo' = [p \in Processes |-> Put(undo[p], 0)]
  /\ UNCHANGED <<exists, sets, processVars>>

(* sem:setval(val, sem_num). *)
SetVal(p, s, n) ==
  /\ Idle(p) /\ Valid(p) /\ n \in 0..SemMax
  /\ Set({s}, n) /\ wanted' = -1

(* sem:setall(val): an array of unsigned short goes to the kernel. *)
SetAll(p, n) ==
  /\ Idle(p) /\ Valid(p) /\ n >= 0 /\ Unsigned(n) <= SemMax
  /\ Set(Sems, Unsigned(n)) /\ wanted' = n

-----------------------------------------------------------------------------
(* Operations. *)

(* A mutant of Flags: who gives does not undo.                             *)
FlagsForTaking(op) == op < 0

(* SEM_UNDO, for what changes the value. *)
Flags(op) == op # 0

NewSlot(old, s, op) == [num |-> s, op |-> op, undo |-> Flags(op), nowait |-> FALSE]

(* The array has three entries for each semaphore. *)
HasRoom(p) == object[p].nops < Limit

(* sem:add_op(sem_op, sem_num). *)
AddOp(p, n, s) ==
  LET i == object[p].nops + 1 IN
  /\ Idle(p) /\ HasRoom(p)
  /\ object' = [object EXCEPT ![p].sops[i] = NewSlot(@, s, Short(n)), ![p].nops = i]
  /\ added' = [added EXCEPT ![p] = Append(@, <<s, Short(n)>>)]
  /\ answer' = [answer EXCEPT ![p] = NoAnswer]
  /\ UNCHANGED <<kernelVars, call>>

(* done() empties the array before it calls semop. *)
OpsLeft(nops) == 0

(* Of an entry that is no longer in use only the flag is kept here. *)
Stale(slot) == [EmptySlot EXCEPT !.nowait = slot.nowait]

(* sem:done(nowait) calls semop. *)
Done(p, nowait) ==
  LET n == object[p].nops
      sops == [i \in 1..Limit |-> [object[p].sops[i] EXCEPT !.nowait = @ \/ (nowait /\ i <= n)]]
      left == OpsLeft(n)
  IN /\ Idle(p)
     /\ object' = [object EXCEPT ![p].nops = left,
                                  ![p].sops = [i \in 1..Limit |-> IF i <= left THEN sops[i] ELSE Stale(sops[i])]]
     /\ added' = [added EXCEPT ![p] = <<>>]
     /\ IF Valid(p) /\ n > 0
        THEN /\ call' = [call EXCEPT ![p] = [ops |-> SubSeq(sops, 1, n), nowait |-> nowait,
                                             asked |-> added[p]]]
             /\ UNCHANGED answer
        ELSE /\ answer' = [answer EXCEPT ![p] = [why |-> "EINVAL", nowait |-> nowait]]
             /\ UNCHANGED call
     /\ UNCHANGED kernelVars

(* v, and what it becomes one after the other when each of the operations   *)
(* adds by[i] to its semaphore.                                            *)
Changing(v, ops, by) ==
  LET after[i \in 0 .. Len(ops)] == IF i = 0 THEN v ELSE [after[i - 1] EXCEPT ![ops[i].num] = @ + by[i]]
  IN after

(* What is added, and what is taken off the value that an exit would add.   *)
Given(ops) == [i \in DOMAIN ops |-> ops[i].op]
Returned(ops) == [i \in DOMAIN ops |-> IF ops[i].undo THEN -ops[i].op ELSE 0]

Values(p) == Changing(value, call[p].ops, Given(call[p].ops))
Undoes(p) == Changing(undo[p], call[p].ops, Returned(call[p].ops))

(* The operations that cannot be performed where they stand, and those that *)
(* semop refuses.                                                          *)
Stuck(p) ==
  {i \in DOMAIN call[p].ops : LET o == call[p].ops[i] IN
     Values(p)[i][o.num] < 0 \/ (o.op = 0 /\ Values(p)[i][o.num] # 0)}
TooLarge(p) ==
  {i \in DOMAIN call[p].ops : LET o == call[p].ops[i] IN
     Values(p)[i][o.num] > SemMax \/ Undoes(p)[i][o.num] \notin UndoRange}
First(S) == CHOOSE i \in S : \A j \in S : i <= j

Returns(p, why) ==
  /\ call' = [call EXCEPT ![p] = NoCall]
  /\ answer' = [answer EXCEPT ![p] = [why |-> why, nowait |-> call[p].nowait]]
  /\ UNCHANGED <<object, added>>

(* semop performs them all. *)
Perform(p) ==
  LET n == Len(call[p].ops)
  IN /\ call[p] # NoCall /\ Stuck(p) \cup TooLarge(p) = {}
     /\ value' = Values(p)[n] /\ undo' = [undo EXCEPT ![p] = Undoes(p)[n]]
     /\ wanted' = -1
     /\ Returns(p, "done")
     /\ UNCHANGED <<exists, sets, base, clamped>>

(* semop fails at once, or the call it would wait in is interrupted. *)
Refuse(p) ==
  LET bad == First(Stuck(p) \cup TooLarge(p))
      nowait == call[p].ops[bad].nowait
  IN /\ call[p] # NoCall /\ Stuck(p) \cup TooLarge(p) # {}
     /\ \/ bad \notin Stuck(p) /\ Returns(p, "ERANGE")
        \/ bad \in Stuck(p) /\ nowait /\ Returns(p, "EAGAIN")
        \/ bad \in Stuck(p) /\ ~nowait /\ Returns(p, "EINTR")
     /\ UNCHANGED kernelVars

(* The process exits: the kernel takes back what it did. *)
Exit(p) ==
  LET sum == [s \in Sems |-> value[s] + undo[p][s]] IN
  /\ Has(p)
  /\ value' = [s \in Sems |-> Min({SemMax, Max({0, sum[s]})})]
  /\ clamped' = [s \in Sems |-> clamped[s] \/ value'[s] # sum[s]]
  /\ undo' = [undo EXCEPT ![p] = Zeros]
  /\ object' = [object EXCEPT ![p] = NoObject] /\ call' = [call EXCEPT ![p] = NoCall]
  /\ added' = [added EXCEPT ![p] = <<>>] /\ answer' = [answer EXCEPT ![p] = NoAnswer]
  /\ wanted' = -1
  /\ UNCHANGED <<exists, sets, base>>

Next ==
  /\ \E p \in Processes :
       \/ SemGet(p) \/ RemoveSet(p) \/ Collect(p) \/ Exit(p)
       \/ \E s \in Sems : \/ \E n \in SetValues : SetVal(p, s, n)
                          \/ \E n \in operands : AddOp(p, n, s)
       \/ \E n \in SetValues : SetAll(p, n)
       \/ \E nowait \in BOOLEAN : Done(p, nowait)
       \/ Perform(p) \/ Refuse(p)
  /\ UNCHANGED operands

Spec == Init /\ [][Next]_vars

-----------------------------------------------------------------------------
(* Properties. *)

(* What a process took is what the semaphore lacks: whichever processes     *)
(* exit, at whatever point, the semaphores get back the values they were   *)
(* given last, unless the kernel had to cut an undo off.  In particular no *)
(* more is held at a time than there was.                                  *)
Conserved ==
  \A s \in Sems : ~clamped[s] =>
    value[s] + SumFunction([p \in Processes |-> undo[p][s]]) = base[s]

(* semop gets the operations added since the last done() and no other,      *)
(* whether that one succeeded or failed.                                   *)
DoesWhatWasAdded ==
  \A p \in Processes : call[p].asked = [i \in DOMAIN call[p].ops |-> <<call[p].ops[i].num, call[p].ops[i].op>>]

(* done() gives up at once only if it was told not to wait, and waits only  *)
(* if it was not, whatever earlier calls were told.                        *)
WaitsUnlessTold ==
  \A p \in Processes : /\ answer[p].why = "EAGAIN" => answer[p].nowait
                       /\ answer[p].why = "EINTR" => ~answer[p].nowait

(* What the header says of setall(val): the semaphores have that value.    *)
(* The code does not keep it: README, "Disagreements".                      *)
SetAllSets == wanted # -1 => \A s \in Sems : value[s] = wanted

(* What every state of the component keeps. *)
Safety == TypeOK /\ Conserved /\ DoesWhatWasAdded /\ WaitsUnlessTold

(* What makes the last two so: the entries that are in use are the           *)
(* operations added since the last done(), none with the flag of an earlier *)
(* call, and a call has the flag on all of its operations or on none.      *)
Entries(p) == 1 .. object[p].nops

Objects == [set : Nat, sops : [1..Limit -> Slot], nops : 0..Limit]
Calls == [ops : Seq(Slot), nowait : BOOLEAN, asked : Seq(Sems \X Int)]
Answers == [why : {"none", "done", "EAGAIN", "EINTR", "EIDRM", "EINVAL", "ERANGE"}, nowait : BOOLEAN]

OrdersTyped ==
  /\ object \in [Processes -> Objects] /\ call \in [Processes -> Calls] /\ answer \in [Processes -> Answers]
  /\ added \in [Processes -> Seq(Sems \X Int)] /\ sets \in Nat

InUseIsAdded ==
  \A p \in Processes :
    /\ Len(added[p]) = object[p].nops /\ (~Has(p) => added[p] = <<>>)
    /\ \A i \in Entries(p) : LET slot == object[p].sops[i] IN
         added[p][i] = <<slot.num, slot.op>> /\ ~slot.nowait

FlagOnAllOrNone == \A p \in Processes : \A i \in DOMAIN call[p].ops : call[p].ops[i].nowait = call[p].nowait

OrdersInv ==
  operands \in OpSets /\ OrdersTyped /\ InUseIsAdded /\ FlagOnAllOrNone /\ DoesWhatWasAdded /\ WaitsUnlessTold

(* And what makes the first two so: what an operation changes, an exit can   *)
(* undo, from the moment it was added to its return.                       *)
UndoneIfAny(slot) == slot.undo = (slot.op # 0)

AllUndone ==
  \A p \in Processes :
    /\ \A i \in Entries(p) : UndoneIfAny(object[p].sops[i])
    /\ \A i \in DOMAIN call[p].ops : UndoneIfAny(call[p].ops[i])

KernelTyped ==
  /\ exists \in BOOLEAN /\ sets \in 0..MaxSets
  /\ value \in [Sems -> 0..SemMax] /\ undo \in [Processes -> [Sems -> UndoRange]]
  /\ base \in [Sems -> 0..SemMax] /\ clamped \in [Sems -> BOOLEAN]
  /\ wanted \in SetValues \cup {-1}
  /\ \A p \in Processes : object[p].set <= sets

SemInv == OrdersInv /\ AllUndone /\ KernelTyped /\ Conserved

=============================================================================
