------------------------------ MODULE PollSelector ------------------------------
(***************************************************************************)
(* The PollSelector of lsocklib.c, in the build without USE_EPOLL: an      *)
(* array of struct pollfd that register, unregister and modify search from *)
(* the front, unregister fills the hole with the last entry, and the       *)
(* iterators select returns walk the live array, each with a position of   *)
(* its own.  The application calls in any order, in the middle of an       *)
(* iteration too; it unregisters a descriptor before it closes it.         *)
(***************************************************************************)
EXTENDS Integers, FiniteSets

CONSTANTS
  Fd,            \* the file descriptors the application registers
  Event,         \* the events poll(2) knows
  Unmasked,      \* the events poll(2) reports without being asked
  Iter,          \* the iterators (Lua closures) that select returns
  NoEvent,       \* what a call returns that hands no event out
  InitialSize    \* how many entries the array has at first

ASSUME PollAssumption ==
  /\ IsFiniteSet(Fd)
  /\ Unmasked \subseteq Event
  /\ InitialSize \in Nat \ {0}

VARIABLES
  fds,           \* poller->fds, the entries in use
  len,           \* poller->len
  size,          \* poller->size
  position,      \* each iterator's second upvalue: how many entries it has passed
  active,        \* the iterators the application still holds
  kernel,        \* what poll(2) would find at each descriptor
  event,         \* the pair the latest call handed out
  told,          \* history: what each iterator handed out, as long as it is registered
  overtaken      \* history: the iterators that may miss an event

selectorVars == <<fds, len, size>>
vars == <<selectorVars, position, active, kernel, event, told, overtaken>>

Entry == [fd : Fd, events : SUBSET Event, revents : SUBSET Event]

(* A mutant of Registered: the search stops one entry early. *)
RegisteredButLast == {fds[i].fd : i \in 1 .. (len - 1)}

(* What the search of register finds. *)
Registered == {fds[i].fd : i \in 1 .. len}

(* The entry a search from the front stops at. *)
IsSlot(i, f) == fds[i].fd = f /\ \A j \in 1 .. (i - 1) : fds[j].fd # f

(* The type of the variables: the entries in use fit in the array. *)
TypeOK ==
  /\ len \in Nat /\ size \in Nat \ {0} /\ len <= size
  /\ fds \in [1 .. len -> Entry]
  /\ position \in [Iter -> Nat]
  /\ active \in SUBSET Iter
  /\ kernel \in [Fd -> SUBSET Event]
  /\ event \in (Fd \X SUBSET Event) \cup {NoEvent}
  /\ told \in [Iter -> SUBSET Fd]
  /\ overtaken \in SUBSET Iter

(* socket.PollSelector() *)
Init ==
  /\ len = 0
  /\ size = InitialSize
  /\ fds = [i \in 1 .. 0 |-> {}]
  /\ position = [it \in Iter |-> 0]
  /\ active = {}
  /\ kernel = [f \in Fd |-> {}]
  /\ event = NoEvent
  /\ told = [it \in Iter |-> {}]
  /\ overtaken = {}

-----------------------------------------------------------------------------

(* poller:register(fd, events) and poller:modify(fd, events) of a descriptor *)
(* that is registered: the events of the latest poll stay.                   *)
SetEvents(f, e) ==
  /\ \E i \in 1 .. len :
       /\ IsSlot(i, f)
       /\ fds' = [fds EXCEPT ![i].events = e]
  /\ event' = NoEvent
  /\ UNCHANGED <<len, size, position, active, kernel, told, overtaken>>

(* A mutant of NewEntry: the events of the last poll are not reset. *)
NewEntryWithEvents(f, e) == [fd |-> f, events |-> e, revents |-> kernel[f]]

NewEntry(f, e) == [fd |-> f, events |-> e, revents |-> {}]

(* A mutant of Grown: the array never grows. *)
NeverGrown == size

(* The array is doubled when it is full. *)
Grown == IF len = size THEN 2 * size ELSE size

(* poller:register(fd, events) of a new descriptor. *)
Register(f, e) ==
  /\ f \notin Registered
  /\ size' = Grown
  /\ len' = len + 1
  /\ fds' = [i \in 1 .. (len + 1) |-> IF i = len + 1 THEN NewEntry(f, e) ELSE fds[i]]
  /\ event' = NoEvent
  /\ UNCHANGED <<position, active, kernel, told, overtaken>>

(* The last entry takes the place of entry i. *)
Removed(i) == [j \in 1 .. (len - 1) |-> IF j = i THEN fds[len] ELSE fds[j]]

(* poller:unregister(fd).  An iterator that has passed entry i misses what   *)
(* moves there.                                                              *)
Unregister(f) ==
  /\ \E i \in 1 .. len :
       /\ IsSlot(i, f)
       /\ fds' = Removed(i)
       /\ overtaken' = overtaken \cup {it \in active : i <= position[it]}
  /\ len' = len - 1
  /\ told' = [it \in Iter |-> told[it] \ {f}]
  /\ event' = NoEvent
  /\ UNCHANGED <<size, position, active, kernel>>

(* poller:clear() *)
Clear ==
  /\ len' = 0
  /\ fds' = [i \in 1 .. 0 |-> {}]
  /\ told' = [it \in Iter |-> {}]
  /\ event' = NoEvent
  /\ UNCHANGED <<size, position, active, kernel, overtaken>>

(* poll(2), with any timeout. *)
Polled == [i \in 1 .. len |->
             [fds[i] EXCEPT !.revents = kernel[fds[i].fd] \cap (fds[i].events \cup Unmasked)]]

(* poller:select(timeout) returns a new iterator at the front; the others    *)
(* walk the same entries, whose events are the new ones.                     *)
Select(it) ==
  /\ it \notin active
  /\ fds' = Polled
  /\ position' = [position EXCEPT ![it] = 0]
  /\ active' = active \cup {it}
  /\ told' = [told EXCEPT ![it] = {}]
  /\ overtaken' = active
  /\ event' = NoEvent
  /\ UNCHANGED <<len, size, kernel>>

(* poller:select(timeout) when poll(2) is interrupted: the events are        *)
(* already reset.                                                            *)
SelectFails ==
  /\ fds' = [i \in 1 .. len |-> [fds[i] EXCEPT !.revents = {}]]
  /\ overtaken' = active
  /\ event' = NoEvent
  /\ UNCHANGED <<len, size, position, active, kernel, told>>

(* Mutants of Passed: the iterator stays on the entry it handed out, or skips *)
(* the one after it.                                                         *)
PassedNot(i) == i - 1
PassedOneMore(i) == i + 1

(* The position after entry i is handed out. *)
Passed(i) == i

(* The iterator finds the next entry with events. *)
NextEvent(it) ==
  /\ it \in active
  /\ \E i \in 1 .. len :
       /\ i > position[it]
       /\ fds[i].revents # {}
       /\ \A j \in (position[it] + 1) .. (i - 1) : fds[j].revents = {}
       /\ position' = [position EXCEPT ![it] = Passed(i)]
       /\ told' = [told EXCEPT ![it] = @ \cup {fds[i].fd}]
       /\ event' = <<fds[i].fd, fds[i].revents>>
  /\ UNCHANGED <<selectorVars, active, kernel, overtaken>>

(* The iterator finds no more, and the application's loop ends. *)
EndOfEvents(it) ==
  /\ it \in active
  /\ \A i \in 1 .. len : i > position[it] => fds[i].revents = {}
  /\ active' = active \ {it}
  /\ overtaken' = overtaken \ {it}
  /\ event' = NoEvent
  /\ UNCHANGED <<selectorVars, position, kernel, told>>

(* The application leaves the loop early. *)
Break(it) ==
  /\ it \in active
  /\ active' = active \ {it}
  /\ overtaken' = overtaken \ {it}
  /\ event' = NoEvent
  /\ UNCHANGED <<selectorVars, position, kernel, told>>

(* Something happens at a descriptor, or its events are consumed. *)
KernelChanges ==
  /\ \E f \in Fd, k \in SUBSET Event : kernel' = [kernel EXCEPT ![f] = k]
  /\ UNCHANGED <<selectorVars, position, active, event, told, overtaken>>

Change ==
  \/ \E f \in Fd, e \in SUBSET Event : Register(f, e) \/ SetEvents(f, e)
  \/ \E f \in Fd : Unregister(f)
  \/ Clear

Next ==
  \/ Change
  \/ \E it \in Iter : Select(it) \/ NextEvent(it) \/ EndOfEvents(it) \/ Break(it)
  \/ SelectFails
  \/ KernelChanges

Spec == Init /\ [][Next]_vars

(* An event loop: one iterator at a time, which the application runs to its  *)
(* end before it selects again, while its handlers register and unregister   *)
(* whatever they like.                                                       *)
LoopNext ==
  \/ Change
  \/ active = {} /\ (SelectFails \/ \E it \in Iter : Select(it))
  \/ \E it \in Iter : NextEvent(it) \/ EndOfEvents(it)
  \/ KernelChanges

LoopSpec ==
  /\ Init /\ [][LoopNext]_vars
  /\ WF_vars(active = {} /\ \E it \in Iter : Select(it))
  /\ WF_vars(\E it \in Iter : NextEvent(it) \/ EndOfEvents(it))

-----------------------------------------------------------------------------
(* Properties. *)

(* However entries are moved, a descriptor has one entry: unregister leaves  *)
(* none behind, and the search from the front always finds the current one.  *)
OneEntryPerDescriptor ==
  \A i, j \in 1 .. len : fds[i].fd = fds[j].fd => i = j

(* An iterator has passed every entry it handed out, wherever unregister     *)
(* moved it: it never hands the same registration out twice.                 *)
ToldIsPassed ==
  \A it \in active, i \in 1 .. len : fds[i].fd \in told[it] => i <= position[it]

(* An iterator has passed an entry with events without handing it out only   *)
(* if a descriptor it had passed was unregistered, or the selector polled    *)
(* again, meanwhile.                                                         *)
NothingMissed ==
  \A it \in active \ overtaken, i \in 1 .. len :
    fds[i].revents # {} /\ i <= position[it] => fds[i].fd \in told[it]

(* The array implements the set of descriptors: in particular a descriptor   *)
(* that is unregistered and registered again has no event of its former      *)
(* self, and an iterator hands out only what is registered.                  *)
Slot(f) == CHOOSE i \in 1 .. len : fds[i].fd = f
Ready == {fds[i].fd : i \in {j \in 1 .. len : fds[j].revents # {}}}

Interest == [f \in Registered |-> fds[Slot(f)].events]
ReadyEvents == [f \in Ready |-> fds[Slot(f)].revents]

Set == INSTANCE PollSet WITH interest <- Interest, ready <- ReadyEvents

ImplementsPollSet == Set!Spec

(* A descriptor that stays registered, with an event that stays pending and  *)
(* is asked for, is handed out again and again, although an iterator may     *)
(* miss it each time another one is unregistered: what is moved only ever    *)
(* moves to the front.                                                       *)
Pending(f) ==
  \E i \in 1 .. len : fds[i].fd = f /\ kernel[f] \cap (fds[i].events \cup Unmasked) # {}

HandedOut(f) == event # NoEvent /\ event[1] = f

NotStarved == \A f \in Fd : <>[]Pending(f) => []<>HandedOut(f)

-----------------------------------------------------------------------------
(* What makes the properties inductive. *)

(* An iterator has handed out only what is still registered. *)
ToldIsRegistered == \A it \in Iter : told[it] \subseteq Registered

(* The inductive invariant. *)
IInv ==
  /\ TypeOK
  /\ OneEntryPerDescriptor
  /\ ToldIsRegistered
  /\ ToldIsPassed
  /\ NothingMissed

=============================================================================
