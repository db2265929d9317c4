--------------------------- MODULE PollSelectorProofs ---------------------------
(* The invariants of PollSelector, and that it implements PollSet, for every *)
(* set of descriptors, events and iterators and every initial size.          *)
EXTENDS PollSelector, TLAPS

USE PollAssumption

LEMMA InitInv == Init => IInv
  BY DEF Init, IInv, TypeOK, OneEntryPerDescriptor, ToldIsRegistered, ToldIsPassed, NothingMissed

LEMMA SetEventsInv ==
  ASSUME IInv, NEW f \in Fd, NEW e \in SUBSET Event, SetEvents(f, e)
  PROVE  IInv'
<1>1. PICK i \in 1 .. len : IsSlot(i, f) /\ fds' = [fds EXCEPT ![i].events = e]
  BY DEF SetEvents
<1>2. UNCHANGED <<len, size, position, active, kernel, told, overtaken>> /\ event' = NoEvent
  BY DEF SetEvents
<1>3. fds \in [1 .. len -> Entry] /\ len \in Nat
  BY DEF IInv, TypeOK
<1>4. fds' \in [1 .. len -> Entry]
  BY <1>1, <1>3 DEF Entry
<1>5. \A j \in 1 .. len : fds'[j].fd = fds[j].fd /\ fds'[j].revents = fds[j].revents
  BY <1>1, <1>3 DEF Entry
<1>6. Registered' = Registered
  BY <1>2, <1>5 DEF Registered
<1>7. TypeOK'
  BY <1>2, <1>4 DEF IInv, TypeOK
<1> QED
  BY <1>2, <1>5, <1>6, <1>7
     DEF IInv, OneEntryPerDescriptor, ToldIsRegistered, ToldIsPassed, NothingMissed

LEMMA RegisterInv ==
  ASSUME IInv, NEW f \in Fd, NEW e \in SUBSET Event, Register(f, e)
  PROVE  IInv'
<1>1. /\ f \notin Registered /\ len' = len + 1
      /\ fds' = [i \in 1 .. (len + 1) |-> IF i = len + 1 THEN NewEntry(f, e) ELSE fds[i]]
      /\ UNCHANGED <<position, active, kernel, told, overtaken>> /\ event' = NoEvent
  BY DEF Register
<1>2. fds \in [1 .. len -> Entry] /\ len \in Nat /\ size \in Nat /\ len <= size
  BY DEF IInv, TypeOK
<1>3. size' \in Nat /\ len' <= size'
  <2>1. size' = IF len = size THEN 2 * size ELSE size
    BY DEF Register, Grown
  <2>2. size \in Nat \ {0}
    BY DEF IInv, TypeOK
  <2> QED
    BY <1>1, <1>2, <2>1, <2>2
<1>4. NewEntry(f, e) \in Entry /\ NewEntry(f, e).fd = f /\ NewEntry(f, e).revents = {}
  BY DEF NewEntry, Entry
<1>5. /\ \A j \in 1 .. len : fds'[j] = fds[j]
      /\ fds'[len + 1] = NewEntry(f, e)
  BY <1>1, <1>2
<1>6. fds' \in [1 .. len' -> Entry]
  BY <1>1, <1>2, <1>4
<1>7. TypeOK'
  BY <1>1, <1>2, <1>3, <1>6 DEF IInv, TypeOK
<1>8. \A j \in 1 .. len : fds[j].fd # f
  BY <1>1 DEF Registered
<1>9. OneEntryPerDescriptor'
  BY <1>1, <1>2, <1>4, <1>5, <1>8 DEF IInv, OneEntryPerDescriptor
<1>10. Registered \subseteq Registered'
  BY <1>1, <1>2, <1>5 DEF Registered
<1>11. ToldIsRegistered'
  BY <1>1, <1>10 DEF IInv, ToldIsRegistered
<1>12. ToldIsPassed'
  BY <1>1, <1>2, <1>4, <1>5, <1>8 DEF IInv, TypeOK, ToldIsPassed, ToldIsRegistered, Registered
<1>13. NothingMissed'
  BY <1>1, <1>2, <1>4, <1>5 DEF IInv, TypeOK, NothingMissed
<1> QED
  BY <1>7, <1>9, <1>11, <1>12, <1>13 DEF IInv

LEMMA UnregisterInv ==
  ASSUME IInv, NEW f \in Fd, Unregister(f)
  PROVE  IInv'
<1>1. PICK i \in 1 .. len :
        /\ IsSlot(i, f) /\ fds' = Removed(i)
        /\ overtaken' = overtaken \cup {it \in active : i <= position[it]}
  BY DEF Unregister
<1>2. /\ len' = len - 1 /\ told' = [it \in Iter |-> told[it] \ {f}] /\ event' = NoEvent
      /\ UNCHANGED <<size, position, active, kernel>>
  BY DEF Unregister
<1>3. fds \in [1 .. len -> Entry] /\ len \in Nat /\ len >= 1
  BY <1>1 DEF IInv, TypeOK
<1>4. fds' = [j \in 1 .. (len - 1) |-> IF j = i THEN fds[len] ELSE fds[j]]
  BY <1>1 DEF Removed
<1>5. fds[i].fd = f /\ \A j \in 1 .. len : fds[j].fd = f => j = i
  BY <1>1 DEF IsSlot, IInv, OneEntryPerDescriptor
<1>6. \A j \in 1 .. len' : /\ j # i => fds'[j] = fds[j]
                           /\ j = i => fds'[j] = fds[len] /\ len # i
  BY <1>2, <1>3, <1>4
<1>7. fds' \in [1 .. len' -> Entry]
  BY <1>2, <1>3, <1>4
<1>8. TypeOK'
  <2>1. len' \in Nat /\ len' <= size' /\ size' \in Nat \ {0}
    BY <1>2, <1>3 DEF IInv, TypeOK
  <2>2. told' \in [Iter -> SUBSET Fd] /\ overtaken' \in SUBSET Iter
    BY <1>1, <1>2 DEF IInv, TypeOK
  <2> QED
    BY <1>2, <1>7, <2>1, <2>2 DEF IInv, TypeOK
<1>9. OneEntryPerDescriptor'
  <2>1. \A j, k \in 1 .. len : fds[j].fd = fds[k].fd => j = k
    BY DEF IInv, OneEntryPerDescriptor
  <2> SUFFICES ASSUME NEW j \in 1 .. len', NEW k \in 1 .. len', fds'[j].fd = fds'[k].fd
               PROVE  j = k
    BY DEF OneEntryPerDescriptor
  <2>2. j \in 1 .. len /\ k \in 1 .. len /\ len \in 1 .. len /\ j # len /\ k # len
    BY <1>2, <1>3
  <2>3. CASE j = i
    BY <1>6, <2>1, <2>2, <2>3
  <2>4. CASE j # i
    BY <1>6, <2>1, <2>2, <2>4
  <2> QED
    BY <2>3, <2>4
<1>10. ToldIsRegistered'
  <2> SUFFICES ASSUME NEW it \in Iter, NEW g \in told[it], g # f PROVE g \in Registered'
    BY <1>2 DEF ToldIsRegistered
  <2>1. PICK j \in 1 .. len : fds[j].fd = g
    BY DEF IInv, ToldIsRegistered, Registered
  <2>2. j # i
    BY <1>5, <2>1
  <2>3. CASE j = len
    <3>1. i \in 1 .. len' /\ fds'[i] = fds[len]
      BY <1>2, <1>3, <1>6, <2>2, <2>3
    <3> QED
      BY <2>1, <2>3, <3>1 DEF Registered
  <2>4. CASE j # len
    <3>1. j \in 1 .. len' /\ fds'[j] = fds[j]
      BY <1>2, <1>3, <1>6, <2>2, <2>4
    <3> QED
      BY <2>1, <3>1 DEF Registered
  <2> QED
    BY <2>3, <2>4
<1>11. ToldIsPassed'
  <2> SUFFICES ASSUME NEW it \in active, NEW j \in 1 .. len', fds'[j].fd \in told[it]
               PROVE  j <= position[it]
    BY <1>2 DEF ToldIsPassed, IInv, TypeOK
  <2>1. j \in 1 .. len /\ len \in 1 .. len /\ position[it] \in Nat
    BY <1>2, <1>3 DEF IInv, TypeOK
  <2>2. CASE j = i
    BY <1>3, <1>6, <2>1, <2>2 DEF IInv, ToldIsPassed
  <2>3. CASE j # i
    BY <1>6, <2>1, <2>3 DEF IInv, ToldIsPassed
  <2> QED
    BY <2>2, <2>3
<1>12. NothingMissed'
  <2> SUFFICES ASSUME NEW it \in active, it \notin overtaken', NEW j \in 1 .. len',
                      fds'[j].revents # {}, j <= position[it]
               PROVE  fds'[j].fd \in told'[it]
    BY <1>2 DEF NothingMissed
  <2>1. j # i /\ it \notin overtaken
    BY <1>1
  <2>2. j \in 1 .. len /\ fds'[j] = fds[j]
    BY <1>2, <1>3, <1>6, <2>1
  <2>3. fds[j].fd \in told[it] /\ fds[j].fd # f /\ it \in Iter
    BY <1>5, <2>1, <2>2 DEF IInv, TypeOK, NothingMissed
  <2> QED
    BY <1>2, <2>2, <2>3
<1> QED
  BY <1>8, <1>9, <1>10, <1>11, <1>12 DEF IInv

(* A step that polls keeps every descriptor and its place. *)
LEMMA PollInv ==
  ASSUME IInv, NEW r, \A i \in 1 .. len : r[i] \in SUBSET Event,
         fds' = [i \in 1 .. len |-> [fds[i] EXCEPT !.revents = r[i]]], UNCHANGED <<len, size>>
  PROVE  /\ fds' \in [1 .. len' -> Entry]
         /\ \A i \in 1 .. len : fds'[i].fd = fds[i].fd /\ fds'[i].revents = r[i]
                                /\ fds'[i].events = fds[i].events
         /\ Registered' = Registered
         /\ OneEntryPerDescriptor'
<1>1. fds \in [1 .. len -> Entry] /\ len \in Nat
  BY DEF IInv, TypeOK
<1>2. fds' \in [1 .. len -> Entry]
  BY <1>1 DEF Entry
<1>3. \A i \in 1 .. len : fds'[i].fd = fds[i].fd /\ fds'[i].revents = r[i]
                          /\ fds'[i].events = fds[i].events
  BY <1>1 DEF Entry
<1>4. Registered' = Registered
  BY <1>3 DEF Registered
<1> QED
  BY <1>2, <1>3, <1>4 DEF IInv, OneEntryPerDescriptor

LEMMA SelectInv ==
  ASSUME IInv, NEW it \in Iter, Select(it)
  PROVE  IInv'
<1> DEFINE r == [i \in 1 .. len |-> kernel[fds[i].fd] \cap (fds[i].events \cup Unmasked)]
<1>1. \A i \in 1 .. len : r[i] \in SUBSET Event
  BY DEF IInv, TypeOK, Entry
<1>2. fds' = [i \in 1 .. len |-> [fds[i] EXCEPT !.revents = r[i]]]
  BY DEF Select, Polled
<1>3. /\ it \notin active
      /\ position' = [position EXCEPT ![it] = 0] /\ active' = active \cup {it}
      /\ told' = [told EXCEPT ![it] = {}] /\ overtaken' = active
      /\ event' = NoEvent /\ UNCHANGED <<len, size, kernel>>
  BY DEF Select
<1> HIDE DEF r
<1>4. /\ fds' \in [1 .. len' -> Entry]
      /\ \A i \in 1 .. len : fds'[i].fd = fds[i].fd
      /\ Registered' = Registered
      /\ OneEntryPerDescriptor'
  BY <1>1, <1>2, <1>3, PollInv
<1>5. TypeOK'
  BY <1>3, <1>4 DEF IInv, TypeOK
<1>6. ToldIsRegistered'
  BY <1>3, <1>4 DEF IInv, TypeOK, ToldIsRegistered
<1>7. ToldIsPassed'
  BY <1>3, <1>4 DEF IInv, TypeOK, ToldIsPassed
<1>8. NothingMissed'
  BY <1>3, <1>4 DEF IInv, TypeOK, NothingMissed
<1> QED
  BY <1>4, <1>5, <1>6, <1>7, <1>8 DEF IInv

LEMMA SelectFailsInv ==
  ASSUME IInv, SelectFails
  PROVE  IInv'
<1> DEFINE r == [i \in 1 .. len |-> {}]
<1>1. fds' = [i \in 1 .. len |-> [fds[i] EXCEPT !.revents = r[i]]]
  BY DEF SelectFails
<1>2. /\ overtaken' = active /\ event' = NoEvent
      /\ UNCHANGED <<len, size, position, active, kernel, told>>
  BY DEF SelectFails
<1>3. \A i \in 1 .. len : r[i] \in SUBSET Event
  OBVIOUS
<1> HIDE DEF r
<1>4. /\ fds' \in [1 .. len' -> Entry]
      /\ \A i \in 1 .. len : fds'[i].fd = fds[i].fd
      /\ Registered' = Registered
      /\ OneEntryPerDescriptor'
  BY <1>1, <1>2, <1>3, PollInv
<1> QED
  BY <1>2, <1>4 DEF IInv, TypeOK, ToldIsRegistered, ToldIsPassed, NothingMissed

LEMMA NextEventInv ==
  ASSUME IInv, NEW it \in Iter, NextEvent(it)
  PROVE  IInv'
<1>1. PICK i \in 1 .. len :
        /\ i > position[it] /\ fds[i].revents # {}
        /\ \A j \in (position[it] + 1) .. (i - 1) : fds[j].revents = {}
        /\ position' = [position EXCEPT ![it] = i]
        /\ told' = [told EXCEPT ![it] = @ \cup {fds[i].fd}]
        /\ event' = <<fds[i].fd, fds[i].revents>>
  BY DEF NextEvent, Passed
<1>2. UNCHANGED <<selectorVars, active, kernel, overtaken>>
  BY DEF NextEvent
<1>3. fds[i] \in Entry /\ position[it] \in Nat /\ i \in Nat
  BY DEF IInv, TypeOK
<1>4. TypeOK'
  <2>1. position' \in [Iter -> Nat] /\ told' \in [Iter -> SUBSET Fd]
    BY <1>1, <1>3 DEF IInv, TypeOK, Entry
  <2>2. event' \in Fd \X SUBSET Event
    BY <1>1, <1>3 DEF Entry
  <2> QED
    BY <1>2, <2>1, <2>2 DEF selectorVars, IInv, TypeOK
<1>5. OneEntryPerDescriptor' /\ Registered' = Registered
  BY <1>2 DEF selectorVars, IInv, OneEntryPerDescriptor, Registered
<1>6. /\ position'[it] = i /\ told'[it] = told[it] \cup {fds[i].fd}
      /\ \A o \in Iter : o # it => position'[o] = position[o] /\ told'[o] = told[o]
  BY <1>1 DEF IInv, TypeOK
<1>7. ToldIsRegistered'
  BY <1>5, <1>6 DEF IInv, ToldIsRegistered, Registered
<1>8. ToldIsPassed'
  BY <1>1, <1>2, <1>3, <1>6
     DEF selectorVars, IInv, TypeOK, OneEntryPerDescriptor, ToldIsPassed
<1>9. NothingMissed'
  <2> SUFFICES ASSUME NEW o \in active, o \notin overtaken, NEW j \in 1 .. len,
                      fds[j].revents # {}, j <= position'[o]
               PROVE  fds[j].fd \in told'[o]
    BY <1>2 DEF selectorVars, NothingMissed
  <2>1. CASE o = it
    <3>1. j <= position[it] \/ j = i \/ j \in (position[it] + 1) .. (i - 1)
      BY <1>3, <1>6, <2>1
    <3> QED
      BY <1>1, <1>6, <2>1, <3>1 DEF IInv, NothingMissed
  <2>2. CASE o # it
    BY <1>6, <2>2 DEF IInv, TypeOK, NothingMissed
  <2> QED
    BY <2>1, <2>2
<1> QED
  BY <1>4, <1>5, <1>7, <1>8, <1>9 DEF IInv

LEMMA ClearInv ==
  ASSUME IInv, Clear
  PROVE  IInv'
<1>1. len' = 0 /\ size' = size /\ 1 .. len' = {}
  BY DEF Clear
<1>2. fds' \in [1 .. len' -> Entry]
  BY <1>1 DEF Clear
<1>3. /\ UNCHANGED <<position, active, kernel, overtaken>>
      /\ told' = [it \in Iter |-> {}]
      /\ event' = NoEvent
  BY DEF Clear
<1>4. TypeOK'
  BY <1>1, <1>2, <1>3 DEF IInv, TypeOK
<1>5. ToldIsRegistered'
  BY <1>3 DEF ToldIsRegistered
<1> QED
  BY <1>1, <1>4, <1>5 DEF IInv, OneEntryPerDescriptor, ToldIsPassed, NothingMissed

LEMMA LeaveInv ==
  ASSUME IInv, NEW it \in Iter, EndOfEvents(it) \/ Break(it)
  PROVE  IInv'
<1>1. /\ active' = active \ {it} /\ overtaken' = overtaken \ {it} /\ event' = NoEvent
      /\ UNCHANGED <<fds, len, size, position, kernel, told>>
  BY DEF EndOfEvents, Break, selectorVars
<1>2. TypeOK'
  BY <1>1 DEF IInv, TypeOK
<1>3. OneEntryPerDescriptor' /\ ToldIsRegistered'
  BY <1>1 DEF IInv, OneEntryPerDescriptor, ToldIsRegistered, Registered
<1>4. active' \ overtaken' \subseteq active \ overtaken /\ active' \subseteq active
  BY <1>1
<1>5. ToldIsPassed' /\ NothingMissed'
  BY <1>1, <1>4 DEF IInv, ToldIsPassed, NothingMissed
<1> QED
  BY <1>2, <1>3, <1>5 DEF IInv

(* The inductive invariant: no entry is doubled, lost or handed out twice, and *)
(* an iterator misses an event only behind its back.                           *)
THEOREM InductiveInvariant == Spec => []IInv
<1>1. IInv /\ [Next]_vars => IInv'
  <2> SUFFICES ASSUME IInv, [Next]_vars PROVE IInv'
    OBVIOUS
  <2>1. ASSUME NEW f \in Fd, NEW e \in SUBSET Event, Register(f, e) PROVE IInv'
    BY <2>1, RegisterInv
  <2>2. ASSUME NEW f \in Fd, NEW e \in SUBSET Event, SetEvents(f, e) PROVE IInv'
    BY <2>2, SetEventsInv
  <2>3. ASSUME NEW f \in Fd, Unregister(f) PROVE IInv'
    BY <2>3, UnregisterInv
  <2>4. CASE Clear
    BY <2>4, ClearInv
  <2>5. ASSUME NEW it \in Iter, Select(it) PROVE IInv'
    BY <2>5, SelectInv
  <2>6. ASSUME NEW it \in Iter, NextEvent(it) PROVE IInv'
    BY <2>6, NextEventInv
  <2>7. ASSUME NEW it \in Iter, EndOfEvents(it) \/ Break(it) PROVE IInv'
    BY <2>7, LeaveInv
  <2>8. CASE SelectFails
    BY <2>8, SelectFailsInv
  <2>9. CASE KernelChanges
    BY <2>9 DEF KernelChanges, selectorVars, IInv, TypeOK, OneEntryPerDescriptor,
                ToldIsRegistered, Registered, ToldIsPassed, NothingMissed
  <2>10. CASE UNCHANGED vars
    BY <2>10 DEF vars, selectorVars, IInv, TypeOK, OneEntryPerDescriptor,
                 ToldIsRegistered, Registered, ToldIsPassed, NothingMissed
  <2> QED
    BY <2>1, <2>2, <2>3, <2>4, <2>5, <2>6, <2>7, <2>8, <2>9, <2>10 DEF Next, Change
<1> QED
  BY InitInv, <1>1, PTL DEF Spec

(* No entry is ever out of its type or its array. *)
THEOREM TypeCorrect == Spec => []TypeOK
<1>1. IInv => TypeOK
  BY DEF IInv
<1> QED
  BY <1>1, InductiveInvariant, PTL

(* No sequence of register and unregister leaves two entries of a descriptor. *)
THEOREM OneEntryCorrect == Spec => []OneEntryPerDescriptor
<1>1. IInv => OneEntryPerDescriptor
  BY DEF IInv
<1> QED
  BY <1>1, InductiveInvariant, PTL

(* No iterator hands one registration out twice. *)
THEOREM ToldCorrect == Spec => []ToldIsPassed
<1>1. IInv => ToldIsPassed
  BY DEF IInv
<1> QED
  BY <1>1, InductiveInvariant, PTL

(* An iterator misses an event only after an unregistration in its part of the *)
(* array, or another poll.                                                     *)
THEOREM MissedCorrect == Spec => []NothingMissed
<1>1. IInv => NothingMissed
  BY DEF IInv
<1> QED
  BY <1>1, InductiveInvariant, PTL

-----------------------------------------------------------------------------
(* The array implements the set. *)

(* What the refinement mapping says of the entry at a position. *)
Mapped ==
  /\ Interest = [f \in Registered |-> Interest[f]]
  /\ ReadyEvents = [f \in Ready |-> ReadyEvents[f]]
  /\ Ready \subseteq Registered
  /\ \A i \in 1 .. len :
       /\ Interest[fds[i].fd] = fds[i].events
       /\ fds[i].fd \in Ready <=> fds[i].revents # {}
       /\ fds[i].revents # {} => ReadyEvents[fds[i].fd] = fds[i].revents

LEMMA MappedNow == IInv => Mapped
<1> SUFFICES ASSUME IInv PROVE Mapped
  OBVIOUS
<1>1. /\ Interest = [f \in Registered |-> Interest[f]]
      /\ ReadyEvents = [f \in Ready |-> ReadyEvents[f]]
  BY DEF Interest, ReadyEvents
<1>2. Ready \subseteq Registered
  BY DEF Ready, Registered
<1>3. ASSUME NEW i \in 1 .. len
      PROVE  /\ Interest[fds[i].fd] = fds[i].events
             /\ fds[i].fd \in Ready <=> fds[i].revents # {}
             /\ fds[i].revents # {} => ReadyEvents[fds[i].fd] = fds[i].revents
  <2>1. \A j \in 1 .. len : fds[j].fd = fds[i].fd => j = i
    BY DEF IInv, OneEntryPerDescriptor
  <2>2. Slot(fds[i].fd) = i
    BY <2>1 DEF Slot
  <2>3. fds[i].fd \in Registered
    BY DEF Registered
  <2>4. fds[i].fd \in Ready <=> fds[i].revents # {}
    BY <2>1 DEF Ready
  <2> QED
    BY <2>2, <2>3, <2>4 DEF Interest, ReadyEvents
<1> QED
  BY <1>1, <1>2, <1>3 DEF Mapped

LEMMA MappedNext == IInv' => Mapped'
<1>1. (IInv => Mapped)'
  BY MappedNow, PTL
<1> QED
  BY <1>1

(* A step that changes no entry maps to one that changes no set. *)
LEMMA MappedUnchanged ==
  ASSUME fds' = fds, len' = len
  PROVE  Interest' = Interest /\ ReadyEvents' = ReadyEvents
  BY DEF Interest, ReadyEvents, Registered, Ready, Slot

(* A step that keeps the events of each entry keeps the events of the latest poll. *)
LEMMA ReadyUnchanged ==
  ASSUME IInv, IInv', len' = len,
         \A i \in 1 .. len : fds'[i].fd = fds[i].fd /\ fds'[i].revents = fds[i].revents
  PROVE  ReadyEvents' = ReadyEvents
<1>1. Mapped /\ Mapped'
  BY MappedNow, MappedNext
<1>2. Ready' = Ready
  BY DEF Ready
<1>3. ASSUME NEW f \in Ready PROVE ReadyEvents'[f] = ReadyEvents[f]
  <2>1. PICK i \in 1 .. len : fds[i].fd = f /\ fds[i].revents # {}
    BY DEF Ready
  <2> QED
    BY <1>1, <2>1 DEF Mapped
<1> QED
  BY <1>1, <1>2, <1>3 DEF Mapped

LEMMA SetEventsMaps ==
  ASSUME IInv, IInv', NEW f \in Fd, NEW e \in SUBSET Event, SetEvents(f, e)
  PROVE  Set!Register(f, e)
<1>1. PICK i \in 1 .. len : fds[i].fd = f /\ fds' = [fds EXCEPT ![i].events = e]
  BY DEF SetEvents, IsSlot
<1>2. UNCHANGED <<len, active, told>> /\ event' = NoEvent
  BY DEF SetEvents
<1>3. Mapped /\ Mapped'
  BY MappedNow, MappedNext
<1>4. fds \in [1 .. len -> Entry]
  BY DEF IInv, TypeOK
<1>5. /\ \A j \in 1 .. len : fds'[j].fd = fds[j].fd /\ fds'[j].revents = fds[j].revents
      /\ \A j \in 1 .. len : fds'[j].events = IF j = i THEN e ELSE fds[j].events
  BY <1>1, <1>4 DEF Entry
<1>6. ReadyEvents' = ReadyEvents
  BY <1>2, <1>5, ReadyUnchanged
<1>7. Registered' = Registered /\ f \in Registered
  BY <1>1, <1>2, <1>5 DEF Registered
<1>8. ASSUME NEW d \in Registered
      PROVE  Interest'[d] = IF d = f THEN e ELSE Interest[d]
  <2>1. PICK j \in 1 .. len : fds[j].fd = d
    BY DEF Registered
  <2>2. d = f <=> j = i
    BY <1>1, <2>1 DEF IInv, OneEntryPerDescriptor
  <2> QED
    BY <1>2, <1>3, <1>5, <2>1, <2>2 DEF Mapped
<1>9. Interest' = [d \in Registered \cup {f} |-> IF d = f THEN e ELSE Interest[d]]
  BY <1>3, <1>7, <1>8 DEF Mapped
<1>10. DOMAIN Interest = Registered
  BY <1>3 DEF Mapped
<1> QED
  BY <1>2, <1>6, <1>9, <1>10 DEF Set!Register

LEMMA RegisterMaps ==
  ASSUME IInv, IInv', NEW f \in Fd, NEW e \in SUBSET Event, Register(f, e)
  PROVE  Set!Register(f, e)
<1>1. /\ f \notin Registered /\ len' = len + 1
      /\ fds' = [i \in 1 .. (len + 1) |-> IF i = len + 1 THEN NewEntry(f, e) ELSE fds[i]]
      /\ UNCHANGED <<active, told>> /\ event' = NoEvent
  BY DEF Register
<1>2. Mapped /\ Mapped'
  BY MappedNow, MappedNext
<1>3. len \in Nat
  BY DEF IInv, TypeOK
<1>4. /\ \A j \in 1 .. len : fds'[j] = fds[j] /\ j \in 1 .. len' /\ fds[j].fd # f
      /\ fds'[len + 1].fd = f /\ fds'[len + 1].events = e /\ fds'[len + 1].revents = {}
      /\ 1 .. len' = 1 .. len \cup {len + 1}
  BY <1>1, <1>3 DEF NewEntry, Registered
<1>5. Registered' = Registered \cup {f}
  BY <1>4 DEF Registered
<1>6. Ready' = Ready
  BY <1>4 DEF Ready
<1>7. ASSUME NEW d \in Ready PROVE ReadyEvents'[d] = ReadyEvents[d]
  <2>1. PICK i \in 1 .. len : fds[i].fd = d /\ fds[i].revents # {}
    BY DEF Ready
  <2> QED
    BY <1>2, <1>4, <2>1 DEF Mapped
<1>8. ReadyEvents' = ReadyEvents
  BY <1>2, <1>6, <1>7 DEF Mapped
<1>9. ASSUME NEW d \in Registered'
      PROVE  Interest'[d] = IF d = f THEN e ELSE Interest[d]
  <2>1. CASE d = f
    <3>1. len + 1 \in 1 .. len'
      BY <1>4
    <3> QED
      BY <1>2, <1>4, <2>1, <3>1 DEF Mapped
  <2>2. CASE d # f
    <3>1. PICK j \in 1 .. len : fds[j].fd = d
      BY <1>5, <2>2 DEF Registered
    <3> QED
      BY <1>2, <1>4, <2>2, <3>1 DEF Mapped
  <2> QED
    BY <2>1, <2>2
<1>10. Interest' = [d \in Registered \cup {f} |-> IF d = f THEN e ELSE Interest[d]]
  BY <1>2, <1>5, <1>9 DEF Mapped
<1>11. DOMAIN Interest = Registered
  BY <1>2 DEF Mapped
<1> QED
  BY <1>1, <1>8, <1>10, <1>11 DEF Set!Register

(* Filling the hole with the last entry takes one descriptor out of the set. *)
LEMMA UnregisterMaps ==
  ASSUME IInv, IInv', NEW f \in Fd, Unregister(f)
  PROVE  Set!Unregister(f)
<1>1. PICK i \in 1 .. len : fds[i].fd = f /\ fds' = Removed(i)
  BY DEF Unregister, IsSlot
<1>2. /\ len' = len - 1 /\ active' = active /\ event' = NoEvent
      /\ told' = [it \in Iter |-> told[it] \ {f}]
  BY DEF Unregister
<1>3. Mapped /\ Mapped'
  BY MappedNow, MappedNext
<1>4. len \in Nat /\ len \in 1 .. len
  BY DEF IInv, TypeOK
<1>5. \A j \in 1 .. len' : j \in 1 .. len /\ fds'[j] = IF j = i THEN fds[len] ELSE fds[j]
  BY <1>1, <1>2, <1>4 DEF Removed
<1>6. \A j \in 1 .. len : fds[j].fd = f <=> j = i
  BY <1>1 DEF IInv, OneEntryPerDescriptor
<1>7. ASSUME NEW j \in 1 .. len, j # i
      PROVE  \E k \in 1 .. len' : fds'[k] = fds[j]
  <2>1. CASE j = len
    BY <1>2, <1>4, <1>5, <1>7, <2>1
  <2>2. CASE j # len
    BY <1>2, <1>4, <1>5, <1>7, <2>2
  <2> QED
    BY <2>1, <2>2
<1>8. ASSUME NEW k \in 1 .. len'
      PROVE  \E j \in 1 .. len : j # i /\ fds'[k] = fds[j]
  BY <1>2, <1>4, <1>5
<1>9. Registered' = Registered \ {f}
  BY <1>6, <1>7, <1>8 DEF Registered
<1>10. Ready' = Ready \ {f}
  <2>1. ASSUME NEW d \in Ready' PROVE d \in Ready \ {f}
    <3>1. PICK k \in 1 .. len' : fds'[k].fd = d /\ fds'[k].revents # {}
      BY DEF Ready
    <3>2. PICK j \in 1 .. len : j # i /\ fds'[k] = fds[j]
      BY <1>8
    <3> QED
      BY <1>3, <1>6, <3>1, <3>2 DEF Mapped
  <2>2. ASSUME NEW d \in Ready \ {f} PROVE d \in Ready'
    <3>1. PICK j \in 1 .. len : fds[j].fd = d /\ fds[j].revents # {}
      BY DEF Ready
    <3>2. PICK k \in 1 .. len' : fds'[k] = fds[j]
      BY <1>6, <1>7, <2>2, <3>1
    <3> QED
      BY <1>3, <3>1, <3>2 DEF Mapped
  <2> QED
    BY <2>1, <2>2
<1>11. ASSUME NEW d \in Registered' PROVE Interest'[d] = Interest[d]
  <2>1. PICK k \in 1 .. len' : fds'[k].fd = d
    BY DEF Registered
  <2>2. PICK j \in 1 .. len : fds'[k] = fds[j]
    BY <1>8
  <2> QED
    BY <1>3, <2>1, <2>2 DEF Mapped
<1>12. ASSUME NEW d \in Ready' PROVE ReadyEvents'[d] = ReadyEvents[d]
  <2>1. PICK k \in 1 .. len' : fds'[k].fd = d /\ fds'[k].revents # {}
    BY DEF Ready
  <2>2. PICK j \in 1 .. len : fds'[k] = fds[j]
    BY <1>8
  <2> QED
    BY <1>3, <2>1, <2>2 DEF Mapped
<1>13. DOMAIN Interest = Registered /\ DOMAIN ReadyEvents = Ready
  BY <1>3 DEF Mapped
<1>14. /\ Interest' = [d \in DOMAIN Interest \ {f} |-> Interest[d]]
       /\ ReadyEvents' = [d \in DOMAIN ReadyEvents \ {f} |-> ReadyEvents[d]]
  BY <1>3, <1>9, <1>10, <1>11, <1>12, <1>13 DEF Mapped
<1>15. f \in Registered
  BY <1>1 DEF Registered
<1> QED
  BY <1>2, <1>13, <1>14, <1>15 DEF Set!Unregister, Set!Without

LEMMA ClearMaps ==
  ASSUME Clear
  PROVE  Set!Clear
<1>1. 1 .. len' = {}
  BY DEF Clear
<1>2. Registered' = {} /\ Ready' = {}
  BY <1>1 DEF Registered, Ready
<1>3. Interest' = [f \in {} |-> {}] /\ ReadyEvents' = [f \in {} |-> {}]
  BY <1>2 DEF Interest, ReadyEvents
<1> QED
  BY <1>3 DEF Clear, Set!Clear, Set!Nothing

LEMMA SelectMaps ==
  ASSUME IInv, IInv', NEW it \in Iter, Select(it)
  PROVE  Set!Select(it)
<1>1. /\ fds' = Polled /\ len' = len /\ event' = NoEvent
      /\ active' = active \cup {it} /\ told' = [told EXCEPT ![it] = {}]
  BY DEF Select
<1>2. Mapped /\ Mapped'
  BY MappedNow, MappedNext
<1>3. fds \in [1 .. len -> Entry] /\ kernel \in [Fd -> SUBSET Event]
  BY DEF IInv, TypeOK
<1>4. ASSUME NEW i \in 1 .. len
      PROVE  /\ fds'[i].fd = fds[i].fd /\ fds'[i].events = fds[i].events
             /\ fds'[i].revents \in SUBSET Event
             /\ fds'[i].revents \subseteq fds[i].events \cup Unmasked
  <2>1. fds'[i] = [fds[i] EXCEPT !.revents = kernel[fds[i].fd] \cap (fds[i].events \cup Unmasked)]
    BY <1>1 DEF Polled
  <2> QED
    BY <1>3, <2>1 DEF Entry
<1>5. Registered' = Registered
  BY <1>1, <1>4 DEF Registered
<1>6. ASSUME NEW d \in Registered PROVE Interest'[d] = Interest[d]
  <2>1. PICK i \in 1 .. len : fds[i].fd = d
    BY DEF Registered
  <2> QED
    BY <1>1, <1>2, <1>4, <2>1 DEF Mapped
<1>7. Interest' = Interest
  BY <1>2, <1>5, <1>6 DEF Mapped
<1>8. ASSUME NEW d \in Ready'
      PROVE  /\ ReadyEvents'[d] \in (SUBSET Event) \ {{}}
             /\ ReadyEvents'[d] \subseteq Interest[d] \cup Unmasked
  <2>1. PICK i \in 1 .. len : fds'[i].fd = d /\ fds'[i].revents # {}
    BY <1>1 DEF Ready
  <2> QED
    BY <1>1, <1>2, <1>4, <2>1 DEF Mapped
<1>9. Ready' \in SUBSET (DOMAIN Interest)
  BY <1>2, <1>5 DEF Mapped
<1>10. ReadyEvents' \in [Ready' -> (SUBSET Event) \ {{}}]
  BY <1>2, <1>8 DEF Mapped
<1> QED
  BY <1>1, <1>7, <1>8, <1>9, <1>10 DEF Set!Select

LEMMA SelectFailsMaps ==
  ASSUME IInv, IInv', SelectFails
  PROVE  Set!SelectFails
<1>1. /\ fds' = [i \in 1 .. len |-> [fds[i] EXCEPT !.revents = {}]]
      /\ len' = len /\ event' = NoEvent /\ UNCHANGED <<active, told>>
  BY DEF SelectFails
<1>2. Mapped /\ Mapped'
  BY MappedNow, MappedNext
<1>3. fds \in [1 .. len -> Entry]
  BY DEF IInv, TypeOK
<1>4. \A i \in 1 .. len :
        fds'[i].fd = fds[i].fd /\ fds'[i].events = fds[i].events /\ fds'[i].revents = {}
  BY <1>1, <1>3 DEF Entry
<1>5. Registered' = Registered
  BY <1>1, <1>4 DEF Registered
<1>6. ASSUME NEW d \in Registered PROVE Interest'[d] = Interest[d]
  <2>1. PICK i \in 1 .. len : fds[i].fd = d
    BY DEF Registered
  <2> QED
    BY <1>1, <1>2, <1>4, <2>1 DEF Mapped
<1>7. Interest' = Interest
  BY <1>2, <1>5, <1>6 DEF Mapped
<1>8. Ready' = {}
  BY <1>1, <1>4 DEF Ready
<1>9. ReadyEvents' = [f \in {} |-> {}]
  BY <1>8 DEF ReadyEvents
<1> QED
  BY <1>1, <1>7, <1>9 DEF Set!SelectFails, Set!Nothing

LEMMA NextEventMaps ==
  ASSUME IInv, NEW it \in Iter, NextEvent(it)
  PROVE  \E f \in Fd : Set!Report(it, f)
<1>1. PICK i \in 1 .. len :
        /\ i > position[it] /\ fds[i].revents # {}
        /\ told' = [told EXCEPT ![it] = @ \cup {fds[i].fd}]
        /\ event' = <<fds[i].fd, fds[i].revents>>
  BY DEF NextEvent
<1>2. UNCHANGED <<fds, len, active>> /\ it \in active
  BY DEF NextEvent, selectorVars
<1>3. Mapped
  BY MappedNow
<1>4. fds[i].fd \in Fd
  BY DEF IInv, TypeOK, Entry
<1>5. fds[i].fd \in Ready /\ DOMAIN ReadyEvents = Ready
  BY <1>1, <1>3 DEF Mapped
<1>6. fds[i].fd \notin told[it]
  BY <1>1, <1>2 DEF IInv, TypeOK, ToldIsPassed
<1>7. ReadyEvents[fds[i].fd] = fds[i].revents
  BY <1>1, <1>3 DEF Mapped
<1>8. Interest' = Interest /\ ReadyEvents' = ReadyEvents
  BY <1>2, MappedUnchanged
<1>9. Set!Report(it, fds[i].fd)
  BY <1>1, <1>2, <1>5, <1>6, <1>7, <1>8 DEF Set!Report
<1> QED
  BY <1>4, <1>9

(* The array with its moving entries and its iterators implements a set of     *)
(* descriptors: nothing stale is handed out, and nothing twice.                *)
THEOREM Implementation == Spec => ImplementsPollSet
<1>1. Init => Set!Init
  <2> SUFFICES ASSUME Init PROVE Set!Init
    OBVIOUS
  <2>1. 1 .. len = {}
    BY DEF Init
  <2>2. Registered = {} /\ Ready = {}
    BY <2>1 DEF Registered, Ready
  <2>3. Interest = [f \in {} |-> {}] /\ ReadyEvents = [f \in {} |-> {}]
    BY <2>2 DEF Interest, ReadyEvents
  <2> QED
    BY <2>3 DEF Init, Set!Init, Set!Nothing
<1>2. IInv /\ IInv' /\ [Next]_vars => [Set!Next]_Set!vars
  <2> SUFFICES ASSUME IInv, IInv', [Next]_vars PROVE [Set!Next]_Set!vars
    OBVIOUS
  <2>1. ASSUME NEW f \in Fd, NEW e \in SUBSET Event, Register(f, e) \/ SetEvents(f, e)
        PROVE  Set!Next
    BY <2>1, RegisterMaps, SetEventsMaps DEF Set!Next
  <2>2. ASSUME NEW f \in Fd, Unregister(f) PROVE Set!Next
    BY <2>2, UnregisterMaps DEF Set!Next
  <2>3. CASE Clear
    BY <2>3, ClearMaps DEF Set!Next
  <2>4. ASSUME NEW it \in Iter, Select(it) PROVE Set!Next
    BY <2>4, SelectMaps DEF Set!Next
  <2>5. ASSUME NEW it \in Iter, NextEvent(it) PROVE Set!Next
    BY <2>5, NextEventMaps DEF Set!Next
  <2>6. ASSUME NEW it \in Iter, EndOfEvents(it) \/ Break(it) PROVE Set!Next
    <3>1. /\ active' = active \ {it} /\ event' = NoEvent
          /\ UNCHANGED <<fds, len, told>>
      BY <2>6 DEF EndOfEvents, Break, selectorVars
    <3>2. Set!Leave(it)
      BY <3>1, MappedUnchanged DEF Set!Leave
    <3> QED
      BY <3>2 DEF Set!Next
  <2>7. CASE SelectFails
    BY <2>7, SelectFailsMaps DEF Set!Next
  <2>8. CASE KernelChanges
    <3>1. UNCHANGED <<fds, len, told, active, event>>
      BY <2>8 DEF KernelChanges, selectorVars
    <3> QED
      BY <3>1, MappedUnchanged DEF Set!vars
  <2>9. CASE UNCHANGED vars
    <3>1. UNCHANGED <<fds, len, told, active, event>>
      BY <2>9 DEF vars, selectorVars
    <3> QED
      BY <3>1, MappedUnchanged DEF Set!vars
  <2> QED
    BY <2>1, <2>2, <2>3, <2>4, <2>5, <2>6, <2>7, <2>8, <2>9 DEF Next, Change
<1> QED
  BY <1>1, <1>2, InductiveInvariant, PTL DEF Spec, ImplementsPollSet, Set!Spec
=============================================================================
