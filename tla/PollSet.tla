-------------------------------- MODULE PollSet --------------------------------
(* What a PollSelector of lsocklib.c promises, without its array: a set of   *)
(* file descriptors with the events asked for, the events of the latest      *)
(* select, and iterators that hand those events out.                         *)

CONSTANTS
  Fd,          \* file descriptors
  Event,       \* the events poll(2) knows
  Unmasked,    \* the events poll(2) reports without being asked (POLLERR, POLLHUP)
  Iter,        \* the iterators that select returns
  NoEvent      \* what a call returns that hands no event out

VARIABLES
  interest,    \* the registered descriptors, each with the events asked for
  ready,       \* the events of the latest select that are still valid
  told,        \* what each iterator has handed out
  active,      \* the iterators in use
  event        \* the pair the latest call handed out

vars == <<interest, ready, told, active, event>>

Nothing == [f \in {} |-> {}]

Without(g, f) == [d \in DOMAIN g \ {f} |-> g[d]]

Init ==
  /\ interest = Nothing
  /\ ready = Nothing
  /\ told = [it \in Iter |-> {}]
  /\ active = {}
  /\ event = NoEvent

(* A descriptor that is registered again has no event before the next select. *)
Register(f, e) ==
  /\ interest' = [d \in DOMAIN interest \cup {f} |-> IF d = f THEN e ELSE interest[d]]
  /\ event' = NoEvent
  /\ UNCHANGED <<ready, told, active>>

Unregister(f) ==
  /\ f \in DOMAIN interest
  /\ interest' = Without(interest, f)
  /\ ready' = Without(ready, f)
  /\ told' = [it \in Iter |-> told[it] \ {f}]
  /\ event' = NoEvent
  /\ UNCHANGED active

Clear ==
  /\ interest' = Nothing
  /\ ready' = Nothing
  /\ told' = [it \in Iter |-> {}]
  /\ event' = NoEvent
  /\ UNCHANGED active

(* Every event was asked for, or is one that needs no asking. *)
Select(it) ==
  /\ \E R \in SUBSET (DOMAIN interest) :
       /\ ready' \in [R -> (SUBSET Event) \ {{}}]
       /\ \A f \in R : ready'[f] \subseteq interest[f] \cup Unmasked
  /\ told' = [told EXCEPT ![it] = {}]
  /\ active' = active \cup {it}
  /\ event' = NoEvent
  /\ UNCHANGED interest

SelectFails ==
  /\ ready' = Nothing
  /\ event' = NoEvent
  /\ UNCHANGED <<interest, told, active>>

(* An iterator hands out an event of a registered descriptor, once. *)
Report(it, f) ==
  /\ it \in active
  /\ f \in DOMAIN ready \ told[it]
  /\ told' = [told EXCEPT ![it] = @ \cup {f}]
  /\ event' = <<f, ready[f]>>
  /\ UNCHANGED <<interest, ready, active>>

(* The application is done with an iterator, or it handed nothing out. *)
Leave(it) ==
  /\ active' \in {active, active \ {it}}
  /\ event' = NoEvent
  /\ UNCHANGED <<interest, ready, told>>

Next ==
  \/ \E f \in Fd, e \in SUBSET Event : Register(f, e)
  \/ \E f \in Fd : Unregister(f)
  \/ Clear
  \/ \E it \in Iter : Select(it) \/ Leave(it)
  \/ SelectFails
  \/ \E it \in Iter, f \in Fd : Report(it, f)

Spec == Init /\ [][Next]_vars

=============================================================================
