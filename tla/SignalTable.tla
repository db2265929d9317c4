------------------------------ MODULE SignalTable ------------------------------
(***************************************************************************)
(* sys.signal of lsyslib.c.  The Lua handler of each signal is kept in the *)
(* registry, under a reference that the table _sig_handler names; the      *)
(* operating system keeps a disposition.  A signal may arrive between any  *)
(* two statements of a call of sys.signal, and its handler, which runs     *)
(* with every signal masked, may call sys.signal itself.  (A signal that   *)
(* arrives inside of a function of Lua is not modelled.)                   *)
(***************************************************************************)
EXTENDS Integers, Sequences, Functions

CONSTANTS
  Signals,
  Handlers,   \* Lua functions
  ErrorValue, \* what a handler raises
  MaxRefs     \* bound: how long the registry grows

Default == "SIG_DFL"
Ignore == "SIG_IGN"
Caught == "sig_handler"
RefNil == -1

SignalAssumption ==
  /\ MaxRefs \in Nat
  /\ ErrorValue \notin Handlers
  /\ (Handlers \cup {ErrorValue}) \cap ({Default, Ignore} \cup Nat) = {}

VARIABLES
  registry,    \* the registry: a function, or, in a free entry, the next free one
  free,        \* the first free entry, 0 if there is none
  slot,        \* _sig_handler
  disposition, \* what the operating system does with the signal
  call,        \* the call of sys.signal that is under way
  wanted,      \* history: what the last call asked for
  disturbed    \* history: a handler changed the signal of the call it interrupted,
               \* or left an error on the stack that luaL_ref then took

vars == <<registry, free, slot, disposition, call, wanted, disturbed>>

Dispositions == {Default, Ignore}
NoCall == [pc |-> "none"]
Calls == [pc : {"begun", "released", "pushed", "stored"}, signo : Signals,
          handler : Handlers \cup Dispositions, old : Int, top : Handlers \cup {ErrorValue}]

TypeOK ==
  /\ registry \in Seq(Handlers \cup {ErrorValue} \cup 0..MaxRefs) /\ Len(registry) <= MaxRefs
  /\ free \in 0 .. Len(registry)
  /\ slot \in [Signals -> 1 .. Len(registry) \cup {RefNil}]
  /\ disposition \in [Signals -> Dispositions \cup {Caught}]
  /\ call \in Calls \cup {NoCall}
  /\ wanted \in [Signals -> Handlers \cup Dispositions]
  /\ disturbed \in BOOLEAN

(* sig_handler_init. *)
Init ==
  /\ registry = <<>> /\ free = 0
  /\ slot = [s \in Signals |-> RefNil]
  /\ disposition = [s \in Signals |-> Default]
  /\ call = NoCall
  /\ wanted = [s \in Signals |-> Default]
  /\ disturbed = FALSE

-----------------------------------------------------------------------------
(* luaL_ref and luaL_unref, on the registry and the head of its free list.  *)

Room(r) == r.free # 0 \/ Len(r.entries) < MaxRefs
NewRef(r) == IF r.free # 0 THEN r.free ELSE Len(r.entries) + 1
Ref(r, v) ==
  IF r.free # 0
  THEN [entries |-> [r.entries EXCEPT ![r.free] = v],
        free |-> IF r.entries[r.free] \in 0..MaxRefs THEN r.entries[r.free] ELSE 0]
  ELSE [entries |-> Append(r.entries, v), free |-> 0]
Unref(r, ref) ==
  IF ref = RefNil THEN r ELSE [entries |-> [r.entries EXCEPT ![ref] = r.free], free |-> ref]

Registry == [entries |-> registry, free |-> free]
Becomes(r) == registry' = r.entries /\ free' = r.free

-----------------------------------------------------------------------------
(* sys.signal(signo, handler), a statement at a time. *)

(* Mutants of Released: the reference is kept, or given back twice.        *)
NothingReleased(r, old) == r
ReleasedTwice(r, old) == Unref(Unref(r, old), old)

(* The reference of the old handler is given back. *)
Released(r, old) == Unref(r, old)

Begin(s, h) ==
  /\ call = NoCall
  /\ \E v \in {v \in Handlers : h \in Handlers => v = h} :
       call' = [pc |-> "begun", signo |-> s, handler |-> h, old |-> slot[s], top |-> v]
  /\ UNCHANGED <<registry, free, slot, disposition, wanted, disturbed>>

Release ==
  /\ call.pc = "begun"
  /\ Becomes(Released(Registry, call.old))
  /\ call' = [call EXCEPT !.pc = "released"]
  /\ UNCHANGED <<slot, disposition, wanted, disturbed>>

(* sig_handler_wrap with index 0. *)
ClearSlot ==
  /\ call.pc = "released" /\ call.handler \in Dispositions
  /\ slot' = [slot EXCEPT ![call.signo] = RefNil]
  /\ call' = [call EXCEPT !.pc = "stored"]
  /\ UNCHANGED <<registry, free, disposition, wanted, disturbed>>

(* lua_pushvalue. *)
Push ==
  /\ call.pc = "released" /\ call.handler \in Handlers
  /\ call' = [call EXCEPT !.pc = "pushed", !.top = call.handler]
  /\ UNCHANGED <<registry, free, slot, disposition, wanted, disturbed>>

(* luaL_ref takes what is on top of the stack. *)
Store ==
  /\ call.pc = "pushed" /\ Room(Registry)
  /\ slot' = [slot EXCEPT ![call.signo] = NewRef(Registry)]
  /\ Becomes(Ref(Registry, call.top))
  /\ call' = [call EXCEPT !.pc = "stored"]
  /\ UNCHANGED <<disposition, wanted, disturbed>>

(* Whether signal() is called: not when a function replaces a function. *)
CallsSystem(h, old) == h \in Dispositions \/ old = RefNil

DispositionFor(h) == IF h \in Handlers THEN Caught ELSE h

SetDisposition ==
  /\ call.pc = "stored"
  /\ disposition' = IF CallsSystem(call.handler, call.old)
                    THEN [disposition EXCEPT ![call.signo] = DispositionFor(call.handler)] ELSE disposition
  /\ wanted' = [wanted EXCEPT ![call.signo] = call.handler]
  /\ call' = NoCall
  /\ UNCHANGED <<registry, free, slot, disturbed>>

-----------------------------------------------------------------------------
(* sig_handler. *)

(* What a signal finds: the function that runs. *)
Runs(s) == disposition[s] = Caught /\ slot[s] # RefNil /\ registry[slot[s]] \in Handlers

(* The handler of s calls sys.signal(t, h): nothing interrupts it. *)
HandlerSets(s, t, h) ==
  LET released == Released(Registry, slot[t]) IN
  /\ Runs(s)
  /\ IF h \in Handlers
     THEN Room(released) /\ Becomes(Ref(released, h)) /\ slot' = [slot EXCEPT ![t] = NewRef(released)]
     ELSE Becomes(released) /\ slot' = [slot EXCEPT ![t] = RefNil]
  /\ disposition' = IF CallsSystem(h, slot[t])
                    THEN [disposition EXCEPT ![t] = DispositionFor(h)] ELSE disposition
  /\ wanted' = [wanted EXCEPT ![t] = h]
  /\ disturbed' = (disturbed \/ (call # NoCall /\ call.signo = t))
  /\ UNCHANGED call

(* The handler raises an error: lua_pcall leaves it on the stack. *)
HandlerRaises(s) ==
  /\ Runs(s) /\ call # NoCall
  /\ call' = [call EXCEPT !.top = ErrorValue]
  /\ disturbed' = (disturbed \/ call.pc = "pushed")
  /\ UNCHANGED <<registry, free, slot, disposition, wanted>>

Next ==
  \/ \E s \in Signals, h \in Handlers \cup Dispositions :
       \/ Begin(s, h)
       \/ \E t \in Signals : HandlerSets(s, t, h)
  \/ Release \/ ClearSlot \/ Push \/ Store \/ SetDisposition
  \/ \E s \in Signals : HandlerRaises(s)

Spec == Init /\ [][Next]_vars

-----------------------------------------------------------------------------
(* Properties. *)

Changing(s) == call # NoCall /\ call.signo = s
Holders == {s \in Signals : slot[s] # RefNil /\ ~(Changing(s) /\ call.pc \in {"released", "pushed"})}
Held == {slot[s] : s \in Holders}

(* The free list, which begins at free and on which every entry leads to    *)
(* the next one: it has none twice.                                        *)
IsFreeList(list) ==
  /\ free = IF list = <<>> THEN 0 ELSE list[1]
  /\ \A i \in DOMAIN list : registry[list[i]] = IF i = Len(list) THEN 0 ELSE list[i + 1]
  /\ \A i, j \in DOMAIN list : list[i] = list[j] => i = j

(* A signal runs the function that was registered for it, and none that was *)
(* registered for another signal, except between the release of its old    *)
(* reference and the store of the new one: there the entry is free, and a   *)
(* handler may have taken it for another signal.                           *)
RunsItsOwn ==
  \A s \in Signals :
    ~disturbed /\ Runs(s) /\ ~(Changing(s) /\ call.pc \in {"released", "pushed"}) =>
      registry[slot[s]] = IF Changing(s) /\ call.pc = "stored" THEN call.handler ELSE wanted[s]

(* When no call is under way, the system catches exactly the signals that   *)
(* have a function: a signal is neither lost between the table and the     *)
(* system nor left to a handler that finds nothing.                        *)
CaughtIffHandled ==
  ~disturbed => \A s \in Signals : ~Changing(s) =>
    disposition[s] = DispositionFor(wanted[s]) /\ (disposition[s] = Caught <=> slot[s] # RefNil)

(* No reference is lost and none is given back twice: every entry of the    *)
(* registry is on the free list or belongs to one signal.                  *)
NoReferenceLost ==
  ~disturbed =>
    /\ \E n \in 0 .. Len(registry) : \E list \in [1..n -> 1 .. Len(registry)] :
         /\ IsFreeList(list)
         /\ Held \cap Range(list) = {} /\ Held \cup Range(list) = 1 .. Len(registry)
    /\ \A s, t \in Holders : slot[s] = slot[t] => s = t

(* What every state of the component keeps. *)
Safety == TypeOK /\ RunsItsOwn /\ CaughtIffHandled /\ NoReferenceLost

(* What makes it so: the entries lead nowhere outside of the registry, every *)
(* signal that holds a reference holds that of its function, and the call  *)
(* under way is at the place its state says, of a signal that nobody else  *)
(* has changed since it began.                                             *)
InsideOfTable ==
  /\ \A e \in DOMAIN registry : registry[e] \in Handlers \cup {ErrorValue} \cup 0 .. Len(registry)
  /\ call # NoCall => call.old \in 1 .. Len(registry) \cup {RefNil}

HoldsItsOwn ==
  ~disturbed => \A s \in Holders :
    registry[slot[s]] = IF Changing(s) /\ call.pc = "stored" THEN call.handler ELSE wanted[s]

CaughtBefore ==
  ~disturbed => \A s \in Signals :
    /\ disposition[s] = DispositionFor(wanted[s])
    /\ disposition[s] = Caught <=> (IF Changing(s) THEN call.old # RefNil ELSE slot[s] # RefNil)

CallIsInPlace ==
  ~disturbed /\ call # NoCall =>
    /\ call.pc = "begun" => call.old = slot[call.signo]
    /\ call.pc = "pushed" => call.handler \in Handlers /\ call.top = call.handler
    /\ call.pc = "stored" => (call.handler \in Handlers <=> slot[call.signo] # RefNil)

IInv ==
  /\ TypeOK /\ InsideOfTable
  /\ HoldsItsOwn /\ CaughtBefore /\ CallIsInPlace /\ NoReferenceLost

=============================================================================
