----------------------------- MODULE SocketOptions -----------------------------
(***************************************************************************)
(* sockobj:getsockopt and sockobj:setsockopt of lsocklib.c: the table      *)
(* sockopts says how a Lua value and the bytes of an option are turned     *)
(* into each other.                                                        *)
(***************************************************************************)
EXTENDS Integers, Sequences, FiniteSets, SequencesExt

CONSTANTS
  Sockopts,   \* the table: records with a level, a name and a type
  Byte,       \* 2 ^ 8, scaled down
  Second,     \* the microseconds of a second, scaled down
  MaxValue    \* bound: the largest value; a time is given in microseconds

OptionsAssumption ==
  /\ {Byte, Second} \subseteq Nat \ {0} /\ MaxValue \in Nat
  /\ \A i \in DOMAIN Sockopts : Sockopts[i].type \in {"byte", "bool", "int", "timeval", "linger"}

Options == {<<Sockopts[i].level, Sockopts[i].name>> : i \in DOMAIN Sockopts}
Listed(option) ==
  CHOOSE entry \in Range(Sockopts) : entry.level = option[1] /\ entry.name = option[2]

VARIABLES
  optval,   \* what the kernel keeps: whole part and fraction
  set,      \* history: the value of the last setsockopt() that returned true
  got,      \* history: what getsockopt() returned
  failed    \* history: the options whose setsockopt() was refused

vars == <<optval, set, got, failed>>
Unknown == -1

TypeOK ==
  /\ optval \in [Options -> [whole : 0..MaxValue, part : 0 .. Second - 1]]
  /\ set \in [Options -> 0..MaxValue \cup {Unknown}] /\ got \in [Options -> 0..MaxValue \cup {Unknown}]
  /\ failed \subseteq Options

Init ==
  /\ optval = [o \in Options |-> [whole |-> 0, part |-> 0]]
  /\ set = [o \in Options |-> Unknown] /\ got = [o \in Options |-> Unknown] /\ failed = {}

(* get_sockopt: the first entry of level 0 ends the table. *)
End == IF \E i \in DOMAIN Sockopts : Sockopts[i].level = 0
       THEN CHOOSE i \in DOMAIN Sockopts :
              Sockopts[i].level = 0 /\ \A j \in 1 .. i - 1 : Sockopts[j].level # 0
       ELSE Len(Sockopts) + 1
Found(option) ==
  \E i \in 1 .. End - 1 : Sockopts[i].level = option[1] /\ Sockopts[i].name = option[2]

(* The product of a fraction and a million is cut off to an integer: where   *)
(* the double is just below the microseconds meant, one of them is lost.   *)
Truncated(part) == IF part = 0 THEN {0} ELSE {part - 1, part}

(* setsockopt: the bytes that the option may have. *)
OptionValue(type, v) ==
  CASE type = "byte" -> {[whole |-> v % Byte, part |-> 0]}
    [] type = "timeval" -> {[whole |-> v \div Second, part |-> p] : p \in Truncated(v % Second)}
    [] OTHER -> {[whole |-> v, part |-> 0]}

(* getsockopt: the value of the bytes. *)
Decoded(type, value) == IF type = "timeval" THEN value.whole * Second + value.part ELSE value.whole

(* optlen: nobody sets it for a linger. *)
HasLength(type) == type # "linger"

(* What Lua can give: luaL_argcheck refuses what is no boolean. *)
Values(type) == CASE type = "bool" -> {0, 1} [] type = "byte" -> 0 .. Byte - 1 [] OTHER -> 0..MaxValue

Set(option, v) ==
  LET type == Listed(option).type IN
  /\ v \in Values(type)
  /\ IF Found(option) /\ HasLength(type)
     THEN /\ \E value \in OptionValue(type, v) : optval' = [optval EXCEPT ![option] = value]
          /\ set' = [set EXCEPT ![option] = v]
          /\ UNCHANGED failed
     ELSE failed' = failed \cup {option} /\ UNCHANGED <<optval, set>>
  /\ got' = [got EXCEPT ![option] = Unknown]

Get(option) ==
  /\ Found(option)
  /\ got' = [got EXCEPT ![option] = Decoded(Listed(option).type, optval[option])]
  /\ UNCHANGED <<optval, set, failed>>

Next == \E option \in Options : Get(option) \/ \E v \in 0..MaxValue : Set(option, v)

Spec == Init /\ [][Next]_vars

-----------------------------------------------------------------------------
(* Properties. *)

(* What getsockopt() returns is what setsockopt() set, at the limits of a   *)
(* byte too; a time with a fraction of a second may be a microsecond less.  *)
GotIsSet ==
  \A o \in Options : got[o] # Unknown /\ set[o] # Unknown =>
    got[o] \in IF Listed(o).type = "timeval" THEN {set[o], set[o] - 1} ELSE {set[o]}

(* A value of the right type is set, for every option of the table.        *)
ListedIsSet == failed = {}

(* What every state of the component keeps. *)
Safety == TypeOK /\ GotIsSet /\ ListedIsSet

=============================================================================
