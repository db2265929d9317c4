------------------------------ MODULE MCBindings ------------------------------
(***************************************************************************)
(* The bindings of other libraries, and what they convert, each component  *)
(* by itself: a behaviour is one of the component that part names, and the *)
(* others stay as they begin.                                              *)
(***************************************************************************)
EXTENDS BindingParts, Sequences, SequencesExt, FiniteSets, TLC

CONSTANTS a1, a2, c1, l1, o1, o2

VARIABLES
  pc, given, next, properties, converted, freed, pool, wire, received,
  done, input, output,
  optval, set, got, failed

codecVars == <<pc, given, next, properties, converted, freed, pool, wire, received>>
textVars == <<done, input, output>>
optionVars == <<optval, set, got, failed>>
vars == <<partsVars, codecVars, textVars, optionVars>>

(* Two cursors in one session, which bind one row, or one in two sessions. *)
FewCursors ==
  \/ session' = 1
  \/ Cardinality({c \in Cursors : object'[c] # "none"}) <= 1

(* Three records for two functions of C, and calls inside one another.     *)
SomeRecords == {"r1", "r2", "r3"}
SomeFunctions == {a1, a2}

(* Two channels, one of which sends two messages.                          *)
SomeMaxSent == [a |-> 2, b |-> 1]

(* Four elements, or three nodes that have texts, or attributes if they are *)
(* declarations or only two; both have the nodes that were parsed, until    *)
(* they are changed.                                                        *)
FewNodes ==
  LET With(field) == {n \in DOMAIN nodes' : nodes'[n][field] # Xml!None}
  IN \/ With("value") \cup With("attr") = {}
     \/ /\ Len(nodes') <= 3
        /\ With("value") = {} \/ With("attr") = {}
        /\ Len(nodes') = 3 => \A n \in With("attr") : nodes'[n].type = "declaration"
     \/ doc = "none" \/ nodes' = nodes

Given == INSTANCE MCMessages
Codec == INSTANCE AmqpCodec WITH
  StringFields <- Given!StringFields, ByteFields <- Given!ByteFields, Byte <- Given!Byte,
  IntMax <- Given!IntMax, Messages <- Given!Messages, Foreign <- Given!Foreign

(* Bytes and characters whose bits are all, none or every other one; the   *)
(* lengths of messages around one and two blocks, and above 2^16 bits.     *)
Text == INSTANCE TextCodecs WITH
  Bytes <- {0, 3, 85, 170, 255}, Characters <- {0, 5, 42, 63, 64}, MaxBytes <- 4,
  Lengths <- 0..130 \cup {8191, 8192}

(* One option of each type that the code converts. *)
SocketLevel == <<[level |-> 1, name |-> 1, type |-> "bool"], [level |-> 1, name |-> 2, type |-> "int"],
                 [level |-> 1, name |-> 3, type |-> "timeval"], [level |-> 6, name |-> 1, type |-> "byte"]>>
Sockopt == INSTANCE SocketOptions WITH Sockopts <- SocketLevel, Byte <- 4, Second <- 4, MaxValue <- 5

ASSUME Assumptions ==
  /\ Codec!CodecAssumption /\ Text!CodecAssumption /\ Sockopt!OptionsAssumption

Init ==
  /\ part \in {"otl", "python", "zlog", "xml", "frames", "messages", "texts", "options"}
  /\ PartsInit /\ (part = "otl" \/ autoCommit)
  /\ Codec!Init /\ Text!Init /\ Sockopt!Init

Next ==
  \/ /\ PartsNext /\ (part = "otl" => FewCursors) /\ (part = "xml" => FewNodes)
     /\ UNCHANGED <<codecVars, textVars, optionVars>>
  \/ /\ part = "messages" /\ received = <<>> /\ Codec!Next
     /\ UNCHANGED <<partsVars, textVars, optionVars>>
  \/ /\ part = "texts" /\ Text!Next
     /\ UNCHANGED <<partsVars, codecVars, optionVars>>
  \/ /\ part = "options" /\ Sockopt!Next
     /\ UNCHANGED <<partsVars, codecVars, textVars>>

Spec == Init /\ [][Next]_vars

(* Cursors, handles and the functions that a record is set to are only     *)
(* compared.                                                               *)
NameSymmetry == Permutations({a1, a2})

(* What was written is read back, up to what the types cannot hold: a      *)
(* message of lamqplib.c by its consumer, a text of base64.lua by its      *)
(* decoder, an option of lsocklib.c by getsockopt; and digest.lua pads as  *)
(* its RFC says.                                                           *)
ReadsBackWhatWasWritten ==
  /\ part = "messages" => Codec!Safety
  /\ part = "texts" => Text!Safety
  /\ part = "options" => Sockopt!Safety

(* Bound: TLC does not go on once a closure took another's reference: the   *)
(* heap of Python is not sound from there on, and only its types, which are *)
(* proved, and OwnErrors are left to check.                                *)
HeapIsSound == ~again
=============================================================================
