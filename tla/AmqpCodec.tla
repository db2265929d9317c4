------------------------------- MODULE AmqpCodec -------------------------------
(***************************************************************************)
(* What becomes of a message's properties in lamqplib.c, from the Lua      *)
(* table given to basic_publish to the Lua table that drain_events returns *)
(* to the consumer.  Fields are read one after the other, and strings are  *)
(* pointed to where Lua keeps them; headers are copied, entry by entry,    *)
(* into tagged values that are allocated in the connection's pool.         *)
(*                                                                         *)
(* A Lua value is a record with a type; a table has an array part and a    *)
(* hash part, in the order in which lua_next visits it.  A key is a pair   *)
(* <<type, name>>: the number 7 and the string "7" have the same name.     *)
(***************************************************************************)
EXTENDS Integers, Sequences, FiniteSets, SequencesExt

CONSTANTS
  StringFields, \* the properties that are strings, in order
  ByteFields,   \* the properties of 8 bits
  Byte,         \* 2 ^ 8, scaled down
  IntMax,       \* INT_MAX, scaled down
  Messages,     \* the properties tables: a value for each field, and headers
  Foreign       \* headers that other publishers send, as AMQP tables

CodecAssumption == Byte \in Nat \ {0} /\ IntMax \in Nat

Fields == StringFields \o ByteFields
Nil == [type |-> "nil"]
Garbage == [type |-> "garbage"]
Str(x) == [type |-> "string", value |-> x]

VARIABLES
  pc,         \* where basic_publish is: "idle", "fields", "publish", "raises", "endless"
  given,      \* the properties table of the last call
  next,       \* the field that is read next
  properties, \* amqp_basic_properties_t
  converted,  \* the fields that point to a string made from a number
  freed,      \* the fields whose string was collected
  pool,       \* whether the tables in the connection's pool are there
  wire,       \* the message on its way to the consumer
  received    \* what the consumer's drain_events returned

callVars == <<given, next, properties, converted, freed, pool>>
vars == <<pc, callVars, wire, received>>

Unset == [f \in Range(Fields) |-> Nil] @@ [headers |-> Nil]
NoMessage == <<>>

Init ==
  /\ pc = "idle" /\ given = Unset /\ next = 1 /\ properties = Unset
  /\ converted = {} /\ freed = {} /\ pool = FALSE /\ wire = NoMessage /\ received = NoMessage

-----------------------------------------------------------------------------
(* encode_field, encode_table, encode_array: a Lua value to a tagged one.   *)

NoField == [kind |-> "void"]
Raises == [kind |-> "raises"]       \* lua_next does not know the key
Endless == [kind |-> "endless"]     \* lua_next goes in a circle, past the entries that were counted
Failed(field) == field \in {Raises, Endless}

(* A mutant of IntegerKind: INT_MIN is not an int.                         *)
IntegerKindOffByOne(n) == IF -IntMax <= n /\ n <= IntMax + 1 THEN "i32" ELSE "i64"

IntegerKind(n) == IF -IntMax - 1 <= n /\ n <= IntMax THEN "i32" ELSE "i64"

(* int32_t keeps a value that fits. *)
Narrowed(kind, n) ==
  IF kind = "i32" THEN ((n + IntMax + 1) % (2 * (IntMax + 1))) - IntMax - 1 ELSE n

RawLen(t) == IF \E i \in DOMAIN t.array : t.array[i] # Nil
             THEN CHOOSE i \in DOMAIN t.array :
                    t.array[i] # Nil /\ \A j \in i + 1 .. Len(t.array) : t.array[j] = Nil
             ELSE 0

(* What lua_next visits. *)
Visited(t) ==
  SelectSeq([i \in DOMAIN t.array |-> [key |-> <<"number", i>>, value |-> t.array[i]]],
            LAMBDA e : e.value # Nil) \o t.hash

(* lua_tolstring turns the key into a string where it is, and lua_next goes *)
(* on from the string.                                                     *)
After(visited, i) ==
  LET string == {j \in DOMAIN visited : visited[j].key = <<"string", visited[i].key[2]>>}
  IN IF string = {} THEN 0 ELSE 1 + CHOOSE j \in string : TRUE

IsArray(t) == RawLen(t) # 0

RECURSIVE EncodeField(_), EncodeFrom(_, _, _, _)

(* encode_table, from the entry that lua_next returns. *)
EncodeFrom(visited, i, entries, steps) ==
  IF i > Len(visited) THEN [kind |-> "table", entries |-> entries]
  ELSE IF steps = Len(visited) THEN Endless
  ELSE LET field == EncodeField(visited[i].value)
           new == IF field = NoField THEN entries
                  ELSE Append(entries, [key |-> visited[i].key[2], value |-> field])
       IN IF Failed(field) THEN field
          ELSE IF After(visited, i) = 0 THEN Raises
          ELSE EncodeFrom(visited, After(visited, i), new, steps + 1)

EncodeTable(t) == EncodeFrom(Visited(t), 1, <<>>, 0)

EncodeArray(t) ==
  LET fields == [i \in 1 .. RawLen(t) |-> EncodeField(t.array[i])]
  IN IF \E i \in DOMAIN fields : Failed(fields[i])
     THEN fields[CHOOSE i \in DOMAIN fields : Failed(fields[i]) /\ \A j \in 1 .. i - 1 : ~Failed(fields[j])]
     ELSE [kind |-> "array", entries |-> SelectSeq(fields, LAMBDA f : f # NoField)]

EncodeField(v) ==
  CASE v.type = "boolean" -> [kind |-> "boolean", value |-> v.value]
    [] v.type = "integer" -> LET kind == IntegerKind(v.value)
                             IN [kind |-> kind, value |-> Narrowed(kind, v.value)]
    [] v.type = "float" -> [kind |-> "f64", value |-> v.value]
    [] v.type = "string" -> [kind |-> "utf8", value |-> v.value]
    [] v.type = "table" -> IF IsArray(v) THEN EncodeArray(v) ELSE EncodeTable(v)
    [] OTHER -> NoField

-----------------------------------------------------------------------------
(* decode_field, decode_table, decode_array.                               *)

(* A timestamp, a decimal and a void are left out. *)
Decodes(field) == field.kind \notin {"timestamp", "decimal", "void"}

RECURSIVE DecodeField(_)
DecodeField(field) ==
  CASE field.kind = "boolean" -> [type |-> "boolean", value |-> field.value]
    [] field.kind \in {"i32", "i64"} -> [type |-> "integer", value |-> field.value]
    [] field.kind = "f64" -> [type |-> "float", value |-> field.value]
    [] field.kind = "utf8" -> Str(field.value)
    [] field.kind = "table" ->
         [type |-> "table", array |-> <<>>,
          hash |-> LET entries == SelectSeq(field.entries, LAMBDA e : Decodes(e.value))
                   IN [i \in DOMAIN entries |-> [key |-> <<"string", entries[i].key>>,
                                                 value |-> DecodeField(entries[i].value)]]]
    [] field.kind = "array" ->
         [type |-> "table", hash |-> <<>>,
          array |-> LET entries == SelectSeq(field.entries, Decodes)
                    IN [i \in DOMAIN entries |-> DecodeField(entries[i])]]
    [] OTHER -> Nil

(* decode_properties: headers without an entry are not there. *)
DecodeHeaders(field) == IF field = Nil \/ field.entries = <<>> THEN Nil ELSE DecodeField(field)

-----------------------------------------------------------------------------
(* channel:basic_publish(msg, exchange, routing_key, {properties = ...}).   *)

Publish(message) ==
  /\ pc = "idle" /\ wire = NoMessage
  /\ pc' = "fields" /\ given' = message /\ next' = 1
  /\ properties' = Unset /\ converted' = {} /\ freed' = {} /\ received' = NoMessage
  /\ UNCHANGED <<pool, wire>>

(* encode_header_field_s: lua_tostring makes a string of a number, and the  *)
(* collector may run; strings made before are on no stack any more.         *)
ReadString ==
  LET f == Fields[next]
      v == given[f]
  IN /\ pc = "fields" /\ next <= Len(StringFields)
     /\ properties' = [properties EXCEPT ![f] = IF v.type \in {"string", "integer"} THEN Str(v.value) ELSE Nil]
     /\ IF v.type = "integer"
        THEN converted' = converted \cup {f} /\ freed' \in {freed, converted}
        ELSE UNCHANGED <<converted, freed>>
     /\ next' = next + 1
     /\ UNCHANGED <<pc, given, pool, wire, received>>

AsByte(n) == n % Byte

(* encode_header_field_i. *)
ReadByte ==
  LET f == Fields[next]
      v == given[f]
  IN /\ pc = "fields" /\ next \in Len(StringFields) + 1 .. Len(Fields)
     /\ properties' = [properties EXCEPT ![f] =
                         IF v.type = "integer" THEN [v EXCEPT !.value = AsByte(@)] ELSE Nil]
     /\ next' = next + 1
     /\ UNCHANGED <<pc, given, converted, freed, pool, wire, received>>

(* The rest of encode_properties: encode_table, whatever the table is like. *)
EncodeHeaders ==
  LET encoded == EncodeTable(given.headers)
  IN /\ pc = "fields" /\ next > Len(Fields)
     /\ IF given.headers.type # "table" THEN pc' = "publish" /\ UNCHANGED <<properties, pool>>
        ELSE /\ pool' = TRUE
             /\ IF Failed(encoded) THEN pc' = encoded.kind /\ UNCHANGED properties
                ELSE pc' = "publish" /\ properties' = [properties EXCEPT !.headers = encoded]
     /\ UNCHANGED <<given, next, converted, freed, wire, received>>

(* What the pointers of the properties lead to. *)
AtPublish(f) ==
  IF f \in freed \/ (f = "headers" /\ properties[f] # Nil /\ ~pool) THEN Garbage ELSE properties[f]

(* amqp_basic_publish, and then empty_amqp_pool. *)
Send ==
  /\ pc = "publish"
  /\ wire' = [f \in DOMAIN Unset |-> AtPublish(f)]
  /\ pool' = FALSE /\ pc' = "idle"
  /\ UNCHANGED <<given, next, properties, converted, freed, received>>

(* The error reaches the application; a later call empties the pool. *)
Raise ==
  /\ pc = "raises"
  /\ pc' = "idle"
  /\ UNCHANGED <<callVars, wire, received>>

(* A message of another publisher. *)
OtherSends(headers) ==
  /\ pc = "idle" /\ wire = NoMessage
  /\ wire' = [Unset EXCEPT !.headers = headers]
  /\ given' = Unset /\ properties' = Unset /\ received' = NoMessage
  /\ UNCHANGED <<pc, next, converted, freed, pool>>

(* drain_events of the consumer: decode_properties. *)
Receive ==
  /\ wire # NoMessage
  /\ received' = [wire EXCEPT !.headers = DecodeHeaders(@)]
  /\ wire' = NoMessage
  /\ UNCHANGED <<pc, callVars>>

Next ==
  \/ \E message \in Messages : Publish(message)
  \/ ReadString \/ ReadByte \/ EncodeHeaders \/ Send \/ Raise \/ Receive
  \/ \E headers \in Foreign : OtherSends(headers)

Spec == Init /\ [][Next]_vars

-----------------------------------------------------------------------------
(* Properties. *)

TypeOK ==
  /\ pc \in {"idle", "fields", "publish", "raises", "endless"}
  /\ next \in 1 .. Len(Fields) + 1
  /\ DOMAIN given = DOMAIN Unset /\ DOMAIN properties = DOMAIN Unset
  /\ \A f \in Range(ByteFields) : properties[f] # Nil => properties[f].value \in 0 .. Byte - 1
  /\ freed \subseteq converted /\ converted \subseteq Range(StringFields) /\ pool \in BOOLEAN

(* The value that the application can count on: what AMQP has no type for   *)
(* is left out, a sequence closes up, and every number keeps its value.    *)
RECURSIVE Expected(_)
Expected(v) ==
  CASE v.type \in {"boolean", "integer", "float", "string"} -> v
    [] v.type = "table" /\ RawLen(v) # 0 ->
         [v EXCEPT !.hash = <<>>,
                   !.array = SelectSeq([i \in DOMAIN v.array |-> Expected(v.array[i])], LAMBDA x : x # Nil)]
    [] v.type = "table" /\ RawLen(v) = 0 ->
         [v EXCEPT !.array = <<>>,
                   !.hash = SelectSeq([i \in DOMAIN v.hash |-> [v.hash[i] EXCEPT !.value = Expected(@)]],
                                      LAMBDA e : e.value # Nil)]
    [] OTHER -> Nil

RECURSIVE Tables(_)
Tables(v) ==
  IF v.type # "table" THEN {}
  ELSE {v} \cup UNION {Tables(v.array[i]) : i \in DOMAIN v.array}
           \cup UNION {Tables(v.hash[i].value) : i \in DOMAIN v.hash}
EncodedAsTables(headers) == {t \in Tables(headers) : t = headers \/ RawLen(t) = 0}
NumberKeys(t) == {e.key[2] : e \in {e \in Range(Visited(t)) : e.key[1] = "number"}}
StringKeys(t) == {e.key[2] : e \in {e \in Range(Visited(t)) : e.key[1] = "string"}}

(* What the consumer is given is what the publisher gave, for all values    *)
(* at and across the limit of an int, nested tables and sequences with      *)
(* holes, if no number is among the keys of a table.                       *)
RoundTrip ==
  (received # NoMessage /\ given # Unset) =>
    /\ \A f \in Range(StringFields) \ freed :
         received[f] = IF given[f].type \in {"string", "integer"} THEN Str(given[f].value) ELSE Nil
    /\ (\A t \in EncodedAsTables(given.headers) : NumberKeys(t) = {}) =>
         LET headers == Expected(given.headers)
         IN received.headers = IF headers = Nil \/ headers.hash = <<>> THEN Nil ELSE headers

(* Headers are refused only for a number among the keys of a table, and     *)
(* the entries end, with no more of them than were counted, unless a number *)
(* and its string are both keys of a table.                                *)
RefusedForNumbers ==
  /\ pc = "raises" => \E t \in EncodedAsTables(given.headers) : NumberKeys(t) # {}
  /\ pc = "endless" => \E t \in EncodedAsTables(given.headers) : NumberKeys(t) \cap StringKeys(t) # {}

RECURSIVE Whole(_)
Whole(v) ==
  v.type = "table" => /\ \A i \in DOMAIN v.array : v.array[i] # Nil /\ Whole(v.array[i])
                      /\ \A i \in DOMAIN v.hash : v.hash[i].value # Nil /\ Whole(v.hash[i].value)

(* A field whose type Lua has no value for leaves no hole in a sequence.    *)
SequencesAreWhole == received # NoMessage => Whole(received.headers)

(* A string that a property points to is there when the message is sent.    *)
(* The code does not keep it: README, "Disagreements".                      *)
StringsAlive == pc = "publish" => freed = {}

(* What every state of the component keeps. *)
Safety == TypeOK /\ RoundTrip /\ RefusedForNumbers /\ SequencesAreWhole

=============================================================================
