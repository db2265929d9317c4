------------------------------- MODULE MCMessages -------------------------------
(* The properties tables that AmqpCodec is checked with: headers two tables *)
(* deep, and fields that are strings, numbers at the limit of a byte, or   *)
(* nothing that a property can be.                                         *)
EXTENDS Integers, Sequences, TLC

StringFields == <<"message_id", "correlation_id">>
ByteFields == <<"priority">>
Byte == 4
IntMax == 2

Nil == [type |-> "nil"]
Function == [type |-> "function"]
Str(x) == [type |-> "string", value |-> x]
Number(n) == [type |-> "integer", value |-> n]
Table(array, hash) == [type |-> "table", array |-> array, hash |-> hash]
Entry(key, v) == [key |-> key, value |-> v]

Limits == {Number(n) : n \in {-IntMax - 2, -IntMax - 1, 0, IntMax, IntMax + 1}}
Scalars == Limits \cup {[type |-> "boolean", value |-> 0], [type |-> "float", value |-> 0], Str(9), Function}
Few == {Number(IntMax + 1), Function}
Keys == {<<"string", 1>>, <<"string", 2>>, <<"number", 2>>, <<"number", 3>>}
Arrays(values) == {<<>>} \cup {<<v>> : v \in values} \cup {<<v, w>> : v, w \in values \cup {Nil}}
Hashes(keys, values) ==
  {<<>>} \cup {<<Entry(k, v)>> : k \in keys, v \in values} \cup
  {<<Entry(k[1], v), Entry(k[2], w)>> : k \in {k \in keys \X keys : k[1] # k[2]}, v, w \in values}

Flat == {Table(a, <<>>) : a \in Arrays(Scalars)} \cup {Table(<<>>, h) : h \in Hashes(Keys, Few)}
        \cup {Table(<<Number(0)>>, h) : h \in Hashes(Keys, Few)}
Nested == {Table(<<>>, <<Entry(<<"string", 1>>, t)>>) : t \in Flat}
          \cup {Table(<<>>, <<Entry(<<"string", 1>>, Table(<<t, Nil, Str(9)>>, <<>>))>>) : t \in Flat}
Headers == Flat \cup Nested \cup {Nil, Function}

Fields == {"message_id", "correlation_id", "priority"}
FieldValues == {Nil, Str(9), Number(2), Number(Byte), Function}
Messages ==
  {[f \in Fields |-> Nil] @@ [headers |-> h] : h \in Headers} \cup
  {values @@ [headers |-> h] : values \in [Fields -> FieldValues],
                               h \in {Nil, Table(<<>>, <<Entry(<<"string", 1>>, Str(9))>>)}}

Kinds == {[kind |-> "timestamp"], [kind |-> "decimal"], [kind |-> "void"], [kind |-> "utf8", value |-> 9],
          [kind |-> "table", entries |-> <<>>]}
Foreign ==
  {[kind |-> "table", entries |-> <<[key |-> 1, value |-> [kind |-> "array", entries |-> <<a, b, c>>]],
                                  [key |-> 2, value |-> d]>>] : a, b, c, d \in Kinds}
=============================================================================
