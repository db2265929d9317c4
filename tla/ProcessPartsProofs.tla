-------------------------- MODULE ProcessPartsProofs ---------------------------
(* The safety properties of RunShell, SignalTable, SvSem, ShmCursor,         *)
(* PosixIpc and Listings, for every value of their constants, as the parts  *)
(* of ProcessParts.                                                         *)
EXTENDS ProcessParts, SequenceTheorems, FiniteSetTheorems, WellFoundedInduction, TLAPS

-----------------------------------------------------------------------------
(* sys.signal: the registry r of the references, its entries and its free list. *)

Values == Handlers \cup {ErrorValue}

Sane(r) ==
  /\ r.entries \in Seq(Values \cup 0..MaxRefs) /\ Len(r.entries) <= MaxRefs
  /\ r.free \in 0 .. Len(r.entries)
  /\ \A e \in 1 .. Len(r.entries) : r.entries[e] \in Values \cup 0 .. Len(r.entries)

IsChain(r, list) ==
  /\ r.free = IF list = <<>> THEN 0 ELSE list[1]
  /\ \A i \in 1 .. Len(list) : r.entries[list[i]] = IF i = Len(list) THEN 0 ELSE list[i + 1]
  /\ \A i, j \in 1 .. Len(list) : list[i] = list[j] => i = j

Elements(list) == {list[i] : i \in 1 .. Len(list)}

(* Those that are held and those on the free list are all of the entries. *)
Covers(r, held) ==
  \E list \in Seq(1 .. Len(r.entries)) :
    /\ IsChain(r, list)
    /\ held \cap Elements(list) = {} /\ held \cup Elements(list) = 1 .. Len(r.entries)

(* What the assumption on the constants says of their kinds. *)
LEMMA SignalTypes ==
  /\ MaxRefs \in Nat /\ ErrorValue \notin Handlers
  /\ Values \cap Nat = {} /\ Values \cap Signal!Dispositions = {}
  /\ Signal!RefNil \notin Nat /\ Signal!Caught \notin Signal!Dispositions
<1>1. MaxRefs \in Nat /\ ErrorValue \notin Handlers
      /\ Values \cap ({Signal!Default, Signal!Ignore} \cup Nat) = {}
  BY Assumptions DEF Signal!SignalAssumption, Values
<1> QED
  BY <1>1 DEF Signal!Dispositions, Signal!RefNil, Signal!Caught, Signal!Default, Signal!Ignore

(* luaL_unref keeps the registry well formed, and its length. *)
LEMMA UnrefSane ==
  ASSUME NEW r, Sane(r), NEW ref \in 1 .. Len(r.entries) \cup {Signal!RefNil}
  PROVE  LET u == Signal!Unref(r, ref) IN Sane(u) /\ Len(u.entries) = Len(r.entries)
<1> DEFINE longer == [r.entries EXCEPT ![ref] = r.free]
<1>1. CASE ref = Signal!RefNil
  BY <1>1 DEF Signal!Unref
<1>2. CASE ref # Signal!RefNil
  <2>1. ref \in 1 .. Len(r.entries) /\ Len(r.entries) \in Nat /\ MaxRefs \in Nat
        /\ DOMAIN r.entries = 1 .. Len(r.entries)
    BY <1>2, SignalTypes DEF Sane
  <2>2. r.free \in 0..MaxRefs
    BY <2>1 DEF Sane
  <2>3. longer \in Seq(Values \cup 0..MaxRefs) /\ Len(longer) = Len(r.entries)
    BY <2>1, <2>2 DEF Sane
  <2>4. \A e \in 1 .. Len(r.entries) : longer[e] \in Values \cup 0 .. Len(r.entries)
    BY <2>1 DEF Sane
  <2>5. Signal!Unref(r, ref) = [entries |-> longer, free |-> ref]
    BY <1>2 DEF Signal!Unref
  <2>6. ref \in 0 .. Len(r.entries)
    BY <2>1
  <2> HIDE DEF longer
  <2> QED
    BY <2>3, <2>4, <2>5, <2>6 DEF Sane
<1> QED
  BY <1>1, <1>2

(* luaL_ref keeps it well formed, and hands out an entry that has the value. *)
LEMMA RefSane ==
  ASSUME NEW r, Sane(r), NEW v \in Values, Signal!Room(r)
  PROVE  LET new == Signal!Ref(r, v) IN
         /\ Sane(new) /\ Len(new.entries) >= Len(r.entries)
         /\ Signal!NewRef(r) \in 1 .. Len(new.entries)
         /\ new.entries[Signal!NewRef(r)] = v
         /\ \A e \in 1 .. Len(r.entries) : e # Signal!NewRef(r) => new.entries[e] = r.entries[e]
<1>1. Len(r.entries) \in Nat /\ MaxRefs \in Nat /\ DOMAIN r.entries = 1 .. Len(r.entries)
      /\ r.entries \in Seq(Values \cup 0..MaxRefs) /\ v \in Values \cup 0..MaxRefs
  BY SignalTypes DEF Sane
<1>2. CASE r.free # 0
  <2> DEFINE changed == [r.entries EXCEPT ![r.free] = v]
             next == IF r.entries[r.free] \in 0..MaxRefs THEN r.entries[r.free] ELSE 0
  <2>1. r.free \in 1 .. Len(r.entries)
    BY <1>1, <1>2 DEF Sane
  <2>2. next \in 0 .. Len(r.entries)
    <3>1. r.entries[r.free] \in Values \cup 0 .. Len(r.entries)
      BY <2>1 DEF Sane
    <3>2. r.entries[r.free] \in 0..MaxRefs => r.entries[r.free] \notin Values
      BY SignalTypes
    <3> QED
      BY <1>1, <3>1, <3>2
  <2>3. changed \in Seq(Values \cup 0..MaxRefs) /\ Len(changed) = Len(r.entries)
        /\ changed[r.free] = v /\ \A e \in 1 .. Len(r.entries) : e # r.free => changed[e] = r.entries[e]
    BY <1>1, <2>1
  <2>4. Signal!Ref(r, v) = [entries |-> changed, free |-> next] /\ Signal!NewRef(r) = r.free
    BY <1>2 DEF Signal!Ref, Signal!NewRef
  <2> HIDE DEF changed, next
  <2>5. \A e \in 1 .. Len(r.entries) : changed[e] \in Values \cup 0 .. Len(r.entries)
    BY <2>3 DEF Sane
  <2> QED
    BY <1>1, <2>1, <2>2, <2>3, <2>4, <2>5 DEF Sane
<1>3. CASE r.free = 0
  <2> DEFINE longer == Append(r.entries, v)
  <2>1. longer \in Seq(Values \cup 0..MaxRefs) /\ Len(longer) = Len(r.entries) + 1
        /\ longer[Len(r.entries) + 1] = v /\ \A e \in 1 .. Len(r.entries) : longer[e] = r.entries[e]
    BY <1>1
  <2>2. Signal!Ref(r, v) = [entries |-> longer, free |-> 0] /\ Signal!NewRef(r) = Len(r.entries) + 1
    BY <1>3 DEF Signal!Ref, Signal!NewRef
  <2>3. Len(r.entries) < MaxRefs
    BY <1>3 DEF Signal!Room
  <2> HIDE DEF longer
  <2>4. \A e \in 1 .. Len(longer) : longer[e] \in Values \cup 0 .. Len(longer)
    <3> SUFFICES ASSUME NEW e \in 1 .. Len(longer)
                 PROVE  longer[e] \in Values \cup 0 .. Len(longer)
      OBVIOUS
    <3>1. CASE e = Len(r.entries) + 1
      BY <2>1, <3>1
    <3>2. CASE e \in 1 .. Len(r.entries)
      <4>1. r.entries[e] \in Values \cup 0 .. Len(r.entries)
        BY <3>2 DEF Sane
      <4> QED
        BY <1>1, <2>1, <3>2, <4>1
    <3> QED
      BY <1>1, <2>1, <3>1, <3>2
  <2> QED
    BY <1>1, <2>1, <2>2, <2>3, <2>4 DEF Sane
<1> QED
  BY <1>2, <1>3

(* An entry that is given back becomes the first of the free list. *)
LEMMA UnrefCovers ==
  ASSUME NEW r, Sane(r), NEW held, Covers(r, held), NEW ref \in held
  PROVE  LET u == Signal!Unref(r, ref) IN
         /\ Covers(u, held \ {ref})
         /\ \A e \in held : e # ref => u.entries[e] = r.entries[e]
<1>1. PICK list \in Seq(1 .. Len(r.entries)) :
        /\ IsChain(r, list)
        /\ held \cap Elements(list) = {} /\ held \cup Elements(list) = 1 .. Len(r.entries)
  BY DEF Covers
<1> DEFINE n == Len(list)
           longer == <<ref>> \o list
           entries == [r.entries EXCEPT ![ref] = r.free]
<1>2. Len(r.entries) \in Nat /\ DOMAIN r.entries = 1 .. Len(r.entries)
  BY DEF Sane
<1>3. ref \in 1 .. Len(r.entries) /\ ref # Signal!RefNil /\ ref \notin Elements(list)
  BY <1>1, <1>2, SignalTypes
<1>4. /\ n \in Nat /\ Len(longer) = n + 1 /\ longer \in Seq(1 .. Len(r.entries)) /\ longer # <<>>
      /\ longer[1] = ref /\ \A i \in 2 .. n + 1 : longer[i] = list[i - 1]
  BY <1>1, <1>3
<1>5. Signal!Unref(r, ref) = [entries |-> entries, free |-> ref]
  BY <1>3 DEF Signal!Unref
<1>6. /\ Len(entries) = Len(r.entries) /\ entries[ref] = r.free
      /\ \A e \in 1 .. Len(r.entries) : e # ref => entries[e] = r.entries[e]
  BY <1>2, <1>3, <1>5, UnrefSane
<1>7. \A i \in 1 .. n : list[i] \in 1 .. Len(r.entries) /\ list[i] # ref
  BY <1>1, <1>3 DEF Elements
<1> HIDE DEF longer, entries
<1>8. Elements(longer) = Elements(list) \cup {ref}
  <2>1. ASSUME NEW i \in 1 .. Len(longer) PROVE longer[i] \in Elements(list) \cup {ref}
    <3>1. CASE i = 1
      BY <1>4, <3>1
    <3>2. CASE i # 1
      <4>1. i \in 2 .. n + 1 /\ i - 1 \in 1 .. n
        BY <1>4, <2>1, <3>2
      <4> QED
        BY <1>4, <4>1 DEF Elements
    <3> QED
      BY <3>1, <3>2
  <2>2. ASSUME NEW x \in Elements(list) \cup {ref} PROVE \E i \in 1 .. Len(longer) : longer[i] = x
    <3>1. CASE x = ref
      <4>1. 1 \in 1 .. Len(longer)
        BY <1>4
      <4> QED
        BY <1>4, <3>1, <4>1
    <3>2. CASE x \in Elements(list)
      <4>1. PICK i \in 1 .. n : x = list[i]
        BY <3>2 DEF Elements
      <4>2. i + 1 \in 1 .. Len(longer) /\ i + 1 \in 2 .. n + 1 /\ (i + 1) - 1 = i
        BY <1>4
      <4>3. longer[i + 1] = list[i]
        BY <1>4, <4>2
      <4> QED
        BY <4>1, <4>2, <4>3
    <3> QED
      BY <2>2, <3>1, <3>2
  <2> QED
    BY <2>1, <2>2 DEF Elements
<1>9. ASSUME NEW i \in 1 .. Len(longer)
      PROVE  entries[longer[i]] = IF i = Len(longer) THEN 0 ELSE longer[i + 1]
  <2>1. CASE i = 1
    <3>1. CASE list = <<>>
      <4>1. n = 0 /\ r.free = 0
        BY <1>1, <3>1 DEF IsChain
      <4> QED
        BY <1>4, <1>6, <2>1, <4>1
    <3>2. CASE list # <<>>
      <4>1. n > 0 /\ r.free = list[1] /\ 2 \in 2 .. n + 1
        BY <1>1, <1>4, <3>2 DEF IsChain
      <4> QED
        BY <1>4, <1>6, <2>1, <4>1
    <3> QED
      BY <3>1, <3>2
  <2>2. CASE i # 1
    <3>1. i \in 2 .. n + 1 /\ i - 1 \in 1 .. n /\ longer[i] = list[i - 1]
      BY <1>4, <2>2
    <3>2. entries[longer[i]] = IF i - 1 = n THEN 0 ELSE list[i - 1 + 1]
      <4>1. entries[list[i - 1]] = r.entries[list[i - 1]]
        BY <1>6, <1>7, <3>1
      <4>2. r.entries[list[i - 1]] = IF i - 1 = n THEN 0 ELSE list[i - 1 + 1]
        BY <1>1, <3>1 DEF IsChain
      <4> QED
        BY <3>1, <4>1, <4>2
    <3>3. ASSUME i # n + 1 PROVE longer[i + 1] = list[i - 1 + 1]
      <4>1. i + 1 \in 2 .. n + 1 /\ (i + 1) - 1 = i - 1 + 1
        BY <1>4, <3>1, <3>3
      <4> QED
        BY <1>4, <4>1
    <3> QED
      BY <1>4, <3>1, <3>2, <3>3
  <2> QED
    BY <2>1, <2>2
<1>10. ASSUME NEW i \in 1 .. Len(longer), NEW j \in 1 .. Len(longer), longer[i] = longer[j]
       PROVE  i = j
  <2>1. \A k \in 1 .. Len(longer) : k = 1 \/ (k \in 2 .. n + 1 /\ k - 1 \in 1 .. n)
    BY <1>4
  <2>2. \A k \in 1 .. Len(longer) : k # 1 => longer[k] = list[k - 1] /\ longer[k] # ref
    BY <1>4, <1>7, <2>1
  <2>3. CASE i = 1 \/ j = 1
    BY <1>4, <1>10, <2>2, <2>3
  <2>4. CASE i # 1 /\ j # 1
    <3>1. i - 1 = j - 1
      BY <1>1, <1>10, <2>1, <2>2, <2>4 DEF IsChain
    <3> QED
      BY <1>4, <3>1
  <2> QED
    BY <2>3, <2>4
<1>11. IsChain([entries |-> entries, free |-> ref], longer)
  BY <1>4, <1>9, <1>10 DEF IsChain
<1>12. (held \ {ref}) \cap Elements(longer) = {}
       /\ (held \ {ref}) \cup Elements(longer) = 1 .. Len(r.entries)
  BY <1>1, <1>3, <1>8
<1>13. Covers([entries |-> entries, free |-> ref], held \ {ref})
  BY <1>4, <1>6, <1>11, <1>12 DEF Covers
<1>14. \A e \in held : e # ref => entries[e] = r.entries[e]
  BY <1>1, <1>6
<1> QED
  BY <1>5, <1>13, <1>14

(* The entry that a new reference takes is one that nobody holds. *)
LEMMA RefCovers ==
  ASSUME NEW r, Sane(r), NEW held, Covers(r, held), NEW v \in Values, Signal!Room(r)
  PROVE  LET new == Signal!Ref(r, v) IN
         /\ Signal!NewRef(r) \notin held
         /\ Covers(new, held \cup {Signal!NewRef(r)})
         /\ \A e \in held : new.entries[e] = r.entries[e]
<1>1. PICK list \in Seq(1 .. Len(r.entries)) :
        /\ IsChain(r, list)
        /\ held \cap Elements(list) = {} /\ held \cup Elements(list) = 1 .. Len(r.entries)
  BY DEF Covers
<1> DEFINE n == Len(list)
           new == Signal!Ref(r, v)
           ref == Signal!NewRef(r)
<1>2. Len(r.entries) \in Nat /\ n \in Nat /\ MaxRefs \in Nat /\ Len(r.entries) <= MaxRefs
      /\ \A i \in 1 .. n : list[i] \in 1 .. Len(r.entries)
  BY <1>1, SignalTypes DEF Sane
<1>3. /\ Len(new.entries) \in Nat /\ Len(new.entries) >= Len(r.entries) /\ ref \in 1 .. Len(new.entries)
      /\ \A e \in 1 .. Len(r.entries) : e # ref => new.entries[e] = r.entries[e]
  <2>1. Sane(new) /\ Len(new.entries) >= Len(r.entries) /\ ref \in 1 .. Len(new.entries)
      /\ \A e \in 1 .. Len(r.entries) : e # ref => new.entries[e] = r.entries[e]
    BY RefSane
  <2> QED
    BY <2>1 DEF Sane
<1>4. CASE list = <<>>
  <2>1. r.free = 0 /\ n = 0 /\ held = 1 .. Len(r.entries)
    <3>1. n = 0 /\ 1 .. n = {}
      BY <1>4
    <3>2. Elements(list) = {}
      BY <3>1 DEF Elements
    <3> QED
      BY <1>1, <1>4, <3>1, <3>2 DEF IsChain
  <2>2. /\ ref = Len(r.entries) + 1 /\ new = [entries |-> Append(r.entries, v), free |-> 0]
        /\ Len(new.entries) = Len(r.entries) + 1
    BY <2>1 DEF Signal!Ref, Signal!NewRef, Sane
  <2>3. IsChain(new, <<>>) /\ Elements(<<>>) = {} /\ <<>> \in Seq(1 .. Len(new.entries))
    BY <2>2 DEF IsChain, Elements
  <2>4. ref \notin held /\ held \cup {ref} = 1 .. Len(new.entries)
    BY <1>2, <2>1, <2>2
  <2>5. Covers(new, held \cup {ref})
    BY <2>3, <2>4 DEF Covers
  <2> HIDE DEF new, ref
  <2>6. \A e \in held : new.entries[e] = r.entries[e]
    BY <1>3, <2>1, <2>4
  <2> QED
    BY <2>4, <2>5, <2>6 DEF new, ref
<1>5. CASE list # <<>>
  <2> DEFINE shorter == Tail(list)
  <2>1. n > 0 /\ r.free = list[1] /\ list[1] \in 1 .. Len(r.entries)
    BY <1>1, <1>2, <1>5 DEF IsChain
  <2>2. ref = list[1] /\ ref \in Elements(list) /\ r.free # 0
    BY <1>2, <2>1 DEF Signal!NewRef, Elements
  <2>3. /\ Len(shorter) = n - 1 /\ shorter \in Seq(1 .. Len(r.entries))
        /\ \A i \in 1 .. n - 1 : shorter[i] = list[i + 1]
    BY <1>1, <1>2, <2>1
  <2>4. r.entries[list[1]] = (IF n = 1 THEN 0 ELSE list[2]) /\ (n # 1 => 2 \in 1 .. n)
    <3>1. 1 \in 1 .. n /\ (n # 1 => 2 \in 1 .. n)
      <4>1. \A m \in Nat : m > 0 => 1 \in 1 .. m /\ (m # 1 => 2 \in 1 .. m)
        OBVIOUS
      <4> QED
        BY <1>2, <2>1, <4>1
    <3>2. r.entries[list[1]] = IF n = 1 THEN 0 ELSE list[1 + 1]
      BY <1>1, <3>1 DEF IsChain
    <3>3. list[1 + 1] = list[2]
      OBVIOUS
    <3> QED
      BY <3>1, <3>2, <3>3, Zenon
  <2>5. new.free = IF shorter = <<>> THEN 0 ELSE shorter[1]
    <3>1. r.entries[r.free] \in 0..MaxRefs
      <4>1. n # 1 => list[2] \in 1 .. Len(r.entries)
        BY <1>2, <2>4
      <4> QED
        BY <1>2, <2>1, <2>4, <4>1
    <3>2. new.free = r.entries[r.free]
      BY <2>2, <3>1 DEF Signal!Ref
    <3>3. CASE n = 1
      <4>1. shorter = <<>>
        <5>1. \A t \in Seq(1 .. Len(r.entries)) : Len(t) = 0 => t = <<>>
          OBVIOUS
        <5>2. Len(shorter) = 0
          BY <2>3, <3>3
        <5> HIDE DEF shorter
        <5> QED
          BY <2>3, <5>1, <5>2
      <4> QED
        BY <2>1, <2>4, <3>2, <3>3, <4>1
    <3>4. CASE n # 1
      <4>1. shorter # <<>> /\ shorter[1] = list[2]
        <5>1. 1 \in 1 .. n - 1 /\ 1 + 1 = 2 /\ Len(shorter) # 0
          BY <1>2, <2>1, <2>3, <3>4
        <5>2. shorter[1] = list[1 + 1]
          BY <2>3, <5>1
        <5>3. Len(<<>>) = 0
          OBVIOUS
        <5> HIDE DEF shorter
        <5> QED
          BY <5>1, <5>2, <5>3
      <4> QED
        BY <2>1, <2>4, <3>2, <3>4, <4>1
    <3> QED
      BY <3>3, <3>4
  <2>6. Len(new.entries) = Len(r.entries)
    <3>1. new.entries = [r.entries EXCEPT ![r.free] = v]
      BY <2>2 DEF Signal!Ref
    <3> QED
      BY <2>1, <3>1, SignalTypes DEF Sane
  <2> HIDE DEF shorter, new, ref
  <2>7. \A i \in 1 .. n : i # 1 => list[i] # ref
    BY <1>1, <1>2, <2>1, <2>2 DEF IsChain
  <2>8. ASSUME NEW i \in 1 .. Len(shorter)
        PROVE  new.entries[shorter[i]] = IF i = Len(shorter) THEN 0 ELSE shorter[i + 1]
    <3>1. i + 1 \in 1 .. n /\ i + 1 # 1 /\ shorter[i] = list[i + 1] /\ i \in Nat
      BY <1>2, <2>3
    <3>2. new.entries[list[i + 1]] = r.entries[list[i + 1]]
      BY <1>2, <1>3, <2>7, <3>1
    <3>3. r.entries[list[i + 1]] = IF i + 1 = n THEN 0 ELSE list[i + 1 + 1]
      BY <1>1, <3>1 DEF IsChain
    <3>4. ASSUME i # Len(shorter) PROVE shorter[i + 1] = list[i + 1 + 1]
      <4>1. i + 1 \in 1 .. n - 1
        BY <1>2, <2>3, <3>4
      <4> QED
        BY <2>3, <4>1
    <3> QED
      BY <1>2, <2>3, <3>1, <3>2, <3>3, <3>4
  <2>9. ASSUME NEW i \in 1 .. Len(shorter), NEW j \in 1 .. Len(shorter), shorter[i] = shorter[j]
        PROVE  i = j
    <3>1. i + 1 \in 1 .. n /\ j + 1 \in 1 .. n /\ list[i + 1] = list[j + 1]
      BY <1>2, <2>3, <2>9
    <3>2. i + 1 = j + 1
      BY <1>1, <3>1 DEF IsChain
    <3> QED
      BY <1>2, <2>3, <3>2
  <2>10. IsChain(new, shorter)
    BY <2>5, <2>8, <2>9 DEF IsChain
  <2>11. Elements(shorter) = Elements(list) \ {ref}
    <3>1. ASSUME NEW i \in 1 .. Len(shorter) PROVE shorter[i] \in Elements(list) \ {ref}
      <4>1. i + 1 \in 1 .. n /\ i + 1 # 1 /\ shorter[i] = list[i + 1]
        BY <1>2, <2>3
      <4> QED
        BY <2>7, <4>1 DEF Elements
    <3>2. ASSUME NEW x \in Elements(list), x # ref PROVE \E i \in 1 .. Len(shorter) : shorter[i] = x
      <4>1. PICK i \in 1 .. n : x = list[i]
        BY <3>2 DEF Elements
      <4>2. i # 1
        BY <2>2, <3>2, <4>1
      <4>3. i - 1 \in 1 .. Len(shorter) /\ (i - 1) + 1 = i
        BY <1>2, <2>3, <4>2
      <4>4. shorter[i - 1] = list[i]
        BY <2>3, <4>3
      <4> QED
        BY <4>1, <4>3, <4>4
    <3> QED
      BY <3>1, <3>2 DEF Elements
  <2>12. ref \notin held
    BY <1>1, <2>2
  <2>13. (held \cup {ref}) \cap Elements(shorter) = {}
         /\ (held \cup {ref}) \cup Elements(shorter) = 1 .. Len(new.entries)
    BY <1>1, <2>2, <2>6, <2>11
  <2>14. Covers(new, held \cup {ref})
    BY <2>3, <2>6, <2>10, <2>13 DEF Covers
  <2>15. \A e \in held : new.entries[e] = r.entries[e]
    BY <1>1, <1>3, <2>12
  <2> QED
    BY <2>12, <2>14, <2>15 DEF new, ref
<1> QED
  BY <1>4, <1>5

-----------------------------------------------------------------------------
(* The inductive invariant: that of SignalTable, with its free list as a    *)
(* sequence.                                                               *)

Distinct == \A s, t \in Signal!Holders : slot[s] = slot[t] => s = t

SignalInv ==
  /\ Signal!TypeOK /\ Signal!InsideOfTable
  /\ Signal!HoldsItsOwn /\ Signal!CaughtBefore /\ Signal!CallIsInPlace
  /\ ~disturbed => Covers(Signal!Registry, Signal!Held) /\ Distinct

(* The inductive invariant gives the properties. *)
LEMMA SignalSafe == SignalInv => Signal!Safety
<1> SUFFICES ASSUME SignalInv
             PROVE  Signal!Safety
  OBVIOUS
<1>1. Signal!RunsItsOwn /\ Signal!CaughtIffHandled
  <2>1. Signal!RunsItsOwn
    <3> SUFFICES ASSUME NEW s \in Signals, ~disturbed, Signal!Runs(s),
                        ~(Signal!Changing(s) /\ signalCall.pc \in {"released", "pushed"})
                 PROVE  registry[slot[s]] = IF Signal!Changing(s) /\ signalCall.pc = "stored"
                                            THEN signalCall.handler ELSE wantedHandler[s]
      BY DEF Signal!RunsItsOwn
    <3>1. s \in Signal!Holders
      BY DEF Signal!Holders, Signal!Runs
    <3> QED
      BY <3>1 DEF SignalInv, Signal!HoldsItsOwn
  <2>2. Signal!CaughtIffHandled
    BY DEF SignalInv, Signal!CaughtIffHandled, Signal!CaughtBefore
  <2> QED
    BY <2>1, <2>2
<1>2. ASSUME ~disturbed
      PROVE  \E n \in 0 .. Len(registry) : \E list \in [1..n -> 1 .. Len(registry)] :
               /\ Signal!IsFreeList(list)
               /\ Signal!Held \cap Signal!Range(list) = {}
               /\ Signal!Held \cup Signal!Range(list) = 1 .. Len(registry)
  <2>1. Signal!Registry.entries = registry /\ Signal!Registry.free = free /\ Len(registry) \in Nat
    BY DEF Signal!Registry, SignalInv, Signal!TypeOK
  <2>2. PICK list \in Seq(1 .. Len(registry)) :
          /\ IsChain(Signal!Registry, list)
          /\ Signal!Held \cap Elements(list) = {} /\ Signal!Held \cup Elements(list) = 1 .. Len(registry)
    BY <1>2, <2>1 DEF SignalInv, Covers
  <2>3. Len(list) \in Nat /\ DOMAIN list = 1 .. Len(list) /\ list \in [1 .. Len(list) -> 1 .. Len(registry)]
    BY <2>2
  <2>4. \A i, j \in 1 .. Len(list) : list[i] = list[j] => i = j
    BY <2>2 DEF IsChain
  <2>5. Len(list) <= Len(registry)
    <3>1. /\ IsFiniteSet(1 .. Len(list)) /\ Cardinality(1 .. Len(list)) = Len(list)
          /\ IsFiniteSet(1 .. Len(registry)) /\ Cardinality(1 .. Len(registry)) = Len(registry)
      <4>1. \A m \in Nat : IsFiniteSet(1 .. m) /\ Cardinality(1 .. m) = m
        BY FS_Interval
      <4> QED
        BY <2>1, <2>3, <4>1
    <3>2. ASSUME Len(registry) < Len(list) PROVE FALSE
      <4>1. \E i, j \in 1 .. Len(list) : i # j /\ list[i] = list[j]
        BY <2>3, <3>1, <3>2, FS_PigeonHole
      <4> QED
        BY <2>4, <4>1
    <3> QED
      BY <2>1, <2>3, <3>2
  <2>6. Signal!IsFreeList(list)
    BY <2>1, <2>2, <2>3 DEF IsChain, Signal!IsFreeList
  <2>7. Signal!Range(list) = Elements(list)
    BY <2>3 DEF Signal!Range, Elements
  <2> QED
    BY <2>1, <2>2, <2>3, <2>5, <2>6, <2>7
<1>3. Signal!NoReferenceLost
  BY <1>2 DEF SignalInv, Distinct, Signal!NoReferenceLost
<1> QED
  BY <1>1, <1>3 DEF SignalInv, Signal!Safety

(* The first state: an empty registry, and every signal at its default. *)
LEMMA SignalInit == Signal!Init => SignalInv
<1> SUFFICES ASSUME Signal!Init
             PROVE  SignalInv
  OBVIOUS
<1>1. /\ registry = <<>> /\ free = 0 /\ signalCall = Signal!NoCall /\ disturbed = FALSE
      /\ slot = [s \in Signals |-> Signal!RefNil]
      /\ disposition = [s \in Signals |-> Signal!Default]
      /\ wantedHandler = [s \in Signals |-> Signal!Default]
  BY DEF Signal!Init
<1>2. Len(registry) = 0 /\ 1 .. Len(registry) = {} /\ DOMAIN registry = {}
  BY <1>1
<1>3. Signal!Holders = {} /\ Signal!Held = {}
  BY <1>1 DEF Signal!Holders, Signal!Held
<1>4. Signal!TypeOK /\ Signal!InsideOfTable
  <2>1. <<>> \in Seq(Handlers \cup {ErrorValue} \cup 0..MaxRefs) /\ 0 \in 0..0 /\ MaxRefs >= 0
    BY SignalTypes
  <2>2. Signal!TypeOK
    BY <1>1, <1>2, <2>1 DEF Signal!TypeOK, Signal!Dispositions
  <2>3. Signal!InsideOfTable
    BY <1>1, <1>2 DEF Signal!InsideOfTable
  <2> QED
    BY <2>2, <2>3
<1>5. Signal!HoldsItsOwn /\ Signal!CaughtBefore /\ Signal!CallIsInPlace /\ Distinct
  BY <1>1, <1>3, SignalTypes DEF Signal!HoldsItsOwn, Signal!CaughtBefore, Signal!CallIsInPlace, Distinct,
     Signal!Changing, Signal!DispositionFor, Signal!Default, Signal!Caught, Values, Signal!Dispositions
<1>6. Covers(Signal!Registry, Signal!Held)
  <2>1. Signal!Registry.entries = <<>> /\ Signal!Registry.free = 0
    BY <1>1 DEF Signal!Registry
  <2>2. Len(<<>>) = 0 /\ 1 .. 0 = {} /\ <<>> \in Seq(1 .. 0)
    OBVIOUS
  <2>3. IsChain(Signal!Registry, <<>>) /\ Elements(<<>>) = {}
    BY <2>1, <2>2 DEF IsChain, Elements
  <2> QED
    BY <1>3, <2>1, <2>2, <2>3 DEF Covers
<1> QED
  BY <1>4, <1>5, <1>6 DEF SignalInv

(* A step of another part. *)
LEMMA SignalStutter ==
  ASSUME SignalInv, UNCHANGED signalVars
  PROVE  SignalInv'
<1>1. UNCHANGED <<registry, free, slot, disposition, signalCall, wantedHandler, disturbed>>
  BY DEF signalVars
<1>2. /\ \A s : Signal!Changing(s)' = Signal!Changing(s) 
      /\ Signal!Registry' = Signal!Registry
  BY <1>1 DEF Signal!Changing, Signal!Registry
<1>3. Signal!Holders' = Signal!Holders
  BY <1>1, <1>2 DEF Signal!Holders
<1>4. Signal!Held' = Signal!Held /\ Distinct' = Distinct
  BY <1>1, <1>3 DEF Signal!Held, Distinct
<1>5. Signal!TypeOK' /\ Signal!InsideOfTable'
  BY <1>1 DEF SignalInv, Signal!TypeOK, Signal!InsideOfTable
<1>6. Signal!HoldsItsOwn' /\ Signal!CaughtBefore' /\ Signal!CallIsInPlace'
  BY <1>1, <1>2, <1>3 DEF SignalInv, Signal!HoldsItsOwn, Signal!CaughtBefore, Signal!CallIsInPlace
<1>7. Covers(Signal!Registry, Signal!Held)' = Covers(Signal!Registry, Signal!Held)
  BY <1>2, <1>4 DEF Covers
<1> QED
  BY <1>1, <1>4, <1>5, <1>6, <1>7 DEF SignalInv

-----------------------------------------------------------------------------
(* The steps. *)

(* A call of sys.signal that is under way. *)
LEMMA CallTyped ==
  ASSUME Signal!TypeOK, signalCall.pc # "none"
  PROVE  /\ signalCall \in Signal!Calls /\ signalCall # Signal!NoCall
         /\ signalCall.pc \in {"begun", "released", "pushed", "stored"} /\ signalCall.signo \in Signals
         /\ signalCall.handler \in Handlers \cup Signal!Dispositions /\ signalCall.top \in Values
         /\ signalCall.old \in Int
BY DEF Signal!TypeOK, Signal!Calls, Signal!NoCall, Values

(* It goes from one statement to the next. *)
LEMMA CallGoesOn ==
  ASSUME signalCall \in Signal!Calls, NEW p \in {"begun", "released", "pushed", "stored"},
         signalCall' = [signalCall EXCEPT !.pc = p]
  PROVE  /\ signalCall' \in Signal!Calls /\ signalCall' # Signal!NoCall
         /\ signalCall'.pc = p /\ signalCall'.signo = signalCall.signo /\ signalCall'.old = signalCall.old
         /\ signalCall'.handler = signalCall.handler /\ signalCall'.top = signalCall.top
<1>1. signalCall' \in Signal!Calls
  BY DEF Signal!Calls
<1>2. /\ signalCall'.pc = p /\ signalCall'.signo = signalCall.signo /\ signalCall'.old = signalCall.old
      /\ signalCall'.handler = signalCall.handler /\ signalCall'.top = signalCall.top
  BY DEF Signal!Calls
<1>3. signalCall' # Signal!NoCall
  BY <1>1 DEF Signal!Calls, Signal!NoCall
<1> QED
  BY <1>1, <1>2, <1>3

(* A statement or a handler changes the top of its stack. *)
LEMMA TopChanges ==
  ASSUME signalCall \in Signal!Calls, NEW p, NEW v \in Values,
         \/ signalCall' = [signalCall EXCEPT !.pc = "pushed", !.top = v] /\ p = "pushed"
         \/ signalCall' = [signalCall EXCEPT !.top = v] /\ p = signalCall.pc
  PROVE  /\ signalCall' \in Signal!Calls /\ signalCall' # Signal!NoCall
         /\ signalCall'.pc = p /\ signalCall'.signo = signalCall.signo /\ signalCall'.old = signalCall.old
         /\ signalCall'.handler = signalCall.handler /\ signalCall'.top = v
<1>1. signalCall' \in Signal!Calls
  BY DEF Signal!Calls, Values
<1>2. /\ signalCall'.pc = p /\ signalCall'.signo = signalCall.signo /\ signalCall'.old = signalCall.old
      /\ signalCall'.handler = signalCall.handler /\ signalCall'.top = v
  BY DEF Signal!Calls
<1>3. signalCall' # Signal!NoCall
  BY <1>1 DEF Signal!Calls, Signal!NoCall
<1> QED
  BY <1>1, <1>2, <1>3

(* The registry of a state is well formed. *)
LEMMA RegistryIsSane ==
  ASSUME Signal!TypeOK, Signal!InsideOfTable
  PROVE  /\ Sane(Signal!Registry) /\ Len(registry) \in Nat /\ DOMAIN registry = 1 .. Len(registry)
         /\ Signal!Registry.entries = registry /\ Signal!Registry.free = free
         /\ Signal!Becomes(Signal!Registry) <=> UNCHANGED <<registry, free>>
BY DEF Sane, Signal!TypeOK, Signal!InsideOfTable, Signal!Registry, Values, Signal!Becomes

(* What a step has to say of its variables: it is typed, and no entry leads *)
(* out of the table.                                                       *)
LEMMA StepIsTyped ==
  ASSUME Signal!TypeOK, Signal!InsideOfTable,
         NEW r, Sane(r), Len(r.entries) >= Len(registry), Signal!Becomes(r),
         slot' \in [Signals -> 1 .. Len(r.entries) \cup {Signal!RefNil}],
         disposition' \in [Signals -> Signal!Dispositions \cup {Signal!Caught}],
         wantedHandler' \in [Signals -> Handlers \cup Signal!Dispositions],
         disturbed' \in BOOLEAN,
         \/ signalCall' = Signal!NoCall
         \/ signalCall' \in Signal!Calls /\ signalCall'.old \in 1 .. Len(registry) \cup {Signal!RefNil}
  PROVE  Signal!TypeOK' /\ Signal!InsideOfTable'
<1>1. registry' = r.entries /\ free' = r.free
  BY DEF Signal!Becomes
<1>2. Len(registry) \in Nat /\ Len(r.entries) \in Nat /\ DOMAIN r.entries = 1 .. Len(r.entries)
  BY RegistryIsSane DEF Sane
<1>3. Signal!TypeOK'
  BY <1>1 DEF Signal!TypeOK, Sane, Values
<1>4. \A e \in DOMAIN registry' : registry'[e] \in Handlers \cup {ErrorValue} \cup 0 .. Len(registry')
  BY <1>1, <1>2 DEF Sane, Values
<1>5. signalCall' # Signal!NoCall => signalCall'.old \in 1 .. Len(registry') \cup {Signal!RefNil}
  BY <1>1, <1>2
<1> QED
  BY <1>3, <1>4, <1>5 DEF Signal!InsideOfTable

(* sys.signal is called. *)
LEMMA BeginsInv ==
  ASSUME SignalInv, NEW s \in Signals, NEW h \in Handlers \cup Signal!Dispositions, Signal!Begin(s, h)
  PROVE  SignalInv'
<1>1. PICK v \in Handlers :
        /\ signalCall = Signal!NoCall
        /\ signalCall' = [pc |-> "begun", signo |-> s, handler |-> h, old |-> slot[s], top |-> v]
        /\ UNCHANGED <<registry, free, slot, disposition, wantedHandler, disturbed>>
  BY DEF Signal!Begin
<1>2. /\ signalCall'.pc = "begun" /\ signalCall'.signo = s /\ signalCall'.handler = h
      /\ signalCall'.old = slot[s] /\ signalCall'.top = v /\ signalCall' # Signal!NoCall
  BY <1>1 DEF Signal!NoCall
<1>3. slot[s] \in 1 .. Len(registry) \cup {Signal!RefNil} /\ Len(registry) \in Nat
  BY DEF SignalInv, Signal!TypeOK
<1>4. signalCall' \in Signal!Calls
  BY <1>1, <1>3 DEF Signal!Calls, Signal!RefNil
<1>5. Signal!TypeOK' /\ Signal!InsideOfTable'
  <2>1. Signal!TypeOK /\ Signal!InsideOfTable
    BY DEF SignalInv
  <2>2. /\ Sane(Signal!Registry) /\ Len(Signal!Registry.entries) >= Len(registry)
        /\ Signal!Becomes(Signal!Registry) /\ Signal!Registry.entries = registry
    BY <1>1, <1>3, <2>1, RegistryIsSane
  <2> QED
    BY <1>1, <1>2, <1>3, <1>4, <2>1, <2>2, StepIsTyped DEF Signal!TypeOK
<1>9. \A t \in Signals : (~Signal!Changing(t)) /\ (Signal!Changing(t)' <=> t = s)
  BY <1>1, <1>2 DEF Signal!Changing
<1>6. Signal!Holders' = Signal!Holders /\ Signal!Registry' = Signal!Registry
  <2>1. UNCHANGED <<registry, free, slot>>
    BY <1>1
  <2> QED
    BY <1>2, <1>9, <2>1 DEF Signal!Holders, Signal!Registry
<1>7. Signal!Held' = Signal!Held /\ Distinct' = Distinct
  BY <1>1, <1>6 DEF Signal!Held, Distinct
<1>8. Covers(Signal!Registry, Signal!Held)' = Covers(Signal!Registry, Signal!Held)
  BY <1>6, <1>7 DEF Covers
<1>10. Signal!HoldsItsOwn' /\ Signal!CaughtBefore'
  BY <1>1, <1>2, <1>6, <1>9 DEF SignalInv, Signal!HoldsItsOwn, Signal!CaughtBefore, Signal!Holders
<1>11. Signal!CallIsInPlace'
  BY <1>1, <1>2 DEF Signal!CallIsInPlace
<1> QED
  BY <1>1, <1>5, <1>7, <1>8, <1>10, <1>11 DEF SignalInv

(* A registry that covers the references held becomes the next state's. *)
LEMMA BecomesCovers ==
  ASSUME NEW r, Signal!Becomes(r), Covers(r, Signal!Held')
  PROVE  Covers(Signal!Registry, Signal!Held)'
<1>1. Signal!Registry'.entries = r.entries /\ Signal!Registry'.free = r.free
  BY DEF Signal!Becomes, Signal!Registry
<1> QED
  BY <1>1 DEF Covers, IsChain

(* The reference of t is given back: the others keep theirs. *)
LEMMA GivenBack ==
  ASSUME SignalInv, ~disturbed, NEW t \in Signals, t \in Signal!Holders \/ slot[t] = Signal!RefNil
  PROVE  LET u == Signal!Released(Signal!Registry, slot[t]) IN
         /\ Sane(u) /\ Len(u.entries) = Len(registry)
         /\ Covers(u, {slot[k] : k \in Signal!Holders \ {t}})
         /\ \A k \in Signal!Holders \ {t} : u.entries[slot[k]] = registry[slot[k]]
<1> DEFINE u == Signal!Released(Signal!Registry, slot[t])
           others == {slot[k] : k \in Signal!Holders \ {t}}
<1>1. /\ Sane(Signal!Registry) /\ Signal!Registry.entries = registry
      /\ slot[t] \in 1 .. Len(registry) \cup {Signal!RefNil}
  BY RegistryIsSane DEF SignalInv, Signal!TypeOK
<1>2. Covers(Signal!Registry, Signal!Held) /\ Distinct
  BY DEF SignalInv
<1>3. u = Signal!Unref(Signal!Registry, slot[t])
  BY DEF Signal!Released
<1>4. Sane(u) /\ Len(u.entries) = Len(registry)
  BY <1>1, <1>3, UnrefSane
<1>5. CASE slot[t] = Signal!RefNil
  <2>1. u = Signal!Registry
    BY <1>3, <1>5 DEF Signal!Unref
  <2>2. t \notin Signal!Holders /\ others = Signal!Held
    BY <1>5 DEF Signal!Holders, Signal!Held
  <2> QED
    BY <1>1, <1>2, <1>4, <2>1, <2>2
<1>6. CASE slot[t] # Signal!RefNil
  <2>1. t \in Signal!Holders /\ slot[t] \in Signal!Held
    BY <1>6 DEF Signal!Held
  <2>2. others = Signal!Held \ {slot[t]}
    BY <1>2, <2>1 DEF Signal!Held, Distinct
  <2>3. /\ Covers(u, Signal!Held \ {slot[t]})
        /\ \A e \in Signal!Held : e # slot[t] => u.entries[e] = registry[e]
    BY <1>1, <1>2, <1>3, <2>1, UnrefCovers
  <2>4. \A k \in Signal!Holders \ {t} : slot[k] \in Signal!Held /\ slot[k] # slot[t]
    BY <1>2, <2>1 DEF Signal!Held, Distinct
  <2> HIDE DEF u
  <2>5. \A k \in Signal!Holders \ {t} : u.entries[slot[k]] = registry[slot[k]]
    BY <2>3, <2>4
  <2> QED
    BY <1>4, <2>2, <2>3, <2>5 DEF u
<1> QED
  BY <1>5, <1>6

(* The old reference of the signal is given back. *)
LEMMA ReleaseInv ==
  ASSUME SignalInv, Signal!Release
  PROVE  SignalInv'
<1> DEFINE u == Signal!Released(Signal!Registry, signalCall.old)
           signo == signalCall.signo
<1>1. Signal!TypeOK /\ Signal!InsideOfTable
  BY DEF SignalInv
<1>2. /\ signalCall.pc = "begun" /\ Signal!Becomes(u)
      /\ signalCall' = [signalCall EXCEPT !.pc = "released"]
      /\ UNCHANGED <<slot, disposition, wantedHandler, disturbed>>
  BY DEF Signal!Release
<1>3. /\ signalCall \in Signal!Calls /\ signalCall # Signal!NoCall /\ signo \in Signals
      /\ signalCall.top \in Values
  BY <1>1, <1>2, CallTyped
<1>4. /\ signalCall' \in Signal!Calls /\ signalCall' # Signal!NoCall /\ signalCall'.pc = "released"
      /\ signalCall'.signo = signo /\ signalCall'.old = signalCall.old
  BY <1>2, <1>3, CallGoesOn
<1>5. signalCall.old \in 1 .. Len(registry) \cup {Signal!RefNil}
  BY <1>1, <1>3 DEF Signal!InsideOfTable
<1>6. Sane(u) /\ Len(u.entries) = Len(registry) /\ Len(registry) \in Nat
  BY <1>1, <1>5, UnrefSane, RegistryIsSane DEF Signal!Released
<1> HIDE DEF u
<1>7. Signal!TypeOK' /\ Signal!InsideOfTable'
  <2>1. Len(u.entries) >= Len(registry)
    BY <1>6
  <2> QED
    BY <1>1, <1>2, <1>4, <1>5, <1>6, <2>1, StepIsTyped DEF Signal!TypeOK
<1>8. \A k \in Signals : Signal!Changing(k) <=> k = signo
  BY <1>3 DEF Signal!Changing
<1>9. \A k \in Signals : Signal!Changing(k)' <=> k = signo
  BY <1>4 DEF Signal!Changing
<1>10. Signal!Holders' = Signal!Holders \ {signo}
  BY <1>2, <1>4, <1>8, <1>9 DEF Signal!Holders
<1>11. ASSUME ~disturbed
       PROVE  /\ Covers(Signal!Registry, Signal!Held)' /\ Distinct'
              /\ Signal!HoldsItsOwn' /\ Signal!CaughtBefore'
  <2>1. signalCall.old = slot[signo]
    BY <1>2, <1>3, <1>11 DEF SignalInv, Signal!CallIsInPlace
  <2>2. signo \in Signal!Holders \/ slot[signo] = Signal!RefNil
    BY <1>2, <1>3 DEF Signal!Holders
  <2>3. /\ Covers(u, {slot[k] : k \in Signal!Holders \ {signo}})
        /\ \A k \in Signal!Holders \ {signo} : u.entries[slot[k]] = registry[slot[k]]
    BY <1>3, <1>11, <2>1, <2>2, GivenBack DEF u
  <2>4. Signal!Held' = {slot[k] : k \in Signal!Holders \ {signo}}
    BY <1>2, <1>10 DEF Signal!Held
  <2>5. Covers(Signal!Registry, Signal!Held)'
    BY <1>2, <2>3, <2>4, BecomesCovers
  <2>6. Distinct'
    BY <1>2, <1>10, <1>11 DEF SignalInv, Distinct
  <2>7. Signal!HoldsItsOwn'
    <3> SUFFICES ASSUME NEW k \in Signal!Holders \ {signo}
                 PROVE  registry'[slot[k]] = wantedHandler[k]
      BY <1>2, <1>4, <1>9, <1>10 DEF Signal!HoldsItsOwn
    <3>1. ~Signal!Changing(k) /\ registry'[slot[k]] = registry[slot[k]]
      BY <1>2, <1>8, <2>3 DEF Signal!Becomes, Signal!Holders
    <3> QED
      BY <1>11, <3>1 DEF SignalInv, Signal!HoldsItsOwn
  <2>8. Signal!CaughtBefore'
    BY <1>2, <1>4, <1>8, <1>9, <1>11 DEF SignalInv, Signal!CaughtBefore
  <2> QED
    BY <2>5, <2>6, <2>7, <2>8
<1>12. Signal!CallIsInPlace'
  BY <1>4 DEF Signal!CallIsInPlace
<1>13. disturbed => Signal!HoldsItsOwn' /\ Signal!CaughtBefore'
  BY <1>2 DEF Signal!HoldsItsOwn, Signal!CaughtBefore
<1> QED
  BY <1>2, <1>7, <1>11, <1>12, <1>13 DEF SignalInv

(* A function is left out, and the slot is cleared. *)
LEMMA ClearSlotInv ==
  ASSUME SignalInv, Signal!ClearSlot
  PROVE  SignalInv'
<1> DEFINE signo == signalCall.signo
<1>1. Signal!TypeOK /\ Signal!InsideOfTable
  BY DEF SignalInv
<1>2. /\ signalCall.pc = "released" /\ signalCall.handler \in Signal!Dispositions
      /\ slot' = [slot EXCEPT ![signo] = Signal!RefNil]
      /\ signalCall' = [signalCall EXCEPT !.pc = "stored"]
      /\ UNCHANGED <<registry, free, disposition, wantedHandler, disturbed>>
  BY DEF Signal!ClearSlot
<1>3. signalCall \in Signal!Calls /\ signalCall # Signal!NoCall /\ signo \in Signals
  BY <1>1, <1>2, CallTyped
<1>4. /\ signalCall' \in Signal!Calls /\ signalCall' # Signal!NoCall /\ signalCall'.pc = "stored"
      /\ signalCall'.signo = signo /\ signalCall'.old = signalCall.old
      /\ signalCall'.handler = signalCall.handler
  BY <1>2, <1>3, CallGoesOn
<1>5. slot'[signo] = Signal!RefNil /\ \A k \in Signals : k # signo => slot'[k] = slot[k]
  BY <1>1, <1>2, <1>3 DEF Signal!TypeOK
<1>6. Signal!TypeOK' /\ Signal!InsideOfTable'
  <2>1. /\ Sane(Signal!Registry) /\ Len(Signal!Registry.entries) >= Len(registry)
        /\ Signal!Becomes(Signal!Registry) /\ Signal!Registry.entries = registry
    BY <1>1, <1>2, RegistryIsSane
  <2>2. signalCall.old \in 1 .. Len(registry) \cup {Signal!RefNil}
    BY <1>1, <1>3 DEF Signal!InsideOfTable
  <2>3. slot' \in [Signals -> 1 .. Len(registry) \cup {Signal!RefNil}]
    BY <1>1, <1>2 DEF Signal!TypeOK
  <2> QED
    BY <1>1, <1>2, <1>4, <2>1, <2>2, <2>3, StepIsTyped DEF Signal!TypeOK
<1>7. \A k \in Signals : (Signal!Changing(k) <=> k = signo) /\ (Signal!Changing(k)' <=> k = signo)
  BY <1>3, <1>4 DEF Signal!Changing
<1>8. Signal!Holders' = Signal!Holders /\ signo \notin Signal!Holders /\ Signal!Registry' = Signal!Registry
  BY <1>2, <1>4, <1>5, <1>7 DEF Signal!Holders, Signal!Registry
<1>9. \A k \in Signal!Holders : slot'[k] = slot[k] /\ k # signo /\ k \in Signals
  BY <1>5, <1>8 DEF Signal!Holders
<1>10. Signal!Held' = Signal!Held /\ (Distinct => Distinct')
  BY <1>8, <1>9 DEF Signal!Held, Distinct
<1>11. Covers(Signal!Registry, Signal!Held)' = Covers(Signal!Registry, Signal!Held)
  BY <1>8, <1>10 DEF Covers
<1>12. Signal!HoldsItsOwn'
  BY <1>2, <1>7, <1>8, <1>9 DEF SignalInv, Signal!HoldsItsOwn
<1>13. Signal!CaughtBefore'
  BY <1>2, <1>4, <1>5, <1>7 DEF SignalInv, Signal!CaughtBefore
<1>14. Signal!CallIsInPlace'
  <2>1. signalCall.handler \notin Handlers
    BY <1>2, SignalTypes DEF Values
  <2> QED
    BY <1>4, <1>5, <2>1 DEF Signal!CallIsInPlace
<1> QED
  BY <1>2, <1>6, <1>10, <1>11, <1>12, <1>13, <1>14 DEF SignalInv

(* The new function is put on top of the stack. *)
LEMMA PushInv ==
  ASSUME SignalInv, Signal!Push
  PROVE  SignalInv'
<1> DEFINE signo == signalCall.signo
<1>1. Signal!TypeOK /\ Signal!InsideOfTable
  BY DEF SignalInv
<1>2. /\ signalCall.pc = "released" /\ signalCall.handler \in Handlers /\ signalCall.handler \in Values
      /\ signalCall' = [signalCall EXCEPT !.pc = "pushed", !.top = signalCall.handler]
      /\ UNCHANGED <<registry, free, slot, disposition, wantedHandler, disturbed>>
  BY DEF Signal!Push, Values
<1>3. signalCall \in Signal!Calls /\ signalCall # Signal!NoCall /\ signo \in Signals
  BY <1>1, <1>2, CallTyped
<1>4. /\ signalCall' \in Signal!Calls /\ signalCall' # Signal!NoCall /\ signalCall'.pc = "pushed"
      /\ signalCall'.signo = signo /\ signalCall'.old = signalCall.old
      /\ signalCall'.handler = signalCall.handler /\ signalCall'.top = signalCall.handler
  BY <1>2, <1>3, TopChanges
<1>5. Signal!TypeOK' /\ Signal!InsideOfTable'
  <2>1. /\ Sane(Signal!Registry) /\ Len(Signal!Registry.entries) >= Len(registry)
        /\ Signal!Becomes(Signal!Registry) /\ Signal!Registry.entries = registry
    BY <1>1, <1>2, RegistryIsSane
  <2>2. signalCall.old \in 1 .. Len(registry) \cup {Signal!RefNil}
    BY <1>1, <1>3 DEF Signal!InsideOfTable
  <2> QED
    BY <1>1, <1>2, <1>4, <2>1, <2>2, StepIsTyped DEF Signal!TypeOK
<1>6. \A k \in Signals : (Signal!Changing(k) <=> k = signo) /\ (Signal!Changing(k)' <=> k = signo)
  BY <1>3, <1>4 DEF Signal!Changing
<1>7. Signal!Holders' = Signal!Holders /\ signo \notin Signal!Holders /\ Signal!Registry' = Signal!Registry
  BY <1>2, <1>4, <1>6 DEF Signal!Holders, Signal!Registry
<1>8. Signal!Held' = Signal!Held /\ Distinct' = Distinct
  BY <1>2, <1>7 DEF Signal!Held, Distinct
<1>9. Covers(Signal!Registry, Signal!Held)' = Covers(Signal!Registry, Signal!Held)
  BY <1>7, <1>8 DEF Covers
<1>10. \A k \in Signal!Holders : k # signo /\ k \in Signals
  BY <1>7 DEF Signal!Holders
<1>11. Signal!HoldsItsOwn'
  BY <1>2, <1>6, <1>7, <1>10 DEF SignalInv, Signal!HoldsItsOwn
<1>12. Signal!CaughtBefore' /\ Signal!CallIsInPlace'
  BY <1>2, <1>4, <1>6 DEF SignalInv, Signal!CaughtBefore, Signal!CallIsInPlace
<1> QED
  BY <1>2, <1>5, <1>8, <1>9, <1>11, <1>12 DEF SignalInv

(* The handler of another signal leaves an error on the stack. *)
LEMMA HandlerRaisesInv ==
  ASSUME SignalInv, NEW s \in Signals, Signal!HandlerRaises(s)
  PROVE  SignalInv'
<1> DEFINE signo == signalCall.signo
<1>1. Signal!TypeOK /\ Signal!InsideOfTable
  BY DEF SignalInv
<1>2. /\ signalCall # Signal!NoCall /\ signalCall' = [signalCall EXCEPT !.top = ErrorValue]
      /\ disturbed' = (disturbed \/ signalCall.pc = "pushed")
      /\ UNCHANGED <<registry, free, slot, disposition, wantedHandler>>
  BY DEF Signal!HandlerRaises
<1>3. signalCall \in Signal!Calls /\ signo \in Signals /\ ErrorValue \in Values
  BY <1>1, <1>2 DEF Signal!TypeOK, Signal!Calls, Values
<1>4. /\ signalCall' \in Signal!Calls /\ signalCall' # Signal!NoCall /\ signalCall'.pc = signalCall.pc
      /\ signalCall'.signo = signo /\ signalCall'.old = signalCall.old
      /\ signalCall'.handler = signalCall.handler
  BY <1>2, <1>3, TopChanges
<1>5. Signal!TypeOK' /\ Signal!InsideOfTable'
  <2>1. /\ Sane(Signal!Registry) /\ Len(Signal!Registry.entries) >= Len(registry)
        /\ Signal!Becomes(Signal!Registry) /\ Signal!Registry.entries = registry
    BY <1>1, <1>2, RegistryIsSane
  <2>2. signalCall.old \in 1 .. Len(registry) \cup {Signal!RefNil}
    BY <1>1, <1>2 DEF Signal!InsideOfTable
  <2>3. disturbed' \in BOOLEAN
    BY <1>2
  <2> QED
    BY <1>1, <1>2, <1>4, <2>1, <2>2, <2>3, StepIsTyped DEF Signal!TypeOK
<1>6. \A k \in Signals : (Signal!Changing(k) <=> k = signo) /\ (Signal!Changing(k)' <=> k = signo)
  BY <1>2, <1>4 DEF Signal!Changing
<1>7. Signal!Holders' = Signal!Holders /\ Signal!Registry' = Signal!Registry
  BY <1>2, <1>4, <1>6 DEF Signal!Holders, Signal!Registry
<1>8. Signal!Held' = Signal!Held /\ Distinct' = Distinct
  BY <1>2, <1>7 DEF Signal!Held, Distinct
<1>9. Covers(Signal!Registry, Signal!Held)' = Covers(Signal!Registry, Signal!Held)
  BY <1>7, <1>8 DEF Covers
<1>10. ~disturbed' => ~disturbed /\ signalCall.pc # "pushed"
  BY <1>2
<1>11. Signal!HoldsItsOwn'
  BY <1>2, <1>4, <1>6, <1>7, <1>10 DEF SignalInv, Signal!HoldsItsOwn, Signal!Holders
<1>12. Signal!CaughtBefore' /\ Signal!CallIsInPlace'
  BY <1>2, <1>4, <1>6, <1>10 DEF SignalInv, Signal!CaughtBefore, Signal!CallIsInPlace
<1> QED
  BY <1>5, <1>8, <1>9, <1>10, <1>11, <1>12 DEF SignalInv

(* luaL_ref takes the function to an entry that nobody holds. *)
LEMMA StoreInv ==
  ASSUME SignalInv, Signal!Store
  PROVE  SignalInv'
<1> DEFINE signo == signalCall.signo
           new == Signal!Ref(Signal!Registry, signalCall.top)
           ref == Signal!NewRef(Signal!Registry)
<1>1. Signal!TypeOK /\ Signal!InsideOfTable
  BY DEF SignalInv
<1>2. /\ signalCall.pc = "pushed" /\ Signal!Room(Signal!Registry)
      /\ slot' = [slot EXCEPT ![signo] = ref] /\ Signal!Becomes(new)
      /\ signalCall' = [signalCall EXCEPT !.pc = "stored"]
      /\ UNCHANGED <<disposition, wantedHandler, disturbed>>
  BY DEF Signal!Store
<1>3. /\ signalCall \in Signal!Calls /\ signalCall # Signal!NoCall /\ signo \in Signals
      /\ signalCall.top \in Values
  BY <1>1, <1>2, CallTyped
<1>4. /\ signalCall' \in Signal!Calls /\ signalCall' # Signal!NoCall /\ signalCall'.pc = "stored"
      /\ signalCall'.signo = signo /\ signalCall'.old = signalCall.old
      /\ signalCall'.handler = signalCall.handler
  BY <1>2, <1>3, CallGoesOn
<1>5. /\ Sane(Signal!Registry) /\ Signal!Registry.entries = registry /\ Len(registry) \in Nat
      /\ Sane(new) /\ Len(new.entries) >= Len(registry) /\ Len(new.entries) \in Nat
      /\ ref \in 1 .. Len(new.entries) /\ new.entries[ref] = signalCall.top
  <2>1. Sane(Signal!Registry) /\ Signal!Registry.entries = registry /\ Len(registry) \in Nat
    BY <1>1, RegistryIsSane
  <2>2. /\ Sane(new) /\ Len(new.entries) >= Len(Signal!Registry.entries)
        /\ ref \in 1 .. Len(new.entries) /\ new.entries[ref] = signalCall.top
    BY <1>2, <1>3, <2>1, RefSane
  <2>3. Len(new.entries) \in Nat
    BY <2>2 DEF Sane
  <2> QED
    BY <2>1, <2>2, <2>3
<1>6. ASSUME ~disturbed
      PROVE  /\ ref \notin Signal!Held /\ Covers(new, Signal!Held \cup {ref})
             /\ \A e \in Signal!Held : new.entries[e] = registry[e]
  <2>1. Covers(Signal!Registry, Signal!Held)
    BY <1>6 DEF SignalInv
  <2>2. /\ ref \notin Signal!Held /\ Covers(new, Signal!Held \cup {ref})
        /\ \A e \in Signal!Held : new.entries[e] = Signal!Registry.entries[e]
    BY <1>2, <1>3, <1>5, <2>1, RefCovers, Zenon
  <2> QED
    BY <1>5, <2>2
<1> HIDE DEF new, ref
<1>7. slot'[signo] = ref /\ \A k \in Signals : k # signo => slot'[k] = slot[k]
  BY <1>1, <1>2, <1>3 DEF Signal!TypeOK
<1>8. Signal!TypeOK' /\ Signal!InsideOfTable'
  <2>1. signalCall.old \in 1 .. Len(registry) \cup {Signal!RefNil}
    BY <1>1, <1>3 DEF Signal!InsideOfTable
  <2>2. slot' \in [Signals -> 1 .. Len(new.entries) \cup {Signal!RefNil}]
    <3>1. \A k \in Signals : slot[k] \in 1 .. Len(new.entries) \cup {Signal!RefNil}
      BY <1>1, <1>5 DEF Signal!TypeOK
    <3> QED
      BY <1>1, <1>2, <1>5, <3>1 DEF Signal!TypeOK
  <2> QED
    BY <1>1, <1>2, <1>4, <1>5, <2>1, <2>2, StepIsTyped DEF Signal!TypeOK
<1>9. \A k \in Signals : (Signal!Changing(k) <=> k = signo) /\ (Signal!Changing(k)' <=> k = signo)
  BY <1>3, <1>4 DEF Signal!Changing
<1>10. ref # Signal!RefNil
  BY <1>5, SignalTypes
<1>11. Signal!Holders' = Signal!Holders \cup {signo} /\ signo \notin Signal!Holders
  BY <1>2, <1>3, <1>4, <1>7, <1>9, <1>10 DEF Signal!Holders
<1>12. \A k \in Signal!Holders : slot'[k] = slot[k] /\ slot[k] \in Signal!Held /\ k # signo /\ k \in Signals
  BY <1>7, <1>11 DEF Signal!Holders, Signal!Held
<1>13. Signal!Held' = Signal!Held \cup {ref}
  BY <1>7, <1>11, <1>12 DEF Signal!Held
<1>14. ASSUME ~disturbed
       PROVE  /\ Covers(Signal!Registry, Signal!Held)' /\ Distinct'
              /\ Signal!HoldsItsOwn' /\ Signal!CaughtBefore' /\ Signal!CallIsInPlace'
  <2>1. Covers(Signal!Registry, Signal!Held)'
    BY <1>2, <1>6, <1>13, <1>14, BecomesCovers
  <2>2. Distinct'
    BY <1>6, <1>7, <1>11, <1>12, <1>14 DEF SignalInv, Distinct
  <2>3. signalCall.handler \in Handlers /\ signalCall.top = signalCall.handler
    BY <1>2, <1>3, <1>14 DEF SignalInv, Signal!CallIsInPlace
  <2>4. registry'[ref] = signalCall.handler /\ \A e \in Signal!Held : registry'[e] = registry[e]
    BY <1>2, <1>5, <1>6, <1>14, <2>3 DEF Signal!Becomes
  <2>5. Signal!HoldsItsOwn'
    <3> SUFFICES ASSUME NEW k \in Signal!Holders'
                 PROVE  registry'[slot'[k]] = IF Signal!Changing(k)' /\ signalCall'.pc = "stored"
                                              THEN signalCall'.handler ELSE wantedHandler'[k]
      BY DEF Signal!HoldsItsOwn
    <3>1. CASE k = signo
      BY <1>3, <1>4, <1>7, <1>9, <2>4, <3>1
    <3>2. CASE k # signo
      <4>1. k \in Signal!Holders /\ k \in Signals
        BY <1>11, <1>12, <3>2
      <4>2. registry[slot[k]] = wantedHandler[k]
        BY <1>9, <1>14, <3>2, <4>1 DEF SignalInv, Signal!HoldsItsOwn
      <4> QED
        BY <1>2, <1>9, <1>12, <2>4, <3>2, <4>1, <4>2
    <3> QED
      BY <3>1, <3>2
  <2>6. Signal!CaughtBefore'
    BY <1>2, <1>4, <1>7, <1>9, <1>14 DEF SignalInv, Signal!CaughtBefore
  <2>7. Signal!CallIsInPlace'
    BY <1>4, <1>7, <1>10, <2>3 DEF Signal!CallIsInPlace
  <2> QED
    BY <2>1, <2>2, <2>5, <2>6, <2>7
<1>15. disturbed => Signal!HoldsItsOwn' /\ Signal!CaughtBefore' /\ Signal!CallIsInPlace'
  BY <1>2 DEF Signal!HoldsItsOwn, Signal!CaughtBefore, Signal!CallIsInPlace
<1> QED
  BY <1>2, <1>8, <1>14, <1>15 DEF SignalInv

(* signal() is told to catch exactly where a function is given. *)
LEMMA DispositionTyped ==
  ASSUME NEW h \in Handlers \cup Signal!Dispositions
  PROVE  /\ Signal!DispositionFor(h) \in Signal!Dispositions \cup {Signal!Caught}
         /\ Signal!DispositionFor(h) = Signal!Caught <=> h \in Handlers
BY SignalTypes DEF Signal!DispositionFor, Values

(* The system is told, or has the signal caught already. *)
LEMMA SetDispositionInv ==
  ASSUME SignalInv, Signal!SetDisposition
  PROVE  SignalInv'
<1> DEFINE signo == signalCall.signo
           h == signalCall.handler
<1>1. Signal!TypeOK /\ Signal!InsideOfTable
  BY DEF SignalInv
<1>2. /\ signalCall.pc = "stored" /\ signalCall' = Signal!NoCall
      /\ disposition' = IF Signal!CallsSystem(h, signalCall.old)
                        THEN [disposition EXCEPT ![signo] = Signal!DispositionFor(h)] ELSE disposition
      /\ wantedHandler' = [wantedHandler EXCEPT ![signo] = h]
      /\ UNCHANGED <<registry, free, slot, disturbed>>
  BY DEF Signal!SetDisposition
<1>3. /\ signalCall \in Signal!Calls /\ signalCall # Signal!NoCall /\ signo \in Signals
      /\ h \in Handlers \cup Signal!Dispositions
  BY <1>1, <1>2, CallTyped
<1> HIDE DEF signo, h
<1>4. /\ wantedHandler'[signo] = h
      /\ \A k \in Signals : k # signo => wantedHandler'[k] = wantedHandler[k] /\ disposition'[k] = disposition[k]
      /\ wantedHandler' \in [Signals -> Handlers \cup Signal!Dispositions]
      /\ disposition' \in [Signals -> Signal!Dispositions \cup {Signal!Caught}]
  BY <1>1, <1>2, <1>3, DispositionTyped DEF Signal!TypeOK
<1>5. Signal!TypeOK' /\ Signal!InsideOfTable'
  <2>1. /\ Sane(Signal!Registry) /\ Len(Signal!Registry.entries) >= Len(registry)
        /\ Signal!Becomes(Signal!Registry) /\ Signal!Registry.entries = registry
    BY <1>1, <1>2, RegistryIsSane
  <2> QED
    BY <1>1, <1>2, <1>4, <2>1, StepIsTyped DEF Signal!TypeOK
<1>6. \A k \in Signals : (Signal!Changing(k) <=> k = signo) /\ ~Signal!Changing(k)'
  BY <1>2, <1>3 DEF Signal!Changing, signo
<1>7. Signal!Holders' = Signal!Holders /\ Signal!Registry' = Signal!Registry
  BY <1>2, <1>6 DEF Signal!Holders, Signal!Registry
<1>8. Signal!Held' = Signal!Held /\ Distinct' = Distinct
  BY <1>2, <1>7 DEF Signal!Held, Distinct
<1>9. Covers(Signal!Registry, Signal!Held)' = Covers(Signal!Registry, Signal!Held)
  BY <1>7, <1>8 DEF Covers
<1>10. ASSUME ~disturbed
       PROVE  Signal!HoldsItsOwn' /\ Signal!CaughtBefore'
  <2>1. Signal!HoldsItsOwn'
    <3> SUFFICES ASSUME NEW k \in Signal!Holders
                 PROVE  registry[slot[k]] = wantedHandler'[k]
      BY <1>2, <1>6, <1>7 DEF Signal!HoldsItsOwn, Signal!Holders
    <3>1. k \in Signals
      BY DEF Signal!Holders
    <3> QED
      BY <1>2, <1>4, <1>6, <1>10, <3>1 DEF SignalInv, Signal!HoldsItsOwn, h
  <2>2. \A k \in Signals : k # signo =>
          /\ disposition[k] = Signal!DispositionFor(wantedHandler[k])
          /\ disposition[k] = Signal!Caught <=> slot[k] # Signal!RefNil
    BY <1>6, <1>10 DEF SignalInv, Signal!CaughtBefore
  <2>3. disposition[signo] = Signal!Caught <=> signalCall.old # Signal!RefNil
    BY <1>3, <1>6, <1>10 DEF SignalInv, Signal!CaughtBefore
  <2>4. h \in Handlers <=> slot[signo] # Signal!RefNil
    BY <1>2, <1>3, <1>10 DEF SignalInv, Signal!CallIsInPlace, signo, h
  <2>5. disposition'[signo] = Signal!DispositionFor(h)
    <3>1. CASE Signal!CallsSystem(h, signalCall.old)
      BY <1>1, <1>2, <1>3, <3>1 DEF Signal!TypeOK
    <3>2. CASE ~Signal!CallsSystem(h, signalCall.old)
      <4>1. h \in Handlers /\ signalCall.old # Signal!RefNil
        BY <1>3, <3>2 DEF Signal!CallsSystem
      <4> QED
        BY <1>2, <1>3, <2>3, <3>2, <4>1, DispositionTyped
    <3> QED
      BY <3>1, <3>2
  <2>6. Signal!CaughtBefore'
    BY <1>2, <1>3, <1>4, <1>6, <2>2, <2>4, <2>5, DispositionTyped DEF Signal!CaughtBefore
  <2> QED
    BY <2>1, <2>6
<1>11. disturbed => Signal!HoldsItsOwn' /\ Signal!CaughtBefore'
  BY <1>2 DEF Signal!HoldsItsOwn, Signal!CaughtBefore
<1>12. Signal!CallIsInPlace'
  BY <1>2 DEF Signal!CallIsInPlace
<1> QED
  BY <1>2, <1>5, <1>8, <1>9, <1>10, <1>11, <1>12 DEF SignalInv

(* The handler of another signal makes a whole call of sys.signal: what it  *)
(* does to the registry and to the slot of t.                              *)
LEMMA HandlerStores ==
  ASSUME SignalInv, NEW s \in Signals, NEW t \in Signals, NEW h \in Handlers \cup Signal!Dispositions,
         Signal!HandlerSets(s, t, h)
  PROVE  \E r :
           /\ Sane(r) /\ (Len(r.entries) = Len(registry) \/ Len(r.entries) > Len(registry))
           /\ Signal!Becomes(r)
           /\ slot' = [slot EXCEPT ![t] = slot'[t]] /\ slot'[t] \in 1 .. Len(r.entries) \cup {Signal!RefNil}
           /\ slot'[t] # Signal!RefNil <=> h \in Handlers
           /\ ~disturbed /\ (t \in Signal!Holders \/ slot[t] = Signal!RefNil) =>
                LET others == {slot[k] : k \in Signal!Holders \ {t}} IN
                /\ \A k \in Signal!Holders \ {t} : r.entries[slot[k]] = registry[slot[k]]
                /\ h \in Handlers => /\ r.entries[slot'[t]] = h /\ slot'[t] \notin others
                                     /\ Covers(r, others \cup {slot'[t]})
                /\ h \notin Handlers => Covers(r, others)
<1> DEFINE given == Signal!Released(Signal!Registry, slot[t])
           others == {slot[k] : k \in Signal!Holders \ {t}}
<1>1. Signal!TypeOK /\ Signal!InsideOfTable
  BY DEF SignalInv
<1>2. /\ Sane(given) /\ Len(given.entries) = Len(registry) /\ Len(registry) \in Nat
  <2>1. /\ Sane(Signal!Registry) /\ Signal!Registry.entries = registry /\ Len(registry) \in Nat
        /\ slot[t] \in 1 .. Len(registry) \cup {Signal!RefNil}
    BY <1>1, RegistryIsSane DEF Signal!TypeOK
  <2> QED
    BY <2>1, UnrefSane DEF Signal!Released
<1>3. ASSUME ~disturbed, t \in Signal!Holders \/ slot[t] = Signal!RefNil
      PROVE  /\ Covers(given, others)
             /\ \A k \in Signal!Holders \ {t} : given.entries[slot[k]] = registry[slot[k]]
  BY <1>3, GivenBack
<1>5. CASE h \in Handlers
  <2> DEFINE r == Signal!Ref(given, h)
             ref == Signal!NewRef(given)
  <2>1. Signal!Room(given) /\ Signal!Becomes(r) /\ slot' = [slot EXCEPT ![t] = ref] /\ h \in Values
    BY <1>5 DEF Signal!HandlerSets, Values
  <2>2. /\ Sane(r) /\ Len(r.entries) >= Len(given.entries)
        /\ ref \in 1 .. Len(r.entries) /\ r.entries[ref] = h
    BY <1>2, <2>1, RefSane
  <2>3. ASSUME Covers(given, others)
        PROVE  /\ ref \notin others /\ Covers(r, others \cup {ref})
               /\ \A e \in others : r.entries[e] = given.entries[e]
    BY <1>2, <2>1, <2>3, RefCovers, Zenon
  <2> HIDE DEF given, r, ref
  <2>4. Len(r.entries) \in Nat /\ slot'[t] = ref /\ slot'[t] # Signal!RefNil
    <3>1. Len(r.entries) \in Nat
      BY <2>2 DEF Sane
    <3>2. slot'[t] = ref
      BY <1>1, <2>1 DEF Signal!TypeOK
    <3> QED
      BY <2>2, <3>1, <3>2, SignalTypes
  <2>5. Len(r.entries) = Len(registry) \/ Len(r.entries) > Len(registry)
    BY <1>2, <2>2, <2>4
  <2>6. ASSUME ~disturbed, t \in Signal!Holders \/ slot[t] = Signal!RefNil
        PROVE  /\ \A k \in Signal!Holders \ {t} : r.entries[slot[k]] = registry[slot[k]]
               /\ r.entries[slot'[t]] = h /\ slot'[t] \notin others /\ Covers(r, others \cup {slot'[t]})
    BY <1>3, <2>2, <2>3, <2>4, <2>6
  <2> QED
    BY <1>5, <2>1, <2>2, <2>4, <2>5, <2>6
<1>6. CASE h \notin Handlers
  <2>1. Signal!Becomes(given) /\ slot' = [slot EXCEPT ![t] = Signal!RefNil]
    BY <1>6 DEF Signal!HandlerSets
  <2>2. slot'[t] = Signal!RefNil
    BY <1>1, <2>1 DEF Signal!TypeOK
  <2> HIDE DEF given
  <2> QED
    BY <1>2, <1>3, <1>6, <2>1, <2>2
<1> QED
  BY <1>5, <1>6

(* A handler calls sys.signal, for its own signal or another one. *)
LEMMA HandlerSetsInv ==
  ASSUME SignalInv, NEW s \in Signals, NEW t \in Signals, NEW h \in Handlers \cup Signal!Dispositions,
         Signal!HandlerSets(s, t, h)
  PROVE  SignalInv'
<1> DEFINE others == {slot[k] : k \in Signal!Holders \ {t}}
<1>1. Signal!TypeOK /\ Signal!InsideOfTable
  BY DEF SignalInv
<1>2. PICK r :
        /\ Sane(r) /\ (Len(r.entries) = Len(registry) \/ Len(r.entries) > Len(registry))
        /\ Signal!Becomes(r)
        /\ slot' = [slot EXCEPT ![t] = slot'[t]] /\ slot'[t] \in 1 .. Len(r.entries) \cup {Signal!RefNil}
        /\ slot'[t] # Signal!RefNil <=> h \in Handlers
        /\ ~disturbed /\ (t \in Signal!Holders \/ slot[t] = Signal!RefNil) =>
             /\ \A k \in Signal!Holders \ {t} : r.entries[slot[k]] = registry[slot[k]]
             /\ h \in Handlers => /\ r.entries[slot'[t]] = h /\ slot'[t] \notin others
                                  /\ Covers(r, others \cup {slot'[t]})
             /\ h \notin Handlers => Covers(r, others)
  BY HandlerStores
<1>3. /\ disposition' = IF Signal!CallsSystem(h, slot[t])
                        THEN [disposition EXCEPT ![t] = Signal!DispositionFor(h)] ELSE disposition
      /\ wantedHandler' = [wantedHandler EXCEPT ![t] = h] /\ UNCHANGED signalCall
      /\ disturbed' = (disturbed \/ (signalCall # Signal!NoCall /\ signalCall.signo = t))
  BY DEF Signal!HandlerSets
<1>4. /\ wantedHandler'[t] = h
      /\ \A k \in Signals : k # t => /\ wantedHandler'[k] = wantedHandler[k] /\ disposition'[k] = disposition[k]
                                    /\ slot'[k] = slot[k]
      /\ wantedHandler' \in [Signals -> Handlers \cup Signal!Dispositions]
      /\ disposition' \in [Signals -> Signal!Dispositions \cup {Signal!Caught}]
  BY <1>1, <1>2, <1>3, DispositionTyped DEF Signal!TypeOK
<1>5. Signal!TypeOK' /\ Signal!InsideOfTable'
  <2>1. Len(registry) \in Nat /\ Len(r.entries) \in Nat /\ Len(r.entries) >= Len(registry)
    BY <1>1, <1>2, RegistryIsSane DEF Sane
  <2>2. slot' \in [Signals -> 1 .. Len(r.entries) \cup {Signal!RefNil}]
    <3>1. \A k \in Signals : slot[k] \in 1 .. Len(r.entries) \cup {Signal!RefNil}
      BY <1>1, <2>1 DEF Signal!TypeOK
    <3> QED
      BY <1>1, <1>2, <3>1 DEF Signal!TypeOK
  <2>3. signalCall # Signal!NoCall =>
          signalCall \in Signal!Calls /\ signalCall.old \in 1 .. Len(registry) \cup {Signal!RefNil}
    BY <1>1 DEF Signal!TypeOK, Signal!InsideOfTable
  <2>4. disturbed' \in BOOLEAN
    BY <1>3
  <2> QED
    BY <1>1, <1>2, <1>3, <1>4, <2>1, <2>2, <2>3, <2>4, StepIsTyped
<1>6. \A k \in Signals : Signal!Changing(k)' <=> Signal!Changing(k)
  BY <1>3 DEF Signal!Changing
<1>7. disturbed' => Signal!HoldsItsOwn' /\ Signal!CaughtBefore' /\ Signal!CallIsInPlace'
  BY DEF Signal!HoldsItsOwn, Signal!CaughtBefore, Signal!CallIsInPlace
<1>8. ASSUME ~disturbed'
      PROVE  /\ Covers(Signal!Registry, Signal!Held)' /\ Distinct'
             /\ Signal!HoldsItsOwn' /\ Signal!CaughtBefore' /\ Signal!CallIsInPlace'
  <2>1. ~disturbed /\ ~Signal!Changing(t)
    BY <1>3, <1>8 DEF Signal!Changing
  <2>2. t \in Signal!Holders <=> slot[t] # Signal!RefNil
    BY <2>1 DEF Signal!Holders
  <2>3. /\ \A k \in Signal!Holders \ {t} : r.entries[slot[k]] = registry[slot[k]]
        /\ h \in Handlers => /\ r.entries[slot'[t]] = h /\ slot'[t] \notin others
                             /\ Covers(r, others \cup {slot'[t]})
        /\ h \notin Handlers => Covers(r, others)
    BY <1>2, <2>1, <2>2
  <2>4. Signal!Holders' = IF h \in Handlers THEN (Signal!Holders \ {t}) \cup {t} ELSE Signal!Holders \ {t}
    BY <1>2, <1>3, <1>4, <1>6, <2>1 DEF Signal!Holders
  <2>5. \A k \in Signal!Holders \ {t} : k \in Signals /\ slot'[k] = slot[k] /\ slot[k] \in others
    BY <1>4 DEF Signal!Holders
  <2>6. Signal!Held' = IF h \in Handlers THEN others \cup {slot'[t]} ELSE others
    BY <2>4, <2>5 DEF Signal!Held
  <2>7. Covers(Signal!Registry, Signal!Held)'
    BY <1>2, <2>3, <2>6, BecomesCovers
  <2>8. Distinct'
    <3>1. \A k, m \in Signal!Holders \ {t} : slot'[k] = slot'[m] => k = m
      BY <2>1, <2>5 DEF SignalInv, Distinct
    <3>2. h \in Handlers => \A k \in Signal!Holders \ {t} : slot'[k] # slot'[t]
      BY <2>3, <2>5
    <3> QED
      BY <2>4, <3>1, <3>2 DEF Distinct
  <2>9. Signal!HoldsItsOwn'
    <3> SUFFICES ASSUME NEW k \in Signal!Holders'
                 PROVE  registry'[slot'[k]] = IF Signal!Changing(k) /\ signalCall.pc = "stored"
                                              THEN signalCall.handler ELSE wantedHandler'[k]
      BY <1>3, <1>6, <2>4 DEF Signal!HoldsItsOwn, Signal!Holders
    <3>1. registry' = r.entries
      BY <1>2 DEF Signal!Becomes
    <3>2. CASE k = t
      BY <1>4, <2>1, <2>3, <2>4, <3>1, <3>2
    <3>3. CASE k # t
      <4>1. k \in Signal!Holders \ {t} /\ k \in Signals
        BY <2>4, <2>5, <3>3
      <4>2. registry[slot[k]] = IF Signal!Changing(k) /\ signalCall.pc = "stored"
                                THEN signalCall.handler ELSE wantedHandler[k]
        BY <2>1, <4>1 DEF SignalInv, Signal!HoldsItsOwn
      <4> QED
        BY <1>4, <2>3, <2>5, <3>1, <3>3, <4>1, <4>2
    <3> QED
      BY <3>2, <3>3
  <2>10. Signal!CaughtBefore'
    <3>1. \A k \in Signals :
            /\ disposition[k] = Signal!DispositionFor(wantedHandler[k])
            /\ disposition[k] = Signal!Caught <=>
                  (IF Signal!Changing(k) THEN signalCall.old # Signal!RefNil ELSE slot[k] # Signal!RefNil)
      BY <2>1 DEF SignalInv, Signal!CaughtBefore
    <3>2. disposition'[t] = Signal!DispositionFor(h)
      <4>1. CASE Signal!CallsSystem(h, slot[t])
        BY <1>1, <1>3, <4>1 DEF Signal!TypeOK
      <4>2. CASE ~Signal!CallsSystem(h, slot[t])
        <5>1. h \in Handlers /\ slot[t] # Signal!RefNil
          BY <4>2 DEF Signal!CallsSystem
        <5>2. disposition[t] = Signal!Caught
          BY <2>1, <3>1, <5>1
        <5> QED
          BY <1>3, <4>2, <5>1, <5>2, DispositionTyped
      <4> QED
        BY <4>1, <4>2
    <3>3. disposition'[t] = Signal!Caught <=> slot'[t] # Signal!RefNil
      BY <1>2, <3>2, DispositionTyped
    <3> SUFFICES ASSUME NEW k \in Signals
                 PROVE  /\ disposition'[k] = Signal!DispositionFor(wantedHandler'[k])
                        /\ disposition'[k] = Signal!Caught <=>
                              (IF Signal!Changing(k) THEN signalCall.old # Signal!RefNil
                               ELSE slot'[k] # Signal!RefNil)
      BY <1>3, <1>6 DEF Signal!CaughtBefore
    <3>4. CASE k = t
      BY <1>4, <2>1, <3>2, <3>3, <3>4
    <3>5. CASE k # t
      BY <1>4, <3>1, <3>5
    <3> QED
      BY <3>4, <3>5
  <2>11. Signal!CallIsInPlace'
    <3>1. signalCall # Signal!NoCall => signalCall.signo \in Signals /\ signalCall.signo # t
      BY <1>1, <2>1 DEF Signal!Changing, Signal!TypeOK, Signal!Calls
    <3> QED
      BY <1>3, <1>4, <2>1, <3>1 DEF SignalInv, Signal!CallIsInPlace
  <2> QED
    BY <2>7, <2>8, <2>9, <2>10, <2>11
<1> QED
  BY <1>5, <1>7, <1>8 DEF SignalInv

(* Every step keeps the inductive invariant. *)
LEMMA SignalNextInv ==
  ASSUME SignalInv, Signal!Next
  PROVE  SignalInv'
<1>1. CASE \E s \in Signals, h \in Handlers \cup Signal!Dispositions :
             Signal!Begin(s, h) \/ \E t \in Signals : Signal!HandlerSets(s, t, h)
  BY <1>1, BeginsInv, HandlerSetsInv
<1>2. CASE Signal!Release \/ Signal!ClearSlot \/ Signal!Push \/ Signal!Store \/ Signal!SetDisposition
  BY <1>2, ReleaseInv, ClearSlotInv, PushInv, StoreInv, SetDispositionInv
<1>3. CASE \E s \in Signals : Signal!HandlerRaises(s)
  BY <1>3, HandlerRaisesInv
<1> QED
  BY <1>1, <1>2, <1>3 DEF Signal!Next

-----------------------------------------------------------------------------
(* runshell. *)

(* The invariant holds as runshell begins. *)
LEMMA ShellInit == Shell!Init => Shell!IInv
<1> SUFFICES ASSUME Shell!Init PROVE Shell!IInv
  OBVIOUS
<1>1. Shell!Counts
  BY DEF Shell!Init, Shell!Counts, Shell!Total
<1>2. Shell!TypeOK
  <2>1. \A s \in Shell!Streams : writers[s] \subseteq {"shell", "left"} /\ Shell!Total(s) <= written[s]
    BY DEF Shell!Init, Shell!Total
  <2> QED
    BY <2>1 DEF Shell!Init, Shell!TypeOK
<1>3. Shell!EndsOpen /\ Shell!ItsProcess
  BY DEF Shell!Init, Shell!EndsOpen, Shell!ItsProcess, Shell!Ends
<1>4. Shell!ReportedIsReadable /\ Shell!LeftForAReason /\ Shell!EndedIsComplete /\ Shell!StoppedForAReason
  BY DEF Shell!Init, Shell!ReportedIsReadable, Shell!LeftForAReason, Shell!EndedIsComplete, Shell!StoppedForAReason
<1> QED
  BY <1>1, <1>2, <1>3, <1>4 DEF Shell!IInv

(* A step of runshell that reads nothing and lets no process end. *)
LEMMA ShellStays ==
  ASSUME Shell!IInv, UNCHANGED <<writers, written, piped, collected, closed, late, left, status>>,
         rfds' \subseteq Shell!Streams, \A s \in rfds' : piped[s] > 0 \/ Shell!AtEnd(s), open' \subseteq open
  PROVE  Shell!Counts' /\ Shell!ReportedIsReadable' /\ Shell!EndedIsComplete'
<1>1. Shell!Counts'
  BY DEF Shell!IInv, Shell!Counts, Shell!Total
<1>2. Shell!ReportedIsReadable'
  BY DEF Shell!ReportedIsReadable, Shell!AtEnd
<1>3. Shell!EndedIsComplete'
  BY DEF Shell!IInv, Shell!EndedIsComplete
<1> QED
  BY <1>1, <1>2, <1>3

(* fork gives the write ends to a process. *)
LEMMA ForkInv ==
  ASSUME Shell!IInv, Shell!Fork
  PROVE  Shell!IInv'
<1>1. /\ pc = "pipes" /\ pc' = "forked" /\ shell' = "runs" /\ writers' = [s \in Shell!Streams |-> {"shell"}]
      /\ UNCHANGED <<open, written, piped, collected, rfds, closed, late, left, termed, status>>
  BY DEF Shell!Fork, Shell!At
<1>2. Shell!TypeOK'
  BY <1>1 DEF Shell!IInv, Shell!TypeOK, Shell!Total
<1>3. Shell!Counts'
  BY <1>1 DEF Shell!IInv, Shell!Counts, Shell!Total
<1>4. Shell!EndsOpen' /\ Shell!ItsProcess' /\ Shell!ReportedIsReadable'
  BY <1>1 DEF Shell!IInv, Shell!EndsOpen, Shell!ItsProcess, Shell!ReportedIsReadable
<1>5. Shell!LeftForAReason' /\ Shell!EndedIsComplete' /\ Shell!StoppedForAReason'
  BY <1>1 DEF Shell!IInv, Shell!LeftForAReason, Shell!EndedIsComplete, Shell!StoppedForAReason, Shell!ItsProcess
<1> QED
  BY <1>2, <1>3, <1>4, <1>5 DEF Shell!IInv

(* runshell goes from one place to the next, and may close ends. *)
LEMMA ShellMoves ==
  ASSUME Shell!IInv,
         Shell!ForkFails \/ Shell!CloseWrites \/ Shell!WhileLoop \/ Shell!Select \/ Shell!SelectTimesOut
           \/ Shell!AllRead \/ Shell!Finish
  PROVE  Shell!IInv'
<1>1. UNCHANGED <<writers, written, piped, collected, closed, late, left, status, shell, termed>>
  BY DEF Shell!ForkFails, Shell!CloseWrites, Shell!WhileLoop, Shell!Select, Shell!SelectTimesOut, Shell!AllRead,
     Shell!Finish, Shell!pipeVars, Shell!shellVars
<1>2. rfds' \subseteq Shell!Streams /\ \A s \in rfds' : piped[s] > 0 \/ Shell!AtEnd(s)
  BY DEF Shell!IInv, Shell!TypeOK, Shell!ReportedIsReadable, Shell!ForkFails, Shell!CloseWrites, Shell!WhileLoop,
     Shell!Select, Shell!SelectTimesOut, Shell!AllRead, Shell!Finish, Shell!Readable
<1>3. open' \subseteq open /\ Shell!EndsOpen'
  BY DEF Shell!IInv, Shell!TypeOK, Shell!EndsOpen, Shell!ForkFails, Shell!CloseWrites, Shell!WhileLoop, Shell!Select,
     Shell!SelectTimesOut, Shell!AllRead, Shell!Finish, Shell!At, Shell!Kept, Shell!Ends
<1>4. Shell!Counts' /\ Shell!ReportedIsReadable' /\ Shell!EndedIsComplete'
  BY <1>1, <1>2, <1>3, ShellStays
<1>5. pc' \in {"raised", "loop", "select", "finish", "read", "poll"}
  BY DEF Shell!ForkFails, Shell!CloseWrites, Shell!WhileLoop, Shell!Select, Shell!SelectTimesOut, Shell!AllRead,
     Shell!Finish, Shell!At
<1>6. Shell!TypeOK'
  BY <1>1, <1>2, <1>3, <1>5 DEF Shell!IInv, Shell!TypeOK, Shell!Total
<1>7. Shell!ItsProcess'
  BY <1>1 DEF Shell!IInv, Shell!ItsProcess, Shell!ForkFails, Shell!CloseWrites, Shell!WhileLoop, Shell!Select,
     Shell!SelectTimesOut, Shell!AllRead, Shell!Finish, Shell!At
<1>8. Shell!LeftForAReason'
  BY <1>1 DEF Shell!IInv, Shell!LeftForAReason, Shell!ForkFails, Shell!CloseWrites, Shell!WhileLoop, Shell!Select,
     Shell!SelectTimesOut, Shell!AllRead, Shell!Finish, Shell!At, Shell!Continues
<1>9. Shell!StoppedForAReason'
  BY <1>1 DEF Shell!IInv, Shell!StoppedForAReason
<1> QED
  BY <1>3, <1>4, <1>6, <1>7, <1>8, <1>9 DEF Shell!IInv

(* What is read leaves the pipe; nothing is read only at the end. *)
LEMMA ReadStreamInv ==
  ASSUME Shell!IInv, NEW s \in Shell!Streams, NEW n \in 0..Capacity, Shell!ReadStream(s, n)
  PROVE  Shell!IInv'
<1>1. /\ pc = "read" /\ s \in rfds /\ n <= piped[s] /\ (n = 0 <=> piped[s] = 0)
      /\ piped' = [piped EXCEPT ![s] = @ - n] /\ collected' = [collected EXCEPT ![s] = @ + n]
      /\ closed' = (closed \/ n = 0) /\ rfds' = rfds \ {s}
      /\ UNCHANGED <<pc, open, writers, written, shell, left, status, late, termed>>
  BY DEF Shell!ReadStream, Shell!EndOf, Shell!shellVars
<1>2. /\ piped \in [Shell!Streams -> Nat] /\ collected \in [Shell!Streams -> Nat] /\ n \in Nat
      /\ \A t \in Shell!Streams : Shell!Total(t) = written[t]
  BY Assumptions DEF Shell!IInv, Shell!Counts, Shell!RunShellAssumption
<1>3. /\ piped' \in [Shell!Streams -> Nat] /\ collected' \in [Shell!Streams -> Nat]
      /\ \A t \in Shell!Streams : Shell!Total(t)' = written[t]
  BY <1>1, <1>2 DEF Shell!Total
<1>4. Shell!TypeOK' /\ Shell!Counts'
  <2>1. Shell!Counts'
    BY <1>1, <1>3 DEF Shell!IInv, Shell!Counts
  <2>2. closed' \in BOOLEAN
    BY <1>1 DEF Shell!IInv, Shell!TypeOK
  <2>3. \A t \in Shell!Streams : Shell!Total(t)' <= written'[t]
    BY <1>1, <1>2, <1>3 DEF Shell!Total
  <2> QED
    BY <1>1, <2>1, <2>2, <2>3 DEF Shell!IInv, Shell!TypeOK
<1>5. Shell!ReportedIsReadable'
  BY <1>1, <1>2 DEF Shell!IInv, Shell!TypeOK, Shell!ReportedIsReadable, Shell!AtEnd
<1>6. Shell!EndedIsComplete'
  <2>1. CASE closed
    <3>1. PICK t \in Shell!Streams : writers[t] = {} /\ collected[t] = written[t]
      BY <2>1 DEF Shell!IInv, Shell!EndedIsComplete
    <3>2. collected'[t] = written[t]
      BY <1>1, <1>2, <1>3, <3>1, SMTT(40) DEF Shell!Total
    <3> QED
      BY <1>1, <3>1, <3>2 DEF Shell!EndedIsComplete
  <2>2. CASE n = 0
    <3>1. writers[s] = {} /\ piped[s] = 0
      <4>1. piped[s] = 0
        BY <1>1, <2>2
      <4>2. piped[s] > 0 \/ Shell!AtEnd(s)
        BY <1>1 DEF Shell!IInv, Shell!ReportedIsReadable
      <4> QED
        BY <4>1, <4>2 DEF Shell!AtEnd
    <3>2. collected'[s] = written[s]
      BY <1>1, <1>2, <2>2, <3>1 DEF Shell!Total
    <3> QED
      BY <1>1, <3>1, <3>2 DEF Shell!EndedIsComplete
  <2> QED
    BY <1>1, <2>1, <2>2 DEF Shell!EndedIsComplete
<1>7. Shell!EndsOpen' /\ Shell!ItsProcess' /\ Shell!LeftForAReason' /\ Shell!StoppedForAReason'
  BY <1>1 DEF Shell!IInv, Shell!EndsOpen, Shell!ItsProcess, Shell!LeftForAReason, Shell!StoppedForAReason
<1> QED
  BY <1>4, <1>5, <1>6, <1>7 DEF Shell!IInv

(* waitpid and kill, which come only when the loop was left for a reason. *)
LEMMA ReapsInv ==
  ASSUME Shell!IInv, Shell!Poll \/ Shell!Kill \/ Shell!Wait
  PROVE  Shell!IInv'
<1>1. UNCHANGED <<writers, written, piped, collected, closed, late, left, status, open, rfds>>
  BY DEF Shell!Poll, Shell!Kill, Shell!Wait, Shell!pipeVars, Shell!shellVars
<1>2. /\ pc \in {"poll", "kill", "wait"} /\ pc' \in {"kill", "wait", "done"}
      /\ pc' = "done" <=> shell' = "reaped"
      /\ shell' # shell => shell = "zombie" /\ shell' = "reaped"
      /\ termed' \in BOOLEAN
  BY DEF Shell!IInv, Shell!TypeOK, Shell!ItsProcess, Shell!Poll, Shell!Kill, Shell!Wait, Shell!At, Shell!AfterPoll,
     Shell!Polled, Shell!shellVars
<1>3. Shell!Counts' /\ Shell!ReportedIsReadable' /\ Shell!EndedIsComplete'
  BY <1>1, ShellStays DEF Shell!IInv, Shell!TypeOK, Shell!ReportedIsReadable
<1>4. Shell!TypeOK'
  BY <1>1, <1>2 DEF Shell!IInv, Shell!TypeOK, Shell!Total, Shell!ItsProcess
<1>5. Shell!EndsOpen' /\ Shell!ItsProcess' /\ Shell!LeftForAReason' /\ Shell!StoppedForAReason'
  BY <1>1, <1>2 DEF Shell!IInv, Shell!EndsOpen, Shell!ItsProcess, Shell!LeftForAReason, Shell!StoppedForAReason
<1> QED
  BY <1>3, <1>4, <1>5 DEF Shell!IInv

-----------------------------------------------------------------------------
(* The command. *)

(* A process writes to a pipe that runshell has open, or ends. *)
LEMMA WriteInv ==
  ASSUME Shell!IInv, NEW p \in {"shell", "left"}, NEW s \in Shell!Streams,
         Shell!Write(p, s), <<s, "read">> \in open
  PROVE  Shell!IInv'
<1>1. /\ p \in writers[s]
      /\ written' = [written EXCEPT ![s] = @ + 1] /\ piped' = [piped EXCEPT ![s] = @ + 1]
      /\ UNCHANGED <<writers, shell, left, status, pc, open, collected, rfds, closed, termed, late>>
  BY DEF Shell!Write, Shell!shellVars, Shell!parentVars
<1>2. /\ written \in [Shell!Streams -> Nat] /\ piped \in [Shell!Streams -> Nat]
      /\ collected \in [Shell!Streams -> Nat] /\ \A t \in Shell!Streams : Shell!Total(t) = written[t]
  BY DEF Shell!IInv, Shell!Counts
<1>3. /\ written' \in [Shell!Streams -> Nat] /\ piped' \in [Shell!Streams -> Nat]
      /\ \A t \in Shell!Streams : Shell!Total(t)' = written'[t] /\ Shell!Total(t)' <= written'[t]
  BY <1>1, <1>2 DEF Shell!Total
<1>4. Shell!Counts' /\ Shell!TypeOK'
  BY <1>1, <1>3 DEF Shell!IInv, Shell!Counts, Shell!TypeOK
<1>5. Shell!ReportedIsReadable'
  <2> SUFFICES ASSUME NEW t \in rfds PROVE piped'[t] > 0 \/ Shell!AtEnd(t)'
    BY <1>1 DEF Shell!ReportedIsReadable
  <2>1. t \in Shell!Streams /\ piped[t] \in Nat /\ (piped[t] > 0 \/ Shell!AtEnd(t))
    BY <1>2 DEF Shell!IInv, Shell!TypeOK, Shell!ReportedIsReadable
  <2>2. CASE t = s
    BY <1>1, <1>2, <2>1, <2>2
  <2>3. CASE t # s
    BY <1>1, <1>2, <2>1, <2>3 DEF Shell!AtEnd
  <2> QED
    BY <2>2, <2>3
<1>6. Shell!EndedIsComplete'
  BY <1>1, <1>2 DEF Shell!IInv, Shell!EndedIsComplete
<1>7. Shell!EndsOpen' /\ Shell!ItsProcess' /\ Shell!LeftForAReason' /\ Shell!StoppedForAReason'
  BY <1>1 DEF Shell!IInv, Shell!EndsOpen, Shell!ItsProcess, Shell!LeftForAReason, Shell!StoppedForAReason
<1> QED
  BY <1>4, <1>5, <1>6, <1>7 DEF Shell!IInv

(* A step that only takes processes from those that can write. *)
LEMMA WritersLeave ==
  ASSUME Shell!IInv, UNCHANGED <<written, piped, pc, open, collected, rfds, closed, termed, late>>,
         writers' \in [Shell!Streams -> SUBSET {"shell", "left"}],
         \A s \in Shell!Streams : writers[s] = {} => writers'[s] = {}
  PROVE  /\ Shell!Counts' /\ Shell!EndsOpen' /\ Shell!ReportedIsReadable' /\ Shell!LeftForAReason'
         /\ Shell!EndedIsComplete'
<1>1. Shell!Counts' /\ Shell!EndsOpen'
  BY DEF Shell!IInv, Shell!Counts, Shell!EndsOpen, Shell!Total
<1>2. Shell!ReportedIsReadable'
  BY DEF Shell!IInv, Shell!TypeOK, Shell!ReportedIsReadable, Shell!AtEnd
<1>3. Shell!LeftForAReason' /\ Shell!EndedIsComplete'
  BY DEF Shell!IInv, Shell!LeftForAReason, Shell!EndedIsComplete
<1> QED
  BY <1>1, <1>2, <1>3

(* A process ends: by itself, by SIGTERM once it was sent, or at a write to *)
(* a pipe that runshell has closed.                                         *)
LEMMA OverInv ==
  ASSUME Shell!IInv, NEW p \in {"shell", "left"}, NEW how \in {"exited", "term", "pipe"},
         Shell!Alive(p), Shell!Over(p, how), UNCHANGED <<Shell!parentVars, late>>,
         how = "term" => termed, how = "pipe" => \E s \in Shell!Streams : <<s, "read">> \notin open
  PROVE  Shell!IInv'
<1>1. /\ writers' = [s \in Shell!Streams |-> writers[s] \ {p}]
      /\ p = "shell" => shell = "runs" /\ shell' = "zombie" /\ status' = how /\ left' = left
      /\ p = "left" => left /\ left' = FALSE /\ UNCHANGED <<shell, status>>
      /\ UNCHANGED <<written, piped, pc, open, collected, rfds, closed, termed, late>>
  BY DEF Shell!Alive, Shell!Over, Shell!parentVars
<1>2. /\ writers' \in [Shell!Streams -> SUBSET {"shell", "left"}]
      /\ \A s \in Shell!Streams : writers[s] = {} => writers'[s] = {}
  BY <1>1 DEF Shell!IInv, Shell!Counts
<1>3. /\ Shell!Counts' /\ Shell!EndsOpen' /\ Shell!ReportedIsReadable' /\ Shell!LeftForAReason'
      /\ Shell!EndedIsComplete'
  BY <1>1, <1>2, WritersLeave
<1>4. Shell!TypeOK'
  BY <1>1, <1>2 DEF Shell!IInv, Shell!TypeOK, Shell!Total
<1>5. Shell!ItsProcess'
  BY <1>1 DEF Shell!IInv, Shell!ItsProcess
<1>6. Shell!StoppedForAReason'
  <2>1. CASE p = "left" \/ how = "exited" \/ how = "term"
    BY <1>1, <2>1 DEF Shell!IInv, Shell!StoppedForAReason
  <2>2. CASE how = "pipe" /\ p = "shell"
    <3>1. pc \in {"poll", "kill", "wait", "done"}
      <4>1. PICK s \in Shell!Streams : <<s, "read">> \notin open
        BY <2>2
      <4>2. ~(Shell!Streams \X {"read"} \subseteq open)
        BY <4>1
      <4>3. pc # "raised"
        BY <1>1, <2>2 DEF Shell!IInv, Shell!ItsProcess
      <4> QED
        BY <4>2, <4>3 DEF Shell!IInv, Shell!TypeOK, Shell!EndsOpen
    <3> QED
      BY <1>1, <3>1 DEF Shell!IInv, Shell!LeftForAReason, Shell!StoppedForAReason
  <2> QED
    BY <2>1, <2>2
<1> QED
  BY <1>3, <1>4, <1>5, <1>6 DEF Shell!IInv

(* A process closes its end, or leaves another behind that has its ends. *)
LEMMA WritersChangeInv ==
  ASSUME Shell!IInv,
         Shell!LeaveBehind \/ \E p \in {"shell", "left"}, s \in Shell!Streams : Shell!CloseStream(p, s)
  PROVE  Shell!IInv'
<1>1. /\ writers' \in [Shell!Streams -> SUBSET {"shell", "left"}]
      /\ \A s \in Shell!Streams : writers[s] = {} => writers'[s] = {}
      /\ left' \in BOOLEAN /\ (left' # left => shell = "runs")
      /\ UNCHANGED <<shell, status, written, piped, pc, open, collected, rfds, closed, termed, late>>
  <2>1. writers \in [Shell!Streams -> SUBSET {"shell", "left"}] /\ left \in BOOLEAN
    BY DEF Shell!IInv, Shell!TypeOK, Shell!Counts
  <2>2. CASE Shell!LeaveBehind
    <3>1. /\ shell = "runs" /\ left' = TRUE
          /\ writers' = [s \in Shell!Streams |->
                          IF "shell" \in writers[s] THEN writers[s] \cup {"left"} ELSE writers[s]]
          /\ UNCHANGED <<shell, status, written, piped, pc, open, collected, rfds, closed, termed, late>>
      BY <2>2 DEF Shell!LeaveBehind, Shell!Alive, Shell!parentVars
    <3> QED
      BY <2>1, <3>1
  <2>3. CASE \E p \in {"shell", "left"}, s \in Shell!Streams : Shell!CloseStream(p, s)
    <3>1. PICK p \in {"shell", "left"}, s \in Shell!Streams : Shell!CloseStream(p, s)
      BY <2>3
    <3>2. /\ writers' = [writers EXCEPT ![s] = @ \ {p}] /\ left' = left
          /\ UNCHANGED <<shell, status, written, piped, pc, open, collected, rfds, closed, termed, late>>
      BY <3>1 DEF Shell!CloseStream, Shell!parentVars, Shell!shellVars
    <3> QED
      BY <2>1, <3>2
  <2> QED
    BY <2>2, <2>3
<1>2. /\ Shell!Counts' /\ Shell!EndsOpen' /\ Shell!ReportedIsReadable' /\ Shell!LeftForAReason'
      /\ Shell!EndedIsComplete'
  BY <1>1, WritersLeave
<1>3. Shell!TypeOK'
  BY <1>1 DEF Shell!IInv, Shell!TypeOK, Shell!Total
<1>4. Shell!ItsProcess' /\ Shell!StoppedForAReason'
  BY <1>1 DEF Shell!IInv, Shell!ItsProcess, Shell!StoppedForAReason
<1> QED
  BY <1>2, <1>3, <1>4 DEF Shell!IInv

(* Time passes. *)
LEMMA TimePassesInv ==
  ASSUME Shell!IInv, Shell!TimePasses
  PROVE  Shell!IInv'
<1>1. /\ late' = TRUE
      /\ UNCHANGED <<writers, written, piped, shell, left, status, pc, open, collected, rfds, closed, termed>>
  BY DEF Shell!TimePasses, Shell!pipeVars, Shell!shellVars, Shell!parentVars
<1>2. Shell!Counts' /\ Shell!EndsOpen' /\ Shell!ReportedIsReadable'
  BY <1>1 DEF Shell!IInv, Shell!Counts, Shell!EndsOpen, Shell!ReportedIsReadable, Shell!AtEnd, Shell!Total
<1>3. Shell!TypeOK' /\ Shell!ItsProcess'
  BY <1>1 DEF Shell!IInv, Shell!TypeOK, Shell!ItsProcess, Shell!Total
<1>4. Shell!LeftForAReason' /\ Shell!EndedIsComplete' /\ Shell!StoppedForAReason'
  BY <1>1 DEF Shell!IInv, Shell!LeftForAReason, Shell!EndedIsComplete, Shell!StoppedForAReason
<1> QED
  BY <1>2, <1>3, <1>4 DEF Shell!IInv

(* Every step keeps the invariant. *)
LEMMA ShellNextInv ==
  ASSUME Shell!IInv, Shell!Next
  PROVE  Shell!IInv'
<1>1. ASSUME Shell!RunShell PROVE Shell!IInv'
  BY <1>1, ForkInv, ShellMoves, ReadStreamInv, ReapsInv DEF Shell!RunShell
<1>2. ASSUME NEW p \in {"shell", "left"}, Shell!Exit(p) PROVE Shell!IInv'
  BY <1>2, OverInv DEF Shell!Exit
<1>3. ASSUME NEW p \in {"shell", "left"}, NEW s \in Shell!Streams, Shell!Write(p, s) PROVE Shell!IInv'
  BY <1>3, WriteInv, OverInv DEF Shell!Write
<1>4. ASSUME Shell!Terminated PROVE Shell!IInv'
  BY <1>4, OverInv DEF Shell!Terminated
<1> QED
  BY <1>1, <1>2, <1>3, <1>4, ShellMoves, WritersChangeInv, TimePassesInv DEF Shell!Next, Shell!Command

(* So does a step of another part. *)
LEMMA ShellStutter ==
  ASSUME Shell!IInv, UNCHANGED shellVars
  PROVE  Shell!IInv'
<1>1. UNCHANGED <<pc, open, writers, written, piped, collected, rfds, closed, late, shell, left, termed, status>>
  BY DEF shellVars
<1>2. Shell!TypeOK' /\ Shell!Counts' /\ Shell!ReportedIsReadable'
  BY <1>1 DEF Shell!IInv, Shell!TypeOK, Shell!Counts, Shell!ReportedIsReadable, Shell!AtEnd, Shell!Total
<1>3. Shell!EndsOpen' /\ Shell!ItsProcess' /\ Shell!LeftForAReason' /\ Shell!EndedIsComplete' /\ Shell!StoppedForAReason'
  BY <1>1 DEF Shell!IInv, Shell!EndsOpen, Shell!ItsProcess, Shell!LeftForAReason, Shell!EndedIsComplete,
     Shell!StoppedForAReason
<1> QED
  BY <1>2, <1>3 DEF Shell!IInv

(* The invariant says that nothing is left when runshell is over. *)
LEMMA ShellSafe == Shell!IInv => Shell!Safety
<1> SUFFICES ASSUME Shell!IInv PROVE Shell!Safety
  OBVIOUS
<1>1. Shell!NothingLeft
  BY DEF Shell!IInv, Shell!EndsOpen, Shell!ItsProcess, Shell!NothingLeft
<1> QED
  BY <1>1 DEF Shell!IInv, Shell!Safety

-----------------------------------------------------------------------------
(* Shared memory: the cursor. *)

(* The constants, and the fields of an object. *)
LEMMA ShmTypes ==
  ASSUME Memory!TypeOK, NEW p \in Processes
  PROVE  /\ Size \in Nat \ {0} /\ Word \in Nat /\ 2 * Size < Word /\ MaxMade \in Nat
         /\ shmObject[p].kind \in Memory!Kinds /\ shmObject[p].seg \in 0..MaxMade
         /\ shmObject[p].addr \in 0..MaxMade /\ shmObject[p].size \in 0..Size
         /\ shmObject[p].pos \in 0 .. Word - 1 /\ shmObject[p].readonly \in BOOLEAN
         /\ shmObject[p].pos <= shmObject[p].size
         /\ made[shmObject[p].kind] \in 0..MaxMade
BY Assumptions DEF Memory!TypeOK, Memory!ShmAssumption, Memory!Object

(* A sum that does not reach a word does not wrap around. *)
LEMMA NoWrap == ASSUME Word \in Nat, NEW n \in Nat, n < Word PROVE Memory!SizeT(n) = n
BY DEF Memory!SizeT

(* Whatever is asked for, a value of size_t is one. *)
LEMMA SizeTIsNat == ASSUME Word \in Nat \ {0}, NEW n \in Int PROVE Memory!SizeT(n) \in 0 .. Word - 1
BY DEF Memory!SizeT

(* The objects and names change, and the segments that are kept follow: an   *)
(* object of a process that the step leaves alone stays attached.          *)
LEMMA BecomeInv ==
  ASSUME Memory!TypeOK, Memory!AttachedIsThere, NEW objects, NEW names, Memory!Become(objects, names),
         objects \in [Processes -> Memory!Object], names \in [Memory!Kinds -> BOOLEAN],
         made' \in [Memory!Kinds -> 0..MaxMade],
         \A p \in Processes : LET o == objects[p] IN
           o.pos <= o.size /\ o.seg <= made'[o.kind] /\ o.addr \in {0, o.seg}
  PROVE  Memory!IInv'
<1>1. /\ shmObject' = objects /\ named' = names /\ touched' = Memory!Nothing
      /\ memory' = {ks \in Memory!Kinds \X (1..MaxMade) :
                      ks[2] <= made'[ks[1]] /\ Memory!Kept(ks[1], ks[2], objects, names[ks[1]])}
  BY DEF Memory!Become, Memory!Memory
<1>2. memory' \subseteq Memory!Kinds \X (1..MaxMade)
  BY <1>1
<1>3. Memory!TypeOK'
  BY <1>1, <1>2 DEF Memory!TypeOK
<1>4. Memory!AttachedIsThere'
  <2> SUFFICES ASSUME NEW p \in Processes
               PROVE  /\ objects[p].seg <= made'[objects[p].kind] /\ objects[p].addr \in {0, objects[p].seg}
                      /\ objects[p].addr # 0 => <<objects[p].kind, objects[p].addr>> \in memory'
    BY <1>1 DEF Memory!AttachedIsThere
  <2>1. objects[p] \in Memory!Object
    OBVIOUS
  <2>2. objects[p].kind \in Memory!Kinds /\ objects[p].addr \in 0..MaxMade
    BY <2>1 DEF Memory!Object
  <2>3. objects[p].seg <= made'[objects[p].kind] /\ objects[p].addr \in {0, objects[p].seg}
    OBVIOUS
  <2>4. ASSUME objects[p].addr # 0
        PROVE  <<objects[p].kind, objects[p].addr>> \in memory'
    <3> DEFINE k == objects[p].kind
               a == objects[p].addr
    <3>1. MaxMade \in Nat
      BY Assumptions DEF Memory!ShmAssumption
    <3>2. k \in Memory!Kinds /\ a \in 1..MaxMade /\ a <= made'[k]
      BY <2>2, <2>3, <2>4, <3>1
    <3>3. Memory!Kept(k, a, objects, names[k])
      BY DEF Memory!Kept
    <3> HIDE DEF k, a
    <3>4. <<k, a>> \in memory'
      BY <1>1, <3>2, <3>3
    <3> QED
      BY <3>4 DEF k, a
  <2> QED
    BY <2>3, <2>4
<1>5. Memory!StaysInside'
  BY <1>1 DEF Memory!StaysInside
<1> QED
  BY <1>3, <1>4, <1>5 DEF Memory!IInv

(* One object changes, and what is made does not. *)
LEMMA PutInv ==
  ASSUME Memory!IInv, NEW p \in Processes, NEW o \in Memory!Object, NEW names \in [Memory!Kinds -> BOOLEAN],
         Memory!Become(Memory!Put(p, o), names), UNCHANGED made,
         o.pos <= o.size, o.seg <= made[o.kind], o.addr \in {0, o.seg}
  PROVE  Memory!IInv'
<1> DEFINE objects == Memory!Put(p, o)
<1>1. Memory!TypeOK /\ Memory!AttachedIsThere
  BY DEF Memory!IInv
<1>2. objects \in [Processes -> Memory!Object] /\ objects[p] = o
      /\ \A q \in Processes : q # p => objects[q] = shmObject[q]
  BY <1>1 DEF Memory!TypeOK, Memory!Put
<1>3. \A q \in Processes : /\ objects[q].pos <= objects[q].size /\ objects[q].seg <= made'[objects[q].kind]
                            /\ objects[q].addr \in {0, objects[q].seg}
  <2> SUFFICES ASSUME NEW q \in Processes
               PROVE  /\ objects[q].pos <= objects[q].size /\ objects[q].seg <= made'[objects[q].kind]
                      /\ objects[q].addr \in {0, objects[q].seg}
    OBVIOUS
  <2>1. CASE q = p
    BY <1>2, <2>1
  <2>2. CASE q # p
    BY <1>1, <1>2, <2>2 DEF Memory!TypeOK, Memory!AttachedIsThere
  <2> QED
    BY <2>1, <2>2
<1>4. made' \in [Memory!Kinds -> 0..MaxMade]
  BY <1>1 DEF Memory!TypeOK
<1> HIDE DEF objects
<1>5. Memory!Become(objects, names)
  BY DEF objects
<1> QED
  BY <1>1, <1>2, <1>3, <1>4, <1>5, BecomeInv

(* A process without an object, and the names without one of them. *)
LEMMA NoObjectTyped ==
  ASSUME Memory!TypeOK
  PROVE  /\ Memory!NoObject \in Memory!Object /\ Memory!NoObject.pos <= Memory!NoObject.size
         /\ Memory!NoObject.seg = 0 /\ Memory!NoObject.addr = 0 /\ Memory!NoObject.seg <= made[Memory!NoObject.kind]
<1>1. Size \in Nat /\ Word \in Nat \ {0} /\ MaxMade \in Nat /\ 0 \in 0 .. Word - 1
  BY Assumptions DEF Memory!ShmAssumption
<1>2. made["sysv"] \in 0..MaxMade
  BY DEF Memory!TypeOK, Memory!Kinds
<1> QED
  BY <1>1, <1>2 DEF Memory!NoObject, Memory!Object, Memory!Kinds

(* shmget and shm_open. *)
LEMMA OpensInv ==
  ASSUME Memory!IInv, NEW p \in Processes, NEW k \in Memory!Kinds, NEW size \in 0..Size, Memory!Opens(p, k, size)
  PROVE  Memory!IInv'
<1> DEFINE o == [Memory!NoObject EXCEPT !.kind = k, !.seg = made'[k], !.size = size]
           objects == Memory!Put(p, o)
           names == [named EXCEPT ![k] = TRUE]
<1>1. Memory!TypeOK /\ Memory!AttachedIsThere
  BY DEF Memory!IInv
<1>2. /\ made' = [made EXCEPT ![k] = IF named[k] THEN @ ELSE @ + 1] /\ made'[k] <= MaxMade
      /\ Memory!Become(objects, names)
  BY DEF Memory!Opens
<1>3. made \in [Memory!Kinds -> 0..MaxMade] /\ MaxMade \in Nat /\ named \in [Memory!Kinds -> BOOLEAN]
  BY <1>1, Assumptions DEF Memory!TypeOK, Memory!ShmAssumption
<1>4. made' \in [Memory!Kinds -> 0..MaxMade] /\ \A j \in Memory!Kinds : made[j] <= made'[j]
  BY <1>2, <1>3
<1>5. o \in Memory!Object /\ o.pos <= o.size /\ o.seg <= made'[o.kind] /\ o.addr \in {0, o.seg}
  <2>1. Memory!NoObject \in Memory!Object /\ made'[k] \in 0..MaxMade
    BY <1>1, <1>4, NoObjectTyped
  <2>2. o \in Memory!Object
    BY <2>1 DEF Memory!Object
  <2>3. o.kind = k /\ o.seg = made'[k] /\ o.addr = 0 /\ o.pos = 0 /\ o.size = size
    BY DEF Memory!NoObject
  <2>4. size \in Nat /\ made'[k] \in Nat
    BY <2>1, <1>3, Assumptions DEF Memory!ShmAssumption
  <2> QED
    BY <2>2, <2>3, <2>4
<1>6. objects \in [Processes -> Memory!Object] /\ names \in [Memory!Kinds -> BOOLEAN]
      /\ objects[p] = o /\ \A q \in Processes : q # p => objects[q] = shmObject[q]
  BY <1>1, <1>3, <1>5 DEF Memory!TypeOK, Memory!Put
<1>7. \A q \in Processes : /\ objects[q].pos <= objects[q].size /\ objects[q].seg <= made'[objects[q].kind]
                            /\ objects[q].addr \in {0, objects[q].seg}
  <2> SUFFICES ASSUME NEW q \in Processes
               PROVE  /\ objects[q].pos <= objects[q].size /\ objects[q].seg <= made'[objects[q].kind]
                      /\ objects[q].addr \in {0, objects[q].seg}
    OBVIOUS
  <2> HIDE DEF objects, o
  <2>1. CASE q = p
    BY <1>5, <1>6, <2>1
  <2>2. CASE q # p
    <3>1. /\ shmObject[q].pos <= shmObject[q].size /\ shmObject[q].addr \in {0, shmObject[q].seg}
          /\ shmObject[q].seg <= made[shmObject[q].kind]
      BY <1>1 DEF Memory!TypeOK, Memory!AttachedIsThere
    <3>2. /\ shmObject[q].kind \in Memory!Kinds /\ shmObject[q].seg \in Int /\ made[shmObject[q].kind] \in Int
          /\ made'[shmObject[q].kind] \in Int /\ made[shmObject[q].kind] <= made'[shmObject[q].kind]
      BY <1>1, <1>3, <1>4, ShmTypes
    <3> QED
      BY <1>6, <2>2, <3>1, <3>2
  <2> QED
    BY <2>1, <2>2
<1> HIDE DEF objects, names, o
<1> QED
  BY <1>1, <1>2, <1>4, <1>6, <1>7, BecomeInv

(* attach, detach, mmap, close, the collector and the end of a process. *)
LEMMA ObjectChanges ==
  ASSUME Memory!IInv, NEW p \in Processes, NEW b \in BOOLEAN, NEW length \in {0, 1},
         \/ Memory!Detach(p) \/ Memory!Collect(p) \/ Memory!CloseMap(p) \/ Memory!Exit(p)
         \/ Memory!Attach(p, b) \/ Memory!Mmap(p, length, b)
  PROVE  Memory!IInv'
<1>1. Memory!TypeOK /\ Memory!AttachedIsThere
  BY DEF Memory!IInv
<1>2. named \in [Memory!Kinds -> BOOLEAN]
  BY <1>1 DEF Memory!TypeOK
<1>3. CASE Memory!Collect(p) \/ Memory!CloseMap(p) \/ Memory!Exit(p)
  <2>1. UNCHANGED made /\ Memory!Become(Memory!Put(p, Memory!NoObject), named)
    BY <1>3 DEF Memory!Collect, Memory!CloseMap, Memory!Exit, Memory!Put
  <2> QED
    BY <1>1, <1>2, <2>1, NoObjectTyped, PutInv
<1>4. shmObject[p] \in Memory!Object /\ shmObject[p].seg <= made[shmObject[p].kind]
  BY <1>1 DEF Memory!TypeOK, Memory!AttachedIsThere
<1>5. CASE Memory!Detach(p)
  <2> DEFINE o == [shmObject[p] EXCEPT !.addr = 0]
  <2>1. UNCHANGED made /\ Memory!Become(Memory!Put(p, o), named)
    BY <1>5 DEF Memory!Detach
  <2>2. o \in Memory!Object /\ o.pos <= o.size /\ o.seg <= made[o.kind] /\ o.addr = 0
    BY <1>1, <1>4, ShmTypes DEF Memory!Object
  <2> HIDE DEF o
  <2> QED
    BY <1>2, <2>1, <2>2, PutInv
<1>6. CASE Memory!Attach(p, b)
  <2> DEFINE o == [shmObject[p] EXCEPT !.addr = shmObject[p].seg, !.readonly = b]
  <2>1. UNCHANGED made /\ Memory!Become(Memory!Put(p, o), named)
    BY <1>6 DEF Memory!Attach
  <2>2. o \in Memory!Object /\ o.pos <= o.size /\ o.seg <= made[o.kind] /\ o.addr = o.seg
    BY <1>1, <1>4, ShmTypes DEF Memory!Object
  <2> HIDE DEF o
  <2> QED
    BY <1>2, <2>1, <2>2, PutInv
<1>7. CASE Memory!Mmap(p, length, b)
  <2> DEFINE o == [shmObject[p] EXCEPT !.addr = shmObject[p].seg, !.size = Memory!MmapLength(length),
                                        !.pos = 0, !.readonly = b]
  <2>1. UNCHANGED made /\ Memory!Become(Memory!Put(p, o), named)
    BY <1>7 DEF Memory!Mmap
  <2>2. Memory!MmapLength(length) \in 0..Size /\ 0 \in 0 .. Word - 1
    BY <1>1, ShmTypes DEF Memory!MmapLength
  <2>3. o \in Memory!Object
    BY <1>1, <1>4, <2>2, ShmTypes DEF Memory!Object
  <2>4. /\ o.kind = shmObject[p].kind /\ o.seg = shmObject[p].seg /\ o.addr = shmObject[p].seg
        /\ o.pos = 0 /\ o.size = Memory!MmapLength(length)
    BY <1>4 DEF Memory!Object
  <2>5. o.pos <= o.size /\ o.seg <= made[o.kind] /\ o.addr = o.seg
    BY <1>4, <2>2, <2>4
  <2> HIDE DEF o
  <2> QED
    BY <1>2, <2>1, <2>3, <2>5, PutInv
<1> QED
  BY <1>3, <1>5, <1>6, <1>7

(* remove and unlink take a name away. *)
LEMMA NameGoes ==
  ASSUME Memory!IInv, Memory!Unlink \/ \E p \in Processes : Memory!RemoveSegment(p)
  PROVE  Memory!IInv'
<1>1. Memory!TypeOK /\ Memory!AttachedIsThere
  BY DEF Memory!IInv
<1>2. PICK k \in Memory!Kinds : UNCHANGED made /\ Memory!Become(shmObject, [named EXCEPT ![k] = FALSE])
  BY DEF Memory!Unlink, Memory!RemoveSegment, Memory!Kinds
<1>3. [named EXCEPT ![k] = FALSE] \in [Memory!Kinds -> BOOLEAN] /\ made' \in [Memory!Kinds -> 0..MaxMade]
  BY <1>1, <1>2 DEF Memory!TypeOK
<1>4. shmObject \in [Processes -> Memory!Object]
      /\ \A q \in Processes : /\ shmObject[q].pos <= shmObject[q].size
                               /\ shmObject[q].seg <= made'[shmObject[q].kind]
                               /\ shmObject[q].addr \in {0, shmObject[q].seg}
  BY <1>1, <1>2 DEF Memory!TypeOK, Memory!AttachedIsThere
<1> QED
  BY <1>1, <1>2, <1>3, <1>4, BecomeInv

(* The cursor of an object moves inside of it. *)
LEMMA CursorMoves ==
  ASSUME Memory!IInv, NEW p \in Processes, NEW pos \in Nat, pos <= shmObject[p].size,
         shmObject' = [shmObject EXCEPT ![p] = [shmObject[p] EXCEPT !.pos = pos]],
         UNCHANGED <<made, named, memory>>
  PROVE  Memory!TypeOK' /\ Memory!AttachedIsThere'
<1>1. Memory!TypeOK /\ Memory!AttachedIsThere
  BY DEF Memory!IInv
<1>2. pos \in 0 .. Word - 1
  BY <1>1, ShmTypes
<1>3. shmObject' \in [Processes -> Memory!Object]
  BY <1>1, <1>2 DEF Memory!TypeOK, Memory!Object
<1>4. \A q \in Processes : /\ shmObject'[q].kind = shmObject[q].kind /\ shmObject'[q].seg = shmObject[q].seg
                            /\ shmObject'[q].addr = shmObject[q].addr /\ shmObject'[q].size = shmObject[q].size
                            /\ shmObject'[q].pos = (IF q = p THEN pos ELSE shmObject[q].pos)
  BY <1>1 DEF Memory!TypeOK, Memory!Object
<1>5. Memory!TypeOK'
  BY <1>1, <1>3, <1>4 DEF Memory!TypeOK
<1>6. Memory!AttachedIsThere'
  BY <1>1, <1>4 DEF Memory!AttachedIsThere
<1> QED
  BY <1>5, <1>6

(* A read or a write that ends inside of the object. *)
LEMMA TouchInv ==
  ASSUME Memory!IInv, NEW p \in Processes, NEW len \in Nat, Memory!Touch(p, len),
         shmObject[p].addr # 0, shmObject[p].pos + len <= shmObject[p].size
  PROVE  Memory!IInv'
<1>1. Memory!TypeOK /\ Memory!AttachedIsThere
  BY DEF Memory!IInv
<1>2. /\ shmObject[p].pos \in Nat /\ shmObject[p].size \in 0..Size /\ Size \in Nat /\ Word \in Nat
      /\ shmObject[p].pos + len \in Nat /\ shmObject[p].pos + len < Word
  BY <1>1, ShmTypes
<1>3. Memory!SizeT(shmObject[p].pos + len) = shmObject[p].pos + len
  BY <1>2, NoWrap
<1>4. /\ shmObject' = [shmObject EXCEPT ![p] = [shmObject[p] EXCEPT !.pos = shmObject[p].pos + len]]
      /\ touched'.to = shmObject[p].pos + len /\ touched'.kind = shmObject[p].kind
      /\ touched'.seg = shmObject[p].addr /\ UNCHANGED <<made, named, memory>>
  BY <1>1, <1>3 DEF Memory!Touch, Memory!Put, Memory!TypeOK, Memory!Object
<1>5. Memory!TypeOK' /\ Memory!AttachedIsThere'
  BY <1>2, <1>4, CursorMoves
<1>6. Memory!StaysInside'
  BY <1>1, <1>2, <1>4 DEF Memory!StaysInside, Memory!AttachedIsThere
<1> QED
  BY <1>5, <1>6 DEF Memory!IInv

(* read: what is asked for is cut at the end, and a sum that wrapped around  *)
(* belongs to a length that lua_pushlstring refuses.                       *)
LEMMA ReadsInv ==
  ASSUME Memory!IInv, NEW p \in Processes, NEW k \in Memory!Kinds, NEW n \in Int, Memory!Reads(p, k, n)
  PROVE  Memory!IInv'
<1> DEFINE len == Memory!Clamped(shmObject[p], Memory!SizeT(n))
<1>1. Memory!TypeOK
  BY DEF Memory!IInv
<1>2. /\ shmObject[p].pos \in Nat /\ shmObject[p].size \in 0..Size /\ Size \in Nat /\ Word \in Nat \ {0}
      /\ 2 * Size < Word /\ shmObject[p].pos <= shmObject[p].size
  BY <1>1, ShmTypes
<1>3. shmObject[p].addr # 0 /\ 2 * len < Word /\ Memory!Touch(p, len)
  BY DEF Memory!Reads
<1>4. Memory!SizeT(n) \in 0 .. Word - 1
  BY <1>2, SizeTIsNat
<1>5. len \in Nat /\ shmObject[p].pos + len <= shmObject[p].size
  <2>1. CASE shmObject[p].size < Memory!SizeT(Memory!SizeT(n) + shmObject[p].pos)
    BY <1>2, <2>1 DEF Memory!Clamped
  <2>2. CASE ~(shmObject[p].size < Memory!SizeT(Memory!SizeT(n) + shmObject[p].pos))
    <3>1. len = Memory!SizeT(n)
      BY <2>2 DEF Memory!Clamped
    <3>2. Memory!SizeT(n) + shmObject[p].pos \in Nat /\ Memory!SizeT(n) + shmObject[p].pos < Word
      BY <1>2, <1>3, <1>4, <3>1
    <3>3. Memory!SizeT(Memory!SizeT(n) + shmObject[p].pos) = Memory!SizeT(n) + shmObject[p].pos
      BY <1>2, <3>2, NoWrap
    <3> QED
      BY <1>2, <1>4, <2>2, <3>1, <3>3
  <2> QED
    BY <2>1, <2>2
<1> HIDE DEF len
<1> QED
  BY <1>3, <1>5, TouchInv

(* write: the buffer fits, or nothing is written. *)
LEMMA WritesInv ==
  ASSUME Memory!IInv, NEW p \in Processes, NEW k \in Memory!Kinds, NEW n \in Int, Memory!Writes(p, k, n)
  PROVE  Memory!IInv'
<1>1. Memory!TypeOK
  BY DEF Memory!IInv
<1>2. /\ shmObject[p].pos \in Nat /\ shmObject[p].size \in 0..Size /\ Size \in Nat /\ Word \in Nat \ {0}
      /\ 2 * Size < Word /\ shmObject[p].pos <= shmObject[p].size
  BY <1>1, ShmTypes
<1>3. /\ shmObject[p].addr # 0 /\ n \in Nat /\ 2 * n < Word /\ Memory!Touch(p, n)
      /\ shmObject[p].size >= Memory!SizeT(n + shmObject[p].pos)
  BY DEF Memory!Writes
<1>4. n + shmObject[p].pos \in Nat /\ n + shmObject[p].pos < Word
  BY <1>2, <1>3
<1>5. shmObject[p].pos + n <= shmObject[p].size
  BY <1>2, <1>3, <1>4, NoWrap
<1> QED
  BY <1>3, <1>5, TouchInv

(* seek: from the beginning or from the end. *)
LEMMA SeeksInv ==
  ASSUME Memory!IInv, NEW p \in Processes, NEW k \in Memory!Kinds, NEW n \in Int, Memory!Seeks(p, k, n)
  PROVE  Memory!IInv'
<1> DEFINE pos == IF n < 0 THEN shmObject[p].size + n ELSE n
<1>1. Memory!TypeOK
  BY DEF Memory!IInv
<1>2. shmObject[p].size \in Nat
  BY <1>1, ShmTypes
<1>3. pos \in Nat /\ pos <= shmObject[p].size
  BY <1>2 DEF Memory!Seeks, Memory!InRange, Memory!Abs
<1>4. /\ shmObject' = [shmObject EXCEPT ![p] = [shmObject[p] EXCEPT !.pos = pos]]
      /\ touched' = Memory!Nothing /\ UNCHANGED <<made, named, memory>>
  BY DEF Memory!Seeks, Memory!Put
<1> HIDE DEF pos
<1>5. Memory!TypeOK' /\ Memory!AttachedIsThere'
  BY <1>3, <1>4, CursorMoves
<1>6. Memory!StaysInside'
  BY <1>4 DEF Memory!StaysInside
<1> QED
  BY <1>5, <1>6 DEF Memory!IInv

(* Every step keeps the invariant. *)
LEMMA MemoryNextInv ==
  ASSUME Memory!IInv, Memory!Next
  PROVE  Memory!IInv'
<1>1. Lengths \subseteq Int /\ 0 \in 0..Size /\ Size \in 0..Size /\ "sysv" \in Memory!Kinds /\ "posix" \in Memory!Kinds
  BY Assumptions DEF Memory!ShmAssumption, Memory!Kinds
<1>2. ASSUME NEW p \in Processes, Memory!ShmGet(p) \/ Memory!ShmOpen(p) PROVE Memory!IInv'
  BY <1>1, <1>2, OpensInv DEF Memory!ShmGet, Memory!ShmOpen
<1>3. ASSUME NEW p \in Processes, NEW n \in Lengths, Memory!ShmRead(p, n) \/ Memory!MapRead(p, n) PROVE Memory!IInv'
  BY <1>1, <1>3, ReadsInv DEF Memory!ShmRead, Memory!MapRead
<1>4. ASSUME NEW p \in Processes, NEW n \in Lengths, Memory!ShmWrite(p, n) \/ Memory!MapWrite(p, n) PROVE Memory!IInv'
  BY <1>1, <1>4, WritesInv DEF Memory!ShmWrite, Memory!MapWrite
<1>5. ASSUME NEW p \in Processes, NEW n \in Lengths, Memory!ShmSeek(p, n) \/ Memory!MapSeek(p, n) PROVE Memory!IInv'
  BY <1>1, <1>5, SeeksInv DEF Memory!ShmSeek, Memory!MapSeek
<1>6. ASSUME NEW p \in Processes, NEW b \in BOOLEAN,
             \/ Memory!Detach(p) \/ Memory!Collect(p) \/ Memory!CloseMap(p) \/ Memory!Exit(p)
             \/ Memory!Attach(p, b) \/ Memory!Mmap(p, 0, b) \/ Memory!Mmap(p, 1, b)
      PROVE  Memory!IInv'
  BY <1>6, ObjectChanges
<1> QED
  BY <1>2, <1>3, <1>4, <1>5, <1>6, NameGoes DEF Memory!Next

(* The invariant holds as the processes begin, and in the other parts. *)
LEMMA MemoryInit == Memory!Init => Memory!IInv
<1> SUFFICES ASSUME Memory!Init PROVE Memory!IInv
  OBVIOUS
<1>1. MaxMade \in Nat /\ 0 \in 0..MaxMade /\ 0 \in 0..Size /\ 0 \in 0 .. Word - 1
  BY Assumptions DEF Memory!ShmAssumption
<1>2. Memory!NoObject \in Memory!Object
  BY <1>1 DEF Memory!NoObject, Memory!Object, Memory!Kinds
<1>3. Memory!TypeOK
  BY <1>1, <1>2 DEF Memory!Init, Memory!TypeOK, Memory!NoObject
<1>4. Memory!AttachedIsThere /\ Memory!StaysInside
  BY DEF Memory!Init, Memory!AttachedIsThere, Memory!StaysInside, Memory!NoObject, Memory!Kinds
<1> QED
  BY <1>3, <1>4 DEF Memory!IInv

(* A step of another part keeps it. *)
LEMMA MemoryStutter ==
  ASSUME Memory!IInv, UNCHANGED shmVars
  PROVE  Memory!IInv'
BY DEF shmVars, Memory!IInv, Memory!TypeOK, Memory!AttachedIsThere, Memory!StaysInside

-----------------------------------------------------------------------------
(* POSIX queues and semaphores: how long a call waits. *)

(* The constants, and the fields of an object and of a call. *)
LEMMA PosixTypes ==
  ASSUME Posix!TypeOK, Posix!Waiting, NEW p \in Processes
  PROVE  /\ Second \in Nat \ {0} /\ MaxMsg \in Nat \ {0} /\ SemMax \in Nat /\ clock \in 0 .. Second - 1
         /\ queued \in 0..MaxMsg /\ posixValue \in 0..SemMax
         /\ mqObject[p].mqdes \in Descriptions \cup {0} /\ mqObject[p].nonblock \in BOOLEAN
         /\ mqCall[p].op \in Posix!Ops \cup {"none"} /\ mqCall[p].timed \in BOOLEAN /\ mqCall[p].timeout \in Int
         /\ mqCall[p].left \in Nat /\ mqCall[p].waited \in Nat
BY Assumptions DEF Posix!TypeOK, Posix!Waiting, Posix!PosixAssumption

(* The absolute time of a call is its timeout away, whenever it is a time:   *)
(* in whatever part of a second the call begins.                           *)
LEMMA ExpiresInTime ==
  ASSUME Second \in Nat \ {0}, clock \in 0 .. Second - 1, NEW timeout \in Nat, Posix!ValidTime(timeout)
  PROVE  Posix!UntilExpiry(timeout) = timeout
<1> DEFINE n == clock + (timeout % Second)
           whole == (timeout \div Second) * Second
<1>1. timeout % Second \in 0 .. Second - 1 /\ timeout = whole + (timeout % Second)
  OBVIOUS
<1>2. n \in 0 .. 2 * Second - 2 /\ clock \in Nat
  BY <1>1
<1>3. (timeout \div Second) \in Int /\ whole \in Int
  OBVIOUS
<1>4. Posix!UntilExpiry(timeout) = whole + Posix!CarriedSecond(n) + Posix!Nanoseconds(n) - clock
  BY DEF Posix!UntilExpiry
<1>5. Posix!Nanoseconds(n) < Second
  BY DEF Posix!ValidTime
<1>6. n = clock + (timeout % Second)
  OBVIOUS
<1> HIDE DEF n, whole
<1>7. CASE n > Second
  <2>1. n % Second = n - Second
    BY <1>2, <1>7
  <2>2. Posix!CarriedSecond(n) = Second /\ Posix!Nanoseconds(n) = n - Second
    BY <1>7, <2>1 DEF Posix!CarriedSecond, Posix!Nanoseconds, Posix!Carries
  <2>3. timeout % Second \in Int
    BY <1>1
  <2> QED
    BY <1>1, <1>2, <1>3, <1>4, <1>6, <2>2, <2>3
<1>8. CASE ~(n > Second)
  <2>1. Posix!CarriedSecond(n) = 0 /\ Posix!Nanoseconds(n) = n
    BY <1>8 DEF Posix!CarriedSecond, Posix!Nanoseconds, Posix!Carries
  <2>2. timeout % Second \in Int
    BY <1>1
  <2> QED
    BY <1>1, <1>2, <1>3, <1>4, <1>6, <2>1, <2>2
<1> QED
  BY <1>7, <1>8

(* A step that leaves the queues' objects and modes alone. *)
LEMMA ModesStay ==
  ASSUME Posix!IInv, UNCHANGED <<nonblock, mqObject, asked, knows>>
  PROVE  Posix!ModeKnown' /\ Posix!ModeAsAsked'
BY DEF Posix!IInv, Posix!ModeKnown, Posix!ModeAsAsked

(* A step that leaves the calls alone. *)
LEMMA CallsStay ==
  ASSUME Posix!IInv, UNCHANGED <<mqCall, invalid>>
  PROVE  Posix!Waiting' /\ Posix!WaitsAsLong' /\ Posix!RefusedAtSecond'
BY DEF Posix!IInv, Posix!Waiting, Posix!WaitsAsLong, Posix!RefusedAtSecond, Posix!Idle

(* A time is refused where the sum of the nanoseconds is a second exactly:   *)
(* a larger one is carried.                                                *)
LEMMA RefusedSum ==
  ASSUME Second \in Nat \ {0}, clock \in 0 .. Second - 1, NEW timeout \in Nat, ~Posix!ValidTime(timeout)
  PROVE  clock + (timeout % Second) = Second
<1> DEFINE n == clock + (timeout % Second)
<1>1. n \in Nat /\ ~(Posix!Nanoseconds(n) < Second)
  BY DEF Posix!ValidTime
<1> HIDE DEF n
<1>2. CASE n > Second
  <2>1. n % Second < Second
    BY <1>1
  <2> QED
    BY <1>1, <1>2, <2>1 DEF Posix!Nanoseconds, Posix!Carries
<1>3. CASE ~(n > Second)
  BY <1>1, <1>3 DEF Posix!Nanoseconds, Posix!Carries, n
<1> QED
  BY <1>2, <1>3

(* A call ends, or one begins that waits as long as it was told to. *)
LEMMA CallChanges ==
  ASSUME Posix!IInv, NEW p \in Processes,
         NEW c \in [op : Posix!Ops \cup {"none"}, timed : BOOLEAN, timeout : Int, left : Nat, waited : Nat],
         mqCall' = [mqCall EXCEPT ![p] = c], c.op = "none" => c = Posix!NoCall,
         c.timed => c.waited + c.left = c.timeout,
         queued' \in 0..MaxMsg, posixValue' \in 0..SemMax,
         invalid' \subseteq invalid \cup {Second},
         UNCHANGED <<nonblock, mqObject, clock, asked, knows>>
  PROVE  Posix!IInv'
<1>1. Posix!TypeOK /\ Posix!Waiting /\ Posix!WaitsAsLong
  BY DEF Posix!IInv
<1>2. mqCall'[p] = c /\ \A q \in Processes : q # p => mqCall'[q] = mqCall[q]
  BY <1>1 DEF Posix!Waiting
<1>3. Posix!Waiting'
  BY <1>1, <1>2 DEF Posix!Waiting, Posix!Idle
<1>4. Posix!TypeOK'
  <2>1. invalid' \subseteq Nat
    BY <1>1, Assumptions DEF Posix!TypeOK, Posix!PosixAssumption
  <2> QED
    BY <1>1, <1>2, <2>1 DEF Posix!TypeOK
<1>5. Posix!WaitsAsLong'
  BY <1>1, <1>2 DEF Posix!WaitsAsLong
<1>6. Posix!RefusedAtSecond'
  BY DEF Posix!IInv, Posix!RefusedAtSecond
<1> QED
  BY <1>3, <1>4, <1>5, <1>6, ModesStay DEF Posix!IInv

(* The call that is none. *)
LEMMA NoCallTyped ==
  /\ Posix!NoCall \in [op : Posix!Ops \cup {"none"}, timed : BOOLEAN, timeout : Int, left : Nat, waited : Nat]
  /\ Posix!NoCall.timed = FALSE /\ Posix!NoCall.op = "none"
BY DEF Posix!NoCall

(* An operation that can be performed keeps queue and semaphore in range. *)
LEMMA GoneTyped ==
  ASSUME Posix!TypeOK, Posix!Waiting, NEW op \in Posix!Ops, Posix!CanGo(op), Posix!Gone(op), Processes # {}
  PROVE  queued' \in 0..MaxMsg /\ posixValue' \in 0..SemMax
<1>1. queued \in 0..MaxMsg /\ posixValue \in 0..SemMax /\ MaxMsg \in Nat /\ SemMax \in Nat
  BY PosixTypes
<1>2. CASE op = "receive"
  BY <1>1, <1>2 DEF Posix!CanGo, Posix!Gone
<1>3. CASE op = "send"
  BY <1>1, <1>3 DEF Posix!CanGo, Posix!Gone
<1>4. CASE op = "wait"
  BY <1>1, <1>4 DEF Posix!CanGo, Posix!Gone
<1> QED
  BY <1>2, <1>3, <1>4 DEF Posix!Ops

(* The system call of receive, send and wait. *)
LEMMA BeginInv ==
  ASSUME Posix!IInv, NEW p \in Processes, NEW op \in Posix!Ops, NEW timeout \in Int, NEW mayWait \in BOOLEAN,
         Posix!Begin(p, op, timeout, mayWait)
  PROVE  Posix!IInv'
<1>1. Posix!TypeOK /\ Posix!Waiting
  BY DEF Posix!IInv
<1>2. queued \in 0..MaxMsg /\ posixValue \in 0..SemMax
      /\ Second \in Nat \ {0} /\ clock \in 0 .. Second - 1
  BY <1>1, PosixTypes DEF Posix!TypeOK
<1>3. UNCHANGED <<nonblock, mqObject, clock, asked, knows>> /\ Posix!Idle(p)
  BY DEF Posix!Begin
<1>4. mqCall = [mqCall EXCEPT ![p] = mqCall[p]] /\ mqCall[p] = Posix!NoCall
  BY <1>1, <1>3 DEF Posix!Waiting, Posix!Idle
<1>5. CASE /\ UNCHANGED <<queued, posixValue, mqCall>> /\ Posix!IsTimed(timeout) /\ ~Posix!ValidTime(timeout)
           /\ invalid' = invalid \cup {clock + (timeout % Second)}
  <2>1. clock + (timeout % Second) = Second
    BY <1>2, <1>5, RefusedSum DEF Posix!IsTimed
  <2>2. invalid' \subseteq invalid \cup {Second}
    BY <1>5, <2>1
  <2> QED
    BY <1>2, <1>3, <1>4, <1>5, <2>2, NoCallTyped, CallChanges
<1>6. CASE Posix!CanGo(op) /\ Posix!Gone(op) /\ UNCHANGED <<mqCall, invalid>>
  <2>1. queued' \in 0..MaxMsg /\ posixValue' \in 0..SemMax
    BY <1>1, <1>6, GoneTyped
  <2> QED
    BY <1>2, <1>3, <1>4, <1>6, <2>1, NoCallTyped, CallChanges
<1>7. CASE UNCHANGED <<queued, posixValue, invalid>> /\ mqCall' = [mqCall EXCEPT ![p] = Posix!NoCall]
  BY <1>2, <1>3, <1>7, NoCallTyped, CallChanges
<1>8. CASE /\ UNCHANGED <<queued, posixValue, invalid>> /\ (Posix!IsTimed(timeout) => Posix!ValidTime(timeout))
           /\ mqCall' = [mqCall EXCEPT ![p] =
                [op |-> op, timed |-> Posix!IsTimed(timeout), timeout |-> timeout, waited |-> 0,
                 left |-> IF Posix!IsTimed(timeout) THEN Posix!UntilExpiry(timeout) ELSE 0]]
  <2> DEFINE c == [op |-> op, timed |-> Posix!IsTimed(timeout), timeout |-> timeout, waited |-> 0,
                   left |-> IF Posix!IsTimed(timeout) THEN Posix!UntilExpiry(timeout) ELSE 0]
  <2>1. Posix!IsTimed(timeout) => timeout \in Nat /\ Posix!UntilExpiry(timeout) = timeout
    BY <1>2, <1>8, ExpiresInTime DEF Posix!IsTimed
  <2>2. Posix!IsTimed(timeout) \in BOOLEAN
    BY DEF Posix!IsTimed
  <2>3. c.left \in Nat
    BY <2>1
  <2>4. c \in [op : Posix!Ops \cup {"none"}, timed : BOOLEAN, timeout : Int, left : Nat, waited : Nat]
    BY <2>2, <2>3
  <2>5. c.op # "none" /\ (c.timed => c.waited + c.left = c.timeout)
    BY <2>1 DEF Posix!Ops
  <2>6. mqCall' = [mqCall EXCEPT ![p] = c]
    BY <1>8
  <2> HIDE DEF c
  <2> QED
    BY <1>2, <1>3, <1>8, <2>4, <2>5, <2>6, CallChanges
<1> QED
  BY <1>5, <1>6, <1>7, <1>8 DEF Posix!Begin

(* A call that waits goes on, expires or is interrupted. *)
LEMMA CallEndsInv ==
  ASSUME Posix!IInv, NEW p \in Processes, Posix!Goes(p) \/ Posix!Expires(p) \/ Posix!Interrupted(p)
  PROVE  Posix!IInv'
<1>1. Posix!TypeOK /\ Posix!Waiting
  BY DEF Posix!IInv
<1>2. /\ mqCall' = [mqCall EXCEPT ![p] = Posix!NoCall] /\ UNCHANGED <<nonblock, mqObject, clock, asked, knows, invalid>>
  BY <1>1 DEF Posix!Goes, Posix!Expires, Posix!Interrupted, Posix!TypeOK
<1>3. queued' \in 0..MaxMsg /\ posixValue' \in 0..SemMax
  <2>1. CASE Posix!Goes(p)
    <3>1. mqCall[p].op \in Posix!Ops
      BY <1>1, <2>1, PosixTypes DEF Posix!Waiting, Posix!Goes
    <3> QED
      BY <1>1, <2>1, <3>1, GoneTyped DEF Posix!Goes
  <2>2. CASE Posix!Expires(p) \/ Posix!Interrupted(p)
    BY <1>1, <2>2, PosixTypes DEF Posix!Expires, Posix!Interrupted
  <2> QED
    BY <2>1, <2>2
<1> QED
  BY <1>2, <1>3, NoCallTyped, CallChanges

(* post. *)
LEMMA PostInv ==
  ASSUME Posix!IInv, NEW p \in Processes, Posix!Post(p)
  PROVE  Posix!IInv'
<1>1. /\ posixValue < SemMax /\ posixValue' = posixValue + 1
      /\ UNCHANGED <<nonblock, mqObject, queued, clock, mqCall, asked, knows, invalid>>
  BY DEF Posix!Post
<1>2. posixValue' \in 0..SemMax
  BY <1>1, PosixTypes DEF Posix!IInv
<1>3. Posix!TypeOK'
  BY <1>1, <1>2 DEF Posix!IInv, Posix!TypeOK
<1> QED
  BY <1>1, <1>3, CallsStay, ModesStay DEF Posix!IInv

(* Time passes: what a call has waited and what it still has to wait are its *)
(* timeout together.                                                       *)
LEMMA TickInv ==
  ASSUME Posix!IInv, Posix!Tick
  PROVE  Posix!IInv'
<1>1. Posix!TypeOK /\ Posix!Waiting /\ Posix!WaitsAsLong
  BY DEF Posix!IInv
<1>2. /\ \A p \in Processes : mqCall[p].timed => mqCall[p].left > 0
      /\ clock' = (clock + 1) % Second
      /\ mqCall' = [p \in Processes |-> IF mqCall[p].timed
                      THEN [mqCall[p] EXCEPT !.left = mqCall[p].left - 1, !.waited = mqCall[p].waited + 1]
                      ELSE mqCall[p]]
      /\ UNCHANGED <<nonblock, mqObject, queued, posixValue, asked, knows, invalid>>
  BY DEF Posix!Tick
<1>3. clock' \in 0 .. Second - 1
  <2>1. Second \in Nat \ {0} /\ clock + 1 \in Int
    BY <1>1, Assumptions DEF Posix!TypeOK, Posix!PosixAssumption
  <2>2. (clock + 1) % Second \in 0 .. Second - 1
    BY <2>1
  <2> QED
    BY <1>2, <2>2
<1>4. ASSUME NEW p \in Processes
      PROVE  /\ mqCall'[p] \in [op : Posix!Ops \cup {"none"}, timed : BOOLEAN, timeout : Int, left : Nat, waited : Nat]
             /\ mqCall'[p].op = "none" => mqCall'[p] = Posix!NoCall
             /\ mqCall'[p].timed => mqCall'[p].waited + mqCall'[p].left = mqCall'[p].timeout
  <2>1. /\ mqCall[p] \in [op : Posix!Ops \cup {"none"}, timed : BOOLEAN, timeout : Int, left : Nat, waited : Nat]
        /\ mqCall[p].op = "none" => mqCall[p] = Posix!NoCall
        /\ mqCall[p].timed => mqCall[p].waited + mqCall[p].left = mqCall[p].timeout
    BY <1>1 DEF Posix!Waiting, Posix!WaitsAsLong, Posix!Idle
  <2>2. CASE ~mqCall[p].timed
    BY <1>2, <2>1, <2>2
  <2>3. CASE mqCall[p].timed
    <3> DEFINE c == [mqCall[p] EXCEPT !.left = mqCall[p].left - 1, !.waited = mqCall[p].waited + 1]
    <3>1. mqCall'[p] = c /\ mqCall[p].left > 0
      BY <1>2, <2>3
    <3>2. /\ c.op = mqCall[p].op /\ c.timed = mqCall[p].timed /\ c.timeout = mqCall[p].timeout
          /\ c.left = mqCall[p].left - 1 /\ c.waited = mqCall[p].waited + 1
      BY <2>1
    <3>3. mqCall[p].left \in Nat /\ mqCall[p].waited \in Nat /\ mqCall[p].timeout \in Int
      BY <2>1
    <3>4. mqCall[p].op # "none"
      BY <2>1, <2>3, NoCallTyped
    <3>5. c \in [op : Posix!Ops \cup {"none"}, timed : BOOLEAN, timeout : Int, left : Nat, waited : Nat]
      <4>1. mqCall[p].left - 1 \in Nat /\ mqCall[p].waited + 1 \in Nat
        BY <3>1, <3>3
      <4> QED
        BY <2>1, <4>1
    <3>6. c.waited + c.left = c.timeout
      BY <2>1, <2>3, <3>2, <3>3
    <3> HIDE DEF c
    <3> QED
      BY <3>1, <3>2, <3>4, <3>5, <3>6
  <2> QED
    BY <2>2, <2>3
<1>5. Posix!Waiting'
  BY <1>2, <1>4 DEF Posix!Waiting, Posix!Idle
<1>6. Posix!WaitsAsLong'
  BY <1>4 DEF Posix!WaitsAsLong
<1>7. Posix!TypeOK'
  BY <1>1, <1>2, <1>3, <1>4 DEF Posix!TypeOK
<1>8. Posix!RefusedAtSecond'
  BY <1>2 DEF Posix!IInv, Posix!RefusedAtSecond
<1> QED
  BY <1>2, <1>5, <1>6, <1>7, <1>8, ModesStay DEF Posix!IInv

-----------------------------------------------------------------------------
(* POSIX queues and semaphores: the mode of a queue. *)

(* mq_open gives an object a description of its own and its mode. *)
LEMMA MqOpenInv ==
  ASSUME Posix!IInv, NEW p \in Processes, NEW mode \in BOOLEAN, Posix!MqOpen(p, mode)
  PROVE  Posix!IInv'
<1>1. Posix!TypeOK
  BY DEF Posix!IInv
<1>2. PICK d \in Posix!Unused :
        /\ nonblock' = [nonblock EXCEPT ![d] = mode]
        /\ mqObject' = [mqObject EXCEPT ![p] = [mqdes |-> d, nonblock |-> nonblock'[d], msgbuf |-> TRUE]]
        /\ asked' = [asked EXCEPT ![d] = "none"]
        /\ knows' = [knows EXCEPT ![d] = {p}]
  BY DEF Posix!MqOpen
<1>3. UNCHANGED <<queued, posixValue, clock, mqCall, invalid>>
  BY DEF Posix!MqOpen
<1>4. d \in Descriptions /\ d # 0 /\ \A q \in Processes : mqObject[q].mqdes # d
  BY Assumptions DEF Posix!Unused, Posix!PosixAssumption
<1>5. /\ nonblock' \in [Descriptions -> BOOLEAN] /\ nonblock'[d] = mode
      /\ \A e \in Descriptions : e # d => nonblock'[e] = nonblock[e]
  BY <1>1, <1>2, <1>4 DEF Posix!TypeOK
<1>6. /\ mqObject' \in [Processes -> [mqdes : Descriptions \cup {0}, nonblock : BOOLEAN, msgbuf : BOOLEAN]]
      /\ mqObject'[p].mqdes = d /\ mqObject'[p].nonblock = mode /\ mqObject'[p].msgbuf = TRUE
      /\ \A q \in Processes : q # p => mqObject'[q] = mqObject[q]
  BY <1>1, <1>2, <1>4, <1>5 DEF Posix!TypeOK
<1>7. /\ asked' \in [Descriptions -> {"none", "blocking", "nonblocking"}] /\ asked'[d] = "none"
      /\ \A e \in Descriptions : e # d => asked'[e] = asked[e]
  BY <1>1, <1>2, <1>4 DEF Posix!TypeOK
<1>8. /\ knows' \in [Descriptions -> SUBSET Processes]
      /\ \A e \in Descriptions : e # d => knows'[e] = knows[e]
  BY <1>1, <1>2, <1>4 DEF Posix!TypeOK
<1>9. Posix!TypeOK'
  BY <1>1, <1>3, <1>4, <1>5, <1>6, <1>7, <1>8 DEF Posix!TypeOK
<1>10. Posix!ModeKnown /\ Posix!ModeAsAsked /\ \A q \in Processes : mqObject[q].mqdes \in Descriptions \cup {0}
  BY <1>1 DEF Posix!IInv, Posix!TypeOK
<1>11. Posix!ModeKnown'
  BY <1>4, <1>5, <1>6, <1>8, <1>10 DEF Posix!ModeKnown
<1>12. Posix!ModeAsAsked'
  BY <1>5, <1>7, <1>10 DEF Posix!ModeAsAsked
<1> QED
  BY <1>3, <1>9, <1>11, <1>12, CallsStay DEF Posix!IInv

(* A process gets another object: none, or a copy of one that saw what it    *)
(* saw.                                                                      *)
LEMMA ObjectMoves ==
  ASSUME Posix!IInv, NEW p \in Processes, Posix!MqClose(p) \/ \E q \in Processes : Posix!Fork(p, q)
  PROVE  Posix!IInv'
<1>1. Posix!TypeOK /\ Posix!ModeKnown /\ Posix!ModeAsAsked
  BY DEF Posix!IInv
<1>2. UNCHANGED <<nonblock, queued, posixValue, clock, mqCall, asked, invalid>>
  BY DEF Posix!MqClose, Posix!Fork
<1> DEFINE d == mqObject[p].mqdes
<1>3. d \in Descriptions /\ d # 0
  BY <1>1 DEF Posix!MqClose, Posix!Fork, Posix!Open, Posix!TypeOK
<1>4. CASE Posix!MqClose(p)
  <2>1. /\ mqObject' = [mqObject EXCEPT ![p] = Posix!NoObject]
        /\ Posix!NoObject.mqdes = 0
        /\ Posix!NoObject.msgbuf = FALSE
        /\ Posix!NoObject \in [mqdes : Descriptions \cup {0}, nonblock : BOOLEAN, msgbuf : BOOLEAN]
        /\ knows' = [knows EXCEPT ![d] = knows[d] \ {p}]
    BY <1>4 DEF Posix!MqClose, Posix!Closed, Posix!NoObject
  <2>2. /\ mqObject' \in [Processes -> [mqdes : Descriptions \cup {0}, nonblock : BOOLEAN, msgbuf : BOOLEAN]]
        /\ mqObject'[p].mqdes = 0 /\ mqObject'[p].msgbuf = FALSE
        /\ \A q \in Processes : q # p => mqObject'[q] = mqObject[q]
    BY <1>1, <2>1 DEF Posix!TypeOK
  <2>3. knows' \in [Descriptions -> SUBSET Processes] /\ \A e \in Descriptions : knows'[e] \subseteq knows[e]
    BY <1>1, <1>3, <2>1 DEF Posix!TypeOK
  <2>4. Posix!TypeOK'
    BY <1>1, <1>2, <2>2, <2>3 DEF Posix!TypeOK
  <2>5. \A q \in Processes : mqObject[q].mqdes \in Descriptions \cup {0}
    BY <1>1 DEF Posix!TypeOK
  <2>6. Posix!ModeKnown' /\ Posix!ModeAsAsked'
    BY <1>1, <1>2, <2>2, <2>3, <2>5 DEF Posix!ModeKnown, Posix!ModeAsAsked
  <2> QED
    BY <1>2, <2>4, <2>6, CallsStay DEF Posix!IInv
<1>5. ASSUME NEW q \in Processes, Posix!Fork(p, q)
      PROVE  Posix!IInv'
  <2>1. /\ mqObject' = [mqObject EXCEPT ![q] = mqObject[p]]
        /\ knows' = [knows EXCEPT ![d] = IF p \in knows[d] THEN knows[d] \cup {q} ELSE knows[d] \ {q}]
    BY <1>5 DEF Posix!Fork
  <2>2. mqObject'[q] = mqObject[p] /\ \A o \in Processes : o # q => mqObject'[o] = mqObject[o]
    BY <1>1, <2>1 DEF Posix!TypeOK
  <2>3. /\ knows' \in [Descriptions -> SUBSET Processes]
        /\ \A e \in Descriptions, o \in Processes : o # q /\ o \in knows'[e] => o \in knows[e]
        /\ q \in knows'[d] => p \in knows[d]
    BY <1>1, <1>3, <2>1 DEF Posix!TypeOK
  <2>4. Posix!TypeOK'
    <3>1. mqObject' \in [Processes -> [mqdes : Descriptions \cup {0}, nonblock : BOOLEAN, msgbuf : BOOLEAN]]
      BY <1>1, <2>1 DEF Posix!TypeOK
    <3>2. \A o \in Processes : mqObject'[o].msgbuf = (mqObject'[o].mqdes # 0)
      BY <1>1, <2>2 DEF Posix!TypeOK
    <3> QED
      BY <1>1, <1>2, <2>3, <3>1, <3>2 DEF Posix!TypeOK
  <2>5. \A o \in Processes : mqObject[o].mqdes \in Descriptions \cup {0}
    BY <1>1 DEF Posix!TypeOK
  <2> HIDE DEF d
  <2>6. Posix!ModeKnown'
    <3> SUFFICES ASSUME NEW o \in Processes, mqObject'[o].mqdes # 0, o \in knows'[mqObject'[o].mqdes]
                 PROVE  mqObject'[o].nonblock = nonblock'[mqObject'[o].mqdes]
      BY DEF Posix!ModeKnown
    <3>1. CASE o = q
      BY <1>1, <1>2, <1>3, <2>2, <2>3, <3>1 DEF Posix!ModeKnown, d
    <3>2. CASE o # q
      BY <1>1, <1>2, <2>2, <2>3, <2>5, <3>2 DEF Posix!ModeKnown
    <3> QED
      BY <3>1, <3>2
  <2>7. Posix!ModeAsAsked'
    BY <1>1, <1>2 DEF Posix!ModeAsAsked
  <2> QED
    BY <1>2, <2>4, <2>6, <2>7, CallsStay DEF Posix!IInv
<1> QED
  BY <1>4, <1>5

(* The opposite of a mode is one. *)
LEMMA OppositeOfMode == \A mode \in BOOLEAN : (~mode) \in BOOLEAN
BY Zenon

(* setblocking, which believes the object. *)
LEMMA SetBlockingInv ==
  ASSUME Posix!IInv, NEW p \in Processes, NEW blocking \in BOOLEAN, Posix!SetBlocking(p, blocking)
  PROVE  Posix!IInv'
<1> DEFINE d == mqObject[p].mqdes
<1>1. Posix!TypeOK
  BY DEF Posix!IInv
<1>2. d \in Descriptions
  BY <1>1 DEF Posix!TypeOK, Posix!SetBlocking, Posix!Open
<1>3. d # 0 /\ UNCHANGED <<queued, posixValue, clock, mqCall, invalid>>
  BY DEF Posix!SetBlocking, Posix!Open
<1> DEFINE mode == IF blocking THEN "blocking" ELSE "nonblocking"
<1>5. \/ /\ mqObject[p].nonblock = ~blocking /\ UNCHANGED <<nonblock, mqObject, knows>>
         /\ asked' = [asked EXCEPT ![d] = IF p \in knows[d] THEN mode ELSE "none"]
      \/ /\ nonblock' = [nonblock EXCEPT ![d] = ~blocking]
         /\ mqObject' = [mqObject EXCEPT ![p] = [mqObject[p] EXCEPT !.nonblock = ~blocking]]
         /\ asked' = [asked EXCEPT ![d] = mode]
         /\ knows' = [knows EXCEPT ![d] = {p}]
  BY DEF Posix!SetBlocking, Posix!ModeSet
<1> HIDE DEF d
<1>6. /\ asked' \in [Descriptions -> {"none", "blocking", "nonblocking"}]
      /\ asked'[d] = mode \/ (asked'[d] = "none" /\ p \notin knows[d])
      /\ \A e \in Descriptions : e # d => asked'[e] = asked[e]
      /\ knows' \in [Descriptions -> SUBSET Processes]
      /\ \A e \in Descriptions : e # d => knows'[e] = knows[e]
      /\ asked'[d] = "none" => UNCHANGED <<nonblock, mqObject, knows>>
  BY <1>1, <1>2, <1>5 DEF Posix!TypeOK
<1>7. /\ nonblock' \in [Descriptions -> BOOLEAN]
      /\ mqObject' \in [Processes -> [mqdes : Descriptions \cup {0}, nonblock : BOOLEAN, msgbuf : BOOLEAN]]
      /\ \A q \in Processes : mqObject'[q].mqdes = mqObject[q].mqdes /\ mqObject'[q].msgbuf = mqObject[q].msgbuf
  <2>1. CASE UNCHANGED <<nonblock, mqObject>>
    BY <1>1, <2>1 DEF Posix!TypeOK
  <2>2. CASE /\ nonblock' = [nonblock EXCEPT ![d] = ~blocking]
             /\ mqObject' = [mqObject EXCEPT ![p] = [mqObject[p] EXCEPT !.nonblock = ~blocking]]
    <3>1. (~blocking) \in BOOLEAN
      BY OppositeOfMode
    <3>2. nonblock' \in [Descriptions -> BOOLEAN]
      BY <1>1, <1>2, <2>2, <3>1 DEF Posix!TypeOK
    <3>3. /\ [mqObject[p] EXCEPT !.nonblock = ~blocking] \in
                [mqdes : Descriptions \cup {0}, nonblock : BOOLEAN, msgbuf : BOOLEAN]
          /\ [mqObject[p] EXCEPT !.nonblock = ~blocking].mqdes = mqObject[p].mqdes
          /\ [mqObject[p] EXCEPT !.nonblock = ~blocking].msgbuf = mqObject[p].msgbuf
      BY <1>1, <3>1 DEF Posix!TypeOK
    <3>4. /\ mqObject'[p] = [mqObject[p] EXCEPT !.nonblock = ~blocking]
          /\ \A q \in Processes : q # p => mqObject'[q] = mqObject[q]
      BY <1>1, <2>2 DEF Posix!TypeOK
    <3>5. mqObject' \in [Processes -> [mqdes : Descriptions \cup {0}, nonblock : BOOLEAN, msgbuf : BOOLEAN]]
      BY <1>1, <2>2, <3>3 DEF Posix!TypeOK
    <3> QED
      BY <3>2, <3>3, <3>4, <3>5
  <2> QED
    BY <1>5, <2>1, <2>2
<1>8. Posix!TypeOK'
  BY <1>1, <1>3, <1>6, <1>7 DEF Posix!TypeOK
<1>9. Posix!ModeKnown /\ Posix!ModeAsAsked /\ \A q \in Processes : mqObject[q].mqdes \in Descriptions \cup {0}
  BY <1>1 DEF Posix!IInv, Posix!TypeOK
<1>10. CASE asked'[d] = "none"
  <2>1. Posix!ModeKnown'
    BY <1>6, <1>9, <1>10 DEF Posix!ModeKnown
  <2>2. Posix!ModeAsAsked'
    BY <1>6, <1>9, <1>10 DEF Posix!ModeAsAsked
  <2> QED
    BY <1>3, <1>8, <2>1, <2>2, CallsStay DEF Posix!IInv
<1>11. CASE asked'[d] # "none"
  <2>1. asked'[d] = mode
    BY <1>6, <1>11
  <2>2. CASE mqObject[p].nonblock = ~blocking /\ UNCHANGED <<nonblock, mqObject, knows>>
    <3>1. p \in knows[d]
      BY <1>1, <1>2, <1>5, <1>11, <2>2 DEF Posix!TypeOK
    <3>2. nonblock[d] = ~blocking
      BY <1>3, <1>9, <2>2, <3>1 DEF Posix!ModeKnown, d
    <3>3. Posix!ModeKnown'
      BY <1>9, <2>2 DEF Posix!ModeKnown
    <3>4. Posix!ModeAsAsked'
      BY <1>6, <1>9, <2>1, <2>2, <3>2 DEF Posix!ModeAsAsked
    <3> QED
      BY <1>3, <1>8, <3>3, <3>4, CallsStay DEF Posix!IInv
  <2>3. CASE /\ nonblock' = [nonblock EXCEPT ![d] = ~blocking]
             /\ mqObject' = [mqObject EXCEPT ![p] = [mqObject[p] EXCEPT !.nonblock = ~blocking]]
             /\ knows' = [knows EXCEPT ![d] = {p}]
    <3>1. /\ nonblock'[d] = ~blocking /\ mqObject'[p].nonblock = ~blocking /\ knows'[d] = {p}
          /\ \A e \in Descriptions : e # d => nonblock'[e] = nonblock[e]
          /\ \A q \in Processes : q # p => mqObject'[q] = mqObject[q]
      BY <1>1, <1>2, <2>3 DEF Posix!TypeOK
    <3>2. Posix!ModeKnown'
      <4> SUFFICES ASSUME NEW q \in Processes, mqObject'[q].mqdes # 0, q \in knows'[mqObject'[q].mqdes]
                   PROVE  mqObject'[q].nonblock = nonblock'[mqObject'[q].mqdes]
        BY DEF Posix!ModeKnown
      <4>1. CASE q = p
        BY <1>7, <3>1, <4>1 DEF d
      <4>2. CASE q # p
        BY <1>6, <1>7, <1>9, <3>1, <4>2 DEF Posix!ModeKnown
      <4> QED
        BY <4>1, <4>2
    <3>3. Posix!ModeAsAsked'
      BY <1>6, <1>9, <2>1, <3>1 DEF Posix!ModeAsAsked
    <3> QED
      BY <1>3, <1>8, <3>2, <3>3, CallsStay DEF Posix!IInv
  <2> QED
    BY <1>5, <2>2, <2>3
<1> QED
  BY <1>10, <1>11

(* Every step keeps the invariant. *)
LEMMA PosixNextInv ==
  ASSUME Posix!IInv, Posix!Next
  PROVE  Posix!IInv'
<1>1. Timeouts \subseteq Int /\ -1 \in Int /\ "receive" \in Posix!Ops /\ "send" \in Posix!Ops /\ "wait" \in Posix!Ops
  BY Assumptions DEF Posix!PosixAssumption, Posix!Ops
<1>2. ASSUME NEW p \in Processes, NEW t \in Timeouts, Posix!Receive(p, t) \/ Posix!Send(p, t)
      PROVE  Posix!IInv'
  <2>1. nonblock[mqObject[p].mqdes] \in BOOLEAN
    BY <1>2 DEF Posix!IInv, Posix!TypeOK, Posix!Receive, Posix!Send, Posix!Open
  <2>2. (~nonblock[mqObject[p].mqdes]) \in BOOLEAN
    BY <2>1, OppositeOfMode
  <2> QED
    BY <1>1, <1>2, <2>2, BeginInv DEF Posix!Receive, Posix!Send
<1>3. ASSUME NEW p \in Processes, Posix!TryWait(p) \/ \E t \in Timeouts : Posix!Wait(p, t)
      PROVE  Posix!IInv'
  BY <1>1, <1>3, BeginInv DEF Posix!TryWait, Posix!Wait
<1> QED
  BY <1>2, <1>3, TickInv, MqOpenInv, SetBlockingInv, ObjectMoves, PostInv, CallEndsInv DEF Posix!Next

(* The invariant holds as the processes begin. *)
LEMMA PosixInit == Posix!Init => Posix!IInv
<1> SUFFICES ASSUME Posix!Init PROVE Posix!IInv
  OBVIOUS
<1>1. Second \in Nat \ {0} /\ MaxMsg \in Nat /\ 0 \in 0..MaxMsg /\ 0 \in 0 .. Second - 1
  BY Assumptions DEF Posix!PosixAssumption
<1>2. Posix!TypeOK
  BY <1>1 DEF Posix!Init, Posix!TypeOK, Posix!NoObject, Posix!NoCall
<1>3. Posix!Waiting /\ Posix!WaitsAsLong
  BY NoCallTyped DEF Posix!Init, Posix!Waiting, Posix!WaitsAsLong, Posix!Idle
<1>4. Posix!ModeKnown /\ Posix!ModeAsAsked /\ Posix!RefusedAtSecond
  BY DEF Posix!Init, Posix!ModeKnown, Posix!ModeAsAsked, Posix!RefusedAtSecond, Posix!NoObject
<1> QED
  BY <1>2, <1>3, <1>4 DEF Posix!IInv

(* A step of another part keeps it. *)
LEMMA PosixStutter ==
  ASSUME Posix!IInv, UNCHANGED posixVars
  PROVE  Posix!IInv'
<1>1. UNCHANGED <<nonblock, mqObject, queued, posixValue, clock, mqCall, asked, knows, invalid>>
  BY DEF posixVars
<1>2. Posix!TypeOK'
  BY <1>1 DEF Posix!IInv, Posix!TypeOK
<1> QED
  BY <1>1, <1>2, CallsStay, ModesStay DEF Posix!IInv

-----------------------------------------------------------------------------
(* Directories and accounts: what a loop is given. *)

(* A later name follows those that were met. *)
LEMMA ListingGrows ==
  ASSUME NEW names \in Seq(Int), NEW S \in SUBSET Int, NEW e \in Int,
         Lists!Listing(names, S), \A x \in S : x < e
  PROVE  Lists!Listing(Append(names, e), S \cup {e})
<1> DEFINE longer == Append(names, e)
<1>1. /\ Len(names) \in Nat /\ DOMAIN names = 1..Len(names) /\ DOMAIN longer = 1..(Len(names) + 1)
      /\ longer[Len(names) + 1] = e /\ \A i \in 1..Len(names) : longer[i] = names[i]
  OBVIOUS
<1>2. S = {names[i] : i \in DOMAIN names}
  BY DEF Lists!Listing, Lists!Range
<1> HIDE DEF longer
<1>3. {longer[i] : i \in DOMAIN longer} = S \cup {e}
  <2>1. ASSUME NEW i \in DOMAIN longer PROVE longer[i] \in S \cup {e}
    BY <1>1, <1>2
  <2>2. ASSUME NEW x \in S \cup {e} PROVE \E i \in DOMAIN longer : x = longer[i]
    <3>1. CASE x = e
      BY <1>1, <3>1
    <3>2. CASE x \in S
      <4>1. PICK i \in DOMAIN names : x = names[i]
        BY <1>2, <3>2
      <4> QED
        BY <1>1, <4>1
    <3> QED
      BY <3>1, <3>2
  <2> QED
    BY <2>1, <2>2
<1>4. ASSUME NEW i \in DOMAIN longer, NEW j \in DOMAIN longer, i < j
      PROVE  longer[i] < longer[j]
  <2>1. i \in 1..Len(names) /\ names[i] \in S
    BY <1>1, <1>2, <1>4
  <2>2. CASE j = Len(names) + 1
    BY <1>1, <2>1, <2>2
  <2>3. CASE j \in 1..Len(names)
    BY <1>1, <1>4, <2>1, <2>3 DEF Lists!Listing
  <2> QED
    BY <1>1, <2>2, <2>3
<1> QED
  BY <1>3, <1>4 DEF Lists!Listing, Lists!Range, longer

(* The next entry that matches is the first of the rest. *)
LEMMA NextEntry ==
  ASSUME NEW r \in 0..N
  PROVE  /\ N \in Nat \ {0} /\ Matching \subseteq 1..N /\ Lists!Closed = N + 1
         /\ Lists!Rest(r) = {} => Matching \cap 1..r = Matching
         /\ Lists!Rest(r) # {} =>
              LET entry == CHOOSE i \in Lists!Rest(r) : \A j \in Lists!Rest(r) : i <= j IN
              /\ entry \in 1..N /\ entry > r
              /\ Matching \cap 1..entry = (Matching \cap 1..r) \cup {entry}
<1>1. N \in Nat \ {0} /\ Matching \subseteq 1..N
  BY Assumptions DEF Lists!ListingsAssumption
<1>2. ASSUME Lists!Rest(r) = {} PROVE Matching \cap 1..r = Matching
  <2>1. ASSUME NEW m \in Matching PROVE m \in 1..r
    <3>1. m \in 1..N /\ m \notin (r + 1)..N
      BY <1>1, <1>2, <2>1 DEF Lists!Rest
    <3> QED
      BY <1>1, <3>1
  <2> QED
    BY <2>1
<1>3. ASSUME Lists!Rest(r) # {}, NEW entry,
             entry = CHOOSE i \in Lists!Rest(r) : \A j \in Lists!Rest(r) : i <= j
      PROVE  /\ entry \in 1..N /\ entry > r
             /\ Matching \cap 1..entry = (Matching \cap 1..r) \cup {entry}
  <2>1. Lists!Rest(r) \subseteq Nat
    BY <1>1 DEF Lists!Rest
  <2>2. PICK x \in Lists!Rest(r) : \A y \in Lists!Rest(r) : ~ (<<y, x>> \in OpToRel(<, Nat))
    BY <1>3, <2>1, WFMin, NatLessThanWellFounded
  <2>3. ASSUME NEW y \in Lists!Rest(r) PROVE x <= y
    <3>1. ~ (y < x)
      BY <2>1, <2>2 DEF OpToRel
    <3> QED
      BY <2>1, <3>1
  <2>4. entry \in Lists!Rest(r) /\ \A j \in Lists!Rest(r) : entry <= j
    BY <1>3, <2>3
  <2>5. entry \in 1..N /\ entry > r /\ entry \in Matching
    BY <1>1, <2>4 DEF Lists!Rest
  <2>6. ASSUME NEW m \in Matching, m <= entry, m > r
        PROVE  m = entry
    <3>1. m \in Lists!Rest(r)
      BY <1>1, <2>5, <2>6 DEF Lists!Rest
    <3> QED
      BY <1>1, <2>4, <2>5, <2>6, <3>1
  <2>7. Matching \cap 1..entry = (Matching \cap 1..r) \cup {entry}
    BY <1>1, <2>5, <2>6
  <2> QED
    BY <2>5, <2>7
<1> QED
  BY <1>1, <1>2, <1>3 DEF Lists!Closed

(* What is known of a loop whose state, names and cursor stay. *)
LEMMA ListTypes ==
  ASSUME Lists!TypeOK, NEW l \in Loops
  PROVE  /\ N \in Nat \ {0} /\ MaxMet \in Nat /\ DirStreams # {}
         /\ loop[l] \in {"none", "running", "over", "left"} /\ lists[l] \in Lists!Databases \cup {"dir"}
         /\ met[l] \in Seq(1..N) /\ Len(met[l]) <= MaxMet /\ dir[l] \in DirStreams
         /\ \A s \in DirStreams : read[s] \in 0 .. N + 1
         /\ \A d \in Lists!Databases : cursor[d] \in 0..N
BY Assumptions DEF Lists!TypeOK, Lists!ListingsAssumption, Lists!Closed

(* listdir opens a stream that nobody has open. *)
LEMMA ListDirInv ==
  ASSUME Lists!IInv, NEW l \in Loops, Lists!ListDir(l)
  PROVE  Lists!IInv'
<1>1. Lists!TypeOK
  BY DEF Lists!IInv
<1>2. PICK s \in DirStreams \ Lists!OpenStreams :
        dir' = [dir EXCEPT ![l] = s] /\ read' = [read EXCEPT ![s] = 0]
  BY DEF Lists!ListDir
<1>3. /\ loop[l] = "none" /\ loop' = [loop EXCEPT ![l] = "running"] /\ lists' = [lists EXCEPT ![l] = "dir"]
      /\ UNCHANGED <<met, again, cursor, moved>>
  BY DEF Lists!ListDir, Lists!Begins
<1>4. /\ loop'[l] = "running" /\ lists'[l] = "dir" /\ dir'[l] = s
      /\ \A k \in Loops : k # l => loop'[k] = loop[k] /\ lists'[k] = lists[k] /\ dir'[k] = dir[k]
      /\ read'[s] = 0 /\ \A t \in DirStreams : t # s => read'[t] = read[t]
  BY <1>1, <1>2, <1>3 DEF Lists!TypeOK
<1>5. 0 # Lists!Closed /\ N \in Nat
  BY Assumptions DEF Lists!Closed, Lists!ListingsAssumption
<1>6. Lists!TypeOK'
  BY <1>1, <1>2, <1>3, <1>5 DEF Lists!TypeOK, Lists!Closed
<1>7. Lists!NamesOnce' /\ Lists!AccountsOnce' /\ Lists!NothingMet'
  BY <1>3, <1>4 DEF Lists!IInv, Lists!NamesOnce, Lists!AccountsOnce, Lists!NothingMet
<1>8. Lists!AccountsSoFar'
  BY <1>3, <1>4 DEF Lists!IInv, Lists!AccountsSoFar, Lists!RunningOn, Lists!Databases
<1>9. ASSUME ~again
      PROVE  /\ Lists!OpenStreams' = {dir'[k] : k \in Lists!Holders'}
             /\ \A k, m \in Lists!Holders' : dir'[k] = dir'[m] => k = m
             /\ \A k \in Lists!RunningOn("dir")' : Lists!Listing(met[k], Matching \cap 1..read'[dir'[k]])
  <2>1. /\ Lists!OpenStreams = {dir[k] : k \in Lists!Holders}
        /\ \A k, m \in Lists!Holders : dir[k] = dir[m] => k = m
        /\ \A k \in Lists!RunningOn("dir") : Lists!Listing(met[k], Matching \cap 1..read[dir[k]])
    BY <1>9 DEF Lists!IInv, Lists!OnlyLeftOpen, Lists!NamesSoFar
  <2>2. Lists!Holders' = Lists!Holders \cup {l} /\ l \notin Lists!Holders
    BY <1>3, <1>4 DEF Lists!Holders
  <2>3. Lists!OpenStreams' = Lists!OpenStreams \cup {s}
    BY <1>2, <1>4, <1>5 DEF Lists!OpenStreams, Lists!Closed
  <2>4. \A k \in Lists!Holders : dir'[k] = dir[k] /\ dir[k] # s
    BY <1>2, <1>4, <2>1, <2>2 DEF Lists!Holders
  <2>5. {dir'[k] : k \in Lists!Holders'} = {dir[k] : k \in Lists!Holders} \cup {s}
    BY <1>4, <2>2, <2>4
  <2>6. \A k, m \in Lists!Holders' : dir'[k] = dir'[m] => k = m
    BY <1>4, <2>1, <2>2, <2>4
  <2>7. ASSUME NEW k \in Lists!RunningOn("dir")'
        PROVE  Lists!Listing(met[k], Matching \cap 1..read'[dir'[k]])
    <3>1. CASE k = l
      <4>1. met[l] = <<>>
        BY <1>3 DEF Lists!IInv, Lists!NothingMet
      <4>2. Matching \cap 1..0 = {} /\ read'[dir'[k]] = 0
        BY <1>4, <3>1
      <4>3. Lists!Listing(<<>>, {})
        BY DEF Lists!Listing, Lists!Range
      <4> QED
        BY <3>1, <4>1, <4>2, <4>3
    <3>2. CASE k # l
      <4>1. k \in Lists!RunningOn("dir") /\ k \in Lists!Holders
        BY <1>4, <2>7, <3>2 DEF Lists!RunningOn, Lists!Holders
      <4>2. dir'[k] = dir[k] /\ dir[k] \in DirStreams /\ read'[dir[k]] = read[dir[k]]
        BY <1>1, <1>4, <2>4, <4>1, ListTypes DEF Lists!Holders
      <4> QED
        BY <2>1, <4>1, <4>2
    <3> QED
      BY <3>1, <3>2
  <2> QED
    BY <2>1, <2>3, <2>5, <2>6, <2>7
<1>10. Lists!OnlyLeftOpen' /\ Lists!NamesSoFar'
  BY <1>3, <1>9 DEF Lists!OnlyLeftOpen, Lists!NamesSoFar
<1> QED
  BY <1>6, <1>7, <1>8, <1>10 DEF Lists!IInv

(* A loop is left: what it has open stays open. *)
LEMMA LeaveInv ==
  ASSUME Lists!IInv, NEW l \in Loops, Lists!Leave(l)
  PROVE  Lists!IInv'
<1>1. Lists!TypeOK
  BY DEF Lists!IInv
<1>2. /\ loop[l] = "running" /\ loop' = [loop EXCEPT ![l] = "left"]
      /\ UNCHANGED <<lists, met, dir, read, cursor, moved, again>>
  BY DEF Lists!Leave
<1>3. loop'[l] = "left" /\ \A k \in Loops : k # l => loop'[k] = loop[k]
  BY <1>1, <1>2 DEF Lists!TypeOK
<1>4. Lists!TypeOK'
  BY <1>1, <1>2 DEF Lists!TypeOK
<1>5. Lists!NamesOnce' /\ Lists!AccountsOnce' /\ Lists!NothingMet'
  BY <1>2, <1>3 DEF Lists!IInv, Lists!NamesOnce, Lists!AccountsOnce, Lists!NothingMet
<1>6. Lists!Holders' = Lists!Holders /\ Lists!OpenStreams' = Lists!OpenStreams
  BY <1>2, <1>3 DEF Lists!Holders, Lists!OpenStreams
<1>7. Lists!OnlyLeftOpen'
  BY <1>2, <1>6 DEF Lists!IInv, Lists!OnlyLeftOpen
<1>8. \A what : Lists!RunningOn(what)' \subseteq Lists!RunningOn(what)
  BY <1>2, <1>3 DEF Lists!RunningOn
<1>9. Lists!NamesSoFar' /\ Lists!AccountsSoFar'
  BY <1>2, <1>8 DEF Lists!IInv, Lists!NamesSoFar, Lists!AccountsSoFar
<1> QED
  BY <1>4, <1>5, <1>7, <1>9 DEF Lists!IInv

(* A step of the reader of a stream is typed, whoever calls it. *)
LEMMA ReadEntryTyped ==
  ASSUME Lists!TypeOK, NEW l \in Loops, dir[l] \in Lists!OpenStreams, Lists!ReadEntry(l, dir[l]), again' \in BOOLEAN
  PROVE  Lists!TypeOK'
<1>1. /\ dir[l] \in DirStreams /\ read[dir[l]] \in 0..N /\ N \in Nat /\ MaxMet \in Nat
      /\ met[l] \in Seq(1..N) /\ Len(met[l]) <= MaxMet
  BY ListTypes DEF Lists!OpenStreams, Lists!Closed
<1>2. UNCHANGED <<lists, dir, cursor, moved>>
  BY DEF Lists!ReadEntry
<1>3. CASE Lists!Rest(read[dir[l]]) # {}
  <2>1. PICK entry \in 1..N :
          /\ Len(met[l]) < MaxMet /\ met' = [met EXCEPT ![l] = Append(@, entry)] /\ loop' = loop
          /\ read' = [read EXCEPT ![dir[l]] = entry]
    BY <1>1, <1>3, NextEntry DEF Lists!ReadEntry, Lists!Meets
  <2>2. Append(met[l], entry) \in Seq(1..N) /\ Len(Append(met[l], entry)) <= MaxMet
    BY <1>1, <2>1
  <2>3. met' \in [Loops -> Seq(1..N)] /\ \A k \in Loops : Len(met'[k]) <= MaxMet
    BY <2>1, <2>2 DEF Lists!TypeOK
  <2>4. read' \in [DirStreams -> 0..Lists!Closed]
    BY <1>1, <2>1 DEF Lists!TypeOK, Lists!Closed
  <2> QED
    BY <1>2, <2>1, <2>3, <2>4 DEF Lists!TypeOK
<1>4. CASE Lists!Rest(read[dir[l]]) = {}
  <2>1. /\ loop' = [loop EXCEPT ![l] = "over"] /\ met' = met /\ read' = [read EXCEPT ![dir[l]] = Lists!Closed]
    BY <1>4 DEF Lists!ReadEntry, Lists!Ends, Lists!AfterLast
  <2>2. read' \in [DirStreams -> 0..Lists!Closed]
    BY <1>1, <2>1 DEF Lists!TypeOK, Lists!Closed
  <2> QED
    BY <1>2, <2>1, <2>2 DEF Lists!TypeOK
<1> QED
  BY <1>3, <1>4

(* It leaves the loops over accounts alone. *)
LEMMA ReadEntryAccounts ==
  ASSUME Lists!IInv, NEW l \in Loops, lists[l] = "dir", loop[l] # "none", Lists!ReadEntry(l, dir[l])
  PROVE  Lists!AccountsOnce' /\ Lists!AccountsSoFar' /\ Lists!NothingMet'
<1>1. Lists!TypeOK
  BY DEF Lists!IInv
<1>2. /\ UNCHANGED <<lists, cursor, moved>>
      /\ loop' = loop \/ loop' = [loop EXCEPT ![l] = "over"]
      /\ met' = met \/ \E entry : met' = [met EXCEPT ![l] = Append(@, entry)]
  BY DEF Lists!ReadEntry, Lists!Meets, Lists!Ends
<1>3. /\ \A k \in Loops : k # l => loop'[k] = loop[k] /\ met'[k] = met[k]
      /\ loop'[l] # "none"
  BY <1>1, <1>2 DEF Lists!TypeOK
<1>4. Lists!AccountsOnce' /\ Lists!NothingMet'
  BY <1>2, <1>3 DEF Lists!IInv, Lists!AccountsOnce, Lists!NothingMet
<1>5. \A d \in Lists!Databases : Lists!RunningOn(d)' = Lists!RunningOn(d) /\ l \notin Lists!RunningOn(d)
  BY <1>2, <1>3 DEF Lists!RunningOn, Lists!Databases
<1>6. Lists!AccountsSoFar'
  <2> SUFFICES ASSUME NEW d \in Lists!Databases, NEW k \in Lists!RunningOn(d) \ moved
               PROVE  met'[k] = [i \in 1..cursor[d] |-> i]
    BY <1>2, <1>5 DEF Lists!AccountsSoFar
  <2>1. k # l /\ k \in Loops
    BY <1>5 DEF Lists!RunningOn
  <2> QED
    BY <1>3, <2>1 DEF Lists!IInv, Lists!AccountsSoFar
<1> QED
  BY <1>4, <1>6

(* The iterator of a directory goes on, or closes its stream at the end. *)
LEMMA NextNameInv ==
  ASSUME Lists!IInv, NEW l \in Loops, Lists!NextName(l), ~again
  PROVE  Lists!IInv'
<1>1. Lists!TypeOK
  BY DEF Lists!IInv
<1>2. /\ l \in Lists!RunningOn("dir") /\ Lists!ReadEntry(l, dir[l])
      /\ UNCHANGED <<lists, dir, cursor, moved, again>>
  BY DEF Lists!NextName, Lists!ReadEntry
<1>3. /\ Lists!OpenStreams = {dir[k] : k \in Lists!Holders}
      /\ \A k, m \in Lists!Holders : dir[k] = dir[m] => k = m
      /\ \A k \in Lists!RunningOn("dir") : Lists!Listing(met[k], Matching \cap 1..read[dir[k]])
  BY DEF Lists!IInv, Lists!OnlyLeftOpen, Lists!NamesSoFar
<1>4. l \in Lists!Holders /\ loop[l] = "running" /\ lists[l] = "dir" /\ dir[l] \in Lists!OpenStreams
  BY <1>2, <1>3 DEF Lists!RunningOn, Lists!Holders
<1>5. Lists!TypeOK'
  BY <1>1, <1>2, <1>4, ReadEntryTyped DEF Lists!TypeOK
<1>6. /\ dir[l] \in DirStreams /\ read[dir[l]] \in 0..N /\ N \in Nat /\ met[l] \in Seq(1..N)
      /\ Lists!Closed = N + 1
  BY <1>1, <1>4, ListTypes DEF Lists!OpenStreams, Lists!Closed
<1>7. \A k \in Lists!Holders : k # l => dir[k] # dir[l]
  BY <1>3, <1>4
<1>10. Lists!AccountsOnce' /\ Lists!AccountsSoFar' /\ Lists!NothingMet'
  BY <1>2, <1>4, ReadEntryAccounts DEF Lists!Holders
<1>8. CASE Lists!Rest(read[dir[l]]) # {}
  <2>1. PICK entry \in 1..N :
          /\ entry > read[dir[l]]
          /\ Matching \cap 1..entry = (Matching \cap 1..read[dir[l]]) \cup {entry}
          /\ met' = [met EXCEPT ![l] = Append(@, entry)] /\ loop' = loop
          /\ read' = [read EXCEPT ![dir[l]] = entry]
    BY <1>2, <1>6, <1>8, NextEntry DEF Lists!ReadEntry, Lists!Meets
  <2>2. /\ met'[l] = Append(met[l], entry) /\ \A k \in Loops : k # l => met'[k] = met[k]
        /\ read'[dir[l]] = entry /\ \A s \in DirStreams : s # dir[l] => read'[s] = read[s]
    BY <1>1, <1>6, <2>1 DEF Lists!TypeOK
  <2>3. Lists!Holders' = Lists!Holders /\ Lists!OpenStreams' = Lists!OpenStreams
    BY <1>2, <1>4, <1>6, <2>1, <2>2 DEF Lists!Holders, Lists!OpenStreams, Lists!Closed
  <2>4. Lists!OnlyLeftOpen'
    BY <1>2, <1>3, <2>3 DEF Lists!OnlyLeftOpen
  <2>5. Lists!Listing(met'[l], Matching \cap 1..entry)
    <3>1. met[l] \in Seq(Int) /\ (Matching \cap 1..read[dir[l]]) \in SUBSET Int /\ entry \in Int
          /\ \A x \in Matching \cap 1..read[dir[l]] : x < entry
      BY <1>6, <2>1
    <3>2. Lists!Listing(met[l], Matching \cap 1..read[dir[l]])
      BY <1>2, <1>3
    <3>3. Lists!Listing(Append(met[l], entry), (Matching \cap 1..read[dir[l]]) \cup {entry})
      BY <3>1, <3>2, ListingGrows, Zenon
    <3> QED
      BY <2>1, <2>2, <3>3
  <2>6. ASSUME NEW k \in Lists!RunningOn("dir")'
        PROVE  Lists!Listing(met'[k], Matching \cap 1..read'[dir'[k]])
    <3>1. CASE k = l
      BY <1>2, <2>2, <2>5, <3>1
    <3>2. CASE k # l
      <4>1. k \in Lists!RunningOn("dir") /\ k \in Lists!Holders /\ k \in Loops /\ dir[k] \in DirStreams
        BY <1>1, <1>2, <2>1, <2>6, ListTypes DEF Lists!RunningOn, Lists!Holders
      <4>2. met'[k] = met[k] /\ dir'[k] = dir[k] /\ read'[dir[k]] = read[dir[k]]
        BY <1>2, <1>7, <2>2, <3>2, <4>1
      <4> QED
        BY <1>3, <4>1, <4>2
    <3> QED
      BY <3>1, <3>2
  <2>7. Lists!NamesSoFar'
    BY <2>6 DEF Lists!NamesSoFar
  <2>8. Lists!NamesOnce'
    BY <1>2, <1>4, <2>1, <2>2 DEF Lists!IInv, Lists!NamesOnce
  <2> QED
    BY <1>5, <1>10, <2>4, <2>7, <2>8 DEF Lists!IInv
<1>9. CASE Lists!Rest(read[dir[l]]) = {}
  <2>1. /\ loop' = [loop EXCEPT ![l] = "over"] /\ met' = met /\ read' = [read EXCEPT ![dir[l]] = Lists!Closed]
    BY <1>2, <1>9 DEF Lists!ReadEntry, Lists!Ends, Lists!AfterLast
  <2>2. /\ loop'[l] = "over" /\ \A k \in Loops : k # l => loop'[k] = loop[k]
        /\ read'[dir[l]] = Lists!Closed /\ \A s \in DirStreams : s # dir[l] => read'[s] = read[s]
    BY <1>1, <1>6, <2>1 DEF Lists!TypeOK
  <2>3. Lists!Holders' = Lists!Holders \ {l} /\ Lists!OpenStreams' = Lists!OpenStreams \ {dir[l]}
    BY <1>2, <1>4, <1>6, <2>2 DEF Lists!Holders, Lists!OpenStreams, Lists!Closed
  <2>4. Lists!OnlyLeftOpen'
    BY <1>2, <1>3, <1>4, <1>7, <2>3 DEF Lists!OnlyLeftOpen
  <2>5. Lists!Listing(met[l], Matching)
    BY <1>2, <1>3, <1>6, <1>9, NextEntry
  <2>6. Lists!NamesOnce'
    BY <1>2, <2>1, <2>2, <2>5 DEF Lists!IInv, Lists!NamesOnce
  <2>7. \A what : Lists!RunningOn(what)' \subseteq Lists!RunningOn(what) \ {l}
    BY <1>2, <2>2 DEF Lists!RunningOn
  <2>8. ASSUME NEW k \in Lists!RunningOn("dir")'
        PROVE  Lists!Listing(met'[k], Matching \cap 1..read'[dir'[k]])
    <3>1. k \in Lists!RunningOn("dir") /\ k # l /\ k \in Loops /\ k \in Lists!Holders
      BY <2>7 DEF Lists!RunningOn, Lists!Holders
    <3>2. dir'[k] = dir[k] /\ dir[k] \in DirStreams /\ read'[dir[k]] = read[dir[k]]
      BY <1>1, <1>2, <1>7, <2>2, <3>1, ListTypes
    <3> QED
      BY <1>3, <2>1, <3>1, <3>2
  <2>9. Lists!NamesSoFar'
    BY <2>8 DEF Lists!NamesSoFar
  <2> QED
    BY <1>5, <1>10, <2>4, <2>6, <2>9 DEF Lists!IInv
<1> QED
  BY <1>8, <1>9

(* An iterator is called after its end: what loops over accounts meet is    *)
(* what it was, and the loops over directories promise nothing any more.   *)
LEMMA CalledAgainInv ==
  ASSUME Lists!IInv, NEW l \in Loops, Lists!CalledAgain(l) \/ (Lists!NextName(l) /\ again)
  PROVE  Lists!IInv'
<1>1. Lists!TypeOK
  BY DEF Lists!IInv
<1>2. /\ lists[l] = "dir" /\ loop[l] # "none" /\ Lists!ReadEntry(l, dir[l]) /\ again' = TRUE
  BY <1>1 DEF Lists!CalledAgain, Lists!NextName, Lists!RunningOn, Lists!TypeOK
<1>3. Lists!AccountsOnce' /\ Lists!AccountsSoFar' /\ Lists!NothingMet'
  BY <1>2, ReadEntryAccounts
<1>4. Lists!NamesOnce' /\ Lists!OnlyLeftOpen' /\ Lists!NamesSoFar'
  BY <1>2 DEF Lists!NamesOnce, Lists!OnlyLeftOpen, Lists!NamesSoFar
<1>5. dir[l] \in Lists!OpenStreams
  BY DEF Lists!CalledAgain, Lists!NextName
<1>6. Lists!TypeOK'
  BY <1>1, <1>2, <1>5, ReadEntryTyped
<1> QED
  BY <1>3, <1>4, <1>6 DEF Lists!IInv

(* A loop over accounts begins: the database is rewound for it, and whoever *)
(* else reads the same one is disturbed.                                   *)
LEMMA GetAllInv ==
  ASSUME Lists!IInv, NEW l \in Loops, NEW d \in Lists!Databases, Lists!GetAll(l, d)
  PROVE  Lists!IInv'
<1>1. Lists!TypeOK
  BY DEF Lists!IInv
<1>2. /\ loop[l] = "none" /\ loop' = [loop EXCEPT ![l] = "running"] /\ lists' = [lists EXCEPT ![l] = d]
      /\ cursor' = [cursor EXCEPT ![d] = 0] /\ moved' = moved \cup (Lists!RunningOn(d) \ {l})
      /\ UNCHANGED <<met, again, dir, read>>
  BY DEF Lists!GetAll, Lists!Begins, Lists!StartOf, Lists!Disturb
<1>3. /\ loop'[l] = "running" /\ lists'[l] = d /\ d # "dir"
      /\ \A k \in Loops : k # l => loop'[k] = loop[k] /\ lists'[k] = lists[k]
      /\ cursor'[d] = 0 /\ \A c \in Lists!Databases : c # d => cursor'[c] = cursor[c]
  BY <1>1, <1>2 DEF Lists!TypeOK, Lists!Databases
<1>4. 0 \in 0..N /\ Lists!RunningOn(d) \subseteq Loops
  BY ListTypes, <1>1 DEF Lists!RunningOn
<1>5. Lists!TypeOK'
  BY <1>1, <1>2, <1>4 DEF Lists!TypeOK
<1>6. Lists!NamesOnce' /\ Lists!NothingMet' /\ Lists!AccountsOnce'
  BY <1>2, <1>3 DEF Lists!IInv, Lists!NamesOnce, Lists!AccountsOnce, Lists!NothingMet
<1>7. Lists!Holders' = Lists!Holders /\ Lists!OpenStreams' = Lists!OpenStreams
      /\ Lists!RunningOn("dir")' = Lists!RunningOn("dir")
  BY <1>2, <1>3 DEF Lists!Holders, Lists!OpenStreams, Lists!RunningOn
<1>8. Lists!OnlyLeftOpen' /\ Lists!NamesSoFar'
  BY <1>2, <1>7 DEF Lists!IInv, Lists!OnlyLeftOpen, Lists!NamesSoFar
<1>9. Lists!AccountsSoFar'
  <2> SUFFICES ASSUME NEW c \in Lists!Databases, NEW k \in Lists!RunningOn(c)' \ moved'
               PROVE  met'[k] = [i \in 1..cursor'[c] |-> i]
    BY DEF Lists!AccountsSoFar
  <2>1. k \in Loops /\ loop'[k] = "running" /\ lists'[k] = c /\ k \notin moved
    BY <1>2 DEF Lists!RunningOn
  <2>2. CASE k = l
    <3>1. met'[k] = <<>> /\ cursor'[c] = 0
      BY <1>2, <1>3, <2>1, <2>2 DEF Lists!IInv, Lists!NothingMet
    <3> QED
      BY <3>1
  <2>3. CASE k # l
    <3>1. k \in Lists!RunningOn(c)
      BY <1>3, <2>1, <2>3 DEF Lists!RunningOn
    <3>2. c # d
      BY <1>2, <2>3, <3>1
    <3> QED
      BY <1>2, <1>3, <2>1, <3>1, <3>2 DEF Lists!IInv, Lists!AccountsSoFar
  <2> QED
    BY <2>2, <2>3
<1> QED
  BY <1>5, <1>6, <1>8, <1>9 DEF Lists!IInv

(* The iterator of accounts goes on with the one cursor of its database, or *)
(* ends, and whoever else reads that one is disturbed.                     *)
LEMMA NextOfInv ==
  ASSUME Lists!IInv, NEW l \in Loops, NEW d \in Lists!Databases, Lists!NextOf(l, d)
  PROVE  Lists!IInv'
<1>1. Lists!TypeOK
  BY DEF Lists!IInv
<1>2. /\ l \in Lists!RunningOn(d) /\ moved' = moved \cup (Lists!RunningOn(d) \ {l})
      /\ UNCHANGED <<lists, dir, read, again>>
  BY DEF Lists!NextOf, Lists!Disturb
<1>3. /\ cursor[d] \in 0..N /\ N \in Nat /\ MaxMet \in Nat /\ met[l] \in Seq(1..N)
      /\ loop[l] = "running" /\ lists[l] = d /\ d # "dir" /\ Lists!RunningOn(d) \subseteq Loops
  BY <1>1, <1>2, ListTypes DEF Lists!RunningOn, Lists!Databases
<1>4. \/ /\ cursor[d] < N /\ Len(met[l]) < MaxMet /\ loop' = loop
         /\ met' = [met EXCEPT ![l] = Append(@, cursor[d] + 1)] /\ cursor' = [cursor EXCEPT ![d] = @ + 1]
      \/ /\ ~ (cursor[d] < N) /\ loop' = [loop EXCEPT ![l] = "over"] /\ met' = met
         /\ cursor' = [cursor EXCEPT ![d] = 0]
  BY DEF Lists!NextOf, Lists!More, Lists!Meets, Lists!Ends
<1>5. /\ \A k \in Loops : k # l => loop'[k] = loop[k] /\ met'[k] = met[k]
      /\ \A c \in Lists!Databases : c # d => cursor'[c] = cursor[c]
  BY <1>1, <1>4 DEF Lists!TypeOK
<1>6. \/ /\ cursor[d] < N /\ loop' = loop /\ cursor'[d] = cursor[d] + 1
         /\ met'[l] = Append(met[l], cursor[d] + 1)
      \/ cursor[d] = N /\ loop'[l] = "over" /\ met' = met
  BY <1>1, <1>3, <1>4 DEF Lists!TypeOK
<1>7. l \notin moved => met[l] = [i \in 1..cursor[d] |-> i]
  BY <1>2 DEF Lists!IInv, Lists!AccountsSoFar
<1>8. Lists!TypeOK'
  <2>1. loop' \in [Loops -> {"none", "running", "over", "left"}] /\ moved' \subseteq Loops
    BY <1>1, <1>2, <1>3, <1>4 DEF Lists!TypeOK
  <2>2. cursor' \in [Lists!Databases -> 0..N]
    <3>1. cursor[d] < N => cursor[d] + 1 \in 0..N
      BY <1>3
    <3>2. 0 \in 0..N
      BY <1>3
    <3> QED
      BY <1>1, <1>4, <3>1, <3>2 DEF Lists!TypeOK
  <2>3. cursor[d] < N => Append(met[l], cursor[d] + 1) \in Seq(1..N)
    BY <1>3
  <2>4. Len(Append(met[l], cursor[d] + 1)) = Len(met[l]) + 1 /\ Len(met[l]) \in Nat
    BY <1>3
  <2>5. met' \in [Loops -> Seq(1..N)]
    BY <1>1, <1>4, <2>3 DEF Lists!TypeOK
  <2>6. \A k \in Loops : Len(met'[k]) <= MaxMet
    BY <1>1, <1>3, <1>4, <1>5, <1>6, <2>4 DEF Lists!TypeOK
  <2> QED
    BY <1>1, <1>2, <2>1, <2>2, <2>5, <2>6 DEF Lists!TypeOK
<1>9. Lists!NamesOnce' /\ Lists!NothingMet'
  BY <1>2, <1>3, <1>5, <1>6 DEF Lists!IInv, Lists!NamesOnce, Lists!NothingMet
<1>10. Lists!AccountsOnce'
  <2> SUFFICES ASSUME NEW k \in Loops, loop'[k] = "over", lists[k] # "dir", k \notin moved'
               PROVE  met'[k] = [i \in 1..N |-> i]
    BY <1>2 DEF Lists!AccountsOnce
  <2>1. CASE k = l
    BY <1>2, <1>3, <1>6, <1>7, <2>1
  <2>2. CASE k # l
    BY <1>2, <1>5, <2>2 DEF Lists!IInv, Lists!AccountsOnce
  <2> QED
    BY <2>1, <2>2
<1>11. Lists!Holders' = Lists!Holders /\ Lists!OpenStreams' = Lists!OpenStreams
       /\ Lists!RunningOn("dir")' = Lists!RunningOn("dir") /\ l \notin Lists!RunningOn("dir")
  BY <1>2, <1>3, <1>5 DEF Lists!Holders, Lists!OpenStreams, Lists!RunningOn
<1>12. \A k \in Lists!RunningOn("dir") : met'[k] = met[k]
  BY <1>5, <1>11 DEF Lists!RunningOn
<1>13. Lists!OnlyLeftOpen' /\ Lists!NamesSoFar'
  BY <1>2, <1>11, <1>12 DEF Lists!IInv, Lists!OnlyLeftOpen, Lists!NamesSoFar
<1>14. Lists!AccountsSoFar'
  <2> SUFFICES ASSUME NEW c \in Lists!Databases, NEW k \in Lists!RunningOn(c)' \ moved'
               PROVE  met'[k] = [i \in 1..cursor'[c] |-> i]
    BY DEF Lists!AccountsSoFar
  <2>1. k \in Loops /\ loop'[k] = "running" /\ lists[k] = c /\ k \notin moved
    BY <1>2 DEF Lists!RunningOn
  <2>2. CASE k = l
    <3>1. c = d /\ cursor'[d] = cursor[d] + 1 /\ met'[l] = Append([i \in 1..cursor[d] |-> i], cursor[d] + 1)
      BY <1>3, <1>6, <1>7, <2>1, <2>2
    <3>2. Append([i \in 1..cursor[d] |-> i], cursor[d] + 1) = [i \in 1..(cursor[d] + 1) |-> i]
      BY <1>3
    <3> QED
      BY <2>2, <3>1, <3>2
  <2>3. CASE k # l
    <3>1. k \in Lists!RunningOn(c)
      BY <1>5, <2>1, <2>3 DEF Lists!RunningOn
    <3>2. c # d
      BY <1>2, <2>3, <3>1
    <3> QED
      BY <1>5, <2>1, <2>3, <3>1, <3>2 DEF Lists!IInv, Lists!AccountsSoFar
  <2> QED
    BY <2>2, <2>3
<1> QED
  BY <1>8, <1>9, <1>10, <1>13, <1>14 DEF Lists!IInv

(* Every step of a loop keeps the inductive invariant. *)
LEMMA ListsNextInv ==
  ASSUME Lists!IInv, Lists!Next
  PROVE  Lists!IInv'
<1> PICK l \in Loops :
      \/ Lists!ListDir(l) \/ Lists!NextName(l) \/ Lists!CalledAgain(l) \/ Lists!Leave(l)
      \/ Lists!GetPwAll(l) \/ Lists!GetGrAll(l) \/ Lists!GetSpAll(l)
      \/ Lists!NextPasswd(l) \/ Lists!NextGroup(l) \/ Lists!NextSpwd(l)
  BY DEF Lists!Next
<1> {"passwd", "group", "shadow"} \subseteq Lists!Databases
  BY DEF Lists!Databases
<1>1. CASE Lists!ListDir(l) \/ Lists!Leave(l)
  BY <1>1, ListDirInv, LeaveInv
<1>2. CASE Lists!NextName(l) \/ Lists!CalledAgain(l)
  BY <1>2, NextNameInv, CalledAgainInv
<1>3. CASE Lists!GetPwAll(l) \/ Lists!GetGrAll(l) \/ Lists!GetSpAll(l)
  BY <1>3, GetAllInv DEF Lists!GetPwAll, Lists!GetGrAll, Lists!GetSpAll
<1>4. CASE Lists!NextPasswd(l) \/ Lists!NextGroup(l) \/ Lists!NextSpwd(l)
  BY <1>4, NextOfInv DEF Lists!NextPasswd, Lists!NextGroup, Lists!NextSpwd
<1> QED
  BY <1>1, <1>2, <1>3, <1>4

(* The first state: no loop has begun, and every stream is closed. *)
LEMMA ListsInit == Lists!Init => Lists!IInv
<1> SUFFICES ASSUME Lists!Init
             PROVE  Lists!IInv
  OBVIOUS
<1>1. N \in Nat \ {0} /\ MaxMet \in Nat \ {0} /\ DirStreams # {}
  BY Assumptions DEF Lists!ListingsAssumption
<1>2. \A l \in Loops : loop[l] = "none" /\ met[l] = <<>>
  BY DEF Lists!Init
<1>3. Lists!TypeOK
  <2>1. <<>> \in Seq(1..N) /\ Len(<<>>) = 0 /\ 0 \in 0..N /\ Lists!Closed \in 0..Lists!Closed
    BY <1>1 DEF Lists!Closed
  <2>2. (CHOOSE s \in DirStreams : TRUE) \in DirStreams
    BY <1>1
  <2>3. met \in [Loops -> Seq(1..N)] /\ dir \in [Loops -> DirStreams] /\ read \in [DirStreams -> 0..Lists!Closed]
    BY <2>1, <2>2 DEF Lists!Init
  <2>4. \A l \in Loops : Len(met[l]) <= MaxMet
    BY <1>1, <1>2, <2>1
  <2> QED
    BY <2>1, <2>3, <2>4 DEF Lists!Init, Lists!TypeOK
<1>4. Lists!OpenStreams = {} /\ Lists!Holders = {} /\ \A what : Lists!RunningOn(what) = {}
  BY <1>2 DEF Lists!Init, Lists!OpenStreams, Lists!Holders, Lists!RunningOn
<1> QED
  BY <1>2, <1>3, <1>4 DEF Lists!IInv, Lists!NamesOnce, Lists!AccountsOnce, Lists!OnlyLeftOpen,
     Lists!NamesSoFar, Lists!AccountsSoFar, Lists!NothingMet

(* A step of another part. *)
LEMMA ListsStutter ==
  ASSUME Lists!IInv, UNCHANGED listVars
  PROVE  Lists!IInv'
<1>1. UNCHANGED <<loop, lists, met, dir, read, cursor, moved, again>>
  BY DEF listVars
<1>2. /\ Lists!OpenStreams' = Lists!OpenStreams /\ Lists!Holders' = Lists!Holders
      /\ \A what : Lists!RunningOn(what)' = Lists!RunningOn(what)
  BY <1>1 DEF Lists!OpenStreams, Lists!Holders, Lists!RunningOn
<1>3. Lists!TypeOK' /\ Lists!NamesOnce' /\ Lists!AccountsOnce' /\ Lists!NothingMet'
  BY <1>1 DEF Lists!IInv, Lists!TypeOK, Lists!NamesOnce, Lists!AccountsOnce, Lists!NothingMet
<1>4. Lists!OnlyLeftOpen' /\ Lists!NamesSoFar' /\ Lists!AccountsSoFar'
  BY <1>1, <1>2 DEF Lists!IInv, Lists!OnlyLeftOpen, Lists!NamesSoFar, Lists!AccountsSoFar
<1> QED
  BY <1>3, <1>4 DEF Lists!IInv

-----------------------------------------------------------------------------
(* Semaphores: what semop is asked, and what it answers. *)

(* The kinds of the constants of SvSem. *)
LEMMA SemTypes ==
  /\ NSems \in Nat \ {0} /\ Semaphores!Limit \in Nat /\ Semaphores!NoObject \in Semaphores!Objects
  /\ Semaphores!NoCall \in Semaphores!Calls /\ Semaphores!NoAnswer \in Semaphores!Answers
  /\ Semaphores!EmptySlot \in Semaphores!Slot
<1>1. NSems \in Nat \ {0}
  BY Assumptions DEF Semaphores!SemAssumption
<1>2. Semaphores!Limit \in Nat /\ Semaphores!EmptySlot \in Semaphores!Slot
  BY <1>1 DEF Semaphores!Limit, Semaphores!EmptySlot, Semaphores!Slot, Semaphores!Sems
<1>3. Semaphores!NoObject \in Semaphores!Objects
  BY <1>2 DEF Semaphores!NoObject, Semaphores!Objects
<1>4. Semaphores!NoCall \in Semaphores!Calls /\ Semaphores!NoAnswer \in Semaphores!Answers
  BY DEF Semaphores!NoCall, Semaphores!Calls, Semaphores!NoAnswer, Semaphores!Answers
<1> QED
  BY <1>1, <1>2, <1>3, <1>4

(* What the invariant says of one process. *)
InUse(o, a) ==
  /\ o \in Semaphores!Objects /\ a \in Seq(Semaphores!Sems \X Int)
  /\ Len(a) = o.nops /\ (o.set = 0 => a = <<>>)
  /\ \A i \in 1 .. o.nops : a[i] = <<o.sops[i].num, o.sops[i].op>> /\ ~o.sops[i].nowait

Asked(c) ==
  /\ c \in Semaphores!Calls
  /\ \A i \in DOMAIN c.ops : c.ops[i].nowait = c.nowait
  /\ c.asked = [i \in DOMAIN c.ops |-> <<c.ops[i].num, c.ops[i].op>>]

Told(w) ==
  /\ w \in Semaphores!Answers
  /\ w.why = "EAGAIN" => w.nowait
  /\ w.why = "EINTR" => ~w.nowait

OrdersOk ==
  /\ semObject \in [Processes -> Semaphores!Objects] /\ semCall \in [Processes -> Semaphores!Calls]
  /\ answer \in [Processes -> Semaphores!Answers]
  /\ added \in [Processes -> Seq(Semaphores!Sems \X Int)] /\ sets \in Nat
  /\ \A p \in Processes : InUse(semObject[p], added[p]) /\ Asked(semCall[p]) /\ Told(answer[p])

(* The inductive invariant, process by process. *)
LEMMA OrdersAreOk == Semaphores!OrdersInv <=> operands \in OpSets /\ OrdersOk
BY DEF Semaphores!OrdersInv, Semaphores!OrdersTyped, Semaphores!InUseIsAdded, Semaphores!FlagOnAllOrNone,
   Semaphores!DoesWhatWasAdded, Semaphores!WaitsUnlessTold, Semaphores!Entries, Semaphores!Has,
   OrdersOk, InUse, Asked, Told

(* An object that is new has nothing to ask for. *)
LEMMA NothingInUse ==
  /\ InUse(Semaphores!NoObject, <<>>) /\ Asked(Semaphores!NoCall) /\ Told(Semaphores!NoAnswer)
  /\ \A n \in Nat : InUse([Semaphores!NoObject EXCEPT !.set = n], <<>>)
<1>1. Len(<<>>) = 0 /\ 1 .. 0 = {} /\ <<>> \in Seq(Semaphores!Sems \X Int) /\ DOMAIN <<>> = {}
  OBVIOUS
<1>2. Semaphores!NoObject.nops = 0 /\ InUse(Semaphores!NoObject, <<>>)
  BY <1>1, SemTypes DEF InUse, Semaphores!NoObject
<1>3. ASSUME NEW n \in Nat PROVE InUse([Semaphores!NoObject EXCEPT !.set = n], <<>>)
  <2>1. [Semaphores!NoObject EXCEPT !.set = n] \in Semaphores!Objects
    BY SemTypes DEF Semaphores!Objects
  <2>2. [Semaphores!NoObject EXCEPT !.set = n].nops = 0
    BY DEF Semaphores!NoObject
  <2> QED
    BY <1>1, <2>1, <2>2 DEF InUse
<1>4. Asked(Semaphores!NoCall) /\ Told(Semaphores!NoAnswer)
  BY <1>1, SemTypes DEF Asked, Told, Semaphores!NoCall, Semaphores!NoAnswer
<1> QED
  BY <1>2, <1>3, <1>4

(* A step of one process. *)
LEMMA OneProcess ==
  ASSUME OrdersOk, NEW p \in Processes, NEW o, NEW a, NEW c, NEW w, InUse(o, a), Asked(c), Told(w), sets' \in Nat,
         semObject' = [semObject EXCEPT ![p] = o], added' = [added EXCEPT ![p] = a],
         semCall' = [semCall EXCEPT ![p] = c], answer' = [answer EXCEPT ![p] = w]
  PROVE  OrdersOk'
<1>1. /\ semObject'[p] = o /\ added'[p] = a /\ semCall'[p] = c /\ answer'[p] = w
      /\ \A q \in Processes : q # p => /\ semObject'[q] = semObject[q] /\ added'[q] = added[q]
                                     /\ semCall'[q] = semCall[q] /\ answer'[q] = answer[q]
  BY DEF OrdersOk
<1>2. /\ semObject' \in [Processes -> Semaphores!Objects] /\ semCall' \in [Processes -> Semaphores!Calls]
      /\ answer' \in [Processes -> Semaphores!Answers]
      /\ added' \in [Processes -> Seq(Semaphores!Sems \X Int)]
  BY DEF OrdersOk, InUse, Asked, Told
<1>3. \A q \in Processes : InUse(semObject'[q], added'[q]) /\ Asked(semCall'[q]) /\ Told(answer'[q])
  BY <1>1 DEF OrdersOk
<1> QED
  BY <1>2, <1>3 DEF OrdersOk

(* What a process has that a step leaves alone. *)
LEMMA SameElsewhere ==
  ASSUME OrdersOk, NEW p \in Processes
  PROVE  /\ InUse(semObject[p], added[p]) /\ Asked(semCall[p]) /\ Told(answer[p]) /\ sets \in Nat
         /\ semObject = [semObject EXCEPT ![p] = semObject[p]] /\ added = [added EXCEPT ![p] = added[p]]
         /\ semCall = [semCall EXCEPT ![p] = semCall[p]] /\ answer = [answer EXCEPT ![p] = answer[p]]
BY DEF OrdersOk

(* An operation goes to the first entry that is not in use. *)
LEMMA AddOpInv ==
  ASSUME OrdersOk, NEW p \in Processes, NEW n \in Int, NEW s \in Semaphores!Sems, Semaphores!AddOp(p, n, s),
         UNCHANGED sets
  PROVE  OrdersOk'
<1> DEFINE o == semObject[p]
           i == o.nops + 1
           new == Semaphores!NewSlot(o.sops[i], s, Semaphores!Short(n))
           op == <<s, Semaphores!Short(n)>>
<1>1. /\ InUse(o, added[p]) /\ Asked(semCall[p]) /\ sets' \in Nat /\ semObject \in [Processes -> Semaphores!Objects]
      /\ o \in Semaphores!Objects
  BY DEF OrdersOk
<1>2. /\ o.nops < Semaphores!Limit /\ o.set # 0
      /\ semObject' = [semObject EXCEPT ![p].sops[i] = new, ![p].nops = i]
      /\ added' = [added EXCEPT ![p] = Append(@, op)]
      /\ answer' = [answer EXCEPT ![p] = Semaphores!NoAnswer] /\ UNCHANGED semCall
  BY DEF Semaphores!AddOp, Semaphores!HasRoom, Semaphores!Idle, Semaphores!Has
<1>3. Semaphores!Short(n) \in Int
  <2>1. UShort \in Nat \ {0}
    BY Assumptions DEF Semaphores!SemAssumption
  <2>2. n % UShort \in Int
    BY <2>1
  <2> QED
    BY <2>1, <2>2 DEF Semaphores!Short, Semaphores!Unsigned
<1>4. /\ new \in Semaphores!Slot /\ new.num = s /\ new.op = Semaphores!Short(n) /\ new.nowait = FALSE
  BY <1>3 DEF Semaphores!NewSlot, Semaphores!Slot, Semaphores!Flags
<1>5. o.nops \in Nat /\ i \in 1 .. Semaphores!Limit /\ i \in Nat
  <2>1. o.nops \in 0 .. Semaphores!Limit /\ Semaphores!Limit \in Nat
    BY <1>1, SemTypes DEF Semaphores!Objects
  <2> QED
    BY <1>2, <2>1
<1> HIDE DEF i, new
<1>6. /\ semObject'[p].set = o.set /\ semObject'[p].nops = i /\ semObject'[p].sops = [o.sops EXCEPT ![i] = new]
      /\ semObject'[p] \in Semaphores!Objects /\ semObject' = [semObject EXCEPT ![p] = semObject'[p]]
  <2> DEFINE next == [o EXCEPT !.sops = [o.sops EXCEPT ![i] = new], !.nops = i]
  <2>1. [o.sops EXCEPT ![i] = new] \in [1 .. Semaphores!Limit -> Semaphores!Slot]
    BY <1>1, <1>4, <1>5 DEF Semaphores!Objects
  <2>2. i \in 0 .. Semaphores!Limit
    BY <1>5
  <2>3. /\ next \in Semaphores!Objects /\ next.set = o.set /\ next.nops = i
        /\ next.sops = [o.sops EXCEPT ![i] = new]
    BY <1>1, <2>1, <2>2 DEF Semaphores!Objects
  <2>4. semObject' = [semObject EXCEPT ![p] = next]
    BY <1>1, <1>2
  <2> HIDE DEF next
  <2>5. semObject'[p] = next
    BY <1>1, <2>4
  <2> QED
    BY <2>3, <2>4, <2>5
<1>7. /\ semObject'[p].sops[i] = new
      /\ \A j \in 1 .. o.nops : semObject'[p].sops[j] = o.sops[j]
  <2>1. o.sops \in [1 .. Semaphores!Limit -> Semaphores!Slot]
    BY <1>1 DEF Semaphores!Objects
  <2>2. \A j \in 1 .. o.nops : j \in 1 .. Semaphores!Limit /\ j # i
    <3>1. \A m \in Nat : m + 1 \in 1 .. Semaphores!Limit =>
            \A j \in 1 .. m : j \in 1 .. Semaphores!Limit /\ j # m + 1
      BY SemTypes
    <3> QED
      BY <1>5, <3>1 DEF i
  <2> QED
    BY <1>5, <1>6, <2>1, <2>2
<1>8. /\ added[p] \in Seq(Semaphores!Sems \X Int) /\ Len(added[p]) = o.nops
      /\ \A j \in 1 .. o.nops : added[p][j] = <<o.sops[j].num, o.sops[j].op>> /\ ~o.sops[j].nowait
  BY <1>1 DEF InUse
<1>9. op \in Semaphores!Sems \X Int
  BY <1>3
<1> HIDE DEF op
<1>10. /\ Append(added[p], op) \in Seq(Semaphores!Sems \X Int) /\ Len(Append(added[p], op)) = i
       /\ Append(added[p], op)[i] = op /\ \A j \in 1 .. o.nops : Append(added[p], op)[j] = added[p][j]
  BY <1>5, <1>8, <1>9 DEF i
<1>11. ASSUME NEW j \in 1 .. i
       PROVE  /\ Append(added[p], op)[j] = <<semObject'[p].sops[j].num, semObject'[p].sops[j].op>>
              /\ ~semObject'[p].sops[j].nowait
  <2>1. CASE j = i
    BY <1>4, <1>7, <1>10, <2>1 DEF op
  <2>2. CASE j \in 1 .. o.nops
    <3>1. semObject'[p].sops[j] = o.sops[j] /\ Append(added[p], op)[j] = added[p][j]
      BY <1>7, <1>10, <2>2
    <3>2. added[p][j] = <<o.sops[j].num, o.sops[j].op>> /\ ~o.sops[j].nowait
      BY <1>8, <2>2
    <3> QED
      BY <3>1, <3>2
  <2>3. j = i \/ j \in 1 .. o.nops
    <3>1. \A m \in Nat : \A k \in 1 .. m + 1 : k = m + 1 \/ k \in 1 .. m
      OBVIOUS
    <3> QED
      BY <1>5, <3>1 DEF i
  <2> QED
    BY <2>1, <2>2, <2>3
<1>12. InUse(semObject'[p], Append(added[p], op))
  BY <1>2, <1>6, <1>10, <1>11 DEF InUse
<1>13. added' = [added EXCEPT ![p] = Append(added[p], op)] /\ semCall' = [semCall EXCEPT ![p] = semCall[p]]
  BY <1>2, SameElsewhere
<1> QED
  BY <1>1, <1>2, <1>6, <1>12, <1>13, NothingInUse, OneProcess

(* done() gives semop what is in use, with one flag for all of it. *)
LEMMA DoneInv ==
  ASSUME OrdersOk, NEW p \in Processes, NEW nowait \in BOOLEAN, Semaphores!Done(p, nowait), UNCHANGED sets
  PROVE  OrdersOk'
<1> DEFINE o == semObject[p]
           n == o.nops
           sops == [i \in 1 .. Semaphores!Limit |-> [o.sops[i] EXCEPT !.nowait = @ \/ (nowait /\ i <= n)]]
           stale == [i \in 1 .. Semaphores!Limit |-> IF i <= 0 THEN sops[i] ELSE Semaphores!Stale(sops[i])]
           c == [ops |-> SubSeq(sops, 1, n), nowait |-> nowait, asked |-> added[p]]
           w == [why |-> "EINVAL", nowait |-> nowait]
<1>1. /\ InUse(o, added[p]) /\ Asked(semCall[p]) /\ Told(answer[p]) /\ sets' \in Nat
      /\ semObject \in [Processes -> Semaphores!Objects] /\ o \in Semaphores!Objects
  BY DEF OrdersOk
<1>2. /\ semObject' = [semObject EXCEPT ![p].nops = 0, ![p].sops = stale]
      /\ added' = [added EXCEPT ![p] = <<>>]
      /\ \/ n > 0 /\ semCall' = [semCall EXCEPT ![p] = c] /\ UNCHANGED answer
         \/ answer' = [answer EXCEPT ![p] = w] /\ UNCHANGED semCall
  BY DEF Semaphores!Done, Semaphores!OpsLeft
<1>3. n \in 0 .. Semaphores!Limit /\ Semaphores!Limit \in Nat /\ o.sops \in [1 .. Semaphores!Limit -> Semaphores!Slot]
  BY <1>1, SemTypes DEF Semaphores!Objects
<1>4. ASSUME NEW i \in 1 .. Semaphores!Limit
      PROVE  /\ sops[i] \in Semaphores!Slot /\ sops[i].num = o.sops[i].num /\ sops[i].op = o.sops[i].op
             /\ i <= n /\ ~o.sops[i].nowait => sops[i].nowait = nowait
  <2>1. o.sops[i] \in Semaphores!Slot /\ sops[i] = [o.sops[i] EXCEPT !.nowait = @ \/ (nowait /\ i <= n)]
    BY <1>3
  <2> QED
    BY <2>1 DEF Semaphores!Slot
<1>5. sops \in [1 .. Semaphores!Limit -> Semaphores!Slot]
  BY <1>4
<1> HIDE DEF sops
<1>6. ASSUME NEW slot1 \in Semaphores!Slot PROVE Semaphores!Stale(slot1) \in Semaphores!Slot
  BY SemTypes DEF Semaphores!Stale, Semaphores!Slot
<1>7. stale \in [1 .. Semaphores!Limit -> Semaphores!Slot]
  BY <1>5, <1>6
<1> HIDE DEF stale
<1>8. /\ semObject'[p].set = o.set /\ semObject'[p].nops = 0 /\ semObject'[p].sops = stale
      /\ semObject'[p] \in Semaphores!Objects /\ semObject' = [semObject EXCEPT ![p] = semObject'[p]]
  <2> DEFINE next == [o EXCEPT !.nops = 0, !.sops = stale]
  <2>1. 0 \in 0 .. Semaphores!Limit
    BY <1>3
  <2>2. next \in Semaphores!Objects /\ next.set = o.set /\ next.nops = 0 /\ next.sops = stale
    BY <1>1, <1>7, <2>1 DEF Semaphores!Objects
  <2>3. semObject' = [semObject EXCEPT ![p] = next]
    BY <1>1, <1>2
  <2> HIDE DEF next
  <2>4. semObject'[p] = next
    BY <1>1, <2>3
  <2> QED
    BY <2>2, <2>3, <2>4
<1>9. InUse(semObject'[p], <<>>)
  BY <1>8 DEF InUse
<1>10. Asked(c)
  <2>1. /\ c.ops = SubSeq(sops, 1, n) /\ c.nowait = nowait /\ c.asked = added[p]
        /\ added[p] \in Seq(Semaphores!Sems \X Int) /\ Len(added[p]) = n
    BY <1>1 DEF InUse
  <2>2. sops \in Seq(Semaphores!Slot) /\ Len(sops) = Semaphores!Limit
    BY <1>3, <1>5
  <2>3. /\ c.ops \in Seq(Semaphores!Slot) /\ Len(c.ops) = n
        /\ \A i \in 1 .. n : c.ops[i] = sops[i]
    BY <1>3, <2>1, <2>2
  <2>4. c \in Semaphores!Calls
    BY <2>1, <2>3 DEF Semaphores!Calls
  <2>5. DOMAIN c.ops = 1 .. n /\ DOMAIN added[p] = 1 .. n
    BY <2>1, <2>3
  <2> HIDE DEF c
  <2>6. ASSUME NEW i \in 1 .. n
        PROVE  /\ c.ops[i].nowait = nowait
               /\ added[p][i] = <<c.ops[i].num, c.ops[i].op>>
    <3>1. i \in 1 .. Semaphores!Limit /\ i <= n
      BY <1>3
    <3>2. added[p][i] = <<o.sops[i].num, o.sops[i].op>> /\ ~o.sops[i].nowait
      BY <1>1 DEF InUse
    <3> QED
      BY <1>4, <2>3, <3>1, <3>2
  <2>7. added[p] = [i \in 1 .. n |-> added[p][i]]
    BY <2>1, <2>5
  <2> QED
    BY <2>1, <2>4, <2>5, <2>6, <2>7 DEF Asked
<1>11. Told(w)
  BY DEF Told, Semaphores!Answers
<1> HIDE DEF c, w
<1>12. CASE semCall' = [semCall EXCEPT ![p] = c] /\ UNCHANGED answer
  <2>1. answer' = [answer EXCEPT ![p] = answer[p]]
    BY <1>12, SameElsewhere
  <2> QED
    BY <1>1, <1>2, <1>8, <1>9, <1>10, <1>12, <2>1, OneProcess
<1>13. CASE answer' = [answer EXCEPT ![p] = w] /\ UNCHANGED semCall
  <2>1. semCall' = [semCall EXCEPT ![p] = semCall[p]]
    BY <1>13, SameElsewhere
  <2> QED
    BY <1>1, <1>2, <1>8, <1>9, <1>11, <1>13, <2>1, OneProcess
<1> QED
  BY <1>2, <1>12, <1>13

(* semop returns: with EAGAIN or EINTR it is for the flag it was given. *)
LEMMA ReturnsInv ==
  ASSUME OrdersOk, NEW p \in Processes, Semaphores!Perform(p) \/ Semaphores!Refuse(p), UNCHANGED sets
  PROVE  OrdersOk'
<1>1. /\ InUse(semObject[p], added[p]) /\ Asked(semCall[p]) /\ sets' \in Nat
      /\ semObject = [semObject EXCEPT ![p] = semObject[p]] /\ added = [added EXCEPT ![p] = added[p]]
  BY SameElsewhere
<1>2. PICK why :
        /\ semCall' = [semCall EXCEPT ![p] = Semaphores!NoCall] /\ UNCHANGED <<semObject, added>>
        /\ answer' = [answer EXCEPT ![p] = [why |-> why, nowait |-> semCall[p].nowait]]
        /\ \/ why \in {"done", "ERANGE"}
           \/ \E i \in DOMAIN semCall[p].ops : why = "EAGAIN" /\ semCall[p].ops[i].nowait
           \/ \E i \in DOMAIN semCall[p].ops : why = "EINTR" /\ ~semCall[p].ops[i].nowait
  <2>1. CASE Semaphores!Perform(p)
    BY <2>1 DEF Semaphores!Perform, Semaphores!Returns
  <2>2. CASE Semaphores!Refuse(p)
    <3>1. Semaphores!Stuck(p) \subseteq DOMAIN semCall[p].ops
      BY DEF Semaphores!Stuck
    <3> QED
      BY <2>2, <3>1 DEF Semaphores!Refuse, Semaphores!Returns
  <2> QED
    BY <2>1, <2>2
<1>3. semCall[p].nowait \in BOOLEAN /\ \A i \in DOMAIN semCall[p].ops : semCall[p].ops[i].nowait = semCall[p].nowait
  BY <1>1 DEF Asked, Semaphores!Calls
<1>4. Told([why |-> why, nowait |-> semCall[p].nowait])
  <2>1. why \in {"done", "ERANGE", "EAGAIN", "EINTR"}
        /\ (why = "EAGAIN" => semCall[p].nowait) /\ (why = "EINTR" => ~semCall[p].nowait)
    BY <1>2, <1>3
  <2> QED
    BY <1>3, <2>1 DEF Told, Semaphores!Answers
<1>5. semObject' = [semObject EXCEPT ![p] = semObject[p]] /\ added' = [added EXCEPT ![p] = added[p]]
  BY <1>1, <1>2
<1> QED
  BY <1>1, <1>2, <1>4, <1>5, NothingInUse, OneProcess

(* The kernel's objects are none of theirs; a process that exits, or whose   *)
(* object is collected, begins again, and the calls on a removed set return.*)
LEMMA SemNextInv ==
  ASSUME Semaphores!OrdersInv, Semaphores!Next
  PROVE  Semaphores!OrdersInv'
<1>1. OrdersOk /\ operands \in OpSets
  BY OrdersAreOk
<1>2. SUFFICES OrdersOk'
  <2>1. SUFFICES ASSUME OrdersOk' PROVE Semaphores!OrdersInv'
    OBVIOUS
  <2>2. operands' \in OpSets /\ Semaphores!OrdersTyped'
    BY <1>1, <2>1 DEF Semaphores!Next, Semaphores!OrdersTyped, OrdersOk
  <2>3. Semaphores!InUseIsAdded'
    BY <2>1 DEF Semaphores!InUseIsAdded, Semaphores!Entries, Semaphores!Has, OrdersOk, InUse
  <2>4. Semaphores!FlagOnAllOrNone' /\ Semaphores!DoesWhatWasAdded' /\ Semaphores!WaitsUnlessTold'
    BY <2>1 DEF Semaphores!FlagOnAllOrNone, Semaphores!DoesWhatWasAdded, Semaphores!WaitsUnlessTold,
       OrdersOk, Asked, Told
  <2> QED
    BY <2>2, <2>3, <2>4 DEF Semaphores!OrdersInv
<1>3. ASSUME NEW p \in Processes, Semaphores!SemGet(p)
      PROVE  OrdersOk'
  <2>1. /\ semObject' = [semObject EXCEPT ![p] = [Semaphores!NoObject EXCEPT !.set = sets']]
        /\ UNCHANGED <<semCall, answer, added>> /\ (sets' = sets + 1 \/ sets' = sets) /\ semObject[p].set = 0
    BY <1>3 DEF Semaphores!SemGet, Semaphores!kernelVars, Semaphores!Has
  <2>2. sets' \in Nat /\ added[p] = <<>>
    BY <1>1, <2>1, SameElsewhere DEF InUse
  <2>3. InUse([Semaphores!NoObject EXCEPT !.set = sets'], added[p])
    BY <2>2, NothingInUse
  <2> QED
    BY <1>1, <2>1, <2>2, <2>3, SameElsewhere, OneProcess
<1>4. ASSUME NEW p \in Processes, Semaphores!RemoveSet(p)
      PROVE  OrdersOk'
  <2>1. /\ UNCHANGED <<sets, semObject, added>> /\ semCall' = [q \in Processes |-> Semaphores!NoCall]
        /\ answer' = [q \in Processes |-> IF semCall[q] = Semaphores!NoCall THEN answer[q]
                                          ELSE [why |-> "EIDRM", nowait |-> semCall[q].nowait]]
    BY <1>4 DEF Semaphores!RemoveSet
  <2>2. ASSUME NEW q \in Processes PROVE Told(answer'[q])
    <3>1. Told(answer[q]) /\ semCall[q].nowait \in BOOLEAN
      BY <1>1 DEF OrdersOk, Semaphores!Calls
    <3>2. Told([why |-> "EIDRM", nowait |-> semCall[q].nowait])
      BY <3>1 DEF Told, Semaphores!Answers
    <3> QED
      BY <2>1, <3>1, <3>2
  <2>3. answer' \in [Processes -> Semaphores!Answers]
    BY <2>1, <2>2 DEF Told
  <2>4. semCall' \in [Processes -> Semaphores!Calls] /\ \A q \in Processes : Asked(semCall'[q])
    BY <2>1, SemTypes, NothingInUse
  <2> QED
    BY <1>1, <2>1, <2>2, <2>3, <2>4 DEF OrdersOk
<1>5. ASSUME NEW p \in Processes, Semaphores!Collect(p) \/ Semaphores!Exit(p)
      PROVE  OrdersOk'
  <2>1. /\ semObject' = [semObject EXCEPT ![p] = Semaphores!NoObject] /\ added' = [added EXCEPT ![p] = <<>>]
        /\ answer' = [answer EXCEPT ![p] = Semaphores!NoAnswer] /\ sets' = sets
        /\ semCall' = semCall \/ semCall' = [semCall EXCEPT ![p] = Semaphores!NoCall]
    BY <1>5 DEF Semaphores!Collect, Semaphores!Exit, Semaphores!kernelVars
  <2>2. Asked(semCall[p]) /\ sets' \in Nat /\ semCall = [semCall EXCEPT ![p] = semCall[p]]
    BY <1>1, <2>1, SameElsewhere
  <2>3. CASE semCall' = semCall
    BY <1>1, <2>1, <2>2, <2>3, NothingInUse, OneProcess
  <2>4. CASE semCall' = [semCall EXCEPT ![p] = Semaphores!NoCall]
    BY <1>1, <2>1, <2>2, <2>4, NothingInUse, OneProcess
  <2> QED
    BY <2>1, <2>3, <2>4
<1>6. ASSUME UNCHANGED <<sets, semObject, semCall, answer, added>>
      PROVE  OrdersOk'
  BY <1>1, <1>6 DEF OrdersOk
<1>7. ASSUME NEW p \in Processes, NEW n,
             (\E s \in Semaphores!Sems : Semaphores!SetVal(p, s, n)) \/ Semaphores!SetAll(p, n)
      PROVE  OrdersOk'
  <2>1. UNCHANGED <<sets, semObject, semCall, answer, added>>
    BY <1>7 DEF Semaphores!SetVal, Semaphores!SetAll, Semaphores!Set, Semaphores!processVars
  <2> QED
    BY <1>6, <2>1
<1>8. ASSUME NEW p \in Processes, NEW n \in operands, NEW s \in Semaphores!Sems, Semaphores!AddOp(p, n, s)
      PROVE  OrdersOk'
  <2>1. n \in Int
    BY <1>1, <1>8, Assumptions DEF Semaphores!SemAssumption
  <2>2. sets' = sets
    BY <1>8 DEF Semaphores!AddOp, Semaphores!kernelVars
  <2> QED
    BY <1>1, <1>8, <2>1, <2>2, AddOpInv
<1>9. ASSUME NEW p \in Processes, NEW nowait \in BOOLEAN, Semaphores!Done(p, nowait)
      PROVE  OrdersOk'
  <2>1. sets' = sets
    BY <1>9 DEF Semaphores!Done, Semaphores!kernelVars
  <2> QED
    BY <1>1, <1>9, <2>1, DoneInv
<1>10. ASSUME NEW p \in Processes, Semaphores!Perform(p) \/ Semaphores!Refuse(p)
       PROVE  OrdersOk'
  <2>1. sets' = sets
    BY <1>10 DEF Semaphores!Perform, Semaphores!Refuse, Semaphores!kernelVars
  <2> QED
    BY <1>1, <1>10, <2>1, ReturnsInv
<1> QED
  BY <1>3, <1>4, <1>5, <1>7, <1>8, <1>9, <1>10 DEF Semaphores!Next

(* The first state: no process has an object. *)
LEMMA SemInit == Semaphores!Init => Semaphores!OrdersInv
<1> SUFFICES ASSUME Semaphores!Init
             PROVE  Semaphores!OrdersInv
  OBVIOUS
<1>1. /\ operands \in OpSets /\ sets = 0
      /\ semObject = [p \in Processes |-> Semaphores!NoObject] /\ added = [p \in Processes |-> <<>>]
      /\ semCall = [p \in Processes |-> Semaphores!NoCall]
      /\ answer = [p \in Processes |-> Semaphores!NoAnswer]
  BY DEF Semaphores!Init
<1>2. <<>> \in Seq(Semaphores!Sems \X Int)
  OBVIOUS
<1>3. OrdersOk
  BY <1>1, <1>2, SemTypes, NothingInUse DEF OrdersOk
<1> QED
  BY <1>1, <1>3, OrdersAreOk

(* A step of another part. *)
LEMMA SemStutter ==
  ASSUME Semaphores!OrdersInv, UNCHANGED semVars
  PROVE  Semaphores!OrdersInv'
<1>1. UNCHANGED <<operands, sets, semObject, semCall, answer, added>>
  BY DEF semVars
<1> QED
  BY <1>1 DEF Semaphores!OrdersInv, Semaphores!OrdersTyped, Semaphores!InUseIsAdded, Semaphores!FlagOnAllOrNone,
     Semaphores!DoesWhatWasAdded, Semaphores!WaitsUnlessTold, Semaphores!Entries, Semaphores!Has

-----------------------------------------------------------------------------
(* Sums of a function's values, by induction over the size of its domain. *)

(* Induction over the numbers up to n. *)
LEMMA UpToAll ==
  ASSUME NEW n \in Nat, NEW G, 0 \in G, \A i \in 0 .. n - 1 : i \in G => i + 1 \in G
  PROVE  0 .. n \subseteq G
<1> DEFINE Bad == (0 .. n) \ G
<1> SUFFICES ASSUME Bad # {} PROVE FALSE
  OBVIOUS
<1>1. Bad \subseteq Nat
  OBVIOUS
<1> HIDE DEF Bad
<1>2. PICK i \in Bad : \A j \in Bad : ~(<<j, i>> \in OpToRel(<, Nat))
  BY <1>1, WFMin, NatLessThanWellFounded
<1>3. ASSUME NEW j \in Bad PROVE i <= j
  <2>1. ~(j < i)
    BY <1>1, <1>2 DEF OpToRel
  <2> QED
    BY <1>1, <2>1
<1>4. i \in 0 .. n /\ i \notin G
  BY DEF Bad
<1>5. i # 0 /\ i - 1 \in 0 .. n - 1 /\ i - 1 \in 0 .. n /\ ~(i <= i - 1) /\ (i - 1) + 1 = i
  BY <1>4
<1>6. i - 1 \in G
  BY <1>3, <1>5 DEF Bad
<1> QED
  BY <1>4, <1>5, <1>6

(* The element of a set that a fold takes first, and the others. *)
Pick(T) == CHOOSE x \in T : TRUE
Rest(T) == T \ {Pick(T)}

(* What one step of a sum adds. *)
SumStep(f, g, T) == IF T = {} THEN 0 ELSE f[Pick(T)] + g[Rest(T)]
SumOn(f) == CHOOSE g : g = [T \in SUBSET DOMAIN f |-> SumStep(f, g, T)]

(* SumFunction is that sum over all of its domain. *)
LEMMA SumIsSumOn == ASSUME NEW f PROVE Semaphores!SumFunction(f) = SumOn(f)[DOMAIN f]
BY DEF Semaphores!SumFunction, Semaphores!SumFunctionOnSet, Semaphores!FoldFunctionOnSet, Semaphores!MapThenFoldSet, SumOn, SumStep, Pick, Rest

(* The others are fewer. *)
LEMMA RestSmaller ==
  ASSUME NEW S, IsFiniteSet(S), NEW T \in SUBSET S, T # {}
  PROVE  /\ Pick(T) \in T /\ Pick(T) \in S /\ Rest(T) \in SUBSET S /\ Rest(T) \in SUBSET T
         /\ Cardinality(T) \in Nat /\ Cardinality(Rest(T)) \in Nat /\ Cardinality(T) = Cardinality(Rest(T)) + 1
<1>1. Pick(T) \in T
  BY DEF Pick
<1>2. IsFiniteSet(T) /\ IsFiniteSet(Rest(T))
  BY FS_Subset, FS_RemoveElement DEF Rest
<1>3. Cardinality(T) \in Nat /\ Cardinality(Rest(T)) \in Nat
  BY <1>2, FS_CardinalityType
<1>4. Cardinality(Rest(T)) = Cardinality(T) - 1
  BY <1>1, <1>2, FS_RemoveElement DEF Rest
<1> QED
  BY <1>1, <1>3, <1>4 DEF Rest

(* The sums over the subsets of a finite domain exist, and are integers. *)
LEMMA SumExists ==
  ASSUME NEW S, IsFiniteSet(S), NEW f \in [S -> Int]
  PROVE  /\ SumOn(f) \in [SUBSET S -> Int]
         /\ \A T \in SUBSET S : SumOn(f)[T] = SumStep(f, SumOn(f), T)
<1> DEFINE Upto(n, g) == \A T \in SUBSET S : Cardinality(T) <= n => g[T] = SumStep(f, g, T)
           G == {n \in Nat : \E g \in [SUBSET S -> Int] : Upto(n, g)}
<1>0. \A T \in SUBSET S : Cardinality(T) \in Nat /\ (Cardinality(T) = 0 => T = {})
  <2> TAKE T \in SUBSET S
  <2>1. IsFiniteSet(T)
    BY FS_Subset
  <2> QED
    BY <2>1, FS_CardinalityType, FS_EmptySet
<1>1. 0 \in G
  <2> DEFINE g == [T \in SUBSET S |-> 0]
  <2>1. g \in [SUBSET S -> Int]
    OBVIOUS
  <2>2. Upto(0, g)
    BY <1>0 DEF SumStep
  <2> QED
    BY <2>1, <2>2
<1>2. ASSUME NEW n \in Nat, n \in G PROVE n + 1 \in G
  <2>1. PICK g \in [SUBSET S -> Int] : Upto(n, g)
    BY <1>2
  <2> DEFINE h == [T \in SUBSET S |-> IF Cardinality(T) <= n THEN g[T] ELSE SumStep(f, g, T)]
  <2>2. \A T \in SUBSET S : SumStep(f, g, T) \in Int
    BY RestSmaller DEF SumStep
  <2>3. h \in [SUBSET S -> Int]
    BY <2>2
  <2>4. ASSUME NEW T \in SUBSET S, Cardinality(T) <= n + 1 PROVE h[T] = SumStep(f, h, T)
    <3>1. SumStep(f, h, T) = SumStep(f, g, T)
      <4>1. CASE T = {}
        BY <4>1 DEF SumStep
      <4>2. CASE T # {}
        <5>1. Rest(T) \in SUBSET S /\ Cardinality(Rest(T)) <= n
          BY <2>4, <4>2, RestSmaller
        <5>2. h[Rest(T)] = g[Rest(T)]
          BY <5>1
        <5> QED
          BY <5>2 DEF SumStep
      <4> QED
        BY <4>1, <4>2
    <3>2. h[T] = SumStep(f, g, T)
      BY <2>1
    <3> QED
      BY <3>1, <3>2
  <2>5. Upto(n + 1, h)
    BY <2>4
  <2> HIDE DEF h
  <2> QED
    BY <2>3, <2>5
<1>3. Cardinality(S) \in Nat
  BY FS_CardinalityType
<1>4. 0 .. Cardinality(S) \subseteq G
  <2> HIDE DEF G
  <2>1. \A i \in 0 .. Cardinality(S) - 1 : i \in G => i + 1 \in G
    BY <1>2, <1>3
  <2> QED
    BY <1>1, <1>3, <2>1, UpToAll
<1>5. PICK g \in [SUBSET S -> Int] : Upto(Cardinality(S), g)
  <2>1. Cardinality(S) \in 0 .. Cardinality(S)
    BY <1>3
  <2> QED
    BY <1>4, <2>1
<1>6. \A T \in SUBSET S : g[T] = SumStep(f, g, T)
  BY <1>5, FS_Subset
<1>7. g = [T \in SUBSET DOMAIN f |-> SumStep(f, g, T)]
  BY <1>5, <1>6
<1>8. SumOn(f) = [T \in SUBSET DOMAIN f |-> SumStep(f, SumOn(f), T)]
  BY <1>7 DEF SumOn
<1>9. \A T \in SUBSET S : SumOn(f)[T] = SumStep(f, SumOn(f), T)
  <2>1. DOMAIN f = S
    OBVIOUS
  <2> QED
    BY <1>8, <2>1
<1>15. SumOn(f)[{}] = 0
  <2>1. SumOn(f)[{}] = SumStep(f, SumOn(f), {})
    BY <1>9
  <2>2. SumStep(f, SumOn(f), {}) = 0
    BY DEF SumStep
  <2> QED
    BY <2>1, <2>2
<1> DEFINE H == {n \in Nat : \A T \in SUBSET S : Cardinality(T) <= n => SumOn(f)[T] \in Int}
<1>10. 0 \in H
  <2>1. \A T \in SUBSET S : Cardinality(T) <= 0 => T = {}
    BY <1>0
  <2>2. \A T \in SUBSET S : Cardinality(T) <= 0 => SumOn(f)[T] \in Int
    BY <1>15, <2>1
  <2> QED
    BY <2>2
<1>11. ASSUME NEW n \in Nat, n \in H PROVE n + 1 \in H
  <2>1. ASSUME NEW T \in SUBSET S, Cardinality(T) <= n + 1 PROVE SumOn(f)[T] \in Int
    <3>1. CASE T = {}
      BY <1>15, <3>1
    <3>2. CASE T # {}
      <4>1. Rest(T) \in SUBSET S /\ Cardinality(Rest(T)) <= n /\ Pick(T) \in S
        BY <2>1, <3>2, RestSmaller
      <4>2. SumOn(f)[Rest(T)] \in Int /\ f[Pick(T)] \in Int
        BY <1>11, <4>1
      <4> QED
        BY <1>9, <3>2, <4>2 DEF SumStep
    <3> QED
      BY <3>1, <3>2
  <2> QED
    BY <2>1
<1>12. 0 .. Cardinality(S) \subseteq H
  <2> HIDE DEF H
  <2>1. \A i \in 0 .. Cardinality(S) - 1 : i \in H => i + 1 \in H
    BY <1>3, <1>11
  <2> QED
    BY <1>3, <1>10, <2>1, UpToAll
<1>13. \A T \in SUBSET S : SumOn(f)[T] \in Int
  <2>1. Cardinality(S) \in 0 .. Cardinality(S)
    BY <1>3
  <2>2. \A T \in SUBSET S : Cardinality(T) <= Cardinality(S)
    BY FS_Subset
  <2> QED
    BY <1>12, <2>1, <2>2
<1>14. SumOn(f) \in [SUBSET S -> Int]
  <2>1. DOMAIN f = S
    OBVIOUS
  <2>2. SumOn(f) = [T \in SUBSET S |-> SumOn(f)[T]]
    BY <1>8, <2>1
  <2> QED
    BY <1>13, <2>2
<1> QED
  BY <1>9, <1>14

(* What is the sum of two functions that differ at one place. *)
LEMMA SumsDiffer ==
  ASSUME NEW S, IsFiniteSet(S), NEW f \in [S -> Int], NEW g \in [S -> Int], NEW p \in S,
         \A q \in S : q # p => f[q] = g[q]
  PROVE  Semaphores!SumFunction(g) = Semaphores!SumFunction(f) + g[p] - f[p] /\ Semaphores!SumFunction(f) \in Int
<1> DEFINE By(T) == IF p \in T THEN g[p] - f[p] ELSE 0
           G == {n \in Nat : \A T \in SUBSET S : Cardinality(T) <= n => SumOn(g)[T] = SumOn(f)[T] + By(T)}
<1>1. /\ \A T \in SUBSET S : SumOn(f)[T] = SumStep(f, SumOn(f), T) /\ SumOn(f)[T] \in Int
      /\ \A T \in SUBSET S : SumOn(g)[T] = SumStep(g, SumOn(g), T) /\ SumOn(g)[T] \in Int
  <2>1. /\ SumOn(f) \in [SUBSET S -> Int] /\ SumOn(g) \in [SUBSET S -> Int]
        /\ \A T \in SUBSET S : SumOn(f)[T] = SumStep(f, SumOn(f), T)
        /\ \A T \in SUBSET S : SumOn(g)[T] = SumStep(g, SumOn(g), T)
    BY SumExists, Zenon
  <2> QED
    BY <2>1
<1>2. \A T \in SUBSET S : Cardinality(T) \in Nat /\ (Cardinality(T) = 0 => T = {})
  <2> TAKE T \in SUBSET S
  <2>1. IsFiniteSet(T)
    BY FS_Subset
  <2> QED
    BY <2>1, FS_CardinalityType, FS_EmptySet
<1>3. SumOn(g)[{}] = SumOn(f)[{}] + By({})
  BY <1>1 DEF SumStep
<1>4. 0 \in G
  <2>1. \A T \in SUBSET S : Cardinality(T) <= 0 => T = {}
    BY <1>2
  <2> QED
    BY <1>3, <2>1
<1>5. ASSUME NEW n \in Nat, n \in G PROVE n + 1 \in G
  <2>1. ASSUME NEW T \in SUBSET S, Cardinality(T) <= n + 1
        PROVE  SumOn(g)[T] = SumOn(f)[T] + By(T)
    <3>1. CASE T = {}
      BY <1>3, <3>1
    <3>2. CASE T # {}
      <4>1. /\ Rest(T) \in SUBSET S /\ Cardinality(Rest(T)) <= n /\ Pick(T) \in S /\ Pick(T) \in T
        BY <2>1, <3>2, RestSmaller
      <4>2. SumOn(g)[Rest(T)] = SumOn(f)[Rest(T)] + By(Rest(T))
        BY <1>5, <4>1
      <4>3. /\ SumOn(g)[T] = g[Pick(T)] + SumOn(g)[Rest(T)] /\ SumOn(f)[T] = f[Pick(T)] + SumOn(f)[Rest(T)]
        BY <1>1, <3>2 DEF SumStep
      <4>4. /\ g[Pick(T)] \in Int /\ f[Pick(T)] \in Int /\ SumOn(f)[Rest(T)] \in Int /\ g[p] \in Int /\ f[p] \in Int
        BY <1>1, <4>1
      <4>5. CASE Pick(T) = p
        <5>1. By(Rest(T)) = 0 /\ By(T) = g[p] - f[p]
          BY <4>1, <4>5 DEF Rest
        <5> QED
          BY <4>2, <4>3, <4>4, <4>5, <5>1
      <4>6. CASE Pick(T) # p
        <5>1. By(Rest(T)) = By(T) /\ By(T) \in Int /\ f[Pick(T)] = g[Pick(T)]
          BY <4>1, <4>4, <4>6 DEF Rest
        <5> HIDE DEF By
        <5> QED
          BY <4>2, <4>3, <4>4, <5>1
      <4> QED
        BY <4>5, <4>6
    <3> QED
      BY <3>1, <3>2
  <2> QED
    BY <2>1
<1>6. Cardinality(S) \in Nat /\ Cardinality(S) \in 0 .. Cardinality(S)
  BY FS_CardinalityType
<1>7. 0 .. Cardinality(S) \subseteq G
  <2> HIDE DEF G
  <2>1. \A i \in 0 .. Cardinality(S) - 1 : i \in G => i + 1 \in G
    BY <1>5, <1>6
  <2> QED
    BY <1>4, <1>6, <2>1, UpToAll
<1>8. SumOn(g)[S] = SumOn(f)[S] + By(S)
  BY <1>6, <1>7
<1>9. Semaphores!SumFunction(f) = SumOn(f)[S] /\ Semaphores!SumFunction(g) = SumOn(g)[S]
  <2>1. DOMAIN f = S /\ DOMAIN g = S
    OBVIOUS
  <2> QED
    BY <2>1, SumIsSumOn
<1> QED
  <2>1. SumOn(f)[S] \in Int /\ f[p] \in Int /\ g[p] \in Int
    BY <1>1
  <2> QED
    BY <1>8, <1>9, <2>1

(* The sum of nothing but zeros. *)
LEMMA SumOfZeros ==
  ASSUME NEW S, IsFiniteSet(S)
  PROVE  Semaphores!SumFunction([q \in S |-> 0]) = 0
<1> DEFINE f == [q \in S |-> 0]
           G == {n \in Nat : \A T \in SUBSET S : Cardinality(T) <= n => SumOn(f)[T] = 0}
<1>1. \A T \in SUBSET S : SumOn(f)[T] = SumStep(f, SumOn(f), T)
  <2>1. f \in [S -> Int]
    OBVIOUS
  <2> HIDE DEF f
  <2> QED
    BY <2>1, SumExists
<1>2. \A T \in SUBSET S : Cardinality(T) \in Nat /\ (Cardinality(T) = 0 => T = {})
  <2> TAKE T \in SUBSET S
  <2>1. IsFiniteSet(T)
    BY FS_Subset
  <2> QED
    BY <2>1, FS_CardinalityType, FS_EmptySet
<1>3. 0 \in G
  <2>1. \A T \in SUBSET S : Cardinality(T) <= 0 => T = {}
    BY <1>2
  <2> QED
    BY <1>1, <2>1 DEF SumStep
<1>4. ASSUME NEW n \in Nat, n \in G PROVE n + 1 \in G
  <2>1. ASSUME NEW T \in SUBSET S, Cardinality(T) <= n + 1
        PROVE  SumOn(f)[T] = 0
    <3>1. CASE T = {}
      BY <1>1, <3>1 DEF SumStep
    <3>2. CASE T # {}
      <4>1. /\ Rest(T) \in SUBSET S /\ Cardinality(Rest(T)) <= n /\ Pick(T) \in S
        BY <2>1, <3>2, RestSmaller
      <4>2. SumOn(f)[Rest(T)] = 0 /\ f[Pick(T)] = 0
        BY <1>4, <4>1
      <4> QED
        BY <1>1, <3>2, <4>2 DEF SumStep
    <3> QED
      BY <3>1, <3>2
  <2> QED
    BY <2>1
<1>5. Cardinality(S) \in Nat /\ Cardinality(S) \in 0 .. Cardinality(S)
  BY FS_CardinalityType
<1>6. 0 .. Cardinality(S) \subseteq G
  <2> HIDE DEF G
  <2>1. \A i \in 0 .. Cardinality(S) - 1 : i \in G => i + 1 \in G
    BY <1>4, <1>5
  <2> QED
    BY <1>3, <1>5, <2>1, UpToAll
<1>7. SumOn(f)[S] = 0
  BY <1>5, <1>6
<1>8. Semaphores!SumFunction(f) = SumOn(f)[S]
  <2>1. DOMAIN f = S
    OBVIOUS
  <2> HIDE DEF f
  <2> QED
    BY <2>1, SumIsSumOn
<1> QED
  BY <1>7, <1>8

-----------------------------------------------------------------------------
(* Semaphores: what processes took, and what the kernel would give back. *)

(* Operations on known semaphores, and the values that they make of v.      *)
Ready(S, ops, by) == Len(ops) \in Nat /\ \A i \in 1 .. Len(ops) : ops[i].num \in S /\ by[i] \in Int

Follows(after, S, v, ops, by) ==
  /\ after \in [0 .. Len(ops) -> [S -> Int]] /\ after[0] = v
  /\ \A i \in 1 .. Len(ops) : after[i] = [after[i - 1] EXCEPT ![ops[i].num] = @ + by[i]]

(* Values that operations change one after the other are what each of them  *)
(* makes of the ones before.                                               *)
LEMMA ChangingStep ==
  ASSUME NEW S, NEW v \in [S -> Int], NEW ops, NEW by, Ready(S, ops, by)
  PROVE  Follows(Semaphores!Changing(v, ops, by), S, v, ops, by)
<1> USE DEF Ready
<1> DEFINE n == Len(ops)
           Step(f, i) == IF i = 0 THEN v ELSE [f[i - 1] EXCEPT ![ops[i].num] = @ + by[i]]
           after == CHOOSE f : f = [i \in 0 .. n |-> Step(f, i)]
           Upto(m, f) == \A i \in 0 .. n : i <= m => f[i] = Step(f, i)
           G == {m \in Nat : \E f \in [0 .. n -> [S -> Int]] : Upto(m, f)}
<1>1. after = Semaphores!Changing(v, ops, by)
  BY DEF Semaphores!Changing
<1>2. \A f \in [0 .. n -> [S -> Int]] : \A i \in 0 .. n : Step(f, i) \in [S -> Int]
  <2> TAKE f \in [0 .. n -> [S -> Int]]
  <2> TAKE i \in 0 .. n
  <2>1. CASE i = 0
    BY <2>1
  <2>2. CASE i # 0
    <3>1. i - 1 \in 0 .. n /\ i \in 1 .. n
      BY <2>2
    <3>2. f[i - 1] \in [S -> Int] /\ ops[i].num \in S /\ by[i] \in Int
      BY <3>1
    <3>3. \A s \in S : f[i - 1][s] + by[i] \in Int
      BY <3>2
    <3> QED
      BY <2>2, <3>2, <3>3
  <2> QED
    BY <2>1, <2>2
<1>3. 0 \in G
  <2> DEFINE f == [i \in 0 .. n |-> v]
  <2>1. f \in [0 .. n -> [S -> Int]]
    OBVIOUS
  <2>2. Upto(0, f)
    OBVIOUS
  <2> HIDE DEF f
  <2> QED
    BY <2>1, <2>2
<1>4. ASSUME NEW m \in Nat, m \in G PROVE m + 1 \in G
  <2>1. PICK f \in [0 .. n -> [S -> Int]] : Upto(m, f)
    BY <1>4
  <2> DEFINE h == [i \in 0 .. n |-> IF i <= m THEN f[i] ELSE Step(f, i)]
  <2>2. h \in [0 .. n -> [S -> Int]]
    <3> HIDE DEF Step
    <3> QED
      BY <1>2
  <2>3. ASSUME NEW i \in 0 .. n, i <= m + 1 PROVE h[i] = Step(h, i)
    <3>1. h[i] = Step(f, i)
      <4> HIDE DEF Step
      <4> QED
        BY <2>1
    <3>2. Step(f, i) = Step(h, i)
      <4>1. CASE i = 0
        BY <4>1
      <4>2. CASE i # 0
        <5>1. i - 1 \in 0 .. n /\ i - 1 <= m
          BY <2>3, <4>2
        <5>2. h[i - 1] = f[i - 1]
          BY <5>1
        <5> HIDE DEF h
        <5> QED
          BY <4>2, <5>2
      <4> QED
        BY <4>1, <4>2
    <3> QED
      BY <3>1, <3>2
  <2> HIDE DEF h, Step
  <2>4. Upto(m + 1, h)
    BY <2>3
  <2> QED
    BY <2>2, <2>4
<1>5. n \in Nat /\ n \in 0 .. n
  OBVIOUS
<1>6. 0 .. n \subseteq G
  <2> HIDE DEF G
  <2>1. \A i \in 0 .. n - 1 : i \in G => i + 1 \in G
    BY <1>4, <1>5
  <2> QED
    BY <1>3, <1>5, <2>1, UpToAll
<1>7. PICK f \in [0 .. n -> [S -> Int]] : Upto(n, f)
  BY <1>5, <1>6
<1>8. f = [i \in 0 .. n |-> Step(f, i)]
  <2> HIDE DEF Step
  <2> QED
    BY <1>7
<1>9. after = [i \in 0 .. n |-> Step(after, i)]
  <2> HIDE DEF Step
  <2> QED
    BY <1>8
<1> DEFINE H == {m \in Nat : \A i \in 0 .. n : i <= m => after[i] \in [S -> Int]}
<1>10. 0 \in 0 .. n /\ after[0] = v
  <2> HIDE DEF after
  <2> QED
    BY <1>5, <1>9
<1>11. ASSUME NEW i \in 1 .. n PROVE after[i] = [after[i - 1] EXCEPT ![ops[i].num] = @ + by[i]]
  <2> HIDE DEF after, Step
  <2>1. i \in 0 .. n /\ i # 0
    BY <1>5
  <2>2. after[i] = Step(after, i)
    BY <1>9, <2>1
  <2> QED
    BY <2>1, <2>2 DEF Step
<1> HIDE DEF after, Step
<1>12. 0 \in H
  BY <1>10
<1>13. ASSUME NEW m \in Nat, m \in H PROVE m + 1 \in H
  <2>1. ASSUME NEW i \in 0 .. n, i <= m + 1 PROVE after[i] \in [S -> Int]
    <3>1. CASE i = 0
      BY <1>10, <3>1
    <3>2. CASE i # 0
      <4>1. i - 1 \in 0 .. n /\ i - 1 <= m /\ i \in 1 .. n
        BY <2>1, <3>2
      <4>2. after[i - 1] \in [S -> Int] /\ ops[i].num \in S /\ by[i] \in Int
        BY <1>13, <4>1
      <4>3. \A s \in S : after[i - 1][s] + by[i] \in Int
        BY <4>2
      <4>4. after[i] = [after[i - 1] EXCEPT ![ops[i].num] = @ + by[i]]
        BY <1>11, <4>1
      <4> QED
        BY <4>2, <4>3, <4>4
    <3> QED
      BY <3>1, <3>2
  <2> QED
    BY <2>1
<1>14. 0 .. n \subseteq H
  <2> HIDE DEF H
  <2>1. \A i \in 0 .. n - 1 : i \in H => i + 1 \in H
    BY <1>5, <1>13
  <2> QED
    BY <1>5, <1>12, <2>1, UpToAll
<1>15. \A i \in 0 .. n : after[i] \in [S -> Int]
  BY <1>5, <1>14
<1>16. after \in [0 .. n -> [S -> Int]]
  <2>1. after = [i \in 0 .. n |-> after[i]]
    BY <1>9
  <2> QED
    BY <1>15, <2>1
<1> QED
  BY <1>1, <1>10, <1>11, <1>16 DEF Follows

(* What one sequence of changes adds, the other takes off.                 *)
Opposite(ops, by, off) == \A i \in 1 .. Len(ops) : off[i] = -by[i]

SameTogether(f, g, S, v, u, n) == \A s \in S : f[n][s] + g[n][s] = v[s] + u[s]

(* Then the two add up to what they began with.                            *)
LEMMA TogetherTheSame ==
  ASSUME NEW S, NEW v \in [S -> Int], NEW u \in [S -> Int], NEW ops, NEW by, NEW off, Ready(S, ops, by),
         Opposite(ops, by, off)
  PROVE  SameTogether(Semaphores!Changing(v, ops, by), Semaphores!Changing(u, ops, off), S, v, u, Len(ops))
<1> DEFINE n == Len(ops)
           f == Semaphores!Changing(v, ops, by)
           g == Semaphores!Changing(u, ops, off)
           G == {i \in Nat : i <= n => \A s \in S : f[i][s] + g[i][s] = v[s] + u[s]}
<1>0. Ready(S, ops, off)
  BY DEF Ready, Opposite
<1>1. Follows(f, S, v, ops, by)
  BY ChangingStep, Zenon
<1>2. Follows(g, S, u, ops, off)
  BY <1>0, ChangingStep, Zenon
<1> HIDE DEF f, g
<1> USE DEF Follows, Ready, Opposite
<1>3. 0 \in G
  BY <1>1, <1>2
<1>4. ASSUME NEW i \in Nat, i \in G PROVE i + 1 \in G
  <2>1. ASSUME i + 1 <= n, NEW s \in S PROVE f[i + 1][s] + g[i + 1][s] = v[s] + u[s]
    <3>1. i + 1 \in 1 .. n /\ (i + 1) - 1 = i /\ i \in 0 .. n
      BY <2>1
    <3>2. f[i][s] + g[i][s] = v[s] + u[s]
      BY <1>4, <2>1
    <3>3. /\ f[i] \in [S -> Int] /\ g[i] \in [S -> Int]
          /\ f[i + 1] = [f[i] EXCEPT ![ops[i + 1].num] = @ + by[i + 1]]
          /\ g[i + 1] = [g[i] EXCEPT ![ops[i + 1].num] = @ + off[i + 1]]
          /\ ops[i + 1].num \in S /\ by[i + 1] \in Int /\ off[i + 1] = -by[i + 1]
      BY <1>1, <1>2, <3>1
    <3>4. f[i][s] \in Int /\ g[i][s] \in Int
      BY <3>3
    <3>5. CASE s = ops[i + 1].num
      <4>1. f[i + 1][s] = f[i][s] + by[i + 1] /\ g[i + 1][s] = g[i][s] + off[i + 1]
        BY <3>3, <3>5
      <4>2. by[i + 1] \in Int /\ off[i + 1] = -by[i + 1]
        BY <3>3
      <4> QED
        BY <3>2, <3>4, <4>1, <4>2
    <3>6. CASE s # ops[i + 1].num
      <4>1. f[i + 1][s] = f[i][s] /\ g[i + 1][s] = g[i][s]
        BY <3>3, <3>6
      <4> QED
        BY <3>2, <4>1
    <3> QED
      BY <3>5, <3>6
  <2> QED
    BY <2>1
<1>5. n \in Nat /\ n \in 0 .. n
  OBVIOUS
<1>6. 0 .. n \subseteq G
  <2> HIDE DEF G
  <2>1. \A i \in 0 .. n - 1 : i \in G => i + 1 \in G
    BY <1>4, <1>5
  <2> QED
    BY <1>3, <1>5, <2>1, UpToAll
<1> QED
  BY <1>5, <1>6 DEF f, g, SameTogether

(* If each operation leaves its own semaphore in the range, all stay there. *)
LEMMA StaysInRange ==
  ASSUME NEW S, NEW R \in SUBSET Int, NEW v \in [S -> R], NEW ops, NEW by, Ready(S, ops, by),
         \A i \in 1 .. Len(ops) : Semaphores!Changing(v, ops, by)[i][ops[i].num] \in R
  PROVE  Semaphores!Changing(v, ops, by)[Len(ops)] \in [S -> R]
<1> DEFINE n == Len(ops)
           f == Semaphores!Changing(v, ops, by)
           G == {i \in Nat : i <= n => f[i] \in [S -> R]}
<1>1. v \in [S -> Int]
  OBVIOUS
<1>2. Follows(f, S, v, ops, by)
  BY <1>1, ChangingStep, Zenon
<1> USE DEF Follows, Ready
<1>3. \A i \in 1 .. n : ops[i].num \in S /\ f[i][ops[i].num] \in R
  OBVIOUS
<1> HIDE DEF f
<1>4. 0 \in G
  BY <1>2
<1>5. ASSUME NEW i \in Nat, i \in G PROVE i + 1 \in G
  <2>1. ASSUME i + 1 <= n PROVE f[i + 1] \in [S -> R]
    <3>1. i + 1 \in 1 .. n /\ (i + 1) - 1 = i /\ i \in 0 .. n
      BY <2>1
    <3>2. /\ f[i] \in [S -> R] /\ f[i + 1] = [f[i] EXCEPT ![ops[i + 1].num] = @ + by[i + 1]]
          /\ f[i + 1][ops[i + 1].num] \in R
      <4>1. f[i] \in [S -> R]
        BY <1>5, <2>1, <3>1
      <4>2. f[i + 1] = [f[(i + 1) - 1] EXCEPT ![ops[i + 1].num] = @ + by[i + 1]]
        BY <1>2, <3>1
      <4>3. f[i + 1][ops[i + 1].num] \in R
        BY <1>3, <3>1
      <4> QED
        BY <3>1, <4>1, <4>2, <4>3
    <3>3. \A s \in S : s # ops[i + 1].num => f[i + 1][s] = f[i][s]
      BY <3>2
    <3>4. \A s \in S : f[i + 1][s] \in R
      BY <3>2, <3>3
    <3>5. f[i + 1] \in [S -> Int]
      BY <1>2, <3>1
    <3> QED
      BY <3>4, <3>5
  <2> QED
    BY <2>1
<1>6. n \in Nat /\ n \in 0 .. n
  OBVIOUS
<1>7. 0 .. n \subseteq G
  <2> HIDE DEF G
  <2>1. \A i \in 0 .. n - 1 : i \in G => i + 1 \in G
    BY <1>5, <1>6
  <2> QED
    BY <1>4, <1>6, <2>1, UpToAll
<1> QED
  BY <1>6, <1>7 DEF f

(* What is known of the kernel's values. *)
LEMMA KernelTypes ==
  /\ SemMax \in Nat /\ MaxSets \in Nat /\ UShort \in Nat \ {0} /\ IsFiniteSet(Processes) /\ SetValues \subseteq Int
  /\ 0 \in 0 .. SemMax /\ Semaphores!UndoRange \subseteq Int /\ 0 \in Semaphores!UndoRange
  /\ Semaphores!Zeros \in [Semaphores!Sems -> 0 .. SemMax]
  /\ Semaphores!Zeros \in [Semaphores!Sems -> Semaphores!UndoRange]
  /\ Semaphores!NoClamp \in [Semaphores!Sems -> BOOLEAN]
<1>1. /\ SemMax \in Nat /\ MaxSets \in Nat /\ UShort \in Nat \ {0} /\ IsFiniteSet(Processes) /\ SetValues \subseteq Int
  <2>1. Semaphores!SemAssumption
    BY Assumptions
  <2>2. SemMax \in Nat /\ MaxSets \in Nat /\ UShort \in Nat \ {0}
    BY <2>1 DEF Semaphores!SemAssumption
  <2>3. IsFiniteSet(Processes)
    BY <2>1 DEF Semaphores!SemAssumption, Semaphores!IsFiniteSet, IsFiniteSet
  <2>4. SetValues \subseteq Int
    BY <2>1 DEF Semaphores!SemAssumption
  <2> QED
    BY <2>2, <2>3, <2>4
<1>2. 0 \in 0 .. SemMax /\ Semaphores!UndoRange \subseteq Int /\ 0 \in Semaphores!UndoRange
  BY <1>1 DEF Semaphores!UndoRange
<1> QED
  BY <1>1, <1>2 DEF Semaphores!Zeros, Semaphores!NoClamp

(* Where a step leaves the sets that the objects belong to.                *)
LEMMA SetsOfObjects ==
  ASSUME OrdersOk, operands \in OpSets, Semaphores!Next
  PROVE  /\ sets' = sets \/ (sets' = sets + 1 /\ sets < MaxSets /\ ~exists)
         /\ \A q \in Processes : semObject'[q].set \in {semObject[q].set, 0, sets'}
<1>1. semObject \in [Processes -> Semaphores!Objects]
  BY DEF OrdersOk
<1>2. Semaphores!NoObject.set = 0
  BY DEF Semaphores!NoObject
<1>3. ASSUME NEW p \in Processes, Semaphores!SemGet(p)
      PROVE  /\ sets' = sets \/ (sets' = sets + 1 /\ sets < MaxSets /\ ~exists)
             /\ \A q \in Processes : semObject'[q].set \in {semObject[q].set, 0, sets'}
  <2>1. [Semaphores!NoObject EXCEPT !.set = sets'].set = sets'
    BY DEF Semaphores!NoObject
  <2> QED
    BY <1>1, <1>3, <2>1 DEF Semaphores!SemGet, Semaphores!kernelVars
<1>4. ASSUME NEW p \in Processes, Semaphores!Collect(p) \/ Semaphores!Exit(p)
      PROVE  sets' = sets /\ \A q \in Processes : semObject'[q].set \in {semObject[q].set, 0, sets'}
  <2>1. sets' = sets /\ semObject' = [semObject EXCEPT ![p] = Semaphores!NoObject]
    BY <1>4 DEF Semaphores!Collect, Semaphores!Exit, Semaphores!kernelVars
  <2> QED
    BY <1>1, <1>2, <2>1
<1>5. ASSUME NEW p \in Processes, NEW n, NEW s, Semaphores!AddOp(p, n, s)
      PROVE  sets' = sets /\ \A q \in Processes : semObject'[q].set = semObject[q].set
  <2> DEFINE i == semObject[p].nops + 1
             new == Semaphores!NewSlot(semObject[p].sops[i], s, Semaphores!Short(n))
  <2>1. sets' = sets /\ semObject' = [semObject EXCEPT ![p].sops[i] = new, ![p].nops = i]
    BY <1>5 DEF Semaphores!AddOp, Semaphores!kernelVars
  <2> HIDE DEF i, new
  <2> QED
    BY <1>1, <2>1 DEF Semaphores!Objects
<1>6. ASSUME NEW p \in Processes, NEW nowait, Semaphores!Done(p, nowait)
      PROVE  sets' = sets /\ \A q \in Processes : semObject'[q].set = semObject[q].set
  <2>1. PICK n, stale : sets' = sets /\ semObject' = [semObject EXCEPT ![p].nops = n, ![p].sops = stale]
    BY <1>6 DEF Semaphores!Done, Semaphores!kernelVars
  <2> QED
    BY <1>1, <2>1 DEF Semaphores!Objects
<1>7. ASSUME NEW p \in Processes, NEW n,
             \/ \E s \in Semaphores!Sems : Semaphores!SetVal(p, s, n)
             \/ Semaphores!SetAll(p, n) \/ Semaphores!RemoveSet(p) \/ Semaphores!Perform(p) \/ Semaphores!Refuse(p)
      PROVE  sets' = sets /\ semObject' = semObject
  BY <1>7 DEF Semaphores!SetVal, Semaphores!SetAll, Semaphores!Set, Semaphores!processVars, Semaphores!RemoveSet,
     Semaphores!Perform, Semaphores!Refuse, Semaphores!Returns, Semaphores!kernelVars
<1> QED
  BY <1>3, <1>4, <1>5, <1>6, <1>7 DEF Semaphores!Next

(* So no object has the number of a set that is still to come.             *)
LEMMA SetsAreMade ==
  ASSUME OrdersOk, operands \in OpSets, Semaphores!KernelTyped, Semaphores!Next
  PROVE  sets' \in 0 .. MaxSets /\ \A q \in Processes : semObject'[q].set <= sets'
<1>1. /\ sets \in 0 .. MaxSets /\ MaxSets \in Nat
      /\ \A q \in Processes : semObject[q].set \in Nat /\ semObject[q].set <= sets
  BY KernelTypes DEF Semaphores!KernelTyped, OrdersOk, Semaphores!Objects
<1>2. /\ sets' = sets \/ (sets' = sets + 1 /\ sets < MaxSets)
      /\ \A q \in Processes : semObject'[q].set \in {semObject[q].set, 0, sets'}
  BY SetsOfObjects
<1>3. sets' \in 0 .. MaxSets /\ sets <= sets'
  BY <1>1, <1>2
<1> QED
  BY <1>1, <1>2, <1>3

(* The values of a set that is new, or gone.                               *)
LEMMA FreshSet ==
  ASSUME semval' = Semaphores!Zeros, undo' = [q \in Processes |-> Semaphores!Zeros], base' = Semaphores!Zeros
  PROVE  Semaphores!Conserved'
<1>1. ASSUME NEW s \in Semaphores!Sems
      PROVE  semval'[s] + Semaphores!SumFunction([q \in Processes |-> undo'[q][s]]) = base'[s]
  <2>1. semval'[s] = 0 /\ base'[s] = 0 /\ [q \in Processes |-> undo'[q][s]] = [q \in Processes |-> 0]
    BY DEF Semaphores!Zeros
  <2>2. Semaphores!SumFunction([q \in Processes |-> 0]) = 0
    BY KernelTypes, SumOfZeros
  <2> QED
    BY <2>1, <2>2
<1> QED
  BY <1>1 DEF Semaphores!Conserved

(* A value that is set is what nobody owes anything to.                    *)
LEMMA SetKeeps ==
  ASSUME Semaphores!KernelTyped, Semaphores!Conserved, NEW which \in SUBSET Semaphores!Sems, NEW n \in 0 .. SemMax,
         Semaphores!Set(which, n)
  PROVE  /\ semval' \in [Semaphores!Sems -> 0 .. SemMax] /\ base' \in [Semaphores!Sems -> 0 .. SemMax]
         /\ clamped' \in [Semaphores!Sems -> BOOLEAN] /\ undo' \in [Processes -> [Semaphores!Sems -> Semaphores!UndoRange]]
         /\ Semaphores!Conserved'
<1>1. /\ semval \in [Semaphores!Sems -> 0 .. SemMax] /\ base \in [Semaphores!Sems -> 0 .. SemMax]
      /\ clamped \in [Semaphores!Sems -> BOOLEAN] /\ undo \in [Processes -> [Semaphores!Sems -> Semaphores!UndoRange]]
  BY DEF Semaphores!KernelTyped
<1>2. /\ semval' = [s \in Semaphores!Sems |-> IF s \in which THEN n ELSE semval[s]]
      /\ base' = [s \in Semaphores!Sems |-> IF s \in which THEN n ELSE base[s]]
      /\ clamped' = [s \in Semaphores!Sems |-> IF s \in which THEN FALSE ELSE clamped[s]]
      /\ undo' = [p \in Processes |-> [s \in Semaphores!Sems |-> IF s \in which THEN 0 ELSE undo[p][s]]]
  BY DEF Semaphores!Set
<1>3. ASSUME NEW s \in Semaphores!Sems, ~clamped'[s]
      PROVE  semval'[s] + Semaphores!SumFunction([q \in Processes |-> undo'[q][s]]) = base'[s]
  <2>1. CASE s \in which
    <3>1. semval'[s] = n /\ base'[s] = n /\ [q \in Processes |-> undo'[q][s]] = [q \in Processes |-> 0]
      BY <1>2, <2>1
    <3>2. Semaphores!SumFunction([q \in Processes |-> 0]) = 0
      BY KernelTypes, SumOfZeros
    <3> QED
      BY <3>1, <3>2, KernelTypes
  <2>2. CASE s \notin which
    <3>1. /\ semval'[s] = semval[s] /\ base'[s] = base[s] /\ ~clamped[s]
          /\ [q \in Processes |-> undo'[q][s]] = [q \in Processes |-> undo[q][s]]
      BY <1>2, <1>3, <2>2
    <3>2. semval[s] + Semaphores!SumFunction([q \in Processes |-> undo[q][s]]) = base[s]
      BY <3>1 DEF Semaphores!Conserved
    <3> QED
      BY <3>1, <3>2
  <2> QED
    BY <2>1, <2>2
<1>4. Semaphores!Conserved'
  BY <1>3 DEF Semaphores!Conserved
<1>5. /\ semval' \in [Semaphores!Sems -> 0 .. SemMax] /\ base' \in [Semaphores!Sems -> 0 .. SemMax]
      /\ clamped' \in [Semaphores!Sems -> BOOLEAN]
  BY <1>1, <1>2
<1>6. undo' \in [Processes -> [Semaphores!Sems -> Semaphores!UndoRange]]
  BY <1>1, <1>2, KernelTypes
<1> QED
  BY <1>4, <1>5, <1>6

(* What one process's change of its undo does to the sum.                  *)
LEMMA OneUndo ==
  ASSUME Semaphores!KernelTyped, NEW p \in Processes, NEW u \in [Semaphores!Sems -> Int], undo' = [undo EXCEPT ![p] = u],
         NEW s \in Semaphores!Sems
  PROVE  /\ Semaphores!SumFunction([q \in Processes |-> undo'[q][s]])
              = Semaphores!SumFunction([q \in Processes |-> undo[q][s]]) + u[s] - undo[p][s]
         /\ Semaphores!SumFunction([q \in Processes |-> undo[q][s]]) \in Int /\ undo[p][s] \in Int
<1> DEFINE f == [q \in Processes |-> undo[q][s]]
           g == [q \in Processes |-> undo'[q][s]]
<1>1. undo \in [Processes -> [Semaphores!Sems -> Semaphores!UndoRange]] /\ Semaphores!UndoRange \subseteq Int
  BY KernelTypes DEF Semaphores!KernelTyped
<1>2. \A q \in Processes : undo[q][s] \in Int /\ undo'[q][s] = IF q = p THEN u[s] ELSE undo[q][s]
  BY <1>1
<1>3. /\ f \in [Processes -> Int] /\ g \in [Processes -> Int] /\ g[p] = u[s] /\ f[p] = undo[p][s]
      /\ \A q \in Processes : q # p => f[q] = g[q]
  BY <1>2
<1>4. IsFiniteSet(Processes)
  BY KernelTypes
<1> HIDE DEF f, g
<1>5. Semaphores!SumFunction(g) = Semaphores!SumFunction(f) + g[p] - f[p] /\ Semaphores!SumFunction(f) \in Int
  BY <1>3, <1>4, SumsDiffer
<1> QED
  BY <1>2, <1>3, <1>5 DEF f, g

(* The flags of one process: what changes a value can be undone.           *)
AllFlagged(o, c) ==
  /\ \A i \in 1 .. o.nops : Semaphores!UndoneIfAny(o.sops[i])
  /\ \A i \in DOMAIN c.ops : Semaphores!UndoneIfAny(c.ops[i])

(* The invariant says it of every process. *)
LEMMA UndoneIsFlagged == Semaphores!AllUndone <=> \A p \in Processes : AllFlagged(semObject[p], semCall[p])
BY DEF Semaphores!AllUndone, Semaphores!Entries, AllFlagged

(* New objects and calls have none. *)
LEMMA NothingToUndo ==
  \A o, c : AllFlagged(o, c) =>
    /\ AllFlagged(o, Semaphores!NoCall)
    /\ AllFlagged(Semaphores!NoObject, c) /\ AllFlagged(Semaphores!NoObject, Semaphores!NoCall)
    /\ \A n : AllFlagged([Semaphores!NoObject EXCEPT !.set = n], c)
<1>1. DOMAIN Semaphores!NoCall.ops = {} /\ Semaphores!NoObject.nops = 0 /\ 1 .. 0 = {}
  BY DEF Semaphores!NoCall, Semaphores!NoObject
<1>2. \A n : [Semaphores!NoObject EXCEPT !.set = n].nops = 0
  BY DEF Semaphores!NoObject
<1> QED
  BY <1>1, <1>2 DEF AllFlagged

(* A step of one process. *)
LEMMA OneFlagged ==
  ASSUME OrdersOk, Semaphores!AllUndone, NEW p \in Processes, NEW o, NEW c, AllFlagged(o, c),
         semObject' = [semObject EXCEPT ![p] = o], semCall' = [semCall EXCEPT ![p] = c]
  PROVE  Semaphores!AllUndone'
<1>1. \A q \in Processes : AllFlagged(semObject'[q], semCall'[q])
  BY UndoneIsFlagged DEF OrdersOk
<1> QED
  BY <1>1 DEF Semaphores!AllUndone, Semaphores!Entries, AllFlagged

(* An operation is added with the flag, unless it waits for zero.           *)
LEMMA AddOpFlags ==
  ASSUME OrdersOk, Semaphores!AllUndone, NEW p \in Processes, NEW n \in Int, NEW s \in Semaphores!Sems,
         Semaphores!AddOp(p, n, s)
  PROVE  Semaphores!AllUndone'
<1> DEFINE o == semObject[p]
           i == o.nops + 1
           new == Semaphores!NewSlot(o.sops[i], s, Semaphores!Short(n))
           next == [o EXCEPT !.sops = [o.sops EXCEPT ![i] = new], !.nops = i]
<1>1. semObject \in [Processes -> Semaphores!Objects] /\ o \in Semaphores!Objects /\ AllFlagged(o, semCall[p])
  BY UndoneIsFlagged DEF OrdersOk
<1>2. /\ o.nops < Semaphores!Limit /\ UNCHANGED semCall
      /\ semObject' = [semObject EXCEPT ![p].sops[i] = new, ![p].nops = i]
  BY DEF Semaphores!AddOp, Semaphores!HasRoom
<1>3. Semaphores!UndoneIfAny(new)
  BY DEF Semaphores!NewSlot, Semaphores!Flags, Semaphores!UndoneIfAny
<1>4. /\ o.nops \in Nat /\ i \in 1 .. Semaphores!Limit
      /\ o.sops \in [1 .. Semaphores!Limit -> Semaphores!Slot]
      /\ \A j \in 1 .. i : j = i \/ j \in 1 .. o.nops
      /\ \A j \in 1 .. o.nops : j # i /\ j \in 1 .. Semaphores!Limit
  <2>1. o.nops \in 0 .. Semaphores!Limit /\ Semaphores!Limit \in Nat
    BY <1>1, SemTypes DEF Semaphores!Objects
  <2> HIDE DEF o
  <2>2. i \in Nat /\ i <= Semaphores!Limit
    BY <1>2, <2>1
  <2> QED
    BY <1>1, <2>1, <2>2 DEF Semaphores!Objects
<1> HIDE DEF new
<1>5. next.nops = i /\ next.sops = [o.sops EXCEPT ![i] = new]
  BY <1>1 DEF Semaphores!Objects
<1>6. semObject' = [semObject EXCEPT ![p] = next]
  BY <1>1, <1>2
<1> HIDE DEF next, i
<1>7. ASSUME NEW j \in 1 .. i PROVE Semaphores!UndoneIfAny(next.sops[j])
  <2>1. CASE j = i
    BY <1>3, <1>4, <1>5, <2>1
  <2>2. CASE j # i
    <3>1. next.sops[j] = o.sops[j] /\ j \in 1 .. o.nops
      BY <1>4, <1>5, <2>2
    <3> QED
      BY <1>1, <3>1 DEF AllFlagged
  <2> QED
    BY <2>1, <2>2
<1>8. AllFlagged(next, semCall[p])
  BY <1>1, <1>5, <1>7 DEF AllFlagged
<1>9. semCall' = [semCall EXCEPT ![p] = semCall[p]]
  BY <1>2 DEF OrdersOk
<1> QED
  BY <1>6, <1>8, <1>9, OneFlagged

(* done() passes the operations on as they are, but for IPC_NOWAIT.         *)
LEMMA DoneFlags ==
  ASSUME OrdersOk, Semaphores!AllUndone, NEW p \in Processes, NEW nowait \in BOOLEAN, Semaphores!Done(p, nowait)
  PROVE  Semaphores!AllUndone'
<1> DEFINE o == semObject[p]
           n == o.nops
           sops == [i \in 1 .. Semaphores!Limit |-> [o.sops[i] EXCEPT !.nowait = @ \/ (nowait /\ i <= n)]]
           stale == [i \in 1 .. Semaphores!Limit |-> IF i <= 0 THEN sops[i] ELSE Semaphores!Stale(sops[i])]
           c == [ops |-> SubSeq(sops, 1, n), nowait |-> nowait, asked |-> added[p]]
           next == [o EXCEPT !.nops = 0, !.sops = stale]
<1>1. semObject \in [Processes -> Semaphores!Objects] /\ o \in Semaphores!Objects /\ AllFlagged(o, semCall[p])
  BY UndoneIsFlagged DEF OrdersOk
<1>2. /\ semObject' = [semObject EXCEPT ![p].nops = 0, ![p].sops = stale]
      /\ semCall' = [semCall EXCEPT ![p] = c] \/ UNCHANGED semCall
  BY DEF Semaphores!Done, Semaphores!OpsLeft
<1>3. n \in 0 .. Semaphores!Limit /\ Semaphores!Limit \in Nat /\ o.sops \in [1 .. Semaphores!Limit -> Semaphores!Slot]
  BY <1>1, SemTypes DEF Semaphores!Objects
<1>4. ASSUME NEW i \in 1 .. Semaphores!Limit
      PROVE  sops[i] \in Semaphores!Slot /\ sops[i].undo = o.sops[i].undo /\ sops[i].op = o.sops[i].op
  <2>1. o.sops[i] \in Semaphores!Slot /\ sops[i] = [o.sops[i] EXCEPT !.nowait = @ \/ (nowait /\ i <= n)]
    BY <1>3
  <2> QED
    BY <2>1 DEF Semaphores!Slot
<1>5. sops \in [1 .. Semaphores!Limit -> Semaphores!Slot]
  BY <1>4
<1> HIDE DEF sops
<1>6. Len(c.ops) = n /\ DOMAIN c.ops = 1 .. n /\ \A i \in 1 .. n : c.ops[i] = sops[i]
  <2>1. sops \in Seq(Semaphores!Slot) /\ Len(sops) = Semaphores!Limit
    BY <1>3, <1>5
  <2> QED
    BY <1>3, <2>1
<1> HIDE DEF c, stale
<1>7. ASSUME NEW i \in 1 .. n PROVE Semaphores!UndoneIfAny(c.ops[i])
  <2>1. i \in 1 .. Semaphores!Limit
    BY <1>3
  <2>2. Semaphores!UndoneIfAny(o.sops[i])
    BY <1>1 DEF AllFlagged
  <2> QED
    BY <1>4, <1>6, <2>1, <2>2 DEF Semaphores!UndoneIfAny
<1>8. next.nops = 0 /\ semObject' = [semObject EXCEPT ![p] = next]
  BY <1>1, <1>2 DEF Semaphores!Objects
<1> HIDE DEF next
<1>9. AllFlagged(next, c) /\ AllFlagged(next, semCall[p])
  BY <1>1, <1>6, <1>7, <1>8 DEF AllFlagged
<1>10. semCall = [semCall EXCEPT ![p] = semCall[p]]
  BY DEF OrdersOk
<1>11. CASE semCall' = [semCall EXCEPT ![p] = c]
  BY <1>8, <1>9, <1>11, OneFlagged
<1>12. CASE UNCHANGED semCall
  BY <1>8, <1>9, <1>10, <1>12, OneFlagged
<1> QED
  BY <1>2, <1>11, <1>12

(* Every step keeps the flags.                                             *)
LEMMA FlagsKept ==
  ASSUME OrdersOk, operands \in OpSets, Semaphores!AllUndone, Semaphores!Next
  PROVE  Semaphores!AllUndone'
<1>1. /\ \A p \in Processes : AllFlagged(semObject[p], semCall[p])
      /\ semObject \in [Processes -> Semaphores!Objects] /\ semCall \in [Processes -> Semaphores!Calls]
  BY UndoneIsFlagged DEF OrdersOk
<1>2. ASSUME NEW p \in Processes, Semaphores!SemGet(p)
      PROVE  Semaphores!AllUndone'
  <2>1. /\ semObject' = [semObject EXCEPT ![p] = [Semaphores!NoObject EXCEPT !.set = sets']]
        /\ semCall' = [semCall EXCEPT ![p] = semCall[p]]
    BY <1>1, <1>2 DEF Semaphores!SemGet
  <2>2. AllFlagged([Semaphores!NoObject EXCEPT !.set = sets'], semCall[p])
    BY <1>1, NothingToUndo
  <2> QED
    BY <2>1, <2>2, OneFlagged
<1>3. ASSUME NEW p \in Processes, Semaphores!RemoveSet(p)
      PROVE  Semaphores!AllUndone'
  <2>1. semObject' = semObject /\ semCall' = [q \in Processes |-> Semaphores!NoCall]
    BY <1>3 DEF Semaphores!RemoveSet
  <2>2. \A q \in Processes : AllFlagged(semObject'[q], semCall'[q])
    BY <1>1, <2>1, NothingToUndo
  <2> QED
    BY <2>2 DEF Semaphores!AllUndone, Semaphores!Entries, AllFlagged
<1>4. ASSUME NEW p \in Processes, Semaphores!Collect(p) \/ Semaphores!Exit(p)
      PROVE  Semaphores!AllUndone'
  <2>1. /\ semObject' = [semObject EXCEPT ![p] = Semaphores!NoObject]
        /\ \/ semCall' = [semCall EXCEPT ![p] = semCall[p]]
           \/ semCall' = [semCall EXCEPT ![p] = Semaphores!NoCall]
    BY <1>1, <1>4 DEF Semaphores!Collect, Semaphores!Exit
  <2>2. AllFlagged(Semaphores!NoObject, semCall[p]) /\ AllFlagged(Semaphores!NoObject, Semaphores!NoCall)
    BY <1>1, NothingToUndo
  <2>3. CASE semCall' = [semCall EXCEPT ![p] = semCall[p]]
    BY <2>1, <2>2, <2>3, OneFlagged
  <2>4. CASE semCall' = [semCall EXCEPT ![p] = Semaphores!NoCall]
    BY <2>1, <2>2, <2>4, OneFlagged
  <2> QED
    BY <2>1, <2>3, <2>4
<1>5. ASSUME NEW p \in Processes, Semaphores!Perform(p) \/ Semaphores!Refuse(p)
      PROVE  Semaphores!AllUndone'
  <2>1. /\ semObject' = [semObject EXCEPT ![p] = semObject[p]]
        /\ semCall' = [semCall EXCEPT ![p] = Semaphores!NoCall]
    BY <1>1, <1>5 DEF Semaphores!Perform, Semaphores!Refuse, Semaphores!Returns
  <2>2. AllFlagged(semObject[p], Semaphores!NoCall)
    BY <1>1, NothingToUndo
  <2> QED
    BY <2>1, <2>2, OneFlagged
<1>6. ASSUME NEW p \in Processes, NEW n,
             (\E s \in Semaphores!Sems : Semaphores!SetVal(p, s, n)) \/ Semaphores!SetAll(p, n)
      PROVE  Semaphores!AllUndone'
  <2>1. UNCHANGED <<semObject, semCall>>
    BY <1>6 DEF Semaphores!SetVal, Semaphores!SetAll, Semaphores!Set, Semaphores!processVars
  <2> QED
    BY <2>1 DEF Semaphores!AllUndone, Semaphores!Entries
<1>7. ASSUME NEW p \in Processes, NEW n \in operands, NEW s \in Semaphores!Sems, Semaphores!AddOp(p, n, s)
      PROVE  Semaphores!AllUndone'
  <2>1. n \in Int
    BY Assumptions DEF Semaphores!SemAssumption
  <2> QED
    BY <1>7, <2>1, AddOpFlags
<1>8. ASSUME NEW p \in Processes, NEW nowait \in BOOLEAN, Semaphores!Done(p, nowait)
      PROVE  Semaphores!AllUndone'
  BY <1>8, DoneFlags
<1> QED
  BY <1>2, <1>3, <1>4, <1>5, <1>6, <1>7, <1>8 DEF Semaphores!Next

(* semop performs all operations: what it adds to the values it takes off   *)
(* what an exit would add.                                                 *)
LEMMA PerformKeeps ==
  ASSUME OrdersOk, Semaphores!AllUndone, Semaphores!KernelTyped, Semaphores!Conserved, NEW p \in Processes,
         Semaphores!Perform(p)
  PROVE  /\ semval' \in [Semaphores!Sems -> 0 .. SemMax]
         /\ undo' \in [Processes -> [Semaphores!Sems -> Semaphores!UndoRange]]
         /\ Semaphores!Conserved'
<1> DEFINE S == Semaphores!Sems
           ops == semCall[p].ops
           n == Len(ops)
           by == Semaphores!Given(ops)
           off == Semaphores!Returned(ops)
           v == Semaphores!Changing(semval, ops, by)
           u == Semaphores!Changing(undo[p], ops, off)
<1>1. ops \in Seq(Semaphores!Slot) /\ n \in Nat /\ DOMAIN ops = 1 .. n
  BY DEF OrdersOk, Semaphores!Calls
<1>2. /\ semval \in [S -> 0 .. SemMax] /\ undo[p] \in [S -> Semaphores!UndoRange]
      /\ undo \in [Processes -> [S -> Semaphores!UndoRange]]
      /\ 0 .. SemMax \subseteq Int /\ Semaphores!UndoRange \subseteq Int /\ SemMax \in Nat
  BY KernelTypes DEF Semaphores!KernelTyped
<1>3. ASSUME NEW i \in 1 .. n
      PROVE  /\ ops[i].num \in S /\ by[i] \in Int /\ by[i] = ops[i].op /\ off[i] = -by[i] /\ off[i] \in Int
  <2>1. ops[i] \in Semaphores!Slot /\ Semaphores!UndoneIfAny(ops[i])
    BY <1>1 DEF Semaphores!AllUndone
  <2>2. ops[i].num \in S /\ ops[i].op \in Int /\ ops[i].undo = (ops[i].op # 0)
    BY <2>1 DEF Semaphores!Slot, Semaphores!UndoneIfAny
  <2>3. by[i] = ops[i].op /\ off[i] = IF ops[i].undo THEN -ops[i].op ELSE 0
    BY <1>1 DEF Semaphores!Given, Semaphores!Returned
  <2> HIDE DEF by, off, ops
  <2>4. off[i] = -ops[i].op
    <3>1. CASE ops[i].op = 0
      <4>1. ~ops[i].undo
        BY <2>2, <3>1
      <4> QED
        <5>1. off[i] = 0
          BY <2>3, <4>1, Zenon
        <5>2. 0 = -ops[i].op
          <6>1. \A x \in Int : 0 - x = -x
            OBVIOUS
          <6>2. 0 - ops[i].op = -ops[i].op
            BY <2>2, <6>1
          <6>3. 0 - ops[i].op = 0
            BY <3>1
          <6> QED
            BY <6>2, <6>3
        <5> QED
          BY <5>1, <5>2, Zenon
    <3>2. CASE ops[i].op # 0
      <4>1. ops[i].undo
        BY <2>2, <3>2
      <4> QED
        BY <2>3, <4>1
    <3> QED
      BY <3>1, <3>2
  <2> QED
    BY <2>2, <2>3, <2>4
<1> HIDE DEF by, off
<1>4. Ready(S, ops, by) /\ Ready(S, ops, off)
  BY <1>1, <1>3 DEF Ready
<1>5. semval \in [S -> Int] /\ undo[p] \in [S -> Int]
  BY <1>2
<1>6. Follows(v, S, semval, ops, by) /\ Follows(u, S, undo[p], ops, off)
  BY <1>4, <1>5, ChangingStep, Zenon
<1>7. /\ semval' = v[n] /\ undo' = [undo EXCEPT ![p] = u[n]] /\ UNCHANGED <<base, clamped>>
      /\ Semaphores!Stuck(p) = {} /\ Semaphores!TooLarge(p) = {}
  BY DEF Semaphores!Perform, Semaphores!Values, Semaphores!Undoes, by, off
<1>8. ASSUME NEW i \in 1 .. n
      PROVE  v[i][ops[i].num] \in 0 .. SemMax /\ u[i][ops[i].num] \in Semaphores!UndoRange
  <2>1. ~(v[i][ops[i].num] < 0) /\ ~(v[i][ops[i].num] > SemMax) /\ u[i][ops[i].num] \in Semaphores!UndoRange
    <3>1. i \in DOMAIN ops
      BY <1>1
    <3> QED
      BY <1>7, <3>1 DEF Semaphores!Stuck, Semaphores!TooLarge, Semaphores!Values, Semaphores!Undoes, by, off
  <2>2. v[i] \in [S -> Int] /\ ops[i].num \in S
    BY <1>3, <1>6 DEF Follows
  <2>3. v[i][ops[i].num] \in Int
    BY <2>2
  <2> QED
    BY <1>2, <2>1, <2>3
<1>9. v[n] \in [S -> 0 .. SemMax]
  <2>1. \A i \in 1 .. n : Semaphores!Changing(semval, ops, by)[i][ops[i].num] \in 0 .. SemMax
    BY <1>8
  <2> QED
    BY <1>2, <1>4, <2>1, StaysInRange
<1>10. u[n] \in [S -> Semaphores!UndoRange]
  <2>1. \A i \in 1 .. n : Semaphores!Changing(undo[p], ops, off)[i][ops[i].num] \in Semaphores!UndoRange
    BY <1>8
  <2> QED
    BY <1>2, <1>4, <2>1, StaysInRange
<1>11. \A s \in S : v[n][s] + u[n][s] = semval[s] + undo[p][s]
  <2>1. Opposite(ops, by, off)
    BY <1>3 DEF Opposite
  <2> HIDE DEF ops, S
  <2>2. SameTogether(v, u, S, semval, undo[p], n)
    BY <1>4, <1>5, <2>1, TogetherTheSame, Zenon
  <2> QED
    BY <2>2 DEF SameTogether
<1> HIDE DEF v, u, S, n, ops
<1>12. ASSUME NEW s \in Semaphores!Sems, ~clamped'[s]
       PROVE  semval'[s] + Semaphores!SumFunction([q \in Processes |-> undo'[q][s]]) = base'[s]
  <2>1. u[n] \in [Semaphores!Sems -> Int]
    BY <1>2, <1>10 DEF S
  <2>2. /\ Semaphores!SumFunction([q \in Processes |-> undo'[q][s]])
              = Semaphores!SumFunction([q \in Processes |-> undo[q][s]]) + u[n][s] - undo[p][s]
        /\ Semaphores!SumFunction([q \in Processes |-> undo[q][s]]) \in Int /\ undo[p][s] \in Int
    BY <1>7, <2>1, OneUndo
  <2>3. semval[s] + Semaphores!SumFunction([q \in Processes |-> undo[q][s]]) = base[s]
    BY <1>7, <1>12 DEF Semaphores!Conserved
  <2>4. /\ semval[s] \in Int /\ v[n][s] \in Int /\ u[n][s] \in Int
        /\ v[n][s] + u[n][s] = semval[s] + undo[p][s]
    BY <1>2, <1>9, <1>11, <2>1 DEF S
  <2>5. semval'[s] = v[n][s] /\ base'[s] = base[s]
    BY <1>7
  <2> QED
    BY <2>2, <2>3, <2>4, <2>5
<1> QED
  BY <1>2, <1>7, <1>9, <1>10, <1>12 DEF S, Semaphores!Conserved

(* An exit gives back what the process took, cut to what a semaphore holds. *)
LEMMA ExitKeeps ==
  ASSUME Semaphores!KernelTyped, Semaphores!Conserved, NEW p \in Processes, Semaphores!Exit(p)
  PROVE  /\ semval' \in [Semaphores!Sems -> 0 .. SemMax] /\ clamped' \in [Semaphores!Sems -> BOOLEAN]
         /\ undo' \in [Processes -> [Semaphores!Sems -> Semaphores!UndoRange]]
         /\ Semaphores!Conserved'
<1> DEFINE Cut(x) == Semaphores!Min({SemMax, Semaphores!Max({0, x})})
<1>1. /\ semval \in [Semaphores!Sems -> 0 .. SemMax] /\ clamped \in [Semaphores!Sems -> BOOLEAN]
      /\ undo \in [Processes -> [Semaphores!Sems -> Semaphores!UndoRange]]
      /\ Semaphores!UndoRange \subseteq Int /\ SemMax \in Nat
      /\ Semaphores!Zeros \in [Semaphores!Sems -> Semaphores!UndoRange]
  BY KernelTypes DEF Semaphores!KernelTyped
<1>2. \A x \in Int : Cut(x) \in 0 .. SemMax
  <2> TAKE x \in Int
  <2>1. Semaphores!Max({0, x}) \in Nat
    <3>1. \E m \in {0, x} : \A y \in {0, x} : m >= y
      <4>1. 0 >= x \/ x >= 0
        OBVIOUS
      <4> QED
        BY <4>1
    <3>2. Semaphores!Max({0, x}) \in {0, x} /\ \A y \in {0, x} : Semaphores!Max({0, x}) >= y
      BY <3>1 DEF Semaphores!Max
    <3> QED
      BY <3>2
  <2> DEFINE m == Semaphores!Max({0, x})
  <2> HIDE DEF m
  <2>2. m \in Nat
    BY <2>1 DEF m
  <2>3. \E k \in {SemMax, m} : \A y \in {SemMax, m} : k <= y
    <3>1. SemMax <= m \/ m <= SemMax
      BY <1>1, <2>2
    <3> QED
      BY <1>1, <2>2, <3>1
  <2>4. Semaphores!Min({SemMax, m}) \in {SemMax, m} /\ \A y \in {SemMax, m} : Semaphores!Min({SemMax, m}) <= y
    BY <2>3 DEF Semaphores!Min
  <2>5. Semaphores!Min({SemMax, m}) \in 0 .. SemMax
    BY <1>1, <2>2, <2>4
  <2> QED
    BY <2>5 DEF m
<1>3. /\ semval' = [s \in Semaphores!Sems |-> Cut(semval[s] + undo[p][s])]
      /\ clamped' = [s \in Semaphores!Sems |-> clamped[s] \/ semval'[s] # semval[s] + undo[p][s]]
      /\ undo' = [undo EXCEPT ![p] = Semaphores!Zeros] /\ UNCHANGED base
  BY DEF Semaphores!Exit
<1> HIDE DEF Cut
<1>4. \A s \in Semaphores!Sems : semval[s] \in Int /\ undo[p][s] \in Int /\ semval[s] + undo[p][s] \in Int
  <2>1. \A s \in Semaphores!Sems : semval[s] \in 0 .. SemMax /\ undo[p][s] \in Semaphores!UndoRange
    BY <1>1
  <2>2. 0 .. SemMax \subseteq Int
    BY <1>1
  <2>3. \A s \in Semaphores!Sems : semval[s] \in Int /\ undo[p][s] \in Int
    BY <1>1, <2>1, <2>2, Zenon
  <2> QED
    BY <2>3
<1>5. /\ semval' \in [Semaphores!Sems -> 0 .. SemMax] /\ clamped' \in [Semaphores!Sems -> BOOLEAN]
      /\ undo' \in [Processes -> [Semaphores!Sems -> Semaphores!UndoRange]]
  BY <1>1, <1>2, <1>3, <1>4
<1>6. ASSUME NEW s \in Semaphores!Sems, ~clamped'[s]
      PROVE  semval'[s] + Semaphores!SumFunction([q \in Processes |-> undo'[q][s]]) = base'[s]
  <2>1. Semaphores!Zeros \in [Semaphores!Sems -> Int] /\ Semaphores!Zeros[s] = 0
    BY DEF Semaphores!Zeros
  <2>2. /\ Semaphores!SumFunction([q \in Processes |-> undo'[q][s]])
              = Semaphores!SumFunction([q \in Processes |-> undo[q][s]]) + Semaphores!Zeros[s] - undo[p][s]
        /\ Semaphores!SumFunction([q \in Processes |-> undo[q][s]]) \in Int /\ undo[p][s] \in Int
    BY <1>3, <2>1, OneUndo
  <2>3. ~clamped[s] /\ semval'[s] = semval[s] + undo[p][s] /\ base'[s] = base[s]
    BY <1>3, <1>6
  <2>4. semval[s] + Semaphores!SumFunction([q \in Processes |-> undo[q][s]]) = base[s]
    BY <2>3 DEF Semaphores!Conserved
  <2> QED
    BY <1>4, <2>1, <2>2, <2>3, <2>4
<1> QED
  BY <1>5, <1>6 DEF Semaphores!Conserved

(* Every step keeps the kernel's values of their kind, and the balance.    *)
LEMMA KernelKept ==
  ASSUME OrdersOk, operands \in OpSets, Semaphores!AllUndone, Semaphores!KernelTyped, Semaphores!Conserved,
         Semaphores!Next
  PROVE  Semaphores!KernelTyped' /\ Semaphores!Conserved'
<1>1. /\ exists \in BOOLEAN /\ semval \in [Semaphores!Sems -> 0 .. SemMax]
      /\ undo \in [Processes -> [Semaphores!Sems -> Semaphores!UndoRange]]
      /\ base \in [Semaphores!Sems -> 0 .. SemMax] /\ clamped \in [Semaphores!Sems -> BOOLEAN]
      /\ wantedValue \in SetValues \cup {-1}
  BY DEF Semaphores!KernelTyped
<1>2. sets' \in 0 .. MaxSets /\ \A q \in Processes : semObject'[q].set <= sets'
  BY SetsAreMade
<1>3. ASSUME UNCHANGED <<exists, semval, undo, base, clamped, wantedValue>>
      PROVE  Semaphores!KernelTyped' /\ Semaphores!Conserved'
  <2>1. Semaphores!Conserved'
    BY <1>3 DEF Semaphores!Conserved
  <2> QED
    BY <1>1, <1>2, <1>3, <2>1 DEF Semaphores!KernelTyped
<1>4. ASSUME exists' \in BOOLEAN, semval' = Semaphores!Zeros, undo' = [q \in Processes |-> Semaphores!Zeros],
             base' = Semaphores!Zeros, clamped' = Semaphores!NoClamp, wantedValue' = -1
      PROVE  Semaphores!KernelTyped' /\ Semaphores!Conserved'
  <2>1. Semaphores!Conserved'
    BY <1>4, FreshSet
  <2> QED
    BY <1>2, <1>4, <2>1, KernelTypes DEF Semaphores!KernelTyped
<1>5. ASSUME NEW p \in Processes, Semaphores!SemGet(p)
      PROVE  Semaphores!KernelTyped' /\ Semaphores!Conserved'
  <2>1. \/ UNCHANGED <<exists, semval, undo, base, clamped, wantedValue>>
        \/ /\ exists' = TRUE /\ semval' = Semaphores!Zeros /\ undo' = [q \in Processes |-> Semaphores!Zeros]
           /\ base' = Semaphores!Zeros /\ clamped' = Semaphores!NoClamp /\ wantedValue' = -1
    BY <1>5 DEF Semaphores!SemGet, Semaphores!kernelVars
  <2> QED
    BY <1>3, <1>4, <2>1
<1>6. ASSUME NEW p \in Processes, Semaphores!RemoveSet(p)
      PROVE  Semaphores!KernelTyped' /\ Semaphores!Conserved'
  <2>1. /\ exists' = FALSE /\ semval' = Semaphores!Zeros /\ undo' = [q \in Processes |-> Semaphores!Zeros]
        /\ base' = Semaphores!Zeros /\ clamped' = Semaphores!NoClamp /\ wantedValue' = -1
    BY <1>6 DEF Semaphores!RemoveSet
  <2> QED
    BY <1>4, <2>1
<1>7. ASSUME NEW p \in Processes,
             \/ Semaphores!Collect(p) \/ Semaphores!Refuse(p)
             \/ \E n, s : Semaphores!AddOp(p, n, s)
             \/ \E nowait : Semaphores!Done(p, nowait)
      PROVE  Semaphores!KernelTyped' /\ Semaphores!Conserved'
  <2>1. UNCHANGED <<exists, semval, undo, base, clamped, wantedValue>>
    BY <1>7 DEF Semaphores!Collect, Semaphores!Refuse, Semaphores!AddOp, Semaphores!Done, Semaphores!kernelVars
  <2> QED
    BY <1>3, <2>1
<1>8. ASSUME NEW which \in SUBSET Semaphores!Sems, NEW n \in 0 .. SemMax, Semaphores!Set(which, n),
             wantedValue' \in SetValues \cup {-1}
      PROVE  Semaphores!KernelTyped' /\ Semaphores!Conserved'
  <2>1. /\ semval' \in [Semaphores!Sems -> 0 .. SemMax] /\ base' \in [Semaphores!Sems -> 0 .. SemMax]
        /\ clamped' \in [Semaphores!Sems -> BOOLEAN]
        /\ undo' \in [Processes -> [Semaphores!Sems -> Semaphores!UndoRange]]
        /\ Semaphores!Conserved'
    BY <1>8, SetKeeps
  <2>2. exists' = exists
    BY <1>8 DEF Semaphores!Set
  <2> QED
    BY <1>1, <1>2, <1>8, <2>1, <2>2 DEF Semaphores!KernelTyped
<1>9. ASSUME NEW p \in Processes, NEW n, NEW s \in Semaphores!Sems, Semaphores!SetVal(p, s, n)
      PROVE  Semaphores!KernelTyped' /\ Semaphores!Conserved'
  <2>1. n \in 0 .. SemMax /\ Semaphores!Set({s}, n) /\ wantedValue' = -1
    BY <1>9 DEF Semaphores!SetVal
  <2>2. {s} \in SUBSET Semaphores!Sems /\ wantedValue' \in SetValues \cup {-1}
    BY <2>1
  <2> QED
    BY <1>8, <2>1, <2>2
<1>10. ASSUME NEW p \in Processes, NEW n \in SetValues, Semaphores!SetAll(p, n)
       PROVE  Semaphores!KernelTyped' /\ Semaphores!Conserved'
  <2>1. /\ n >= 0 /\ Semaphores!Unsigned(n) <= SemMax /\ Semaphores!Set(Semaphores!Sems, Semaphores!Unsigned(n))
        /\ wantedValue' = n
    BY <1>10 DEF Semaphores!SetAll
  <2>2. Semaphores!Unsigned(n) \in 0 .. SemMax
    <3>1. n \in Int /\ UShort \in Nat \ {0} /\ SemMax \in Nat
      BY KernelTypes
    <3>2. n % UShort \in 0 .. UShort - 1
      BY <3>1
    <3> QED
      BY <2>1, <3>1, <3>2 DEF Semaphores!Unsigned
  <2>3. Semaphores!Sems \in SUBSET Semaphores!Sems /\ wantedValue' \in SetValues \cup {-1}
    BY <2>1
  <2> QED
    BY <1>8, <2>1, <2>2, <2>3
<1>11. ASSUME NEW p \in Processes, Semaphores!Perform(p)
       PROVE  Semaphores!KernelTyped' /\ Semaphores!Conserved'
  <2>1. exists' = exists /\ wantedValue' = -1 /\ UNCHANGED <<base, clamped>>
    BY <1>11 DEF Semaphores!Perform
  <2>2. /\ semval' \in [Semaphores!Sems -> 0 .. SemMax]
        /\ undo' \in [Processes -> [Semaphores!Sems -> Semaphores!UndoRange]]
        /\ Semaphores!Conserved'
    BY <1>11, PerformKeeps
  <2> QED
    BY <1>1, <1>2, <2>1, <2>2 DEF Semaphores!KernelTyped
<1>12. ASSUME NEW p \in Processes, Semaphores!Exit(p)
       PROVE  Semaphores!KernelTyped' /\ Semaphores!Conserved'
  <2>1. exists' = exists /\ wantedValue' = -1 /\ UNCHANGED base
    BY <1>12 DEF Semaphores!Exit
  <2>2. /\ semval' \in [Semaphores!Sems -> 0 .. SemMax] /\ clamped' \in [Semaphores!Sems -> BOOLEAN]
        /\ undo' \in [Processes -> [Semaphores!Sems -> Semaphores!UndoRange]]
        /\ Semaphores!Conserved'
    BY <1>12, ExitKeeps
  <2> QED
    BY <1>1, <1>2, <2>1, <2>2 DEF Semaphores!KernelTyped
<1> QED
  BY <1>5, <1>6, <1>7, <1>9, <1>10, <1>11, <1>12 DEF Semaphores!Next

(* The first state: there is no set, and nothing to undo. *)
LEMMA SemFirst == Semaphores!Init => Semaphores!SemInv
<1> SUFFICES ASSUME Semaphores!Init
             PROVE  Semaphores!SemInv
  OBVIOUS
<1>1. /\ exists = FALSE /\ sets = 0 /\ semval = Semaphores!Zeros
      /\ undo = [p \in Processes |-> Semaphores!Zeros] /\ base = Semaphores!Zeros
      /\ clamped = Semaphores!NoClamp /\ wantedValue = -1
      /\ semObject = [p \in Processes |-> Semaphores!NoObject]
      /\ semCall = [p \in Processes |-> Semaphores!NoCall]
  BY DEF Semaphores!Init
<1>2. Semaphores!OrdersInv
  BY SemInit
<1>3. Semaphores!AllUndone
  <2>1. DOMAIN Semaphores!NoCall.ops = {} /\ Semaphores!NoObject.nops = 0 /\ 1 .. 0 = {}
    BY DEF Semaphores!NoCall, Semaphores!NoObject
  <2> QED
    BY <1>1, <2>1 DEF Semaphores!AllUndone, Semaphores!Entries
<1>4. Semaphores!KernelTyped
  <2>1. Semaphores!NoObject.set = 0 /\ 0 \in 0 .. MaxSets /\ 0 <= 0
    BY KernelTypes DEF Semaphores!NoObject
  <2> QED
    BY <1>1, <2>1, KernelTypes DEF Semaphores!KernelTyped
<1>5. Semaphores!Conserved
  <2>1. Semaphores!SumFunction([q \in Processes |-> 0]) = 0
    BY KernelTypes, SumOfZeros
  <2>2. ASSUME NEW s \in Semaphores!Sems
        PROVE  semval[s] + Semaphores!SumFunction([q \in Processes |-> undo[q][s]]) = base[s]
    <3>1. semval[s] = 0 /\ base[s] = 0 /\ [q \in Processes |-> undo[q][s]] = [q \in Processes |-> 0]
      BY <1>1 DEF Semaphores!Zeros
    <3> QED
      BY <2>1, <3>1
  <2> QED
    BY <2>2 DEF Semaphores!Conserved
<1> QED
  BY <1>2, <1>3, <1>4, <1>5 DEF Semaphores!SemInv

(* A step of the component. *)
LEMMA SemKept == Semaphores!SemInv /\ Semaphores!Next => Semaphores!SemInv'
<1> SUFFICES ASSUME Semaphores!SemInv, Semaphores!Next
             PROVE  Semaphores!SemInv'
  OBVIOUS
<1>1. /\ Semaphores!OrdersInv /\ Semaphores!AllUndone /\ Semaphores!KernelTyped /\ Semaphores!Conserved
  BY DEF Semaphores!SemInv
<1>2. OrdersOk /\ operands \in OpSets
  BY <1>1, OrdersAreOk
<1>3. Semaphores!OrdersInv'
  BY <1>1, SemNextInv
<1>4. Semaphores!AllUndone' /\ Semaphores!KernelTyped' /\ Semaphores!Conserved'
  BY <1>1, <1>2, FlagsKept, KernelKept
<1> QED
  BY <1>3, <1>4 DEF Semaphores!SemInv

(* A step of another part. *)
LEMMA SemAlone ==
  ASSUME Semaphores!SemInv, UNCHANGED semVars
  PROVE  Semaphores!SemInv'
<1>1. Semaphores!OrdersInv'
  BY SemStutter DEF Semaphores!SemInv
<1>2. UNCHANGED <<exists, sets, semval, undo, semObject, semCall, base, clamped, wantedValue>>
  BY DEF semVars
<1>3. Semaphores!AllUndone'
  BY <1>2 DEF Semaphores!SemInv, Semaphores!AllUndone, Semaphores!Entries
<1>4. Semaphores!KernelTyped'
  BY <1>2 DEF Semaphores!SemInv, Semaphores!KernelTyped
<1>5. Semaphores!Conserved'
  BY <1>2 DEF Semaphores!SemInv, Semaphores!Conserved
<1> QED
  BY <1>1, <1>3, <1>4, <1>5 DEF Semaphores!SemInv

(* What the invariant says of the types. *)
LEMMA SemTyped == Semaphores!SemInv => Semaphores!TypeOK
<1> SUFFICES ASSUME Semaphores!SemInv
             PROVE  Semaphores!TypeOK
  OBVIOUS
<1>1. Semaphores!OrdersTyped /\ Semaphores!KernelTyped /\ operands \in OpSets
  BY DEF Semaphores!SemInv, Semaphores!OrdersInv
<1>2. ASSUME NEW p \in Processes
      PROVE  /\ undo[p] \in [Semaphores!Sems -> Semaphores!UndoRange]
             /\ semObject[p].set \in 0 .. sets /\ semObject[p].nops \in 0 .. Semaphores!Limit
             /\ \A i \in 1 .. Semaphores!Limit : semObject[p].sops[i] \in Semaphores!Slot
             /\ semCall[p].ops \in Seq(Semaphores!Slot)
             /\ answer[p].why \in {"none", "done", "EAGAIN", "EINTR", "EIDRM", "EINVAL", "ERANGE"}
  <2>1. semObject[p] \in Semaphores!Objects /\ semCall[p] \in Semaphores!Calls /\ answer[p] \in Semaphores!Answers
    BY <1>1 DEF Semaphores!OrdersTyped
  <2>2. semObject[p].set \in Nat /\ semObject[p].set <= sets /\ sets \in Nat
    BY <1>1, <2>1 DEF Semaphores!KernelTyped, Semaphores!Objects
  <2>3. undo[p] \in [Semaphores!Sems -> Semaphores!UndoRange]
    BY <1>1 DEF Semaphores!KernelTyped
  <2>4. /\ semObject[p].nops \in 0 .. Semaphores!Limit
        /\ \A i \in 1 .. Semaphores!Limit : semObject[p].sops[i] \in Semaphores!Slot
    BY <2>1 DEF Semaphores!Objects
  <2>5. semCall[p].ops \in Seq(Semaphores!Slot)
    BY <2>1 DEF Semaphores!Calls
  <2>6. answer[p].why \in {"none", "done", "EAGAIN", "EINTR", "EIDRM", "EINVAL", "ERANGE"}
    BY <2>1 DEF Semaphores!Answers
  <2> QED
    BY <2>2, <2>3, <2>4, <2>5, <2>6
<1> QED
  BY <1>1, <1>2 DEF Semaphores!TypeOK, Semaphores!KernelTyped

-----------------------------------------------------------------------------
(* The theorems. *)

(* A step is one of its component, or leaves its variables alone. *)
LEMMA StepOfParts ==
  ASSUME [Next]_vars
  PROVE  /\ Shell!Next \/ UNCHANGED shellVars
         /\ Signal!Next \/ UNCHANGED signalVars
         /\ Semaphores!Next \/ UNCHANGED semVars
         /\ Memory!Next \/ UNCHANGED shmVars
         /\ Posix!Next \/ UNCHANGED posixVars
         /\ Lists!Next \/ UNCHANGED listVars
<1>1. CASE UNCHANGED vars
  BY <1>1 DEF vars
<1>2. CASE Next
  BY <1>2 DEF Next, Only
<1> QED
  BY <1>1, <1>2

(* runshell.lua: whatever the command does with its streams, in whatever     *)
(* order its processes exit, no descriptor and no zombie is left, a stream *)
(* whose end was seen was read completely, and a command is only stopped   *)
(* for a signal or a timeout.                                              *)
THEOREM ShellCorrect == Spec => []ShellSafety
<1>1. Init => Shell!IInv
  BY ShellInit DEF Init
<1>2. Shell!IInv /\ [Next]_vars => Shell!IInv'
  BY StepOfParts, ShellNextInv, ShellStutter
<1>3. Shell!IInv => ShellSafety
  BY ShellSafe DEF ShellSafety
<1> QED
  BY <1>1, <1>2, <1>3, PTL DEF Spec

(* lsyslib.c: for any number of signals, functions and entries of the        *)
(* registry, and wherever a handler interrupts sys.signal, a signal runs its*)
(* function, the table agrees with the system, and the registry loses no    *)
(* entry.                                                                  *)
THEOREM SignalsCorrect == Spec => []SignalSafety
<1>1. Init => SignalInv
  BY SignalInit DEF Init
<1>2. SignalInv /\ [Next]_vars => SignalInv'
  BY StepOfParts, SignalNextInv, SignalStutter
<1>3. SignalInv => SignalSafety
  BY SignalSafe DEF SignalSafety
<1> QED
  BY <1>1, <1>2, <1>3, PTL DEF Spec

(* lsvipc.c: for any processes, semaphores, operations and words of the       *)
(* machine, and whichever of the processes exit or remove the set, a value  *)
(* plus what is to be given back to it is what it began with, and done()    *)
(* gives semop what was added since the last one, and gives up or waits as  *)
(* it was told.                                                            *)
THEOREM SemaphoresCorrect == Spec => []SemaphoreSafety
<1>1. Init => Semaphores!SemInv
  BY SemFirst DEF Init
<1>2. Semaphores!SemInv /\ [Next]_vars => Semaphores!SemInv'
  BY StepOfParts, SemKept, SemAlone
<1>3. Semaphores!SemInv => SemaphoreSafety
  <2>1. Semaphores!SemInv => Semaphores!TypeOK
    BY SemTyped
  <2> QED
    BY <2>1 DEF Semaphores!SemInv, Semaphores!OrdersInv, Semaphores!Safety, SemaphoreSafety
<1> QED
  BY <1>1, <1>2, <1>3, PTL DEF Spec

(* lsvipc.c and lipclib.c: for every size of the memory and every length a   *)
(* caller gives, the cursor of an object that is attached stays inside.    *)
THEOREM MemoryCorrect == Spec => []MemorySafety
<1>1. Init => Memory!IInv
  BY MemoryInit DEF Init
<1>2. Memory!IInv /\ [Next]_vars => Memory!IInv'
  BY StepOfParts, MemoryNextInv, MemoryStutter
<1>3. Memory!IInv => MemorySafety
  BY DEF Memory!IInv, Memory!Safety, MemorySafety
<1> QED
  BY <1>1, <1>2, <1>3, PTL DEF Spec

(* lipclib.c: for every resolution of the clock and all timeouts, a call on a *)
(* queue or a semaphore waits as long as its timeout says, and a time is     *)
(* refused only where it falls on a second; for any processes, forked or    *)
(* not, a queue has the mode it was put in by an object that knew its mode.  *)
THEOREM PosixCorrect == Spec => []PosixSafety
<1>1. Init => Posix!IInv
  BY PosixInit DEF Init
<1>2. Posix!IInv /\ [Next]_vars => Posix!IInv'
  BY StepOfParts, PosixNextInv, PosixStutter
<1>3. Posix!IInv => PosixSafety
  BY DEF Posix!IInv, Posix!Safety, PosixSafety
<1> QED
  BY <1>1, <1>2, <1>3, PTL DEF Spec

(* lfslib.c and luserlib.c: for any number of loops, inside of each other or *)
(* left early, a loop meets each name or account once, if nothing disturbs  *)
(* it, and the streams that are open belong to the loops that hold them.   *)
THEOREM ListingsCorrect == Spec => []ListingSafety
<1>1. Init => Lists!IInv
  BY ListsInit DEF Init
<1>2. Lists!IInv /\ [Next]_vars => Lists!IInv'
  BY StepOfParts, ListsNextInv, ListsStutter
<1>3. Lists!IInv => ListingSafety
  BY DEF Lists!IInv, Lists!Safety, ListingSafety
<1> QED
  BY <1>1, <1>2, <1>3, PTL DEF Spec

=============================================================================
