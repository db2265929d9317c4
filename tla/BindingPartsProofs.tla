--------------------------- MODULE BindingPartsProofs ---------------------------
(***************************************************************************)
(* Proofs about the bindings of BindingParts: frames of AMQP, the record    *)
(* functions of zlog, and XML documents.                                   *)
(***************************************************************************)
EXTENDS BindingParts, SequenceTheorems, WellFoundedInduction, TLAPS

-----------------------------------------------------------------------------
(* Frames of AMQP: the list of librabbitmq and what is in the socket.      *)

Box == Seq(Frames!AllFrames)

(* What RemoveAt leaves. *)
LEMMA Removed ==
  ASSUME NEW S, NEW s \in Seq(S), NEW i \in 1..Len(s)
  PROVE  /\ Frames!RemoveAt(s, i) \in Seq(S) /\ Len(Frames!RemoveAt(s, i)) = Len(s) - 1
         /\ \A j \in 1 .. Len(s) - 1 : Frames!RemoveAt(s, i)[j] = IF j < i THEN s[j] ELSE s[j + 1]
<1>1. Len(s) \in Nat /\ i \in Nat /\ 1 <= i /\ i <= Len(s)
  OBVIOUS
<1> DEFINE a == SubSeq(s, 1, i - 1)
           b == SubSeq(s, i + 1, Len(s))
<1>2. /\ a \in Seq(S) /\ Len(a) = i - 1 /\ \A j \in 1 .. i - 1 : a[j] = s[j]
  <2>1. \A j \in 1 .. i - 1 : s[j] \in S
    BY <1>1
  <2>2. a = [j \in 1 .. i - 1 |-> s[j]]
    BY <1>1
  <2> QED
    BY <1>1, <2>1, <2>2
<1>3. /\ b \in Seq(S) /\ Len(b) = Len(s) - i /\ \A j \in 1 .. Len(s) - i : b[j] = s[i + j]
  <2>1. \A j \in i + 1 .. Len(s) : s[j] \in S
    BY <1>1
  <2> QED
    BY <1>1, <2>1
<1>4. Frames!RemoveAt(s, i) = a \o b
  BY DEF Frames!RemoveAt
<1> HIDE DEF a, b
<1>5. a \o b \in Seq(S) /\ Len(a \o b) = Len(s) - 1
  <2>1. a \o b \in Seq(S) /\ Len(a \o b) = Len(a) + Len(b)
    BY <1>2, <1>3, ConcatProperties
  <2> QED
    BY <1>1, <1>2, <1>3, <2>1
<1>6. ASSUME NEW j \in 1 .. Len(s) - 1
      PROVE  (a \o b)[j] = IF j < i THEN s[j] ELSE s[j + 1]
  <2>1. CASE j < i
    BY <1>1, <1>2, <1>3, <2>1
  <2>2. CASE ~(j < i)
    <3>1. (a \o b)[j] = b[j - (i - 1)]
      BY <1>1, <1>2, <1>3, <2>2
    <3>2. j - (i - 1) \in 1 .. Len(s) - i /\ i + (j - (i - 1)) = j + 1
      BY <1>1, <2>2
    <3> QED
      BY <1>3, <2>2, <3>1, <3>2
  <2> QED
    BY <2>1, <2>2
<1> QED
  BY <1>4, <1>5, <1>6

(* The head of a sequence that is not empty, and what is behind it. *)
LEMMA HeadAndTail ==
  ASSUME NEW S, NEW s \in Seq(S), s # <<>>
  PROVE  /\ Len(s) \in Nat /\ Len(s) >= 1 /\ Head(s) = s[1] /\ Head(s) \in S
         /\ Tail(s) \in Seq(S) /\ Len(Tail(s)) = Len(s) - 1
         /\ \A j \in 1 .. Len(s) - 1 : Tail(s)[j] = s[j + 1]
OBVIOUS

(* The order of two frames. *)
LEMMA PlaceTypes ==
  ASSUME NEW f \in Frames!AllFrames
  PROVE  Frames!MessageOf(f) \in Nat /\ Frames!Place(f) \in 0..2
BY DEF Frames!AllFrames, Frames!MessageOf, Frames!Place

(* Two frames in order differ, and are not in the other order too. *)
LEMMA StrictOrder ==
  ASSUME NEW f \in Frames!AllFrames, NEW g \in Frames!AllFrames, Frames!Precedes(f, g)
  PROVE  ~Frames!Precedes(g, f) /\ f # g
BY PlaceTypes DEF Frames!Precedes

(* Which frames are left of a channel. *)
LEMMA LeftIs ==
  ASSUME NEW list, NEW box, NEW c, NEW f
  PROVE  f \in Frames!Left(list, box, c) <=>
           \/ \E i \in 1..Len(list) : list[i].channel = c /\ f = list[i]
           \/ \E i \in 1..Len(box) : box[i].kind \in Frames!Kinds /\ f = box[i]
BY DEF Frames!Left

(* The frames left of a channel are frames. *)
LEMMA LeftTyped ==
  ASSUME NEW list \in Box, NEW box \in Box, NEW c
  PROVE  Frames!Left(list, box, c) \subseteq Frames!AllFrames
BY DEF Frames!Left, Box

(* The head of the socket goes to the end of the list. *)
LEMMA ToTheList ==
  ASSUME NEW list \in Box, NEW box \in Box, NEW c, box # <<>>, Head(box).channel = c,
         Head(box).kind \in Frames!Kinds, Frames!Sequential(list, box, c)
  PROVE  LET longer == Append(list, Head(box)) IN
         /\ Frames!Sequential(longer, Tail(box), c)
         /\ Frames!Left(longer, Tail(box), c) = Frames!Left(list, box, c)
<1> DEFINE longer == Append(list, Head(box))
           rest == Tail(box)
           n == Len(list)
           m == Len(box)
<1>1. /\ m \in Nat /\ m >= 1 /\ Head(box) = box[1] /\ rest \in Box /\ Len(rest) = m - 1
      /\ \A j \in 1 .. m - 1 : rest[j] = box[j + 1]
  BY HeadAndTail DEF Box
<1>2. /\ n \in Nat /\ longer \in Box /\ Len(longer) = n + 1 /\ longer[n + 1] = box[1]
      /\ \A i \in 1..n : longer[i] = list[i]
  BY <1>1 DEF Box
<1> HIDE DEF longer, rest
<1>3. \A j \in 1 .. m - 1 : j + 1 \in 1..m /\ 1 < j + 1 /\ 1 \in 1..m
  BY <1>1
<1>4. \A i \in 1 .. n + 1 : i \in 1..n \/ i = n + 1
  BY <1>2
<1>5. Frames!Sequential(longer, rest, c)
  <2>1. ASSUME NEW i \in 1 .. n + 1, NEW j \in 1 .. n + 1,
               i < j, longer[i].channel = c, longer[j].channel = c
        PROVE  Frames!Precedes(longer[i], longer[j])
    <3>1. i \in 1..n
      BY <1>2, <2>1
    <3>2. CASE j \in 1..n
      BY <1>2, <2>1, <3>1, <3>2 DEF Frames!Sequential
    <3>3. CASE j = n + 1
      <4>1. Frames!Precedes(list[i], box[1])
        BY <1>1, <1>2, <2>1, <3>1, 1 \in 1..m DEF Frames!Sequential
      <4> QED
        BY <1>2, <3>1, <3>3, <4>1
    <3> QED
      BY <1>4, <3>2, <3>3
  <2>2. ASSUME NEW i \in 1 .. n + 1, NEW j \in 1 .. m - 1,
               longer[i].channel = c, rest[j].kind \in Frames!Kinds
        PROVE  Frames!Precedes(longer[i], rest[j])
    <3>1. rest[j] = box[j + 1] /\ j + 1 \in 1..m /\ 1 < j + 1 /\ 1 \in 1..m
      BY <1>1, <1>3
    <3>2. CASE i \in 1..n
      BY <1>2, <2>2, <3>1, <3>2 DEF Frames!Sequential
    <3>3. CASE i = n + 1
      BY <1>1, <1>2, <2>2, <3>1, <3>3 DEF Frames!Sequential
    <3> QED
      BY <1>4, <3>2, <3>3
  <2>3. ASSUME NEW i \in 1 .. m - 1, NEW j \in 1 .. m - 1,
               i < j, rest[i].kind \in Frames!Kinds, rest[j].kind \in Frames!Kinds
        PROVE  Frames!Precedes(rest[i], rest[j])
    <3>1. rest[i] = box[i + 1] /\ rest[j] = box[j + 1] /\ i + 1 \in 1..m /\ j + 1 \in 1..m
      BY <1>1, <1>3
    <3>2. i + 1 < j + 1
      BY <2>3
    <3> QED
      BY <2>3, <3>1, <3>2 DEF Frames!Sequential
  <2> QED
    BY <1>1, <1>2, <2>1, <2>2, <2>3 DEF Frames!Sequential
<1>6. ASSUME NEW f PROVE f \in Frames!Left(longer, rest, c) <=> f \in Frames!Left(list, box, c)
  <2>1. ASSUME f \in Frames!Left(longer, rest, c) PROVE f \in Frames!Left(list, box, c)
    <3>1. CASE \E i \in 1..Len(longer) : longer[i].channel = c /\ f = longer[i]
      <4>1. PICK i \in 1 .. n + 1 : longer[i].channel = c /\ f = longer[i]
        BY <1>2, <3>1
      <4>2. (\E k \in 1..n : list[k].channel = c /\ f = list[k]) \/ f = box[1]
        BY <1>2, <1>4, <4>1
      <4> QED
        BY <1>1, <4>2, LeftIs, 1 \in 1..m
    <3>2. CASE \E i \in 1..Len(rest) : rest[i].kind \in Frames!Kinds /\ f = rest[i]
      <4>1. PICK i \in 1 .. m - 1 : rest[i].kind \in Frames!Kinds /\ f = rest[i]
        BY <1>1, <3>2
      <4> QED
        BY <1>1, <1>3, <4>1, LeftIs
    <3> QED
      BY <2>1, <3>1, <3>2, LeftIs
  <2>2. ASSUME f \in Frames!Left(list, box, c) PROVE f \in Frames!Left(longer, rest, c)
    <3>1. CASE \E i \in 1..n : list[i].channel = c /\ f = list[i]
      <4>1. PICK i \in 1..n : list[i].channel = c /\ f = list[i]
        BY <3>1
      <4>2. i \in 1..Len(longer) /\ longer[i] = list[i]
        BY <1>2
      <4> QED
        BY <4>1, <4>2, LeftIs
    <3>2. CASE \E i \in 1..m : box[i].kind \in Frames!Kinds /\ f = box[i]
      <4>1. PICK i \in 1..m : box[i].kind \in Frames!Kinds /\ f = box[i]
        BY <3>2
      <4>2. CASE i = 1
        <5>1. n + 1 \in 1..Len(longer) /\ longer[n + 1] = f /\ f.channel = c
          BY <1>1, <1>2, <4>1, <4>2
        <5> QED
          BY <5>1, LeftIs
      <4>3. CASE i # 1
        <5>1. i - 1 \in 1 .. m - 1 /\ (i - 1) + 1 = i
          BY <1>1, <4>3
        <5>2. i - 1 \in 1..Len(rest) /\ rest[i - 1] = box[i]
          BY <1>1, <5>1
        <5> QED
          BY <4>1, <5>2, LeftIs
      <4> QED
        BY <4>2, <4>3
    <3> QED
      BY <2>2, <3>1, <3>2, LeftIs
  <2> QED
    BY <2>1, <2>2
<1>7. Frames!Left(longer, rest, c) = Frames!Left(list, box, c)
  BY <1>6
<1> QED
  BY <1>5, <1>7 DEF longer, rest

(* A frame of another channel goes to the end of the list. *)
LEMMA ToTheListOfOthers ==
  ASSUME NEW list \in Box, NEW box \in Box, NEW d, NEW f \in Frames!AllFrames, f.channel # d,
         Frames!Sequential(list, box, d)
  PROVE  LET longer == Append(list, f) IN
         /\ Frames!Sequential(longer, box, d)
         /\ Frames!Left(longer, box, d) = Frames!Left(list, box, d)
<1> DEFINE longer == Append(list, f)
           n == Len(list)
<1>1. /\ n \in Nat /\ longer \in Box /\ Len(longer) = n + 1 /\ longer[n + 1] = f
      /\ \A i \in 1..n : longer[i] = list[i]
  BY DEF Box
<1> HIDE DEF longer
<1>2. \A i \in 1..Len(longer) : longer[i].channel = d => i \in 1..n /\ longer[i] = list[i]
  BY <1>1
<1>3. \A i \in 1..n : i \in 1..Len(longer) /\ longer[i] = list[i]
  BY <1>1
<1>4. Frames!Sequential(longer, box, d)
  BY <1>2 DEF Frames!Sequential
<1>5. ASSUME NEW g PROVE g \in Frames!Left(longer, box, d) <=> g \in Frames!Left(list, box, d)
  BY <1>2, <1>3, LeftIs
<1> QED
  BY <1>4, <1>5 DEF longer

(* The head of the socket is a reply that goes nowhere. *)
LEMMA TakeReply ==
  ASSUME NEW list \in Box, NEW box \in Box, NEW c, box # <<>>, Head(box).kind \notin Frames!Kinds,
         Frames!Sequential(list, box, c)
  PROVE  /\ Frames!Sequential(list, Tail(box), c)
         /\ Frames!Left(list, Tail(box), c) = Frames!Left(list, box, c)
<1> DEFINE rest == Tail(box)
           m == Len(box)
<1>1. /\ m \in Nat /\ m >= 1 /\ Head(box) = box[1] /\ rest \in Box /\ Len(rest) = m - 1
      /\ \A j \in 1 .. m - 1 : rest[j] = box[j + 1]
  BY HeadAndTail DEF Box
<1> HIDE DEF rest
<1>2. \A j \in 1..Len(rest) : j + 1 \in 1..m /\ rest[j] = box[j + 1]
  BY <1>1
<1>3. \A i \in 1..m : i = 1 \/ (i - 1 \in 1..Len(rest) /\ rest[i - 1] = box[i])
  <2>1. \A i \in 1..m : i = 1 \/ (i - 1 \in 1 .. m - 1 /\ (i - 1) + 1 = i)
    BY <1>1
  <2> QED
    BY <1>1, <2>1
<1>4. \A i, j \in 1..Len(rest) : i < j => i + 1 < j + 1
  OBVIOUS
<1>5. Frames!Sequential(list, rest, c)
  BY <1>2, <1>4 DEF Frames!Sequential
<1>6. ASSUME NEW g PROVE g \in Frames!Left(list, rest, c) <=> g \in Frames!Left(list, box, c)
  BY <1>1, <1>2, <1>3, LeftIs, SMTT(30)
<1> QED
  BY <1>5, <1>6 DEF rest

(* The head of the socket is the first frame left of the channel. *)
LEMMA TakeFromSocket ==
  ASSUME NEW list \in Box, NEW box \in Box, NEW c, box # <<>>, Head(box).kind \in Frames!Kinds,
         \A i \in 1..Len(list) : list[i].channel # c, Frames!Sequential(list, box, c)
  PROVE  /\ Frames!Sequential(list, Tail(box), c)
         /\ Head(box) \in Frames!Left(list, box, c)
         /\ Frames!Left(list, Tail(box), c) = Frames!Left(list, box, c) \ {Head(box)}
         /\ \A g \in Frames!Left(list, box, c) \ {Head(box)} : Frames!Precedes(Head(box), g)
<1> DEFINE rest == Tail(box)
           m == Len(box)
<1>1. /\ m \in Nat /\ m >= 1 /\ Head(box) = box[1] /\ rest \in Box /\ Len(rest) = m - 1
      /\ \A j \in 1 .. m - 1 : rest[j] = box[j + 1]
  BY HeadAndTail DEF Box
<1> HIDE DEF rest
<1>2. \A j \in 1..Len(rest) : j + 1 \in 1..m /\ 1 < j + 1 /\ rest[j] = box[j + 1]
  BY <1>1
<1>3. \A i \in 1..m : i = 1 \/ (i - 1 \in 1..Len(rest) /\ rest[i - 1] = box[i] /\ 1 < i)
  <2>1. \A i \in 1..m : i = 1 \/ (i - 1 \in 1 .. m - 1 /\ (i - 1) + 1 = i /\ 1 < i)
    BY <1>1
  <2> QED
    BY <1>1, <2>1
<1>4. \A i, j \in 1..Len(rest) : i < j => i + 1 < j + 1
  OBVIOUS
<1>5. Frames!Sequential(list, rest, c)
  BY <1>2, <1>4 DEF Frames!Sequential
<1>6. 1 \in 1..m /\ box[1] \in Frames!AllFrames /\ \A i \in 1..m : box[i] \in Frames!AllFrames
  BY <1>1 DEF Box
<1>7. \A j \in 1..Len(rest) : rest[j].kind \in Frames!Kinds => Frames!Precedes(box[1], rest[j])
  BY <1>1, <1>2, <1>6 DEF Frames!Sequential
<1>8. \A j \in 1..Len(rest) : rest[j].kind \in Frames!Kinds => rest[j] # box[1]
  BY <1>2, <1>6, <1>7, StrictOrder
<1>9. ASSUME NEW g
      PROVE  g \in Frames!Left(list, rest, c) <=> g \in Frames!Left(list, box, c) /\ g # box[1]
  <2>1. ASSUME g \in Frames!Left(list, rest, c) PROVE g \in Frames!Left(list, box, c) /\ g # box[1]
    BY <1>2, <1>8, <2>1, LeftIs
  <2>2. ASSUME g \in Frames!Left(list, box, c), g # box[1] PROVE g \in Frames!Left(list, rest, c)
    BY <1>3, <2>2, LeftIs
  <2> QED
    BY <2>1, <2>2
<1>10. ASSUME NEW g \in Frames!Left(list, box, c), g # box[1]
       PROVE  Frames!Precedes(box[1], g)
  BY <1>3, <1>7, <1>10, LeftIs
<1>11. box[1] \in Frames!Left(list, box, c)
  BY <1>1, <1>6, LeftIs
<1> QED
  BY <1>1, <1>5, <1>9, <1>10, <1>11 DEF rest

(* The first frame of the channel in the list is the first one left of it. *)
LEMMA TakeListed ==
  ASSUME NEW list \in Box, NEW box \in Box, NEW c, NEW i \in 1..Len(list), list[i].channel = c,
         \A j \in 1 .. i - 1 : list[j].channel # c, Frames!Sequential(list, box, c)
  PROVE  LET shorter == Frames!RemoveAt(list, i) IN
         /\ Frames!Sequential(shorter, box, c)
         /\ list[i] \in Frames!Left(list, box, c)
         /\ Frames!Left(shorter, box, c) = Frames!Left(list, box, c) \ {list[i]}
         /\ \A g \in Frames!Left(list, box, c) \ {list[i]} : Frames!Precedes(list[i], g)
<1> DEFINE shorter == Frames!RemoveAt(list, i)
           n == Len(list)
           At(j) == IF j < i THEN j ELSE j + 1
<1>1. /\ n \in Nat /\ i \in 1..n /\ shorter \in Box /\ Len(shorter) = n - 1
      /\ \A j \in 1 .. n - 1 : shorter[j] = IF j < i THEN list[j] ELSE list[j + 1]
  <2> HIDE DEF shorter
  <2>1. list \in Seq(Frames!AllFrames) /\ n \in Nat /\ i \in 1..n
    BY DEF Box
  <2>2. /\ shorter \in Seq(Frames!AllFrames) /\ Len(shorter) = n - 1
        /\ \A j \in 1 .. n - 1 : shorter[j] = IF j < i THEN list[j] ELSE list[j + 1]
    BY <2>1, Removed, Zenon DEF shorter
  <2> QED
    BY <2>1, <2>2 DEF Box
<1> HIDE DEF shorter
<1>2. \A j \in 1..Len(shorter) : At(j) \in 1..n /\ At(j) # i /\ shorter[j] = list[At(j)]
  BY <1>1
<1>3. \A j, k \in 1..Len(shorter) : j < k => At(j) < At(k)
  BY <1>1
<1>4. \A k \in 1..n : k # i => \E j \in 1..Len(shorter) : At(j) = k
  <2> SUFFICES ASSUME NEW k \in 1..n, k # i
               PROVE  \E j \in 1..Len(shorter) : At(j) = k
    OBVIOUS
  <2>1. CASE k < i
    <3>1. k \in 1..Len(shorter) /\ At(k) = k
      BY <1>1, <2>1
    <3> QED
      BY <3>1
  <2>2. CASE k > i
    <3>1. k - 1 \in 1..Len(shorter) /\ At(k - 1) = k
      BY <1>1, <2>2
    <3> QED
      BY <3>1
  <2> QED
    BY <1>1, <2>1, <2>2
<1> HIDE DEF At
<1>5. Frames!Sequential(shorter, box, c)
  BY <1>2, <1>3 DEF Frames!Sequential
<1>6. \A k \in 1..n : list[k].channel = c /\ k # i => i < k
  <2>1. \A k \in 1..n : k # i => i < k \/ k \in 1 .. i - 1
    BY <1>1
  <2> QED
    BY <2>1
<1>7. list[i] \in Frames!AllFrames
  BY <1>1 DEF Box
<1>8. \A k \in 1..n : list[k].channel = c /\ k # i => Frames!Precedes(list[i], list[k])
  BY <1>1, <1>6 DEF Frames!Sequential
<1>9. \A k \in 1..Len(box) : box[k].kind \in Frames!Kinds => Frames!Precedes(list[i], box[k])
  BY <1>1 DEF Frames!Sequential
<1>10. /\ \A k \in 1..n : list[k].channel = c /\ k # i => list[k] # list[i]
       /\ \A k \in 1..Len(box) : box[k].kind \in Frames!Kinds => box[k] # list[i]
  BY <1>7, <1>8, <1>9, StrictOrder DEF Box
<1>11. ASSUME NEW g
       PROVE  g \in Frames!Left(shorter, box, c) <=> g \in Frames!Left(list, box, c) /\ g # list[i]
  <2>1. ASSUME g \in Frames!Left(shorter, box, c) PROVE g \in Frames!Left(list, box, c) /\ g # list[i]
    BY <1>2, <1>10, <2>1, LeftIs
  <2>2. ASSUME g \in Frames!Left(list, box, c), g # list[i] PROVE g \in Frames!Left(shorter, box, c)
    BY <1>2, <1>4, <2>2, LeftIs
  <2> QED
    BY <2>1, <2>2
<1>12. ASSUME NEW g \in Frames!Left(list, box, c), g # list[i]
       PROVE  Frames!Precedes(list[i], g)
  BY <1>8, <1>9, <1>12, LeftIs
<1>13. list[i] \in Frames!Left(list, box, c)
  BY <1>1, LeftIs
<1> QED
  BY <1>5, <1>11, <1>12, <1>13 DEF shorter

(* For another channel nothing changes. *)
LEMMA TakeListedOfOthers ==
  ASSUME NEW list \in Box, NEW box \in Box, NEW d, NEW i \in 1..Len(list), list[i].channel # d,
         Frames!Sequential(list, box, d)
  PROVE  LET shorter == Frames!RemoveAt(list, i) IN
         /\ Frames!Sequential(shorter, box, d)
         /\ Frames!Left(shorter, box, d) = Frames!Left(list, box, d)
<1> DEFINE shorter == Frames!RemoveAt(list, i)
           n == Len(list)
           At(j) == IF j < i THEN j ELSE j + 1
<1>1. /\ n \in Nat /\ i \in 1..n /\ shorter \in Box /\ Len(shorter) = n - 1
      /\ \A j \in 1 .. n - 1 : shorter[j] = IF j < i THEN list[j] ELSE list[j + 1]
  <2> HIDE DEF shorter
  <2>1. list \in Seq(Frames!AllFrames) /\ n \in Nat /\ i \in 1..n
    BY DEF Box
  <2>2. /\ shorter \in Seq(Frames!AllFrames) /\ Len(shorter) = n - 1
        /\ \A j \in 1 .. n - 1 : shorter[j] = IF j < i THEN list[j] ELSE list[j + 1]
    BY <2>1, Removed, Zenon DEF shorter
  <2> QED
    BY <2>1, <2>2 DEF Box
<1> HIDE DEF shorter
<1>2. \A j \in 1..Len(shorter) : At(j) \in 1..n /\ At(j) # i /\ shorter[j] = list[At(j)]
  BY <1>1
<1>3. \A j, k \in 1..Len(shorter) : j < k => At(j) < At(k)
  BY <1>1
<1>4. \A k \in 1..n : k # i => \E j \in 1..Len(shorter) : At(j) = k
  <2> SUFFICES ASSUME NEW k \in 1..n, k # i
               PROVE  \E j \in 1..Len(shorter) : At(j) = k
    OBVIOUS
  <2>1. CASE k < i
    <3>1. k \in 1..Len(shorter) /\ At(k) = k
      BY <1>1, <2>1
    <3> QED
      BY <3>1
  <2>2. CASE k > i
    <3>1. k - 1 \in 1..Len(shorter) /\ At(k - 1) = k
      BY <1>1, <2>2
    <3> QED
      BY <3>1
  <2> QED
    BY <1>1, <2>1, <2>2
<1> HIDE DEF At
<1>5. Frames!Sequential(shorter, box, d)
  BY <1>2, <1>3 DEF Frames!Sequential
<1>6. ASSUME NEW g
      PROVE  g \in Frames!Left(shorter, box, d) <=> g \in Frames!Left(list, box, d)
  BY <1>2, <1>4, LeftIs, SMTT(30)
<1> QED
  BY <1>5, <1>6 DEF shorter

(* The server sends a frame that comes behind all of those that are left.   *)
LEMMA SendOne ==
  ASSUME NEW list \in Box, NEW box \in Box, NEW c, NEW f \in Frames!AllFrames, f.kind \in Frames!Kinds,
         \A g \in Frames!Left(list, box, c) : Frames!Precedes(g, f), Frames!Sequential(list, box, c)
  PROVE  LET longer == Append(box, f) IN
         /\ longer \in Box
         /\ Frames!Sequential(list, longer, c)
         /\ Frames!Left(list, longer, c) = Frames!Left(list, box, c) \cup {f}
<1> DEFINE longer == Append(box, f)
           m == Len(box)
<1>1. /\ m \in Nat /\ longer \in Box /\ Len(longer) = m + 1 /\ longer[m + 1] = f
      /\ \A i \in 1..m : longer[i] = box[i]
  BY DEF Box
<1> HIDE DEF longer
<1>2. /\ \A i \in 1..Len(longer) : i = m + 1 \/ (i \in 1..m /\ longer[i] = box[i])
      /\ m + 1 \in 1..Len(longer) /\ \A i \in 1..m : i \in 1..Len(longer)
      /\ \A i, j \in 1..Len(longer) : i < j => i \in 1..m
  BY <1>1
<1>3. /\ \A i \in 1..Len(list) : list[i].channel = c => Frames!Precedes(list[i], f)
      /\ \A i \in 1..m : box[i].kind \in Frames!Kinds => Frames!Precedes(box[i], f)
  BY LeftIs
<1>4. Frames!Sequential(list, longer, c)
  BY <1>1, <1>2, <1>3 DEF Frames!Sequential
<1>5. ASSUME NEW g
      PROVE  g \in Frames!Left(list, longer, c) <=> g \in Frames!Left(list, box, c) \/ g = f
  BY <1>1, <1>2, LeftIs
<1> QED
  BY <1>1, <1>4, <1>5 DEF longer

(* The server sends a reply. *)
LEMMA SendReply ==
  ASSUME NEW list \in Box, NEW box \in Box, NEW c, NEW f \in Frames!AllFrames, f.kind \notin Frames!Kinds,
         Frames!Sequential(list, box, c)
  PROVE  LET longer == Append(box, f) IN
         /\ longer \in Box
         /\ Frames!Sequential(list, longer, c)
         /\ Frames!Left(list, longer, c) = Frames!Left(list, box, c)
<1> DEFINE longer == Append(box, f)
           m == Len(box)
<1>1. /\ m \in Nat /\ longer \in Box /\ Len(longer) = m + 1 /\ longer[m + 1] = f
      /\ \A i \in 1..m : longer[i] = box[i]
  BY DEF Box
<1> HIDE DEF longer
<1>2. /\ \A i \in 1..Len(longer) : longer[i].kind \in Frames!Kinds => i \in 1..m /\ longer[i] = box[i]
      /\ \A i \in 1..m : i \in 1..Len(longer) /\ longer[i] = box[i]
  BY <1>1
<1>3. Frames!Sequential(list, longer, c)
  BY <1>2 DEF Frames!Sequential
<1>4. ASSUME NEW g
      PROVE  g \in Frames!Left(list, longer, c) <=> g \in Frames!Left(list, box, c)
  BY <1>2, LeftIs
<1> QED
  BY <1>1, <1>3, <1>4 DEF longer

(* What is left of a channel when its first frame is taken. *)
LEMMA HasAfter ==
  ASSUME NEW S \in SUBSET Frames!AllFrames, NEW f \in S, \A h \in S \ {f} : Frames!Precedes(f, h),
         NEW n, NEW p
  PROVE  Frames!Has(S \ {f}, n, p)
           <=> Frames!Has(S, n, p) /\ ~(n = Frames!MessageOf(f) /\ p = Frames!Place(f))
<1>1. \A h \in S \ {f} : ~(Frames!MessageOf(h) = Frames!MessageOf(f) /\ Frames!Place(h) = Frames!Place(f))
  BY PlaceTypes DEF Frames!Precedes
<1> QED
  BY <1>1 DEF Frames!Has

(* Some frame left has the place that comes next in the next message. *)
LEMMA NextIsThere ==
  ASSUME NEW S \in SUBSET Frames!AllFrames, NEW g \in Nat, NEW last \in Nat, NEW place \in 0..2,
         Frames!Complete(S, g, last, place), g < last
  PROVE  \E h \in S : Frames!MessageOf(h) = g + 1 /\ Frames!Place(h) = place
                      /\ (place = 1 => (Frames!Filled(h) <=> Frames!Has(S, g + 1, 2)))
<1>1. g + 1 \in g + 1 .. last
  OBVIOUS
<1>2. CASE place = 0
  BY <1>1, <1>2 DEF Frames!Complete, Frames!Has
<1>3. CASE place = 1
  BY <1>1, <1>3 DEF Frames!Complete, Frames!Has
<1>4. CASE place = 2
  BY <1>1, <1>4 DEF Frames!Complete, Frames!Has
<1> QED
  BY <1>2, <1>3, <1>4

(* The first frame is the one whose place comes next. *)
LEMMA FirstIsNext ==
  ASSUME NEW S \in SUBSET Frames!AllFrames, NEW g \in Nat, NEW last \in Nat, NEW place \in 0..2,
         Frames!Complete(S, g, last, place), NEW f \in S, \A h \in S \ {f} : Frames!Precedes(f, h)
  PROVE  g < last /\ Frames!MessageOf(f) = g + 1 /\ Frames!Place(f) = place
<1>1. f \in Frames!AllFrames /\ Frames!MessageOf(f) \in g + 1 .. last
  BY DEF Frames!Complete
<1>2. g < last
  BY <1>1
<1>3. PICK h \in S : Frames!MessageOf(h) = g + 1 /\ Frames!Place(h) = place
  BY <1>2, NextIsThere
<1>4. CASE f = h
  BY <1>2, <1>3, <1>4
<1>5. CASE f # h
  <2>1. Frames!Precedes(f, h) /\ Frames!MessageOf(f) \in Nat /\ Frames!Place(f) \in 0..2
    BY <1>1, <1>5, PlaceTypes
  <2>2. Frames!MessageOf(f) = g + 1 /\ Frames!Place(f) < place
    BY <1>1, <1>3, <2>1 DEF Frames!Precedes
  <2>3. Frames!Place(f) >= place
    BY <2>2 DEF Frames!Complete
  <2> QED
    BY <2>1, <2>2, <2>3
<1> QED
  BY <1>4, <1>5

(* The kind and number of a frame whose place is known. *)
LEMMA KindOfPlace ==
  ASSUME NEW f \in Frames!AllFrames, f.kind \in Frames!Kinds, f.kind # "header" => Frames!Filled(f)
  PROVE  /\ Frames!Place(f) = 0 <=> f.kind \in Frames!Contents
         /\ Frames!Place(f) = 1 <=> f.kind = "header"
         /\ Frames!Place(f) = 2 <=> f.kind = "body"
         /\ f.kind # "header" => Frames!MessageOf(f) = f.msg
         /\ Frames!Filled(f) => Frames!MessageOf(f) = f.msg
         /\ ~Frames!Filled(f) => f.msg = 0 - Frames!MessageOf(f)
BY DEF Frames!AllFrames, Frames!Place, Frames!MessageOf, Frames!Kinds, Frames!Contents, Frames!Filled

(* A message begins. *)
LEMMA MethodTaken ==
  ASSUME NEW S \in SUBSET Frames!AllFrames, NEW g \in Nat, NEW last \in Nat,
         Frames!Complete(S, g, last, 0), NEW f \in S, \A h \in S \ {f} : Frames!Precedes(f, h)
  PROVE  /\ f.kind \in Frames!Contents /\ f.msg = g + 1
         /\ Frames!Complete(S \ {f}, g, last, 1)
<1>1. /\ g < last /\ Frames!MessageOf(f) = g + 1 /\ Frames!Place(f) = 0
  BY FirstIsNext
<1>2. f.kind \in Frames!Contents /\ f.msg = g + 1
  BY <1>1, KindOfPlace DEF Frames!Complete
<1>3. \A n \in Nat, p \in 0..2 : Frames!Has(S \ {f}, n, p) <=> Frames!Has(S, n, p) /\ ~(n = g + 1 /\ p = 0)
  BY <1>1, HasAfter
<1>4. \A h \in S \ {f} : Frames!MessageOf(h) = g + 1 => Frames!Place(h) >= 1
  BY <1>1, PlaceTypes DEF Frames!Precedes
<1>5. \A n \in g + 1 .. last :
        \E h \in S \ {f} : /\ Frames!MessageOf(h) = n /\ Frames!Place(h) = 1
                           /\ Frames!Filled(h) <=> Frames!Has(S \ {f}, n, 2)
  <2> SUFFICES ASSUME NEW n \in g + 1 .. last
               PROVE  \E h \in S \ {f} : /\ Frames!MessageOf(h) = n /\ Frames!Place(h) = 1
                                         /\ Frames!Filled(h) <=> Frames!Has(S \ {f}, n, 2)
    OBVIOUS
  <2>1. PICK h \in S : Frames!MessageOf(h) = n /\ Frames!Place(h) = 1 /\ (Frames!Filled(h) <=> Frames!Has(S, n, 2))
    BY DEF Frames!Complete
  <2>2. h # f /\ n \in Nat /\ 2 \in 0..2 /\ 2 # 0
    BY <1>1, <2>1
  <2> QED
    BY <1>3, <2>1, <2>2
<1> QED
  <2>1. \A n \in g + 1 .. last :
          /\ n > g + 1 => Frames!Has(S \ {f}, n, 0)
          /\ \E h \in S \ {f} : Frames!MessageOf(h) = n /\ Frames!Place(h) = 1
                               /\ (Frames!Filled(h) <=> Frames!Has(S \ {f}, n, 2))
          /\ ~(n = g + 1 /\ 1 = 2)
    <3>1. \A n \in g + 1 .. last : n > g + 1 => Frames!Has(S, n, 0) /\ n # g + 1
      BY DEF Frames!Complete
    <3> QED
      BY <1>3, <1>5, <3>1
  <2>2. \A h \in S \ {f} : /\ h.kind \in Frames!Kinds /\ Frames!MessageOf(h) \in g + 1 .. last
                           /\ h.kind # "header" => Frames!Filled(h)
                           /\ Frames!MessageOf(h) = g + 1 => Frames!Place(h) >= 1
    BY <1>4 DEF Frames!Complete
  <2>3. Frames!Complete(S \ {f}, g, last, 1)
    BY <1>1, <2>1, <2>2 DEF Frames!Complete
  <2> QED
    BY <1>2, <2>3

(* Its last frame was taken, and the next message is the first one left.    *)
LEMMA LastTaken ==
  ASSUME NEW S \in SUBSET Frames!AllFrames, NEW g \in Nat, NEW last \in Nat, NEW place \in 1..2,
         Frames!Complete(S, g, last, place), NEW f \in S, \A h \in S \ {f} : Frames!Precedes(f, h),
         place = 1 => ~Frames!Filled(f)
  PROVE  Frames!Complete(S \ {f}, g + 1, last, 0)
<1>1. /\ g < last /\ Frames!MessageOf(f) = g + 1 /\ Frames!Place(f) = place
  <2>1. place \in 0..2
    OBVIOUS
  <2> QED
    BY <2>1, FirstIsNext, Zenon
<1>2. \A n \in Nat, p \in 0..2 : Frames!Has(S \ {f}, n, p) <=> Frames!Has(S, n, p) /\ ~(n = g + 1 /\ p = place)
  BY <1>1, HasAfter
<1>3. ASSUME NEW h \in S \ {f} PROVE Frames!MessageOf(h) \in g + 2 .. last
  <2>1. /\ Frames!MessageOf(h) \in g + 1 .. last /\ Frames!Place(h) \in 0..2
        /\ Frames!Precedes(f, h)
    BY PlaceTypes DEF Frames!Complete
  <2>2. CASE Frames!MessageOf(h) = g + 1
    <3>1. Frames!Place(h) > place
      BY <1>1, <2>1, <2>2 DEF Frames!Precedes
    <3>2. place = 1 /\ Frames!Place(h) = 2 /\ ~Frames!Filled(f)
      BY <2>1, <3>1
    <3>3. Frames!Has(S, g + 1, 2)
      BY <2>2, <3>2 DEF Frames!Has
    <3>4. PICK k \in S : Frames!MessageOf(k) = g + 1 /\ Frames!Place(k) = 1 /\ Frames!Filled(k)
      <4>1. 1 \in 0..2 /\ Frames!Complete(S, g, last, 1)
        BY <3>2
      <4>2. PICK k \in S : /\ Frames!MessageOf(k) = g + 1 /\ Frames!Place(k) = 1
                           /\ 1 = 1 => (Frames!Filled(k) <=> Frames!Has(S, g + 1, 2))
        BY <1>1, <4>1, NextIsThere
      <4> QED
        BY <3>3, <4>2
    <3>5. k # f /\ Frames!Precedes(f, k)
      BY <3>2, <3>4
    <3> QED
      BY <1>1, <3>2, <3>4, <3>5 DEF Frames!Precedes
  <2> QED
    BY <2>1, <2>2
<1>4. \A n \in g + 2 .. last :
        /\ n \in g + 1 .. last /\ n > g + 1
        /\ \E h \in S \ {f} : /\ Frames!MessageOf(h) = n /\ Frames!Place(h) = 1
                              /\ Frames!Filled(h) <=> Frames!Has(S \ {f}, n, 2)
  <2> SUFFICES ASSUME NEW n \in g + 2 .. last
               PROVE  \E h \in S \ {f} : /\ Frames!MessageOf(h) = n /\ Frames!Place(h) = 1
                                         /\ Frames!Filled(h) <=> Frames!Has(S \ {f}, n, 2)
    OBVIOUS
  <2>1. n \in g + 1 .. last /\ n > g + 1
    OBVIOUS
  <2>2. PICK h \in S : Frames!MessageOf(h) = n /\ Frames!Place(h) = 1 /\ (Frames!Filled(h) <=> Frames!Has(S, n, 2))
    BY <2>1 DEF Frames!Complete
  <2>3. h # f
    BY <1>1, <2>1, <2>2
  <2> QED
    BY <1>2, <2>1, <2>2, <2>3
<1>5. \A n \in (g + 1) + 1 .. last : n \in g + 1 .. last /\ n > g + 1 /\ n \in g + 2 .. last
  OBVIOUS
<1>6. \A n \in (g + 1) + 1 .. last : Frames!Has(S \ {f}, n, 0)
  <2>1. \A n \in (g + 1) + 1 .. last : Frames!Has(S, n, 0)
    BY <1>5 DEF Frames!Complete
  <2>2. \A n \in (g + 1) + 1 .. last : n \in Nat /\ n # g + 1
    OBVIOUS
  <2> QED
    BY <1>2, <2>1, <2>2
<1>7. \A h \in S \ {f} : h.kind \in Frames!Kinds /\ (h.kind # "header" => Frames!Filled(h))
                         /\ Frames!Place(h) >= 0 /\ Frames!MessageOf(h) \in (g + 1) + 1 .. last
  BY <1>3, PlaceTypes DEF Frames!Complete
<1>8. \A n \in (g + 1) + 1 .. last :
        \E h \in S \ {f} : /\ Frames!MessageOf(h) = n /\ Frames!Place(h) = 1
                           /\ Frames!Filled(h) <=> Frames!Has(S \ {f}, n, 2)
  BY <1>4, <1>5
<1>9. /\ 0 > 0 => g + 1 < last
      /\ \A n \in (g + 1) + 1 .. last : n # g + 1 + 1 \/ 0 # 2
      /\ \A h \in S \ {f} : Frames!MessageOf(h) = (g + 1) + 1 => Frames!Place(h) >= 0
  BY <1>7
<1>10. \A n \in (g + 1) + 1 .. last :
         /\ n > (g + 1) + 1 \/ 0 = 0 => Frames!Has(S \ {f}, n, 0)
         /\ n > (g + 1) + 1 \/ 0 <= 1 =>
              \E h \in S \ {f} : Frames!MessageOf(h) = n /\ Frames!Place(h) = 1
                                 /\ (Frames!Filled(h) <=> Frames!Has(S \ {f}, n, 2))
         /\ n = (g + 1) + 1 /\ 0 = 2 => Frames!Has(S \ {f}, n, 2)
  BY <1>6, <1>8, <1>9, Zenon
<1> QED
  BY <1>7, <1>9, <1>10, Zenon DEF Frames!Complete

(* Its header was taken, and there is a body. *)
LEMMA HeaderTaken ==
  ASSUME NEW S \in SUBSET Frames!AllFrames, NEW g \in Nat, NEW last \in Nat,
         Frames!Complete(S, g, last, 1), NEW f \in S, \A h \in S \ {f} : Frames!Precedes(f, h),
         Frames!Filled(f)
  PROVE  Frames!Complete(S \ {f}, g, last, 2)
<1>1. /\ g < last /\ Frames!MessageOf(f) = g + 1 /\ Frames!Place(f) = 1
  <2> DEFINE place == 1
  <2>1. place \in 0..2 /\ Frames!Complete(S, g, last, place)
    OBVIOUS
  <2> HIDE DEF place
  <2>2. g < last /\ Frames!MessageOf(f) = g + 1 /\ Frames!Place(f) = place
    BY <2>1, FirstIsNext
  <2> QED
    BY <2>2 DEF place
<1>2. \A n \in Nat, p \in 0..2 : Frames!Has(S \ {f}, n, p) <=> Frames!Has(S, n, p) /\ ~(n = g + 1 /\ p = 1)
  BY <1>1, HasAfter
<1>3. \A h \in S \ {f} : Frames!MessageOf(h) = g + 1 => Frames!Place(h) >= 2
  BY <1>1, PlaceTypes DEF Frames!Precedes
<1>4. Frames!Has(S \ {f}, g + 1, 2)
  <2>1. PICK k \in S : Frames!MessageOf(k) = g + 1 /\ Frames!Place(k) = 1
                       /\ (Frames!Filled(k) <=> Frames!Has(S, g + 1, 2))
    <3>1. 1 \in 0..2
      OBVIOUS
    <3>2. PICK k \in S : /\ Frames!MessageOf(k) = g + 1 /\ Frames!Place(k) = 1
                         /\ 1 = 1 => (Frames!Filled(k) <=> Frames!Has(S, g + 1, 2))
      BY <1>1, <3>1, NextIsThere
    <3> QED
      BY <3>2
  <2>2. k = f
    BY <1>1, <2>1, PlaceTypes DEF Frames!Precedes
  <2> QED
    BY <1>2, <2>1, <2>2
<1>5. \A n \in g + 1 .. last : n > g + 1 =>
        \E h \in S \ {f} : /\ Frames!MessageOf(h) = n /\ Frames!Place(h) = 1
                           /\ Frames!Filled(h) <=> Frames!Has(S \ {f}, n, 2)
  <2> SUFFICES ASSUME NEW n \in g + 1 .. last, n > g + 1
               PROVE  \E h \in S \ {f} : /\ Frames!MessageOf(h) = n /\ Frames!Place(h) = 1
                                         /\ Frames!Filled(h) <=> Frames!Has(S \ {f}, n, 2)
    OBVIOUS
  <2>1. PICK h \in S : Frames!MessageOf(h) = n /\ Frames!Place(h) = 1 /\ (Frames!Filled(h) <=> Frames!Has(S, n, 2))
    BY DEF Frames!Complete
  <2>2. h # f
    BY <1>1, <2>1
  <2> QED
    BY <1>2, <2>1, <2>2
<1>6. \A n \in g + 1 .. last : n > g + 1 => Frames!Has(S \ {f}, n, 0)
  <2> SUFFICES ASSUME NEW n \in g + 1 .. last, n > g + 1
               PROVE  Frames!Has(S \ {f}, n, 0)
    OBVIOUS
  <2>1. Frames!Has(S, n, 0)
    BY DEF Frames!Complete
  <2>2. n \in Nat /\ 0 \in 0..2 /\ n # g + 1
    OBVIOUS
  <2> QED
    BY <1>2, <2>1, <2>2
<1> QED
  <2>1. \A n \in g + 1 .. last :
          /\ n > g + 1 => Frames!Has(S \ {f}, n, 0)
          /\ n > g + 1 =>
               \E h \in S \ {f} : /\ Frames!MessageOf(h) = n /\ Frames!Place(h) = 1
                                  /\ Frames!Filled(h) <=> Frames!Has(S \ {f}, n, 2)
          /\ n = g + 1 => Frames!Has(S \ {f}, n, 2)
    BY <1>4, <1>5, <1>6
  <2>2. \A h \in S \ {f} : /\ h.kind \in Frames!Kinds /\ Frames!MessageOf(h) \in g + 1 .. last
                           /\ h.kind # "header" => Frames!Filled(h)
                           /\ Frames!MessageOf(h) = g + 1 => Frames!Place(h) >= 2
    BY <1>3 DEF Frames!Complete
  <2>3. 2 > 0 /\ ~(2 <= 1) /\ 2 # 0
    OBVIOUS
  <2>4. /\ 2 > 0 => g < last
        /\ \A n \in g + 1 .. last :
             /\ n > g + 1 \/ 2 = 0 => Frames!Has(S \ {f}, n, 0)
             /\ n > g + 1 \/ 2 <= 1 =>
                  \E h \in S \ {f} : Frames!MessageOf(h) = n /\ Frames!Place(h) = 1
                                     /\ (Frames!Filled(h) <=> Frames!Has(S \ {f}, n, 2))
             /\ n = g + 1 /\ 2 = 2 => Frames!Has(S \ {f}, n, 2)
    BY <1>1, <2>1, <2>3, Zenon
  <2> QED
    BY <2>2, <2>4, Zenon DEF Frames!Complete

(* The server sends a whole message. *)
LEMMA MessageSent ==
  ASSUME NEW S \in SUBSET Frames!AllFrames, NEW g \in Nat, NEW last \in Nat, NEW place \in 0..2,
         Frames!Complete(S, g, last, place), g <= last,
         NEW m \in Frames!AllFrames, NEW h \in Frames!AllFrames, NEW B \in SUBSET Frames!AllFrames,
         m.kind \in Frames!Contents, m.msg = last + 1,
         h.kind = "header", h.msg \in {last + 1, 0 - (last + 1)},
         \A b \in B : b.kind = "body" /\ b.msg = last + 1, Frames!Filled(h) <=> B # {}
  PROVE  Frames!Complete(S \cup {m, h} \cup B, g, last + 1, place)
<1> DEFINE T == S \cup {m, h} \cup B
<1>1. /\ m.kind \in Frames!Kinds /\ m.kind # "header" /\ Frames!MessageOf(m) = last + 1 /\ Frames!Place(m) = 0
      /\ h.kind \in Frames!Kinds /\ Frames!MessageOf(h) = last + 1 /\ Frames!Place(h) = 1
      /\ \A b \in B : b.kind \in Frames!Kinds /\ Frames!MessageOf(b) = last + 1 /\ Frames!Place(b) = 2
                      /\ b.kind # "header" /\ Frames!Filled(b)
      /\ Frames!Filled(m)
  BY DEF Frames!Kinds, Frames!Contents, Frames!MessageOf, Frames!Place, Frames!AllFrames, Frames!Filled
<1>2. \A f \in S : Frames!MessageOf(f) \in g + 1 .. last
  BY DEF Frames!Complete
<1>3. ASSUME NEW n \in g + 1 .. last, NEW p PROVE Frames!Has(T, n, p) <=> Frames!Has(S, n, p)
  <2>1. n # last + 1
    OBVIOUS
  <2> QED
    BY <1>1, <2>1 DEF Frames!Has
<1>4. /\ Frames!Has(T, last + 1, 0)
      /\ \E f \in T : Frames!MessageOf(f) = last + 1 /\ Frames!Place(f) = 1
                      /\ (Frames!Filled(f) <=> Frames!Has(T, last + 1, 2))
  <2>1. Frames!Has(T, last + 1, 2) <=> B # {}
    <3>1. ASSUME NEW f \in S PROVE Frames!MessageOf(f) # last + 1
      BY <1>2
    <3> QED
      BY <1>1, <3>1 DEF Frames!Has
  <2> QED
    BY <1>1, <2>1 DEF Frames!Has
<1>5. ASSUME NEW f \in T
      PROVE  /\ f.kind \in Frames!Kinds /\ Frames!MessageOf(f) \in g + 1 .. last + 1
             /\ f.kind # "header" => Frames!Filled(f)
             /\ Frames!MessageOf(f) = g + 1 => Frames!Place(f) >= place
  <2>1. CASE f \in S
    BY <2>1 DEF Frames!Complete
  <2>2. CASE f \notin S
    <3>1. /\ f.kind \in Frames!Kinds /\ Frames!MessageOf(f) = last + 1
          /\ f.kind # "header" => Frames!Filled(f)
      BY <1>1, <2>2
    <3>2. CASE place = 0
      BY <3>1, <3>2, <1>1, <2>2
    <3>3. CASE place > 0
      BY <3>1, <3>3 DEF Frames!Complete
    <3> QED
      BY <3>2, <3>3
  <2> QED
    BY <2>1, <2>2
<1>6. ASSUME NEW n \in g + 1 .. last + 1
      PROVE  /\ n > g + 1 \/ place = 0 => Frames!Has(T, n, 0)
             /\ n > g + 1 \/ place <= 1 =>
                  \E f \in T : Frames!MessageOf(f) = n /\ Frames!Place(f) = 1
                               /\ (Frames!Filled(f) <=> Frames!Has(T, n, 2))
             /\ n = g + 1 /\ place = 2 => Frames!Has(T, n, 2)
  <2>1. CASE n \in g + 1 .. last
    <3>1. \A p : Frames!Has(T, n, p) <=> Frames!Has(S, n, p)
      BY <1>3, <2>1
    <3>2. S \subseteq T
      OBVIOUS
    <3> HIDE DEF T
    <3> QED
      BY <2>1, <3>1, <3>2 DEF Frames!Complete
  <2>2. CASE n = last + 1
    <3>1. n = g + 1 => place = 0
      BY <2>2 DEF Frames!Complete
    <3> HIDE DEF T
    <3> QED
      BY <1>4, <2>2, <3>1
  <2> QED
    <3> HIDE DEF T
    <3>1. n \in g + 1 .. last \/ n = last + 1
      OBVIOUS
    <3> QED
      BY <2>1, <2>2, <3>1
<1>7. place > 0 => g < last + 1
  OBVIOUS
<1> HIDE DEF T
<1>8. Frames!Complete(T, g, last + 1, place)
  BY <1>5, <1>6, <1>7 DEF Frames!Complete
<1> QED
  BY <1>8 DEF T

(* What the invariant says of a call, and of the frames of a channel. *)
LEMMA CallIs ==
  ASSUME Frames!FramesTyped
  PROVE  /\ amqpCall.op \in {"none", "rpc", "get", "drain", "header", "body"}
         /\ amqpCall.op = "none" <=> amqpCall = Frames!Idle
         /\ amqpCall.op = "drain" <=> amqpCall = Frames!Drain
         /\ amqpCall.op = "rpc" => amqpCall.channel \in Channels /\ amqpCall = Frames!Rpc(amqpCall.channel)
         /\ amqpCall.op = "get" => amqpCall.channel \in Channels /\ amqpCall = Frames!Get(amqpCall.channel)
         /\ amqpCall.op \in {"header", "body"} =>
              /\ amqpCall.method \in Frames!AllFrames /\ amqpCall.channel = amqpCall.method.channel
              /\ amqpCall.channel \in Channels
              /\ amqpCall = Frames!Reading(amqpCall.op, amqpCall.method)
<1> USE DEF Frames!Idle, Frames!Drain, Frames!Rpc, Frames!Get, Frames!Reading
<1>1. CASE amqpCall \in {Frames!Idle, Frames!Drain}
  BY <1>1
<1>2. CASE \E c \in Channels : amqpCall = Frames!Rpc(c)
  BY <1>2
<1>3. CASE \E c \in Channels : amqpCall = Frames!Get(c)
  BY <1>3
<1>4. CASE \E place \in {"header", "body"}, f \in Frames!AllFrames : amqpCall = Frames!Reading(place, f)
  BY <1>4 DEF Frames!AllFrames
<1> QED
  BY <1>1, <1>2, <1>3, <1>4 DEF Frames!FramesTyped

(* The messages that were given are the first ones. *)
LEMMA GivenBound ==
  ASSUME Frames!IInv, NEW c \in Channels
  PROVE  /\ delivered[c] \in Seq(Nat) /\ Len(delivered[c]) \in Nat /\ sent[c] \in Nat
         /\ Len(delivered[c]) <= sent[c] /\ outbox[c] \in Box /\ frames \in Box
         /\ \A i \in 1..Len(outbox[c]) : outbox[c][i].channel = c
<1>1. /\ delivered[c] \in Seq(Nat) /\ Len(delivered[c]) \in Nat /\ sent[c] \in Nat
      /\ outbox[c] \in Box /\ frames \in Box
  BY DEF Frames!IInv, Frames!FramesTyped, Box
<1>2. Len(delivered[c]) <= sent[c]
  <2>1. CASE Len(delivered[c]) = 0
    BY <1>1, <2>1
  <2>2. CASE Len(delivered[c]) > 0
    <3>1. Len(delivered[c]) \in DOMAIN delivered[c]
      BY <1>1, <2>2
    <3>2. delivered[c][Len(delivered[c])] = Len(delivered[c])
      BY <3>1 DEF Frames!IInv, Frames!InOrder
    <3>3. delivered[c][Len(delivered[c])] \in 1 .. sent[c]
      BY <3>1 DEF Frames!IInv, Frames!TypeOK, Frames!Range
    <3> QED
      BY <1>1, <3>2, <3>3
  <2> QED
    BY <1>1, <2>1, <2>2
<1>3. \A i \in 1..Len(outbox[c]) : outbox[c][i].channel = c
  BY <1>1 DEF Frames!IInv, Frames!TypeOK, Frames!Range, Box
<1> QED
  BY <1>1, <1>2, <1>3

(* No reply is on its way to a call that reads deliveries. *)
LEMMA NoReplies ==
  ASSUME Frames!IInv, amqpCall.op \notin {"rpc", "get"}, NEW c \in Channels
  PROVE  /\ asked[c] = "none"
         /\ \A i \in 1..Len(outbox[c]) : outbox[c][i].kind \in Frames!Kinds /\ ~Frames!IsAnswer(outbox[c][i])
<1>1. asked[c] \in {"none", "rpc", "get"}
  BY DEF Frames!IInv, Frames!TypeOK
<1>2. asked[c] = "none"
  BY <1>1 DEF Frames!IInv, Frames!RepliesAwaited, Frames!Awaits
<1>3. \A i \in 1..Len(outbox[c]) : ~Frames!IsAnswer(outbox[c][i])
  BY DEF Frames!IInv, Frames!RepliesAwaited, Frames!Awaits
<1>4. \A i \in 1..Len(outbox[c]) : outbox[c][i] \in Frames!AllFrames
  BY GivenBound DEF Box
<1>5. ASSUME NEW i \in 1..Len(outbox[c]) PROVE outbox[c][i].kind \in Frames!Kinds
  <2>1. outbox[c][i].kind \in Frames!Kinds \cup Frames!Replies
    BY <1>4 DEF Frames!AllFrames
  <2> QED
    BY <1>3, <2>1 DEF Frames!IsAnswer
<1> QED
  BY <1>2, <1>3, <1>5

(* What a call that begins or ends without a frame leaves as it was. *)
LEMMA CallOnly ==
  ASSUME Frames!IInv, UNCHANGED <<sent, outbox, frames, delivered, announced, dropped>>,
         amqpCall.op \notin {"header", "body"}, amqpCall'.op \notin {"header", "body"},
         asked' \in [Channels -> {"none", "rpc", "get"}],
         amqpCall' \in {Frames!Idle, Frames!Drain} \cup {Frames!Rpc(c) : c \in Channels} \cup {Frames!Get(c) : c \in Channels},
         Frames!RepliesAwaited'
  PROVE  Frames!IInv'
<1>1. /\ sent' = sent /\ outbox' = outbox /\ frames' = frames /\ delivered' = delivered
      /\ announced' = announced /\ dropped' = dropped
  OBVIOUS
<1>2. Frames!TypeOK'
  <2>1. amqpCall'.op \in {"none", "rpc", "get", "drain"}
    BY DEF Frames!Idle, Frames!Drain, Frames!Rpc, Frames!Get
  <2> QED
    BY <1>1, <2>1 DEF Frames!IInv, Frames!TypeOK
<1>3. Frames!FramesTyped'
  BY <1>1 DEF Frames!IInv, Frames!FramesTyped
<1>4. Frames!InSequence' /\ Frames!InOrder' /\ Frames!FramesInPlace'
  BY <1>1 DEF Frames!IInv, Frames!InSequence, Frames!InOrder, Frames!FramesInPlace
<1>5. Frames!NoneMissing'
  <2>1. \A c \in Channels : Frames!NextPlace(c) = 0 /\ Frames!NextPlace(c)' = 0
    BY DEF Frames!NextPlace
  <2> QED
    BY <1>1, <2>1 DEF Frames!IInv, Frames!NoneMissing
<1>6. Frames!ReadsNext'
  BY DEF Frames!ReadsNext
<1>7. Frames!AnnouncedIsThere'
  BY <1>1 DEF Frames!IInv, Frames!AnnouncedIsThere
<1> QED
  BY <1>2, <1>3, <1>4, <1>5, <1>6, <1>7 DEF Frames!IInv

(* A request begins: nothing was on its way before. *)
LEMMA RequestsStep ==
  ASSUME Frames!IInv, NEW c \in Channels, Frames!CallRpc(c) \/ Frames!BasicGet(c)
  PROVE  Frames!IInv'
<1> DEFINE op == amqpCall'.op
<1>1. /\ UNCHANGED <<sent, outbox, frames, delivered, announced, dropped>>
      /\ amqpCall = Frames!Idle /\ amqpCall' \in {Frames!Rpc(c), Frames!Get(c)}
      /\ asked' = [asked EXCEPT ![c] = op]
  BY DEF Frames!CallRpc, Frames!BasicGet, Frames!Requests
<1>2. amqpCall.op = "none" /\ op \in {"rpc", "get"} /\ amqpCall'.channel = c
  BY <1>1 DEF Frames!Idle, Frames!Rpc, Frames!Get
<1> HIDE DEF op
<1>3. asked \in [Channels -> {"none", "rpc", "get"}]
  BY DEF Frames!IInv, Frames!TypeOK
<1>4. asked' \in [Channels -> {"none", "rpc", "get"}] /\ asked'[c] = op
      /\ \A d \in Channels : d # c => asked'[d] = asked[d]
  BY <1>1, <1>2, <1>3
<1>5. Frames!RepliesAwaited'
  <2> SUFFICES ASSUME NEW d \in Channels
               PROVE  /\ asked'[d] # "none" => Frames!Awaits(d, asked[d])'
                      /\ \A i \in 1..Len(outbox'[d]) : ~Frames!IsAnswer(outbox'[d][i])
    BY DEF Frames!RepliesAwaited
  <2>1. asked[d] = "none" /\ \A i \in 1..Len(outbox[d]) : ~Frames!IsAnswer(outbox[d][i])
    BY <1>2, NoReplies
  <2>2. \A i \in 1..Len(outbox'[d]) : ~Frames!IsAnswer(outbox'[d][i])
    BY <1>1, <2>1
  <2>3. asked'[d] # "none" => Frames!Awaits(d, asked[d])'
    BY <1>2, <1>4, <2>1 DEF Frames!Awaits, op
  <2> QED
    BY <2>2, <2>3
<1> QED
  BY <1>1, <1>2, <1>4, <1>5, CallOnly DEF op

(* The drain loop begins, or its timeout is over. *)
LEMMA DrainStep ==
  ASSUME Frames!IInv, Frames!DrainEvents \/ Frames!TimesOut
  PROVE  Frames!IInv'
<1>1. /\ UNCHANGED <<sent, outbox, asked, frames, delivered, announced, dropped>>
      /\ amqpCall \in {Frames!Idle, Frames!Drain} /\ amqpCall' \in {Frames!Idle, Frames!Drain}
  BY DEF Frames!DrainEvents, Frames!TimesOut
<1>2. amqpCall.op \in {"none", "drain"} /\ amqpCall'.op \in {"none", "drain"}
  BY <1>1 DEF Frames!Idle, Frames!Drain
<1>3. asked' \in [Channels -> {"none", "rpc", "get"}]
  BY <1>1 DEF Frames!IInv, Frames!TypeOK
<1>4. Frames!RepliesAwaited'
  <2> SUFFICES ASSUME NEW d \in Channels
               PROVE  /\ asked'[d] = "none"
                      /\ \A i \in 1..Len(outbox'[d]) : ~Frames!IsAnswer(outbox'[d][i])
    BY DEF Frames!RepliesAwaited
  <2> QED
    BY <1>1, <1>2, NoReplies
<1> QED
  BY <1>1, <1>2, <1>3, <1>4, CallOnly

(* Two or three frames at the end of a sequence. *)
LEMMA AppendedFrames ==
  ASSUME NEW S, NEW s \in Seq(S), NEW m \in S, NEW h \in S, NEW b \in S
  PROVE  /\ s \o (<<m, h>> \o <<>>) = Append(Append(s, m), h)
         /\ s \o (<<m, h>> \o <<b>>) = Append(Append(Append(s, m), h), b)
<1>1. Len(s) \in Nat
  OBVIOUS
<1>2. <<m, h>> \o <<>> = <<m, h>> /\ <<m, h>> \o <<b>> = <<m, h, b>>
  <2>1. <<m, h>> \in Seq(S) /\ <<b>> \in Seq(S) /\ <<m, h, b>> \in Seq(S)
    OBVIOUS
  <2>2. <<m, h>> \o <<>> = <<m, h>>
    BY <2>1, ConcatEmptySeq
  <2>3. /\ <<m, h>> \o <<b>> \in Seq(S) /\ Len(<<m, h>> \o <<b>>) = 3
        /\ \A i \in 1..3 : (<<m, h>> \o <<b>>)[i] = IF i <= 2 THEN <<m, h>>[i] ELSE <<b>>[i - 2]
    BY <2>1
  <2>4. \A i \in 1..3 : i = 1 \/ i = 2 \/ i = 3
    OBVIOUS
  <2>5. \A i \in 1..3 : (<<m, h>> \o <<b>>)[i] = <<m, h, b>>[i]
    BY <2>3, <2>4
  <2>6. Len(<<m, h, b>>) = 3
    OBVIOUS
  <2> QED
    BY <2>1, <2>2, <2>3, <2>5, <2>6, SeqEqual
<1>3. s \o <<m, h>> = Append(Append(s, m), h)
  <2>1. /\ s \o <<m, h>> \in Seq(S) /\ Len(s \o <<m, h>>) = Len(s) + 2
        /\ \A i \in 1 .. Len(s) + 2 : (s \o <<m, h>>)[i] = IF i <= Len(s) THEN s[i] ELSE <<m, h>>[i - Len(s)]
    BY <1>1
  <2>2. /\ Append(Append(s, m), h) \in Seq(S) /\ Len(Append(Append(s, m), h)) = Len(s) + 2
        /\ \A i \in 1 .. Len(s) + 2 :
             Append(Append(s, m), h)[i] = IF i <= Len(s) THEN s[i] ELSE IF i = Len(s) + 1 THEN m ELSE h
    BY <1>1
  <2>3. \A i \in 1 .. Len(s) + 2 : i <= Len(s) \/ i = Len(s) + 1 \/ i = Len(s) + 2
    BY <1>1
  <2>4. (Len(s) + 1) - Len(s) = 1 /\ (Len(s) + 2) - Len(s) = 2 /\ <<m, h>>[1] = m /\ <<m, h>>[2] = h
    BY <1>1
  <2>5. \A i \in 1 .. Len(s) + 2 : (s \o <<m, h>>)[i] = Append(Append(s, m), h)[i]
    BY <1>1, <2>1, <2>2, <2>3, <2>4
  <2> QED
    BY <2>1, <2>2, <2>5, SeqEqual
<1>4. s \o <<m, h, b>> = Append(Append(Append(s, m), h), b)
  <2> DEFINE t == Append(Append(Append(s, m), h), b)
             u == s \o <<m, h, b>>
  <2>1. /\ u \in Seq(S) /\ Len(u) = Len(s) + 3
        /\ \A i \in 1 .. Len(s) + 3 : u[i] = IF i <= Len(s) THEN s[i] ELSE <<m, h, b>>[i - Len(s)]
    BY <1>1
  <2>2. /\ t \in Seq(S) /\ Len(t) = Len(s) + 3
        /\ \A i \in 1 .. Len(s) + 3 :
             t[i] = IF i <= Len(s) THEN s[i] ELSE IF i = Len(s) + 1 THEN m ELSE IF i = Len(s) + 2 THEN h ELSE b
    BY <1>1
  <2>3. \A i \in 1 .. Len(s) + 3 : i <= Len(s) \/ i = Len(s) + 1 \/ i = Len(s) + 2 \/ i = Len(s) + 3
    BY <1>1
  <2>4. /\ (Len(s) + 1) - Len(s) = 1 /\ (Len(s) + 2) - Len(s) = 2 /\ (Len(s) + 3) - Len(s) = 3
        /\ <<m, h, b>>[1] = m /\ <<m, h, b>>[2] = h /\ <<m, h, b>>[3] = b
    BY <1>1
  <2> HIDE DEF t, u
  <2>5. \A i \in 1 .. Len(s) + 3 : u[i] = t[i]
    <3> SUFFICES ASSUME NEW i \in 1 .. Len(s) + 3 PROVE u[i] = t[i]
      OBVIOUS
    <3>1. CASE i <= Len(s)
      BY <2>1, <2>2, <3>1
    <3>2. CASE i = Len(s) + 1
      <4>1. ~(i <= Len(s)) /\ i - Len(s) = 1
        BY <1>1, <3>2
      <4> QED
        BY <2>1, <2>2, <2>4, <3>2, <4>1
    <3>3. CASE i = Len(s) + 2
      <4>1. ~(i <= Len(s)) /\ i # Len(s) + 1 /\ i - Len(s) = 2
        BY <1>1, <3>3
      <4> QED
        BY <2>1, <2>2, <2>4, <3>3, <4>1
    <3>4. CASE i = Len(s) + 3
      <4>1. ~(i <= Len(s)) /\ i # Len(s) + 1 /\ i # Len(s) + 2 /\ i - Len(s) = 3
        BY <1>1, <3>4
      <4> QED
        BY <2>1, <2>2, <2>4, <3>4, <4>1
    <3> QED
      BY <2>3, <3>1, <3>2, <3>3, <3>4
  <2>6. u = t
    BY <2>1, <2>2, <2>5, SeqEqual
  <2> QED
    BY <2>6 DEF t, u
<1> QED
  BY <1>2, <1>3, <1>4

(* A channel's frames with those of one more message. *)
WithMessage(box, c, kind, n, empty) == box \o Frames!Message(c, kind, n, empty)

(* The server sends a message on a channel. *)
LEMMA SendMessage ==
  ASSUME NEW list \in Box, NEW box \in Box, NEW c \in Channels, NEW kind \in Frames!Contents, NEW empty \in BOOLEAN,
         NEW g \in Nat, NEW last \in Nat, NEW place \in 0..2, g <= last,
         Frames!Sequential(list, box, c), Frames!Complete(Frames!Left(list, box, c), g, last, place)
  PROVE  LET longer == WithMessage(box, c, kind, last + 1, empty) IN
         /\ longer \in Box /\ Len(longer) \in Nat /\ Len(longer) >= Len(box) + 1
         /\ \A i \in 1..Len(box) : longer[i] = box[i]
         /\ longer[Len(box) + 1].kind = kind
         /\ \A i \in 1..Len(longer) : i \in 1..Len(box) \/ i = Len(box) + 1 \/ longer[i].kind \in {"header", "body"}
         /\ \A i \in 1..Len(longer) : i \in 1..Len(box) \/ longer[i].channel = c
         /\ Frames!Sequential(list, longer, c)
         /\ Frames!Complete(Frames!Left(list, longer, c), g, last + 1, place)
<1> DEFINE n == last + 1
           m == Frames!Frame(c, kind, n)
           h == Frames!Frame(c, "header", IF empty THEN -n ELSE n)
           b == Frames!Frame(c, "body", n)
           one == Append(box, m)
           two == Append(one, h)
           three == Append(two, b)
           longer == IF empty THEN two ELSE three
           L == Frames!Left(list, box, c)
<1>1. n \in Nat /\ n > last
  OBVIOUS
<1>2. /\ m \in Frames!AllFrames /\ h \in Frames!AllFrames /\ b \in Frames!AllFrames
      /\ m.kind = kind /\ h.kind = "header" /\ b.kind = "body"
      /\ m.channel = c /\ h.channel = c /\ b.channel = c
      /\ m.msg = n /\ h.msg = (IF empty THEN -n ELSE n) /\ b.msg = n
  BY <1>1 DEF Frames!Frame, Frames!AllFrames, Frames!Kinds
<1> HIDE DEF m, h, b
<1>3. WithMessage(box, c, kind, n, empty) = longer
  <2>1. Frames!Message(c, kind, n, empty) = <<m, h>> \o IF empty THEN <<>> ELSE <<b>>
    BY DEF Frames!Message, m, h, b
  <2>2. /\ box \o (<<m, h>> \o <<>>) = two
        /\ box \o (<<m, h>> \o <<b>>) = three
    BY <1>2, AppendedFrames DEF Box
  <2> QED
    BY <2>1, <2>2 DEF WithMessage
<1>4. /\ m.kind \in Frames!Kinds /\ h.kind \in Frames!Kinds /\ b.kind \in Frames!Kinds
      /\ Frames!MessageOf(m) = n /\ Frames!MessageOf(h) = n /\ Frames!MessageOf(b) = n
      /\ Frames!Place(m) = 0 /\ Frames!Place(h) = 1 /\ Frames!Place(b) = 2
  BY <1>1, <1>2 DEF Frames!Kinds, Frames!Contents, Frames!MessageOf, Frames!Place
<1>5. \A f \in L : Frames!MessageOf(f) \in Nat /\ Frames!MessageOf(f) < n
  BY <1>1 DEF Frames!Complete
<1>6. /\ \A f \in L : Frames!Precedes(f, m) /\ Frames!Precedes(f, h) /\ Frames!Precedes(f, b)
      /\ Frames!Precedes(m, h) /\ Frames!Precedes(m, b) /\ Frames!Precedes(h, b)
  BY <1>1, <1>4, <1>5 DEF Frames!Precedes
<1> HIDE DEF L
<1>7. one \in Box /\ Frames!Sequential(list, one, c) /\ Frames!Left(list, one, c) = L \cup {m}
  BY <1>2, <1>4, <1>6, SendOne DEF L
<1> HIDE DEF one
<1>8. two \in Box /\ Frames!Sequential(list, two, c) /\ Frames!Left(list, two, c) = (L \cup {m}) \cup {h}
  <2>1. \A f \in Frames!Left(list, one, c) : Frames!Precedes(f, h)
    BY <1>6, <1>7
  <2> QED
    BY <1>2, <1>4, <1>7, <2>1, SendOne
<1> HIDE DEF two
<1>9. three \in Box /\ Frames!Sequential(list, three, c) /\ Frames!Left(list, three, c) = ((L \cup {m}) \cup {h}) \cup {b}
  <2>1. \A f \in Frames!Left(list, two, c) : Frames!Precedes(f, b)
    BY <1>6, <1>8
  <2> QED
    BY <1>2, <1>4, <1>8, <2>1, SendOne
<1> HIDE DEF three
<1>10. Frames!Sequential(list, longer, c)
  BY <1>8, <1>9
<1>11. Frames!Complete(Frames!Left(list, longer, c), g, n, place)
  <2> DEFINE B == IF empty THEN {} ELSE {b}
  <2>1. Frames!Left(list, longer, c) = L \cup {m, h} \cup B
    BY <1>8, <1>9
  <2>2. L \in SUBSET Frames!AllFrames /\ B \in SUBSET Frames!AllFrames
    BY <1>2, LeftTyped DEF L
  <2>3. /\ m.kind \in Frames!Contents /\ m.msg = last + 1
        /\ h.kind = "header" /\ h.msg \in {last + 1, 0 - (last + 1)}
        /\ Frames!Filled(h) <=> B # {}
        /\ \A k \in B : k.kind = "body" /\ k.msg = last + 1
    BY <1>1, <1>2 DEF Frames!Filled
  <2>4. Frames!Complete(L, g, last, place)
    BY DEF L
  <2> HIDE DEF B
  <2>5. Frames!Complete(L \cup {m, h} \cup B, g, last + 1, place)
    BY <1>2, <2>2, <2>3, <2>4, MessageSent, Zenon
  <2> QED
    BY <2>1, <2>5
<1>12. /\ Len(box) \in Nat /\ Len(one) = Len(box) + 1 /\ Len(two) = Len(one) + 1 /\ Len(three) = Len(two) + 1
       /\ \A i \in 1..Len(box) : one[i] = box[i]
       /\ \A i \in 1..Len(one) : two[i] = one[i]
       /\ \A i \in 1..Len(two) : three[i] = two[i]
       /\ one[Len(one)] = m /\ two[Len(two)] = h /\ three[Len(three)] = b
  <2>1. Len(box) \in Nat /\ Len(one) = Len(box) + 1 /\ one[Len(one)] = m /\ \A i \in 1..Len(box) : one[i] = box[i]
    BY <1>2 DEF Box, one
  <2>2. Len(two) = Len(one) + 1 /\ two[Len(two)] = h /\ \A i \in 1..Len(one) : two[i] = one[i]
    BY <1>2, <1>7 DEF Box, two
  <2>3. Len(three) = Len(two) + 1 /\ three[Len(three)] = b /\ \A i \in 1..Len(two) : three[i] = two[i]
    BY <1>2, <1>8 DEF Box, three
  <2> QED
    BY <2>1, <2>2, <2>3
<1>13. /\ longer \in Box /\ Len(longer) \in Nat /\ Len(longer) >= Len(box) + 1
       /\ \A i \in 1..Len(box) : longer[i] = box[i]
       /\ longer[Len(box) + 1] = m
  BY <1>8, <1>9, <1>12
<1>14. ASSUME NEW i \in 1..Len(longer), i \notin 1..Len(box)
       PROVE  longer[i] \in {m, h, b} /\ (i = Len(box) + 1 \/ longer[i] \in {h, b})
  <2>1. i = Len(one) \/ i = Len(two) \/ (~empty /\ i = Len(three))
    BY <1>12, <1>14
  <2>2. longer[Len(one)] = m /\ longer[Len(two)] = h /\ (~empty => longer[Len(three)] = b)
    BY <1>12
  <2> HIDE DEF longer
  <2> QED
    BY <1>12, <2>1, <2>2
<1> HIDE DEF longer
<1>15. /\ \A i \in 1..Len(longer) : i \in 1..Len(box) \/ i = Len(box) + 1 \/ longer[i].kind \in {"header", "body"}
       /\ \A i \in 1..Len(longer) : i \in 1..Len(box) \/ longer[i].channel = c
  BY <1>2, <1>14
<1> QED
  BY <1>2, <1>3, <1>10, <1>11, <1>13, <1>15

(* What the server's message leaves of the invariant. *)
LEMMA SendsStep ==
  ASSUME Frames!IInv, NEW c \in Channels, NEW kind \in Frames!Contents, NEW empty \in BOOLEAN,
         Frames!Sends(c, kind, empty),
         UNCHANGED <<frames, amqpCall, delivered, announced, dropped>>,
         asked' \in [Channels -> {"none", "rpc", "get"}], Frames!RepliesAwaited'
  PROVE  Frames!IInv'
<1> DEFINE longer == WithMessage(outbox[c], c, kind, sent[c] + 1, empty)
<1>1. /\ frames' = frames /\ amqpCall' = amqpCall /\ delivered' = delivered
      /\ announced' = announced /\ dropped' = dropped
  OBVIOUS
<1>2. /\ sent \in [Channels -> Nat] /\ outbox \in [Channels -> Box] /\ frames \in Box
      /\ sent[c] \in Nat /\ MaxSent[c] \in Nat
  BY PartsAssumptions DEF Frames!IInv, Frames!FramesTyped, Frames!FramesAssumption, Box
<1>3. /\ sent[c] < MaxSent[c] /\ sent' = [sent EXCEPT ![c] = @ + 1]
      /\ outbox' = [outbox EXCEPT ![c] = longer]
  BY DEF Frames!Sends, WithMessage
<1>4. /\ sent'[c] = sent[c] + 1 /\ outbox'[c] = longer /\ sent' \in [Channels -> Nat]
      /\ \A d \in Channels : d # c => sent'[d] = sent[d] /\ outbox'[d] = outbox[d]
  BY <1>2, <1>3
<1>5. /\ Frames!NextPlace(c) \in 0..2
      /\ \A d \in Channels : Frames!NextPlace(d)' = Frames!NextPlace(d)
  BY <1>1 DEF Frames!NextPlace
<1>6. /\ Frames!Sequential(frames, outbox[c], c)
      /\ Frames!Complete(Frames!Left(frames, outbox[c], c), Len(delivered[c]), sent[c], Frames!NextPlace(c))
  BY DEF Frames!IInv, Frames!InSequence, Frames!NoneMissing
<1>7. /\ longer \in Box
      /\ \A i \in 1..Len(longer) : i \in 1..Len(outbox[c]) \/ longer[i].channel = c
      /\ \A i \in 1..Len(outbox[c]) : longer[i] = outbox[c][i]
      /\ Frames!Sequential(frames, longer, c)
      /\ Frames!Complete(Frames!Left(frames, longer, c), Len(delivered[c]), sent[c] + 1, Frames!NextPlace(c))
  <2>1. /\ frames \in Box /\ outbox[c] \in Box /\ Len(delivered[c]) \in Nat /\ Len(delivered[c]) <= sent[c]
        /\ Frames!NextPlace(c) \in 0..2 /\ sent[c] \in Nat
    BY <1>2, <1>5, GivenBound
  <2> DEFINE place == Frames!NextPlace(c)
  <2>2. /\ place \in 0..2
        /\ Frames!Complete(Frames!Left(frames, outbox[c], c), Len(delivered[c]), sent[c], place)
    BY <1>6, <2>1
  <2> HIDE DEF place
  <2>3. /\ longer \in Box
        /\ \A i \in 1..Len(outbox[c]) : longer[i] = outbox[c][i]
        /\ Frames!Sequential(frames, longer, c)
        /\ Frames!Complete(Frames!Left(frames, longer, c), Len(delivered[c]), sent[c] + 1, place)
    BY <1>6, <2>1, <2>2, SendMessage, SMTT(30)
  <2>4. \A i \in 1..Len(longer) : i \in 1..Len(outbox[c]) \/ longer[i].channel = c
    BY <1>6, <2>1, <2>2, SendMessage, SMTT(30)
  <2> QED
    BY <2>3, <2>4 DEF place
<1> HIDE DEF longer
<1>8. Frames!TypeOK'
  <2>1. \A d \in Channels : sent'[d] \in 0..MaxSent[d]
    BY <1>2, <1>3, <1>4 DEF Frames!IInv, Frames!TypeOK
  <2>2. \A d \in Channels : \A f \in Frames!Range(outbox[d])' : f.channel = d
    <3> SUFFICES ASSUME NEW d \in Channels
                 PROVE  \A f \in Frames!Range(outbox[d])' : f.channel = d
      OBVIOUS
    <3>1. CASE d = c
      <4>1. \A i \in 1..Len(longer) : longer[i].channel = c
        BY <1>7, GivenBound
      <4>2. Frames!Range(outbox[d])' = {longer[i] : i \in 1..Len(longer)}
        BY <1>4, <1>7, <3>1 DEF Frames!Range, Box
      <4> QED
        BY <3>1, <4>1, <4>2
    <3>2. CASE d # c
      BY <1>4, <3>2 DEF Frames!IInv, Frames!TypeOK, Frames!Range
    <3> QED
      BY <3>1, <3>2
  <2>3. \A d \in Channels : 1 .. sent[d] \subseteq 1 .. sent'[d]
    BY <1>2, <1>4
  <2>4. \A d \in Channels : Frames!Range(delivered[d])' \subseteq 1 .. sent'[d] /\ announced'[d] \subseteq 1 .. sent'[d]
    BY <1>1, <2>3 DEF Frames!IInv, Frames!TypeOK, Frames!Range
  <2> QED
    BY <1>1, <2>1, <2>2, <2>4 DEF Frames!IInv, Frames!TypeOK
<1>9. Frames!FramesTyped'
  <2>1. outbox' \in [Channels -> Seq(Frames!AllFrames)]
    BY <1>2, <1>3, <1>7 DEF Box
  <2> QED
    BY <1>1, <1>4, <2>1 DEF Frames!IInv, Frames!FramesTyped
<1>10. Frames!InSequence'
  BY <1>1, <1>4, <1>7 DEF Frames!IInv, Frames!InSequence
<1>11. Frames!NoneMissing'
  <2> SUFFICES ASSUME NEW d \in Channels
               PROVE  Frames!Complete(Frames!Left(frames', outbox'[d], d), Len(delivered'[d]), sent'[d], Frames!NextPlace(d)')
    BY DEF Frames!NoneMissing
  <2>1. CASE d = c
    BY <1>1, <1>4, <1>5, <1>7, <2>1
  <2>2. CASE d # c
    BY <1>1, <1>4, <1>5, <2>2 DEF Frames!IInv, Frames!NoneMissing
  <2> QED
    BY <2>1, <2>2
<1>12. Frames!ReadsNext' /\ Frames!InOrder' /\ Frames!FramesInPlace' /\ Frames!AnnouncedIsThere'
  BY <1>1 DEF Frames!IInv, Frames!ReadsNext, Frames!InOrder, Frames!FramesInPlace, Frames!AnnouncedIsThere
<1> QED
  BY <1>8, <1>9, <1>10, <1>11, <1>12 DEF Frames!IInv

(* The frames that a message adds to the socket. *)
LEMMA SentFrames ==
  ASSUME Frames!IInv, NEW c \in Channels, NEW kind \in Frames!Contents, NEW empty \in BOOLEAN,
         Frames!Sends(c, kind, empty)
  PROVE  /\ \A d \in Channels : d # c => outbox'[d] = outbox[d]
         /\ Len(outbox[c]) \in Nat
         /\ \A i \in 1..Len(outbox[c]) : outbox'[c][i] = outbox[c][i]
         /\ outbox'[c][Len(outbox[c]) + 1].kind = kind
         /\ \A i \in 1..Len(outbox'[c]) :
              i \in 1..Len(outbox[c]) \/ i = Len(outbox[c]) + 1 \/ ~Frames!IsAnswer(outbox'[c][i])
<1> DEFINE longer == WithMessage(outbox[c], c, kind, sent[c] + 1, empty)
<1>1. outbox \in [Channels -> Box] /\ frames \in Box /\ outbox[c] \in Box /\ Len(outbox[c]) \in Nat
  BY DEF Frames!IInv, Frames!FramesTyped, Box
<1>2. outbox' = [outbox EXCEPT ![c] = longer]
  BY DEF Frames!Sends, WithMessage
<1>3. outbox'[c] = longer /\ \A d \in Channels : d # c => outbox'[d] = outbox[d]
  BY <1>1, <1>2
<1>4. /\ Frames!Sequential(frames, outbox[c], c) /\ Frames!NextPlace(c) \in 0..2
      /\ Frames!Complete(Frames!Left(frames, outbox[c], c), Len(delivered[c]), sent[c], Frames!NextPlace(c))
  BY DEF Frames!IInv, Frames!InSequence, Frames!NoneMissing, Frames!NextPlace
<1>5. /\ \A i \in 1..Len(outbox[c]) : longer[i] = outbox[c][i]
      /\ longer[Len(outbox[c]) + 1].kind = kind
      /\ \A i \in 1..Len(longer) :
           i \in 1..Len(outbox[c]) \/ i = Len(outbox[c]) + 1 \/ longer[i].kind \in {"header", "body"}
  <2>1. /\ frames \in Box /\ outbox[c] \in Box /\ Len(delivered[c]) \in Nat /\ Len(delivered[c]) <= sent[c]
        /\ sent[c] \in Nat
    BY <1>1, GivenBound
  <2> DEFINE place == Frames!NextPlace(c)
             given == Len(delivered[c])
  <2>2. /\ place \in 0..2 /\ given \in Nat /\ given <= sent[c]
        /\ Frames!Complete(Frames!Left(frames, outbox[c], c), given, sent[c], place)
    BY <1>4, <2>1
  <2> DEFINE S == Frames!Left(frames, outbox[c], c)
             last == sent[c]
  <2> HIDE DEF place, given
  <2>3. /\ Frames!Sequential(frames, outbox[c], c) /\ Frames!Complete(S, given, last, place)
        /\ last \in Nat /\ given <= last
    BY <1>4, <2>1, <2>2
  <2> HIDE DEF last
  <2>4. LET more == WithMessage(outbox[c], c, kind, last + 1, empty) IN
        /\ \A i \in 1..Len(outbox[c]) : more[i] = outbox[c][i]
        /\ more[Len(outbox[c]) + 1].kind = kind
        /\ \A i \in 1..Len(more) : i \in 1..Len(outbox[c]) \/ i = Len(outbox[c]) + 1 \/ more[i].kind \in {"header", "body"}
    BY <2>1, <2>2, <2>3, SendMessage, SMTT(30)
  <2> QED
    BY <2>4 DEF last
<1> HIDE DEF longer
<1> QED
  BY <1>1, <1>3, <1>5 DEF Frames!IsAnswer, Frames!Replies

(* The server delivers a message. *)
LEMMA DeliversStep ==
  ASSUME Frames!IInv, NEW c \in Channels, NEW empty \in BOOLEAN, Frames!ServerDelivers(c, empty)
  PROVE  Frames!IInv'
<1>1. Frames!Sends(c, "deliver", empty) /\ UNCHANGED <<asked, frames, amqpCall, delivered, announced, dropped>>
  BY DEF Frames!ServerDelivers
<1>2. "deliver" \in Frames!Contents
  BY DEF Frames!Contents
<1>3. asked' \in [Channels -> {"none", "rpc", "get"}]
  BY <1>1 DEF Frames!IInv, Frames!TypeOK
<1>4. Frames!RepliesAwaited'
  <2> SUFFICES ASSUME NEW d \in Channels
               PROVE  /\ asked'[d] # "none" => Frames!Awaits(d, asked[d])'
                      /\ \A i \in 1..Len(outbox'[d]) : Frames!IsAnswer(outbox'[d][i]) =>
                           /\ Frames!Awaits(d, IF outbox[d][i].kind = "ok" THEN "rpc" ELSE "get")'
                           /\ asked'[d] = "none"
                           /\ \A j \in 1..Len(outbox'[d]) : Frames!IsAnswer(outbox'[d][j]) => i = j
    BY DEF Frames!RepliesAwaited, Frames!IsAnswer
  <2>1. asked'[d] # "none" => Frames!Awaits(d, asked[d])'
    BY <1>1 DEF Frames!IInv, Frames!RepliesAwaited, Frames!Awaits
  <2>2. \A i \in 1..Len(outbox'[d]) : Frames!IsAnswer(outbox'[d][i]) =>
          i \in 1..Len(outbox[d]) /\ outbox'[d][i] = outbox[d][i]
    <3>1. CASE d = c
      <4>1. /\ \A i \in 1..Len(outbox[c]) : outbox'[c][i] = outbox[c][i]
            /\ outbox'[c][Len(outbox[c]) + 1].kind = "deliver"
            /\ \A i \in 1..Len(outbox'[c]) :
                 i \in 1..Len(outbox[c]) \/ i = Len(outbox[c]) + 1 \/ ~Frames!IsAnswer(outbox'[c][i])
        BY <1>1, <1>2, SentFrames
      <4>2. ~Frames!IsAnswer(outbox'[c][Len(outbox[c]) + 1])
        BY <4>1 DEF Frames!IsAnswer, Frames!Replies
      <4> QED
        BY <3>1, <4>1, <4>2
    <3>2. CASE d # c
      BY <1>1, <1>2, <3>2, SentFrames
    <3> QED
      BY <3>1, <3>2
  <2>3. ASSUME NEW i \in 1..Len(outbox'[d]), Frames!IsAnswer(outbox'[d][i])
        PROVE  /\ Frames!Awaits(d, IF outbox[d][i].kind = "ok" THEN "rpc" ELSE "get")'
               /\ asked'[d] = "none"
               /\ \A j \in 1..Len(outbox'[d]) : Frames!IsAnswer(outbox'[d][j]) => i = j
    <3>1. /\ i \in 1..Len(outbox[d]) /\ outbox'[d][i] = outbox[d][i] /\ Frames!IsAnswer(outbox[d][i])
      BY <2>2, <2>3
    <3>2. /\ Frames!Awaits(d, IF outbox[d][i].kind = "ok" THEN "rpc" ELSE "get") /\ asked[d] = "none"
          /\ \A j \in 1..Len(outbox[d]) : Frames!IsAnswer(outbox[d][j]) => i = j
      BY <3>1 DEF Frames!IInv, Frames!RepliesAwaited
    <3>3. amqpCall' = amqpCall /\ asked' = asked
      BY <1>1
    <3>4. Frames!Awaits(d, IF outbox[d][i].kind = "ok" THEN "rpc" ELSE "get")'
      BY <3>1, <3>2, <3>3 DEF Frames!Awaits
    <3>5. \A j \in 1..Len(outbox'[d]) : Frames!IsAnswer(outbox'[d][j]) => i = j
      BY <2>2, <3>2
    <3> QED
      BY <3>2, <3>3, <3>4, <3>5
  <2> QED
    BY <2>1, <2>3
<1> QED
  BY <1>1, <1>2, <1>3, <1>4, SendsStep

(* After an answer: it is the only one, and its channel has asked for it.   *)
LEMMA AnswerSent ==
  ASSUME Frames!IInv, NEW c \in Channels, asked[c] # "none",
         amqpCall' = amqpCall, asked' = [asked EXCEPT ![c] = "none"],
         \A d \in Channels : d # c => outbox'[d] = outbox[d],
         Len(outbox[c]) \in Nat, \A i \in 1..Len(outbox[c]) : outbox'[c][i] = outbox[c][i],
         \A i \in 1..Len(outbox'[c]) :
           i \in 1..Len(outbox[c]) \/ i = Len(outbox[c]) + 1 \/ ~Frames!IsAnswer(outbox'[c][i]),
         outbox'[c][Len(outbox[c]) + 1].kind \in IF asked[c] = "get" THEN {"get_ok", "get_empty"} ELSE {"ok"}
  PROVE  asked' \in [Channels -> {"none", "rpc", "get"}] /\ Frames!RepliesAwaited'
<1> DEFINE last == Len(outbox[c]) + 1
<1>1. asked \in [Channels -> {"none", "rpc", "get"}]
  BY DEF Frames!IInv, Frames!TypeOK
<1>2. /\ asked' \in [Channels -> {"none", "rpc", "get"}] /\ asked'[c] = "none"
      /\ \A d \in Channels : d # c => asked'[d] = asked[d]
  BY <1>1
<1>3. /\ Frames!Awaits(c, asked[c]) /\ asked[c] \in {"rpc", "get"}
      /\ \A i \in 1..Len(outbox[c]) : ~Frames!IsAnswer(outbox[c][i])
  BY <1>1 DEF Frames!IInv, Frames!RepliesAwaited
<1>4. \A i \in 1..Len(outbox'[c]) : Frames!IsAnswer(outbox'[c][i]) => i = last
  BY <1>3
<1> HIDE DEF last
<1>5. \A d \in Channels :
        d # c => asked[d] = "none" /\ \A i \in 1..Len(outbox[d]) : ~Frames!IsAnswer(outbox[d][i])
  BY <1>3 DEF Frames!IInv, Frames!RepliesAwaited, Frames!Awaits
<1>6. \A d \in Channels : asked'[d] = "none"
  BY <1>2, <1>5
<1>7. ASSUME NEW d \in Channels, NEW i \in 1..Len(outbox'[d]), Frames!IsAnswer(outbox'[d][i])
      PROVE  /\ Frames!Awaits(d, IF outbox[d][i].kind = "ok" THEN "rpc" ELSE "get")'
             /\ \A j \in 1..Len(outbox'[d]) : Frames!IsAnswer(outbox'[d][j]) => i = j
  <2>1. d = c
    BY <1>5, <1>7
  <2>2. i = last /\ \A j \in 1..Len(outbox'[d]) : Frames!IsAnswer(outbox'[d][j]) => i = j
    BY <1>4, <1>7, <2>1
  <2>3. outbox'[c][i].kind = "ok" <=> asked[c] = "rpc"
    BY <1>3, <2>2 DEF last
  <2>4. Frames!Awaits(c, IF outbox[c][i].kind = "ok" THEN "rpc" ELSE "get")'
    BY <1>3, <2>3 DEF Frames!Awaits
  <2> QED
    BY <2>1, <2>2, <2>4
<1>8. Frames!RepliesAwaited'
  BY <1>6, <1>7 DEF Frames!RepliesAwaited, Frames!IsAnswer
<1> QED
  BY <1>2, <1>8

(* The server answers basic_get with a message. *)
LEMMA GetOkStep ==
  ASSUME Frames!IInv, NEW c \in Channels, NEW empty \in BOOLEAN, asked[c] = "get",
         Frames!Sends(c, "get_ok", empty), asked' = [asked EXCEPT ![c] = "none"],
         UNCHANGED <<frames, amqpCall, delivered, announced, dropped>>
  PROVE  Frames!IInv'
<1>1. "get_ok" \in Frames!Contents
  BY DEF Frames!Contents
<1>2. asked' \in [Channels -> {"none", "rpc", "get"}] /\ Frames!RepliesAwaited'
  BY <1>1, SentFrames, AnswerSent
<1> QED
  BY <1>1, <1>2, SendsStep

(* The server answers without a message. *)
LEMMA ReplyStep ==
  ASSUME Frames!IInv, NEW c \in Channels, asked[c] # "none",
         outbox' = [outbox EXCEPT ![c] = Append(@, Frames!Frame(c, IF asked[c] = "get" THEN "get_empty" ELSE "ok", 0))],
         asked' = [asked EXCEPT ![c] = "none"],
         UNCHANGED <<sent, frames, amqpCall, delivered, announced, dropped>>
  PROVE  Frames!IInv'
<1> DEFINE f == Frames!Frame(c, IF asked[c] = "get" THEN "get_empty" ELSE "ok", 0)
           longer == Append(outbox[c], f)
<1>1. /\ sent' = sent /\ frames' = frames /\ amqpCall' = amqpCall /\ delivered' = delivered
      /\ announced' = announced /\ dropped' = dropped
  OBVIOUS
<1>2. outbox \in [Channels -> Box] /\ frames \in Box /\ outbox[c] \in Box /\ Len(outbox[c]) \in Nat
  BY DEF Frames!IInv, Frames!FramesTyped, Box
<1>3. /\ f \in Frames!AllFrames /\ f.channel = c /\ f.kind \notin Frames!Kinds
      /\ f.kind \in IF asked[c] = "get" THEN {"get_ok", "get_empty"} ELSE {"ok"}
  BY DEF Frames!Frame, Frames!AllFrames, Frames!Kinds, Frames!Replies, Frames!Contents
<1>4. outbox' = [outbox EXCEPT ![c] = longer]
  OBVIOUS
<1> HIDE DEF f
<1>5. /\ longer \in Box /\ Len(longer) = Len(outbox[c]) + 1 /\ longer[Len(outbox[c]) + 1] = f
      /\ \A i \in 1..Len(outbox[c]) : longer[i] = outbox[c][i]
  BY <1>2, <1>3 DEF Box
<1>6. /\ Frames!Sequential(frames, longer, c)
      /\ Frames!Left(frames, longer, c) = Frames!Left(frames, outbox[c], c)
  <2>1. Frames!Sequential(frames, outbox[c], c)
    BY DEF Frames!IInv, Frames!InSequence
  <2> QED
    BY <1>2, <1>3, <2>1, SendReply
<1> HIDE DEF longer
<1>7. outbox' \in [Channels -> Box] /\ outbox'[c] = longer /\ \A d \in Channels : d # c => outbox'[d] = outbox[d]
  BY <1>2, <1>4, <1>5
<1>8. asked' \in [Channels -> {"none", "rpc", "get"}] /\ Frames!RepliesAwaited'
  <2>1. \A i \in 1..Len(outbox'[c]) : i \in 1..Len(outbox[c]) \/ i = Len(outbox[c]) + 1
    BY <1>2, <1>5, <1>7
  <2>2. /\ \A i \in 1..Len(outbox[c]) : outbox'[c][i] = outbox[c][i]
        /\ outbox'[c][Len(outbox[c]) + 1].kind \in IF asked[c] = "get" THEN {"get_ok", "get_empty"} ELSE {"ok"}
    BY <1>3, <1>5, <1>7
  <2> QED
    BY <1>1, <1>2, <1>7, <2>1, <2>2, AnswerSent
<1>9. Frames!TypeOK'
  <2>1. \A d \in Channels : \A k \in Frames!Range(outbox[d])' : k.channel = d
    <3> SUFFICES ASSUME NEW d \in Channels
                 PROVE  \A k \in Frames!Range(outbox[d])' : k.channel = d
      OBVIOUS
    <3>1. CASE d = c
      <4>1. \A i \in 1..Len(longer) : i \in 1..Len(outbox[c]) \/ i = Len(outbox[c]) + 1
        BY <1>2, <1>5
      <4>2. \A i \in 1..Len(longer) : longer[i].channel = c
        BY <1>3, <1>5, <4>1, GivenBound
      <4>3. Frames!Range(outbox[d])' = {longer[i] : i \in 1..Len(longer)}
        <5>1. outbox'[d] = longer /\ longer \in Box
          BY <1>5, <1>7, <3>1
        <5> QED
          BY <5>1 DEF Frames!Range, Box
      <4> QED
        BY <3>1, <4>2, <4>3
    <3>2. CASE d # c
      BY <1>7, <3>2 DEF Frames!IInv, Frames!TypeOK, Frames!Range
    <3> QED
      BY <3>1, <3>2
  <2> QED
    BY <1>1, <1>8, <2>1 DEF Frames!IInv, Frames!TypeOK
<1>10. Frames!FramesTyped'
  BY <1>1, <1>7 DEF Frames!IInv, Frames!FramesTyped, Box
<1>11. Frames!InSequence'
  BY <1>1, <1>6, <1>7 DEF Frames!IInv, Frames!InSequence
<1>12. Frames!NoneMissing'
  <2> SUFFICES ASSUME NEW d \in Channels
               PROVE  Frames!Complete(Frames!Left(frames', outbox'[d], d), Len(delivered'[d]), sent'[d], Frames!NextPlace(d)')
    BY DEF Frames!NoneMissing
  <2>1. Frames!NextPlace(d)' = Frames!NextPlace(d)
    BY <1>1 DEF Frames!NextPlace
  <2>2. Frames!Left(frames, outbox'[d], d) = Frames!Left(frames, outbox[d], d)
    BY <1>6, <1>7
  <2> QED
    BY <1>1, <2>1, <2>2 DEF Frames!IInv, Frames!NoneMissing
<1>13. Frames!ReadsNext' /\ Frames!InOrder' /\ Frames!FramesInPlace' /\ Frames!AnnouncedIsThere'
  BY <1>1 DEF Frames!IInv, Frames!ReadsNext, Frames!InOrder, Frames!FramesInPlace, Frames!AnnouncedIsThere
<1> QED
  BY <1>8, <1>9, <1>10, <1>11, <1>12, <1>13 DEF Frames!IInv

(* The server answers. *)
LEMMA RepliesStep ==
  ASSUME Frames!IInv, NEW c \in Channels, Frames!ServerReplies(c)
  PROVE  Frames!IInv'
<1>1. asked' = [asked EXCEPT ![c] = "none"] /\ UNCHANGED <<frames, amqpCall, delivered, announced, dropped>>
  BY DEF Frames!ServerReplies
<1>2. CASE asked[c] = "get" /\ \E empty \in BOOLEAN : Frames!Sends(c, "get_ok", empty)
  BY <1>1, <1>2, GetOkStep
<1>3. CASE /\ asked[c] # "none" /\ sent' = sent
           /\ outbox' = [outbox EXCEPT ![c] = Append(@, Frames!Frame(c, IF asked[c] = "get" THEN "get_empty" ELSE "ok", 0))]
  BY <1>1, <1>3, ReplyStep
<1> QED
  BY <1>2, <1>3 DEF Frames!ServerReplies

(* The elements of a sequence by their places. *)
LEMMA RangeOf ==
  ASSUME NEW S, NEW s \in Seq(S)
  PROVE  Frames!Range(s) = {s[i] : i \in 1..Len(s)}
BY DEF Frames!Range

(* What is in a sequence with one more element. *)
LEMMA RangeOfAppend ==
  ASSUME NEW S, NEW s \in Seq(S), NEW e \in S
  PROVE  Frames!Range(Append(s, e)) = Frames!Range(s) \cup {e}
<1> DEFINE t == Append(s, e)
           n == Len(s)
<1>1. /\ n \in Nat /\ t \in Seq(S) /\ Len(t) = n + 1 /\ t[n + 1] = e /\ \A i \in 1..n : t[i] = s[i]
  OBVIOUS
<1> HIDE DEF t
<1>2. Frames!Range(t) = {t[i] : i \in 1 .. n + 1} /\ Frames!Range(s) = {s[i] : i \in 1..n}
  BY <1>1 DEF Frames!Range
<1>3. /\ \A i \in 1 .. n + 1 : i \in 1..n \/ i = n + 1
      /\ \A i \in 1..n : i \in 1 .. n + 1
      /\ n + 1 \in 1 .. n + 1
  BY <1>1
<1>4. Frames!Range(t) = Frames!Range(s) \cup {e}
  BY <1>1, <1>2, <1>3
<1> QED
  BY <1>4 DEF t

(* A frame is read from the socket of a channel. *)
LEMMA SocketRead ==
  ASSUME Frames!IInv, NEW c \in Channels, outbox[c] # <<>>, outbox' = [outbox EXCEPT ![c] = Tail(@)]
  PROVE  /\ outbox' \in [Channels -> Box] /\ outbox'[c] = Tail(outbox[c])
         /\ \A d \in Channels : d # c => outbox'[d] = outbox[d]
         /\ Head(outbox[c]) \in Frames!AllFrames /\ Head(outbox[c]).channel = c
         /\ Head(outbox[c]) = outbox[c][1] /\ 1 \in 1..Len(outbox[c])
         /\ \A d \in Channels : \A i \in 1..Len(outbox'[d]) :
              \E j \in 1..Len(outbox[d]) : outbox'[d][i] = outbox[d][j] /\ (d = c => j = i + 1) /\ (d # c => j = i)
         /\ \A d \in Channels : \A f \in Frames!Range(outbox[d])' : f.channel = d
<1>1. outbox \in [Channels -> Box] /\ outbox[c] \in Box
  BY DEF Frames!IInv, Frames!FramesTyped, Box
<1>2. /\ Len(outbox[c]) \in Nat /\ Len(outbox[c]) >= 1 /\ Head(outbox[c]) = outbox[c][1]
      /\ Head(outbox[c]) \in Frames!AllFrames
      /\ Tail(outbox[c]) \in Box /\ Len(Tail(outbox[c])) = Len(outbox[c]) - 1
      /\ \A j \in 1 .. Len(outbox[c]) - 1 : Tail(outbox[c])[j] = outbox[c][j + 1]
  BY <1>1, HeadAndTail DEF Box
<1>3. /\ outbox' \in [Channels -> Box] /\ outbox'[c] = Tail(outbox[c])
      /\ \A d \in Channels : d # c => outbox'[d] = outbox[d]
  BY <1>1, <1>2
<1>4. 1 \in 1..Len(outbox[c])
  BY <1>2
<1>5. Head(outbox[c]).channel = c
  BY <1>2, <1>4, GivenBound
<1>6. ASSUME NEW d \in Channels, NEW i \in 1..Len(outbox'[d])
      PROVE  \E j \in 1..Len(outbox[d]) : outbox'[d][i] = outbox[d][j] /\ (d = c => j = i + 1) /\ (d # c => j = i)
  <2>1. CASE d = c
    <3>1. i \in 1 .. Len(outbox[c]) - 1 /\ i + 1 \in 1..Len(outbox[c])
      BY <1>2, <1>3, <2>1
    <3> QED
      BY <1>2, <1>3, <2>1, <3>1
  <2>2. CASE d # c
    BY <1>3, <2>2
  <2> QED
    BY <2>1, <2>2
<1>7. ASSUME NEW d \in Channels PROVE \A f \in Frames!Range(outbox[d])' : f.channel = d
  <2>1. Frames!Range(outbox[d])' = {outbox'[d][i] : i \in 1..Len(outbox'[d])}
    <3>1. outbox'[d] \in Seq(Frames!AllFrames)
      BY <1>3 DEF Box
    <3>2. Frames!Range(outbox'[d]) = {outbox'[d][i] : i \in 1..Len(outbox'[d])}
      BY <3>1, RangeOf, Zenon
    <3> QED
      BY <3>2
  <2>2. \A i \in 1..Len(outbox'[d]) : outbox'[d][i].channel = d
    BY <1>6, GivenBound
  <2> QED
    BY <2>1, <2>2
<1> QED
  BY <1>2, <1>3, <1>4, <1>5, <1>6, <1>7

(* The frame goes to the end of the list, and nothing gets lost. *)
LEMMA ReadToTheList ==
  ASSUME Frames!IInv, NEW c \in Channels, outbox[c] # <<>>, outbox' = [outbox EXCEPT ![c] = Tail(@)],
         Head(outbox[c]).kind \in Frames!Kinds, frames' = Append(frames, Head(outbox[c])),
         sent' = sent, delivered' = delivered, \A d \in Channels : Frames!NextPlace(d)' = Frames!NextPlace(d)
  PROVE  /\ frames' \in Box /\ Frames!InSequence' /\ Frames!NoneMissing'
         /\ Frames!Range(frames') = Frames!Range(frames) \cup {Head(outbox[c])}
<1> DEFINE f == Head(outbox[c])
<1>1. /\ f \in Frames!AllFrames /\ f.channel = c /\ outbox'[c] = Tail(outbox[c])
      /\ \A d \in Channels : d # c => outbox'[d] = outbox[d]
  BY SocketRead
<1>2. frames \in Box /\ \A d \in Channels : outbox[d] \in Box
  BY DEF Frames!IInv, Frames!FramesTyped, Box
<1>3. frames' \in Box /\ Frames!Range(frames') = Frames!Range(frames) \cup {f}
  BY <1>1, <1>2, RangeOfAppend DEF Box
<1>4. ASSUME NEW d \in Channels
      PROVE  /\ Frames!Sequential(frames', outbox'[d], d)
             /\ Frames!Left(frames', outbox'[d], d) = Frames!Left(frames, outbox[d], d)
  <2>1. Frames!Sequential(frames, outbox[d], d)
    BY DEF Frames!IInv, Frames!InSequence
  <2>2. CASE d = c
    BY <1>1, <1>2, <2>1, <2>2, ToTheList
  <2>3. CASE d # c
    BY <1>1, <1>2, <2>1, <2>3, ToTheListOfOthers
  <2> QED
    BY <2>2, <2>3
<1>5. Frames!InSequence'
  BY <1>4 DEF Frames!InSequence
<1>6. Frames!NoneMissing'
  BY <1>4 DEF Frames!IInv, Frames!NoneMissing
<1> QED
  BY <1>3, <1>5, <1>6

(* The replies that are on their way, after a frame was read. *)
LEMMA RepliesAfterRead ==
  ASSUME Frames!IInv, NEW c \in Channels, outbox[c] # <<>>, outbox' = [outbox EXCEPT ![c] = Tail(@)],
         asked' = asked, amqpCall' = amqpCall \/ amqpCall.op \notin {"rpc", "get"} \/ Frames!IsAnswer(Head(outbox[c]))
  PROVE  Frames!RepliesAwaited'
<1>1. \A d \in Channels : \A i \in 1..Len(outbox'[d]) :
        \E j \in 1..Len(outbox[d]) : outbox'[d][i] = outbox[d][j] /\ (d = c => j = i + 1) /\ (d # c => j = i)
  BY SocketRead
<1>2. Head(outbox[c]) = outbox[c][1] /\ 1 \in 1..Len(outbox[c])
  BY SocketRead
<1>3. CASE amqpCall' = amqpCall
  <2>1. ASSUME NEW d \in Channels, NEW i \in 1..Len(outbox'[d]), Frames!IsAnswer(outbox'[d][i])
        PROVE  /\ Frames!Awaits(d, IF outbox[d][i].kind = "ok" THEN "rpc" ELSE "get")' /\ asked'[d] = "none"
               /\ \A j \in 1..Len(outbox'[d]) : Frames!IsAnswer(outbox'[d][j]) => i = j
    <3>1. PICK k \in 1..Len(outbox[d]) : outbox'[d][i] = outbox[d][k] /\ (d = c => k = i + 1) /\ (d # c => k = i)
      BY <1>1
    <3>2. /\ Frames!Awaits(d, IF outbox[d][k].kind = "ok" THEN "rpc" ELSE "get") /\ asked[d] = "none"
          /\ \A j \in 1..Len(outbox[d]) : Frames!IsAnswer(outbox[d][j]) => k = j
      BY <2>1, <3>1 DEF Frames!IInv, Frames!RepliesAwaited
    <3>3. \A j \in 1..Len(outbox'[d]) : Frames!IsAnswer(outbox'[d][j]) => i = j
      <4> SUFFICES ASSUME NEW j \in 1..Len(outbox'[d]), Frames!IsAnswer(outbox'[d][j])
                   PROVE  i = j
        OBVIOUS
      <4>1. PICK l \in 1..Len(outbox[d]) : outbox'[d][j] = outbox[d][l] /\ (d = c => l = j + 1) /\ (d # c => l = j)
        BY <1>1
      <4>2. k = l
        BY <3>2, <4>1
      <4> QED
        BY <3>1, <4>1, <4>2
    <3>4. Frames!Awaits(d, IF outbox[d][i].kind = "ok" THEN "rpc" ELSE "get")'
      BY <1>3, <3>1, <3>2 DEF Frames!Awaits
    <3> QED
      BY <3>2, <3>3, <3>4
  <2>2. \A d \in Channels : asked'[d] # "none" => Frames!Awaits(d, asked[d])'
    BY <1>3 DEF Frames!IInv, Frames!RepliesAwaited, Frames!Awaits
  <2> QED
    BY <2>1, <2>2 DEF Frames!RepliesAwaited, Frames!IsAnswer
<1>4. CASE amqpCall.op \notin {"rpc", "get"} \/ Frames!IsAnswer(Head(outbox[c]))
  <2>1. ASSUME NEW d \in Channels
        PROVE  asked'[d] = "none" /\ \A i \in 1..Len(outbox'[d]) : ~Frames!IsAnswer(outbox'[d][i])
    <3>1. CASE amqpCall.op \notin {"rpc", "get"}
      BY <1>1, <3>1, NoReplies
    <3>2. CASE Frames!IsAnswer(outbox[c][1]) /\ d = c
      <4>1. asked[c] = "none" /\ \A j \in 1..Len(outbox[c]) : Frames!IsAnswer(outbox[c][j]) => j = 1
        BY <1>2, <3>2 DEF Frames!IInv, Frames!RepliesAwaited
      <4>2. \A i \in 1..Len(outbox'[d]) : i + 1 # 1
        OBVIOUS
      <4> QED
        BY <1>1, <3>2, <4>1, <4>2
    <3>3. CASE Frames!IsAnswer(outbox[c][1]) /\ d # c
      <4>1. amqpCall.channel = c
        BY <1>2, <3>3 DEF Frames!IInv, Frames!RepliesAwaited, Frames!Awaits
      <4>2. asked[d] = "none" /\ \A j \in 1..Len(outbox[d]) : ~Frames!IsAnswer(outbox[d][j])
        BY <3>3, <4>1 DEF Frames!IInv, Frames!RepliesAwaited, Frames!Awaits
      <4> QED
        BY <1>1, <4>2
    <3> QED
      BY <1>2, <1>4, <3>1, <3>2, <3>3
  <2> QED
    BY <2>1 DEF Frames!RepliesAwaited, Frames!IsAnswer
<1> QED
  BY <1>3, <1>4

(* A call that waits for its reply reads a frame. *)
LEMMA AwaitReplyStep ==
  ASSUME Frames!IInv, NEW c \in Channels, Frames!AwaitReply(c)
  PROVE  Frames!IInv'
<1> DEFINE f == Head(outbox[c])
<1>1. /\ amqpCall.op \in {"rpc", "get"} /\ outbox[c] # <<>> /\ outbox' = [outbox EXCEPT ![c] = Tail(@)]
      /\ sent' = sent /\ asked' = asked /\ delivered' = delivered /\ dropped' = dropped
  BY DEF Frames!AwaitReply
<1>2. /\ f \in Frames!AllFrames /\ f.channel = c /\ f = outbox[c][1] /\ 1 \in 1..Len(outbox[c])
      /\ outbox' \in [Channels -> Box]
      /\ \A d \in Channels : \A k \in Frames!Range(outbox[d])' : k.channel = d
  BY <1>1, SocketRead
<1>3. /\ frames \in Box /\ sent \in [Channels -> Nat] /\ announced \in [Channels -> SUBSET Nat]
      /\ amqpCall.channel \in Channels
  BY <1>1, CallIs DEF Frames!IInv, Frames!FramesTyped, Box
<1>4. Frames!IsAnswer(f) => Frames!IsReply(f)
  <2> SUFFICES ASSUME Frames!IsAnswer(f)
               PROVE  Frames!IsReply(f)
    OBVIOUS
  <2>1. Frames!Awaits(c, IF f.kind = "ok" THEN "rpc" ELSE "get")
    BY <1>2 DEF Frames!IInv, Frames!RepliesAwaited
  <2> QED
    BY <1>2, <2>1 DEF Frames!Awaits, Frames!IsAnswer, Frames!Replies, Frames!IsReply
<1>5. Frames!IsReply(f) => Frames!IsAnswer(f) /\ amqpCall.channel = c
  BY <1>2 DEF Frames!IsAnswer, Frames!Replies, Frames!IsReply
<1>6. f.kind \in Frames!Kinds \/ f.kind \in Frames!Replies
  BY <1>2 DEF Frames!AllFrames
<1>7. f.kind \in Frames!Kinds => f.msg \in 1 .. sent[c] \/ f.kind = "header"
  <2> SUFFICES ASSUME f.kind \in Frames!Kinds
               PROVE  f.msg \in 1 .. sent[c] \/ f.kind = "header"
    OBVIOUS
  <2>1. f \in Frames!Left(frames, outbox[c], c)
    BY <1>2, LeftIs
  <2>2. /\ f.kind # "header" => Frames!Filled(f)
        /\ Frames!MessageOf(f) \in Len(delivered[c]) + 1 .. sent[c]
    BY <2>1 DEF Frames!IInv, Frames!NoneMissing, Frames!Complete
  <2>3. Len(delivered[c]) \in Nat
    BY GivenBound
  <2>4. f.kind # "header" => Frames!MessageOf(f) = f.msg
    BY <1>2, <2>2, KindOfPlace
  <2> QED
    BY <1>3, <2>2, <2>3, <2>4
<1> DEFINE kept == f.kind \in Frames!Kinds
<1>8. /\ amqpCall' = IF Frames!IsReply(f) THEN Frames!Idle ELSE amqpCall
      /\ frames' = IF kept THEN Append(frames, f) ELSE frames
      /\ announced' = IF f.kind = "get_ok" THEN [announced EXCEPT ![c] = @ \cup {f.msg}] ELSE announced
  <2>1. CASE Frames!IsReply(f)
    <3>1. /\ amqpCall' = Frames!Idle /\ frames' = Frames!Requeued(frames, f)
          /\ announced' = IF f.kind = "get_ok" THEN [announced EXCEPT ![c] = @ \cup {f.msg}] ELSE announced
      BY <2>1 DEF Frames!AwaitReply
    <3>2. f.kind \in Frames!Kinds <=> f.kind = "get_ok"
      BY <1>5, <2>1 DEF Frames!IsAnswer, Frames!Replies, Frames!Kinds, Frames!Contents
    <3> QED
      BY <2>1, <3>1, <3>2 DEF Frames!Requeued
  <2>2. CASE ~Frames!IsReply(f)
    <3>1. frames' = Append(frames, f) /\ amqpCall' = amqpCall /\ announced' = announced
      BY <2>2 DEF Frames!AwaitReply
    <3>2. f.kind \in Frames!Kinds /\ f.kind # "get_ok"
      BY <1>4, <1>6, <2>2 DEF Frames!IsAnswer
    <3> QED
      BY <2>2, <3>1, <3>2
  <2> QED
    BY <2>1, <2>2
<1>9. /\ amqpCall' \in {Frames!Idle, amqpCall} /\ amqpCall'.op \in {"none", "rpc", "get"}
      /\ \A d \in Channels : Frames!NextPlace(d) = 0 /\ Frames!NextPlace(d)' = 0
  BY <1>1, <1>8 DEF Frames!Idle, Frames!NextPlace
<1> HIDE DEF f, kept
<1>10. /\ frames' \in Box /\ Frames!InSequence' /\ Frames!NoneMissing'
       /\ Frames!Range(frames) \subseteq Frames!Range(frames')
       /\ kept => f \in Frames!Range(frames')
  <2>1. CASE kept
    <3>1. /\ frames' \in Box /\ Frames!InSequence' /\ Frames!NoneMissing'
          /\ Frames!Range(frames') = Frames!Range(frames) \cup {f}
      BY <1>1, <1>8, <1>9, <2>1, ReadToTheList DEF f, kept
    <3> QED
      BY <3>1
  <2>2. CASE ~kept
    <3>1. frames' = frames /\ frames \in Box
      BY <1>3, <1>8, <2>2
    <3>2. \A d \in Channels : d # c => outbox'[d] = outbox[d]
      BY <1>1, SocketRead
    <3>3. outbox[c] \in Box /\ outbox'[c] = Tail(outbox[c])
      BY <1>1, GivenBound, SocketRead
    <3>4. \A d \in Channels :
            /\ Frames!Sequential(frames, outbox'[d], d)
            /\ Frames!Left(frames, outbox'[d], d) = Frames!Left(frames, outbox[d], d)
      <4> SUFFICES ASSUME NEW d \in Channels
                   PROVE  /\ Frames!Sequential(frames, outbox'[d], d)
                          /\ Frames!Left(frames, outbox'[d], d) = Frames!Left(frames, outbox[d], d)
        OBVIOUS
      <4>1. Frames!Sequential(frames, outbox[d], d)
        BY DEF Frames!IInv, Frames!InSequence
      <4>2. CASE d = c
        BY <1>1, <1>3, <2>2, <3>3, <4>1, <4>2, TakeReply DEF f, kept
      <4>3. CASE d # c
        BY <3>2, <4>1, <4>3
      <4> QED
        BY <4>2, <4>3
    <3>5. Frames!InSequence'
      BY <3>1, <3>4 DEF Frames!InSequence
    <3>6. Frames!NoneMissing'
      BY <1>1, <1>9, <3>1, <3>4 DEF Frames!IInv, Frames!NoneMissing
    <3> QED
      BY <2>2, <3>1, <3>5, <3>6
  <2> QED
    BY <2>1, <2>2
<1>11. announced' \in [Channels -> SUBSET Nat] /\ \A d \in Channels : announced'[d] \subseteq 1 .. sent[d]
  <2>1. \A d \in Channels : announced[d] \subseteq 1 .. sent[d]
    BY DEF Frames!IInv, Frames!TypeOK
  <2>2. f.kind = "get_ok" => f.msg \in 1 .. sent[c] /\ f.msg \in Nat
    BY <1>3, <1>7 DEF Frames!Kinds, Frames!Contents
  <2>3. CASE f.kind = "get_ok"
    <3>1. announced' = [announced EXCEPT ![c] = announced[c] \cup {f.msg}] /\ announced[c] \cup {f.msg} \in SUBSET Nat
      BY <1>3, <1>8, <2>2, <2>3
    <3>2. announced' \in [Channels -> SUBSET Nat]
      BY <1>3, <3>1
    <3>3. \A d \in Channels : announced'[d] = IF d = c THEN announced[c] \cup {f.msg} ELSE announced[d]
      BY <1>3, <3>1
    <3> QED
      BY <2>1, <2>2, <2>3, <3>2, <3>3
  <2>4. CASE f.kind # "get_ok"
    BY <1>3, <1>8, <2>1, <2>4
  <2> QED
    BY <2>3, <2>4
<1>12. Frames!TypeOK'
  <2>1. \A d \in Channels : Frames!Range(delivered[d])' = Frames!Range(delivered[d])
    BY <1>1
  <2> QED
    BY <1>1, <1>2, <1>9, <1>11, <2>1 DEF Frames!IInv, Frames!TypeOK
<1>13. Frames!FramesTyped'
  <2>1. \/ amqpCall' = Frames!Idle \/ amqpCall' = amqpCall
    BY <1>9
  <2> QED
    BY <1>1, <1>2, <1>10, <1>11, <2>1 DEF Frames!IInv, Frames!FramesTyped, Box
<1>14. Frames!ReadsNext'
  BY <1>9 DEF Frames!ReadsNext
<1>15. Frames!RepliesAwaited'
  <2>1. amqpCall' = amqpCall \/ Frames!IsAnswer(f)
    BY <1>5, <1>8
  <2> QED
    BY <1>1, <2>1, RepliesAfterRead DEF f
<1>16. Frames!InOrder' /\ Frames!FramesInPlace'
  BY <1>1 DEF Frames!IInv, Frames!InOrder, Frames!FramesInPlace
<1>17. Frames!AnnouncedIsThere'
  <2> SUFFICES ASSUME NEW d \in Channels, NEW m \in announced'[d]
               PROVE  m \in Frames!Range(delivered[d]) \/ Frames!Frame(d, "get_ok", m) \in Frames!Range(frames')
    BY <1>1 DEF Frames!AnnouncedIsThere
  <2>1. CASE m \in announced[d]
    <3>1. \/ m \in Frames!Range(delivered[d])
          \/ Frames!Frame(d, "get_ok", m) \in Frames!Range(frames)
      BY <1>1, <2>1 DEF Frames!IInv, Frames!AnnouncedIsThere
    <3> QED
      BY <1>10, <3>1
  <2>2. CASE m \notin announced[d]
    <3>1. d = c /\ m = f.msg /\ f.kind = "get_ok"
      BY <1>3, <1>8, <2>2
    <3>2. f = Frames!Frame(c, "get_ok", m)
      BY <1>2, <3>1 DEF Frames!AllFrames, Frames!Frame
    <3>3. kept
      BY <3>1 DEF kept, Frames!Kinds, Frames!Contents
    <3> QED
      BY <1>10, <3>1, <3>2, <3>3
  <2> QED
    BY <2>1, <2>2
<1> QED
  BY <1>10, <1>12, <1>13, <1>14, <1>15, <1>16, <1>17 DEF Frames!IInv

(* The frame f is the first one left of its channel c, and a step takes it. *)
FirstTaken(c, f) ==
  /\ f \in Frames!AllFrames /\ f.channel = c /\ c \in Channels
  /\ frames' \in Box /\ outbox' \in [Channels -> Box]
  /\ \A d \in Channels : \A k \in Frames!Range(outbox[d])' : k.channel = d
  /\ f \in Frames!Left(frames, outbox[c], c)
  /\ Frames!Left(frames', outbox'[c], c) = Frames!Left(frames, outbox[c], c) \ {f}
  /\ \A g \in Frames!Left(frames, outbox[c], c) \ {f} : Frames!Precedes(f, g)
  /\ \A d \in Channels : d # c => Frames!Left(frames', outbox'[d], d) = Frames!Left(frames, outbox[d], d)
  /\ Frames!InSequence'
  /\ \A e \in Frames!Range(frames) : e = f \/ e \in Frames!Range(frames')
  /\ Frames!RepliesAwaited'

(* So is a frame of the list that is the first one of its channel there.    *)
LEMMA TakenFromList ==
  ASSUME Frames!IInv, amqpCall.op \notin {"rpc", "get"}, NEW i \in 1..Len(frames),
         \A j \in 1 .. i - 1 : frames[j].channel # frames[i].channel,
         frames' = Frames!RemoveAt(frames, i), outbox' = outbox, asked' = asked
  PROVE  FirstTaken(frames[i].channel, frames[i])
<1> DEFINE f == frames[i]
           c == f.channel
           shorter == Frames!RemoveAt(frames, i)
<1>1. /\ frames \in Box /\ outbox \in [Channels -> Box] /\ f \in Frames!AllFrames /\ c \in Channels
  <2>1. frames \in Box /\ outbox \in [Channels -> Box]
    BY DEF Frames!IInv, Frames!FramesTyped, Box
  <2>2. f \in Frames!AllFrames
    BY <2>1 DEF Box
  <2>3. c \in Channels
    BY <2>2 DEF Frames!AllFrames
  <2> QED
    BY <2>1, <2>2, <2>3
<1>2. /\ Len(frames) \in Nat /\ shorter \in Box /\ Len(shorter) = Len(frames) - 1
      /\ \A j \in 1 .. Len(frames) - 1 : shorter[j] = IF j < i THEN frames[j] ELSE frames[j + 1]
  <2>1. frames \in Seq(Frames!AllFrames) /\ Len(frames) \in Nat
    BY <1>1 DEF Box
  <2>2. /\ shorter \in Seq(Frames!AllFrames) /\ Len(shorter) = Len(frames) - 1
        /\ \A j \in 1 .. Len(frames) - 1 : shorter[j] = IF j < i THEN frames[j] ELSE frames[j + 1]
    BY <2>1, Removed, Zenon
  <2> QED
    BY <2>1, <2>2 DEF Box
<1>3. \A d \in Channels : outbox[d] \in Box /\ Frames!Sequential(frames, outbox[d], d)
  BY <1>1 DEF Frames!IInv, Frames!InSequence
<1> HIDE DEF shorter
<1>4. /\ Frames!Sequential(shorter, outbox[c], c)
      /\ f \in Frames!Left(frames, outbox[c], c)
      /\ Frames!Left(shorter, outbox[c], c) = Frames!Left(frames, outbox[c], c) \ {f}
      /\ \A g \in Frames!Left(frames, outbox[c], c) \ {f} : Frames!Precedes(f, g)
  BY <1>1, <1>3, TakeListed DEF shorter
<1>5. \A d \in Channels : d # c =>
        /\ Frames!Sequential(shorter, outbox[d], d)
        /\ Frames!Left(shorter, outbox[d], d) = Frames!Left(frames, outbox[d], d)
  BY <1>1, <1>3, TakeListedOfOthers DEF shorter
<1>6. frames' = shorter
  BY DEF shorter
<1>7. Frames!InSequence'
  BY <1>4, <1>5, <1>6 DEF Frames!InSequence
<1>8. \A e \in Frames!Range(frames) : e = f \/ e \in Frames!Range(shorter)
  <2>1. /\ Frames!Range(frames) = {frames[j] : j \in 1..Len(frames)}
        /\ Frames!Range(shorter) = {shorter[j] : j \in 1..Len(shorter)}
    BY <1>1, <1>2, RangeOf DEF Box
  <2>2. ASSUME NEW j \in 1..Len(frames), j # i PROVE \E k \in 1..Len(shorter) : shorter[k] = frames[j]
    <3>1. CASE j < i
      <4>1. j \in 1..Len(shorter) /\ shorter[j] = frames[j]
        BY <1>2, <3>1
      <4> QED
        BY <4>1
    <3>2. CASE j > i
      <4>1. j - 1 \in 1 .. Len(frames) - 1 /\ ~(j - 1 < i) /\ (j - 1) + 1 = j
        BY <1>2, <3>2
      <4>2. j - 1 \in 1..Len(shorter) /\ shorter[j - 1] = frames[j]
        BY <1>2, <4>1
      <4> QED
        BY <4>2
    <3> QED
      BY <2>2, <3>1, <3>2
  <2> QED
    BY <2>1, <2>2
<1>9. Frames!RepliesAwaited'
  BY NoReplies DEF Frames!RepliesAwaited, Frames!IsAnswer
<1>10. \A d \in Channels : \A k \in Frames!Range(outbox[d])' : k.channel = d
  BY DEF Frames!IInv, Frames!TypeOK, Frames!Range
<1> QED
  BY <1>1, <1>2, <1>4, <1>5, <1>6, <1>7, <1>8, <1>9, <1>10 DEF FirstTaken

(* And so is the head of the socket of a channel without frames in the list. *)
LEMMA TakenFromSocket ==
  ASSUME Frames!IInv, amqpCall.op \notin {"rpc", "get"}, NEW c \in Channels, outbox[c] # <<>>,
         \A j \in 1..Len(frames) : frames[j].channel # c,
         outbox' = [outbox EXCEPT ![c] = Tail(@)], frames' = frames, asked' = asked
  PROVE  FirstTaken(c, Head(outbox[c]))
<1> DEFINE f == Head(outbox[c])
<1>1. /\ frames \in Box /\ outbox[c] \in Box
      /\ outbox' \in [Channels -> Box] /\ outbox'[c] = Tail(outbox[c])
      /\ \A d \in Channels : d # c => outbox'[d] = outbox[d]
      /\ f \in Frames!AllFrames /\ f.channel = c /\ f = outbox[c][1] /\ 1 \in 1..Len(outbox[c])
      /\ \A d \in Channels : \A k \in Frames!Range(outbox[d])' : k.channel = d
  BY SocketRead, GivenBound
<1>2. f.kind \in Frames!Kinds
  BY <1>1, NoReplies
<1>3. \A d \in Channels : Frames!Sequential(frames, outbox[d], d)
  BY DEF Frames!IInv, Frames!InSequence
<1>4. /\ Frames!Sequential(frames, Tail(outbox[c]), c)
      /\ f \in Frames!Left(frames, outbox[c], c)
      /\ Frames!Left(frames, Tail(outbox[c]), c) = Frames!Left(frames, outbox[c], c) \ {f}
      /\ \A g \in Frames!Left(frames, outbox[c], c) \ {f} : Frames!Precedes(f, g)
  BY <1>1, <1>2, <1>3, TakeFromSocket
<1>5. Frames!InSequence'
  BY <1>1, <1>3, <1>4 DEF Frames!InSequence
<1>6. Frames!RepliesAwaited'
  BY RepliesAfterRead
<1> QED
  BY <1>1, <1>4, <1>5, <1>6 DEF FirstTaken

(* What a taken frame leaves complete on the other channels. *)
LEMMA OthersComplete ==
  ASSUME Frames!IInv, NEW c, NEW f, FirstTaken(c, f), NEW d \in Channels, d # c,
         sent' = sent, delivered'[d] = delivered[d], Frames!NextPlace(d)' = Frames!NextPlace(d)
  PROVE  Frames!Complete(Frames!Left(frames', outbox'[d], d), Len(delivered'[d]), sent'[d], Frames!NextPlace(d)')
BY DEF Frames!IInv, Frames!NoneMissing, FirstTaken

(* An event begins with the first frame left of a channel. *)
LEMMA BeginsStep ==
  ASSUME Frames!IInv, amqpCall = Frames!Drain, NEW c, NEW f, FirstTaken(c, f), Frames!Takes(f),
         UNCHANGED <<sent, asked, delivered, announced>>
  PROVE  Frames!IInv'
<1> DEFINE S == Frames!Left(frames, outbox[c], c)
           g == Len(delivered[c])
<1>1. /\ f \in Frames!AllFrames /\ f.channel = c /\ c \in Channels /\ f \in S
      /\ frames' \in Box /\ outbox' \in [Channels -> Box]
      /\ Frames!Left(frames', outbox'[c], c) = S \ {f}
      /\ \A h \in S \ {f} : Frames!Precedes(f, h)
  BY DEF FirstTaken
<1>2. sent' = sent /\ asked' = asked /\ delivered' = delivered /\ announced' = announced
  OBVIOUS
<1>3. amqpCall.op = "drain"
  BY DEF Frames!Drain
<1>4. \A d \in Channels : Frames!NextPlace(d) = 0
  BY <1>3 DEF Frames!NextPlace
<1>5. S \in SUBSET Frames!AllFrames /\ g \in Nat /\ sent[c] \in Nat
  BY <1>1, GivenBound, LeftTyped
<1>6. Frames!Complete(S, g, sent[c], 0)
  BY <1>1, <1>4 DEF Frames!IInv, Frames!NoneMissing
<1> HIDE DEF S
<1>7. f.kind \in Frames!Contents /\ f.msg = g + 1 /\ Frames!Complete(S \ {f}, g, sent[c], 1)
  BY <1>1, <1>5, <1>6, MethodTaken
<1>8. amqpCall' = Frames!Reading("header", f) /\ dropped' = dropped
  <2>1. dropped \in BOOLEAN /\ ~dropped
    BY DEF Frames!IInv, Frames!TypeOK, Frames!FramesInPlace
  <2>2. dropped' = (dropped \/ FALSE) /\ amqpCall' = Frames!Reading("header", f)
    BY <1>7 DEF Frames!Takes
  <2> QED
    BY <2>1, <2>2
<1>9. amqpCall'.op = "header" /\ amqpCall'.channel = c /\ amqpCall'.method = f
  BY <1>1, <1>8 DEF Frames!Reading
<1>10. Frames!NextPlace(c)' = 1 /\ \A d \in Channels : d # c => Frames!NextPlace(d)' = 0
  BY <1>9 DEF Frames!NextPlace
<1>11. Frames!NoneMissing'
  <2> SUFFICES ASSUME NEW d \in Channels
               PROVE  Frames!Complete(Frames!Left(frames', outbox'[d], d), Len(delivered'[d]), sent'[d], Frames!NextPlace(d)')
    BY DEF Frames!NoneMissing
  <2>1. CASE d = c
    BY <1>1, <1>2, <1>7, <1>10, <2>1
  <2>2. CASE d # c
    BY <1>2, <1>4, <1>10, <2>2, OthersComplete
  <2> QED
    BY <2>1, <2>2
<1>12. Frames!TypeOK'
  <2>1. \A d \in Channels : \A k \in Frames!Range(outbox[d])' : k.channel = d
    BY DEF FirstTaken
  <2>2. \A d \in Channels : Frames!Range(delivered[d])' = Frames!Range(delivered[d])
    BY <1>2
  <2> QED
    BY <1>2, <1>8, <1>9, <2>1, <2>2 DEF Frames!IInv, Frames!TypeOK
<1>13. Frames!FramesTyped'
  BY <1>1, <1>2, <1>8 DEF Frames!IInv, Frames!FramesTyped, Box
<1>14. Frames!ReadsNext'
  BY <1>2, <1>1, <1>7, <1>9 DEF Frames!ReadsNext
<1>15. Frames!InSequence' /\ Frames!RepliesAwaited'
  BY DEF FirstTaken
<1>16. Frames!InOrder' /\ Frames!FramesInPlace'
  BY <1>2, <1>8 DEF Frames!IInv, Frames!InOrder, Frames!FramesInPlace
<1>17. Frames!AnnouncedIsThere'
  <2> SUFFICES ASSUME NEW d \in Channels, NEW m \in announced[d]
               PROVE  \/ m \in Frames!Range(delivered[d])
                      \/ f.channel = d /\ f.msg = m
                      \/ Frames!Frame(d, "get_ok", m) \in Frames!Range(frames')
    BY <1>2, <1>9 DEF Frames!AnnouncedIsThere
  <2>1. \/ m \in Frames!Range(delivered[d])
        \/ Frames!Frame(d, "get_ok", m) \in Frames!Range(frames)
    BY <1>3 DEF Frames!IInv, Frames!AnnouncedIsThere
  <2>2. Frames!Frame(d, "get_ok", m).channel = d /\ Frames!Frame(d, "get_ok", m).msg = m
    BY DEF Frames!Frame
  <2>3. \A e \in Frames!Range(frames) : e = f \/ e \in Frames!Range(frames')
    BY DEF FirstTaken
  <2> QED
    BY <2>1, <2>2, <2>3
<1> QED
  BY <1>11, <1>12, <1>13, <1>14, <1>15, <1>16, <1>17 DEF Frames!IInv

(* The message is read on with the first frame left of its channel, which   *)
(* is the one that is expected.                                            *)
LEMMA ExpectedFrame ==
  ASSUME Frames!IInv, amqpCall.op \in {"header", "body"}, NEW f, FirstTaken(amqpCall.channel, f)
  PROVE  LET c == amqpCall.channel
             S == Frames!Left(frames, outbox[c], c)
             g == Len(delivered[c])
         IN /\ amqpCall.method.channel = c /\ amqpCall.method.msg = g + 1
            /\ f.kind = amqpCall.op /\ f.msg \in {g + 1, 0 - (g + 1)} /\ g < sent[c]
            /\ f.kind = "header" /\ f.msg > 0 => Frames!Complete(S \ {f}, g, sent[c], 2)
            /\ f.kind = "body" \/ f.msg < 0 => Frames!Complete(S \ {f}, g + 1, sent[c], 0)
<1> DEFINE c == amqpCall.channel
           S == Frames!Left(frames, outbox[c], c)
           g == Len(delivered[c])
           place == IF amqpCall.op = "header" THEN 1 ELSE 2
<1>1. /\ f \in Frames!AllFrames /\ c \in Channels /\ f \in S
      /\ \A h \in S \ {f} : Frames!Precedes(f, h)
  BY DEF FirstTaken
<1>2. amqpCall.method.channel = c /\ amqpCall.method.msg = g + 1
  BY DEF Frames!IInv, Frames!ReadsNext
<1>3. S \in SUBSET Frames!AllFrames /\ g \in Nat /\ sent[c] \in Nat
  BY <1>1, GivenBound, LeftTyped
<1>4. Frames!Complete(S, g, sent[c], place)
  BY <1>1 DEF Frames!IInv, Frames!NoneMissing, Frames!NextPlace
<1>5. f.kind \in Frames!Kinds /\ (f.kind # "header" => Frames!Filled(f))
  BY <1>1, <1>4 DEF Frames!Complete
<1>6. place \in 1..2 /\ place \in 0..2 /\ (place = 1 <=> amqpCall.op = "header") /\ (place = 2 <=> amqpCall.op = "body")
  OBVIOUS
<1> HIDE DEF S, c, g, place
<1>7. g < sent[c] /\ Frames!MessageOf(f) = g + 1 /\ Frames!Place(f) = place
  <2> DEFINE last == sent[c]
  <2>1. /\ S \in SUBSET Frames!AllFrames /\ g \in Nat /\ last \in Nat /\ place \in 0..2
        /\ Frames!Complete(S, g, last, place) /\ f \in S /\ \A h \in S \ {f} : Frames!Precedes(f, h)
    BY <1>1, <1>3, <1>4, <1>6
  <2> HIDE DEF last
  <2>2. g < last /\ Frames!MessageOf(f) = g + 1 /\ Frames!Place(f) = place
    BY <2>1, FirstIsNext
  <2> QED
    BY <2>2 DEF last
<1>8. /\ Frames!Place(f) = 1 <=> f.kind = "header"
      /\ Frames!Place(f) = 2 <=> f.kind = "body"
  BY <1>1, <1>5, KindOfPlace
<1>9. f.kind = amqpCall.op
  BY <1>6, <1>7, <1>8
<1>10. f.msg \in Int /\ f.msg \in {g + 1, 0 - (g + 1)}
  BY <1>1, <1>3, <1>7 DEF Frames!MessageOf, Frames!AllFrames
<1>11. /\ Frames!Filled(f) <=> f.msg > 0
       /\ f.msg > 0 <=> ~(f.msg < 0)
  BY <1>3, <1>10 DEF Frames!Filled
<1>12. ASSUME f.kind = "header", Frames!Filled(f) PROVE Frames!Complete(S \ {f}, g, sent[c], 2)
  <2>1. place = 1
    BY <1>7, <1>8, <1>12
  <2>2. Frames!Complete(S, g, sent[c], 1)
    BY <1>4, <2>1
  <2> QED
    BY <1>1, <1>3, <1>12, <2>2, HeaderTaken
<1>13. ASSUME f.kind = "body" \/ ~Frames!Filled(f) PROVE Frames!Complete(S \ {f}, g + 1, sent[c], 0)
  <2>1. place = 1 => ~Frames!Filled(f)
    BY <1>7, <1>8, <1>13
  <2> QED
    BY <1>1, <1>3, <1>4, <1>6, <2>1, LastTaken
<1> QED
  BY <1>2, <1>7, <1>9, <1>10, <1>11, <1>12, <1>13 DEF S, c, g

(* The message is read on, or read to its end and given. *)
LEMMA ContinuesStep ==
  ASSUME Frames!IInv, amqpCall.op \in {"header", "body"}, NEW f, FirstTaken(amqpCall.channel, f),
         Frames!Continues(f), UNCHANGED <<sent, asked, announced>>
  PROVE  Frames!IInv'
<1> DEFINE c == amqpCall.channel
           m == amqpCall.method
           S == Frames!Left(frames, outbox[c], c)
           g == Len(delivered[c])
           whole == f.kind = "body" \/ f.msg < 0
<1>1. /\ f \in Frames!AllFrames /\ f.channel = c /\ c \in Channels
      /\ frames' \in Box /\ outbox' \in [Channels -> Box]
      /\ Frames!Left(frames', outbox'[c], c) = S \ {f}
      /\ \A d \in Channels : \A k \in Frames!Range(outbox[d])' : k.channel = d
  BY DEF FirstTaken
<1>2. sent' = sent /\ asked' = asked /\ announced' = announced
  OBVIOUS
<1>3. /\ delivered \in [Channels -> Seq(Nat)] /\ delivered[c] \in Seq(Nat) /\ g \in Nat /\ sent[c] \in Nat
  BY <1>1, GivenBound DEF Frames!IInv, Frames!FramesTyped
<1>4. /\ m.channel = c /\ m.msg = g + 1 /\ f.kind = amqpCall.op /\ f.msg \in {g + 1, 0 - (g + 1)} /\ g < sent[c]
      /\ f.kind = "header" /\ f.msg > 0 => Frames!Complete(S \ {f}, g, sent[c], 2)
      /\ f.kind = "body" \/ f.msg < 0 => Frames!Complete(S \ {f}, g + 1, sent[c], 0)
  BY ExpectedFrame
<1>5. m \in Frames!AllFrames
  BY CallIs DEF Frames!IInv
<1>6. dropped \in BOOLEAN /\ ~dropped
  BY DEF Frames!IInv, Frames!TypeOK, Frames!FramesInPlace
<1>7. dropped' = dropped
  <2>1. dropped' = (dropped \/ f.kind # amqpCall.op \/ f.msg \notin {m.msg, -m.msg} \/ f.channel # m.channel)
    BY DEF Frames!Continues
  <2>2. f.msg \in {m.msg, -m.msg}
    BY <1>3, <1>4
  <2> QED
    BY <1>1, <1>4, <1>6, <2>1, <2>2
<1>8. /\ whole => amqpCall' = Frames!Idle /\ delivered' = [delivered EXCEPT ![c] = Append(@, g + 1)]
      /\ ~whole => amqpCall' = Frames!Reading("body", m) /\ delivered' = delivered
  BY <1>4 DEF Frames!Continues, Frames!Event
<1>9. \A d \in Channels : d # c => Frames!NextPlace(d) = 0
  BY DEF Frames!NextPlace
<1>10. Frames!InSequence' /\ Frames!RepliesAwaited'
  BY DEF FirstTaken
<1>11. \A e \in Frames!Range(frames) : e.kind # "get_ok" \/ e \in Frames!Range(frames')
  <2>1. f.kind # "get_ok"
    BY <1>4
  <2>2. \A e \in Frames!Range(frames) : e = f \/ e \in Frames!Range(frames')
    BY DEF FirstTaken
  <2> QED
    BY <2>1, <2>2
<1>12. \A d \in Channels : \A n \in announced[d] :
         \/ n \in Frames!Range(delivered[d])
         \/ c = d /\ m.msg = n
         \/ Frames!Frame(d, "get_ok", n) \in Frames!Range(frames')
  <2>1. \A d \in Channels : \A n \in announced[d] :
          \/ n \in Frames!Range(delivered[d])
          \/ c = d /\ m.msg = n
          \/ Frames!Frame(d, "get_ok", n) \in Frames!Range(frames)
    BY <1>4 DEF Frames!IInv, Frames!AnnouncedIsThere
  <2>2. \A d, n : Frames!Frame(d, "get_ok", n).kind = "get_ok"
    BY DEF Frames!Frame
  <2> QED
    BY <1>11, <2>1, <2>2
<1>13. CASE whole
  <2> DEFINE longer == Append(delivered[c], g + 1)
  <2>1. /\ longer \in Seq(Nat) /\ Len(longer) = g + 1 /\ longer[g + 1] = g + 1
        /\ \A i \in 1..g : longer[i] = delivered[c][i]
        /\ Frames!Range(longer) = Frames!Range(delivered[c]) \cup {g + 1}
    BY <1>3, RangeOfAppend
  <2>2. amqpCall' = Frames!Idle /\ delivered' = [delivered EXCEPT ![c] = longer]
    BY <1>8, <1>13
  <2> HIDE DEF longer
  <2>3. /\ delivered' \in [Channels -> Seq(Nat)] /\ delivered'[c] = longer
        /\ \A d \in Channels : d # c => delivered'[d] = delivered[d]
    BY <1>1, <1>3, <2>1, <2>2
  <2>4. amqpCall'.op = "none" /\ \A d \in Channels : Frames!NextPlace(d)' = 0
    BY <2>2 DEF Frames!Idle, Frames!NextPlace
  <2>5. Frames!NoneMissing'
    <3> SUFFICES ASSUME NEW d \in Channels
                 PROVE  Frames!Complete(Frames!Left(frames', outbox'[d], d), Len(delivered'[d]), sent'[d], Frames!NextPlace(d)')
      BY DEF Frames!NoneMissing
    <3>1. CASE d = c
      BY <1>1, <1>2, <1>4, <1>13, <2>1, <2>3, <2>4, <3>1
    <3>2. CASE d # c
      BY <1>2, <1>9, <2>3, <2>4, <3>2, OthersComplete
    <3> QED
      BY <3>1, <3>2
  <2>6. \A d \in Channels : Frames!Range(delivered[d])' \subseteq 1 .. sent[d]
    <3> SUFFICES ASSUME NEW d \in Channels
                 PROVE  Frames!Range(delivered'[d]) \subseteq 1 .. sent[d]
      BY DEF Frames!Range
    <3>1. Frames!Range(delivered[d]) \subseteq 1 .. sent[d]
      BY DEF Frames!IInv, Frames!TypeOK
    <3>2. CASE d = c
      <4>1. g + 1 \in 1 .. sent[c]
        BY <1>3, <1>4
      <4> QED
        BY <2>1, <2>3, <3>1, <3>2, <4>1
    <3>3. CASE d # c
      BY <2>3, <3>1, <3>3
    <3> QED
      BY <3>2, <3>3
  <2>7. Frames!TypeOK'
    BY <1>1, <1>2, <1>7, <2>4, <2>6 DEF Frames!IInv, Frames!TypeOK
  <2>8. Frames!FramesTyped'
    BY <1>1, <1>2, <2>2, <2>3 DEF Frames!IInv, Frames!FramesTyped, Box
  <2>9. Frames!ReadsNext'
    BY <2>4 DEF Frames!ReadsNext
  <2>10. Frames!InOrder'
    <3> SUFFICES ASSUME NEW d \in Channels
                 PROVE  delivered'[d] = [i \in DOMAIN delivered'[d] |-> i]
      BY DEF Frames!InOrder
    <3>1. \A e \in Channels : delivered[e] = [i \in DOMAIN delivered[e] |-> i]
      BY DEF Frames!IInv, Frames!InOrder
    <3>2. CASE d = c
      <4>1. \A i \in 1..g : delivered[c][i] = i
        <5>1. DOMAIN delivered[c] = 1..g
          BY <1>3
        <5> QED
          BY <1>1, <3>1, <5>1
      <4>2. DOMAIN longer = 1 .. g + 1 /\ longer = [i \in 1 .. g + 1 |-> longer[i]]
        BY <1>3, <2>1
      <4>3. \A i \in 1 .. g + 1 : longer[i] = i
        <5>1. \A n \in Nat : \A i \in 1 .. n + 1 : i \in 1..n \/ i = n + 1
          OBVIOUS
        <5> QED
          BY <1>3, <2>1, <4>1, <5>1
      <4> QED
        BY <2>3, <3>2, <4>2, <4>3
    <3>3. CASE d # c
      BY <2>3, <3>1, <3>3
    <3> QED
      BY <3>2, <3>3
  <2>11. Frames!AnnouncedIsThere'
    <3>1. \A d \in Channels : \A n \in announced[d] :
            n \in Frames!Range(delivered'[d]) \/ Frames!Frame(d, "get_ok", n) \in Frames!Range(frames')
      BY <1>4, <1>12, <2>1, <2>3
    <3>2. \A d \in Channels : Frames!Range(delivered[d])' = Frames!Range(delivered'[d])
      BY DEF Frames!Range
    <3>3. Frames!Range(frames)' = Frames!Range(frames')
      BY DEF Frames!Range
    <3> QED
      BY <1>2, <3>1, <3>2, <3>3 DEF Frames!AnnouncedIsThere, Frames!Frame
  <2> QED
    BY <1>6, <1>7, <1>10, <2>5, <2>7, <2>8, <2>9, <2>10, <2>11 DEF Frames!IInv, Frames!FramesInPlace
<1>14. CASE ~whole
  <2>1. amqpCall' = Frames!Reading("body", m) /\ delivered' = delivered
    BY <1>8, <1>14
  <2>2. amqpCall'.op = "body" /\ amqpCall'.channel = c /\ amqpCall'.method = m
    BY <1>4, <2>1 DEF Frames!Reading
  <2>3. \A d \in Channels : Frames!NextPlace(d)' = IF d = c THEN 2 ELSE 0
    BY <2>2 DEF Frames!NextPlace
  <2>4. f.kind = "header" /\ f.msg > 0
    BY <1>3, <1>4, <1>14
  <2>5. Frames!NoneMissing'
    <3> SUFFICES ASSUME NEW d \in Channels
                 PROVE  Frames!Complete(Frames!Left(frames', outbox'[d], d), Len(delivered'[d]), sent'[d], Frames!NextPlace(d)')
      BY DEF Frames!NoneMissing
    <3>1. CASE d = c
      <4>1. Frames!Complete(S \ {f}, g, sent[c], 2)
        BY <1>4, <2>4
      <4>2. Frames!Left(frames', outbox'[d], d) = S \ {f}
        BY <1>1, <3>1
      <4>3. Len(delivered'[d]) = g /\ sent'[d] = sent[c] /\ Frames!NextPlace(d)' = 2
        <5>1. delivered'[d] = delivered[c] /\ sent'[d] = sent[c]
          BY <1>2, <2>1, <3>1
        <5>2. Frames!NextPlace(d)' = 2
          BY <2>3, <3>1
        <5> QED
          BY <5>1, <5>2
      <4> QED
        BY <4>1, <4>2, <4>3, Zenon
    <3>2. CASE d # c
      BY <1>2, <1>9, <2>1, <2>3, <3>2, OthersComplete
    <3> QED
      BY <3>1, <3>2
  <2>6. Frames!TypeOK'
    <3>1. \A d \in Channels : Frames!Range(delivered[d])' = Frames!Range(delivered[d])
      BY <2>1
    <3> QED
      BY <1>1, <1>2, <1>7, <2>2, <3>1 DEF Frames!IInv, Frames!TypeOK
  <2>7. Frames!FramesTyped'
    BY <1>1, <1>2, <1>5, <2>1 DEF Frames!IInv, Frames!FramesTyped, Box
  <2>8. Frames!ReadsNext'
    BY <1>4, <2>1, <2>2 DEF Frames!ReadsNext
  <2>9. Frames!InOrder'
    BY <2>1 DEF Frames!IInv, Frames!InOrder
  <2>10. Frames!AnnouncedIsThere'
    BY <1>2, <1>4, <1>12, <2>1, <2>2 DEF Frames!AnnouncedIsThere
  <2> QED
    BY <1>6, <1>7, <1>10, <2>5, <2>6, <2>7, <2>8, <2>9, <2>10 DEF Frames!IInv, Frames!FramesInPlace
<1> QED
  BY <1>13, <1>14

(* An event begins with the head of the list. *)
LEMMA FromListStep ==
  ASSUME Frames!IInv, Frames!FromList
  PROVE  Frames!IInv'
<1>1. /\ amqpCall = Frames!Drain /\ frames # <<>> /\ Frames!Takes(Head(frames)) /\ frames' = Tail(frames)
      /\ UNCHANGED <<sent, outbox, asked, delivered, announced>>
  BY DEF Frames!FromList
<1>2. amqpCall.op \notin {"rpc", "get"}
  BY <1>1 DEF Frames!Drain
<1>3. frames \in Seq(Frames!AllFrames)
  BY DEF Frames!IInv, Frames!FramesTyped
<1>4. /\ Len(frames) \in Nat /\ Len(frames) >= 1 /\ Head(frames) = frames[1]
      /\ Tail(frames) \in Seq(Frames!AllFrames) /\ Len(Tail(frames)) = Len(frames) - 1
      /\ \A j \in 1 .. Len(frames) - 1 : Tail(frames)[j] = frames[j + 1]
  BY <1>1, <1>3, HeadAndTail
<1>5. 1 \in 1..Len(frames) /\ \A j \in 1 .. 1 - 1 : frames[j].channel # frames[1].channel
  BY <1>4
<1>6. Tail(frames) = Frames!RemoveAt(frames, 1)
  <2>1. /\ Frames!RemoveAt(frames, 1) \in Seq(Frames!AllFrames)
        /\ Len(Frames!RemoveAt(frames, 1)) = Len(frames) - 1
        /\ \A j \in 1 .. Len(frames) - 1 : Frames!RemoveAt(frames, 1)[j] = IF j < 1 THEN frames[j] ELSE frames[j + 1]
    BY <1>3, <1>5, Removed, Zenon
  <2>2. \A j \in 1 .. Len(frames) - 1 : Frames!RemoveAt(frames, 1)[j] = frames[j + 1]
    BY <2>1
  <2> QED
    BY <1>4, <2>1, <2>2, SeqEqual
<1>7. FirstTaken(frames[1].channel, frames[1])
  BY <1>1, <1>2, <1>5, <1>6, TakenFromList
<1> QED
  BY <1>1, <1>4, <1>7, BeginsStep

(* An event begins with a frame from the socket. *)
LEMMA FromSocketStep ==
  ASSUME Frames!IInv, NEW c \in Channels, Frames!FromSocket(c)
  PROVE  Frames!IInv'
<1>1. /\ amqpCall = Frames!Drain /\ frames = <<>> /\ outbox[c] # <<>>
      /\ Frames!Takes(Head(outbox[c])) /\ outbox' = [outbox EXCEPT ![c] = Tail(@)]
      /\ UNCHANGED <<sent, asked, frames, delivered, announced>>
  BY DEF Frames!FromSocket
<1>2. amqpCall.op \notin {"rpc", "get"}
  BY <1>1 DEF Frames!Drain
<1>3. \A j \in 1..Len(frames) : frames[j].channel # c
  BY <1>1
<1>4. FirstTaken(c, Head(outbox[c]))
  BY <1>1, <1>2, <1>3, TakenFromSocket
<1> QED
  BY <1>1, <1>4, BeginsStep

(* The least index in a set of indices. *)
LEMMA LeastIndex ==
  ASSUME NEW n, NEW I \in SUBSET (1..n), I # {}
  PROVE  LET first == CHOOSE i \in I : \A j \in I : i <= j
         IN  first \in I /\ \A j \in I : first <= j
<1>1. I \subseteq Nat
  OBVIOUS
<1>2. PICK i \in I : \A j \in I : <<j, i>> \notin OpToRel(<, Nat)
  BY <1>1, NatLessThanWellFounded, WFMin
<1>3. ASSUME NEW j \in I PROVE i <= j
  <2>1. ~(j < i)
    BY <1>1, <1>2 DEF OpToRel
  <2> QED
    BY <1>1, <2>1
<1> QED
  BY <1>3

(* A message is read on with the first frame of its channel in the list. *)
LEMMA ReadListedStep ==
  ASSUME Frames!IInv, Frames!ReadListed
  PROVE  Frames!IInv'
<1> DEFINE first == CHOOSE i \in Frames!InList : \A j \in Frames!InList : i <= j
<1>1. /\ amqpCall.op \in {"header", "body"} /\ Frames!InList # {}
      /\ Frames!Continues(frames[first]) /\ frames' = Frames!RemoveAt(frames, first)
      /\ sent' = sent /\ outbox' = outbox /\ asked' = asked /\ announced' = announced
  BY DEF Frames!ReadListed
<1>2. frames \in Seq(Frames!AllFrames)
  BY DEF Frames!IInv, Frames!FramesTyped
<1>3. Frames!InList = {i \in 1..Len(frames) : frames[i].channel = amqpCall.channel}
  BY <1>2 DEF Frames!InList, Frames!ReadsChannel
<1>4. first \in Frames!InList /\ \A j \in Frames!InList : first <= j
  BY <1>1, <1>3, LeastIndex
<1> HIDE DEF first
<1>5. first \in 1..Len(frames) /\ frames[first].channel = amqpCall.channel
  BY <1>3, <1>4
<1>6. \A j \in 1 .. first - 1 : frames[j].channel # frames[first].channel
  <2>1. \A j \in 1 .. first - 1 : j \in 1..Len(frames) /\ ~(first <= j)
    BY <1>2, <1>5
  <2> QED
    BY <1>3, <1>4, <1>5, <2>1
<1>7. FirstTaken(amqpCall.channel, frames[first])
  BY <1>1, <1>5, <1>6, TakenFromList
<1> QED
  BY <1>1, <1>7, ContinuesStep

(* A message is read on from the socket, where a frame of another channel   *)
(* may come first.                                                         *)
LEMMA ReadSocketStep ==
  ASSUME Frames!IInv, NEW c \in Channels, Frames!ReadSocket(c)
  PROVE  Frames!IInv'
<1>1. /\ amqpCall.op \in {"header", "body"} /\ Frames!InList = {} /\ outbox[c] # <<>>
      /\ outbox' = [outbox EXCEPT ![c] = Tail(@)]
      /\ sent' = sent /\ asked' = asked /\ announced' = announced
  BY DEF Frames!ReadSocket
<1>2. CASE c = amqpCall.channel
  <2>1. Frames!Continues(Head(outbox[c])) /\ frames' = frames
    BY <1>2 DEF Frames!ReadSocket, Frames!ReadsChannel
  <2>2. \A j \in 1..Len(frames) : frames[j].channel # c
    <3>1. frames \in Seq(Frames!AllFrames)
      BY DEF Frames!IInv, Frames!FramesTyped
    <3>2. Frames!InList = {i \in 1..Len(frames) : frames[i].channel = amqpCall.channel}
      BY <3>1 DEF Frames!InList, Frames!ReadsChannel
    <3> QED
      BY <1>1, <1>2, <3>2
  <2>3. FirstTaken(amqpCall.channel, Head(outbox[c]))
    BY <1>1, <1>2, <2>1, <2>2, TakenFromSocket
  <2> QED
    BY <1>1, <2>1, <2>3, ContinuesStep
<1>3. CASE c # amqpCall.channel
  <2>1. /\ frames' = Append(frames, Head(outbox[c])) /\ amqpCall' = amqpCall
        /\ delivered' = delivered /\ dropped' = dropped
    BY <1>3 DEF Frames!ReadSocket, Frames!ReadsChannel
  <2>2. /\ outbox' \in [Channels -> Box] /\ Head(outbox[c]) = outbox[c][1] /\ 1 \in 1..Len(outbox[c])
        /\ \A d \in Channels : \A k \in Frames!Range(outbox[d])' : k.channel = d
    BY <1>1, SocketRead
  <2>3. Head(outbox[c]).kind \in Frames!Kinds
    BY <1>1, <2>2, NoReplies
  <2>4. \A d \in Channels : Frames!NextPlace(d)' = Frames!NextPlace(d)
    BY <2>1 DEF Frames!NextPlace
  <2>5. /\ frames' \in Box /\ Frames!InSequence' /\ Frames!NoneMissing'
        /\ Frames!Range(frames') = Frames!Range(frames) \cup {Head(outbox[c])}
    BY <1>1, <2>1, <2>3, <2>4, ReadToTheList
  <2>6. Frames!TypeOK'
    <3>1. \A d \in Channels : Frames!Range(delivered[d])' = Frames!Range(delivered[d])
      BY <2>1
    <3> QED
      BY <1>1, <2>1, <2>2, <3>1 DEF Frames!IInv, Frames!TypeOK
  <2>7. Frames!FramesTyped'
    BY <1>1, <2>1, <2>2, <2>5 DEF Frames!IInv, Frames!FramesTyped, Box
  <2>8. Frames!ReadsNext' /\ Frames!InOrder' /\ Frames!FramesInPlace'
    BY <2>1 DEF Frames!IInv, Frames!ReadsNext, Frames!InOrder, Frames!FramesInPlace
  <2>9. Frames!RepliesAwaited'
    BY <1>1, <2>1, RepliesAfterRead
  <2>10. Frames!AnnouncedIsThere'
    <3>1. Frames!Range(frames) \subseteq Frames!Range(frames)'
      BY <2>5 DEF Frames!Range
    <3> QED
      BY <1>1, <2>1, <3>1 DEF Frames!IInv, Frames!AnnouncedIsThere
  <2> QED
    BY <2>5, <2>6, <2>7, <2>8, <2>9, <2>10 DEF Frames!IInv
<1> QED
  BY <1>2, <1>3

(* At the beginning nothing was sent and nothing is under way. *)
LEMMA FramesInit ==
  ASSUME Frames!Init
  PROVE  Frames!IInv
<1>1. /\ sent = [c \in Channels |-> 0] /\ outbox = [c \in Channels |-> <<>>]
      /\ asked = [c \in Channels |-> "none"] /\ frames = <<>> /\ amqpCall = Frames!Idle
      /\ delivered = [c \in Channels |-> <<>>] /\ announced = [c \in Channels |-> {}] /\ dropped = FALSE
  BY DEF Frames!Init
<1>2. amqpCall.op = "none"
  BY <1>1 DEF Frames!Idle
<1>3. Frames!TypeOK
  <2>1. \A c \in Channels : MaxSent[c] \in Nat
    BY PartsAssumptions DEF Frames!FramesAssumption
  <2>2. \A c \in Channels : Frames!Range(outbox[c]) = {} /\ Frames!Range(delivered[c]) = {}
    BY <1>1 DEF Frames!Range
  <2> QED
    <3>1. \A c \in Channels : sent[c] \in 0..MaxSent[c]
      BY <1>1, <2>1
    <3>2. \A c \in Channels : \A f \in Frames!Range(outbox[c]) : f.channel = c
      BY <2>2
    <3>3. \A c \in Channels : Frames!Range(delivered[c]) \subseteq 1 .. sent[c] /\ announced[c] \subseteq 1 .. sent[c]
      BY <1>1, <2>2
    <3>4. asked \in [Channels -> {"none", "rpc", "get"}] /\ dropped \in BOOLEAN
      BY <1>1
    <3> QED
      BY <1>2, <3>1, <3>2, <3>3, <3>4 DEF Frames!TypeOK
<1>4. Frames!FramesTyped
  BY <1>1 DEF Frames!FramesTyped
<1>5. Frames!InSequence
  BY <1>1 DEF Frames!InSequence, Frames!Sequential
<1>6. Frames!NoneMissing
  <2> SUFFICES ASSUME NEW c \in Channels
               PROVE  Frames!Complete(Frames!Left(frames, outbox[c], c), Len(delivered[c]), sent[c], Frames!NextPlace(c))
    BY DEF Frames!NoneMissing
  <2>1. Frames!Left(frames, outbox[c], c) = {}
    BY <1>1 DEF Frames!Left
  <2>2. Len(delivered[c]) = 0 /\ sent[c] = 0 /\ Frames!NextPlace(c) = 0
    BY <1>1, <1>2 DEF Frames!NextPlace
  <2>3. Frames!Complete({}, 0, 0, 0)
    BY DEF Frames!Complete
  <2> QED
    BY <2>1, <2>2, <2>3
<1>7. Frames!ReadsNext
  BY <1>2 DEF Frames!ReadsNext
<1>8. Frames!RepliesAwaited
  BY <1>1 DEF Frames!RepliesAwaited
<1>9. Frames!InOrder
  <2> SUFFICES ASSUME NEW c \in Channels
               PROVE  delivered[c] = [i \in DOMAIN delivered[c] |-> i]
    BY DEF Frames!InOrder
  <2>1. delivered[c] = <<>>
    BY <1>1
  <2>2. <<>> = [i \in DOMAIN <<>> |-> i]
    OBVIOUS
  <2> QED
    BY <2>1, <2>2
<1>10. Frames!FramesInPlace /\ Frames!AnnouncedIsThere
  BY <1>1 DEF Frames!FramesInPlace, Frames!AnnouncedIsThere
<1> QED
  BY <1>3, <1>4, <1>5, <1>6, <1>7, <1>8, <1>9, <1>10 DEF Frames!IInv

(* Every action keeps the invariant of the frames. *)
LEMMA FramesNextInv ==
  ASSUME Frames!IInv, Frames!Next
  PROVE  Frames!IInv'
<1>1. ASSUME NEW c \in Channels, NEW empty \in BOOLEAN, Frames!ServerDelivers(c, empty) PROVE Frames!IInv'
  BY <1>1, DeliversStep
<1>2. ASSUME NEW c \in Channels, Frames!ServerReplies(c) PROVE Frames!IInv'
  BY <1>2, RepliesStep
<1>3. ASSUME NEW c \in Channels, Frames!CallRpc(c) \/ Frames!BasicGet(c) PROVE Frames!IInv'
  BY <1>3, RequestsStep
<1>4. ASSUME NEW c \in Channels, Frames!AwaitReply(c) PROVE Frames!IInv'
  BY <1>4, AwaitReplyStep
<1>5. ASSUME NEW c \in Channels, Frames!FromSocket(c) PROVE Frames!IInv'
  BY <1>5, FromSocketStep
<1>6. ASSUME NEW c \in Channels, Frames!ReadSocket(c) PROVE Frames!IInv'
  BY <1>6, ReadSocketStep
<1>7. CASE Frames!DrainEvents \/ Frames!TimesOut
  BY <1>7, DrainStep
<1>8. CASE Frames!FromList
  BY <1>8, FromListStep
<1>9. CASE Frames!ReadListed
  BY <1>9, ReadListedStep
<1> QED
  BY <1>1, <1>2, <1>3, <1>4, <1>5, <1>6, <1>7, <1>8, <1>9 DEF Frames!Next

(* A step of another component leaves the frames as they are. *)
LEMMA FramesStutter ==
  ASSUME Frames!IInv, UNCHANGED framesVars
  PROVE  Frames!IInv'
<1>1. /\ sent' = sent /\ outbox' = outbox /\ asked' = asked /\ frames' = frames /\ amqpCall' = amqpCall
      /\ delivered' = delivered /\ announced' = announced /\ dropped' = dropped
  BY DEF framesVars
<1>2. Frames!TypeOK'
  BY <1>1 DEF Frames!IInv, Frames!TypeOK
<1>3. Frames!FramesTyped' /\ Frames!InSequence'
  BY <1>1 DEF Frames!IInv, Frames!FramesTyped, Frames!InSequence
<1>4. Frames!NoneMissing'
  <2>1. \A c \in Channels : Frames!NextPlace(c)' = Frames!NextPlace(c)
    BY <1>1 DEF Frames!NextPlace
  <2> QED
    BY <1>1, <2>1 DEF Frames!IInv, Frames!NoneMissing
<1>5. Frames!ReadsNext' /\ Frames!InOrder' /\ Frames!FramesInPlace' /\ Frames!AnnouncedIsThere'
  BY <1>1 DEF Frames!IInv, Frames!ReadsNext, Frames!InOrder, Frames!FramesInPlace, Frames!AnnouncedIsThere
<1>6. Frames!RepliesAwaited'
  BY <1>1 DEF Frames!IInv, Frames!RepliesAwaited, Frames!Awaits
<1> QED
  BY <1>2, <1>3, <1>4, <1>5, <1>6 DEF Frames!IInv

(* Deliveries, gets and the drain loop of lamqplib.c, for every number of   *)
(* channels and messages: the application gets the messages of a channel   *)
(* in the order in which the server sent them, each header and body with    *)
(* its method, however requests and gets on other channels came in between, *)
(* and what basic_get announced is there until it is given.                *)
THEOREM FramesCorrect == PartsSpec => []FramesSafety
<1> DEFINE I == part = "frames" => Frames!IInv
<1>1. PartsInit => I
  BY FramesInit DEF PartsInit
<1>2. I /\ [PartsNext]_partsVars => I'
  <2> SUFFICES ASSUME I, [PartsNext]_partsVars, part' = "frames"
               PROVE  Frames!IInv'
    OBVIOUS
  <2>1. CASE Only("zlog") /\ Zlog!Next /\ UNCHANGED <<framesVars, otlVars, xmlVars, pyVars>>
    BY <2>1 DEF Only
  <2>2. CASE Only("frames") /\ Frames!Next /\ UNCHANGED <<zlogVars, otlVars, xmlVars, pyVars>>
    BY <2>2, FramesNextInv DEF Only
  <2>3. CASE Only("otl") /\ Otl!Next /\ UNCHANGED <<zlogVars, framesVars, xmlVars, pyVars>>
    BY <2>3 DEF Only
  <2>4. CASE UNCHANGED partsVars
    BY <2>4, FramesStutter DEF partsVars
  <2>5. CASE Only("xml") /\ Xml!Next /\ UNCHANGED <<zlogVars, framesVars, otlVars, pyVars>>
    BY <2>5 DEF Only
  <2>6. CASE Only("python") /\ Py!Next /\ UNCHANGED <<zlogVars, framesVars, otlVars, xmlVars>>
    BY <2>6 DEF Only
  <2> QED
    BY <2>1, <2>2, <2>3, <2>4, <2>5, <2>6 DEF PartsNext
<1>3. I => FramesSafety
  BY DEF FramesSafety, Frames!IInv, Frames!Safety
<1> QED
  BY <1>1, <1>2, <1>3, PTL DEF PartsSpec

-----------------------------------------------------------------------------
(* The record functions of zlog: the calls, and the lock. *)

Calls == [caller : States, rname : Records, slot : 1..Slots, run : Zlog!UsedRecords]

(* What the beginning of a sequence holds. *)
LEMMA Beginning ==
  ASSUME NEW S, NEW s \in Seq(S), NEW n \in 0..Len(s)
  PROVE  /\ SubSeq(s, 1, n) \in Seq(S) /\ Len(SubSeq(s, 1, n)) = n
         /\ Zlog!Range(SubSeq(s, 1, n)) \subseteq Zlog!Range(s)
<1>1. Len(s) \in Nat /\ n \in Nat /\ n <= Len(s)
  OBVIOUS
<1> DEFINE t == SubSeq(s, 1, n)
<1>2. t \in Seq(S) /\ Len(t) = n /\ \A i \in 1..n : t[i] = s[i]
  <2>1. \A i \in 1..n : s[i] \in S
    BY <1>1
  <2> QED
    BY <1>1, <2>1, SubSeqProperties
<1> HIDE DEF t
<1>3. Zlog!Range(t) = {t[i] : i \in 1..n} /\ Zlog!Range(s) = {s[i] : i \in 1..Len(s)}
  BY <1>2 DEF Zlog!Range
<1>4. \A i \in 1..n : i \in 1..Len(s)
  BY <1>1
<1> QED
  BY <1>2, <1>3, <1>4 DEF t

(* What is in the calls with one more. *)
LEMMA CallsAppended ==
  ASSUME NEW S, NEW s \in Seq(S), NEW e \in S
  PROVE  /\ Append(s, e) \in Seq(S) /\ Len(Append(s, e)) = Len(s) + 1
         /\ Zlog!Range(Append(s, e)) = Zlog!Range(s) \cup {e}
<1> DEFINE t == Append(s, e)
           n == Len(s)
<1>1. /\ n \in Nat /\ t \in Seq(S) /\ Len(t) = n + 1 /\ t[n + 1] = e /\ \A i \in 1..n : t[i] = s[i]
  OBVIOUS
<1> HIDE DEF t
<1>2. Zlog!Range(t) = {t[i] : i \in 1 .. n + 1} /\ Zlog!Range(s) = {s[i] : i \in 1..n}
  BY <1>1 DEF Zlog!Range
<1>3. /\ \A i \in 1 .. n + 1 : i \in 1..n \/ i = n + 1
      /\ \A i \in 1..n : i \in 1 .. n + 1
      /\ n + 1 \in 1 .. n + 1
  BY <1>1
<1>4. Zlog!Range(t) = Zlog!Range(s) \cup {e}
  BY <1>1, <1>2, <1>3
<1> QED
  BY <1>1, <1>4 DEF t

(* The lock cannot be held more often than calls and errors allow. *)
LEMMA LockBound ==
  ASSUME NEW n \in Nat, n <= MaxDepth, NEW r \in Nat, r <= MaxRaises, NEW k \in Nat, k <= n + MaxDepth * r
  PROVE  k \in 0 .. MaxDepth * (MaxRaises + 1)
<1>1. MaxDepth \in Nat /\ MaxRaises \in Nat
  BY PartsAssumptions DEF Zlog!ZlogAssumption
<1>2. \A d, a, b \in Nat : a <= b => d * a <= d * b
  OBVIOUS
<1>3. \A d, a \in Nat : d * a \in Nat /\ d * (a + 1) = d * a + d
  OBVIOUS
<1>4. MaxDepth * r \in Nat /\ MaxDepth * MaxRaises \in Nat /\ MaxDepth * r <= MaxDepth * MaxRaises
  BY <1>1, <1>2, <1>3
<1>5. MaxDepth * (MaxRaises + 1) = MaxDepth * MaxRaises + MaxDepth
  BY <1>1, <1>3
<1> DEFINE p == MaxDepth * r
           q == MaxDepth * MaxRaises
<1>6. p \in Nat /\ q \in Nat /\ p <= q /\ k <= n + p
  BY <1>4
<1> HIDE DEF p, q
<1>7. 0 <= k /\ k <= q + MaxDepth
  BY <1>1, <1>6
<1> QED
  BY <1>5, <1>7, <1>1, <1>6 DEF q

(* One more error makes room for the calls that it ends. *)
LEMMA ErrorBound ==
  ASSUME NEW n \in Nat, n <= MaxDepth, NEW m \in Nat, NEW r \in Nat, NEW k \in Nat, k <= (m + n) + MaxDepth * r
  PROVE  k <= m + MaxDepth * (r + 1)
<1>1. MaxDepth \in Nat
  BY PartsAssumptions DEF Zlog!ZlogAssumption
<1>2. \A d, a \in Nat : d * a \in Nat /\ d * (a + 1) = d * a + d
  OBVIOUS
<1> DEFINE p == MaxDepth * r
<1>3. p \in Nat /\ MaxDepth * (r + 1) = p + MaxDepth /\ k <= (m + n) + p
  BY <1>1, <1>2
<1> HIDE DEF p
<1> QED
  BY <1>1, <1>3

(* A table of slots in which one is set. *)
LEMMA SlotSet ==
  ASSUME Zlog!TypeOK, NEW L \in loaded, NEW r \in Records, NEW f \in Functions, NEW i \in 1..Slots
  PROVE  /\ [record EXCEPT ![i] = Zlog!Used(L, r, f)]
              \in [1..Slots -> {Zlog!Free} \cup {Zlog!Used(M, s, g) : M \in loaded, s \in Records, g \in Functions}]
         /\ [record EXCEPT ![i] = Zlog!Used(L, r, f)][i] = Zlog!Used(L, r, f)
         /\ \A j \in 1..Slots : j # i => [record EXCEPT ![i] = Zlog!Used(L, r, f)][j] = record[j]
BY DEF Zlog!TypeOK


(* The ranges of the counters and of the calls. *)
LEMMA LockTyped ==
  ASSUME Zlog!LockInv
  PROVE  /\ calls \in Seq(Calls) /\ Len(calls) \in Nat /\ Len(calls) <= MaxDepth
         /\ readers \in Nat /\ recordRaises \in Nat /\ recordRaises <= MaxRaises
         /\ MaxDepth \in Nat /\ MaxRaises \in Nat /\ Slots \in Nat \ {0}
<1>1. MaxDepth \in Nat /\ MaxRaises \in Nat /\ Slots \in Nat \ {0}
  BY PartsAssumptions DEF Zlog!ZlogAssumption
<1>2. calls \in Seq(Calls) /\ Len(calls) <= MaxDepth
  BY DEF Zlog!LockInv, Zlog!CallsTyped, Calls
<1>3. recordRaises \in Nat /\ recordRaises <= MaxRaises
  BY <1>1 DEF Zlog!LockInv, Zlog!TypeOK
<1>4. readers \in Nat
  <2>1. readers \in 0 .. MaxDepth * (MaxRaises + 1)
    BY DEF Zlog!LockInv, Zlog!TypeOK
  <2> QED
    BY <2>1
<1> QED
  BY <1>1, <1>2, <1>3, <1>4

(* A state that loads the module clears the slots, and no call. *)
LEMMA LoadLock ==
  ASSUME Zlog!LockInv, NEW L \in States, Zlog!Load(L)
  PROVE  Zlog!LockInv'
<1>1. /\ zlogStatus = "runs" /\ loaded' = loaded \cup {L} /\ record' = [i \in 1..Slots |-> Zlog!Free]
      /\ zlogStatus' \in {"runs", "stuck"}
      /\ records' = records /\ calls' = calls /\ readers' = readers
      /\ recordRaises' = recordRaises /\ latest' = latest
  BY DEF Zlog!Load, Zlog!AfterWriteLock
<1>2. record' \in [1..Slots -> {Zlog!Free} \cup {Zlog!Used(M, r, f) : M \in loaded', r \in Records, f \in Functions}]
  BY <1>1
<1>3. \A k \in Zlog!Range(calls) : k.caller \in loaded' /\ k.slot = records'[k.rname] /\ k.run.in_used
  BY <1>1 DEF Zlog!LockInv, Zlog!TypeOK
<1>4. Zlog!Range(calls)' = Zlog!Range(calls)
  BY <1>1 DEF Zlog!Range
<1>5. Zlog!TypeOK'
  BY <1>1, <1>2, <1>3, <1>4 DEF Zlog!LockInv, Zlog!TypeOK
<1>6. Zlog!CallsTyped' /\ Zlog!LocksCounted' /\ Zlog!LockIsHeld'
  BY <1>1 DEF Zlog!LockInv, Zlog!CallsTyped, Zlog!LocksCounted, Zlog!LockIsHeld
<1> QED
  BY <1>5, <1>6 DEF Zlog!LockInv

(* Reloading takes the lock for writing and changes nothing else. *)
LEMMA ReloadLock ==
  ASSUME Zlog!LockInv, NEW L \in States, Zlog!Reload(L)
  PROVE  Zlog!LockInv'
<1>1. /\ zlogStatus = "runs" /\ loaded' = loaded /\ record' = record
      /\ zlogStatus' \in {"runs", "stuck"}
      /\ records' = records /\ calls' = calls /\ readers' = readers
      /\ recordRaises' = recordRaises /\ latest' = latest
  BY DEF Zlog!Reload, Zlog!Running, Zlog!AfterWriteLock
<1>2. Zlog!Range(calls)' = Zlog!Range(calls)
  BY <1>1 DEF Zlog!Range
<1>3. Zlog!TypeOK'
  BY <1>1, <1>2 DEF Zlog!LockInv, Zlog!TypeOK
<1>4. Zlog!CallsTyped' /\ Zlog!LocksCounted' /\ Zlog!LockIsHeld'
  BY <1>1 DEF Zlog!LockInv, Zlog!CallsTyped, Zlog!LocksCounted, Zlog!LockIsHeld
<1> QED
  BY <1>3, <1>4 DEF Zlog!LockInv

(* The last free slot is one of the free slots. *)
LEMMA LastFree ==
  ASSUME Slots \in Nat, Zlog!FreeSlots # {}
  PROVE  LET index == CHOOSE i \in Zlog!FreeSlots : \A j \in Zlog!FreeSlots : j <= i
         IN  index \in 1..Slots /\ ~record[index].in_used
<1> DEFINE Back == {Slots - i : i \in Zlog!FreeSlots}
<1>1. Zlog!FreeSlots \subseteq 1..Slots /\ \A i \in Zlog!FreeSlots : ~record[i].in_used
  BY DEF Zlog!FreeSlots
<1>2. Back \subseteq Nat /\ Back # {}
  <2>1. \A i \in 1..Slots : Slots - i \in Nat
    OBVIOUS
  <2>2. \A i \in Zlog!FreeSlots : Slots - i \in Nat
    BY <1>1, <2>1
  <2> QED
    BY <2>2
<1>3. PICK b \in Back : \A c \in Back : ~(<<c, b>> \in OpToRel(<, Nat))
  BY <1>2, WFMin, NatLessThanWellFounded
<1>4. PICK i \in Zlog!FreeSlots : b = Slots - i
  BY <1>3
<1>5. ASSUME NEW j \in Zlog!FreeSlots PROVE j <= i
  <2>1. Slots - j \in Back /\ Slots - j \in Nat /\ b \in Nat
    BY <1>1, <1>2, <1>3
  <2>2. ~(Slots - j < b)
    BY <1>3, <2>1 DEF OpToRel
  <2> QED
    BY <1>1, <1>4, <2>1, <2>2
<1>6. LET index == CHOOSE k \in Zlog!FreeSlots : \A j \in Zlog!FreeSlots : j <= k
      IN  index \in Zlog!FreeSlots
  BY <1>5
<1> QED
  BY <1>1, <1>6

(* What set_record changes, when it does not wait for itself. *)
LEMMA SetRecordIs ==
  ASSUME Zlog!LockInv, NEW L \in States, NEW r \in Records, NEW f \in Functions, Zlog!SetRecord(L, r, f)
  PROVE  \/ /\ zlogStatus' = "stuck"
            /\ record' = record /\ records' = records /\ latest' = latest
         \/ /\ zlogStatus' = "runs" /\ calls = <<>>
            /\ \E i \in 1..Slots :
                 /\ ~record[i].in_used /\ record' = [record EXCEPT ![i] = Zlog!Used(L, r, f)]
                 /\ records' = [records EXCEPT ![r] = i] /\ latest' = [latest EXCEPT ![r] = f]
<1> DEFINE index == CHOOSE i \in Zlog!FreeSlots : \A j \in Zlog!FreeSlots : j <= i
<1>1. /\ Zlog!FreeSlots # {} /\ zlogStatus' = IF readers = 0 THEN "runs" ELSE "stuck"
      /\ IF zlogStatus' = "stuck" THEN UNCHANGED <<record, records, latest>>
         ELSE /\ record' = [record EXCEPT ![index] = Zlog!Used(L, r, f)]
              /\ records' = [records EXCEPT ![r] = index] /\ latest' = [latest EXCEPT ![r] = f]
  BY DEF Zlog!SetRecord, Zlog!AfterWriteLock
<1>2. index \in 1..Slots /\ ~record[index].in_used
  BY <1>1, LockTyped, LastFree
<1> HIDE DEF index
<1>3. CASE readers = 0
  <2>1. calls = <<>>
    BY <1>3 DEF Zlog!LockInv, Zlog!LockIsHeld
  <2> QED
    BY <1>1, <1>2, <1>3, <2>1
<1>4. CASE readers # 0
  BY <1>1, <1>4
<1> QED
  BY <1>3, <1>4

(* Setting a record keeps the lock as it is. *)
LEMMA SetRecordLock ==
  ASSUME Zlog!LockInv, NEW L \in States, NEW r \in Records, NEW f \in Functions, Zlog!SetRecord(L, r, f)
  PROVE  Zlog!LockInv'
<1>1. /\ zlogStatus = "runs" /\ L \in loaded /\ loaded' = loaded /\ calls' = calls
      /\ readers' = readers /\ recordRaises' = recordRaises
  BY DEF Zlog!SetRecord, Zlog!Running
<1>2. Zlog!Range(calls)' = Zlog!Range(calls)
  BY <1>1 DEF Zlog!Range
<1>3. Zlog!TypeOK'
  <2>1. CASE /\ zlogStatus' = "stuck"
             /\ record' = record /\ records' = records /\ latest' = latest
    BY <1>1, <1>2, <2>1 DEF Zlog!LockInv, Zlog!TypeOK
  <2>2. CASE /\ zlogStatus' = "runs" /\ calls = <<>>
             /\ \E i \in 1..Slots :
                  /\ ~record[i].in_used /\ record' = [record EXCEPT ![i] = Zlog!Used(L, r, f)]
                  /\ records' = [records EXCEPT ![r] = i] /\ latest' = [latest EXCEPT ![r] = f]
    <3>1. PICK i \in 1..Slots :
            /\ record' = [record EXCEPT ![i] = Zlog!Used(L, r, f)]
            /\ records' = [records EXCEPT ![r] = i] /\ latest' = [latest EXCEPT ![r] = f]
      BY <2>2
    <3>2. record' \in [1..Slots -> {Zlog!Free} \cup {Zlog!Used(M, s, g) : M \in loaded', s \in Records, g \in Functions}]
      BY <1>1, <3>1, SlotSet DEF Zlog!LockInv
    <3>3. records' \in [Records -> 0..Slots] /\ latest' \in [Records -> Functions \cup {Zlog!NotSet}]
      <4>1. records \in [Records -> 0..Slots] /\ latest \in [Records -> Functions \cup {Zlog!NotSet}] /\ i \in 0..Slots
        BY DEF Zlog!LockInv, Zlog!TypeOK
      <4> QED
        BY <3>1, <4>1
    <3>4. Zlog!Range(calls) = {}
      BY <2>2 DEF Zlog!Range
    <3>5. readers' \in 0 .. MaxDepth * (MaxRaises + 1) /\ recordRaises' \in 0..MaxRaises /\ loaded' \subseteq States
      BY <1>1 DEF Zlog!LockInv, Zlog!TypeOK
    <3> QED
      BY <1>2, <2>2, <3>2, <3>3, <3>4, <3>5 DEF Zlog!TypeOK
  <2> QED
    BY <2>1, <2>2, SetRecordIs
<1>4. Zlog!CallsTyped' /\ Zlog!LocksCounted' /\ Zlog!LockIsHeld'
  BY <1>1, SetRecordIs DEF Zlog!LockInv, Zlog!CallsTyped, Zlog!LocksCounted, Zlog!LockIsHeld
<1> QED
  BY <1>3, <1>4 DEF Zlog!LockInv


(* What a call finds in zlog's table and in the slots. *)
LEMMA LogIs ==
  ASSUME Zlog!LockInv, NEW L \in States, NEW r \in Records, Zlog!Log(L, r)
  PROVE  /\ zlogStatus = "runs" /\ L \in loaded /\ records[r] \in 1..Slots /\ Len(calls) < MaxDepth
         /\ loaded' = loaded /\ record' = record /\ records' = records
         /\ recordRaises' = recordRaises /\ latest' = latest
         /\ \/ /\ zlogStatus' = "asserted" /\ calls' = calls /\ readers' = readers
            \/ /\ zlogStatus' = "runs" /\ calls' = Append(calls, Zlog!Call(L, r)) /\ readers' = readers + 1
               /\ record[records[r]].in_used /\ Zlog!Call(L, r) \in Calls
<1>1. /\ zlogStatus = "runs" /\ L \in loaded /\ records[r] # 0 /\ Len(calls) < MaxDepth
      /\ loaded' = loaded /\ record' = record /\ records' = records
      /\ recordRaises' = recordRaises /\ latest' = latest
      /\ IF record[records[r]].in_used
         THEN calls' = Append(calls, Zlog!Call(L, r)) /\ readers' = readers + 1 /\ zlogStatus' = zlogStatus
         ELSE zlogStatus' = "asserted" /\ calls' = calls /\ readers' = readers
  BY DEF Zlog!Log, Zlog!Running
<1>2. records[r] \in 1..Slots
  <2>1. records[r] \in 0..Slots
    BY DEF Zlog!LockInv, Zlog!TypeOK
  <2> QED
    BY <1>1, <2>1, LockTyped
<1>3. ASSUME record[records[r]].in_used PROVE Zlog!Call(L, r) \in Calls
  <2> DEFINE slot == record[records[r]]
  <2>1. slot \in {Zlog!Free} \cup {Zlog!Used(M, s, g) : M \in loaded, s \in Records, g \in Functions}
    BY <1>2 DEF Zlog!LockInv, Zlog!TypeOK
  <2>2. slot # Zlog!Free
    BY <1>3 DEF Zlog!Free
  <2>3. loaded \subseteq States
    BY DEF Zlog!LockInv, Zlog!TypeOK
  <2>4. slot \in Zlog!UsedRecords
    BY <2>1, <2>2, <2>3 DEF Zlog!UsedRecords
  <2>5. Zlog!Call(L, r) = [caller |-> L, rname |-> r, slot |-> records[r], run |-> slot]
    BY DEF Zlog!Call
  <2> HIDE DEF slot
  <2> QED
    BY <1>2, <2>4, <2>5 DEF Calls
<1> QED
  BY <1>1, <1>2, <1>3

(* A record function is called, and the lock taken once more. *)
LEMMA LogLock ==
  ASSUME Zlog!LockInv, NEW L \in States, NEW r \in Records, Zlog!Log(L, r)
  PROVE  Zlog!LockInv'
<1> DEFINE made == Zlog!Call(L, r)
<1>1. /\ zlogStatus = "runs" /\ L \in loaded /\ records[r] \in 1..Slots /\ Len(calls) < MaxDepth
      /\ loaded' = loaded /\ record' = record /\ records' = records
      /\ recordRaises' = recordRaises /\ latest' = latest
  BY LogIs
<1>2. CASE zlogStatus' = "asserted" /\ calls' = calls /\ readers' = readers
  <2>1. Zlog!Range(calls)' = Zlog!Range(calls)
    BY <1>2 DEF Zlog!Range
  <2>2. Zlog!TypeOK'
    BY <1>1, <1>2, <2>1 DEF Zlog!LockInv, Zlog!TypeOK
  <2>3. Zlog!CallsTyped' /\ Zlog!LocksCounted' /\ Zlog!LockIsHeld'
    BY <1>1, <1>2 DEF Zlog!LockInv, Zlog!CallsTyped, Zlog!LocksCounted, Zlog!LockIsHeld
  <2> QED
    BY <2>2, <2>3 DEF Zlog!LockInv
<1>3. CASE /\ zlogStatus' = "runs" /\ calls' = Append(calls, made) /\ readers' = readers + 1
           /\ record[records[r]].in_used /\ made \in Calls
  <2>1. made.caller = L /\ made.rname = r /\ made.slot = records[r] /\ made.run = record[records[r]]
    BY DEF Zlog!Call
  <2> HIDE DEF made
  <2>2. /\ calls' \in Seq(Calls) /\ Len(calls') = Len(calls) + 1
        /\ Zlog!Range(calls') = Zlog!Range(calls) \cup {made}
    BY <1>3, LockTyped, CallsAppended
  <2>3. Zlog!CallsTyped'
    BY <1>1, <2>2, LockTyped DEF Zlog!CallsTyped, Calls
  <2>4. Zlog!LocksCounted'
    <3>1. /\ Len(calls) <= readers /\ readers <= Len(calls) + MaxDepth * recordRaises
          /\ readers = Len(calls) => recordRaises = 0
          /\ recordRaises = 0 => readers = Len(calls)
      BY <1>1 DEF Zlog!LockInv, Zlog!LocksCounted
    <3> DEFINE p == MaxDepth * recordRaises
    <3>2. p \in Int
      BY LockTyped
    <3> HIDE DEF p
    <3>3. /\ Len(calls') <= readers' /\ readers' <= Len(calls') + p
          /\ readers' = Len(calls') => recordRaises' = 0
          /\ recordRaises' = 0 => readers' = Len(calls')
      BY <1>1, <1>3, <2>2, <3>1, <3>2, LockTyped DEF p
    <3> QED
      BY <1>1, <1>3, <3>3 DEF Zlog!LocksCounted, p
  <2>5. Zlog!LockIsHeld'
    <3>1. readers' > 0 /\ calls' # <<>>
      BY <1>3, <2>2, LockTyped
    <3> QED
      BY <3>1 DEF Zlog!LockIsHeld
  <2>6. Zlog!TypeOK'
    <3>1. \A k \in Zlog!Range(calls) : k.caller \in loaded /\ k.slot = records[k.rname] /\ k.run.in_used
      BY DEF Zlog!LockInv, Zlog!TypeOK
    <3>2. \A k \in Zlog!Range(calls') : k.caller \in loaded /\ k.slot = records[k.rname] /\ k.run.in_used
      BY <1>1, <1>3, <2>1, <2>2, <3>1
    <3>3. readers' \in 0 .. MaxDepth * (MaxRaises + 1)
      <4>1. Len(calls') \in Nat /\ Len(calls') <= MaxDepth /\ readers' \in Nat
        BY <1>1, <1>3, <2>2, LockTyped
      <4>2. readers' <= Len(calls') + MaxDepth * recordRaises
        BY <1>1, <2>4 DEF Zlog!LocksCounted
      <4> QED
        BY <4>1, <4>2, LockTyped, LockBound
    <3>4. Zlog!Range(calls)' = Zlog!Range(calls')
      BY DEF Zlog!Range
    <3> QED
      BY <1>1, <1>3, <3>2, <3>3, <3>4 DEF Zlog!LockInv, Zlog!TypeOK
  <2> QED
    BY <2>3, <2>4, <2>5, <2>6 DEF Zlog!LockInv
<1> QED
  BY <1>2, <1>3, LogIs

(* Functions end, and the calls before them go on. *)
LEMMA CallsEnd ==
  ASSUME Zlog!LockInv, NEW n \in 0..Len(calls), calls' = SubSeq(calls, 1, n),
         loaded' = loaded, record' = record, records' = records, latest' = latest, zlogStatus' = zlogStatus,
         recordRaises' \in 0..MaxRaises, Zlog!LocksCounted', readers' \in Nat
  PROVE  Zlog!TypeOK' /\ Zlog!CallsTyped' /\ Len(calls') = n
<1>1. /\ calls' \in Seq(Calls) /\ Len(calls') = n /\ Zlog!Range(calls') \subseteq Zlog!Range(calls)
  BY LockTyped, Beginning
<1>2. Len(calls') \in Nat /\ Len(calls') <= MaxDepth
  BY <1>1, LockTyped
<1>3. Zlog!CallsTyped'
  BY <1>1, <1>2 DEF Zlog!CallsTyped, Calls
<1>4. readers' \in 0 .. MaxDepth * (MaxRaises + 1)
  <2>1. readers' <= Len(calls') + MaxDepth * recordRaises'
    BY DEF Zlog!LocksCounted
  <2>2. recordRaises' \in Nat /\ recordRaises' <= MaxRaises
    BY LockTyped
  <2> QED
    BY <1>2, <2>1, <2>2, LockBound
<1>5. \A k \in Zlog!Range(calls') : k.caller \in loaded /\ k.slot = records[k.rname] /\ k.run.in_used
  BY <1>1 DEF Zlog!LockInv, Zlog!TypeOK
<1>6. Zlog!Range(calls)' = Zlog!Range(calls')
  BY DEF Zlog!Range
<1>7. Zlog!TypeOK'
  BY <1>4, <1>5, <1>6 DEF Zlog!LockInv, Zlog!TypeOK
<1> QED
  BY <1>1, <1>3, <1>7

(* A record function returns, and zlog gives the lock back once. *)
LEMMA ReturnsLock ==
  ASSUME Zlog!LockInv, Zlog!Returns
  PROVE  Zlog!LockInv'
<1>1. /\ zlogStatus = "runs" /\ calls # <<>> /\ calls' = SubSeq(calls, 1, Len(calls) - 1) /\ readers' = readers - 1
      /\ zlogStatus' = zlogStatus /\ loaded' = loaded /\ record' = record /\ records' = records
      /\ recordRaises' = recordRaises /\ latest' = latest
  BY DEF Zlog!Returns, Zlog!Front
<1>2. /\ Len(calls) <= readers /\ readers <= Len(calls) + MaxDepth * recordRaises
      /\ readers = Len(calls) => recordRaises = 0
      /\ recordRaises = 0 => readers = Len(calls)
  BY <1>1 DEF Zlog!LockInv, Zlog!LocksCounted
<1>3. Len(calls) - 1 \in 0..Len(calls) /\ readers' \in Nat
  BY <1>1, <1>2, LockTyped
<1>4. Len(calls') = Len(calls) - 1
  BY <1>1, <1>3, LockTyped, Beginning
<1>5. Zlog!LocksCounted'
  <2> DEFINE p == MaxDepth * recordRaises
  <2>1. p \in Int
    BY LockTyped
  <2>2. readers <= Len(calls) + p
    BY <1>2
  <2> HIDE DEF p
  <2>3. /\ Len(calls') <= readers' /\ readers' <= Len(calls') + p
        /\ readers' = Len(calls') => recordRaises = 0
        /\ recordRaises = 0 => readers' = Len(calls')
    BY <1>1, <1>2, <1>4, <2>1, <2>2, LockTyped
  <2> QED
    BY <1>1, <2>3 DEF Zlog!LocksCounted, p
<1>6. Zlog!TypeOK' /\ Zlog!CallsTyped'
  <2>1. recordRaises' \in 0..MaxRaises
    BY <1>1 DEF Zlog!LockInv, Zlog!TypeOK
  <2> DEFINE n == Len(calls) - 1
  <2>2. n \in 0..Len(calls) /\ calls' = SubSeq(calls, 1, n)
    BY <1>1, <1>3
  <2> HIDE DEF n
  <2> QED
    BY <1>1, <1>3, <1>5, <2>1, <2>2, CallsEnd
<1>7. Zlog!LockIsHeld'
  <2>1. calls' # <<>> <=> Len(calls') > 0
    <3>1. calls' \in Seq(Calls)
      BY <1>6 DEF Zlog!CallsTyped, Calls
    <3> QED
      BY <3>1
  <2>2. readers' > 0 <=> Len(calls') > 0 \/ recordRaises > 0
    <3>1. /\ Len(calls) <= readers /\ Len(calls) >= 1 /\ (readers = Len(calls) <=> recordRaises = 0)
          /\ Len(calls) \in Nat /\ readers \in Nat /\ recordRaises \in Nat
      BY <1>1, <1>2, LockTyped
    <3> QED
      BY <1>1, <1>4, <3>1
  <2> QED
    BY <1>1, <2>1, <2>2 DEF Zlog!LockIsHeld
<1> QED
  BY <1>5, <1>6, <1>7 DEF Zlog!LockInv

(* An error ends functions and leaves the lock, or it ends the process. *)
LEMMA RaisesLock ==
  ASSUME Zlog!LockInv, NEW n \in 1..MaxDepth, Zlog!Raises(n)
  PROVE  Zlog!LockInv'
<1>1. /\ zlogStatus = "runs" /\ n \in 1..Len(calls) /\ recordRaises < MaxRaises
      /\ recordRaises' = recordRaises + 1 /\ readers' = readers
      /\ loaded' = loaded /\ record' = record /\ records' = records /\ latest' = latest
      /\ \/ zlogStatus' = zlogStatus /\ calls' = SubSeq(calls, 1, Len(calls) - n)
         \/ zlogStatus' = "panicked" /\ calls' = calls
  BY DEF Zlog!Raises, Zlog!LocksLeft
<1>2. /\ Len(calls) <= readers /\ readers <= Len(calls) + MaxDepth * recordRaises
  BY DEF Zlog!LockInv, Zlog!LocksCounted
<1>3. readers' > 0 /\ recordRaises' > 0 /\ recordRaises' \in 0..MaxRaises /\ recordRaises' \in Nat
  BY <1>1, <1>2, LockTyped
<1>4. Zlog!LockIsHeld'
  BY <1>3 DEF Zlog!LockIsHeld
<1>5. CASE zlogStatus' = zlogStatus /\ calls' = SubSeq(calls, 1, Len(calls) - n)
  <2>1. Len(calls) - n \in 0..Len(calls) /\ Len(calls) - n \in Nat /\ n \in Nat /\ n <= MaxDepth
    BY <1>1, LockTyped
  <2>2. Len(calls') = Len(calls) - n
    BY <1>5, <2>1, LockTyped, Beginning
  <2>3. readers <= (Len(calls) - n) + MaxDepth * (recordRaises + 1)
    <3> DEFINE m == Len(calls) - n
    <3>1. m \in Nat /\ m + n = Len(calls)
      BY <1>1, LockTyped
    <3>2. readers <= (m + n) + MaxDepth * recordRaises
      BY <1>2, <3>1
    <3> HIDE DEF m
    <3>3. readers <= m + MaxDepth * (recordRaises + 1)
      BY <2>1, <3>1, <3>2, LockTyped, ErrorBound
    <3> QED
      BY <3>3 DEF m
  <2>4. Zlog!LocksCounted'
    <3>1. Len(calls') < readers' /\ readers' <= Len(calls') + MaxDepth * recordRaises'
      <4>1. Len(calls) - n < readers
        BY <1>1, <1>2, <2>1, LockTyped
      <4> QED
        BY <1>1, <2>2, <2>3, <4>1
    <3>2. zlogStatus' # "panicked" /\ recordRaises' # 0 /\ Len(calls') <= readers' /\ readers' # Len(calls')
      BY <1>1, <1>3, <1>5, <2>1, <2>2, <3>1, LockTyped, SMTT(30)
    <3> QED
      BY <3>1, <3>2 DEF Zlog!LocksCounted
  <2>5. Zlog!TypeOK' /\ Zlog!CallsTyped'
    BY <1>1, <1>3, <1>5, <2>1, <2>4, LockTyped, CallsEnd
  <2> QED
    BY <1>4, <2>4, <2>5 DEF Zlog!LockInv
<1>6. CASE zlogStatus' = "panicked" /\ calls' = calls
  <2>1. Zlog!Range(calls)' = Zlog!Range(calls)
    BY <1>6 DEF Zlog!Range
  <2>2. Zlog!TypeOK'
    BY <1>1, <1>3, <1>6, <2>1 DEF Zlog!LockInv, Zlog!TypeOK
  <2>3. Zlog!CallsTyped'
    BY <1>6 DEF Zlog!LockInv, Zlog!CallsTyped
  <2>4. Zlog!LocksCounted'
    <3>1. calls # <<>>
      BY <1>1
    <3>2. readers <= Len(calls) + MaxDepth * (recordRaises + 1)
      <4>1. 0 \in Nat /\ 0 <= MaxDepth /\ readers <= (Len(calls) + 0) + MaxDepth * recordRaises
        BY <1>2, LockTyped
      <4> QED
        BY <4>1, LockTyped, ErrorBound
    <3>3. readers' <= Len(calls') + MaxDepth * recordRaises' /\ Len(calls') <= readers'
      BY <1>1, <1>2, <1>6, <3>2
    <3>4. recordRaises' # 0
      BY <1>3
    <3> QED
      BY <1>6, <3>1, <3>3, <3>4 DEF Zlog!LocksCounted
  <2> QED
    BY <1>4, <2>2, <2>3, <2>4 DEF Zlog!LockInv
<1> QED
  BY <1>1, <1>5, <1>6


(* At the beginning nothing was loaded, set or called. *)
LEMMA ZlogInit ==
  ASSUME Zlog!Init
  PROVE  Zlog!IInv
<1>1. /\ zlogStatus = "runs" /\ loaded = {} /\ record = [i \in 1..Slots |-> Zlog!Free]
      /\ records = [r \in Records |-> 0] /\ calls = <<>> /\ readers = 0
      /\ recordRaises = 0 /\ latest = [r \in Records |-> Zlog!NotSet]
  BY DEF Zlog!Init
<1>2. MaxDepth \in Nat /\ MaxRaises \in Nat /\ Slots \in Nat \ {0}
  BY PartsAssumptions DEF Zlog!ZlogAssumption
<1>3. Zlog!Range(calls) = {} /\ calls \in Seq(Calls) /\ Len(calls) = 0
  BY <1>1 DEF Zlog!Range
<1>4. Zlog!TypeOK
  <2>1. readers \in 0 .. MaxDepth * (MaxRaises + 1)
    <3>1. MaxDepth * 0 = 0 /\ 0 <= 0 + MaxDepth * 0
      BY <1>2
    <3> QED
      BY <1>1, <1>2, <3>1, LockBound
  <2> QED
    BY <1>1, <1>2, <1>3, <2>1 DEF Zlog!TypeOK
<1>5. Zlog!CallsTyped
  BY <1>2, <1>3 DEF Zlog!CallsTyped, Calls
<1>6. Zlog!LocksCounted
  <2>1. MaxDepth * recordRaises = 0
    BY <1>1, <1>2
  <2> QED
    BY <1>1, <1>3, <2>1 DEF Zlog!LocksCounted
<1>7. Zlog!LockIsHeld /\ Zlog!SlotOfName
  BY <1>1 DEF Zlog!LockIsHeld, Zlog!SlotOfName
<1>8. Zlog!RunsLatest
  BY <1>3 DEF Zlog!RunsLatest
<1> QED
  BY <1>4, <1>5, <1>6, <1>7, <1>8 DEF Zlog!IInv, Zlog!LockInv

(* Every action keeps the account of the lock. *)
LEMMA LockNextInv ==
  ASSUME Zlog!LockInv, Zlog!Next
  PROVE  Zlog!LockInv'
<1>1. ASSUME NEW L \in States, Zlog!Load(L) PROVE Zlog!LockInv'
  BY <1>1, LoadLock
<1>2. ASSUME NEW L \in States, Zlog!Reload(L) PROVE Zlog!LockInv'
  BY <1>2, ReloadLock
<1>3. ASSUME NEW L \in States, NEW r \in Records, Zlog!Log(L, r) PROVE Zlog!LockInv'
  BY <1>3, LogLock
<1>4. ASSUME NEW L \in States, NEW r \in Records, NEW f \in Functions, Zlog!SetRecord(L, r, f) PROVE Zlog!LockInv'
  BY <1>4, SetRecordLock
<1>5. CASE Zlog!Returns
  BY <1>5, ReturnsLock
<1>6. ASSUME NEW n \in 1..MaxDepth, Zlog!Raises(n) PROVE Zlog!LockInv'
  BY <1>6, RaisesLock
<1> QED
  BY <1>1, <1>2, <1>3, <1>4, <1>5, <1>6 DEF Zlog!Next

(* The parts of ZlogRecords are operators of its variables alone. *)
LEMMA ZlogStutter ==
  ASSUME UNCHANGED zlogVars
  PROVE  /\ Zlog!LockInv => Zlog!LockInv'
         /\ Zlog!IInv => Zlog!IInv'
<1>1. /\ zlogStatus' = zlogStatus /\ loaded' = loaded /\ record' = record /\ records' = records
      /\ calls' = calls /\ readers' = readers /\ recordRaises' = recordRaises /\ latest' = latest
  BY DEF zlogVars
<1>2. Zlog!Range(calls)' = Zlog!Range(calls)
  BY <1>1 DEF Zlog!Range
<1>3. Zlog!TypeOK => Zlog!TypeOK'
  BY <1>1, <1>2 DEF Zlog!TypeOK
<1>4. Zlog!LockInv => Zlog!LockInv'
  BY <1>1, <1>3 DEF Zlog!LockInv, Zlog!CallsTyped, Zlog!LocksCounted, Zlog!LockIsHeld
<1>5. Zlog!SlotOfName => Zlog!SlotOfName'
  BY <1>1 DEF Zlog!SlotOfName
<1>6. Zlog!RunsLatest => Zlog!RunsLatest'
  BY <1>1, <1>2 DEF Zlog!RunsLatest
<1> QED
  BY <1>4, <1>5, <1>6 DEF Zlog!IInv

(* The lock of lzlog.c, for every number of states, records and slots: it is *)
(* held while a record function runs and for ever after one has raised an   *)
(* error, and at no other time, so that zlog.reload() and zlog.set_record() *)
(* wait for themselves in these two cases only.                            *)
THEOREM LockCorrect == PartsSpec => [](part = "zlog" => Zlog!TypeOK /\ Zlog!LockIsHeld)
<1> DEFINE I == part = "zlog" => Zlog!LockInv
<1>1. PartsInit => I
  BY ZlogInit DEF PartsInit, Zlog!IInv
<1>2. I /\ [PartsNext]_partsVars => I'
  <2> SUFFICES ASSUME I, [PartsNext]_partsVars, part' = "zlog"
               PROVE  Zlog!LockInv'
    OBVIOUS
  <2>1. CASE Only("zlog") /\ Zlog!Next /\ UNCHANGED <<framesVars, otlVars, xmlVars, pyVars>>
    BY <2>1, LockNextInv DEF Only
  <2>2. CASE Only("frames") /\ Frames!Next /\ UNCHANGED <<zlogVars, otlVars, xmlVars, pyVars>>
    BY <2>2 DEF Only
  <2>3. CASE Only("otl") /\ Otl!Next /\ UNCHANGED <<zlogVars, framesVars, xmlVars, pyVars>>
    BY <2>3 DEF Only
  <2>4. CASE UNCHANGED partsVars
    BY <2>4, ZlogStutter DEF partsVars
  <2>5. CASE Only("xml") /\ Xml!Next /\ UNCHANGED <<zlogVars, framesVars, otlVars, pyVars>>
    BY <2>5 DEF Only
  <2>6. CASE Only("python") /\ Py!Next /\ UNCHANGED <<zlogVars, framesVars, otlVars, xmlVars>>
    BY <2>6 DEF Only
  <2> QED
    BY <2>1, <2>2, <2>3, <2>4, <2>5, <2>6 DEF PartsNext
<1>3. I => (part = "zlog" => Zlog!TypeOK /\ Zlog!LockIsHeld)
  BY DEF Zlog!LockInv
<1> QED
  BY <1>1, <1>2, <1>3, PTL DEF PartsSpec

(* With one state, every action keeps zlog's table and the slots together,  *)
(* and a call goes to the function that was set last.                      *)
LEMMA LoadLatest ==
  ASSUME Zlog!OneState, Zlog!IInv, NEW L \in States, Zlog!Load(L)
  PROVE  Zlog!SlotOfName' /\ Zlog!RunsLatest'
<1>1. /\ L \notin loaded /\ loaded' = loaded \cup {L}
      /\ records' = records /\ calls' = calls /\ latest' = latest
  BY DEF Zlog!Load
<1>2. loaded = {}
  BY <1>1 DEF Zlog!OneState, Zlog!IInv, Zlog!LockInv, Zlog!TypeOK
<1>3. \A r \in Records : records'[r] = 0
  BY <1>1, <1>2 DEF Zlog!IInv, Zlog!SlotOfName
<1>4. Zlog!SlotOfName'
  BY <1>1, <1>3 DEF Zlog!SlotOfName
<1>5. Zlog!Range(calls)' = Zlog!Range(calls)
  BY <1>1 DEF Zlog!Range
<1> QED
  BY <1>1, <1>4, <1>5 DEF Zlog!IInv, Zlog!RunsLatest

(* A record that is set gets a slot of its own. *)
LEMMA SetRecordLatest ==
  ASSUME Zlog!IInv, NEW L \in States, NEW r \in Records, NEW f \in Functions, Zlog!SetRecord(L, r, f)
  PROVE  Zlog!SlotOfName' /\ Zlog!RunsLatest'
<1>1. L \in loaded /\ loaded' = loaded /\ calls' = calls
  BY DEF Zlog!SetRecord, Zlog!Running
<1>2. Zlog!Range(calls)' = Zlog!Range(calls)
  BY <1>1 DEF Zlog!Range
<1>3. Zlog!LockInv
  BY DEF Zlog!IInv
<1>4. CASE record' = record /\ records' = records /\ latest' = latest
  BY <1>1, <1>2, <1>4 DEF Zlog!IInv, Zlog!SlotOfName, Zlog!RunsLatest
<1>5. CASE /\ calls = <<>>
           /\ \E i \in 1..Slots :
                /\ ~record[i].in_used /\ record' = [record EXCEPT ![i] = Zlog!Used(L, r, f)]
                /\ records' = [records EXCEPT ![r] = i] /\ latest' = [latest EXCEPT ![r] = f]
  <2>1. PICK i \in 1..Slots :
          /\ ~record[i].in_used /\ record' = [record EXCEPT ![i] = Zlog!Used(L, r, f)]
          /\ records' = [records EXCEPT ![r] = i] /\ latest' = [latest EXCEPT ![r] = f]
    BY <1>5
  <2>2. /\ record'[i] = Zlog!Used(L, r, f)
        /\ \A j \in 1..Slots : j # i => record'[j] = record[j]
    BY <1>1, <1>3, <2>1, SlotSet DEF Zlog!LockInv
  <2>3. /\ records'[r] = i /\ latest'[r] = f
        /\ \A s \in Records : s # r => records'[s] = records[s] /\ latest'[s] = latest[s]
        /\ \A s \in Records : records[s] \in 0..Slots
    BY <1>3, <2>1 DEF Zlog!LockInv, Zlog!TypeOK
  <2>4. ASSUME NEW s \in Records, records'[s] # 0
        PROVE  record'[records'[s]].in_used /\ record'[records'[s]].rname = s /\ record'[records'[s]].fn = latest'[s]
    <3>1. CASE s = r
      BY <2>2, <2>3, <3>1 DEF Zlog!Used
    <3>2. CASE s # r
      <4>1. records'[s] = records[s] /\ latest'[s] = latest[s] /\ records[s] \in 1..Slots
        BY <2>3, <2>4, <3>2, LockTyped, <1>3
      <4>2. /\ record[records[s]].in_used /\ record[records[s]].rname = s /\ record[records[s]].fn = latest[s]
        BY <2>4, <4>1 DEF Zlog!IInv, Zlog!SlotOfName
      <4>3. records[s] # i
        BY <2>1, <4>2
      <4> QED
        BY <2>2, <4>1, <4>2, <4>3
    <3> QED
      BY <3>1, <3>2
  <2>5. Zlog!SlotOfName'
    BY <1>1, <2>4 DEF Zlog!SlotOfName
  <2>6. Zlog!Range(calls) = {}
    BY <1>5 DEF Zlog!Range
  <2> QED
    BY <1>2, <2>5, <2>6 DEF Zlog!RunsLatest
<1> QED
  BY <1>3, <1>4, <1>5, SetRecordIs

(* A message goes to the function that was set last for its record. *)
LEMMA LogLatest ==
  ASSUME Zlog!IInv, NEW L \in States, NEW r \in Records, Zlog!Log(L, r)
  PROVE  Zlog!SlotOfName' /\ Zlog!RunsLatest'
<1>1. Zlog!LockInv
  BY DEF Zlog!IInv
<1>2. /\ L \in loaded /\ records[r] \in 1..Slots
      /\ loaded' = loaded /\ record' = record /\ records' = records /\ latest' = latest
  BY <1>1, LogIs
<1>3. Zlog!SlotOfName'
  BY <1>2 DEF Zlog!IInv, Zlog!SlotOfName
<1>4. CASE calls' = calls
  <2>1. Zlog!Range(calls)' = Zlog!Range(calls)
    BY <1>4 DEF Zlog!Range
  <2> QED
    BY <1>2, <1>3, <2>1 DEF Zlog!IInv, Zlog!RunsLatest
<1>5. CASE calls' = Append(calls, Zlog!Call(L, r)) /\ Zlog!Call(L, r) \in Calls
  <2>1. Zlog!Range(calls') = Zlog!Range(calls) \cup {Zlog!Call(L, r)}
    BY <1>1, <1>5, LockTyped, CallsAppended
  <2>2. Zlog!Call(L, r).rname = r /\ Zlog!Call(L, r).run = record[records[r]]
    BY DEF Zlog!Call
  <2>3. records[r] # 0
    BY <1>1, <1>2, LockTyped
  <2>4. record[records[r]].rname = r /\ record[records[r]].fn = latest[r]
    BY <2>3 DEF Zlog!IInv, Zlog!SlotOfName
  <2>5. \A k \in Zlog!Range(calls) : k.run.rname = k.rname /\ k.run.fn = latest[k.rname]
    BY DEF Zlog!IInv, Zlog!RunsLatest
  <2>6. Zlog!Call(L, r).run.rname = r /\ Zlog!Call(L, r).run.fn = latest[r]
    BY <2>2, <2>4
  <2> HIDE DEF Zlog!Call
  <2>7. \A k \in Zlog!Range(calls') : k.run.rname = k.rname /\ k.run.fn = latest[k.rname]
    BY <2>1, <2>2, <2>5, <2>6
  <2>8. Zlog!Range(calls)' = Zlog!Range(calls')
    BY DEF Zlog!Range
  <2> QED
    BY <1>2, <1>3, <2>7, <2>8 DEF Zlog!RunsLatest
<1> QED
  BY <1>1, <1>4, <1>5, LogIs

(* Functions end, and the others go on as they were called. *)
LEMMA EndLatest ==
  ASSUME Zlog!IInv, NEW n \in 0..Len(calls), calls' = calls \/ calls' = SubSeq(calls, 1, n),
         loaded' = loaded, record' = record, records' = records, latest' = latest
  PROVE  Zlog!SlotOfName' /\ Zlog!RunsLatest'
<1>1. Zlog!SlotOfName'
  BY DEF Zlog!IInv, Zlog!SlotOfName
<1>2. Zlog!Range(calls') \subseteq Zlog!Range(calls)
  BY LockTyped, Beginning DEF Zlog!IInv
<1>3. Zlog!Range(calls)' = Zlog!Range(calls')
  BY DEF Zlog!Range
<1>4. \A k \in Zlog!Range(calls) : k.run.rname = k.rname /\ k.run.fn = latest[k.rname]
  BY DEF Zlog!IInv, Zlog!RunsLatest
<1>5. Zlog!RunsLatest'
  BY <1>2, <1>3, <1>4 DEF Zlog!RunsLatest
<1> QED
  BY <1>1, <1>5

(* Every action keeps the invariant of the record functions. *)
LEMMA ZlogNextInv ==
  ASSUME Zlog!OneState, Zlog!IInv, Zlog!Next
  PROVE  Zlog!IInv'
<1>1. Zlog!LockInv /\ Zlog!LockInv'
  BY LockNextInv DEF Zlog!IInv
<1>2. ASSUME NEW L \in States, Zlog!Load(L) PROVE Zlog!SlotOfName' /\ Zlog!RunsLatest'
  BY <1>2, LoadLatest
<1>3. ASSUME NEW L \in States, Zlog!Reload(L) PROVE Zlog!SlotOfName' /\ Zlog!RunsLatest'
  <2>1. loaded' = loaded /\ record' = record /\ records' = records /\ latest' = latest /\ calls' = calls
    BY <1>3 DEF Zlog!Reload
  <2>2. Len(calls) \in 0..Len(calls)
    BY <1>1, LockTyped
  <2> QED
    BY <2>1, <2>2, EndLatest
<1>4. ASSUME NEW L \in States, NEW r \in Records, Zlog!Log(L, r) PROVE Zlog!SlotOfName' /\ Zlog!RunsLatest'
  BY <1>4, LogLatest
<1>5. ASSUME NEW L \in States, NEW r \in Records, NEW f \in Functions, Zlog!SetRecord(L, r, f)
      PROVE  Zlog!SlotOfName' /\ Zlog!RunsLatest'
  BY <1>5, SetRecordLatest
<1>6. ASSUME Zlog!Returns PROVE Zlog!SlotOfName' /\ Zlog!RunsLatest'
  <2>1. /\ calls # <<>> /\ calls' = SubSeq(calls, 1, Len(calls) - 1)
        /\ loaded' = loaded /\ record' = record /\ records' = records /\ latest' = latest
    BY <1>6 DEF Zlog!Returns, Zlog!Front
  <2>2. Len(calls) - 1 \in 0..Len(calls)
    BY <1>1, <2>1, LockTyped
  <2> QED
    BY <2>1, <2>2, EndLatest
<1>7. ASSUME NEW n \in 1..MaxDepth, Zlog!Raises(n) PROVE Zlog!SlotOfName' /\ Zlog!RunsLatest'
  <2>1. /\ n \in 1..Len(calls) /\ (calls' = calls \/ calls' = SubSeq(calls, 1, Len(calls) - n))
        /\ loaded' = loaded /\ record' = record /\ records' = records /\ latest' = latest
    BY <1>7 DEF Zlog!Raises
  <2>2. Len(calls) - n \in 0..Len(calls)
    BY <1>1, <2>1, LockTyped
  <2> QED
    BY <2>1, <2>2, EndLatest
<1>8. Zlog!SlotOfName' /\ Zlog!RunsLatest'
  BY <1>2, <1>3, <1>4, <1>5, <1>6, <1>7 DEF Zlog!Next
<1> QED
  BY <1>1, <1>8 DEF Zlog!IInv

(* The record functions of lzlog.c in a process with one Lua state, for any  *)
(* number of records and slots, and of calls and errors inside one another: *)
(* a message goes to the function that was set for the record of its rule.  *)
THEOREM ZlogCorrect == Zlog!OneState => (PartsSpec => []ZlogSafety)
<1> SUFFICES ASSUME Zlog!OneState
             PROVE  PartsSpec => []ZlogSafety
  OBVIOUS
<1> DEFINE I == part = "zlog" => Zlog!IInv
<1>1. PartsInit => I
  BY ZlogInit DEF PartsInit
<1>2. I /\ [PartsNext]_partsVars => I'
  <2> SUFFICES ASSUME I, [PartsNext]_partsVars, part' = "zlog"
               PROVE  Zlog!IInv'
    OBVIOUS
  <2>1. CASE Only("zlog") /\ Zlog!Next /\ UNCHANGED <<framesVars, otlVars, xmlVars, pyVars>>
    BY <2>1, ZlogNextInv DEF Only
  <2>2. CASE Only("frames") /\ Frames!Next /\ UNCHANGED <<zlogVars, otlVars, xmlVars, pyVars>>
    BY <2>2 DEF Only
  <2>3. CASE Only("otl") /\ Otl!Next /\ UNCHANGED <<zlogVars, framesVars, xmlVars, pyVars>>
    BY <2>3 DEF Only
  <2>4. CASE UNCHANGED partsVars
    BY <2>4, ZlogStutter DEF partsVars
  <2>5. CASE Only("xml") /\ Xml!Next /\ UNCHANGED <<zlogVars, framesVars, otlVars, pyVars>>
    BY <2>5 DEF Only
  <2>6. CASE Only("python") /\ Py!Next /\ UNCHANGED <<zlogVars, framesVars, otlVars, xmlVars>>
    BY <2>6 DEF Only
  <2> QED
    BY <2>1, <2>2, <2>3, <2>4, <2>5, <2>6 DEF PartsNext
<1>3. I => ZlogSafety
  BY DEF ZlogSafety, Zlog!IInv, Zlog!LockInv, Zlog!Safety
<1> QED
  BY <1>1, <1>2, <1>3, PTL DEF PartsSpec

-----------------------------------------------------------------------------
(* XML documents: lists of nodes. *)

(* What a list is without the node at a place. *)
LEMMA NodeRemoved ==
  ASSUME NEW S, NEW s \in Seq(S), NEW i \in 1..Len(s)
  PROVE  /\ Xml!RemoveAt(s, i) \in Seq(S) /\ Len(Xml!RemoveAt(s, i)) = Len(s) - 1
         /\ \A j \in 1 .. Len(s) - 1 : Xml!RemoveAt(s, i)[j] = IF j < i THEN s[j] ELSE s[j + 1]
<1>1. Xml!RemoveAt(s, i) = Frames!RemoveAt(s, i)
  BY DEF Xml!RemoveAt, Frames!RemoveAt
<1> QED
  BY <1>1, Removed

(* The members of r are those of s, with e behind the first k. *)
HasBehind(r, s, k, e) ==
  \A j \in 1 .. Len(s) + 1 : r[j] = IF j <= k THEN s[j] ELSE IF j = k + 1 THEN e ELSE s[j - 1]

(* What a list is with a node behind its first ones. *)
LEMMA NodeInserted ==
  ASSUME NEW S, NEW s \in Seq(S), NEW k \in 0..Len(s), NEW e \in S
  PROVE  /\ Xml!InsertAt(s, k + 1, e) \in Seq(S) /\ Len(Xml!InsertAt(s, k + 1, e)) = Len(s) + 1
         /\ HasBehind(Xml!InsertAt(s, k + 1, e), s, k, e)
<1>1. Len(s) \in Nat /\ k \in Nat /\ k <= Len(s)
  OBVIOUS
<1> DEFINE a == SubSeq(s, 1, k)
           b == SubSeq(s, k + 1, Len(s))
<1>2. /\ a \in Seq(S) /\ Len(a) = k /\ \A j \in 1 .. k : a[j] = s[j]
  <2>1. \A j \in 1 .. k : s[j] \in S
    BY <1>1
  <2>2. a = [j \in 1 .. k |-> s[j]]
    BY <1>1
  <2> QED
    BY <1>1, <2>1, <2>2
<1>3. /\ b \in Seq(S) /\ Len(b) = Len(s) - k /\ \A j \in 1 .. Len(s) - k : b[j] = s[k + j]
  <2>1. \A j \in k + 1 .. Len(s) : s[j] \in S
    BY <1>1
  <2> QED
    BY <1>1, <2>1
<1>4. Xml!InsertAt(s, k + 1, e) = a \o <<e>> \o b
  <2>1. (k + 1) - 1 = k
    BY <1>1
  <2>2. SubSeq(s, 1, (k + 1) - 1) = a
    BY <2>1
  <2>3. Xml!InsertAt(s, k + 1, e) = SubSeq(s, 1, (k + 1) - 1) \o <<e>> \o SubSeq(s, k + 1, Len(s))
    BY Zenon DEF Xml!InsertAt
  <2> QED
    BY <2>2, <2>3, Zenon
<1> HIDE DEF a, b
<1> DEFINE c == a \o <<e>>
<1>5. c \in Seq(S) /\ Len(c) = k + 1 /\ c[k + 1] = e /\ \A j \in 1 .. k : c[j] = s[j]
  <2>1. c = Append(a, e)
    BY <1>2
  <2> HIDE DEF c
  <2> QED
    BY <1>1, <1>2, <2>1
<1> HIDE DEF c
<1>6. c \o b \in Seq(S) /\ Len(c \o b) = Len(s) + 1
  <2>1. c \o b \in Seq(S) /\ Len(c \o b) = Len(c) + Len(b)
    BY <1>5, <1>3, ConcatProperties
  <2> QED
    BY <1>1, <1>5, <1>3, <2>1
<1>7. ASSUME NEW j \in 1 .. Len(s) + 1
      PROVE  (c \o b)[j] = IF j <= k THEN s[j] ELSE IF j = k + 1 THEN e ELSE s[j - 1]
  <2>1. CASE j <= k + 1
    BY <1>1, <1>5, <1>3, <2>1
  <2>2. CASE ~(j <= k + 1)
    <3>1. (c \o b)[j] = b[j - (k + 1)]
      BY <1>1, <1>5, <1>3, <2>2
    <3>2. j - (k + 1) \in 1 .. Len(s) - k /\ k + (j - (k + 1)) = j - 1
      BY <1>1, <2>2
    <3> QED
      BY <1>1, <1>3, <2>2, <3>1, <3>2
  <2> QED
    BY <2>1, <2>2
<1>8. Xml!InsertAt(s, k + 1, e) = c \o b
  BY <1>4 DEF c
<1> DEFINE r == c \o b
<1>9. r = Xml!InsertAt(s, k + 1, e)
  BY <1>8
<1>10. r \in Seq(S) /\ Len(r) = Len(s) + 1
  BY <1>6
<1>11. HasBehind(r, s, k, e)
  BY <1>7 DEF HasBehind
<1> HIDE DEF r
<1> QED
  BY <1>9, <1>10, <1>11

(* Every node of a list has one place in it. *)
OnceIn(list) == \A i, j \in DOMAIN list : list[i] = list[j] => i = j

(* The order of the others stays when a node is removed. *)
LEMMA OrderWithout ==
  ASSUME NEW S, NEW s \in Seq(S), OnceIn(s), NEW i \in 1..Len(s)
  PROVE  /\ OnceIn(Xml!RemoveAt(s, i))
         /\ Xml!Range(Xml!RemoveAt(s, i)) = Xml!Range(s) \ {s[i]}
         /\ \A a, b : Xml!Before(Xml!RemoveAt(s, i), a, b) => Xml!Before(s, a, b)
<1> DEFINE r == Xml!RemoveAt(s, i)
<1>1. /\ r \in Seq(S) /\ Len(r) = Len(s) - 1 /\ Len(s) \in Nat /\ DOMAIN r = 1 .. Len(s) - 1 /\ DOMAIN s = 1..Len(s)
      /\ \A j \in 1 .. Len(s) - 1 : r[j] = IF j < i THEN s[j] ELSE s[j + 1]
  BY NodeRemoved
<1> DEFINE From(j) == IF j < i THEN j ELSE j + 1
<1>2. ASSUME NEW j \in DOMAIN r
      PROVE  From(j) \in DOMAIN s /\ r[j] = s[From(j)] /\ From(j) # i
  BY <1>1
<1>3. \A j, k \in DOMAIN r : (j < k => From(j) < From(k)) /\ (From(j) = From(k) => j = k)
  BY <1>1
<1>4. ASSUME NEW k \in DOMAIN s, k # i
      PROVE  \E j \in DOMAIN r : From(j) = k
  <2>1. CASE k < i
    <3>1. k \in DOMAIN r /\ From(k) = k
      BY <1>1, <2>1
    <3> QED
      BY <3>1
  <2>2. CASE k > i
    <3>1. k - 1 \in DOMAIN r /\ From(k - 1) = k
      BY <1>1, <2>2
    <3> QED
      BY <3>1
  <2> QED
    BY <1>1, <1>4, <2>1, <2>2
<1> HIDE DEF r, From
<1>5. OnceIn(r)
  BY <1>2, <1>3 DEF OnceIn
<1>6. Xml!Range(r) = Xml!Range(s) \ {s[i]}
  <2>1. ASSUME NEW x \in Xml!Range(r) PROVE x \in Xml!Range(s) \ {s[i]}
    BY <1>1, <1>2 DEF Xml!Range, OnceIn
  <2>2. ASSUME NEW x \in Xml!Range(s) \ {s[i]} PROVE x \in Xml!Range(r)
    <3>1. PICK k \in DOMAIN s : x = s[k]
      BY DEF Xml!Range
    <3>2. PICK j \in DOMAIN r : From(j) = k
      BY <1>4, <2>2, <3>1
    <3> QED
      BY <1>2, <3>1, <3>2 DEF Xml!Range
  <2> QED
    BY <2>1, <2>2
<1>7. ASSUME NEW a, NEW b, Xml!Before(r, a, b) PROVE Xml!Before(s, a, b)
  <2>1. PICK j, k \in DOMAIN r : j < k /\ r[j] = a /\ r[k] = b
    BY <1>7 DEF Xml!Before
  <2>2. From(j) \in DOMAIN s /\ From(k) \in DOMAIN s /\ From(j) < From(k) /\ s[From(j)] = a /\ s[From(k)] = b
    BY <1>2, <1>3, <2>1
  <2> QED
    BY <2>2 DEF Xml!Before
<1> QED
  BY <1>5, <1>6, <1>7 DEF r

(* The order of the others stays when a node is added. *)
LEMMA OrderWith ==
  ASSUME NEW S, NEW s \in Seq(S), OnceIn(s), NEW e \in S, e \notin Xml!Range(s), NEW n \in 0..Len(s)
  PROVE  /\ OnceIn(Xml!InsertAt(s, n + 1, e))
         /\ Xml!Range(Xml!InsertAt(s, n + 1, e)) = Xml!Range(s) \cup {e}
         /\ \A a, b : a # e /\ b # e /\ Xml!Before(Xml!InsertAt(s, n + 1, e), a, b) => Xml!Before(s, a, b)
<1> DEFINE r == Xml!InsertAt(s, n + 1, e)
<1>1. /\ r \in Seq(S) /\ Len(r) = Len(s) + 1 /\ Len(s) \in Nat /\ DOMAIN r = 1 .. Len(s) + 1 /\ DOMAIN s = 1..Len(s)
      /\ \A j \in 1 .. Len(s) + 1 : r[j] = IF j <= n THEN s[j] ELSE IF j = n + 1 THEN e ELSE s[j - 1]
  <2>1. r \in Seq(S) /\ Len(r) = Len(s) + 1 /\ HasBehind(r, s, n, e)
    BY NodeInserted
  <2> HIDE DEF r
  <2> QED
    BY <2>1 DEF HasBehind
<1> DEFINE From(j) == IF j <= n THEN j ELSE j - 1
<1>2. r[n + 1] = e /\ n + 1 \in DOMAIN r
  BY <1>1
<1>3. ASSUME NEW j \in DOMAIN r, j # n + 1
      PROVE  From(j) \in DOMAIN s /\ r[j] = s[From(j)] /\ r[j] # e
  <2>1. From(j) \in DOMAIN s /\ r[j] = s[From(j)]
    BY <1>1, <1>3
  <2> QED
    BY <2>1 DEF Xml!Range
<1>4. \A j, k \in DOMAIN r : j # n + 1 /\ k # n + 1 =>
        (j < k => From(j) < From(k)) /\ (From(j) = From(k) => j = k)
  BY <1>1
<1>5. ASSUME NEW k \in DOMAIN s
      PROVE  \E j \in DOMAIN r : j # n + 1 /\ From(j) = k
  <2>1. CASE k <= n
    <3>1. k \in DOMAIN r /\ From(k) = k /\ k # n + 1
      BY <1>1, <2>1
    <3> QED
      BY <3>1
  <2>2. CASE k > n
    <3>1. k + 1 \in DOMAIN r /\ From(k + 1) = k /\ k + 1 # n + 1
      BY <1>1, <2>2
    <3> QED
      BY <3>1
  <2> QED
    BY <1>1, <2>1, <2>2
<1> HIDE DEF r, From
<1>6. OnceIn(r)
  <2> SUFFICES ASSUME NEW j \in DOMAIN r, NEW k \in DOMAIN r, r[j] = r[k] PROVE j = k
    BY DEF OnceIn
  <2>1. CASE j = n + 1 \/ k = n + 1
    BY <1>2, <1>3, <2>1
  <2>2. CASE j # n + 1 /\ k # n + 1
    BY <1>3, <1>4, <2>2 DEF OnceIn
  <2> QED
    BY <2>1, <2>2
<1>7. Xml!Range(r) = Xml!Range(s) \cup {e}
  <2>1. ASSUME NEW x \in Xml!Range(r) PROVE x \in Xml!Range(s) \cup {e}
    BY <1>2, <1>3 DEF Xml!Range
  <2>2. ASSUME NEW x \in Xml!Range(s) PROVE x \in Xml!Range(r)
    <3>1. PICK k \in DOMAIN s : x = s[k]
      BY DEF Xml!Range
    <3>2. PICK j \in DOMAIN r : j # n + 1 /\ From(j) = k
      BY <1>5, <3>1
    <3> QED
      BY <1>3, <3>1, <3>2 DEF Xml!Range
  <2>3. e \in Xml!Range(r)
    BY <1>2 DEF Xml!Range
  <2> QED
    BY <2>1, <2>2, <2>3
<1>8. ASSUME NEW a, NEW b, a # e, b # e, Xml!Before(r, a, b) PROVE Xml!Before(s, a, b)
  <2>1. PICK j, k \in DOMAIN r : j < k /\ r[j] = a /\ r[k] = b
    BY <1>8 DEF Xml!Before
  <2>2. j # n + 1 /\ k # n + 1
    BY <1>2, <1>8, <2>1
  <2>3. From(j) \in DOMAIN s /\ From(k) \in DOMAIN s /\ From(j) < From(k) /\ s[From(j)] = a /\ s[From(k)] = b
    BY <1>3, <1>4, <2>1, <2>2
  <2> QED
    BY <2>3 DEF Xml!Before
<1> QED
  BY <1>6, <1>7, <1>8 DEF r

(* Of two nodes in a list one is before the other, and not the other way. *)
LEMMA OneBefore ==
  ASSUME NEW S, NEW s \in Seq(S), OnceIn(s)
  PROVE  /\ \A a, b \in Xml!Range(s) : a = b \/ Xml!Before(s, a, b) \/ Xml!Before(s, b, a)
         /\ \A a, b : Xml!Before(s, a, b) => a \in Xml!Range(s) /\ b \in Xml!Range(s)
         /\ \A i, j \in DOMAIN s : Xml!Before(s, s[i], s[j]) <=> i < j
<1>1. DOMAIN s = 1..Len(s) /\ Len(s) \in Nat
  OBVIOUS
<1>2. \A a, b \in Xml!Range(s) : a = b \/ Xml!Before(s, a, b) \/ Xml!Before(s, b, a)
  BY <1>1 DEF Xml!Range, Xml!Before
<1>3. \A a, b : Xml!Before(s, a, b) => a \in Xml!Range(s) /\ b \in Xml!Range(s)
  BY DEF Xml!Range, Xml!Before
<1>4. \A i, j \in DOMAIN s : Xml!Before(s, s[i], s[j]) <=> i < j
  BY <1>1 DEF OnceIn, Xml!Before
<1> QED
  BY <1>2, <1>3, <1>4

-----------------------------------------------------------------------------
(* XML documents: the tree, what the program does, and its loop. *)

Tree ==
  /\ nodes \in Seq(Xml!AllNodes) /\ Len(nodes) <= MaxNodes
  /\ \A n \in DOMAIN nodes : nodes[n].type \in Leaves => nodes[n].name = Xml!None /\ nodes[n].value \in Texts
  /\ children \in [0 .. Len(nodes) -> Seq(DOMAIN nodes)]
  /\ Xml!EachNodeOnce /\ Xml!TopIsOrdered /\ Xml!DeclarationIsSet

Doing ==
  /\ doc \in {"none", "held", "dropped", "freed"} /\ using \in BOOLEAN
  /\ ended \in {"no", "sibling", "root", "string"} /\ source \in {"whole", "cut"}
  /\ Xml!NeedsDocument

Looping == childLoop \in Xml!ChildLoops \cup {Xml!NoLoop} /\ Xml!LoopFollows

(* The bounds of the model. *)
LEMMA XmlBounds ==
  MaxNodes \in Nat /\ MaxNodes >= 1 /\ "data" \in Leaves /\ "element" \notin Leaves /\ "declaration" \notin Leaves
BY PartsAssumptions DEF Xml!XmlAssumption

(* What is known of the lists of a tree. *)
LEMMA Lists ==
  ASSUME Tree
  PROVE  /\ Len(nodes) \in Nat /\ DOMAIN nodes = 1..Len(nodes) /\ DOMAIN children = 0..Len(nodes)
         /\ 0 \in DOMAIN children
         /\ \A p \in DOMAIN children :
              /\ children[p] \in Seq(DOMAIN nodes) /\ OnceIn(children[p])
              /\ Xml!Range(children[p]) \subseteq DOMAIN nodes
         /\ \A p, q \in DOMAIN children :
              \A n : n \in Xml!Range(children[p]) /\ n \in Xml!Range(children[q]) => p = q
<1>1. Len(nodes) \in Nat /\ DOMAIN nodes = 1..Len(nodes) /\ DOMAIN children = 0..Len(nodes) /\ 0 \in DOMAIN children
  BY DEF Tree
<1>2. ASSUME NEW p \in DOMAIN children
      PROVE  /\ children[p] \in Seq(DOMAIN nodes) /\ OnceIn(children[p])
             /\ Xml!Range(children[p]) \subseteq DOMAIN nodes
  <2>1. children[p] \in Seq(DOMAIN nodes)
    BY <1>1 DEF Tree
  <2>2. OnceIn(children[p])
    BY DEF Tree, Xml!EachNodeOnce, OnceIn
  <2>3. \A i \in DOMAIN children[p] : children[p][i] \in DOMAIN nodes
    BY <2>1
  <2> QED
    BY <2>1, <2>2, <2>3 DEF Xml!Range
<1>3. ASSUME NEW p \in DOMAIN children, NEW q \in DOMAIN children, NEW n,
             n \in Xml!Range(children[p]), n \in Xml!Range(children[q])
      PROVE  p = q
  BY <1>3 DEF Tree, Xml!EachNodeOnce, Xml!Range
<1> QED
  BY <1>1, <1>2, <1>3

(* The elements at the top are one, as each of them is the first node. *)
LEMMA RootFollows == Tree => Xml!OneRoot
<1> SUFFICES ASSUME Tree PROVE Xml!OneRoot
  OBVIOUS
<1> DEFINE top == children[0]
<1>1. OnceIn(top) /\ 0 \in DOMAIN children
  BY Lists
<1>2. \A i \in Xml!Elements(top) : i \in DOMAIN top /\ top[i] = 1
  BY <1>1 DEF Tree, Xml!TopIsOrdered, Xml!Elements, Xml!Document
<1> HIDE DEF top
<1>3. \A i, j \in Xml!Elements(top) : i = j
  BY <1>1, <1>2 DEF OnceIn
<1>4. Xml!Elements(top) = {} \/ \E i \in DOMAIN top : Xml!Elements(top) = {i} /\ top[i] = 1
  BY <1>2, <1>3
<1> QED
  BY <1>4 DEF top, Xml!OneRoot, Xml!Document

(* The invariant in these parts. *)
LEMMA XmlInvIs == Xml!XmlInv <=> Tree /\ Doing /\ Looping
BY RootFollows DEF Xml!XmlInv, Xml!TypeOK, Tree, Doing, Looping

(* So it is after a step. *)
LEMMA XmlInvAfter == Tree' /\ Doing' /\ Looping' => Xml!XmlInv'
BY XmlInvIs, PTL

(* Nodes are added, and the others keep their type and name. *)
Extends ==
  /\ nodes' \in Seq(Xml!AllNodes) /\ Len(nodes) <= Len(nodes') /\ Len(nodes') <= MaxNodes
  /\ \A n \in DOMAIN nodes' : nodes'[n].type \in Leaves => nodes'[n].name = Xml!None /\ nodes'[n].value \in Texts
  /\ \A n \in DOMAIN nodes : nodes'[n].type = nodes[n].type /\ nodes'[n].name = nodes[n].name

(* Nobody is put into another list, or before another one. *)
Ordered(list, old) ==
  /\ \A n \in DOMAIN nodes : n \in Xml!Range(list) => n \in Xml!Range(old)
  /\ \A a, b \in DOMAIN nodes : Xml!Before(list, a, b) => Xml!Before(old, a, b)

Follows ==
  /\ \A p \in DOMAIN children : Ordered(children'[p], children[p])
  /\ \A p \in DOMAIN children' \ DOMAIN children : children'[p] = <<>>

(* The children of p become list, and a new node has none. *)
Changed(p, list) ==
  /\ children' \in [0 .. Len(nodes') -> Seq(DOMAIN nodes')]
  /\ children'[p] = list /\ \A q \in DOMAIN children : q # p => children'[q] = children[q]
  /\ \A q \in DOMAIN children' \ DOMAIN children : children'[q] = <<>>

(* The empty list. *)
LEMMA NothingInEmpty ==
  ASSUME NEW a, NEW b PROVE a \notin Xml!Range(<<>>) /\ ~Xml!Before(<<>>, a, b)
BY DEF Xml!Range, Xml!Before

(* A list that changes. *)
LEMMA ListChanges ==
  ASSUME Tree, Extends, NEW p \in DOMAIN children, NEW list, Changed(p, list),
         OnceIn(list), Ordered(list, children[p])
  PROVE  Xml!EachNodeOnce' /\ Follows
<1>1. \A q \in DOMAIN children' : q = p \/ (q \in DOMAIN children /\ children'[q] = children[q]) \/ children'[q] = <<>>
  BY DEF Changed
<1>2. Follows
  BY DEF Changed, Follows, Ordered
<1>3. ASSUME NEW q \in DOMAIN children', NEW r \in DOMAIN children',
             NEW i \in DOMAIN children'[q], NEW j \in DOMAIN children'[r], children'[q][i] = children'[r][j]
      PROVE  q = r /\ i = j
  <2>1. children'[q] # <<>> /\ children'[r] # <<>>
    BY <1>3
  <2>2. CASE q = p /\ r = p
    BY <1>3, <2>2 DEF Changed, OnceIn
  <2>3. CASE q # p /\ r # p
    BY <1>1, <1>3, <2>1, <2>3 DEF Tree, Xml!EachNodeOnce
  <2>4. ASSUME NEW s \in DOMAIN children', NEW n, s # p, n \in Xml!Range(children'[s]), n \in Xml!Range(list)
        PROVE  FALSE
    <3>1. s \in DOMAIN children /\ n \in Xml!Range(children[s])
      BY <1>1, <2>4, NothingInEmpty
    <3>2. n \in DOMAIN nodes
      BY <3>1, Lists
    <3>3. n \in Xml!Range(children[p])
      BY <2>4, <3>2 DEF Ordered
    <3> QED
      BY <2>4, <3>1, <3>3, Lists
  <2>5. children'[q][i] \in Xml!Range(children'[q]) /\ children'[q][i] \in Xml!Range(children'[r])
    BY <1>3 DEF Xml!Range
  <2>6. children'[p] = list
    BY DEF Changed
  <2> QED
    BY <2>2, <2>3, <2>4, <2>5, <2>6
<1>4. Xml!EachNodeOnce'
  BY <1>3 DEF Xml!EachNodeOnce
<1> QED
  BY <1>2, <1>4

(* A loop that goes on over a tree whose lists change. *)
LEMMA LoopGoesOn ==
  ASSUME Tree, Looping, Extends, Follows, children' \in [0 .. Len(nodes') -> Seq(DOMAIN nodes')],
         \/ childLoop' = childLoop
         \/ /\ childLoop.on
            /\ \E K \in SUBSET childLoop.kept : childLoop' = [childLoop EXCEPT !.kept = K],
         childLoop.on => childLoop'.kept \subseteq Xml!Range(children'[childLoop.parent])
  PROVE  Looping' /\ childLoop'.on = childLoop.on
<1>1. CASE ~childLoop.on
  <2>1. childLoop = Xml!NoLoop /\ childLoop' = childLoop
    BY <1>1 DEF Looping, Xml!ChildLoops
  <2> QED
    BY <1>1, <2>1 DEF Looping, Xml!LoopFollows, Xml!NoLoop
<1>2. CASE childLoop.on
  <2>1. childLoop \in Xml!ChildLoops /\ childLoop.parent \in DOMAIN nodes /\ childLoop.seen \in SUBSET DOMAIN nodes
        /\ childLoop.last \in {0} \cup DOMAIN nodes /\ childLoop.on = TRUE /\ childLoop.kept \in SUBSET DOMAIN nodes
    BY <1>2 DEF Looping, Xml!ChildLoops, Xml!NoLoop
  <2>2. DOMAIN nodes \subseteq DOMAIN nodes' /\ DOMAIN nodes \subseteq DOMAIN children
        /\ DOMAIN children \subseteq DOMAIN children' /\ 0 \notin DOMAIN nodes
    <3>1. Len(nodes') \in Nat /\ Len(nodes) \in Nat /\ DOMAIN nodes' = 1..Len(nodes')
          /\ Len(nodes) <= Len(nodes')
      BY DEF Extends, Tree
    <3> QED
      BY <3>1, Lists
  <2>3. /\ childLoop' \in Xml!ChildLoops' /\ childLoop'.kept \subseteq childLoop.kept
        /\ childLoop'.on /\ childLoop'.parent = childLoop.parent /\ childLoop'.name = childLoop.name
        /\ childLoop'.last = childLoop.last /\ childLoop'.seen = childLoop.seen
    BY <2>1, <2>2 DEF Xml!ChildLoops
  <2> DEFINE old == children[childLoop.parent]
             new == children'[childLoop.parent]
             last == childLoop.last
  <2>4. Ordered(new, old)
    BY <2>1, <2>2 DEF Follows
  <2>5. childLoop'.kept \subseteq Xml!Range(new)
    BY <1>2
  <2>6. \A n \in childLoop'.kept : Xml!Fits(n, childLoop.name)'
    BY <1>2, <2>1, <2>3 DEF Looping, Xml!LoopFollows, Xml!Fits, Extends
  <2>7. ASSUME last # 0, {p \in DOMAIN children' : Xml!Contains(children'[p], last)} # {}
        PROVE  last \in Xml!Range(new)
    <3>0. PICK p \in DOMAIN children' : Xml!Contains(children'[p], last)
      BY <2>7
    <3>1. last \in Xml!Range(children'[p])
      <4>1. DOMAIN children'[p] = 1 .. Len(children'[p])
        OBVIOUS
      <4> QED
        BY <3>0, <4>1 DEF Xml!Contains, Xml!Range
    <3>2. p \in DOMAIN children /\ last \in Xml!Range(children[p])
      BY <2>1, <2>7, <3>1, NothingInEmpty DEF Follows, Ordered
    <3>3. p \in Xml!Parents(last)
      <4>1. DOMAIN children[p] = 1 .. Len(children[p])
        BY <3>2, Lists
      <4> QED
        BY <3>2, <4>1 DEF Xml!Parents, Xml!Contains, Xml!Range
    <3>4. last \in Xml!Range(old)
      BY <1>2, <2>7, <3>3 DEF Looping, Xml!LoopFollows
    <3>5. p = childLoop.parent
      BY <2>1, <2>2, <3>2, <3>4, Lists
    <3> QED
      BY <3>1, <3>5
  <2>8. ASSUME last # 0
        PROVE  /\ \A n \in childLoop.seen : ~Xml!Before(new, last, n)
               /\ \A n \in childLoop'.kept : n = last \/ Xml!Before(new, n, last) => n \in childLoop.seen
    <3>1. last \in DOMAIN nodes
      BY <2>1, <2>8
    <3>2. ASSUME NEW n \in DOMAIN nodes
          PROVE  /\ Xml!Before(new, last, n) => Xml!Before(old, last, n)
                 /\ Xml!Before(new, n, last) => Xml!Before(old, n, last)
      BY <2>4, <3>1 DEF Ordered
    <3> QED
      BY <1>2, <2>1, <2>3, <2>8, <3>2 DEF Looping, Xml!LoopFollows
  <2>9. last \in childLoop.seen \cup {0} /\ (last = 0 => childLoop.seen = {})
    BY <1>2 DEF Looping, Xml!LoopFollows
  <2> HIDE DEF last, new, old
  <2>10. Xml!LoopFollows'
    BY <2>3, <2>5, <2>6, <2>7, <2>8, <2>9 DEF Xml!LoopFollows, Xml!Parents, last, new
  <2> QED
    BY <1>2, <2>1, <2>3, <2>10 DEF Looping
<1> QED
  BY <1>1, <1>2

(* The nodes of a list stand where they may: a declaration at the head of   *)
(* the document, and no element there but the first node.                  *)
Placed(p, list, tree) ==
  \A i \in DOMAIN list :
    /\ tree[list[i]].type = "declaration" => p = 0 /\ i = 1
    /\ tree[list[i]].type = "element" /\ p = 0 => list[i] = 1

(* The lists of a tree are so. *)
LEMMA ListsPlaced ==
  ASSUME Tree, NEW p \in DOMAIN children
  PROVE  Placed(p, children[p], nodes)
BY DEF Tree, Xml!TopIsOrdered, Xml!Document, Placed

(* A tree of which one list changes. *)
LEMMA TreeChanges ==
  ASSUME Tree, Extends, NEW p \in DOMAIN children, NEW list, Changed(p, list),
         OnceIn(list), Ordered(list, children[p]), Placed(p, list, nodes'), Xml!DeclarationIsSet'
  PROVE  Tree' /\ Follows
<1>1. Xml!EachNodeOnce' /\ Follows
  BY ListChanges
<1>2. ASSUME NEW q \in DOMAIN children' PROVE Placed(q, children'[q], nodes')
  <2>1. CASE q = p
    BY <2>1 DEF Changed
  <2>2. CASE q # p /\ q \in DOMAIN children
    <3>1. children'[q] = children[q] /\ Placed(q, children[q], nodes)
      BY <2>2, ListsPlaced DEF Changed
    <3>2. \A i \in DOMAIN children[q] : children[q][i] \in DOMAIN nodes
      BY <2>2, Lists DEF Xml!Range
    <3> QED
      BY <3>1, <3>2 DEF Placed, Extends
  <2>3. CASE q # p /\ q \notin DOMAIN children
    <3>1. children'[q] = <<>>
      BY <2>3 DEF Changed
    <3> QED
      BY <3>1 DEF Placed
  <2> QED
    BY <2>1, <2>2, <2>3
<1>3. Xml!TopIsOrdered'
  BY <1>2 DEF Xml!TopIsOrdered, Xml!Document, Placed
<1> QED
  BY <1>1, <1>3 DEF Tree, Extends, Changed

(* What every step keeps. *)
Keeps == Tree' /\ Doing' /\ Looping' /\ Xml!MetOnce

(* A step that changes the tree, and of the loop no more than which nodes   *)
(* stay.                                                                   *)
LEMMA EditKeeps ==
  ASSUME Tree, Doing, Looping, Tree', Extends, Follows, doc # "none", UNCHANGED <<doc, using, ended, source>>,
         \/ childLoop' = childLoop
         \/ /\ childLoop.on
            /\ \E K \in SUBSET childLoop.kept : childLoop' = [childLoop EXCEPT !.kept = K],
         childLoop.on => childLoop'.kept \subseteq Xml!Range(children'[childLoop.parent])
  PROVE  Keeps
<1>1. children' \in [0 .. Len(nodes') -> Seq(DOMAIN nodes')]
  BY DEF Tree
<1>2. Looping' /\ childLoop'.on = childLoop.on
  BY <1>1, LoopGoesOn
<1>3. Doing'
  BY <1>2 DEF Doing, Xml!NeedsDocument
<1>4. childLoop.on => childLoop'.last = childLoop.last
  <2>1. childLoop.on => childLoop \in Xml!ChildLoops
    BY DEF Looping, Xml!NoLoop
  <2> QED
    BY <2>1 DEF Xml!ChildLoops
<1>5. Xml!MetOnce
  BY <1>2, <1>4 DEF Xml!MetOnce
<1> QED
  BY <1>2, <1>3, <1>5 DEF Keeps

(* A node that is added at the end of nodes. *)
LEMMA Allocated ==
  ASSUME Tree, NEW node \in Xml!AllNodes, Len(nodes) < MaxNodes, nodes' = Append(nodes, node),
         node.type \in Leaves => node.name = Xml!None /\ node.value \in Texts
  PROVE  /\ Extends /\ Len(nodes') = Len(nodes) + 1 /\ nodes'[Len(nodes')] = node
         /\ DOMAIN nodes' = DOMAIN nodes \cup {Len(nodes')} /\ Len(nodes') \notin DOMAIN nodes
         /\ \A n \in DOMAIN nodes : nodes'[n] = nodes[n]
<1>1. Len(nodes) \in Nat /\ nodes \in Seq(Xml!AllNodes) /\ DOMAIN nodes = 1..Len(nodes) /\ MaxNodes \in Nat
  BY XmlBounds DEF Tree
<1>2. /\ nodes' \in Seq(Xml!AllNodes) /\ Len(nodes') = Len(nodes) + 1 /\ nodes'[Len(nodes')] = node
      /\ DOMAIN nodes' = 1 .. Len(nodes) + 1 /\ \A n \in DOMAIN nodes : nodes'[n] = nodes[n]
  BY <1>1
<1>3. DOMAIN nodes' = DOMAIN nodes \cup {Len(nodes')} /\ Len(nodes') \notin DOMAIN nodes
  BY <1>1, <1>2
<1>4. \A n \in DOMAIN nodes' : nodes'[n].type \in Leaves => nodes'[n].name = Xml!None /\ nodes'[n].value \in Texts
  BY <1>2, <1>3 DEF Tree
<1> QED
  BY <1>1, <1>2, <1>3, <1>4 DEF Extends

(* The lists after it. *)
LEMMA GrownTo ==
  ASSUME Tree, Extends, Len(nodes') = Len(nodes) + 1, NEW p \in DOMAIN children,
         NEW list \in Seq(DOMAIN nodes'), children' = Xml!Grown(p, list)
  PROVE  Changed(p, list) /\ DOMAIN nodes \subseteq DOMAIN nodes'
<1>1. Len(nodes) \in Nat /\ DOMAIN nodes = 1..Len(nodes) /\ DOMAIN children = 0..Len(nodes)
      /\ \A q \in DOMAIN children : children[q] \in Seq(DOMAIN nodes)
  BY Lists
<1>2. DOMAIN nodes' = 1..Len(nodes')
  BY DEF Extends
<1>3. DOMAIN nodes \subseteq DOMAIN nodes'
  BY <1>1, <1>2
<1>4. \A q \in DOMAIN children : children[q] \in Seq(DOMAIN nodes')
  <2>1. ASSUME NEW s \in Seq(DOMAIN nodes) PROVE s \in Seq(DOMAIN nodes')
    <3>1. Len(s) \in Nat /\ s \in [1..Len(s) -> DOMAIN nodes]
      OBVIOUS
    <3>2. s \in [1..Len(s) -> DOMAIN nodes']
      BY <1>3, <3>1
    <3> QED
      BY <3>1, <3>2
  <2> QED
    BY <1>1, <2>1
<1>5. <<>> \in Seq(DOMAIN nodes')
  OBVIOUS
<1>6. ASSUME NEW q \in 0 .. Len(nodes) + 1
      PROVE  /\ children'[q] \in Seq(DOMAIN nodes')
             /\ q = p => children'[q] = list
             /\ q # p /\ q \in DOMAIN children => children'[q] = children[q]
             /\ q \notin DOMAIN children => children'[q] = <<>>
  <2>1. q # p /\ q <= Len(nodes) => q \in DOMAIN children
    BY <1>1
  <2>2. q \in DOMAIN children <=> q <= Len(nodes)
    BY <1>1
  <2> QED
    BY <1>1, <1>4, <1>5, <2>2 DEF Xml!Grown
<1>7. children' = [q \in 0 .. Len(nodes) + 1 |-> children'[q]]
  BY DEF Xml!Grown
<1>8. DOMAIN children' = 0 .. Len(nodes) + 1 /\ p \in 0 .. Len(nodes) + 1
  BY <1>1, <1>7
<1>9. children' \in [0 .. Len(nodes) + 1 -> Seq(DOMAIN nodes')]
  BY <1>6, <1>7
<1>10. children'[p] = list
  BY <1>6, <1>8
<1>11. \A q \in DOMAIN children : q # p => children'[q] = children[q]
  <2>1. \A q \in DOMAIN children : q \in 0 .. Len(nodes) + 1
    BY <1>1
  <2> QED
    BY <1>6, <2>1
<1>12. \A q \in DOMAIN children' \ DOMAIN children : children'[q] = <<>>
  BY <1>6, <1>8
<1> QED
  BY <1>3, <1>9, <1>10, <1>11, <1>12 DEF Changed

(* The declaration that a new one replaces is the head of the list. *)
LEMMA OthersAre ==
  ASSUME Tree
  PROVE  LET o == Xml!Others(children[0])
         IN /\ o \in Seq(DOMAIN nodes) /\ OnceIn(o) /\ Xml!Range(o) \subseteq DOMAIN nodes
            /\ Ordered(o, children[0])
            /\ \A i \in DOMAIN o : nodes[o[i]].type # "declaration" /\ (nodes[o[i]].type = "element" => o[i] = 1)
<1> DEFINE top == children[0]
           D == Xml!Declarations(top)
           o == Xml!Others(top)
<1>1. top \in Seq(DOMAIN nodes) /\ OnceIn(top) /\ Placed(0, top, nodes) /\ Xml!Range(top) \subseteq DOMAIN nodes
  BY Lists, ListsPlaced
<1>2. D \subseteq {1} /\ D \subseteq DOMAIN top /\ \A i \in DOMAIN top : nodes[top[i]].type = "declaration" <=> i \in D
  BY <1>1 DEF Placed, Xml!Declarations
<1>3. CASE D = {}
  <2>1. o = top
    BY <1>3 DEF Xml!Others
  <2> QED
    BY <1>1, <1>2, <1>3, <2>1 DEF Ordered, Placed
<1>4. CASE D = {1}
  <2>1. (CHOOSE i \in D : \A j \in D : j <= i) = 1
    <3>1. 1 \in D /\ \A j \in D : j <= 1
      BY <1>4
    <3>2. \A i \in D : i = 1
      BY <1>4
    <3> HIDE DEF D
    <3> QED
      BY <3>1, <3>2
  <2>2. o = Xml!RemoveAt(top, 1)
    BY <1>4, <2>1 DEF Xml!Others
  <2>3. 1 \in 1..Len(top)
    BY <1>1, <1>2, <1>4
  <2> HIDE DEF top, D
  <2>4. /\ o \in Seq(DOMAIN nodes) /\ Len(o) = Len(top) - 1
        /\ \A j \in 1 .. Len(top) - 1 : o[j] = IF j < 1 THEN top[j] ELSE top[j + 1]
    BY <1>1, <2>2, <2>3, NodeRemoved
  <2>5. OnceIn(o) /\ Xml!Range(o) = Xml!Range(top) \ {top[1]}
        /\ \A a, b : Xml!Before(o, a, b) => Xml!Before(top, a, b)
    BY <1>1, <2>2, <2>3, OrderWithout
  <2> HIDE DEF o
  <2>6. ASSUME NEW i \in DOMAIN o
        PROVE  nodes[o[i]].type # "declaration" /\ (nodes[o[i]].type = "element" => o[i] = 1)
    <3>1. i \in 1 .. Len(top) - 1 /\ i + 1 \in DOMAIN top /\ i + 1 # 1 /\ o[i] = top[i + 1]
      BY <1>1, <2>4
    <3> QED
      BY <1>1, <3>1 DEF Placed
  <2>7. Ordered(o, top)
    BY <2>5 DEF Ordered
  <2> QED
    BY <1>1, <2>4, <2>5, <2>6, <2>7 DEF o, top
<1>5. D = {} \/ D = {1}
  BY <1>2
<1> QED
  BY <1>3, <1>4, <1>5

(* A list with a node before its head. *)
LEMMA Prepended ==
  ASSUME NEW S, NEW s \in Seq(S), NEW e \in S
  PROVE  <<e>> \o s = Xml!InsertAt(s, 0 + 1, e)
<1>1. SubSeq(s, 1, 1 - 1) = <<>> /\ SubSeq(s, 1, Len(s)) = s
  OBVIOUS
<1>2. Xml!InsertAt(s, 1, e) = SubSeq(s, 1, 1 - 1) \o <<e>> \o SubSeq(s, 1, Len(s))
  BY DEF Xml!InsertAt
<1>3. <<>> \o <<e>> = <<e>>
  OBVIOUS
<1> QED
  BY <1>1, <1>2, <1>3

(* Of a larger set a sequence is one too. *)
LEMMA SequenceOfMore ==
  ASSUME NEW S, NEW T, S \subseteq T, NEW s \in Seq(S)
  PROVE  s \in Seq(T)
<1>1. Len(s) \in Nat /\ s \in [1..Len(s) -> S]
  OBVIOUS
<1>2. s \in [1..Len(s) -> T]
  BY <1>1
<1> QED
  BY <1>1, <1>2

(* The loop that is under way. *)
LEMMA LoopTyped ==
  ASSUME Looping, childLoop.on
  PROVE  childLoop \in Xml!ChildLoops /\ childLoop.parent \in DOMAIN nodes
<1>1. childLoop \in Xml!ChildLoops
  BY DEF Looping, Xml!NoLoop
<1> QED
  BY <1>1 DEF Xml!ChildLoops

(* A node that is put into a list. *)
LEMMA AdditionKeeps ==
  ASSUME Tree, Doing, Looping, NEW node \in Xml!AllNodes, Len(nodes) < MaxNodes, nodes' = Append(nodes, node),
         node.type \in Leaves => node.name = Xml!None /\ node.value \in Texts,
         NEW p \in DOMAIN children, NEW s \in Seq(DOMAIN nodes), OnceIn(s), Ordered(s, children[p]),
         NEW n \in 0..Len(s), children' = Xml!Grown(p, Xml!InsertAt(s, n + 1, Len(nodes'))),
         Placed(p, Xml!InsertAt(s, n + 1, Len(nodes')), nodes'), Xml!DeclarationIsSet',
         p # 0 => s = children[p], doc # "none", UNCHANGED <<doc, using, ended, source, childLoop>>
  PROVE  Keeps
<1> DEFINE m == Len(nodes')
           list == Xml!InsertAt(s, n + 1, m)
<1>1. /\ Extends /\ m = Len(nodes) + 1 /\ DOMAIN nodes' = DOMAIN nodes \cup {m} /\ m \notin DOMAIN nodes
  BY Allocated
<1>2. s \in Seq(DOMAIN nodes') /\ m \in DOMAIN nodes'
  BY <1>1, SequenceOfMore
<1>3. list \in Seq(DOMAIN nodes')
  BY <1>2, NodeInserted
<1>4. m \notin Xml!Range(s)
  <2>1. \A i \in DOMAIN s : s[i] \in DOMAIN nodes
    OBVIOUS
  <2> QED
    BY <1>1, <2>1 DEF Xml!Range
<1>5. OnceIn(list) /\ Xml!Range(list) = Xml!Range(s) \cup {m}
      /\ \A a, b : a # m /\ b # m /\ Xml!Before(list, a, b) => Xml!Before(s, a, b)
  BY <1>2, <1>4, OrderWith
<1>6. Ordered(list, children[p])
  BY <1>1, <1>5 DEF Ordered
<1>7. Changed(p, list)
  BY <1>1, <1>3, GrownTo
<1>8. Placed(p, list, nodes')
  OBVIOUS
<1> HIDE DEF list
<1>9. Tree' /\ Follows
  BY <1>1, <1>5, <1>6, <1>7, <1>8, TreeChanges
<1>10. childLoop.on => childLoop'.kept \subseteq Xml!Range(children'[childLoop.parent])
  <2> SUFFICES ASSUME childLoop.on PROVE childLoop.kept \subseteq Xml!Range(children'[childLoop.parent])
    OBVIOUS
  <2>1. childLoop.parent \in DOMAIN nodes
    BY LoopTyped
  <2>2. childLoop.parent # 0 /\ childLoop.parent \in DOMAIN children
    BY <2>1, Lists
  <2>3. childLoop.kept \subseteq Xml!Range(children[childLoop.parent])
    BY DEF Looping, Xml!LoopFollows
  <2>4. CASE childLoop.parent = p
    BY <1>5, <1>7, <2>2, <2>3, <2>4 DEF Changed
  <2>5. CASE childLoop.parent # p
    BY <1>7, <2>2, <2>3, <2>5 DEF Changed
  <2> QED
    BY <2>4, <2>5
<1> QED
  BY <1>1, <1>9, <1>10, EditKeeps

(* doc:declaration{...}. *)
LEMMA SetDeclarationKeeps ==
  ASSUME Tree, Doing, Looping, NEW attr \in Attributes, Xml!SetDeclaration(attr)
  PROVE  Keeps
<1> DEFINE node == Xml!Declaration(attr)
           m == Len(nodes')
           s == Xml!Others(children[0])
           list == Xml!InsertAt(s, 0 + 1, m)
<1>1. node \in Xml!AllNodes /\ node.type = "declaration" /\ node.attr = attr
  BY DEF Xml!Declaration, Xml!Node, Xml!AllNodes
<1>2. Len(nodes) < MaxNodes /\ nodes' = Append(nodes, node) /\ declared' = attr /\ doc # "none"
      /\ UNCHANGED <<doc, using, ended, source, childLoop>> /\ children' = Xml!Grown(0, <<m>> \o s)
  BY DEF Xml!SetDeclaration, Xml!Document, Xml!Holds
<1> HIDE DEF node
<1>3. node.type \notin Leaves
  BY <1>1, XmlBounds
<1>4. /\ Extends /\ m = Len(nodes) + 1 /\ DOMAIN nodes' = DOMAIN nodes \cup {m} /\ m \notin DOMAIN nodes
      /\ nodes'[m] = node /\ \A n \in DOMAIN nodes : nodes'[n] = nodes[n]
  BY <1>1, <1>2, <1>3, Allocated
<1>5. /\ s \in Seq(DOMAIN nodes) /\ OnceIn(s) /\ Xml!Range(s) \subseteq DOMAIN nodes
      /\ Ordered(s, children[0])
      /\ \A i \in DOMAIN s : nodes[s[i]].type # "declaration" /\ (nodes[s[i]].type = "element" => s[i] = 1)
  BY OthersAre
<1> HIDE DEF s
<1>6. s \in Seq(DOMAIN nodes') /\ m \in DOMAIN nodes' /\ 0 \in 0..Len(s) /\ 0 \in DOMAIN children
  BY <1>4, <1>5, SequenceOfMore, Lists
<1>7. <<m>> \o s = list
  BY <1>6, Prepended
<1>8. list \in Seq(DOMAIN nodes') /\ Len(list) = Len(s) + 1 /\ HasBehind(list, s, 0, m)
  BY <1>6, NodeInserted
<1> HIDE DEF list, m
<1>9. \A i \in DOMAIN list : IF i = 1 THEN list[i] = m ELSE i - 1 \in DOMAIN s /\ list[i] = s[i - 1]
  BY <1>5, <1>8 DEF HasBehind
<1>10. ASSUME NEW i \in DOMAIN list
       PROVE  IF i = 1 THEN nodes'[list[i]] = node
              ELSE /\ nodes'[list[i]].type # "declaration"
                   /\ nodes'[list[i]].type = "element" => list[i] = 1
  <2>1. CASE i = 1
    BY <1>4, <1>9, <2>1 DEF m
  <2>2. CASE i # 1
    <3>1. i - 1 \in DOMAIN s /\ list[i] = s[i - 1]
      BY <1>9, <2>2
    <3>2. s[i - 1] \in DOMAIN nodes
      BY <1>5, <3>1
    <3> QED
      BY <1>4, <1>5, <2>2, <3>1, <3>2
  <2> QED
    BY <2>1, <2>2
<1>11. Placed(0, list, nodes')
  BY <1>1, <1>10 DEF Placed
<1>12. children' = Xml!Grown(0, list) /\ children'[0] = list
  <2>1. children' = Xml!Grown(0, list)
    BY <1>2, <1>7 DEF m
  <2>2. 0 \in 0 .. Len(nodes) + 1
    BY Lists
  <2> QED
    BY <2>1, <2>2 DEF Xml!Grown
<1>13. 1 \in DOMAIN list
  BY <1>5, <1>8
<1>14. Xml!DeclarationIsSet'
  <2>1. {i \in DOMAIN list : nodes'[list[i]].type = "declaration"} = {1}
    BY <1>1, <1>10, <1>13
  <2>2. nodes'[list[1]].attr = attr
    BY <1>1, <1>10, <1>13
  <2>3. Head(list) = list[1]
    BY <1>8, <1>13
  <2> QED
    BY <1>2, <1>12, <2>1, <2>2, <2>3 DEF Xml!DeclarationIsSet, Xml!Document, Xml!Declarations
<1> QED
  BY <1>1, <1>2, <1>3, <1>5, <1>6, <1>11, <1>12, <1>14, AdditionKeeps DEF list, m

(* The list at the top and the nodes in it stay as they are. *)
LEMMA DeclarationStays ==
  ASSUME Tree, children'[0] = children[0], declared' = declared,
         \A n \in DOMAIN nodes : nodes'[n].type = nodes[n].type /\ nodes'[n].attr = nodes[n].attr
  PROVE  Xml!DeclarationIsSet'
<1> DEFINE top == children[0]
<1>1. \A i \in DOMAIN top : top[i] \in DOMAIN nodes
  BY Lists DEF Xml!Range
<1>2. {i \in DOMAIN top : nodes'[top[i]].type = "declaration"} = {i \in DOMAIN top : nodes[top[i]].type = "declaration"}
  BY <1>1
<1>3. ASSUME declared # Xml!None PROVE nodes'[Head(top)].attr = nodes[Head(top)].attr
  <2>1. 1 \in DOMAIN top
    BY <1>3 DEF Tree, Xml!DeclarationIsSet, Xml!Declarations, Xml!Document
  <2>2. top \in Seq(DOMAIN nodes)
    BY Lists
  <2>3. Head(top) \in DOMAIN nodes
    BY <2>1, <2>2
  <2> QED
    BY <2>3
<1>4. declared # Xml!None =>
        {i \in DOMAIN top : nodes[top[i]].type = "declaration"} = {1} /\ nodes[Head(top)].attr = declared
  BY DEF Tree, Xml!DeclarationIsSet, Xml!Declarations, Xml!Document
<1> HIDE DEF top
<1>5. declared' # Xml!None =>
        {i \in DOMAIN top : nodes'[top[i]].type = "declaration"} = {1} /\ nodes'[Head(top)].attr = declared'
  BY <1>2, <1>3, <1>4
<1> QED
  BY <1>5 DEF top, Xml!DeclarationIsSet, Xml!Declarations, Xml!Document

(* What append, prepend and insert make. *)
LEMMA NewNode ==
  ASSUME NEW node \in Xml!NewNodes
  PROVE  /\ node \in Xml!AllNodes /\ node.type # "declaration"
         /\ node.type \in Leaves => node.name = Xml!None /\ node.value \in Texts
<1>1. CASE \E name \in Names, value \in Texts \cup {Xml!None} : node = Xml!Node("element", name, value)
  BY <1>1, XmlBounds DEF Xml!Node, Xml!AllNodes
<1>2. CASE \E type \in Leaves, value \in Texts : node = Xml!Node(type, Xml!None, value)
  BY <1>2, XmlBounds DEF Xml!Node, Xml!AllNodes
<1> QED
  BY <1>1, <1>2 DEF Xml!NewNodes

(* A new node among the children of another one. *)
LEMMA AddsKeeps ==
  ASSUME Tree, Doing, Looping, NEW p \in DOMAIN nodes, NEW n \in 0..Len(children[p]), NEW node,
         doc # "none", Xml!Adds(p, n, node)
  PROVE  Keeps
<1> DEFINE m == Len(nodes')
           s == children[p]
           list == Xml!InsertAt(s, n + 1, m)
<1>1. /\ Len(nodes) < MaxNodes /\ node \in Xml!NewNodes /\ nodes' = Append(nodes, node)
      /\ children' = Xml!Grown(p, list) /\ UNCHANGED <<doc, using, childLoop, ended, declared, source>>
  BY DEF Xml!Adds
<1>2. p \in DOMAIN children /\ p # 0 /\ s \in Seq(DOMAIN nodes) /\ OnceIn(s) /\ Placed(p, s, nodes)
      /\ 0 \in DOMAIN children
  BY Lists, ListsPlaced
<1>3. /\ node \in Xml!AllNodes /\ node.type # "declaration"
      /\ node.type \in Leaves => node.name = Xml!None /\ node.value \in Texts
  BY <1>1, NewNode
<1>4. /\ DOMAIN nodes' = DOMAIN nodes \cup {m} /\ m \notin DOMAIN nodes
      /\ nodes'[m] = node /\ \A k \in DOMAIN nodes : nodes'[k] = nodes[k]
  BY <1>1, <1>3, Allocated
<1>5. s \in Seq(DOMAIN nodes') /\ m \in DOMAIN nodes' /\ n \in 0..Len(s)
  BY <1>2, <1>4, SequenceOfMore
<1>6. list \in Seq(DOMAIN nodes') /\ Len(list) = Len(s) + 1 /\ HasBehind(list, s, n, m)
  BY <1>5, NodeInserted
<1>7. Ordered(s, children[p])
  BY DEF Ordered
<1> HIDE DEF list, m
<1>8. ASSUME NEW i \in DOMAIN list PROVE nodes'[list[i]].type # "declaration"
  <2>1. list[i] = m \/ \E j \in DOMAIN s : list[i] = s[j]
    <3>1. i \in 1 .. Len(s) + 1 /\ Len(s) \in Nat /\ n \in Nat /\ n <= Len(s) /\ DOMAIN s = 1..Len(s)
      BY <1>2, <1>6
    <3>2. CASE i <= n
      BY <1>6, <3>1, <3>2 DEF HasBehind
    <3>3. CASE i = n + 1
      BY <1>6, <3>1, <3>3 DEF HasBehind
    <3>4. CASE i > n + 1
      <4>1. i - 1 \in DOMAIN s /\ list[i] = s[i - 1]
        BY <1>6, <3>1, <3>4 DEF HasBehind
      <4> QED
        BY <4>1
    <3> QED
      BY <3>1, <3>2, <3>3, <3>4
  <2>2. CASE list[i] = m
    BY <1>3, <1>4, <2>2 DEF m
  <2>3. ASSUME NEW j \in DOMAIN s, list[i] = s[j] PROVE nodes'[list[i]].type # "declaration"
    <3>1. s[j] \in DOMAIN nodes
      BY <1>2
    <3> QED
      BY <1>2, <1>4, <2>3, <3>1 DEF Placed
  <2> QED
    BY <2>1, <2>2, <2>3
<1>9. Placed(p, list, nodes')
  BY <1>2, <1>8 DEF Placed
<1>10. children'[0] = children[0]
  <2>1. 0 \in 0 .. Len(nodes) + 1 /\ 0 <= Len(nodes)
    BY Lists
  <2> QED
    BY <1>1, <1>2, <2>1 DEF Xml!Grown
<1>11. Xml!DeclarationIsSet'
  BY <1>1, <1>4, <1>10, DeclarationStays
<1> QED
  BY <1>1, <1>2, <1>3, <1>5, <1>7, <1>9, <1>11, AdditionKeeps DEF list, m

(* The node whose child n is, and where it is there. *)
LEMMA ParentIs ==
  ASSUME Tree, NEW n, Xml!Parents(n) # {}
  PROVE  LET p == Xml!ParentOf(n)
             k == Xml!Place(n, children[p])
         IN p \in DOMAIN children /\ k \in 1 .. Len(children[p]) /\ children[p][k] = n
<1> DEFINE p == Xml!ParentOf(n)
<1>1. p \in Xml!Parents(n)
  BY DEF Xml!ParentOf
<1>2. p \in DOMAIN children /\ \E i \in 1 .. Len(children[p]) : children[p][i] = n
  BY <1>1 DEF Xml!Parents, Xml!Contains
<1>3. DOMAIN children[p] = 1 .. Len(children[p])
  BY <1>2, Lists
<1> HIDE DEF p
<1>4. /\ Xml!Place(n, children[p]) \in DOMAIN children[p]
      /\ children[p][Xml!Place(n, children[p])] = n
  BY <1>2, <1>3 DEF Xml!Place
<1> QED
  BY <1>2, <1>3, <1>4 DEF p

(* node:append, node:prepend and node:insert. *)
LEMMA NewChildKeeps ==
  ASSUME Tree, Doing, Looping, NEW n, NEW node,
         Xml!AppendNode(n, node) \/ Xml!PrependNode(n, node) \/ Xml!InsertNode(n, node)
  PROVE  Keeps
<1>1. n \in DOMAIN nodes /\ doc # "none"
  BY DEF Xml!AppendNode, Xml!PrependNode, Xml!InsertNode, Xml!Uses, Doing, Xml!NeedsDocument
<1>2. n \in DOMAIN children /\ Len(children[n]) \in Nat
  BY <1>1, Lists
<1>3. CASE Xml!AppendNode(n, node)
  <2>1. Len(children[n]) \in 0 .. Len(children[n])
    BY <1>2
  <2> QED
    BY <1>1, <1>3, <2>1, AddsKeeps DEF Xml!AppendNode
<1>4. CASE Xml!PrependNode(n, node)
  <2>1. 0 \in 0 .. Len(children[n])
    BY <1>2
  <2> QED
    BY <1>1, <1>4, <2>1, AddsKeeps DEF Xml!PrependNode
<1>5. CASE Xml!InsertNode(n, node)
  <2> DEFINE p == Xml!ParentOf(n)
             k == Xml!Place(n, children[p])
  <2>1. Xml!Parents(n) # {} /\ p # 0 /\ Xml!Adds(p, k - 1, node)
    BY <1>5 DEF Xml!InsertNode, Xml!MayInsert, Xml!Document
  <2>2. p \in DOMAIN children /\ k \in 1 .. Len(children[p])
    BY <2>1, ParentIs
  <2> HIDE DEF p, k
  <2>3. p \in DOMAIN nodes /\ k - 1 \in 0 .. Len(children[p])
    BY <2>1, <2>2, Lists
  <2> QED
    BY <1>1, <2>1, <2>3, AddsKeeps
<1> QED
  BY <1>3, <1>4, <1>5

(* One list of the same nodes is replaced. *)
LEMMA ListReplaced ==
  ASSUME Tree, nodes' = nodes, NEW p \in DOMAIN children, NEW list \in Seq(DOMAIN nodes),
         children' = [children EXCEPT ![p] = list]
  PROVE  Extends /\ Changed(p, list) /\ DOMAIN children' = DOMAIN children
<1>1. children \in [0 .. Len(nodes) -> Seq(DOMAIN nodes)] /\ p \in 0 .. Len(nodes)
  BY DEF Tree
<1>2. Changed(p, list) /\ DOMAIN children' = DOMAIN children
  BY <1>1 DEF Changed
<1>3. Len(nodes) \in Nat
  BY Lists
<1> QED
  BY <1>2, <1>3 DEF Extends, Tree

(* doc:declaration{...} with a wrong type among the attributes. *)
LEMMA SetDeclarationRaisesKeeps ==
  ASSUME Tree, Doing, Looping, Xml!SetDeclarationRaises
  PROVE  Keeps
<1> DEFINE s == Xml!Others(children[0])
<1>1. /\ declared' = Xml!None /\ children' = [children EXCEPT ![0] = s] /\ doc # "none"
      /\ UNCHANGED <<doc, using, nodes, childLoop, ended, source>>
  BY DEF Xml!SetDeclarationRaises, Xml!Document, Xml!Holds
<1>2. /\ s \in Seq(DOMAIN nodes) /\ OnceIn(s) /\ Ordered(s, children[0])
      /\ \A i \in DOMAIN s : nodes[s[i]].type # "declaration" /\ (nodes[s[i]].type = "element" => s[i] = 1)
  BY OthersAre
<1> HIDE DEF s
<1>3. 0 \in DOMAIN children
  BY Lists
<1>4. Extends /\ Changed(0, s)
  BY <1>1, <1>2, <1>3, ListReplaced
<1>5. Placed(0, s, nodes')
  BY <1>1, <1>2 DEF Placed
<1>6. Xml!DeclarationIsSet'
  BY <1>1 DEF Xml!DeclarationIsSet
<1>7. Tree' /\ Follows
  BY <1>2, <1>3, <1>4, <1>5, <1>6, TreeChanges
<1>8. childLoop.on => childLoop'.kept \subseteq Xml!Range(children'[childLoop.parent])
  <2> SUFFICES ASSUME childLoop.on PROVE childLoop.kept \subseteq Xml!Range(children'[childLoop.parent])
    BY <1>1
  <2>1. childLoop.parent # 0 /\ childLoop.parent \in DOMAIN children
    BY LoopTyped, Lists
  <2>2. childLoop.kept \subseteq Xml!Range(children[childLoop.parent])
    BY DEF Looping, Xml!LoopFollows
  <2> QED
    BY <1>4, <2>1, <2>2 DEF Changed
<1> QED
  BY <1>1, <1>4, <1>7, <1>8, EditKeeps

(* node:remove(). *)
LEMMA RemoveNodeKeeps ==
  ASSUME Tree, Doing, Looping, NEW n, Xml!RemoveNode(n)
  PROVE  Keeps
<1> DEFINE p == Xml!ParentOf(n)
           s == children[p]
           k == Xml!Place(n, s)
           list == Xml!RemoveAt(s, k)
<1>1. /\ n \in DOMAIN nodes /\ Xml!Parents(n) # {} /\ doc # "none"
      /\ childLoop' = IF childLoop.on THEN [childLoop EXCEPT !.kept = @ \ {n}] ELSE childLoop
      /\ declared' = Xml!StillDeclared(n) /\ UNCHANGED <<doc, using, nodes, ended, source>>
  BY DEF Xml!RemoveNode, Xml!Uses, Doing, Xml!NeedsDocument
<1>2. p \in DOMAIN children /\ k \in 1..Len(s) /\ s[k] = n
  BY <1>1, ParentIs
<1>3. children' = [children EXCEPT ![p] = list]
  BY <1>2 DEF Xml!RemoveNode
<1> HIDE DEF p, k
<1>4. s \in Seq(DOMAIN nodes) /\ OnceIn(s) /\ Placed(p, s, nodes) /\ 0 \in DOMAIN children
  BY <1>2, Lists, ListsPlaced
<1> HIDE DEF s
<1>5. /\ list \in Seq(DOMAIN nodes) /\ Len(list) = Len(s) - 1
      /\ \A j \in 1 .. Len(s) - 1 : list[j] = IF j < k THEN s[j] ELSE s[j + 1]
  BY <1>2, <1>4, NodeRemoved
<1>6. OnceIn(list) /\ Xml!Range(list) = Xml!Range(s) \ {n}
      /\ \A a, b : Xml!Before(list, a, b) => Xml!Before(s, a, b)
  BY <1>2, <1>4, OrderWithout
<1> HIDE DEF list
<1>7. Extends /\ Changed(p, list)
  BY <1>1, <1>2, <1>3, <1>5, ListReplaced
<1>8. Ordered(list, children[p])
  BY <1>6 DEF Ordered, s
<1>9. ASSUME NEW i \in DOMAIN list
      PROVE  \E j \in DOMAIN s : list[i] = s[j] /\ (i = 1 => j = 1 \/ k = 1) /\ (i # 1 => j # 1)
  <2>1. i \in 1 .. Len(s) - 1 /\ Len(s) \in Nat /\ DOMAIN s = 1..Len(s) /\ k \in Nat /\ k >= 1
    BY <1>2, <1>4, <1>5
  <2>2. CASE i < k
    <3>1. i \in DOMAIN s /\ list[i] = s[i]
      BY <1>5, <2>1, <2>2
    <3> QED
      BY <3>1
  <2>3. CASE ~(i < k)
    <3>1. i + 1 \in DOMAIN s /\ list[i] = s[i + 1] /\ i + 1 # 1 /\ (i = 1 => k = 1)
      BY <1>5, <2>1, <2>3
    <3> QED
      BY <3>1
  <2> QED
    BY <2>2, <2>3
<1>10. ASSUME p = 0, declared' # Xml!None
       PROVE  /\ declared' = declared /\ {i \in DOMAIN list : nodes[list[i]].type = "declaration"} = {1}
              /\ Head(list) = Head(s)
  <2>1. nodes[n].type # "declaration" /\ declared' = declared
    <3>1. Xml!Contains(children[0], n)
      BY <1>2, <1>10 DEF Xml!Contains, s
    <3> QED
      BY <1>1, <1>10, <3>1 DEF Xml!StillDeclared, Xml!Document
  <2>2. 1 \in DOMAIN s /\ nodes[s[1]].type = "declaration"
    BY <1>10, <2>1 DEF Tree, Xml!DeclarationIsSet, Xml!Declarations, Xml!Document, s
  <2>3. k # 1
    BY <1>2, <2>1, <2>2
  <2>4. 1 \in DOMAIN list /\ list[1] = s[1]
    <3>1. 1 \in 1 .. Len(s) - 1 /\ 1 < k
      BY <1>2, <1>4, <2>3
    <3> QED
      BY <1>5, <3>1
  <2>5. \A i \in DOMAIN list : nodes[list[i]].type = "declaration" => i = 1
    BY <1>4, <1>9 DEF Placed
  <2>6. Head(list) = list[1] /\ Head(s) = s[1]
    BY <1>4, <1>5, <2>2, <2>4
  <2> QED
    BY <2>1, <2>2, <2>4, <2>5, <2>6
<1>11. Xml!DeclarationIsSet'
  <2>1. CASE p = 0
    <3>1. children'[0] = list /\ nodes' = nodes /\ s = children[0]
      BY <1>1, <1>7, <2>1 DEF Changed, s
    <3>2. declared' # Xml!None =>
            {i \in DOMAIN list : nodes[list[i]].type = "declaration"} = {1} /\ nodes[Head(list)].attr = declared'
      BY <1>10, <2>1, <3>1 DEF Tree, Xml!DeclarationIsSet, Xml!Document
    <3> QED
      BY <3>1, <3>2 DEF Xml!DeclarationIsSet, Xml!Declarations, Xml!Document
  <2>2. CASE p # 0
    <3>1. children'[0] = children[0]
      BY <1>4, <1>7, <2>2 DEF Changed
    <3>2. CASE declared' = declared
      BY <1>1, <3>1, <3>2, DeclarationStays
    <3>3. CASE declared' = Xml!None
      BY <3>3 DEF Xml!DeclarationIsSet
    <3> QED
      BY <1>1, <3>2, <3>3 DEF Xml!StillDeclared
  <2> QED
    BY <2>1, <2>2
<1>12. Placed(p, list, nodes')
  <2> SUFFICES ASSUME NEW i \in DOMAIN list
               PROVE  /\ nodes[list[i]].type = "declaration" => p = 0 /\ i = 1
                      /\ nodes[list[i]].type = "element" /\ p = 0 => list[i] = 1
    BY <1>1 DEF Placed
  <2>1. PICK j \in DOMAIN s : list[i] = s[j] /\ (i # 1 => j # 1)
    BY <1>9
  <2> QED
    BY <1>4, <2>1 DEF Placed
<1>13. Tree' /\ Follows
  BY <1>2, <1>6, <1>7, <1>8, <1>11, <1>12, TreeChanges
<1>14. ASSUME childLoop.on
       PROVE  /\ \E K \in SUBSET childLoop.kept : childLoop' = [childLoop EXCEPT !.kept = K]
              /\ childLoop'.kept = childLoop.kept \ {n}
  <2>1. childLoop \in Xml!ChildLoops
    BY <1>14, LoopTyped
  <2>2. childLoop' = [childLoop EXCEPT !.kept = childLoop.kept \ {n}]
    BY <1>1, <1>14
  <2>3. childLoop.kept \ {n} \in SUBSET childLoop.kept
    OBVIOUS
  <2>4. childLoop'.kept = childLoop.kept \ {n}
    BY <2>1, <2>2 DEF Xml!ChildLoops
  <2> QED
    BY <2>2, <2>3, <2>4
<1>15. childLoop.on => childLoop'.kept \subseteq Xml!Range(children'[childLoop.parent])
  <2> SUFFICES ASSUME childLoop.on PROVE childLoop.kept \ {n} \subseteq Xml!Range(children'[childLoop.parent])
    BY <1>14
  <2>1. childLoop.parent \in DOMAIN children
    BY LoopTyped, Lists
  <2>2. childLoop.kept \subseteq Xml!Range(children[childLoop.parent])
    BY DEF Looping, Xml!LoopFollows
  <2>3. CASE childLoop.parent = p
    BY <1>6, <1>7, <2>2, <2>3 DEF Changed, s
  <2>4. CASE childLoop.parent # p
    BY <1>7, <2>1, <2>2, <2>4 DEF Changed
  <2> QED
    BY <2>3, <2>4
<1> QED
  BY <1>1, <1>7, <1>13, <1>14, <1>15, EditKeeps

(* The nodes change their values or attributes only. *)
LEMMA LabelKeeps ==
  ASSUME Tree, Doing, Looping, Extends, Len(nodes') = Len(nodes), Xml!DeclarationIsSet', doc # "none",
         UNCHANGED <<doc, using, children, childLoop, ended, source>>
  PROVE  Keeps
<1>1. DOMAIN nodes' = DOMAIN nodes
  BY DEF Extends, Tree
<1>2. ASSUME NEW p \in DOMAIN children PROVE Placed(p, children[p], nodes')
  <2>1. \A i \in DOMAIN children[p] : children[p][i] \in DOMAIN nodes
    BY Lists DEF Xml!Range
  <2> QED
    BY <2>1, ListsPlaced DEF Placed, Extends
<1>3. Xml!TopIsOrdered'
  BY <1>2 DEF Xml!TopIsOrdered, Xml!Document, Placed
<1>4. Xml!EachNodeOnce'
  BY DEF Tree, Xml!EachNodeOnce
<1>5. Tree'
  BY <1>1, <1>3, <1>4 DEF Tree, Extends
<1>6. Follows
  BY DEF Follows, Ordered
<1>7. childLoop.on => childLoop'.kept \subseteq Xml!Range(children'[childLoop.parent])
  BY DEF Looping, Xml!LoopFollows
<1> QED
  BY <1>5, <1>6, <1>7, EditKeeps

(* node:value(text). *)
LEMMA SetValueKeeps ==
  ASSUME Tree, Doing, Looping, NEW n, NEW text \in Texts, Xml!SetValue(n, text)
  PROVE  Keeps
<1>1. /\ n \in DOMAIN nodes /\ doc # "none" /\ nodes' = [nodes EXCEPT ![n].value = text]
      /\ UNCHANGED <<doc, using, children, childLoop, ended, declared, source>>
  BY DEF Xml!SetValue, Xml!Uses, Doing, Xml!NeedsDocument
<1>2. nodes \in Seq(Xml!AllNodes) /\ Len(nodes) \in Nat /\ DOMAIN nodes = 1..Len(nodes) /\ nodes[n] \in Xml!AllNodes
  BY <1>1 DEF Tree
<1>3. [nodes[n] EXCEPT !.value = text] \in Xml!AllNodes
  BY <1>2 DEF Xml!AllNodes
<1>4. /\ nodes' \in Seq(Xml!AllNodes) /\ Len(nodes') = Len(nodes) /\ DOMAIN nodes' = DOMAIN nodes
      /\ \A k \in DOMAIN nodes : nodes'[k] = IF k = n THEN [nodes[n] EXCEPT !.value = text] ELSE nodes[k]
  BY <1>1, <1>2, <1>3
<1>5. ASSUME NEW k \in DOMAIN nodes
      PROVE  /\ nodes'[k].type = nodes[k].type /\ nodes'[k].name = nodes[k].name /\ nodes'[k].attr = nodes[k].attr
             /\ nodes'[k].value \in {text, nodes[k].value}
  BY <1>2, <1>4 DEF Xml!AllNodes
<1>6. Extends
  <2>1. ASSUME NEW k \in DOMAIN nodes, nodes'[k].type \in Leaves
        PROVE  nodes'[k].name = Xml!None /\ nodes'[k].value \in Texts
    BY <1>5, <2>1 DEF Tree
  <2>2. Len(nodes) <= MaxNodes
    BY DEF Tree
  <2> QED
    BY <1>2, <1>4, <1>5, <2>1, <2>2 DEF Extends
<1>7. Xml!DeclarationIsSet'
  BY <1>1, <1>5, DeclarationStays
<1> QED
  BY <1>1, <1>4, <1>6, <1>7, LabelKeeps

(* node:attr and node:delattr. *)
LEMMA SetAttrKeeps ==
  ASSUME Tree, Doing, Looping, NEW n, NEW attr \in Attributes \cup {Xml!None}, Xml!SetAttr(n, attr)
  PROVE  Keeps
<1>1. /\ n \in DOMAIN nodes /\ doc # "none" /\ nodes' = [nodes EXCEPT ![n].attr = attr]
      /\ declared' = IF Xml!StillDeclared(n) = declared THEN declared ELSE attr
      /\ UNCHANGED <<doc, using, children, childLoop, ended, source>>
  BY DEF Xml!SetAttr, Xml!Uses, Doing, Xml!NeedsDocument
<1>2. nodes \in Seq(Xml!AllNodes) /\ Len(nodes) \in Nat /\ DOMAIN nodes = 1..Len(nodes) /\ nodes[n] \in Xml!AllNodes
  BY <1>1 DEF Tree
<1>3. [nodes[n] EXCEPT !.attr = attr] \in Xml!AllNodes
  BY <1>2 DEF Xml!AllNodes
<1>4. /\ nodes' \in Seq(Xml!AllNodes) /\ Len(nodes') = Len(nodes) /\ DOMAIN nodes' = DOMAIN nodes
      /\ \A k \in DOMAIN nodes : nodes'[k] = IF k = n THEN [nodes[n] EXCEPT !.attr = attr] ELSE nodes[k]
  BY <1>1, <1>2, <1>3
<1>5. ASSUME NEW k \in DOMAIN nodes
      PROVE  /\ nodes'[k].type = nodes[k].type /\ nodes'[k].name = nodes[k].name
             /\ nodes'[k].attr = (IF k = n THEN attr ELSE nodes[k].attr)
             /\ nodes'[k].value = nodes[k].value
  BY <1>2, <1>4 DEF Xml!AllNodes
<1>6. Extends
  BY <1>2, <1>4, <1>5 DEF Extends, Tree
<1> DEFINE top == children[0]
<1>7. top \in Seq(DOMAIN nodes) /\ Placed(0, top, nodes) /\ DOMAIN top = 1..Len(top)
      /\ \A i \in DOMAIN top : top[i] \in DOMAIN nodes
  BY Lists, ListsPlaced DEF Xml!Range
<1>8. Xml!DeclarationIsSet'
  <2> SUFFICES ASSUME declared' # Xml!None
               PROVE  /\ {i \in DOMAIN top : nodes'[top[i]].type = "declaration"} = {1}
                      /\ nodes'[Head(top)].attr = declared'
    BY <1>1 DEF Xml!DeclarationIsSet, Xml!Declarations, Xml!Document
  <2>1. declared # Xml!None
    BY <1>1 DEF Xml!StillDeclared
  <2>2. {i \in DOMAIN top : nodes[top[i]].type = "declaration"} = {1} /\ nodes[Head(top)].attr = declared
    BY <2>1 DEF Tree, Xml!DeclarationIsSet, Xml!Declarations, Xml!Document
  <2>3. 1 \in DOMAIN top
    BY <2>2
  <2>4. Head(top) = top[1] /\ top[1] \in DOMAIN nodes /\ nodes[top[1]].type = "declaration"
    BY <1>7, <2>2, <2>3
  <2>5. {i \in DOMAIN top : nodes'[top[i]].type = "declaration"} = {1}
    BY <1>5, <1>7, <2>2
  <2>6. CASE n = top[1]
    <3>1. Xml!Contains(children[0], n)
      BY <1>7, <2>3, <2>6 DEF Xml!Contains
    <3>2. Xml!StillDeclared(n) = Xml!None
      BY <2>4, <2>6, <3>1 DEF Xml!StillDeclared, Xml!Document
    <3> QED
      BY <1>1, <1>5, <2>1, <2>4, <2>5, <2>6, <3>2
  <2>7. CASE n # top[1]
    <3>1. ~(Xml!Contains(children[0], n) /\ nodes[n].type = "declaration")
      BY <1>7, <2>7 DEF Xml!Contains, Placed
    <3>2. Xml!StillDeclared(n) = declared
      BY <3>1 DEF Xml!StillDeclared, Xml!Document
    <3> QED
      BY <1>1, <1>5, <2>2, <2>4, <2>5, <2>7, <3>2
  <2> QED
    BY <2>6, <2>7
<1> QED
  BY <1>1, <1>4, <1>6, <1>8, LabelKeeps

(* Steps that leave the nodes alone. *)
LEMMA TreeStays ==
  ASSUME Tree, UNCHANGED <<nodes, children, declared>>
  PROVE  Tree'
BY DEF Tree, Xml!EachNodeOnce, Xml!TopIsOrdered, Xml!DeclarationIsSet, Xml!Declarations

(* So it is with the loop. *)
LEMMA LoopStays ==
  ASSUME Looping, UNCHANGED <<nodes, children, childLoop>>
  PROVE  Looping' /\ Xml!MetOnce
<1>1. Xml!ChildLoops' = Xml!ChildLoops
  BY DEF Xml!ChildLoops
<1>2. Xml!LoopFollows'
  BY DEF Looping, Xml!LoopFollows, Xml!Parents, Xml!Fits, Xml!Before
<1>3. Xml!MetOnce
  BY DEF Xml!MetOnce
<1> QED
  BY <1>1, <1>2, <1>3 DEF Looping

(* Collecting the document, and questions. *)
LEMMA QuestionKeeps ==
  ASSUME Tree, Doing, Looping, Xml!Drop \/ Xml!Collect \/ Xml!Root \/ \E n \in 1..MaxNodes : Xml!AskSibling(n)
  PROVE  Keeps
<1>1. UNCHANGED <<nodes, children, childLoop, declared>>
  BY DEF Xml!Drop, Xml!Collect, Xml!Root, Xml!AskSibling
<1>2. Tree' /\ Looping' /\ Xml!MetOnce
  BY <1>1, TreeStays, LoopStays
<1>3. Doing'
  BY <1>1 DEF Doing, Xml!NeedsDocument, Xml!Drop, Xml!Collect, Xml!Root, Xml!AskSibling, Xml!Holds, Xml!Runs, Xml!Uses
<1> QED
  BY <1>2, <1>3 DEF Keeps

(* No loop is under way before there is a document. *)
LEMMA NoLoopYet ==
  ASSUME Doing, Looping, ~using
  PROVE  childLoop = Xml!NoLoop
BY DEF Doing, Looping, Xml!NeedsDocument, Xml!ChildLoops

(* A document that is new, with its loop not begun. *)
LEMMA FreshKeeps ==
  ASSUME Tree', Doing', ~childLoop.on, childLoop' = Xml!NoLoop
  PROVE  Keeps
<1>1. Looping'
  BY DEF Looping, Xml!LoopFollows, Xml!NoLoop
<1>2. Xml!MetOnce
  BY DEF Xml!MetOnce
<1> QED
  BY <1>1, <1>2 DEF Keeps

(* Trees without a node. *)
LEMMA EmptyTree ==
  /\ nodes = <<>> /\ children = Xml!TopLevel(<<>>, 0) /\ declared = Xml!None => Tree
  /\ nodes' = <<>> /\ children' = Xml!TopLevel(<<>>, 0) /\ declared' = Xml!None => Tree'
<1> DEFINE c == Xml!TopLevel(<<>>, 0)
<1>1. DOMAIN c = {0} /\ c[0] = <<>> /\ c \in [0..0 -> Seq({})]
  BY DEF Xml!TopLevel, Xml!Document
<1>2. Len(<<>>) = 0 /\ DOMAIN <<>> = {} /\ <<>> \in Seq(Xml!AllNodes) /\ 0 <= MaxNodes
  BY XmlBounds
<1> HIDE DEF c
<1>3. ASSUME nodes = <<>>, children = c, declared = Xml!None PROVE Tree
  BY <1>1, <1>2, <1>3 DEF Tree, Xml!EachNodeOnce, Xml!TopIsOrdered, Xml!DeclarationIsSet
<1>4. ASSUME nodes' = <<>>, children' = c, declared' = Xml!None PROVE Tree'
  BY <1>1, <1>2, <1>4 DEF Tree, Xml!EachNodeOnce, Xml!TopIsOrdered, Xml!DeclarationIsSet
<1> QED
  BY <1>3, <1>4 DEF c

(* The next document. *)
LEMMA AgainKeeps ==
  ASSUME Tree, Doing, Looping, Xml!Again
  PROVE  Keeps
<1>1. /\ doc' = "none" /\ ~using /\ nodes' = <<>> /\ children' = Xml!TopLevel(<<>>, 0) /\ declared' = Xml!None
      /\ UNCHANGED <<using, childLoop, ended, source>>
  BY DEF Xml!Again
<1>2. childLoop = Xml!NoLoop
  BY <1>1, NoLoopYet
<1>3. Tree'
  BY <1>1, EmptyTree
<1>4. Doing'
  BY <1>1, <1>2 DEF Doing, Xml!NeedsDocument, Xml!NoLoop
<1> QED
  BY <1>1, <1>2, <1>3, <1>4, FreshKeeps DEF Xml!NoLoop

(* rapidxml.new(name). *)
LEMMA NewKeeps ==
  ASSUME Tree, Doing, Looping, NEW name \in Names, Xml!New(name)
  PROVE  Keeps
<1> DEFINE node == Xml!Node("element", name, Xml!None)
<1>1. /\ doc = "none" /\ doc' = "held" /\ nodes' = <<node>> /\ childLoop' = Xml!NoLoop
      /\ children' = Xml!TopLevel([n \in DOMAIN <<node>> |-> n], Len(<<node>>))
      /\ UNCHANGED <<using, ended, declared, source>>
  BY DEF Xml!New, Xml!Made
<1>2. ~using /\ declared = Xml!None /\ childLoop = Xml!NoLoop
  BY <1>1, NoLoopYet DEF Doing, Xml!NeedsDocument
<1>3. node \in Xml!AllNodes /\ node.type = "element"
  BY DEF Xml!Node, Xml!AllNodes
<1> HIDE DEF node
<1>4. Len(<<node>>) = 1 /\ [n \in DOMAIN <<node>> |-> n] = <<1>>
  OBVIOUS
<1>5. /\ nodes' \in Seq(Xml!AllNodes) /\ Len(nodes') = 1 /\ DOMAIN nodes' = {1} /\ nodes'[1] = node
  BY <1>1, <1>3
<1>6. DOMAIN children' = 0..1 /\ children'[0] = <<1>> /\ children'[1] = <<>>
  BY <1>1, <1>4 DEF Xml!TopLevel, Xml!Document
<1>7. children' \in [0..1 -> Seq({1})]
  <2>1. <<1>> \in Seq({1}) /\ <<>> \in Seq({1})
    OBVIOUS
  <2>2. \A p \in 0..1 : p = 0 \/ p = 1
    OBVIOUS
  <2>3. children' = [p \in 0..1 |-> children'[p]]
    BY <1>1, <1>4 DEF Xml!TopLevel
  <2> QED
    BY <1>6, <2>1, <2>2, <2>3
<1>8. \A p \in DOMAIN children' : \A i \in DOMAIN children'[p] : p = 0 /\ i = 1 /\ children'[p][i] = 1
  BY <1>6
<1>9. Xml!EachNodeOnce' /\ Xml!TopIsOrdered'
  BY <1>3, <1>5, <1>8 DEF Xml!EachNodeOnce, Xml!TopIsOrdered, Xml!Document
<1>10. Tree'
  BY <1>1, <1>2, <1>3, <1>5, <1>7, <1>9, XmlBounds DEF Tree, Xml!DeclarationIsSet
<1>11. Doing'
  BY <1>1, <1>2 DEF Doing, Xml!NeedsDocument, Xml!NoLoop
<1> QED
  BY <1>1, <1>2, <1>10, <1>11, FreshKeeps DEF Xml!NoLoop

(* rapidxml.parse(data, types). *)
LEMMA ParseKeeps ==
  ASSUME Tree, Doing, Looping, NEW name \in Names, NEW text \in Texts, NEW attr \in Attributes \cup {Xml!None},
         Xml!Parse(name, text, attr)
  PROVE  Keeps
<1> DEFINE element == Xml!Node("element", name, text)
           data == Xml!Node("data", Xml!None, text)
           decl == Xml!Declaration(attr)
<1>1. doc = "none" /\ MaxNodes >= 3 /\ UNCHANGED <<using, childLoop>>
  BY DEF Xml!Parse
<1>2. ~using /\ declared = Xml!None /\ childLoop = Xml!NoLoop
  BY <1>1, NoLoopYet DEF Doing, Xml!NeedsDocument
<1>3. CASE source = "cut"
  <2>1. ended' = "string" /\ UNCHANGED <<doc, nodes, children, declared, source>>
    BY <1>3 DEF Xml!Parse
  <2>2. Tree'
    BY <2>1, TreeStays
  <2>3. Doing'
    BY <1>1, <2>1 DEF Doing, Xml!NeedsDocument
  <2> QED
    BY <1>1, <1>2, <2>2, <2>3, FreshKeeps DEF Xml!NoLoop
<1>4. CASE source # "cut"
  <2>1. /\ doc' = "held" /\ source' = "cut" /\ declared' = attr /\ UNCHANGED ended
        /\ nodes' = IF attr = Xml!None THEN <<element, data>> ELSE <<element, data, decl>>
        /\ children' = [Xml!TopLevel(IF attr = Xml!None THEN <<1>> ELSE <<3, 1>>, Len(nodes')) EXCEPT ![1] = <<2>>]
    BY <1>4 DEF Xml!Parse
  <2>2. /\ element \in Xml!AllNodes /\ element.type = "element"
        /\ data \in Xml!AllNodes /\ data.type = "data" /\ data.name = Xml!None /\ data.value = text
        /\ decl \in Xml!AllNodes /\ decl.type = "declaration" /\ decl.attr = attr
    BY XmlBounds DEF Xml!Node, Xml!Declaration, Xml!AllNodes
  <2> HIDE DEF element, data, decl
  <2>3. Doing'
    BY <1>1, <1>2, <2>1 DEF Doing, Xml!NeedsDocument, Xml!NoLoop
  <2>4. CASE attr = Xml!None
    <3>1. /\ nodes' \in Seq(Xml!AllNodes) /\ Len(nodes') = 2 /\ DOMAIN nodes' = 1..2
          /\ nodes'[1] = element /\ nodes'[2] = data
      BY <2>1, <2>2, <2>4
    <3>2. DOMAIN children' = 0..2 /\ children'[0] = <<1>> /\ children'[1] = <<2>> /\ children'[2] = <<>>
      BY <2>1, <2>4, <3>1 DEF Xml!TopLevel, Xml!Document
    <3>3. children' \in [0..2 -> Seq(1..2)]
      <4>1. <<1>> \in Seq(1..2) /\ <<2>> \in Seq(1..2) /\ <<>> \in Seq(1..2)
        OBVIOUS
      <4>2. \A p \in 0..2 : p = 0 \/ p = 1 \/ p = 2
        OBVIOUS
      <4>3. children' = [p \in 0..2 |-> children'[p]]
        BY <2>1, <3>1 DEF Xml!TopLevel
      <4> QED
        BY <3>2, <4>1, <4>2, <4>3
    <3>4. \A p \in DOMAIN children' : \A i \in DOMAIN children'[p] :
            i = 1 /\ (p = 0 \/ p = 1) /\ children'[p][i] = p + 1
      BY <3>2
    <3>5. Xml!EachNodeOnce'
      BY <3>4 DEF Xml!EachNodeOnce
    <3>6. Xml!TopIsOrdered'
      BY <2>2, <3>1, <3>4 DEF Xml!TopIsOrdered, Xml!Document
    <3>7. Tree'
      <4>1. \A n \in DOMAIN nodes' : nodes'[n].type \in Leaves => nodes'[n].name = Xml!None /\ nodes'[n].value \in Texts
        <5>1. \A n \in DOMAIN nodes' : n = 1 \/ n = 2
          BY <3>1
        <5> QED
          BY <2>2, <3>1, <5>1, XmlBounds
      <4>2. Len(nodes') <= MaxNodes
        BY <1>1, <3>1, XmlBounds
      <4> QED
        BY <2>1, <2>4, <3>1, <3>3, <3>5, <3>6, <4>1, <4>2 DEF Tree, Xml!DeclarationIsSet
    <3> QED
      BY <1>1, <1>2, <2>3, <3>7, FreshKeeps DEF Xml!NoLoop
  <2>5. CASE attr # Xml!None
    <3>1. /\ nodes' \in Seq(Xml!AllNodes) /\ Len(nodes') = 3 /\ DOMAIN nodes' = 1..3
          /\ nodes'[1] = element /\ nodes'[2] = data /\ nodes'[3] = decl
      BY <2>1, <2>2, <2>5
    <3>2. /\ DOMAIN children' = 0..3 /\ children'[0] = <<3, 1>> /\ children'[1] = <<2>>
          /\ children'[2] = <<>> /\ children'[3] = <<>>
      BY <2>1, <2>5, <3>1 DEF Xml!TopLevel, Xml!Document
    <3>3. children' \in [0..3 -> Seq(1..3)]
      <4>1. <<3, 1>> \in Seq(1..3) /\ <<2>> \in Seq(1..3) /\ <<>> \in Seq(1..3)
        OBVIOUS
      <4>2. \A p \in 0..3 : p = 0 \/ p = 1 \/ p = 2 \/ p = 3
        OBVIOUS
      <4>3. children' = [p \in 0..3 |-> children'[p]]
        BY <2>1, <3>1 DEF Xml!TopLevel
      <4> QED
        BY <3>2, <4>1, <4>2, <4>3
    <3>4. \A p \in DOMAIN children' : \A i \in DOMAIN children'[p] :
            \/ p = 0 /\ i = 1 /\ children'[p][i] = 3
            \/ p = 0 /\ i = 2 /\ children'[p][i] = 1
            \/ p = 1 /\ i = 1 /\ children'[p][i] = 2
      BY <3>2
    <3>5. Xml!EachNodeOnce'
      BY <3>4 DEF Xml!EachNodeOnce
    <3>6. Xml!TopIsOrdered'
      BY <2>2, <3>1, <3>4 DEF Xml!TopIsOrdered, Xml!Document
    <3>7. Xml!DeclarationIsSet'
      <4>1. {i \in DOMAIN <<3, 1>> : nodes'[<<3, 1>>[i]].type = "declaration"} = {1}
        <5>1. DOMAIN <<3, 1>> = {1, 2} /\ <<3, 1>>[1] = 3 /\ <<3, 1>>[2] = 1
          OBVIOUS
        <5> QED
          BY <2>2, <3>1, <5>1
      <4>2. Head(<<3, 1>>) = 3
        OBVIOUS
      <4> QED
        BY <2>1, <2>2, <3>1, <3>2, <4>1, <4>2 DEF Xml!DeclarationIsSet, Xml!Declarations, Xml!Document
    <3>8. Tree'
      <4>1. \A n \in DOMAIN nodes' : nodes'[n].type \in Leaves => nodes'[n].name = Xml!None /\ nodes'[n].value \in Texts
        <5>1. \A n \in DOMAIN nodes' : n = 1 \/ n = 2 \/ n = 3
          BY <3>1
        <5> QED
          BY <2>2, <3>1, <5>1, XmlBounds
      <4>2. Len(nodes') <= MaxNodes
        BY <1>1, <3>1, XmlBounds
      <4> QED
        BY <3>1, <3>3, <3>5, <3>6, <3>7, <4>1, <4>2 DEF Tree
    <3> QED
      BY <1>1, <1>2, <2>3, <3>8, FreshKeeps DEF Xml!NoLoop
  <2> QED
    BY <2>4, <2>5
<1> QED
  BY <1>3, <1>4

-----------------------------------------------------------------------------
(* XML documents: the loop over children(). *)

(* for child in node:children(name). *)
LEMMA StartLoopKeeps ==
  ASSUME Tree, Doing, Looping, NEW p, NEW name \in Names \cup {Xml!None}, Xml!StartLoop(p, name)
  PROVE  Keeps
<1>1. /\ p \in DOMAIN nodes /\ using /\ ~childLoop.on
      /\ childLoop' = [on |-> TRUE, parent |-> p, name |-> name, last |-> 0,
                       kept |-> {n \in Xml!Range(children[p]) : Xml!Fits(n, name)}, seen |-> {}]
      /\ UNCHANGED <<doc, using, nodes, children, ended, declared, source>>
  BY DEF Xml!StartLoop, Xml!Uses
<1> DEFINE K == {n \in Xml!Range(children[p]) : Xml!Fits(n, name)}
<1>2. p \in DOMAIN children /\ Xml!Range(children[p]) \subseteq DOMAIN nodes
  BY <1>1, Lists
<1>3. K \in SUBSET DOMAIN nodes /\ K \subseteq Xml!Range(children[p]) /\ \A n \in K : Xml!Fits(n, name)
  BY <1>2
<1>4. /\ childLoop'.on = TRUE /\ childLoop'.parent = p /\ childLoop'.name = name /\ childLoop'.last = 0
      /\ childLoop'.kept = K /\ childLoop'.seen = {}
  BY <1>1
<1>5. childLoop' \in Xml!ChildLoops'
  BY <1>1, <1>3 DEF Xml!ChildLoops
<1> HIDE DEF K
<1>6. \A n \in K : name = Xml!None \/ nodes[n].name = name
  BY <1>3 DEF Xml!Fits
<1>7. Xml!LoopFollows'
  BY <1>1, <1>3, <1>4, <1>6 DEF Xml!LoopFollows, Xml!Fits
<1>8. Tree'
  BY <1>1, TreeStays
<1>9. Doing'
  BY <1>1 DEF Doing, Xml!NeedsDocument
<1>10. Xml!MetOnce
  BY <1>1 DEF Xml!MetOnce
<1> QED
  BY <1>5, <1>7, <1>8, <1>9, <1>10 DEF Keeps, Looping

(* The places of a list from which the loop goes on. *)
Rest(list, from, name) == {i \in from .. Len(list) : Xml!Fits(list[i], name)}

(* Whom the loop has met, and whom it has not, by the place of the node it  *)
(* met last: 0 before the first one.                                       *)
Met(list, k, kept, seen) ==
  /\ \A i \in DOMAIN list : list[i] \in seen => i <= k
  /\ \A i \in DOMAIN list : list[i] \in kept /\ i <= k => list[i] \in seen

(* Where the loop is in the list of children that it goes through. *)
LEMMA LoopIsAt ==
  ASSUME Tree, Looping, childLoop.on, childLoop.last = 0 \/ Xml!Parents(childLoop.last) # {},
         NEW list, list = children[childLoop.parent]
  PROVE  LET k == Xml!From(list) - 1
         IN /\ k \in 0..Len(list) /\ Xml!From(list) = k + 1
            /\ list = IF childLoop.last = 0 THEN children[childLoop.parent]
                                            ELSE children[Xml!ParentOf(childLoop.last)]
            /\ Met(list, k, childLoop.kept, childLoop.seen)
<1> DEFINE last == childLoop.last
<1>1. childLoop.parent \in DOMAIN children /\ list \in Seq(DOMAIN nodes) /\ OnceIn(list)
      /\ DOMAIN list = 1..Len(list) /\ Len(list) \in Nat
  BY LoopTyped, Lists
<1>2. CASE last = 0
  <2>1. Xml!From(list) = 1 /\ childLoop.seen = {}
    BY <1>2 DEF Xml!From, Looping, Xml!LoopFollows
  <2> QED
    BY <1>1, <1>2, <2>1 DEF Met
<1>3. CASE last # 0
  <2> DEFINE p == Xml!ParentOf(last)
             k == Xml!Place(last, children[p])
  <2>1. p \in DOMAIN children /\ k \in 1 .. Len(children[p]) /\ children[p][k] = last
    BY <1>3, ParentIs
  <2>2. last \in Xml!Range(children[p])
    <3>1. k \in DOMAIN children[p]
      BY <2>1, Lists
    <3> QED
      BY <2>1, <3>1 DEF Xml!Range
  <2>3. last \in Xml!Range(list)
    BY <1>3 DEF Looping, Xml!LoopFollows
  <2>4. p = childLoop.parent
    BY <1>1, <2>1, <2>2, <2>3, Lists
  <2>5. Xml!From(list) = k + 1
    BY <1>3, <2>4 DEF Xml!From
  <2>6. k \in DOMAIN list /\ list[k] = last
    BY <1>1, <2>1, <2>4
  <2>7. /\ \A n \in childLoop.seen : ~Xml!Before(list, last, n)
        /\ \A n \in childLoop.kept : n = last \/ Xml!Before(list, n, last) => n \in childLoop.seen
    BY <1>3 DEF Looping, Xml!LoopFollows
  <2>8. children[p] = list
    BY <2>4
  <2> HIDE DEF k, p, last
  <2>9. \A i \in DOMAIN list : (Xml!Before(list, last, list[i]) <=> k < i) /\ (Xml!Before(list, list[i], last) <=> i < k)
    BY <1>1, <2>6, OneBefore
  <2>10. \A i \in DOMAIN list : i <= k <=> ~(k < i)
    BY <1>1, <2>6
  <2>11. \A i \in DOMAIN list : i <= k <=> i = k \/ i < k
    BY <1>1, <2>6
  <2>12. Met(list, k, childLoop.kept, childLoop.seen)
    BY <2>6, <2>7, <2>9, <2>10, <2>11 DEF Met
  <2>13. k \in 0..Len(list) /\ Xml!From(list) - 1 = k
    BY <1>1, <2>5, <2>6
  <2> QED
    BY <1>3, <2>5, <2>8, <2>12, <2>13 DEF p, last
<1> QED
  BY <1>2, <1>3

(* The loop ends: it has met everyone who stayed. *)
LEMMA LoopEnds ==
  ASSUME Tree, Looping, childLoop.on, NEW list, list = children[childLoop.parent],
         NEW k \in 0..Len(list), Met(list, k, childLoop.kept, childLoop.seen),
         Rest(list, k + 1, childLoop.name) = {}
  PROVE  childLoop.kept \subseteq childLoop.seen
<1> SUFFICES ASSUME NEW n \in childLoop.kept PROVE n \in childLoop.seen
  OBVIOUS
<1>1. n \in Xml!Range(list) /\ Xml!Fits(n, childLoop.name)
  BY DEF Looping, Xml!LoopFollows
<1>2. PICK i \in DOMAIN list : list[i] = n
  BY <1>1 DEF Xml!Range
<1>3. list \in Seq(DOMAIN nodes)
  BY LoopTyped, Lists
<1>4. i \in 1..Len(list) /\ Len(list) \in Nat
  BY <1>2, <1>3
<1>5. ~(i \in k + 1 .. Len(list))
  BY <1>1, <1>2 DEF Rest
<1>6. i <= k
  BY <1>4, <1>5
<1> QED
  BY <1>2, <1>6 DEF Met

(* The loop meets the next one. *)
LEMMA LoopMeets ==
  ASSUME Tree, Doing, Looping, childLoop.on, NEW list, list = children[childLoop.parent],
         NEW k \in 0..Len(list), Met(list, k, childLoop.kept, childLoop.seen),
         NEW i \in Rest(list, k + 1, childLoop.name), \A j \in Rest(list, k + 1, childLoop.name) : i <= j,
         childLoop' = [childLoop EXCEPT !.last = list[i], !.seen = @ \cup {list[i]}],
         UNCHANGED <<nodes, children>>
  PROVE  Looping' /\ childLoop'.on /\ childLoop'.last \notin childLoop.seen
<1> DEFINE next == list[i]
<1>1. list \in Seq(DOMAIN nodes) /\ OnceIn(list) /\ DOMAIN list = 1..Len(list) /\ Len(list) \in Nat
      /\ \A j \in DOMAIN list : list[j] \in DOMAIN nodes
  BY LoopTyped, Lists DEF Xml!Range
<1>2. i \in DOMAIN list /\ i > k /\ next \in DOMAIN nodes
  BY <1>1 DEF Rest
<1>3. childLoop \in Xml!ChildLoops
  BY LoopTyped
<1>4. 0 \notin DOMAIN nodes
  BY Lists
<1>5. /\ childLoop' \in Xml!ChildLoops' /\ childLoop'.on /\ childLoop'.parent = childLoop.parent
      /\ childLoop'.name = childLoop.name /\ childLoop'.kept = childLoop.kept
      /\ childLoop'.last = next /\ childLoop'.seen = childLoop.seen \cup {next}
  BY <1>2, <1>3 DEF Xml!ChildLoops
<1> HIDE DEF next
<1>6. next \notin childLoop.seen
  <2>1. ~(i <= k)
    BY <1>1, <1>2
  <2> QED
    BY <1>2, <2>1 DEF Met, next
<1>7. \A j \in DOMAIN list : (Xml!Before(list, next, list[j]) <=> i < j) /\ (Xml!Before(list, list[j], next) <=> j < i)
  BY <1>1, <1>2, OneBefore DEF next
<1>8. childLoop.kept \subseteq Xml!Range(list) /\ \A n \in childLoop.kept : Xml!Fits(n, childLoop.name)
  BY DEF Looping, Xml!LoopFollows
<1>9. ASSUME NEW n \in childLoop.seen \cup {next}, Xml!Before(list, next, n) PROVE FALSE
  <2>1. n \in Xml!Range(list)
    BY <1>1, <1>9, OneBefore
  <2>2. PICK j \in DOMAIN list : list[j] = n
    BY <2>1 DEF Xml!Range
  <2>3. i < j
    BY <1>7, <1>9, <2>2
  <2>4. ~(j <= k) /\ j # i
    BY <1>1, <1>2, <2>3
  <2>5. n # next
    BY <1>1, <1>2, <2>2, <2>4 DEF OnceIn, next
  <2> QED
    BY <1>9, <2>2, <2>4, <2>5 DEF Met
<1>10. ASSUME NEW n \in childLoop.kept, n = next \/ Xml!Before(list, n, next)
       PROVE  n \in childLoop.seen \cup {next}
  <2> SUFFICES ASSUME n # next PROVE n \in childLoop.seen
    OBVIOUS
  <2>1. PICK j \in DOMAIN list : list[j] = n
    BY <1>8 DEF Xml!Range
  <2>2. j < i
    BY <1>7, <1>10, <2>1
  <2>3. ~(j \in k + 1 .. Len(list))
    <3>1. j \in k + 1 .. Len(list) => j \in Rest(list, k + 1, childLoop.name)
      BY <1>8, <2>1 DEF Rest
    <3>2. ~(i <= j)
      BY <1>1, <1>2, <2>2
    <3> QED
      BY <3>1, <3>2
  <2>4. j <= k
    BY <1>1, <2>3
  <2> QED
    BY <2>1, <2>4 DEF Met
<1>11. next \in Xml!Range(list)
  BY <1>2 DEF Xml!Range, next
<1>12. \A n \in childLoop.kept : childLoop.name = Xml!None \/ nodes[n].name = childLoop.name
  BY <1>8 DEF Xml!Fits
<1>13. next # 0
  BY <1>2, <1>4
<1>14. Xml!LoopFollows'
  BY <1>5, <1>8, <1>9, <1>10, <1>11, <1>12, <1>13 DEF Xml!LoopFollows, Xml!Fits
<1> QED
  BY <1>5, <1>6, <1>14 DEF Looping

(* One turn of the loop. *)
LEMMA NextChildKeeps ==
  ASSUME Tree, Doing, Looping, Xml!NextChild
  PROVE  Keeps
<1>1. childLoop.on /\ UNCHANGED <<doc, using, nodes, children, declared, source>>
  BY DEF Xml!NextChild
<1>2. Tree'
  BY <1>1, TreeStays
<1>3. CASE childLoop.last # 0 /\ Xml!Parents(childLoop.last) = {}
  <2>1. ended' = "sibling" /\ UNCHANGED childLoop
    BY <1>3 DEF Xml!NextChild
  <2>2. Looping' /\ Xml!MetOnce
    BY <1>1, <2>1, LoopStays
  <2>3. Doing'
    BY <1>1, <2>1 DEF Doing, Xml!NeedsDocument
  <2> QED
    BY <1>2, <2>2, <2>3 DEF Keeps
<1>4. CASE ~(childLoop.last # 0 /\ Xml!Parents(childLoop.last) = {})
  <2> DEFINE list == children[childLoop.parent]
             k == Xml!From(list) - 1
             rest == Rest(list, k + 1, childLoop.name)
             i == CHOOSE j \in rest : \A m \in rest : j <= m
  <2>1. /\ k \in 0..Len(list) /\ Xml!From(list) = k + 1
        /\ list = IF childLoop.last = 0 THEN children[childLoop.parent]
                                        ELSE children[Xml!ParentOf(childLoop.last)]
        /\ Met(list, k, childLoop.kept, childLoop.seen)
    BY <1>1, <1>4, LoopIsAt
  <2>2. rest = {j \in Xml!From(list) .. Len(list) : Xml!Fits(list[j], childLoop.name)}
    BY <2>1 DEF Rest
  <2>3. /\ childLoop' = IF rest = {} THEN Xml!NoLoop
                        ELSE [childLoop EXCEPT !.last = list[i], !.seen = @ \cup {list[i]}]
        /\ UNCHANGED ended
    <3> HIDE DEF k, rest
    <3> QED
      BY <1>4, <2>1, <2>2 DEF Xml!NextChild
  <2> HIDE DEF k
  <2>4. CASE rest = {}
    <3>1. childLoop' = Xml!NoLoop
      BY <2>3, <2>4
    <3>2. childLoop.kept \subseteq childLoop.seen
      BY <1>1, <2>1, <2>4, LoopEnds
    <3>3. Looping'
      BY <3>1 DEF Looping, Xml!LoopFollows, Xml!NoLoop
    <3>4. Doing'
      BY <1>1, <2>3, <3>1 DEF Doing, Xml!NeedsDocument, Xml!NoLoop
    <3>5. Xml!MetOnce
      BY <3>1, <3>2 DEF Xml!MetOnce, Xml!NoLoop
    <3> QED
      BY <1>2, <3>3, <3>4, <3>5 DEF Keeps
  <2>5. CASE rest # {}
    <3>1. rest \in SUBSET (1..Len(list))
      BY <2>1 DEF Rest
    <3> HIDE DEF rest
    <3>2. i \in rest /\ \A j \in rest : i <= j
      BY <2>5, <3>1, LeastIndex
    <3> HIDE DEF i
    <3>3. childLoop' = [childLoop EXCEPT !.last = list[i], !.seen = @ \cup {list[i]}]
      BY <2>3, <2>5
    <3>4. Looping' /\ childLoop'.on /\ childLoop'.last \notin childLoop.seen
      BY <1>1, <2>1, <3>2, <3>3, LoopMeets DEF rest
    <3>5. Xml!MetOnce
      BY <3>4 DEF Xml!MetOnce
    <3>6. Doing'
      BY <1>1, <2>3 DEF Doing, Xml!NeedsDocument
    <3> QED
      BY <1>2, <3>4, <3>5, <3>6 DEF Keeps
  <2> QED
    BY <2>4, <2>5
<1> QED
  BY <1>3, <1>4

(* The beginning of the component. *)
LEMMA XmlInit ==
  ASSUME Xml!Init
  PROVE  Tree /\ Doing /\ Looping
<1>1. Tree
  BY EmptyTree DEF Xml!Init
<1>2. Doing /\ Looping
  BY DEF Xml!Init, Doing, Looping, Xml!NeedsDocument, Xml!LoopFollows, Xml!NoLoop
<1> QED
  BY <1>1, <1>2

(* A step of the component. *)
LEMMA XmlNextKeeps ==
  ASSUME Tree, Doing, Looping, Xml!Next
  PROVE  Keeps
<1>1. CASE \E name \in Names : Xml!New(name) \/ \E text \in Texts, attr \in Attributes \cup {Xml!None} : Xml!Parse(name, text, attr)
  BY <1>1, NewKeeps, ParseKeeps
<1>2. CASE Xml!Drop \/ Xml!Collect \/ Xml!Root
  BY <1>2, QuestionKeeps
<1>3. CASE Xml!Again
  BY <1>3, AgainKeeps
<1>4. CASE Xml!SetDeclarationRaises
  BY <1>4, SetDeclarationRaisesKeeps
<1>5. CASE \E attr \in Attributes : Xml!SetDeclaration(attr)
  BY <1>5, SetDeclarationKeeps
<1>6. ASSUME NEW n \in 1..MaxNodes,
             \/ \E node \in Xml!NewNodes : Xml!AppendNode(n, node) \/ Xml!PrependNode(n, node) \/ Xml!InsertNode(n, node)
             \/ Xml!RemoveNode(n) \/ Xml!AskSibling(n)
             \/ \E text \in Texts : Xml!SetValue(n, text)
             \/ \E attr \in Attributes \cup {Xml!None} : Xml!SetAttr(n, attr)
             \/ \E name \in Names \cup {Xml!None} : Xml!StartLoop(n, name)
      PROVE  Keeps
  <2>1. CASE \E node \in Xml!NewNodes : Xml!AppendNode(n, node) \/ Xml!PrependNode(n, node) \/ Xml!InsertNode(n, node)
    BY <2>1, NewChildKeeps
  <2>2. CASE Xml!RemoveNode(n)
    BY <2>2, RemoveNodeKeeps
  <2>3. CASE Xml!AskSibling(n)
    BY <2>3, QuestionKeeps
  <2>4. CASE \E text \in Texts : Xml!SetValue(n, text)
    BY <2>4, SetValueKeeps
  <2>5. CASE \E attr \in Attributes \cup {Xml!None} : Xml!SetAttr(n, attr)
    BY <2>5, SetAttrKeeps
  <2>6. CASE \E name \in Names \cup {Xml!None} : Xml!StartLoop(n, name)
    BY <2>6, StartLoopKeeps
  <2> QED
    BY <1>6, <2>1, <2>2, <2>3, <2>4, <2>5, <2>6
<1>7. CASE Xml!NextChild
  BY <1>7, NextChildKeeps
<1> QED
  BY <1>1, <1>2, <1>3, <1>4, <1>5, <1>6, <1>7 DEF Xml!Next

(* No step of the component. *)
LEMMA XmlStutters ==
  ASSUME Tree, Doing, Looping, UNCHANGED xmlVars
  PROVE  Keeps
<1>1. UNCHANGED <<doc, using, nodes, children, childLoop, ended, declared, source>>
  BY DEF xmlVars
<1>2. Tree' /\ Looping' /\ Xml!MetOnce
  BY <1>1, TreeStays, LoopStays
<1>3. Doing'
  BY <1>1 DEF Doing, Xml!NeedsDocument
<1> QED
  BY <1>2, <1>3 DEF Keeps

(* The documents of rapidxml.cpp, for any names, texts, attributes and      *)
(* number of nodes: no step leaves two roots or a declaration that is not   *)
(* the one set last, and a loop over children() meets no child twice and,  *)
(* when it ends, has met each that was there from its beginning to its end, *)
(* whatever its body added and removed.                                    *)
THEOREM XmlCorrect == PartsSpec => XmlSafety
<1> DEFINE I == part = "xml" => Tree /\ Doing /\ Looping
           S == part = "xml" => Xml!SafeStep
<1>1. PartsInit => I
  BY XmlInit DEF PartsInit
<1>2. I /\ [PartsNext]_partsVars => I' /\ (part = "xml" => Keeps)
  <2> SUFFICES ASSUME I, [PartsNext]_partsVars
               PROVE  part' = part /\ (part = "xml" => Keeps)
    BY DEF Keeps
  <2>1. CASE Only("zlog") /\ Zlog!Next /\ UNCHANGED <<framesVars, otlVars, xmlVars, pyVars>>
    BY <2>1 DEF Only
  <2>2. CASE Only("frames") /\ Frames!Next /\ UNCHANGED <<zlogVars, otlVars, xmlVars, pyVars>>
    BY <2>2 DEF Only
  <2>3. CASE Only("otl") /\ Otl!Next /\ UNCHANGED <<zlogVars, framesVars, xmlVars, pyVars>>
    BY <2>3 DEF Only
  <2>4. CASE Only("xml") /\ Xml!Next /\ UNCHANGED <<zlogVars, framesVars, otlVars, pyVars>>
    BY <2>4, XmlNextKeeps DEF Only
  <2>5. CASE UNCHANGED partsVars
    BY <2>5, XmlStutters DEF partsVars
  <2>6. CASE Only("python") /\ Py!Next /\ UNCHANGED <<zlogVars, framesVars, otlVars, xmlVars>>
    BY <2>6 DEF Only
  <2> QED
    BY <2>1, <2>2, <2>3, <2>4, <2>5, <2>6 DEF PartsNext
<1>3. (part = "xml" => Keeps) => S
  BY XmlInvAfter DEF Keeps, Xml!SafeStep, Xml!XmlInv
<1>4. I /\ [PartsNext]_partsVars => I' /\ [S]_partsVars
  BY <1>2, <1>3
<1> QED
  BY <1>1, <1>4, PTL DEF PartsSpec, XmlSafety

=============================================================================
