-------------------------- MODULE CidbTransferProofs --------------------------
(***************************************************************************)
(* The old database protocol, for every set of messages and every size of  *)
(* a part: what is written is as long as has been computed and is read as  *)
(* it was written, and what the parts bring to the receiver is what the    *)
(* sender has given them, as long as each recv() takes one part.           *)
(***************************************************************************)
EXTENDS CidbTransfer, SequenceTheorems, WellFoundedInduction, TLAPS

\* Induction, with sets of numbers for properties.
LEMMA SetInduction ==
    ASSUME NEW T, 0 \in T, \A n \in Nat : n \in T => n + 1 \in T
    PROVE  Nat \subseteq T
<1> DEFINE R == OpToRel(<, Nat)
           U == Nat \ T
<1>1. IsWellFoundedOn(R, Nat)
  BY NatLessThanWellFounded
<1>2. \A x, y \in Nat : <<x, y>> \in R <=> x < y
  BY DEF OpToRel
<1>3. SUFFICES ASSUME U # {} PROVE FALSE
  OBVIOUS
<1>4. U \subseteq Nat
  OBVIOUS
<1> HIDE DEF R, U
<1>5. PICK x \in U : \A y \in U : ~(<<y, x>> \in R)
  BY <1>1, <1>3, <1>4, WFMin
<1>6. x \in Nat /\ x \notin T /\ x # 0
  BY DEF U
<1>7. x - 1 \in Nat /\ x - 1 < x /\ (x - 1) + 1 = x
  BY <1>6
<1>8. x - 1 \notin U
  BY <1>2, <1>5, <1>6, <1>7, Zenon
<1> QED
  BY <1>6, <1>7, <1>8 DEF U

\* Two sequences one after the other.
LEMMA Joined ==
    ASSUME NEW S, NEW a \in Seq(S), NEW b \in Seq(S)
    PROVE  /\ a \o b \in Seq(S) /\ Len(a \o b) = Len(a) + Len(b)
           /\ \A i \in 1..Len(a) : (a \o b)[i] = a[i]
           /\ \A i \in 1..Len(b) : (a \o b)[Len(a) + i] = b[i]
<1>1. /\ a \o b \in Seq(S) /\ Len(a \o b) = Len(a) + Len(b)
      /\ \A i \in 1..Len(a) + Len(b) : (a \o b)[i] = IF i <= Len(a) THEN a[i] ELSE b[i - Len(a)]
  BY ConcatProperties
<1>2. Len(a) \in Nat /\ Len(b) \in Nat
  BY LenProperties
<1>3. ASSUME NEW i \in 1..Len(a) PROVE (a \o b)[i] = a[i]
  BY <1>1, <1>2
<1>4. ASSUME NEW i \in 1..Len(b) PROVE (a \o b)[Len(a) + i] = b[i]
  <2>1. Len(a) + i \in 1..Len(a) + Len(b) /\ ~(Len(a) + i <= Len(a)) /\ Len(a) + i - Len(a) = i
    BY <1>2
  <2> QED
    BY <1>1, <2>1
<1> QED
  BY <1>1, <1>3, <1>4

\* A part of a sequence.
LEMMA Slice ==
    ASSUME NEW S, NEW s \in Seq(S), NEW a \in Nat, NEW e \in Nat, a <= e, e <= Len(s)
    PROVE  /\ SubSeq(s, a + 1, e) \in Seq(S) /\ Len(SubSeq(s, a + 1, e)) = e - a
           /\ \A i \in 1..e - a : SubSeq(s, a + 1, e)[i] = s[a + i]
<1>1. \A i \in a + 1..e : s[i] \in S
  OBVIOUS
<1>2. a + 1 \in Int /\ e \in Int
  OBVIOUS
<1>3. /\ SubSeq(s, a + 1, e) \in Seq(S)
      /\ Len(SubSeq(s, a + 1, e)) = IF a + 1 <= e THEN e - (a + 1) + 1 ELSE 0
      /\ \A i \in 1..e - (a + 1) + 1 : SubSeq(s, a + 1, e)[i] = s[a + 1 + i - 1]
  BY <1>1, <1>2, SubSeqProperties
<1>4. e - (a + 1) + 1 = e - a /\ \A i \in 1..e - a : a + 1 + i - 1 = a + i
  OBVIOUS
<1> DEFINE t == SubSeq(s, a + 1, e)
<1> HIDE DEF t
<1> QED
  BY <1>3, <1>4 DEF t

-----------------------------------------------------------------------------
(* Numbers.                                                                *)

\* A number in digits to the base b.
LEMMA Digit ==
    ASSUME NEW b \in Nat \ {0}, NEW v \in Nat
    PROVE  v % b \in 0..b - 1 /\ v \div b \in Nat /\ v = (v % b) + b * (v \div b)
OBVIOUS

\* Two digits are enough for the numbers below the square of the base.
LEMMA TwoDigits ==
    ASSUME NEW b \in Nat \ {0}, NEW v \in 0..b * b - 1
    PROVE  v \div b \in 0..b - 1 /\ (v \div b) % b = v \div b
<1>0. b * b \in Nat /\ v \in Nat /\ v < b * b
  OBVIOUS
<1>1. v % b \in 0..b - 1 /\ v \div b \in Nat /\ v = (v % b) + b * (v \div b)
  BY <1>0, Digit
<1>2. v \div b < b
  <2>1. SUFFICES ASSUME v \div b >= b PROVE FALSE
    BY <1>1
  <2>2. b * (v \div b) >= b * b
    BY <1>1, <2>1, SMTT(20)
  <2> QED
    BY <1>0, <1>1, <2>2
<1>3. ASSUME NEW d \in 0..b - 1 PROVE d % b = d
  OBVIOUS
<1> QED
  BY <1>1, <1>2, <1>3

\* A byte of a number is a byte, and all the widths are numbers.
LEMMA Widths == /\ Byte \in Nat \ {0} /\ UShortMax \in Nat \ {0} /\ ULongMax \in Nat \ {0}
                /\ 0..Byte - 1 \subseteq Bytes
                /\ ULongMax = UShortMax * UShortMax /\ UShortMax = Byte * Byte
<1>1. Byte \in Nat \ {0} /\ 0..Byte - 1 \subseteq Bytes
  BY ByteAssumption DEF Bytes
<1>2. UShortMax \in Nat \ {0}
  BY <1>1 DEF UShortMax
<1>3. ULongMax \in Nat \ {0}
  BY <1>2 DEF ULongMax
<1> QED
  BY <1>1, <1>2, <1>3 DEF UShortMax, ULongMax

\* What two bytes count is not cut.
LEMMA ShortStays ==
    ASSUME NEW v \in Shorts
    PROVE  v % UShortMax = v
<1>1. \A u \in Nat \ {0} : \A w \in 0..u - 1 : w % u = w
  OBVIOUS
<1> QED
  BY <1>1, Widths DEF Shorts

\* A number of two bytes is read as it was written.
LEMMA UShortIs ==
    ASSUME NEW v \in Nat
    PROVE  /\ UShort(v) \in Seq(Bytes) /\ Len(UShort(v)) = 2
           /\ v \in Shorts => UShort(v)[1] + Byte * UShort(v)[2] = v
<1>1. v % Byte \in 0..Byte - 1 /\ v \div Byte \in Nat /\ v = (v % Byte) + Byte * (v \div Byte)
  BY Widths, Digit
<1>2. (v \div Byte) % Byte \in 0..Byte - 1
  BY <1>1, Widths, Digit
<1>3. v \in Shorts => (v \div Byte) % Byte = v \div Byte
  BY Widths, TwoDigits DEF Shorts
<1> DEFINE low == v % Byte
           high == (v \div Byte) % Byte
<1>4. low \in Bytes /\ high \in Bytes /\ (v \in Shorts => low + Byte * high = v)
  BY <1>1, <1>2, <1>3, Widths
<1>5. UShort(v) = <<low, high>>
  BY DEF UShort
<1> HIDE DEF low, high
<1> QED
  BY <1>4, <1>5

\* So is one of four.
LEMMA ULongIs ==
    ASSUME NEW v \in Nat
    PROVE  /\ ULong(v) \in Seq(Bytes) /\ Len(ULong(v)) = 4
           /\ v \in Longs => ULong(v)[1] + Byte * ULong(v)[2]
                             + UShortMax * (ULong(v)[3] + Byte * ULong(v)[4]) = v
<1> DEFINE low == v % UShortMax
           high == (v \div UShortMax) % UShortMax
<1>1. low \in 0..UShortMax - 1 /\ v \div UShortMax \in Nat
      /\ v = low + UShortMax * (v \div UShortMax)
  BY Widths, Digit
<1>2. high \in 0..UShortMax - 1
  BY <1>1, Widths, Digit
<1>3. v \in Longs => high = v \div UShortMax
  BY Widths, TwoDigits DEF Longs
<1>4. low \in Nat /\ high \in Nat /\ low \in Shorts /\ high \in Shorts
      /\ (v \in Longs => v = low + UShortMax * high)
  BY <1>1, <1>2, <1>3, Widths DEF Shorts
<1>5. ULong(v) = UShort(low) \o UShort(high)
  BY DEF ULong
<1> HIDE DEF low, high
<1>6. /\ UShort(low) \in Seq(Bytes) /\ Len(UShort(low)) = 2
      /\ UShort(high) \in Seq(Bytes) /\ Len(UShort(high)) = 2
      /\ UShort(low)[1] + Byte * UShort(low)[2] = low
      /\ UShort(high)[1] + Byte * UShort(high)[2] = high
  BY <1>4, UShortIs
<1>7. /\ ULong(v) \in Seq(Bytes) /\ Len(ULong(v)) = 4
      /\ ULong(v)[1] = UShort(low)[1] /\ ULong(v)[2] = UShort(low)[2]
      /\ ULong(v)[3] = UShort(high)[1] /\ ULong(v)[4] = UShort(high)[2]
  <2> DEFINE a == UShort(low)
             b == UShort(high)
             two == 2
  <2>1. a \in Seq(Bytes) /\ b \in Seq(Bytes) /\ Len(a) = two /\ Len(b) = two
    BY <1>6
  <2> HIDE DEF a, b, two
  <2>2. /\ a \o b \in Seq(Bytes) /\ Len(a \o b) = two + two
        /\ \A i \in 1..two : (a \o b)[i] = a[i]
        /\ \A i \in 1..two : (a \o b)[two + i] = b[i]
    BY <2>1, Joined
  <2>3. /\ Len(a \o b) = 4 /\ (a \o b)[1] = a[1] /\ (a \o b)[2] = a[2]
        /\ (a \o b)[2 + 1] = b[1] /\ (a \o b)[2 + 2] = b[2]
    BY <2>2 DEF two
  <2> QED
    BY <1>5, <2>2, <2>3 DEF a, b
<1> QED
  BY <1>4, <1>6, <1>7

-----------------------------------------------------------------------------
(* Lists of strings.                                                       *)

\* The sums of AllSizes are there, for the prefixes of a list.
LEMMA SumExists ==
    ASSUME NEW strings, NEW len \in Nat
    PROVE  \E sum : sum = [k \in 0..len |->
                              IF k = 0 THEN 0 ELSE sum[k - 1] + StringSize(strings[k])]
<1> DEFINE IsSum(sum, n) ==
             sum = [k \in 0..n |-> IF k = 0 THEN 0 ELSE sum[k - 1] + StringSize(strings[k])]
           T == {n \in Nat : \E sum : IsSum(sum, n)}
<1>1. 0 \in T
  <2>1. IsSum([k \in {0} |-> 0], 0)
    OBVIOUS
  <2> QED
    BY <2>1
<1>2. ASSUME NEW n \in Nat, n \in T PROVE n + 1 \in T
  <2>1. PICK sum : IsSum(sum, n)
    BY <1>2
  <2> DEFINE more == [k \in 0..n + 1 |->
                         IF k = n + 1 THEN sum[n] + StringSize(strings[n + 1]) ELSE sum[k]]
  <2>2. more[n + 1] = sum[n] + StringSize(strings[n + 1]) /\ \A k \in 0..n : more[k] = sum[k]
    OBVIOUS
  <2>3. ASSUME NEW k \in 0..n + 1
        PROVE  more[k] = IF k = 0 THEN 0 ELSE more[k - 1] + StringSize(strings[k])
    <3>1. CASE k = n + 1
      <4>1. k # 0 /\ k - 1 = n
        BY <3>1
      <4> HIDE DEF more
      <4> QED
        BY <2>2, <3>1, <4>1
    <3>2. CASE k \in 0..n
      <4>1. sum[k] = IF k = 0 THEN 0 ELSE sum[k - 1] + StringSize(strings[k])
        BY <2>1, <3>2
      <4>2. k # 0 => k - 1 \in 0..n
        BY <3>2
      <4> HIDE DEF more
      <4> QED
        BY <2>2, <3>2, <4>1, <4>2
    <3> QED
      BY <3>1, <3>2
  <2>4. IsSum(more, n + 1)
    <3>1. more = [k \in 0..n + 1 |-> more[k]]
      OBVIOUS
    <3> HIDE DEF more
    <3> QED
      BY <2>3, <3>1
  <2>5. n + 1 \in Nat
    OBVIOUS
  <2> QED
    BY <2>4, <2>5
<1>3. len \in T
  <2> HIDE DEF T
  <2> QED
    BY <1>1, <1>2, SetInduction
<1> QED
  BY <1>3

\* The prefixes of FlattenSeq are there.
LEMMA FlattenExists ==
    ASSUME NEW seqs, NEW len \in Nat
    PROVE  \E flat : flat = [i \in 1..len |-> IF i = 1 THEN seqs[i] ELSE flat[i - 1] \o seqs[i]]
<1> DEFINE IsFlat(flat, n) ==
             flat = [i \in 1..n |-> IF i = 1 THEN seqs[i] ELSE flat[i - 1] \o seqs[i]]
           T == {n \in Nat : \E flat : IsFlat(flat, n)}
<1>1. 0 \in T
  <2>1. IsFlat([k \in {} |-> 0], 0)
    OBVIOUS
  <2> QED
    BY <2>1
<1>2. ASSUME NEW n \in Nat, n \in T PROVE n + 1 \in T
  <2>1. PICK flat : IsFlat(flat, n)
    BY <1>2
  <2> DEFINE next == IF n = 0 THEN seqs[n + 1] ELSE flat[n] \o seqs[n + 1]
             more == [k \in 1..n + 1 |-> IF k = n + 1 THEN next ELSE flat[k]]
  <2>2. more[n + 1] = next /\ \A k \in 1..n : more[k] = flat[k]
    <3> HIDE DEF next
    <3> QED
      OBVIOUS
  <2>3. ASSUME NEW k \in 1..n + 1
        PROVE  more[k] = IF k = 1 THEN seqs[k] ELSE more[k - 1] \o seqs[k]
    <3>1. CASE k = n + 1
      <4>1. CASE n = 0
        BY <2>2, <3>1, <4>1
      <4>2. CASE n # 0
        <5>1. k # 1 /\ k - 1 = n /\ n \in 1..n
          BY <3>1, <4>2
        <5>2. more[n] = flat[n] /\ more[k] = flat[n] \o seqs[k]
          BY <2>2, <3>1, <4>2, <5>1
        <5> HIDE DEF more
        <5> QED
          BY <5>1, <5>2
      <4> QED
        BY <4>1, <4>2
    <3>2. CASE k \in 1..n
      <4>1. flat[k] = IF k = 1 THEN seqs[k] ELSE flat[k - 1] \o seqs[k]
        BY <2>1, <3>2
      <4>2. k # 1 => k - 1 \in 1..n
        BY <3>2
      <4> HIDE DEF more
      <4> QED
        BY <2>2, <3>2, <4>1, <4>2
    <3> QED
      BY <3>1, <3>2
  <2>4. IsFlat(more, n + 1)
    <3>1. more = [k \in 1..n + 1 |-> more[k]]
      OBVIOUS
    <3> HIDE DEF more
    <3> QED
      BY <2>3, <3>1
  <2>5. n + 1 \in Nat
    OBVIOUS
  <2> QED
    BY <2>4, <2>5
<1>3. len \in T
  <2> HIDE DEF T
  <2> QED
    BY <1>1, <1>2, SetInduction
<1> QED
  BY <1>3

\* What StringBytes writes: the length in one byte or three, and the string.
LEMMA StringIs ==
    ASSUME NEW s \in Seq(Bytes)
    PROVE  LET len   == StringLength(s)
               start == IF len >= Escape THEN 3 ELSE 1
           IN  /\ len \in Shorts /\ len <= Len(s)
               /\ StringBytes(s) \in Seq(Bytes)
               /\ StringSize(s) = start + len /\ StringSize(s) \in Nat
               /\ Len(StringBytes(s)) = StringSize(s)
               /\ \A i \in 1..len : StringBytes(s)[start + i] = s[i]
               /\ len >= Escape =>
                     /\ StringBytes(s)[1] = Escape
                     /\ StringBytes(s)[2] + Byte * StringBytes(s)[3] = len
               /\ len < Escape => StringBytes(s)[1] = len
<1> DEFINE len == StringLength(s)
           text == SubSeq(s, 1, len)
           start == IF len >= Escape THEN 3 ELSE 1
           head == LengthBytes(len)
<1>a. len \in Shorts /\ len <= Len(s)
  <2> DEFINE all == Len(s)
             whole == UShortMax * (all \div UShortMax)
  <2>1. all \in Nat /\ UShortMax \in Nat \ {0} /\ len = all % UShortMax
    BY Widths DEF StringLength
  <2>2. len \in 0..UShortMax - 1 /\ all \div UShortMax \in Nat /\ all = len + whole
    BY <2>1, Digit
  <2>3. whole \in Nat
    BY <2>1, <2>2
  <2> HIDE DEF all, whole, len
  <2>4. len <= all /\ len \in Shorts
    BY <2>1, <2>2, <2>3 DEF Shorts
  <2> QED
    BY <2>4 DEF all
<1>0. /\ len \in Nat /\ len < UShortMax /\ Escape \in Nat /\ Escape \in Bytes
      /\ len < Escape => len \in Bytes
  <2>1. len \in Nat /\ len < UShortMax
    BY <1>a, Widths DEF Shorts
  <2>2. Escape \in 0..255
    BY ByteAssumption DEF Escape
  <2> HIDE DEF len
  <2> QED
    BY <2>1, <2>2 DEF Bytes
<1>2. text \in Seq(Bytes) /\ Len(text) = len /\ \A i \in 1..len : text[i] = s[i]
  <2>1. 0 \in Nat /\ 0 + 1 = 1 /\ len - 0 = len /\ 0 <= len /\ len <= Len(s)
    BY <1>0, <1>a
  <2>2. SubSeq(s, 0 + 1, len) \in Seq(Bytes) /\ Len(SubSeq(s, 0 + 1, len)) = len - 0
        /\ \A i \in 1..len - 0 : SubSeq(s, 0 + 1, len)[i] = s[0 + i]
    BY <1>0, <2>1, Slice
  <2>3. \A i \in 1..len : 0 + i = i
    OBVIOUS
  <2> HIDE DEF len
  <2> QED
    BY <2>1, <2>2, <2>3
<1>3. /\ head \in Seq(Bytes) /\ Len(head) = start
      /\ len >= Escape => head[1] = Escape /\ head[2] + Byte * head[3] = len
      /\ len < Escape => head[1] = len
  <2>1. CASE len >= Escape
    <3> DEFINE number == UShort(len)
               mark == <<Escape>>
    <3>1. number \in Seq(Bytes) /\ Len(number) = 2 /\ number[1] + Byte * number[2] = len
      <4> HIDE DEF len
      <4> QED
        BY <1>0, <1>a, UShortIs
    <3>2. head = mark \o number
      BY <2>1 DEF LengthBytes
    <3>3. mark \in Seq(Bytes) /\ Len(mark) = 1 /\ mark[1] = Escape
      BY <1>0
    <3> HIDE DEF number, mark, head, len, text, start
    <3>4. head \in Seq(Bytes) /\ Len(head) = 3
          /\ head[1] = mark[1] /\ head[1 + 1] = number[1] /\ head[1 + 2] = number[2]
      <4>1. mark \in Seq(Bytes) /\ number \in Seq(Bytes)
        BY <3>1, <3>3
      <4>2. /\ mark \o number \in Seq(Bytes) /\ Len(mark \o number) = Len(mark) + Len(number)
            /\ \A i \in 1..Len(mark) : (mark \o number)[i] = mark[i]
            /\ \A i \in 1..Len(number) : (mark \o number)[Len(mark) + i] = number[i]
        BY <4>1, Joined
      <4>3. Len(mark) = 1 /\ Len(number) = 2 /\ 1 \in 1..1 /\ 1 \in 1..2 /\ 2 \in 1..2
        BY <3>1, <3>3
      <4> QED
        BY <3>2, <4>2, <4>3
    <3>5. head[1] = Escape /\ head[2] = number[1] /\ head[3] = number[2]
      BY <3>3, <3>4
    <3> QED
      BY <2>1, <3>1, <3>4, <3>5, <1>0 DEF start
  <2>2. CASE len < Escape
    <3>1. ~(len >= Escape) /\ len \in Bytes
      BY <1>0, <2>2
    <3>2. head = <<len>>
      BY <3>1 DEF LengthBytes
    <3> HIDE DEF head, len
    <3>3. head \in Seq(Bytes) /\ Len(head) = 1 /\ head[1] = len
      BY <3>1, <3>2
    <3> QED
      BY <2>2, <3>1, <3>3 DEF start
  <2> HIDE DEF head, len, start
  <2> QED
    BY <1>0, <2>1, <2>2
<1>4. StringBytes(s) = head \o text
  BY DEF StringBytes
<1>5. StringSize(s) = start + len
  BY <1>0 DEF StringSize
<1>6. start \in 1..3
  OBVIOUS
<1> HIDE DEF head, start, text, len
<1>7. /\ StringBytes(s) \in Seq(Bytes) /\ Len(StringBytes(s)) = start + len
      /\ \A i \in 1..start : StringBytes(s)[i] = head[i]
      /\ \A i \in 1..len : StringBytes(s)[start + i] = s[i]
  <2>1. head \in Seq(Bytes) /\ text \in Seq(Bytes)
    BY <1>2, <1>3
  <2>2. /\ head \o text \in Seq(Bytes) /\ Len(head \o text) = Len(head) + Len(text)
        /\ \A i \in 1..Len(head) : (head \o text)[i] = head[i]
        /\ \A i \in 1..Len(text) : (head \o text)[Len(head) + i] = text[i]
    BY <2>1, Joined
  <2>3. Len(head) = start /\ Len(text) = len /\ \A i \in 1..len : text[i] = s[i]
    BY <1>2, <1>3
  <2> QED
    BY <1>4, <2>2, <2>3
<1>10. /\ len >= Escape => StringBytes(s)[1] = head[1] /\ StringBytes(s)[2] = head[2]
                           /\ StringBytes(s)[3] = head[3]
       /\ len < Escape => StringBytes(s)[1] = head[1]
  BY <1>0, <1>6, <1>7 DEF start
<1>11. StringLength(s) = len /\ start = IF len >= Escape THEN 3 ELSE 1
  BY DEF start, len
<1>12. /\ StringSize(s) \in Nat /\ Len(StringBytes(s)) = StringSize(s)
       /\ len >= Escape => /\ StringBytes(s)[1] = Escape
                           /\ StringBytes(s)[2] + Byte * StringBytes(s)[3] = len
       /\ len < Escape => StringBytes(s)[1] = len
  BY <1>0, <1>3, <1>5, <1>6, <1>7, <1>10
<1> QED
  BY <1>a, <1>5, <1>7, <1>12, Zenon DEF len, start

\* The bytes of a list: where each string begins, and that all are there.
Begins(strings, sum) ==
    /\ sum \in [0..Len(strings) -> Nat] /\ sum[0] = 0
    /\ \A k \in 1..Len(strings) : sum[k] = sum[k - 1] + StringSize(strings[k])

\* What AllSizes adds up.
LEMMA BeginsThere ==
    ASSUME NEW strings, IsTexts(strings)
    PROVE  \E sum : Begins(strings, sum) /\ AllSizes(strings) = sum[Len(strings)]
<1> DEFINE n == Len(strings)
<1>0. n \in Nat /\ \A k \in 1..n : StringSize(strings[k]) \in Nat
  BY StringIs DEF IsTexts
<1>1. PICK sum : /\ sum = [k \in 0..n |->
                              IF k = 0 THEN 0 ELSE sum[k - 1] + StringSize(strings[k])]
                 /\ AllSizes(strings) = sum[n]
  BY <1>0, SumExists DEF AllSizes
<1> HIDE DEF n
<1>2. sum[0] = 0 /\ \A k \in 1..n : sum[k] = sum[k - 1] + StringSize(strings[k])
  <2>1. 0 \in 0..n /\ \A k \in 1..n : k \in 0..n /\ k # 0
    BY <1>0
  <2> QED
    BY <1>1, <2>1
<1>3. \A k \in 0..n : sum[k] \in Nat
  <2> DEFINE T == {k \in Nat : k <= n => sum[k] \in Nat}
  <2>1. 0 \in T
    BY <1>2
  <2>2. ASSUME NEW k \in Nat, k \in T PROVE k + 1 \in T
    <3>1. CASE k + 1 <= n
      <4>1. k + 1 \in 1..n /\ k + 1 - 1 = k /\ k <= n
        BY <1>0, <3>1
      <4> QED
        BY <1>0, <1>2, <2>2, <4>1
    <3>2. CASE ~(k + 1 <= n)
      BY <3>2
    <3> QED
      BY <3>1, <3>2
  <2> HIDE DEF T
  <2>3. Nat \subseteq T
    BY <2>1, <2>2, SetInduction
  <2> QED
    BY <1>0, <2>3 DEF T
<1>4. sum \in [0..n -> Nat]
  BY <1>1, <1>3
<1> QED
  BY <1>1, <1>2, <1>4 DEF Begins, n

\* One string begins behind the other.
LEMMA SumRises ==
    ASSUME NEW strings, IsTexts(strings), NEW sum, Begins(strings, sum),
           NEW k \in 0..Len(strings), NEW j \in 0..k
    PROVE  sum[j] <= sum[k]
<1> DEFINE n == Len(strings)
           U == {d \in Nat : d <= k => sum[k - d] <= sum[k]}
<1>1. n \in Nat /\ \A i \in 1..n : StringSize(strings[i]) \in Nat
  BY StringIs DEF IsTexts
<1>2. /\ \A i \in 0..n : sum[i] \in Nat
      /\ \A i \in 1..n : sum[i] = sum[i - 1] + StringSize(strings[i])
  BY DEF Begins
<1>3. k \in 0..n /\ k \in Nat /\ j \in Nat /\ j <= k
  BY <1>1
<1> HIDE DEF n
<1>4. 0 \in U
  BY <1>2, <1>3
<1>5. ASSUME NEW d \in Nat, d \in U PROVE d + 1 \in U
  <2>1. CASE d + 1 <= k
    <3>1. k - d \in 1..n /\ k - d - 1 = k - (d + 1) /\ k - (d + 1) \in 0..n /\ k - d \in 0..n
          /\ d <= k
      BY <1>1, <1>3, <2>1
    <3>2. /\ sum[k - d] = sum[k - (d + 1)] + StringSize(strings[k - d])
          /\ sum[k - (d + 1)] \in Nat /\ StringSize(strings[k - d]) \in Nat
          /\ sum[k] \in Nat /\ sum[k - d] <= sum[k]
      BY <1>1, <1>2, <1>3, <1>5, <3>1
    <3>3. sum[k - (d + 1)] <= sum[k]
      BY <3>2
    <3> QED
      BY <3>3
  <2>2. CASE ~(d + 1 <= k)
    BY <2>2
  <2> QED
    BY <2>1, <2>2
<1> HIDE DEF U
<1>6. Nat \subseteq U
  BY <1>4, <1>5, SetInduction
<1>7. k - j \in Nat /\ k - j <= k /\ k - (k - j) = j
  BY <1>3
<1> QED
  BY <1>6, <1>7 DEF U

\* Each string is where the sizes of those before it end.
LEMMA AllBytesIs ==
    ASSUME NEW strings, IsTexts(strings), NEW sum, Begins(strings, sum)
    PROVE  /\ AllBytes(strings) \in Seq(Bytes) /\ Len(AllBytes(strings)) = sum[Len(strings)]
           /\ \A k \in 1..Len(strings) : \A q \in 1..StringSize(strings[k]) :
                 AllBytes(strings)[sum[k - 1] + q] = StringBytes(strings[k])[q]
<1> DEFINE n == Len(strings)
           seqs == [i \in DOMAIN strings |-> StringBytes(strings[i])]
<1> HIDE DEF seqs
<1>a. strings \in Seq(Seq(Bytes)) /\ n \in Nat /\ DOMAIN strings = 1..n
  BY DEF IsTexts
<1>b. \A k \in 1..n : strings[k] \in Seq(Bytes)
  BY <1>a
<1>c. \A k \in 1..n : /\ StringSize(strings[k]) \in Nat /\ StringBytes(strings[k]) \in Seq(Bytes)
                       /\ Len(StringBytes(strings[k])) = StringSize(strings[k])
  BY <1>b, StringIs
<1>0. /\ n \in Nat /\ DOMAIN strings = 1..n /\ sum[0] = 0
      /\ \A k \in 1..n : /\ StringSize(strings[k]) \in Nat /\ StringBytes(strings[k]) \in Seq(Bytes)
                         /\ Len(StringBytes(strings[k])) = StringSize(strings[k])
      /\ \A k \in 0..n : sum[k] \in Nat
      /\ \A k \in 1..n : sum[k] = sum[k - 1] + StringSize(strings[k])
  BY <1>a, <1>c DEF Begins
<1>1. Len(seqs) = n /\ seqs \in Seq(Seq(Bytes)) /\ \A k \in 1..n : seqs[k] = StringBytes(strings[k])
  <2>1. seqs \in [1..n -> Seq(Bytes)]
    BY <1>0 DEF seqs
  <2> QED
    BY <1>0, <2>1 DEF seqs
<1>2. AllBytes(strings) = FlattenSeq(seqs)
  BY DEF AllBytes, seqs
<1> HIDE DEF n
<1>3. CASE n = 0
  <2>1. seqs = <<>> /\ FlattenSeq(seqs) = seqs
    BY <1>1, <1>3, EmptySeq DEF FlattenSeq
  <2>2. <<>> \in Seq(Bytes) /\ Len(<<>>) = 0
    OBVIOUS
  <2>3. AllBytes(strings) \in Seq(Bytes) /\ Len(AllBytes(strings)) = sum[n]
    BY <1>0, <1>2, <1>3, <2>1, <2>2
  <2> QED
    BY <1>3, <2>3 DEF n
<1>4. CASE n # 0
  <2>1. PICK flat : /\ flat = [i \in 1..n |-> IF i = 1 THEN seqs[i] ELSE flat[i - 1] \o seqs[i]]
                    /\ FlattenSeq(seqs) = flat[n]
    BY <1>0, <1>1, <1>4, FlattenExists DEF FlattenSeq
  <2>2. \A i \in 1..n : flat[i] = IF i = 1 THEN seqs[i] ELSE flat[i - 1] \o seqs[i]
    BY <2>1
  <2> DEFINE Good(i) ==
               /\ flat[i] \in Seq(Bytes) /\ Len(flat[i]) = sum[i]
               /\ \A k \in 1..i : \A q \in 1..StringSize(strings[k]) :
                     flat[i][sum[k - 1] + q] = StringBytes(strings[k])[q]
             T == {i \in Nat : i \in 1..n => Good(i)}
  <2>3. 0 \in T
    OBVIOUS
  <2>4. ASSUME NEW i \in Nat, i \in T, i + 1 \in 1..n PROVE Good(i + 1)
    <3> DEFINE j == i + 1
    <3>0. j \in 1..n /\ j - 1 = i /\ (i = 0 \/ i \in 1..n) /\ 1..j = 1..i \cup {j}
      BY <1>0, <2>4
    <3>1. CASE i = 0
      <4>1. j = 1 /\ flat[j] = seqs[1] /\ sum[1] = StringSize(strings[1]) /\ sum[1 - 1] = 0
        BY <1>0, <2>2, <3>0, <3>1
      <4>2. flat[j] = StringBytes(strings[1]) /\ 1 \in 1..n
        BY <1>1, <3>0, <4>1
      <4>3. \A q \in 1..StringSize(strings[1]) : 0 + q = q
        BY <1>0, <4>2
      <4> HIDE DEF j
      <4>4. 1..j = {1}
        BY <4>1
      <4>5. Good(j)
        BY <1>0, <4>1, <4>2, <4>3, <4>4
      <4> QED
        BY <4>5 DEF j
    <3>2. CASE i # 0
      <4>a. i \in 1..n /\ flat[j] = flat[i] \o seqs[j]
        <5>1. j # 1 /\ i \in 1..n /\ j \in 1..n
          BY <3>0, <3>2
        <5> QED
          BY <2>2, <3>0, <5>1
      <4>b. Good(i)
        <5> HIDE DEF Good
        <5> QED
          BY <2>4, <4>a
      <4>1. Good(i) /\ flat[j] = flat[i] \o seqs[j] /\ i \in 1..n
        BY <4>a, <4>b
      <4> DEFINE last == StringBytes(strings[j])
                 before == flat[i]
      <4>2. /\ before \in Seq(Bytes) /\ Len(before) = sum[i] /\ sum[i] \in Nat
            /\ last \in Seq(Bytes) /\ Len(last) = StringSize(strings[j])
            /\ flat[j] = before \o last /\ sum[j] = sum[i] + StringSize(strings[j])
        <5>1. before \in Seq(Bytes) /\ Len(before) = sum[i]
          BY <4>b
        <5>2. sum[i] \in Nat
          BY <1>0, <4>a
        <5>3. last \in Seq(Bytes) /\ Len(last) = StringSize(strings[j])
          BY <1>0, <3>0
        <5>4. seqs[j] = last /\ sum[j] = sum[i] + StringSize(strings[j])
          BY <1>0, <1>1, <3>0
        <5> QED
          BY <4>a, <5>1, <5>2, <5>3, <5>4
      <4>3. \A k \in 1..i : sum[k] <= sum[i]
        <5>1. i \in 0..Len(strings) /\ \A k \in 1..i : k \in 0..i
          BY <1>a, <4>a
        <5> QED
          BY <5>1, SumRises
      <4> HIDE DEF last, before, j
      <4>4. /\ before \o last \in Seq(Bytes) /\ Len(before \o last) = sum[j]
            /\ \A p \in 1..sum[i] : (before \o last)[p] = before[p]
            /\ \A q \in 1..StringSize(strings[j]) : (before \o last)[sum[i] + q] = last[q]
        <5>1. StringSize(strings[j]) \in Nat
          BY <1>0, <3>0
        <5> DEFINE len == StringSize(strings[j])
                   at == sum[i]
        <5>2. /\ Len(before) = at /\ Len(last) = len /\ at \in Nat /\ len \in Nat
              /\ before \in Seq(Bytes) /\ last \in Seq(Bytes)
          BY <4>2, <5>1
        <5>3. /\ before \o last \in Seq(Bytes) /\ Len(before \o last) = Len(before) + Len(last)
              /\ \A p \in 1..Len(before) : (before \o last)[p] = before[p]
              /\ \A q \in 1..Len(last) : (before \o last)[Len(before) + q] = last[q]
          <6>1. before \in Seq(Bytes) /\ last \in Seq(Bytes)
            BY <4>2
          <6> QED
            BY <6>1, Joined
        <5> QED
          BY <4>2, <5>2, <5>3
      <4>5. ASSUME NEW k \in 1..i, NEW q \in 1..StringSize(strings[k])
            PROVE  flat[j][sum[k - 1] + q] = StringBytes(strings[k])[q]
        <5>1. k \in 1..n /\ k - 1 \in 0..n
          BY <4>1, <1>0
        <5>2. sum[k - 1] + q \in 1..sum[i]
          <6>1. sum[k] = sum[k - 1] + StringSize(strings[k]) /\ sum[k - 1] \in Nat
                /\ StringSize(strings[k]) \in Nat /\ sum[k] <= sum[i] /\ sum[k] \in Nat
            BY <1>0, <4>3, <5>1
          <6> QED
            BY <4>2, <6>1
        <5>3. before[sum[k - 1] + q] = StringBytes(strings[k])[q]
          BY <4>1 DEF before
        <5> QED
          BY <4>2, <4>4, <5>2, <5>3
      <4>6. ASSUME NEW q \in 1..StringSize(strings[j])
            PROVE  flat[j][sum[j - 1] + q] = StringBytes(strings[j])[q]
        BY <3>0, <4>2, <4>4 DEF last
      <4>7. Good(j)
        BY <3>0, <4>2, <4>4, <4>5, <4>6
      <4> QED
        BY <4>7 DEF j
    <3> QED
      BY <3>1, <3>2
  <2>5. \A i \in Nat : i \in T => i + 1 \in T
    <3> HIDE DEF Good
    <3> QED
      BY <2>4
  <2>6. Nat \subseteq T
    <3> HIDE DEF T
    <3> QED
      BY <2>3, <2>5, SetInduction
  <2>7. Good(n)
    <3> HIDE DEF Good
    <3> QED
      BY <1>0, <1>4, <2>6
  <2>8. AllBytes(strings) = flat[n]
    BY <1>2, <2>1
  <2> QED
    BY <2>7, <2>8 DEF n
<1> QED
  BY <1>3, <1>4

\* What AllSizes counts is what AllBytes writes.
LEMMA AllSizesIs ==
    ASSUME NEW strings, IsTexts(strings)
    PROVE  /\ AllBytes(strings) \in Seq(Bytes) /\ AllSizes(strings) \in Nat
           /\ Len(AllBytes(strings)) = AllSizes(strings)
<1>1. PICK sum : Begins(strings, sum) /\ AllSizes(strings) = sum[Len(strings)]
  BY BeginsThere
<1>2. Len(strings) \in Nat
  BY DEF IsTexts
<1>3. Len(strings) \in 0..Len(strings)
  BY <1>2
<1>4. sum[Len(strings)] \in Nat
  BY <1>1, <1>3 DEF Begins
<1> QED
  BY <1>1, <1>4, AllBytesIs

\* The sum of two strings.
LEMMA TwoSizes ==
    ASSUME NEW strings, IsTexts(strings), Len(strings) = 2
    PROVE  AllSizes(strings) = StringSize(strings[1]) + StringSize(strings[2])
<1>1. PICK sum : Begins(strings, sum) /\ AllSizes(strings) = sum[2]
  BY BeginsThere
<1>2. /\ sum[0] = 0 /\ sum[1] = sum[1 - 1] + StringSize(strings[1])
      /\ sum[2] = sum[2 - 1] + StringSize(strings[2])
  <2>1. 1 \in 1..2 /\ 2 \in 1..2
    OBVIOUS
  <2> QED
    BY <1>1, <2>1 DEF Begins
<1>3. StringSize(strings[1]) \in Nat
  <2>1. strings[1] \in Seq(Bytes)
    BY DEF IsTexts
  <2> QED
    BY <2>1, StringIs
<1>4. sum[1] = StringSize(strings[1])
  BY <1>2, <1>3
<1> QED
  BY <1>1, <1>2, <1>4

\* A field is looked up among the fields, however many of them there are.
LEMMA PlaceIsInside ==
    ASSUME NEW nrows \in Nat, NEW ncols \in Nat, NEW k \in Cells(nrows, ncols)
    PROVE  Place(ncols, k) \in 1..nrows * ncols
<1>1. nrows * ncols \in Nat /\ k \in Nat /\ 1 <= k /\ k <= nrows * ncols
  BY DEF Cells
<1>2. ncols # 0
  BY <1>1
<1> DEFINE row == (k - 1) \div ncols
           col == (k - 1) % ncols
           first == row * ncols
<1>3. col \in 0..ncols - 1 /\ row \in Nat /\ k - 1 = col + (ncols * row)
  <2>1. k - 1 \in Nat /\ ncols \in Nat \ {0}
    BY <1>1, <1>2
  <2> QED
    BY <2>1, Digit
<1>4. first \in Nat /\ first = ncols * row
  BY <1>3
<1>5. first % UShortMax \in Nat /\ first % UShortMax <= first
  <2> HIDE DEF first
  <2> DEFINE rest == first % UShortMax
             whole == UShortMax * (first \div UShortMax)
  <2>1. rest \in 0..UShortMax - 1 /\ first \div UShortMax \in Nat /\ first = rest + whole
    BY <1>4, Widths, Digit
  <2>2. whole \in Nat
    BY <2>1, Widths
  <2>3. UShortMax \in Nat
    BY Widths
  <2> HIDE DEF rest, whole
  <2>4. rest \in Nat /\ rest <= first
    BY <2>1, <2>2, <2>3
  <2> QED
    BY <2>4 DEF rest
<1>6. Place(ncols, k) = (first % UShortMax) + col + 1
  BY DEF Place
<1> HIDE DEF first, col, row
<1> QED
  BY <1>1, <1>3, <1>4, <1>5, <1>6

\* The strings of a table: the names of the columns, and a field for each cell.
LEMMA TableStringsAre ==
    ASSUME NEW t, IsTable(t)
    PROVE  /\ IsTexts(TableStrings(t)) /\ t.nrows * t.ncols \in Nat /\ t.ncols \in Nat
           /\ Len(TableStrings(t)) = t.ncols + t.nrows * t.ncols
           /\ \A i \in 1..t.ncols : TableStrings(t)[i] = t.names[i]
           /\ \A k \in 1..t.nrows * t.ncols :
                 TableStrings(t)[t.ncols + k] = t.fields[Place(t.ncols, k)]
<1> DEFINE cells == [k \in Cells(t.nrows, t.ncols) |-> t.fields[Place(t.ncols, k)]]
           texts == t.names
           count == t.nrows * t.ncols
<1>1. /\ t.nrows \in Nat /\ t.ncols \in Nat /\ IsTexts(texts) /\ IsTexts(t.fields)
      /\ Len(t.fields) = count
  BY Widths DEF IsTable, Shorts
<1>2. count \in Nat /\ Cells(t.nrows, t.ncols) = 1..count
  BY <1>1 DEF Cells
<1>3. \A k \in 1..count : cells[k] \in Seq(Bytes)
  <2> SUFFICES ASSUME NEW k \in 1..count PROVE cells[k] \in Seq(Bytes)
    OBVIOUS
  <2>1. Place(t.ncols, k) \in 1..Len(t.fields) /\ cells[k] = t.fields[Place(t.ncols, k)]
    BY <1>1, <1>2, PlaceIsInside
  <2> QED
    BY <1>1, <2>1 DEF IsTexts
<1>4. cells \in Seq(Seq(Bytes)) /\ Len(cells) = count
  <2>1. cells \in [1..count -> Seq(Bytes)]
    BY <1>2, <1>3
  <2> HIDE DEF cells, count
  <2> QED
    BY <1>2, <2>1
<1>5. TableStrings(t) = texts \o cells
  BY DEF TableStrings
<1>6. texts \in Seq(Seq(Bytes))
  BY <1>1 DEF IsTexts
<1> HIDE DEF cells, texts, count
<1>7. /\ texts \o cells \in Seq(Seq(Bytes)) /\ Len(texts \o cells) = Len(texts) + Len(cells)
      /\ \A i \in 1..Len(texts) : (texts \o cells)[i] = texts[i]
      /\ \A i \in 1..Len(cells) : (texts \o cells)[Len(texts) + i] = cells[i]
  <2>1. texts \in Seq(Seq(Bytes)) /\ cells \in Seq(Seq(Bytes))
    BY <1>4, <1>6
  <2> QED
    BY <2>1, Joined
<1>9. IsTexts(texts \o cells)
  BY <1>7 DEF IsTexts
<1>10. Len(texts) = t.ncols
  BY DEF IsTable, texts
<1>11. \A k \in 1..count : cells[k] = t.fields[Place(t.ncols, k)]
  BY <1>2 DEF cells
<1> QED
  BY <1>1, <1>2, <1>4, <1>5, <1>7, <1>9, <1>10, <1>11 DEF texts, count

\* What TableBytes writes is as long as TableSize says.
LEMMA TableSizeIs ==
    ASSUME NEW t, IsTable(t)
    PROVE  /\ TableBytes(t) \in Seq(Bytes) /\ TableSize(t) \in Nat
           /\ Len(TableBytes(t)) = TableSize(t)
<1> DEFINE rows == UShort(t.nrows)
           cols == UShort(t.ncols)
           texts == AllBytes(TableStrings(t))
           size == AllSizes(TableStrings(t))
<1>1. rows \in Seq(Bytes) /\ Len(rows) = 2 /\ cols \in Seq(Bytes) /\ Len(cols) = 2
  <2>1. t.nrows \in Nat /\ t.ncols \in Nat
    BY Widths DEF IsTable, Shorts
  <2> QED
    BY <2>1, UShortIs
<1>2. texts \in Seq(Bytes) /\ size \in Nat /\ Len(texts) = size
  BY TableStringsAre, AllSizesIs
<1>3. TableBytes(t) = rows \o cols \o texts /\ TableSize(t) = 4 + size
  BY DEF TableBytes, TableSize
<1> HIDE DEF rows, cols, texts, size
<1>4. rows \o cols \in Seq(Bytes) /\ Len(rows \o cols) = Len(rows) + Len(cols)
  BY <1>1, Joined
<1>5. rows \o cols \o texts \in Seq(Bytes)
      /\ Len(rows \o cols \o texts) = Len(rows \o cols) + Len(texts)
  BY <1>2, <1>4, Joined
<1> QED
  BY <1>1, <1>2, <1>3, <1>4, <1>5

-----------------------------------------------------------------------------
(* Messages: their numbers, and what comes behind them.                    *)

\* What a structure must be for its numbers to be written, as every message is.
Numbered(m) ==
    /\ m.cmd \in Register..Listen /\ m.sub \in {Query, Resp}
    /\ {m.err, m.client, m.user, m.count, m.flags, m.number, Len(m.strings)} \subseteq Nat

LEMMA MessageNumbered ==
    ASSUME NEW m, IsMessage(m)
    PROVE  Numbered(m)
BY Widths DEF IsMessage, Numbered, Shorts, Longs

\* The numbers of a message, as they are written.
LEMMA NumbersAre ==
    ASSUME NEW m, Numbered(m)
    PROVE  /\ \A v \in {m.err, m.client, m.user, m.count, m.flags % UShortMax, Len(m.strings), 0} :
                 UShort(v) \in Seq(Bytes) /\ Len(UShort(v)) = 2
           /\ ULong(m.number) \in Seq(Bytes) /\ Len(ULong(m.number)) = 4
<1>1. {m.err, m.client, m.user, m.count, Len(m.strings), 0} \subseteq Nat /\ m.flags \in Nat
      /\ m.number \in Nat
  BY DEF Numbered
<1>2. m.flags % UShortMax \in Nat
  BY <1>1, Widths, Digit
<1> QED
  BY <1>1, <1>2, UShortIs, ULongIs

\* What is behind one another is as long as both.
LEMMA Whole ==
    ASSUME NEW a \in Seq(Bytes), NEW b \in Seq(Bytes)
    PROVE  a \o b \in Seq(Bytes) /\ Len(a \o b) = Len(a) + Len(b)
BY Joined

\* What Written writes behind the numbers.
Rest(m) ==
    CASE Unnamed(m)   -> UShort(0)
      [] OneString(m) /\ ~Unnamed(m) -> StringBytes(First(m))
      [] Strings(m)   -> UShort(Len(m.strings)) \o AllBytes(m.strings)
      [] HasTable(m)  -> TableBytes(m.table)
      [] OTHER        -> <<>>

FixedSize(m) ==
    IF m.sub = Resp
    THEN IF m.cmd = Register THEN 4
         ELSE IF m.cmd \in {WriteCaller, WriteCall, ListInfo} THEN 6 ELSE 2
    ELSE IF m.cmd \in {CallerList, DeleteCaller} THEN 2
         ELSE IF m.cmd \in {ReadCaller, WriteCaller, Listen} THEN 4
         ELSE IF m.cmd = CallList THEN 6 ELSE 0

RestSize(m) ==
    IF OneString(m) THEN StringSize(First(m))
    ELSE IF Strings(m) THEN 2 + AllSizes(m.strings)
    ELSE IF HasTable(m) THEN TableSize(m.table)
    ELSE 0

\* The cases of Fixed, by subcommand and command.
LEMMA FixedChoice ==
    ASSUME NEW m, Numbered(m)
    PROVE  LET err    == UShort(m.err)
               user   == UShort(m.user)
               number == ULong(m.number) IN
           Fixed(m) =
             IF m.sub = Resp
             THEN IF m.cmd = Register THEN err \o UShort(m.client)
                  ELSE IF m.cmd \in {WriteCaller, WriteCall, ListInfo} THEN err \o number ELSE err
             ELSE IF m.cmd \in {CallerList, DeleteCaller} THEN user
                  ELSE IF m.cmd \in {ReadCaller, WriteCaller}
                       THEN user \o UShort(m.flags % UShortMax)
                  ELSE IF m.cmd = CallList THEN number \o UShort(m.count)
                  ELSE IF m.cmd = Listen THEN number ELSE <<>>
<1> DEFINE err == UShort(m.err)
           client == UShort(m.client)
           user == UShort(m.user)
           flags == UShort(m.flags % UShortMax)
           count == UShort(m.count)
           number == ULong(m.number)
<1>1. m.sub \in {Query, Resp} /\ m.cmd \in Register..Listen
  BY DEF Numbered
<1>2. Fixed(m) =
        IF m.sub = Resp
        THEN IF m.cmd = Register THEN err \o client
             ELSE IF m.cmd \in {WriteCaller, WriteCall, ListInfo} THEN err \o number ELSE err
        ELSE IF m.cmd \in {CallerList, DeleteCaller} THEN user
             ELSE IF m.cmd \in {ReadCaller, WriteCaller} THEN user \o flags
             ELSE IF m.cmd = CallList THEN number \o count
             ELSE IF m.cmd = Listen THEN number ELSE <<>>
  <2> HIDE DEF err, client, user, flags, count, number
  <2> QED
    BY <1>1 DEF Fixed, err, client, user, flags, count, number, Resp, Query, Register, CallerList,
       ReadCaller, WriteCaller, WriteCall, CallList, ShowTables, DescribeTable, DeleteCaller,
       ListInfo, Listen
<1> QED
  BY <1>2

\* The numbers are as long as FixedSize says.
LEMMA FixedIs ==
    ASSUME NEW m, Numbered(m)
    PROVE  Fixed(m) \in Seq(Bytes) /\ Len(Fixed(m)) = FixedSize(m)
<1> DEFINE err == UShort(m.err)
           client == UShort(m.client)
           user == UShort(m.user)
           flags == UShort(m.flags % UShortMax)
           count == UShort(m.count)
           number == ULong(m.number)
<1>1. \A v \in {err, client, user, count, flags} : v \in Seq(Bytes) /\ Len(v) = 2
  BY NumbersAre
<1>2. number \in Seq(Bytes) /\ Len(number) = 4
  BY NumbersAre
<1>3. m.sub \in {Query, Resp} /\ m.cmd \in Register..Listen
  BY DEF Numbered
<1>4. Fixed(m) =
        IF m.sub = Resp
        THEN IF m.cmd = Register THEN err \o client
             ELSE IF m.cmd \in {WriteCaller, WriteCall, ListInfo} THEN err \o number ELSE err
        ELSE IF m.cmd \in {CallerList, DeleteCaller} THEN user
             ELSE IF m.cmd \in {ReadCaller, WriteCaller} THEN user \o flags
             ELSE IF m.cmd = CallList THEN number \o count
             ELSE IF m.cmd = Listen THEN number ELSE <<>>
  BY FixedChoice
<1> HIDE DEF err, client, user, flags, count, number
<1>5. /\ err \o client \in Seq(Bytes) /\ Len(err \o client) = 4
      /\ err \o number \in Seq(Bytes) /\ Len(err \o number) = 6
      /\ user \o flags \in Seq(Bytes) /\ Len(user \o flags) = 4
      /\ number \o count \in Seq(Bytes) /\ Len(number \o count) = 6
  <2>1. {err, client, user, flags, count, number} \subseteq Seq(Bytes)
    BY <1>1, <1>2
  <2>2. /\ err \o client \in Seq(Bytes) /\ Len(err \o client) = Len(err) + Len(client)
        /\ err \o number \in Seq(Bytes) /\ Len(err \o number) = Len(err) + Len(number)
        /\ user \o flags \in Seq(Bytes) /\ Len(user \o flags) = Len(user) + Len(flags)
        /\ number \o count \in Seq(Bytes) /\ Len(number \o count) = Len(number) + Len(count)
    BY <2>1, Whole
  <2>3. Len(err) = 2 /\ Len(client) = 2 /\ Len(user) = 2 /\ Len(flags) = 2 /\ Len(count) = 2
        /\ Len(number) = 4
    BY <1>1, <1>2
  <2>4. 2 + 2 = 4 /\ 2 + 4 = 6 /\ 4 + 2 = 6
    OBVIOUS
  <2> QED
    BY <2>2, <2>3, <2>4, Zenon
<1>6. <<>> \in Seq(Bytes) /\ Len(<<>>) = 0
  OBVIOUS
<1> QED
  BY <1>1, <1>2, <1>3, <1>4, <1>5, <1>6
     DEF FixedSize, Resp, Query, Register, CallerList, ReadCaller, WriteCaller, WriteCall, CallList,
         DeleteCaller, ListInfo, Listen

\* A message has a first string, which may be missing and is empty then.
LEMMA FirstIs ==
    ASSUME NEW m, IsMessage(m)
    PROVE  First(m) \in Seq(Bytes)
<1>1. IsTexts(m.strings)
  BY DEF IsMessage
<1>2. CASE m.strings = <<>>
  <2>1. First(m) = <<>>
    BY <1>2 DEF First
  <2>2. <<>> \in Seq(Bytes) /\ Len(<<>>) = 0
    OBVIOUS
  <2> QED
    BY <2>1, <2>2
<1>3. CASE m.strings # <<>>
  <2>1. First(m) = m.strings[1] /\ m.strings \in Seq(Seq(Bytes))
    BY <1>1, <1>3 DEF First, IsTexts
  <2>2. 1 \in 1..Len(m.strings)
    BY <1>3, <2>1
  <2> QED
    BY <1>1, <2>1, <2>2 DEF IsTexts
<1> QED
  BY <1>2, <1>3

\* No two of the cases are one.
LEMMA RestChoice ==
    ASSUME NEW m
    PROVE  Rest(m) = IF Unnamed(m) THEN UShort(0) ELSE IF OneString(m) THEN StringBytes(First(m))
                     ELSE IF Strings(m) THEN UShort(Len(m.strings)) \o AllBytes(m.strings)
                     ELSE IF HasTable(m) THEN TableBytes(m.table) ELSE <<>>
<1>1. ~(OneString(m) /\ Strings(m)) /\ ~(OneString(m) /\ HasTable(m))
      /\ ~(Strings(m) /\ HasTable(m)) /\ (Unnamed(m) => OneString(m))
  BY DEF OneString, Strings, HasTable, Unnamed, Resp, Query, CallerList, ReadCaller,
     WriteCaller, WriteCall, CallList, ShowTables, DescribeTable, DeleteCaller
<1> QED
  BY <1>1 DEF Rest

\* What is written behind the numbers is as long as RestSize says.
LEMMA RestIs ==
    ASSUME NEW m, IsMessage(m)
    PROVE  /\ Rest(m) \in Seq(Bytes) /\ RestSize(m) \in Nat
           /\ ~Unnamed(m) => Len(Rest(m)) = RestSize(m)
<1>1. IsTexts(m.strings) /\ IsTable(m.table)
  BY DEF IsMessage
<1>2. First(m) \in Seq(Bytes)
  BY FirstIs
<1> DEFINE one == StringBytes(First(m))
           number == UShort(Len(m.strings))
           all == AllBytes(m.strings)
           table == TableBytes(m.table)
           none == UShort(0)
<1>3. /\ one \in Seq(Bytes) /\ StringSize(First(m)) \in Nat /\ Len(one) = StringSize(First(m))
      /\ number \in Seq(Bytes) /\ Len(number) = 2 /\ none \in Seq(Bytes)
      /\ all \in Seq(Bytes) /\ AllSizes(m.strings) \in Nat /\ Len(all) = AllSizes(m.strings)
      /\ table \in Seq(Bytes) /\ TableSize(m.table) \in Nat /\ Len(table) = TableSize(m.table)
  BY <1>1, <1>2, StringIs, MessageNumbered, NumbersAre, AllSizesIs, TableSizeIs
<1>4. Rest(m) = IF Unnamed(m) THEN none ELSE IF OneString(m) THEN one
                ELSE IF Strings(m) THEN number \o all ELSE IF HasTable(m) THEN table ELSE <<>>
  BY RestChoice
<1> HIDE DEF one, number, all, table, none
<1>5. number \o all \in Seq(Bytes) /\ Len(number \o all) = 2 + AllSizes(m.strings)
  <2>1. number \in Seq(Bytes) /\ all \in Seq(Bytes)
    BY <1>3
  <2>2. number \o all \in Seq(Bytes) /\ Len(number \o all) = Len(number) + Len(all)
    BY <2>1, Whole
  <2> QED
    BY <1>3, <2>2
<1>6. <<>> \in Seq(Bytes) /\ Len(<<>>) = 0
  OBVIOUS
<1> QED
  BY <1>3, <1>4, <1>5, <1>6 DEF RestSize

\* The first switch counts both parts.
LEMMA SizeIs ==
    ASSUME NEW m, IsMessage(m)
    PROVE  Size(m) = FixedSize(m) + RestSize(m)
<1>1. m.sub \in {Query, Resp} /\ m.cmd \in Register..Listen /\ RestSize(m) \in Nat
  BY RestIs DEF IsMessage
<1>2. m.cmd = DeleteCaller /\ m.sub = Query =>
         AllSizes(m.strings) = StringSize(m.strings[1]) + StringSize(m.strings[2])
  BY TwoSizes DEF IsMessage
<1>3. /\ m.cmd = DeleteCaller /\ m.sub = Query =>
            StringSize(m.strings[1]) \in Nat /\ StringSize(m.strings[2]) \in Nat
      /\ StringSize(First(m)) \in Nat /\ AllSizes(m.strings) \in Nat /\ TableSize(m.table) \in Nat
  <2>1. StringSize(First(m)) \in Nat
    BY FirstIs, StringIs
  <2>2. AllSizes(m.strings) \in Nat /\ TableSize(m.table) \in Nat
    BY AllSizesIs, TableSizeIs DEF IsMessage
  <2>3. ASSUME m.cmd = DeleteCaller, m.sub = Query
        PROVE  StringSize(m.strings[1]) \in Nat /\ StringSize(m.strings[2]) \in Nat
    <3>1. IsTexts(m.strings) /\ Len(m.strings) = 2
      BY <2>3 DEF IsMessage
    <3>2. \A k \in 1..2 : m.strings[k] \in Seq(Bytes)
      BY <3>1 DEF IsTexts
    <3> QED
      BY <3>2, StringIs
  <2> QED
    BY <2>1, <2>2, <2>3
<1> QED
  BY <1>1, <1>2, <1>3 DEF Size, FixedSize, RestSize, OneString, Strings, HasTable, Resp, Query,
     Register, CallerList, ReadCaller, WriteCaller, WriteCall, CallList, ShowTables,
     DescribeTable, DeleteCaller, ListInfo, Listen

\* The second writes as much, but for the query without a name.
LEMMA WrittenIs ==
    ASSUME NEW m, IsMessage(m)
    PROVE  /\ Written(m) \in Seq(Bytes) /\ Size(m) \in Nat
           /\ ~Unnamed(m) => Len(Written(m)) = Size(m)
           /\ Unnamed(m) => /\ Written(m) = UShort(0) /\ Len(Written(m)) = 2 /\ Size(m) = 1
                            /\ First(m) = <<>>
<1>1. Written(m) = Fixed(m) \o Rest(m)
  BY DEF Written, Rest
<1>2. FixedSize(m) \in Nat
  BY DEF FixedSize
<1> DEFINE fixed == Fixed(m)
           rest == Rest(m)
<1>3. /\ fixed \in Seq(Bytes) /\ Len(fixed) = FixedSize(m)
      /\ rest \in Seq(Bytes) /\ RestSize(m) \in Nat /\ (~Unnamed(m) => Len(rest) = RestSize(m))
  BY MessageNumbered, FixedIs, RestIs
<1> HIDE DEF fixed, rest
<1>4. fixed \o rest \in Seq(Bytes) /\ Len(fixed \o rest) = Len(fixed) + Len(rest)
  BY <1>3, Whole
<1>5. ASSUME Unnamed(m)
      PROVE  Written(m) = UShort(0) /\ Len(Written(m)) = 2 /\ Size(m) = 1 /\ First(m) = <<>>
  <2>1. First(m) = <<>> /\ OneString(m) /\ FixedSize(m) = 0
    BY <1>5 DEF Unnamed, First, OneString, FixedSize, Query, Resp, DescribeTable, CallerList,
       DeleteCaller, ReadCaller, WriteCaller, Listen, CallList
  <2>2. StringSize(First(m)) = 1
    <3>1. <<>> \in Seq(Bytes) /\ Len(<<>>) = 0
      OBVIOUS
    <3>2. ~(0 >= Escape)
      BY ByteAssumption DEF Escape
    <3>3. /\ StringLength(First(m)) \in Shorts /\ StringLength(First(m)) <= Len(First(m))
          /\ StringSize(First(m)) = (IF StringLength(First(m)) >= Escape THEN 3 ELSE 1)
                                    + StringLength(First(m))
      BY FirstIs, StringIs
    <3>4. StringLength(First(m)) = 0
      BY <2>1, <3>1, <3>3, Widths DEF Shorts
    <3> QED
      BY <3>2, <3>3, <3>4
  <2>3. Size(m) = 1
    BY <2>1, <2>2, SizeIs DEF RestSize
  <2>4. rest = UShort(0)
    BY <1>5, RestChoice DEF rest
  <2>5. fixed = <<>>
    BY <1>3, <2>1, EmptySeq
  <2>6. UShort(0) \in Seq(Bytes) /\ Len(UShort(0)) = 2
    BY MessageNumbered, NumbersAre
  <2>7. <<>> \o UShort(0) = UShort(0)
    BY <2>6, ConcatEmptySeq
  <2>8. Written(m) = UShort(0)
    BY <1>1, <2>4, <2>5, <2>7 DEF fixed, rest
  <2> QED
    BY <2>1, <2>3, <2>6, <2>8
<1>6. ~Unnamed(m) => Len(Written(m)) = Size(m)
  BY <1>1, <1>2, <1>3, <1>4, SizeIs DEF fixed, rest
<1>7. Written(m) \in Seq(Bytes) /\ Size(m) \in Nat
  BY <1>1, <1>2, <1>3, <1>4, SizeIs DEF fixed, rest
<1> QED
  BY <1>5, <1>6, <1>7

\* The data that is sent has the size that is computed.
LEMMA DataIs ==
    ASSUME NEW m, IsMessage(m)
    PROVE  /\ Data(m) \in Seq(Bytes) /\ Len(Data(m)) = Size(m) /\ Size(m) \in Nat
           /\ \A i \in 1..Size(m) : Data(m)[i] = Written(m)[i]
<1> DEFINE w == Written(m)
           n == Size(m)
<1>1. w \in Seq(Bytes) /\ n \in Nat /\ n <= Len(w)
  BY WrittenIs
<1> HIDE DEF w, n
<1>2. CASE n = 0
  <2>1. Data(m) = <<>>
    BY <1>2 DEF Data, n
  <2>2. <<>> \in Seq(Bytes) /\ Len(<<>>) = 0
    OBVIOUS
  <2> QED
    BY <1>2, <2>1, <2>2 DEF n
<1>3. CASE n # 0
  <2>1. Data(m) = SubSeq(w, 1, n)
    BY <1>3 DEF Data, w, n
  <2>2. 0 \in Nat /\ 0 + 1 = 1 /\ n - 0 = n /\ 0 <= n
    BY <1>1
  <2>3. SubSeq(w, 0 + 1, n) \in Seq(Bytes) /\ Len(SubSeq(w, 0 + 1, n)) = n - 0
        /\ \A i \in 1..n - 0 : SubSeq(w, 0 + 1, n)[i] = w[0 + i]
    BY <1>1, <2>2, Slice
  <2>4. \A i \in 1..n : 0 + i = i
    OBVIOUS
  <2> QED
    BY <1>1, <2>1, <2>2, <2>3, <2>4 DEF w, n
<1> QED
  BY <1>2, <1>3

-----------------------------------------------------------------------------
(* Numbers in the header of a part.                                        *)

\* A number of four bytes, by its bytes.
LEMMA GetULongIs ==
    ASSUME NEW bytes, NEW at \in Nat
    PROVE  GetULong(bytes, at) = bytes[at + 1] + Byte * bytes[at + 2]
                                 + UShortMax * (bytes[at + 3] + Byte * bytes[at + 4])
<1>1. at + 2 + 1 = at + 3 /\ at + 2 + 2 = at + 4
  OBVIOUS
<1> QED
  BY <1>1 DEF GetULong, GetUShort

\* The same bytes are the same number.
LEMMA SameNumber ==
    ASSUME NEW a, NEW b, NEW at \in Nat, NEW to \in Nat,
           \A i \in 1..4 : a[at + i] = b[to + i]
    PROVE  GetULong(a, at) = GetULong(b, to)
<1>1. /\ a[at + 1] = b[to + 1] /\ a[at + 2] = b[to + 2]
      /\ a[at + 3] = b[to + 3] /\ a[at + 4] = b[to + 4]
  OBVIOUS
<1>2. /\ GetULong(a, at) = a[at + 1] + Byte * a[at + 2] + UShortMax * (a[at + 3] + Byte * a[at + 4])
      /\ GetULong(b, to) = b[to + 1] + Byte * b[to + 2] + UShortMax * (b[to + 3] + Byte * b[to + 4])
  BY GetULongIs
<1> QED
  BY <1>1, <1>2

\* A number behind other bytes, which stay what they are.
LEMMA ULongBehind ==
    ASSUME NEW a \in Seq(Bytes), NEW v \in Longs
    PROVE  LET more == a \o ULong(v) IN
           /\ more \in Seq(Bytes) /\ Len(more) = Len(a) + 4
           /\ \A i \in 1..Len(a) : more[i] = a[i]
           /\ GetULong(more, Len(a)) = v
           /\ \A at \in Nat : at + 4 <= Len(a) => GetULong(more, at) = GetULong(a, at)
<1> DEFINE n == Len(a)
           b == ULong(v)
           more == a \o b
<1>1. /\ b \in Seq(Bytes) /\ Len(b) = 4
      /\ b[1] + Byte * b[2] + UShortMax * (b[3] + Byte * b[4]) = v
  BY ULongIs, Widths DEF Longs
<1> HIDE DEF b
<1>2. b \in Seq(Bytes)
  BY <1>1
<1>3. /\ more \in Seq(Bytes) /\ Len(more) = Len(a) + Len(b)
      /\ \A i \in 1..Len(a) : more[i] = a[i]
      /\ \A i \in 1..Len(b) : more[Len(a) + i] = b[i]
  BY <1>2, Joined
<1> HIDE DEF more
<1>4a. n \in Nat
  OBVIOUS
<1> HIDE DEF n
<1>4. more[n + 1] = b[1] /\ more[n + 2] = b[2] /\ more[n + 3] = b[3] /\ more[n + 4] = b[4]
  BY <1>1, <1>3, <1>4a DEF n
<1>5. GetULong(more, n) = v
  <2>1. GetULong(more, n) = more[n + 1] + Byte * more[n + 2]
                            + UShortMax * (more[n + 3] + Byte * more[n + 4])
    BY <1>4a, GetULongIs
  <2> QED
    BY <1>1, <1>4, <2>1
<1>6. ASSUME NEW at \in Nat, at + 4 <= n PROVE GetULong(more, at) = GetULong(a, at)
  <2>1. \A i \in 1..4 : at + i \in 1..n
    BY <1>4a, <1>6
  <2>2. \A i \in 1..4 : more[at + i] = a[at + i]
    BY <1>3, <2>1 DEF n
  <2> QED
    BY <2>2, SameNumber
<1> QED
  BY <1>1, <1>3, <1>5, <1>6 DEF more, b, n

\* So is one of two bytes.
LEMMA UShortBehind ==
    ASSUME NEW a \in Seq(Bytes), NEW v \in Nat
    PROVE  LET more == a \o UShort(v) IN
           /\ more \in Seq(Bytes) /\ Len(more) = Len(a) + 2
           /\ \A i \in 1..Len(a) : more[i] = a[i]
           /\ v \in Shorts => GetUShort(more, Len(a)) = v
<1> DEFINE n == Len(a)
           b == UShort(v)
           more == a \o b
<1>1. b \in Seq(Bytes) /\ Len(b) = 2 /\ (v \in Shorts => b[1] + Byte * b[2] = v)
  BY UShortIs
<1> HIDE DEF b
<1>2. b \in Seq(Bytes)
  BY <1>1
<1>3. /\ more \in Seq(Bytes) /\ Len(more) = Len(a) + Len(b)
      /\ \A i \in 1..Len(a) : more[i] = a[i]
      /\ \A i \in 1..Len(b) : more[Len(a) + i] = b[i]
  BY <1>2, Joined
<1> HIDE DEF more
<1>4a. n \in Nat
  OBVIOUS
<1> HIDE DEF n
<1>4. more[n + 1] = b[1] /\ more[n + 2] = b[2]
  BY <1>1, <1>3, <1>4a DEF n
<1> QED
  BY <1>1, <1>3, <1>4 DEF more, b, n, GetUShort

\* What HeaderOf reads is what HeaderBytes writes.
LEMMA HeaderIs ==
    ASSUME NEW m, IsMessage(m), content \in Seq(Bytes), Len(content) \in Longs,
           NEW size \in Longs, NEW at \in Longs
    PROVE  LET h == HeaderBytes(m, size, at) IN
           /\ h \in Seq(Bytes) /\ Len(h) = HeaderSize
           /\ h[3] = m.cmd /\ h[4] = m.sub
           /\ GetULong(h, 10) = Len(content) /\ GetULong(h, 14) = size /\ GetULong(h, 18) = at
<1> DEFINE a == UShort(m.client)
           b == <<m.cmd, m.sub>>
           h4 == a \o b
           h8 == h4 \o ULong(m.id)
           h10 == h8 \o UShort(0)
           h14 == h10 \o ULong(Len(content))
           h18 == h14 \o ULong(size)
           h22 == h18 \o ULong(at)
<1>1. a \in Seq(Bytes) /\ Len(a) = 2
  BY MessageNumbered, NumbersAre
<1>2. b \in Seq(Bytes) /\ Len(b) = 2 /\ b[1] = m.cmd /\ b[2] = m.sub
  <2>1. m.cmd \in Bytes /\ m.sub \in Bytes
    BY DEF IsMessage, Bytes, Register, Listen, Query, Resp
  <2> QED
    BY <2>1
<1> HIDE DEF a, b
<1>3. h4 \in Seq(Bytes) /\ Len(h4) = 4 /\ h4[3] = m.cmd /\ h4[4] = m.sub
  <2>1. a \in Seq(Bytes) /\ b \in Seq(Bytes)
    BY <1>1, <1>2
  <2>2. /\ h4 \in Seq(Bytes) /\ Len(h4) = Len(a) + Len(b)
        /\ \A i \in 1..Len(b) : h4[Len(a) + i] = b[i]
    BY <2>1, Joined
  <2> HIDE DEF h4
  <2>3. h4[2 + 1] = b[1] /\ h4[2 + 2] = b[2]
    BY <1>1, <1>2, <2>2
  <2> QED
    BY <1>1, <1>2, <2>2, <2>3
<1> HIDE DEF h4
<1>4. h8 \in Seq(Bytes) /\ Len(h8) = 8 /\ \A i \in 1..4 : h8[i] = h4[i]
  <2>1. m.id \in Longs /\ h4 \in Seq(Bytes)
    BY <1>3 DEF IsMessage
  <2>2. h8 \in Seq(Bytes) /\ Len(h8) = Len(h4) + 4 /\ \A i \in 1..Len(h4) : h8[i] = h4[i]
    BY <2>1, ULongBehind
  <2> HIDE DEF h8
  <2>3. Len(h4) = 4
    BY <1>3
  <2> QED
    BY <2>2, <2>3
<1> HIDE DEF h8
<1>5. h10 \in Seq(Bytes) /\ Len(h10) = 10 /\ \A i \in 1..8 : h10[i] = h8[i]
  <2>1. h8 \in Seq(Bytes)
    BY <1>4
  <2>2. h10 \in Seq(Bytes) /\ Len(h10) = Len(h8) + 2 /\ \A i \in 1..Len(h8) : h10[i] = h8[i]
    BY <2>1, UShortBehind
  <2> HIDE DEF h10
  <2>3. Len(h8) = 8
    BY <1>4
  <2> QED
    BY <2>2, <2>3
<1> HIDE DEF h10
<1>6. /\ h14 \in Seq(Bytes) /\ Len(h14) = 14 /\ \A i \in 1..10 : h14[i] = h10[i]
      /\ GetULong(h14, 10) = Len(content)
  <2>1. h10 \in Seq(Bytes)
    BY <1>5
  <2>2. /\ h14 \in Seq(Bytes) /\ Len(h14) = Len(h10) + 4
        /\ \A i \in 1..Len(h10) : h14[i] = h10[i]
        /\ GetULong(h14, Len(h10)) = Len(content)
        /\ \A from \in Nat : from + 4 <= Len(h10) => GetULong(h14, from) = GetULong(h10, from)
    BY <2>1, ULongBehind
  <2> HIDE DEF h14
  <2>3. Len(h10) = 10
    BY <1>5
  <2> QED
    BY <2>2, <2>3
<1> HIDE DEF h14
<1>7. /\ h18 \in Seq(Bytes) /\ Len(h18) = 18 /\ \A i \in 1..14 : h18[i] = h14[i]
      /\ GetULong(h18, 14) = size /\ GetULong(h18, 10) = GetULong(h14, 10)
  <2>1. h14 \in Seq(Bytes)
    BY <1>6
  <2>2. /\ h18 \in Seq(Bytes) /\ Len(h18) = Len(h14) + 4
        /\ \A i \in 1..Len(h14) : h18[i] = h14[i]
        /\ GetULong(h18, Len(h14)) = size
        /\ \A from \in Nat : from + 4 <= Len(h14) => GetULong(h18, from) = GetULong(h14, from)
    BY <2>1, ULongBehind
  <2> HIDE DEF h18
  <2>3. Len(h14) = 14
    BY <1>6
  <2> QED
    BY <2>2, <2>3
<1> HIDE DEF h18
<1>8. /\ h22 \in Seq(Bytes) /\ Len(h22) = 22 /\ \A i \in 1..18 : h22[i] = h18[i]
      /\ GetULong(h22, 18) = at /\ GetULong(h22, 14) = GetULong(h18, 14)
      /\ GetULong(h22, 10) = GetULong(h18, 10)
  <2>1. h18 \in Seq(Bytes)
    BY <1>7
  <2>2. /\ h22 \in Seq(Bytes) /\ Len(h22) = Len(h18) + 4
        /\ \A i \in 1..Len(h18) : h22[i] = h18[i]
        /\ GetULong(h22, Len(h18)) = at
        /\ \A from \in Nat : from + 4 <= Len(h18) => GetULong(h22, from) = GetULong(h18, from)
    BY <2>1, ULongBehind
  <2> HIDE DEF h22
  <2>3. Len(h18) = 18
    BY <1>7
  <2> QED
    BY <2>2, <2>3
<1> HIDE DEF h22
<1>9. h22[3] = h4[3] /\ h22[4] = h4[4]
  <2> SUFFICES ASSUME NEW i \in {3, 4} PROVE h22[i] = h4[i]
    OBVIOUS
  <2>1. i \in 1..4 /\ i \in 1..8 /\ i \in 1..10 /\ i \in 1..14 /\ i \in 1..18
    OBVIOUS
  <2>2. h8[i] = h4[i] /\ h10[i] = h8[i] /\ h14[i] = h10[i] /\ h18[i] = h14[i] /\ h22[i] = h18[i]
    BY <1>4, <1>5, <1>6, <1>7, <1>8, <2>1
  <2> QED
    BY <2>2
<1>10. HeaderBytes(m, size, at) = h22
  BY DEF HeaderBytes, a, b, h4, h8, h10, h14, h18, h22
<1> QED
  BY <1>3, <1>6, <1>7, <1>8, <1>9, <1>10 DEF HeaderSize

-----------------------------------------------------------------------------
(* Reading: strings.                                                       *)

\* The prefixes of ReadStrings.
IsReading(read, bytes, start, n) ==
    read = [k \in 0..n |-> IF k = 0 THEN [at |-> start, strings |-> <<>>]
                          ELSE ReadOne(bytes, read[k - 1])]

\* ReadStrings has them.
LEMMA ReadExists ==
    ASSUME NEW bytes, NEW start, NEW len \in Nat
    PROVE  \E read : /\ IsReading(read, bytes, start, len)
                    /\ ReadStrings(bytes, start, len) = read[len].strings
<1> DEFINE IsRead(read, n) ==
             read = [k \in 0..n |->
               IF k = 0 THEN [at |-> start, strings |-> <<>>] ELSE ReadOne(bytes, read[k - 1])]
           T == {n \in Nat : \E read : IsRead(read, n)}
<1>1. 0 \in T
  <2>1. IsRead([k \in {0} |-> [at |-> start, strings |-> <<>>]], 0)
    OBVIOUS
  <2> QED
    BY <2>1
<1>2. ASSUME NEW n \in Nat, n \in T PROVE n + 1 \in T
  <2>1. PICK read : IsRead(read, n)
    BY <1>2
  <2> DEFINE more == [k \in 0..n + 1 |-> IF k = n + 1 THEN ReadOne(bytes, read[n]) ELSE read[k]]
  <2>2. more[n + 1] = ReadOne(bytes, read[n]) /\ \A k \in 0..n : more[k] = read[k]
    OBVIOUS
  <2>3. ASSUME NEW k \in 0..n + 1
        PROVE  more[k] = IF k = 0 THEN [at |-> start, strings |-> <<>>]
                         ELSE ReadOne(bytes, more[k - 1])
    <3>1. CASE k = n + 1
      <4>1. k # 0 /\ k - 1 = n /\ n \in 0..n
        BY <3>1
      <4>2. more[n] = read[n]
        BY <2>2, <4>1
      <4> HIDE DEF more
      <4> QED
        BY <2>2, <3>1, <4>1, <4>2
    <3>2. CASE k \in 0..n
      <4>1. read[k] = IF k = 0 THEN [at |-> start, strings |-> <<>>]
                      ELSE ReadOne(bytes, read[k - 1])
        BY <2>1, <3>2
      <4>2. k # 0 => k - 1 \in 0..n
        BY <3>2
      <4> HIDE DEF more
      <4> QED
        BY <2>2, <3>2, <4>1, <4>2
    <3> QED
      BY <3>1, <3>2
  <2>4. IsRead(more, n + 1)
    <3>1. more = [k \in 0..n + 1 |-> more[k]]
      OBVIOUS
    <3> HIDE DEF more
    <3> QED
      BY <2>3, <3>1
  <2>5. n + 1 \in Nat
    OBVIOUS
  <2> QED
    BY <2>4, <2>5
<1>3. len \in T
  <2> HIDE DEF T
  <2> QED
    BY <1>1, <1>2, SetInduction
<1> DEFINE choice == CHOOSE read : IsRead(read, len)
<1>4. IsRead(choice, len)
  <2>1. \E read : IsRead(read, len)
    BY <1>3
  <2> HIDE DEF IsRead
  <2> QED
    BY <2>1
<1>5. ReadStrings(bytes, start, len) = choice[len].strings
  BY DEF ReadStrings
<1>6. IsReading(choice, bytes, start, len)
  BY <1>4 DEF IsReading
<1> HIDE DEF choice
<1> QED
  BY <1>5, <1>6

\* One string, wherever its bytes are.
LEMMA ReadOneIs ==
    ASSUME NEW bytes \in Seq(Bytes), NEW s \in Seq(Bytes), Len(s) \in Shorts, NEW prev,
           prev.at \in Nat, prev.at + StringSize(s) <= Len(bytes),
           \A i \in 1..StringSize(s) : bytes[prev.at + i] = StringBytes(s)[i]
    PROVE  ReadOne(bytes, prev) =
             [at |-> prev.at + StringSize(s), strings |-> Append(prev.strings, s)]
<1> DEFINE at == prev.at
           len == Len(s)
           size == StringSize(s)
           start == IF len >= Escape THEN 3 ELSE 1
<1>1. /\ size = start + len /\ size \in Nat
      /\ \A i \in 1..len : StringBytes(s)[start + i] = s[i]
      /\ len >= Escape => /\ StringBytes(s)[1] = Escape
                          /\ StringBytes(s)[2] + Byte * StringBytes(s)[3] = len
      /\ len < Escape => StringBytes(s)[1] = len
  <2>1. StringLength(s) = len
    BY ShortStays DEF StringLength
  <2> QED
    BY <2>1, StringIs
<1>2. len \in Nat /\ Escape \in Nat /\ at \in Nat /\ start \in {1, 3}
  <2>1. Escape \in Nat
    BY ByteAssumption DEF Escape
  <2> QED
    BY <2>1
<1>3. \A i \in 1..size : bytes[at + i] = StringBytes(s)[i]
  OBVIOUS
<1>4. at + size <= Len(bytes)
  OBVIOUS
<1> HIDE DEF at, len, size
<1>5. bytes[at + 1] = Escape <=> len >= Escape
  <2>1. 1 \in 1..size
    BY <1>1, <1>2
  <2>2. bytes[at + 1] = StringBytes(s)[1]
    BY <1>3, <2>1
  <2>3. len >= Escape \/ (len < Escape /\ len # Escape)
    BY <1>2
  <2> QED
    BY <1>1, <1>2, <2>2, <2>3
<1>6. (IF bytes[at + 1] = Escape THEN GetUShort(bytes, at + 1) ELSE bytes[at + 1]) = len
  <2>1. CASE len >= Escape
    <3>1. 2 \in 1..size /\ 3 \in 1..size /\ at + 1 + 1 = at + 2 /\ at + 1 + 2 = at + 3
      BY <1>1, <1>2, <2>1
    <3> QED
      BY <1>1, <1>3, <1>5, <2>1, <3>1 DEF GetUShort
  <2>2. CASE len < Escape
    <3>1. 1 \in 1..size /\ ~(len >= Escape)
      BY <1>1, <1>2, <2>2
    <3> QED
      BY <1>1, <1>3, <1>5, <2>2, <3>1
  <2> QED
    BY <1>2, <2>1, <2>2
<1> DEFINE text == at + IF bytes[at + 1] = Escape THEN 3 ELSE 1
<1>7. text = at + start /\ text \in Nat
  BY <1>2, <1>5
<1> HIDE DEF text, start
<1>8. text + len = at + size /\ text <= text + len /\ text + len <= Len(bytes) /\ text + len \in Nat
  BY <1>1, <1>2, <1>4, <1>7
<1>9. SubSeq(bytes, text + 1, text + len) = s
  <2> DEFINE end == text + len
             t == SubSeq(bytes, text + 1, end)
  <2>1. end \in Nat /\ text <= end /\ end <= Len(bytes) /\ end - text = len
    BY <1>2, <1>7, <1>8
  <2> HIDE DEF end
  <2>2. t \in Seq(Bytes) /\ Len(t) = end - text /\ \A i \in 1..end - text : t[i] = bytes[text + i]
    BY <1>7, <2>1, Slice
  <2> HIDE DEF t
  <2>3. ASSUME NEW i \in 1..len PROVE t[i] = s[i]
    <3>1. start + i \in 1..size /\ at + (start + i) = text + i
      BY <1>1, <1>2, <1>7 DEF start
    <3> QED
      BY <1>1, <1>3, <2>1, <2>2, <3>1
  <2>4. t = s
    BY <2>1, <2>2, <2>3, SeqEqual DEF len
  <2> QED
    BY <2>4 DEF t, end
<1>10. ReadOne(bytes, prev) =
         [at |-> text + len, strings |-> Append(prev.strings, SubSeq(bytes, text + 1, text + len))]
  BY <1>6 DEF ReadOne, text, at
<1> QED
  BY <1>8, <1>9, <1>10 DEF at, size

\* A list of strings is read as it was written.
LEMMA StringsRead ==
    ASSUME NEW bytes \in Seq(Bytes), NEW strings, IsTexts(strings), IsCounted(strings),
           NEW start \in Nat, start + AllSizes(strings) <= Len(bytes),
           \A i \in 1..AllSizes(strings) : bytes[start + i] = AllBytes(strings)[i]
    PROVE  ReadStrings(bytes, start, Len(strings)) = strings
<1> DEFINE n == Len(strings)
<1>1. strings \in Seq(Seq(Bytes)) /\ n \in Nat
      /\ \A k \in 1..n : strings[k] \in Seq(Bytes) /\ Len(strings[k]) \in Shorts
  BY DEF IsTexts, IsCounted
<1>2. PICK sum : Begins(strings, sum) /\ AllSizes(strings) = sum[n]
  BY BeginsThere
<1>3. /\ sum[0] = 0 /\ \A k \in 0..n : sum[k] \in Nat
      /\ \A k \in 1..n : sum[k] = sum[k - 1] + StringSize(strings[k])
  BY <1>2 DEF Begins
<1>4. \A k \in 1..n : \A q \in 1..StringSize(strings[k]) :
         AllBytes(strings)[sum[k - 1] + q] = StringBytes(strings[k])[q]
  BY <1>2, AllBytesIs
<1>5. \A k \in 1..n : StringSize(strings[k]) \in Nat
  BY <1>1, StringIs
<1>6. \A k \in 0..n : sum[k] <= sum[n]
  <2>1. n \in 0..n
    BY <1>1
  <2> QED
    BY <1>2, <2>1, SumRises
<1> HIDE DEF n
<1>7. PICK read : /\ IsReading(read, bytes, start, n)
                  /\ ReadStrings(bytes, start, n) = read[n].strings
  BY <1>1, ReadExists
<1>8. /\ read[0] = [at |-> start, strings |-> <<>>]
      /\ \A k \in 1..n : read[k] = ReadOne(bytes, read[k - 1])
  <2>1. 0 \in 0..n /\ \A k \in 1..n : k \in 0..n /\ k # 0
    BY <1>1
  <2>2. \A k \in 0..n : read[k] = IF k = 0 THEN [at |-> start, strings |-> <<>>]
                                  ELSE ReadOne(bytes, read[k - 1])
    BY <1>7 DEF IsReading
  <2> QED
    BY <2>1, <2>2
<1>9. start + sum[n] <= Len(bytes) /\ \A i \in 1..sum[n] : bytes[start + i] = AllBytes(strings)[i]
  BY <1>2
<1> DEFINE Good(k) ==
             /\ read[k].at = start + sum[k] /\ read[k].strings \in Seq(Seq(Bytes))
             /\ Len(read[k].strings) = k
             /\ \A i \in 1..k : read[k].strings[i] = strings[i]
           T == {k \in Nat : k <= n => Good(k)}
<1>10. 0 \in T
  <2>1. <<>> \in Seq(Seq(Bytes)) /\ Len(<<>>) = 0
    OBVIOUS
  <2>2. Good(0)
    BY <1>3, <1>8, <2>1
  <2> QED
    BY <2>2
<1>11. ASSUME NEW k \in Nat, k \in T, k + 1 <= n PROVE Good(k + 1)
  <2> DEFINE s == strings[k + 1]
             prev == read[k]
             size == StringSize(s)
  <2>1. k <= n /\ k + 1 \in 1..n /\ k + 1 - 1 = k /\ k \in 0..n /\ k + 1 \in 0..n
    BY <1>1, <1>11
  <2>2. Good(k)
    <3> HIDE DEF Good
    <3> QED
      BY <1>11, <2>1
  <2>3. /\ s \in Seq(Bytes) /\ Len(s) \in Shorts /\ size \in Nat
        /\ sum[k + 1] = sum[k] + size /\ sum[k] \in Nat /\ sum[k + 1] <= sum[n]
        /\ sum[n] \in Nat
    <3>1. n \in 0..n
      BY <1>1
    <3> QED
      BY <1>1, <1>3, <1>5, <1>6, <2>1, <3>1
  <2>4. /\ prev.at = start + sum[k] /\ prev.strings \in Seq(Seq(Bytes)) /\ Len(prev.strings) = k
        /\ \A i \in 1..k : prev.strings[i] = strings[i]
    BY <2>2
  <2>5. \A q \in 1..size : AllBytes(strings)[sum[k] + q] = StringBytes(s)[q]
    BY <1>4, <2>1 DEF n
  <2>6. read[k + 1] = ReadOne(bytes, prev)
    BY <1>8, <2>1
  <2> HIDE DEF s, prev, size, Good
  <2>7. /\ prev.at \in Nat /\ prev.at + size <= Len(bytes)
    BY <1>9, <2>3, <2>4
  <2>8. ASSUME NEW q \in 1..size PROVE bytes[prev.at + q] = StringBytes(s)[q]
    <3>1. sum[k] + q \in 1..sum[n] /\ prev.at + q = start + (sum[k] + q)
      BY <2>3, <2>4
    <3> QED
      BY <1>9, <2>5, <3>1
  <2>9. read[k + 1] = [at |-> prev.at + size, strings |-> Append(prev.strings, s)]
    BY <2>3, <2>6, <2>7, <2>8, ReadOneIs DEF size
  <2>10. prev.at + size = start + sum[k + 1]
    BY <2>3, <2>4
  <2> DEFINE before == prev.strings
             more == Append(before, s)
  <2>11. before \in Seq(Seq(Bytes)) /\ s \in Seq(Bytes) /\ Len(before) = k
         /\ \A i \in 1..k : before[i] = strings[i]
    BY <2>3, <2>4
  <2> HIDE DEF before
  <2>12. /\ more \in Seq(Seq(Bytes)) /\ Len(more) = k + 1 /\ more[k + 1] = s
         /\ \A i \in 1..k : more[i] = before[i]
    BY <2>11, AppendProperties
  <2> HIDE DEF more
  <2>13. \A i \in 1..k + 1 : more[i] = strings[i]
    <3>1. \A i \in 1..k + 1 : i \in 1..k \/ i = k + 1
      OBVIOUS
    <3> QED
      BY <2>11, <2>12, <3>1 DEF s
  <2>14. read[k + 1].at = start + sum[k + 1] /\ read[k + 1].strings = more
    BY <2>9, <2>10 DEF more, before
  <2> QED
    BY <2>12, <2>13, <2>14 DEF Good
<1>12. \A k \in Nat : k \in T => k + 1 \in T
  <2> HIDE DEF Good
  <2> QED
    BY <1>11
<1>13. Nat \subseteq T
  <2> HIDE DEF T
  <2> QED
    BY <1>10, <1>12, SetInduction
<1>14. Good(n)
  <2> HIDE DEF Good
  <2> QED
    BY <1>1, <1>13 DEF n
<1>15. read[n].strings = strings
  <2> DEFINE t == read[n].strings
  <2>1. t \in Seq(Seq(Bytes)) /\ Len(t) = n /\ \A i \in 1..n : t[i] = strings[i]
    BY <1>14
  <2> HIDE DEF t
  <2>2. t = strings
    BY <1>1, <2>1, SeqEqual DEF n
  <2> QED
    BY <2>2 DEF t
<1> QED
  BY <1>7, <1>15 DEF n

-----------------------------------------------------------------------------
(* Reading: tables.                                                        *)

\* As long as an unsigned short counts the fields, a field is where it belongs.
LEMMA PlaceIs ==
    ASSUME NEW nrows \in Nat, NEW ncols \in Nat, nrows * ncols <= UShortMax,
           NEW k \in 1..nrows * ncols
    PROVE  Place(ncols, k) = k
<1> DEFINE count == nrows * ncols
           row == (k - 1) \div ncols
           col == (k - 1) % ncols
           first == row * ncols
<1>1. count \in Nat /\ k \in Nat /\ 1 <= k /\ k <= count /\ count <= UShortMax
  OBVIOUS
<1>2. ncols \in Nat \ {0}
  BY <1>1
<1>3. col \in Nat /\ row \in Nat /\ k - 1 = col + (ncols * row)
  <2> DEFINE j == k - 1
  <2>1. j \in Nat
    BY <1>1
  <2> HIDE DEF j
  <2>2. /\ j % ncols \in 0..ncols - 1 /\ j \div ncols \in Nat
        /\ j = (j % ncols) + ncols * (j \div ncols)
    BY <1>2, <2>1, Digit
  <2>3. 0..ncols - 1 \subseteq Nat
    BY <1>2
  <2> QED
    BY <2>2, <2>3 DEF j
<1>4. first = ncols * row /\ first \in Nat
  BY <1>2, <1>3
<1> HIDE DEF count, col, row
<1>5. first < UShortMax /\ first \in 0..UShortMax - 1
  <2> HIDE DEF first
  <2> QED
    BY <1>1, <1>3, <1>4, Widths
<1>6. ASSUME NEW u \in Nat \ {0}, NEW f \in 0..u - 1 PROVE f % u = f
  OBVIOUS
<1>7. first % UShortMax = first
  <2> HIDE DEF first
  <2> QED
    BY <1>5, <1>6, Widths
<1>8. Place(ncols, k) = (first % UShortMax) + col + 1
  BY DEF Place, row, col
<1> HIDE DEF first
<1> QED
  BY <1>1, <1>3, <1>4, <1>7, <1>8

\* A table is read as it was written, if its fields can be counted.
LEMMA TableRead ==
    ASSUME NEW t, IsTable(t), t.nrows * t.ncols <= UShortMax,
           IsCounted(t.names), IsCounted(t.fields),
           NEW bytes \in Seq(Bytes), NEW start \in Nat, start + TableSize(t) <= Len(bytes),
           \A i \in 1..TableSize(t) : bytes[start + i] = TableBytes(t)[i]
    PROVE  ReadTable(bytes, start) = t
<1> DEFINE rows == UShort(t.nrows)
           cols == UShort(t.ncols)
           strings == TableStrings(t)
           texts == AllBytes(strings)
           size == AllSizes(strings)
           count == t.nrows * t.ncols
           n == t.ncols
<1>0. /\ \A i \in 1..Len(t.names) : Len(t.names[i]) \in Shorts
      /\ \A k \in 1..Len(t.fields) : Len(t.fields[k]) \in Shorts
  BY DEF IsCounted
<1>1. /\ t.nrows \in Nat /\ n \in Nat /\ t.nrows \in Shorts /\ n \in Shorts
      /\ t = [nrows |-> t.nrows, ncols |-> t.ncols, names |-> t.names, fields |-> t.fields]
      /\ t.names \in Seq(Seq(Bytes)) /\ t.fields \in Seq(Seq(Bytes))
      /\ Len(t.names) = n /\ Len(t.fields) = count
  BY Widths DEF IsTable, IsTexts, Shorts
<1>2. /\ rows \in Seq(Bytes) /\ Len(rows) = 2 /\ rows[1] + Byte * rows[2] = t.nrows
      /\ cols \in Seq(Bytes) /\ Len(cols) = 2 /\ cols[1] + Byte * cols[2] = n
  BY <1>1, UShortIs
<1>3. /\ IsTexts(strings) /\ count \in Nat /\ Len(strings) = n + count
      /\ \A i \in 1..n : strings[i] = t.names[i]
      /\ \A k \in 1..count : strings[n + k] = t.fields[Place(n, k)]
  BY TableStringsAre
<1>4. texts \in Seq(Bytes) /\ size \in Nat /\ Len(texts) = size
  BY <1>3, AllSizesIs
<1>5. TableBytes(t) = rows \o cols \o texts /\ TableSize(t) = 4 + size
  BY DEF TableBytes, TableSize
<1>6. \A k \in 1..count : Place(n, k) = k
  BY <1>1, PlaceIs
<1> HIDE DEF rows, cols, strings, texts, size, count, n
<1>7. /\ TableBytes(t)[1] = rows[1] /\ TableBytes(t)[2] = rows[2]
      /\ TableBytes(t)[3] = cols[1] /\ TableBytes(t)[4] = cols[2]
      /\ \A i \in 1..size : TableBytes(t)[4 + i] = texts[i]
  <2> DEFINE head == rows \o cols
  <2>1. rows \in Seq(Bytes) /\ cols \in Seq(Bytes)
    BY <1>2
  <2>2. /\ head \in Seq(Bytes) /\ Len(head) = Len(rows) + Len(cols)
        /\ \A i \in 1..Len(rows) : head[i] = rows[i]
        /\ \A i \in 1..Len(cols) : head[Len(rows) + i] = cols[i]
    BY <2>1, Joined
  <2> HIDE DEF head
  <2>3. /\ Len(head) = 4 /\ head[1] = rows[1] /\ head[2] = rows[2]
        /\ head[2 + 1] = cols[1] /\ head[2 + 2] = cols[2]
    BY <1>2, <2>2
  <2>4. head \in Seq(Bytes) /\ texts \in Seq(Bytes)
    BY <1>4, <2>2
  <2>5. /\ \A i \in 1..Len(head) : (head \o texts)[i] = head[i]
        /\ \A i \in 1..Len(texts) : (head \o texts)[Len(head) + i] = texts[i]
    BY <2>4, Joined
  <2>6. TableBytes(t) = head \o texts
    BY <1>5 DEF head
  <2>7. \A i \in 1..4 : TableBytes(t)[i] = head[i]
    BY <2>3, <2>5, <2>6
  <2>8. \A i \in 1..size : TableBytes(t)[4 + i] = texts[i]
    BY <1>4, <2>3, <2>5, <2>6
  <2>9. /\ head[3] = cols[1] /\ head[4] = cols[2]
        /\ 1 \in 1..4 /\ 2 \in 1..4 /\ 3 \in 1..4 /\ 4 \in 1..4
    BY <2>3
  <2> QED
    BY <2>3, <2>7, <2>8, <2>9
<1>8. \A i \in 1..4 + size : bytes[start + i] = TableBytes(t)[i]
  BY <1>5
<1>9. GetUShort(bytes, start) = t.nrows /\ GetUShort(bytes, start + 2) = n
  <2>1. /\ bytes[start + 1] = rows[1] /\ bytes[start + 2] = rows[2]
        /\ bytes[start + 3] = cols[1] /\ bytes[start + 4] = cols[2]
    BY <1>4, <1>7, <1>8
  <2>2. start + 2 + 1 = start + 3 /\ start + 2 + 2 = start + 4
    OBVIOUS
  <2> QED
    BY <1>2, <2>1, <2>2 DEF GetUShort
<1>a. IsCounted(strings)
  <2> SUFFICES ASSUME NEW i \in 1..n + count PROVE Len(strings[i]) \in Shorts
    BY <1>3 DEF IsCounted
  <2>1. CASE i \in 1..n
    BY <1>0, <1>1, <1>3, <2>1
  <2>2. CASE i \notin 1..n
    <3>1. i - n \in 1..count /\ n + (i - n) = i
      BY <1>1, <1>3, <2>2
    <3>2. strings[i] = t.fields[i - n]
      BY <1>3, <1>6, <3>1
    <3> QED
      BY <1>0, <1>1, <3>1, <3>2
  <2> QED
    BY <2>1, <2>2
<1>10. ReadStrings(bytes, start + 4, n + count) = strings
  <2>1. start + 4 \in Nat /\ start + 4 + size <= Len(bytes)
    BY <1>4, <1>5
  <2>2. ASSUME NEW i \in 1..size PROVE bytes[start + 4 + i] = texts[i]
    <3>1. 4 + i \in 1..4 + size /\ start + 4 + i = start + (4 + i)
      BY <1>4
    <3> QED
      BY <1>7, <1>8, <3>1
  <2> QED
    BY <1>3, <1>a, <2>1, <2>2, StringsRead DEF size, texts
<1> DEFINE For(x) == {k \in Cells(t.nrows, n) : Place(n, k) = x}
           Latest(x) == CHOOSE k \in For(x) : \A other \in For(x) : other <= k
           fields == [x \in Cells(t.nrows, n) |-> IF For(x) = {} THEN <<-1>>
                                                ELSE strings[n + Latest(x)]]
<1>11. Cells(t.nrows, n) = 1..count
  BY DEF Cells, count, n
<1>12. fields = t.fields
  <2>1. ASSUME NEW x \in 1..count PROVE For(x) = {x} /\ Latest(x) = x
    <3>1. For(x) = {x}
      BY <1>6, <1>11
    <3> HIDE DEF For
    <3>2. \A k \in For(x) : k = x /\ x <= x
      BY <1>3, <3>1
    <3> QED
      BY <3>1, <3>2
  <2>2. ASSUME NEW x \in 1..count PROVE fields[x] = t.fields[x]
    <3>1. fields[x] = strings[n + x]
      BY <1>11, <2>1
    <3> QED
      BY <1>3, <1>6, <3>1
  <2>3. DOMAIN t.fields = 1..count /\ t.fields = [x \in 1..count |-> t.fields[x]]
    BY <1>1
  <2>4. fields = [x \in 1..count |-> fields[x]]
    BY <1>11
  <2> HIDE DEF fields
  <2> QED
    BY <2>2, <2>3, <2>4
<1>13. SubSeq(strings, 1, n) = t.names
  <2> DEFINE u == SubSeq(strings, 0 + 1, n)
  <2>1. 0 \in Nat /\ 0 <= n /\ n <= Len(strings) /\ n - 0 = n /\ \A i \in 1..n : 0 + i = i
    BY <1>1, <1>3
  <2>2. strings \in Seq(Seq(Bytes))
    BY <1>3 DEF IsTexts
  <2>3. u \in Seq(Seq(Bytes)) /\ Len(u) = n - 0 /\ \A i \in 1..n - 0 : u[i] = strings[0 + i]
    BY <1>1, <2>1, <2>2, Slice
  <2> HIDE DEF u
  <2>4. \A i \in 1..n : u[i] = t.names[i]
    BY <1>3, <2>1, <2>3
  <2> DEFINE words == Seq(Bytes)
             names == t.names
  <2>5. /\ u \in Seq(words) /\ names \in Seq(words) /\ Len(u) = Len(names)
        /\ \A i \in 1..Len(u) : u[i] = names[i]
    BY <1>1, <2>1, <2>3, <2>4
  <2> HIDE DEF words, names
  <2>6. u = names
    BY <2>5, SeqEqual
  <2>7. 0 + 1 = 1
    OBVIOUS
  <2> QED
    BY <2>6, <2>7 DEF u, names
<1>14. ReadTable(bytes, start) =
         [nrows |-> t.nrows, ncols |-> n, names |-> SubSeq(strings, 1, n), fields |-> fields]
  <2> DEFINE r == GetUShort(bytes, start)
             c == GetUShort(bytes, start + 2)
             all == ReadStrings(bytes, start + 4, c + r * c)
             F(x) == {k \in Cells(r, c) : Place(c, k) = x}
             L(x) == CHOOSE k \in F(x) : \A other \in F(x) : other <= k
  <2>1. ReadTable(bytes, start) =
          [nrows |-> r, ncols |-> c, names |-> SubSeq(all, 1, c),
           fields |-> [x \in Cells(r, c) |-> IF F(x) = {} THEN <<-1>> ELSE all[c + L(x)]]]
    BY Zenon DEF ReadTable
  <2>2. r = t.nrows /\ c = n
    BY <1>9
  <2>3. c + r * c = n + count
    BY <2>2 DEF count, n
  <2>4. all = strings
    BY <1>10, <2>3
  <2> HIDE DEF r, c, all
  <2>5. \A x : F(x) = For(x) /\ L(x) = Latest(x)
    BY <2>2
  <2> QED
    BY <2>1, <2>2, <2>4, <2>5
<1> HIDE DEF fields
<1> QED
  BY <1>1, <1>12, <1>13, <1>14 DEF n

-----------------------------------------------------------------------------
(* Reading: numbers.                                                       *)

\* Bytes that begin as others do.
BeginAs(bytes, others) == \A i \in 1..Len(others) : bytes[i] = others[i]

\* The same bytes are the same number.
LEMMA SameShort ==
    ASSUME NEW a, NEW b, NEW at \in Nat, NEW to \in Nat,
           a[at + 1] = b[to + 1], a[at + 2] = b[to + 2]
    PROVE  GetUShort(a, at) = GetUShort(b, to)
BY DEF GetUShort

\* A number at the beginning is read as it was written.
LEMMA ShortRead ==
    ASSUME NEW v \in Shorts, NEW bytes, BeginAs(bytes, UShort(v))
    PROVE  GetUShort(bytes, 0) = v
<1>1. v \in Nat
  BY Widths DEF Shorts
<1>2. Len(UShort(v)) = 2 /\ UShort(v)[1] + Byte * UShort(v)[2] = v
  BY <1>1, UShortIs
<1>3. 1 \in 1..Len(UShort(v)) /\ 2 \in 1..Len(UShort(v))
  BY <1>2
<1>4. bytes[1] = UShort(v)[1] /\ bytes[2] = UShort(v)[2]
  BY <1>3 DEF BeginAs
<1>5. 0 + 1 = 1 /\ 0 + 2 = 2
  OBVIOUS
<1> QED
  BY <1>2, <1>4, <1>5 DEF GetUShort

\* So is one of four bytes.
LEMMA LongRead ==
    ASSUME NEW v \in Longs, NEW bytes, BeginAs(bytes, ULong(v))
    PROVE  GetULong(bytes, 0) = v
<1> DEFINE b == ULong(v)
<1>1. v \in Nat
  BY Widths DEF Longs
<1>2. Len(b) = 4 /\ b[1] + Byte * b[2] + UShortMax * (b[3] + Byte * b[4]) = v
  BY <1>1, ULongIs
<1>3. \A i \in 1..Len(b) : bytes[i] = b[i]
  BY DEF BeginAs
<1> HIDE DEF b
<1>4. bytes[1] = b[1] /\ bytes[2] = b[2] /\ bytes[3] = b[3] /\ bytes[4] = b[4]
  BY <1>2, <1>3
<1>5. GetULong(bytes, 0) = bytes[0 + 1] + Byte * bytes[0 + 2]
                           + UShortMax * (bytes[0 + 3] + Byte * bytes[0 + 4])
  BY GetULongIs
<1> QED
  BY <1>2, <1>4, <1>5

\* Numbers behind one another.
LEMMA ShortThere ==
    ASSUME NEW a \in Seq(Bytes), NEW v \in Shorts, NEW bytes, BeginAs(bytes, a \o UShort(v))
    PROVE  BeginAs(bytes, a) /\ GetUShort(bytes, Len(a)) = v
<1> DEFINE more == a \o UShort(v)
           n == Len(a)
<1>1. v \in Nat
  BY Widths DEF Shorts
<1>2. /\ Len(more) = Len(a) + 2 /\ \A i \in 1..Len(a) : more[i] = a[i]
      /\ GetUShort(more, Len(a)) = v
  BY <1>1, UShortBehind
<1>3. \A i \in 1..Len(more) : bytes[i] = more[i]
  BY DEF BeginAs
<1>4. n \in Nat
  OBVIOUS
<1> HIDE DEF more
<1>5. BeginAs(bytes, a)
  BY <1>2, <1>3, <1>4 DEF BeginAs, n
<1>6. bytes[n + 1] = more[n + 1] /\ bytes[n + 2] = more[n + 2]
  BY <1>2, <1>3, <1>4 DEF n
<1>7. GetUShort(bytes, n) = GetUShort(more, n)
  BY <1>4, <1>6, SameShort
<1> QED
  BY <1>2, <1>5, <1>7 DEF n

\* So is one of four bytes.
LEMMA LongThere ==
    ASSUME NEW a \in Seq(Bytes), NEW v \in Longs, NEW bytes, BeginAs(bytes, a \o ULong(v))
    PROVE  BeginAs(bytes, a) /\ GetULong(bytes, Len(a)) = v
<1> DEFINE more == a \o ULong(v)
           n == Len(a)
<1>2. /\ Len(more) = Len(a) + 4 /\ \A i \in 1..Len(a) : more[i] = a[i]
      /\ GetULong(more, Len(a)) = v
  BY ULongBehind
<1>3. \A i \in 1..Len(more) : bytes[i] = more[i]
  BY DEF BeginAs
<1>4. n \in Nat
  OBVIOUS
<1> HIDE DEF more
<1>5. BeginAs(bytes, a)
  BY <1>2, <1>3, <1>4 DEF BeginAs, n
<1>6. \A i \in 1..4 : bytes[n + i] = more[n + i]
  BY <1>2, <1>3, <1>4 DEF n
<1>7. GetULong(bytes, n) = GetULong(more, n)
  BY <1>4, <1>6, SameNumber
<1> QED
  BY <1>2, <1>5, <1>7 DEF n

\* What a message says, field by field.
Says(m, strings, table) ==
    LET query == m.sub = Query IN
    [cmd    |-> m.cmd, sub |-> m.sub, id |-> 0,
     client |-> IF ~query /\ m.cmd = Register THEN m.client ELSE 0,
     err    |-> IF ~query THEN m.err ELSE 0,
     user   |-> IF query /\ m.cmd \in {CallerList, ReadCaller, WriteCaller, DeleteCaller}
                THEN m.user ELSE 0,
     flags  |-> IF query /\ m.cmd \in {ReadCaller, WriteCaller}
                THEN m.flags % UShortMax ELSE 0,
     number |-> IF \/ ~query /\ m.cmd \in {WriteCaller, WriteCall, ListInfo}
                   \/ query /\ m.cmd \in {CallList, Listen}
                THEN m.number ELSE 0,
     count  |-> IF query /\ m.cmd = CallList THEN m.count ELSE 0,
     strings |-> strings, table |-> table]

\* Meaning, field by field.
LEMMA MeaningIs ==
    ASSUME NEW m, IsMessage(m)
    PROVE  Meaning(m) = Says(m, IF OneString(m) THEN <<First(m)>>
                                ELSE IF Strings(m) THEN m.strings ELSE <<>>,
                             IF HasTable(m) THEN m.table ELSE NoTable)
<1> DEFINE strings == IF OneString(m) THEN <<First(m)>>
                      ELSE IF Strings(m) THEN m.strings ELSE <<>>
           table == IF HasTable(m) THEN m.table ELSE NoTable
           fields == {"cmd", "sub", "id", "client", "err", "user", "flags", "number", "count",
                      "strings", "table"}
<1>1. m.cmd \in Register..Listen /\ m.sub \in {Query, Resp} /\ DOMAIN m = DOMAIN Zero
  BY DEF IsMessage
<1>2. DOMAIN Zero = fields
  BY DEF Zero
<1> DEFINE Said(f) == IF f \notin Carried(m) THEN Zero[f]
                      ELSE IF f = "strings" /\ OneString(m) THEN <<First(m)>>
                      ELSE IF f = "flags" THEN m.flags % UShortMax ELSE m[f]
<1>3. Meaning(m) = [f \in fields |-> Said(f)]
  <2>1. "flags" # "strings"
    OBVIOUS
  <2> QED
    BY <1>1, <1>2, <2>1 DEF Meaning
<1>4. /\ "cmd" \in Carried(m) /\ "sub" \in Carried(m) /\ "id" \notin Carried(m)
      /\ "client" \in Carried(m) <=> m.sub # Query /\ m.cmd = Register
      /\ "err" \in Carried(m) <=> m.sub # Query
      /\ "user" \in Carried(m) <=>
            m.sub = Query /\ m.cmd \in {CallerList, ReadCaller, WriteCaller, DeleteCaller}
      /\ "flags" \in Carried(m) <=> m.sub = Query /\ m.cmd \in {ReadCaller, WriteCaller}
      /\ "number" \in Carried(m) <=>
            \/ m.sub # Query /\ m.cmd \in {WriteCaller, WriteCall, ListInfo}
            \/ m.sub = Query /\ m.cmd \in {CallList, Listen}
      /\ "count" \in Carried(m) <=> m.sub = Query /\ m.cmd = CallList
      /\ "strings" \in Carried(m) <=> OneString(m) \/ Strings(m)
      /\ "table" \in Carried(m) <=> HasTable(m)
  BY <1>1 DEF Carried, OneString, Strings, HasTable, Query, Resp, Register, CallerList,
     ReadCaller, WriteCaller, WriteCall, CallList, ShowTables, DescribeTable, DeleteCaller,
     ListInfo, Listen
<1>5. ASSUME NEW f \in fields
      PROVE  Says(m, strings, table)[f] = Said(f)
  <2> HIDE DEF strings, table
  <2> USE DEF Says, Zero
  <2>1. CASE f \in {"cmd", "sub", "id"}
    BY <1>4, <2>1
  <2>2. CASE f \in {"client", "err", "user"}
    BY <1>4, <2>2
  <2>3. CASE f \in {"flags", "number", "count"}
    BY <1>4, <2>3
  <2>4. CASE f = "strings"
    BY <1>4, <2>4 DEF strings
  <2>5. CASE f = "table"
    BY <1>4, <2>5 DEF table
  <2> QED
    BY <2>1, <2>2, <2>3, <2>4, <2>5
<1>6. Says(m, strings, table) = [f \in fields |-> Says(m, strings, table)[f]]
  BY DEF Says
<1> HIDE DEF strings, table, fields
<1>7. Meaning(m) = Says(m, strings, table)
  <2> HIDE DEF Said
  <2> QED
    BY <1>3, <1>5, <1>6
<1> QED
  BY <1>7 DEF strings, table

\* The fields that ReadNumbers fills, and the others as they are before.
NumbersOnly(cmd, sub, client, err, user, flags, number, count) ==
    [cmd |-> cmd, sub |-> sub, id |-> 0, client |-> client, err |-> err, user |-> user,
     flags |-> flags, number |-> number, count |-> count, strings |-> <<>>, table |-> NoTable]

\* What ReadMessage begins with.
LEMMA EmptyMessage ==
    ASSUME NEW c, NEW s
    PROVE  [Zero EXCEPT !.cmd = c, !.sub = s] = NumbersOnly(c, s, 0, 0, 0, 0, 0, 0)
<1>1. [Zero EXCEPT !.cmd = c, !.sub = s] = [[Zero EXCEPT !.cmd = c] EXCEPT !.sub = s]
  OBVIOUS
<1>2. [Zero EXCEPT !.cmd = c] = NumbersOnly(c, 0, 0, 0, 0, 0, 0, 0)
  BY DEF Zero, NumbersOnly
<1>3. [NumbersOnly(c, 0, 0, 0, 0, 0, 0, 0) EXCEPT !.sub = s] = NumbersOnly(c, s, 0, 0, 0, 0, 0, 0)
  BY DEF NumbersOnly
<1> QED
  BY <1>1, <1>2, <1>3

\* The cases of ReadNumbers, which are those of Fixed.
LEMMA ReadNumbersIs ==
    ASSUME NEW m, m.cmd \in Register..Listen, m.sub \in {Query, Resp}, NEW z,
           z.cmd = m.cmd, z.sub = m.sub, NEW bytes
    PROVE  LET At(n) == GetUShort(bytes, n) IN
           ReadNumbers(z, bytes) =
             IF m.sub = Resp
             THEN IF m.cmd = Register THEN [z EXCEPT !.err = At(0), !.client = At(2)]
                  ELSE IF m.cmd \in {WriteCaller, WriteCall, ListInfo}
                       THEN [z EXCEPT !.err = At(0), !.number = GetULong(bytes, 2)]
                       ELSE [z EXCEPT !.err = At(0)]
             ELSE IF m.cmd \in {CallerList, DeleteCaller} THEN [z EXCEPT !.user = At(0)]
                  ELSE IF m.cmd \in {ReadCaller, WriteCaller}
                       THEN [z EXCEPT !.user = At(0), !.flags = At(2)]
                  ELSE IF m.cmd = CallList
                       THEN [z EXCEPT !.number = GetULong(bytes, 0), !.count = At(4)]
                  ELSE IF m.cmd = Listen THEN [z EXCEPT !.number = GetULong(bytes, 0)] ELSE z
BY DEF ReadNumbers, Query, Resp, Register, CallerList, ReadCaller, WriteCaller, WriteCall, CallList,
   DeleteCaller, ListInfo, Listen

\* The numbers are read as they were written.
LEMMA NumbersRead ==
    ASSUME NEW m, IsMessage(m), NEW bytes, BeginAs(bytes, Fixed(m))
    PROVE  ReadNumbers([Zero EXCEPT !.cmd = m.cmd, !.sub = m.sub], bytes) = Says(m, <<>>, NoTable)
<1> DEFINE zero == [Zero EXCEPT !.cmd = m.cmd, !.sub = m.sub]
           err == UShort(m.err)
           user == UShort(m.user)
           number == ULong(m.number)
           At(n) == GetUShort(bytes, n)
           c == m.cmd
           s == m.sub
<1>1. /\ m.cmd \in Register..Listen /\ m.sub \in {Query, Resp}
      /\ m.err \in Shorts /\ m.client \in Shorts /\ m.user \in Shorts
      /\ m.count \in Shorts /\ m.number \in Longs
  BY DEF IsMessage
<1>2. err \in Seq(Bytes) /\ user \in Seq(Bytes) /\ number \in Seq(Bytes)
  BY MessageNumbered, NumbersAre
<1>3. Len(err) = 2 /\ Len(user) = 2 /\ Len(number) = 4
  BY MessageNumbered, NumbersAre
<1>4. m.flags % UShortMax \in Shorts
  <2>1. m.flags \in Nat
    BY MessageNumbered DEF Numbered
  <2> QED
    BY <2>1, Widths, Digit DEF Shorts
<1>5. zero = NumbersOnly(c, s, 0, 0, 0, 0, 0, 0) /\ zero.cmd = m.cmd /\ zero.sub = m.sub
  <2>1. zero = NumbersOnly(c, s, 0, 0, 0, 0, 0, 0)
    BY EmptyMessage
  <2> QED
    BY <2>1 DEF NumbersOnly
<1> HIDE DEF zero, err, user, number
<1>6. ReadNumbers(zero, bytes) =
        IF m.sub = Resp
        THEN IF m.cmd = Register THEN NumbersOnly(c, s, At(2), At(0), 0, 0, 0, 0)
             ELSE IF m.cmd \in {WriteCaller, WriteCall, ListInfo}
                  THEN NumbersOnly(c, s, 0, At(0), 0, 0, GetULong(bytes, 2), 0)
                  ELSE NumbersOnly(c, s, 0, At(0), 0, 0, 0, 0)
        ELSE IF m.cmd \in {CallerList, DeleteCaller} THEN NumbersOnly(c, s, 0, 0, At(0), 0, 0, 0)
             ELSE IF m.cmd \in {ReadCaller, WriteCaller}
                  THEN NumbersOnly(c, s, 0, 0, At(0), At(2), 0, 0)
             ELSE IF m.cmd = CallList
                  THEN NumbersOnly(c, s, 0, 0, 0, 0, GetULong(bytes, 0), At(4))
             ELSE IF m.cmd = Listen THEN NumbersOnly(c, s, 0, 0, 0, 0, GetULong(bytes, 0), 0)
             ELSE NumbersOnly(c, s, 0, 0, 0, 0, 0, 0)
  <2>1. ReadNumbers(zero, bytes) =
          IF m.sub = Resp
          THEN IF m.cmd = Register THEN [zero EXCEPT !.err = At(0), !.client = At(2)]
               ELSE IF m.cmd \in {WriteCaller, WriteCall, ListInfo}
                    THEN [zero EXCEPT !.err = At(0), !.number = GetULong(bytes, 2)]
                    ELSE [zero EXCEPT !.err = At(0)]
          ELSE IF m.cmd \in {CallerList, DeleteCaller} THEN [zero EXCEPT !.user = At(0)]
               ELSE IF m.cmd \in {ReadCaller, WriteCaller}
                    THEN [zero EXCEPT !.user = At(0), !.flags = At(2)]
               ELSE IF m.cmd = CallList
                    THEN [zero EXCEPT !.number = GetULong(bytes, 0), !.count = At(4)]
               ELSE IF m.cmd = Listen THEN [zero EXCEPT !.number = GetULong(bytes, 0)] ELSE zero
    BY <1>1, <1>5, ReadNumbersIs, Zenon
  <2> DEFINE e1 == [zero EXCEPT !.err = At(0), !.client = At(2)]
             e2 == [zero EXCEPT !.err = At(0), !.number = GetULong(bytes, 2)]
             e3 == [zero EXCEPT !.err = At(0)]
             e4 == [zero EXCEPT !.user = At(0)]
             e5 == [zero EXCEPT !.user = At(0), !.flags = At(2)]
             e6 == [zero EXCEPT !.number = GetULong(bytes, 0), !.count = At(4)]
             e7 == [zero EXCEPT !.number = GetULong(bytes, 0)]
  <2>2. zero = NumbersOnly(c, s, 0, 0, 0, 0, 0, 0)
    BY <1>5
  <2> HIDE DEF c, s, At
  <2>3. e3 = NumbersOnly(c, s, 0, At(0), 0, 0, 0, 0)
    BY <2>2 DEF NumbersOnly
  <2>4. e4 = NumbersOnly(c, s, 0, 0, At(0), 0, 0, 0)
    BY <2>2 DEF NumbersOnly
  <2>5. e7 = NumbersOnly(c, s, 0, 0, 0, 0, GetULong(bytes, 0), 0)
    BY <2>2 DEF NumbersOnly
  <2>6. e1 = NumbersOnly(c, s, At(2), At(0), 0, 0, 0, 0)
    <3>1. e1 = [e3 EXCEPT !.client = At(2)]
      BY Zenon
    <3> HIDE DEF e1, e3
    <3> QED
      BY <2>3, <3>1 DEF NumbersOnly
  <2>7. e2 = NumbersOnly(c, s, 0, At(0), 0, 0, GetULong(bytes, 2), 0)
    <3>1. e2 = [e3 EXCEPT !.number = GetULong(bytes, 2)]
      BY Zenon
    <3> HIDE DEF e2, e3
    <3> QED
      BY <2>3, <3>1 DEF NumbersOnly
  <2>8. e5 = NumbersOnly(c, s, 0, 0, At(0), At(2), 0, 0)
    <3>1. e5 = [e4 EXCEPT !.flags = At(2)]
      BY Zenon
    <3> HIDE DEF e4, e5
    <3> QED
      BY <2>4, <3>1 DEF NumbersOnly
  <2>9. e6 = NumbersOnly(c, s, 0, 0, 0, 0, GetULong(bytes, 0), At(4))
    <3>1. e6 = [e7 EXCEPT !.count = At(4)]
      BY Zenon
    <3> HIDE DEF e6, e7
    <3> QED
      BY <2>5, <3>1 DEF NumbersOnly
  <2> HIDE DEF e1, e2, e3, e4, e5, e6, e7
  <2>10. ReadNumbers(zero, bytes) =
          IF m.sub = Resp
          THEN IF m.cmd = Register THEN e1
               ELSE IF m.cmd \in {WriteCaller, WriteCall, ListInfo} THEN e2 ELSE e3
          ELSE IF m.cmd \in {CallerList, DeleteCaller} THEN e4
               ELSE IF m.cmd \in {ReadCaller, WriteCaller} THEN e5
               ELSE IF m.cmd = CallList THEN e6
               ELSE IF m.cmd = Listen THEN e7 ELSE zero
    BY <2>1, Zenon DEF e1, e2, e3, e4, e5, e6, e7, At
  <2> QED
    BY <2>2, <2>3, <2>4, <2>5, <2>6, <2>7, <2>8, <2>9, <2>10
<1>7. CASE m.sub = Resp /\ m.cmd = Register
  <2>1. Fixed(m) = err \o UShort(m.client)
    BY <1>7, MessageNumbered, FixedChoice DEF err, Resp, Query, Register
  <2>2. BeginAs(bytes, err) /\ GetUShort(bytes, Len(err)) = m.client
    BY <1>1, <1>2, <2>1, ShortThere
  <2>3. At(0) = m.err /\ At(2) = m.client
    BY <1>1, <1>3, <2>2, ShortRead DEF err
  <2> QED
    BY <1>6, <1>7, <2>3 DEF Says, zero, NumbersOnly, Resp, Query, Register, WriteCaller,
       WriteCall, ListInfo
<1>8. CASE m.sub = Resp /\ m.cmd \in {WriteCaller, WriteCall, ListInfo}
  <2>1. Fixed(m) = err \o ULong(m.number)
    BY <1>8, MessageNumbered, FixedChoice DEF err, Resp, Query, Register, WriteCaller, WriteCall,
       ListInfo
  <2>2. BeginAs(bytes, err) /\ GetULong(bytes, Len(err)) = m.number
    BY <1>1, <1>2, <2>1, LongThere
  <2>3. At(0) = m.err /\ GetULong(bytes, 2) = m.number
    BY <1>1, <1>3, <2>2, ShortRead DEF err
  <2> QED
    BY <1>6, <1>8, <2>3 DEF Says, zero, NumbersOnly, Resp, Query, Register, WriteCaller,
       WriteCall, ListInfo
<1>9. CASE m.sub = Resp /\ m.cmd \notin {Register, WriteCaller, WriteCall, ListInfo}
  <2>1. Fixed(m) = err
    BY <1>9, MessageNumbered, FixedChoice DEF err, Resp, Query
  <2>2. At(0) = m.err
    BY <1>1, <2>1, ShortRead DEF err
  <2> QED
    BY <1>6, <1>9, <2>2 DEF Says, zero, NumbersOnly, Resp, Query
<1>10. CASE m.sub = Query /\ m.cmd \in {CallerList, DeleteCaller}
  <2>1. Fixed(m) = user
    BY <1>10, MessageNumbered, FixedChoice DEF user, Resp, Query
  <2>2. At(0) = m.user
    BY <1>1, <2>1, ShortRead DEF user
  <2> QED
    BY <1>6, <1>10, <2>2 DEF Says, zero, NumbersOnly, Resp, Query, CallerList, DeleteCaller,
       ReadCaller,
       WriteCaller, CallList, Listen
<1>11. CASE m.sub = Query /\ m.cmd \in {ReadCaller, WriteCaller}
  <2>1. Fixed(m) = user \o UShort(m.flags % UShortMax)
    BY <1>11, MessageNumbered, FixedChoice DEF user, Resp, Query, CallerList, DeleteCaller,
       ReadCaller, WriteCaller
  <2>2. BeginAs(bytes, user) /\ GetUShort(bytes, Len(user)) = m.flags % UShortMax
    BY <1>2, <1>4, <2>1, ShortThere
  <2>3. At(0) = m.user /\ At(2) = m.flags % UShortMax
    BY <1>1, <1>3, <2>2, ShortRead DEF user
  <2> QED
    BY <1>6, <1>11, <2>3 DEF Says, zero, NumbersOnly, Resp, Query, CallerList, DeleteCaller,
       ReadCaller,
       WriteCaller, CallList, Listen
<1>12. CASE m.sub = Query /\ m.cmd = CallList
  <2>1. Fixed(m) = number \o UShort(m.count)
    BY <1>12, MessageNumbered, FixedChoice DEF number, Resp, Query, CallerList, DeleteCaller,
       ReadCaller, WriteCaller,
       CallList
  <2>2. BeginAs(bytes, number) /\ GetUShort(bytes, Len(number)) = m.count
    BY <1>1, <1>2, <2>1, ShortThere
  <2>3. GetULong(bytes, 0) = m.number /\ At(4) = m.count
    BY <1>1, <1>3, <2>2, LongRead DEF number
  <2> QED
    BY <1>6, <1>12, <2>3 DEF Says, zero, NumbersOnly, Resp, Query, CallerList, DeleteCaller,
       ReadCaller,
       WriteCaller, CallList, Listen
<1>13. CASE m.sub = Query /\ m.cmd = Listen
  <2>1. Fixed(m) = number
    BY <1>13, MessageNumbered, FixedChoice DEF number, Resp, Query, CallerList, DeleteCaller,
       ReadCaller, WriteCaller,
       CallList, Listen
  <2>2. GetULong(bytes, 0) = m.number
    BY <1>1, <2>1, LongRead DEF number
  <2> QED
    BY <1>6, <1>13, <2>2 DEF Says, zero, NumbersOnly, Resp, Query, CallerList, DeleteCaller,
       ReadCaller,
       WriteCaller, CallList, Listen
<1>14. CASE m.sub = Query /\ m.cmd \notin {CallerList, DeleteCaller, ReadCaller, WriteCaller,
                                          CallList, Listen}
  BY <1>6, <1>14 DEF Says, zero, NumbersOnly, Resp, Query, CallerList, DeleteCaller, ReadCaller,
     WriteCaller, CallList, Listen
<1> QED
  BY <1>1, <1>7, <1>8, <1>9, <1>10, <1>11, <1>12, <1>13, <1>14 DEF zero

\* The rest of a message begins where it was written.
LEMMA RestFrom ==
    ASSUME NEW m, IsMessage(m)
    PROVE  Len(Fixed([Zero EXCEPT !.cmd = m.cmd, !.sub = m.sub])) = FixedSize(m)
<1> DEFINE zero == [Zero EXCEPT !.cmd = m.cmd, !.sub = m.sub]
<1>1. zero = NumbersOnly(m.cmd, m.sub, 0, 0, 0, 0, 0, 0)
  BY EmptyMessage
<1>2. m.cmd \in Register..Listen /\ m.sub \in {Query, Resp} /\ Len(<<>>) = 0
  BY DEF IsMessage
<1> HIDE DEF zero
<1>3. Numbered(zero)
  BY <1>1, <1>2 DEF Numbered, NumbersOnly
<1>4. FixedSize(zero) = FixedSize(m)
  BY <1>1 DEF FixedSize, NumbersOnly
<1> QED
  BY <1>3, <1>4, FixedIs DEF zero

-----------------------------------------------------------------------------
(* Reading: the whole message.                                             *)

\* One string is read as it was written.
LEMMA StringRead ==
    ASSUME NEW bytes \in Seq(Bytes), NEW s \in Seq(Bytes), Len(s) \in Shorts, NEW start \in Nat,
           start + StringSize(s) <= Len(bytes),
           \A i \in 1..StringSize(s) : bytes[start + i] = StringBytes(s)[i]
    PROVE  ReadStrings(bytes, start, 1) = <<s>>
<1> DEFINE prev == [at |-> start, strings |-> <<>>]
<1>1. PICK read : /\ IsReading(read, bytes, start, 1)
                  /\ ReadStrings(bytes, start, 1) = read[1].strings
  BY ReadExists
<1>2. read[0] = prev /\ read[1] = ReadOne(bytes, read[0])
  <2>1. read = [k \in 0..1 |-> IF k = 0 THEN prev ELSE ReadOne(bytes, read[k - 1])]
    BY <1>1 DEF IsReading
  <2>2. 0 \in 0..1 /\ 1 \in 0..1 /\ 1 - 1 = 0
    OBVIOUS
  <2> HIDE DEF prev
  <2> QED
    BY <2>1, <2>2
<1>3. prev.at = start /\ prev.strings = <<>>
  OBVIOUS
<1> HIDE DEF prev
<1>4. ReadOne(bytes, prev) =
        [at |-> prev.at + StringSize(s), strings |-> Append(prev.strings, s)]
  BY <1>3, ReadOneIs
<1>5. Append(<<>>, s) = <<s>>
  OBVIOUS
<1> QED
  BY <1>1, <1>2, <1>3, <1>4, <1>5

\* Where the two parts of the data are.
LEMMA DataBehind ==
    ASSUME NEW m, IsMessage(m)
    PROVE  /\ Data(m) \in Seq(Bytes) /\ FixedSize(m) \in Nat /\ RestSize(m) \in Nat
           /\ Len(Data(m)) = FixedSize(m) + RestSize(m)
           /\ BeginAs(Data(m), Fixed(m))
           /\ \A i \in 1..RestSize(m) : Data(m)[FixedSize(m) + i] = Rest(m)[i]
<1> DEFINE fixed == Fixed(m)
           rest == Rest(m)
           bytes == Data(m)
           n == FixedSize(m)
           k == RestSize(m)
<1>1. fixed \in Seq(Bytes) /\ rest \in Seq(Bytes)
  BY MessageNumbered, FixedIs, RestIs
<1>2. /\ Len(fixed) = n /\ n \in Nat /\ k \in Nat
      /\ bytes \in Seq(Bytes) /\ Len(bytes) = n + k
      /\ \A i \in 1..n + k : bytes[i] = Written(m)[i]
  BY MessageNumbered, FixedIs, RestIs, SizeIs, DataIs DEF FixedSize
<1>3. k <= Len(rest)
  <2>1. CASE Unnamed(m)
    <3>1. Rest(m) = UShort(0) /\ Len(UShort(0)) = 2
      BY <2>1, RestChoice, MessageNumbered, NumbersAre
    <3>2. n + k = 1
      BY <2>1, WrittenIs, SizeIs
    <3>3. k <= 2
      <4> HIDE DEF n, k
      <4> QED
        BY <1>2, <3>2
    <3> QED
      BY <3>1, <3>3
  <2>2. CASE ~Unnamed(m)
    BY <1>2, <2>2, RestIs
  <2> QED
    BY <2>1, <2>2
<1>4. Written(m) = fixed \o rest
  BY DEF Written, Rest
<1> HIDE DEF fixed, rest, bytes, n, k
<1>5. /\ \A i \in 1..Len(fixed) : (fixed \o rest)[i] = fixed[i]
      /\ \A i \in 1..Len(rest) : (fixed \o rest)[Len(fixed) + i] = rest[i]
  BY <1>1, Joined
<1>6. Len(rest) \in Nat
  BY <1>1
<1>7. \A i \in 1..n : bytes[i] = fixed[i]
  BY <1>2, <1>4, <1>5
<1>8. ASSUME NEW i \in 1..k PROVE bytes[n + i] = rest[i]
  <2>1. i \in 1..Len(rest) /\ n + i \in 1..n + k
    BY <1>2, <1>3, <1>6
  <2>2. (fixed \o rest)[n + i] = rest[i]
    BY <1>2, <1>5, <2>1
  <2> QED
    BY <1>2, <1>4, <2>1, <2>2
<1>9. BeginAs(bytes, fixed)
  BY <1>2, <1>7 DEF BeginAs
<1> QED
  BY <1>2, <1>8, <1>9 DEF fixed, rest, bytes, n, k

\* The rest is read as it was written.
LEMMA NameRead ==
    ASSUME NEW m, IsMessage(m), OneString(m), ~TooLong(m)
    PROVE  ReadStrings(Data(m), FixedSize(m), 1) = <<First(m)>>
<1> DEFINE s == First(m)
           bytes == Data(m)
           n == FixedSize(m)
<1>1. s \in Seq(Bytes) /\ Len(s) \in Shorts
  <2>1. CASE m.strings = <<>>
    <3>1. 0 \in Shorts /\ Len(<<>>) = 0 /\ s = <<>>
      BY <2>1, Widths DEF Shorts, First
    <3> QED
      BY <3>1, FirstIs
  <2>2. CASE m.strings # <<>>
    <3>1. s = m.strings[1] /\ m.strings \in Seq(Seq(Bytes))
      BY <2>2 DEF First, IsMessage, IsTexts
    <3>2. 1 \in 1..Len(m.strings)
      BY <2>2, <3>1
    <3> QED
      BY <3>1, <3>2, FirstIs DEF TooLong, IsCounted
  <2> QED
    BY <2>1, <2>2
<1>2. RestSize(m) = StringSize(s)
  BY DEF RestSize
<1>3. /\ bytes \in Seq(Bytes) /\ n \in Nat /\ Len(bytes) = n + StringSize(s)
      /\ \A i \in 1..StringSize(s) : bytes[n + i] = Rest(m)[i]
  BY <1>2, DataBehind
<1> HIDE DEF bytes, n
<1>4. ASSUME NEW i \in 1..StringSize(s) PROVE Rest(m)[i] = StringBytes(s)[i]
  <2>1. CASE ~Unnamed(m)
    BY <2>1, RestChoice
  <2>2. CASE Unnamed(m)
    <3>1. s = <<>> /\ Rest(m) = UShort(0)
      BY <2>2, WrittenIs, RestChoice
    <3>2. Len(<<>>) = 0 /\ ~(0 >= Escape) /\ 0 < Escape
      BY ByteAssumption DEF Escape
    <3>3. StringSize(s) = 1 /\ StringBytes(s)[1] = 0
      <4>1. /\ StringSize(s) = (IF Len(s) >= Escape THEN 3 ELSE 1) + Len(s)
            /\ Len(s) < Escape => StringBytes(s)[1] = Len(s)
        <5>1. StringLength(s) = Len(s)
          BY <1>1, ShortStays DEF StringLength
        <5> QED
          BY <1>1, <5>1, StringIs
      <4>2. Len(s) = 0
        BY <3>1, <3>2
      <4> HIDE DEF s
      <4> QED
        BY <3>2, <4>1, <4>2
    <3>4. UShort(0)[1] = 0
      <4>1. \A u \in Nat \ {0} : 0 % u = 0
        OBVIOUS
      <4>2. 0 % Byte = 0
        BY <4>1, Widths
      <4> QED
        BY <4>2 DEF UShort
    <3>5. i = 1
      BY <3>3
    <3> QED
      BY <3>1, <3>3, <3>4, <3>5
  <2> QED
    BY <2>1, <2>2
<1> HIDE DEF s
<1>5. n + StringSize(s) <= Len(bytes)
  <2>1. Len(bytes) \in Nat
    BY <1>3
  <2> QED
    BY <1>3, <2>1
<1>6. ReadStrings(bytes, n, 1) = <<s>>
  BY <1>1, <1>3, <1>4, <1>5, StringRead
<1> QED
  BY <1>6 DEF s, bytes, n

\* So is a list, behind the number of its strings.
LEMMA ListRead ==
    ASSUME NEW m, IsMessage(m), Strings(m), ~TooLong(m)
    PROVE  /\ GetUShort(Data(m), FixedSize(m)) = Len(m.strings)
           /\ ReadStrings(Data(m), FixedSize(m) + 2, Len(m.strings)) = m.strings
<1> DEFINE strings == m.strings
           bytes == Data(m)
           n == FixedSize(m)
           number == UShort(Len(strings))
           all == AllBytes(strings)
           size == AllSizes(strings)
<1>1. IsTexts(strings) /\ Len(strings) \in Shorts /\ Len(strings) \in Nat /\ IsCounted(strings)
  BY Widths DEF IsMessage, Shorts, TooLong
<1>2. ~OneString(m) /\ ~Unnamed(m)
  BY DEF OneString, Unnamed, Strings, Resp, Query, CallerList, ReadCaller, ShowTables,
     DescribeTable,
     DeleteCaller
<1>3. RestSize(m) = 2 + size /\ Rest(m) = number \o all
  BY <1>2, RestChoice DEF RestSize
<1>4. /\ bytes \in Seq(Bytes) /\ n \in Nat /\ Len(bytes) = n + (2 + size)
      /\ \A i \in 1..2 + size : bytes[n + i] = (number \o all)[i]
  BY <1>3, DataBehind
<1>5. number \in Seq(Bytes) /\ all \in Seq(Bytes)
  BY <1>1, UShortIs, AllSizesIs
<1>6. /\ Len(number) = 2 /\ number[1] + Byte * number[2] = Len(strings)
      /\ Len(all) = size /\ size \in Nat
  BY <1>1, UShortIs, AllSizesIs
<1> HIDE DEF strings, bytes, n, number, all, size
<1>7. /\ \A i \in 1..Len(number) : (number \o all)[i] = number[i]
      /\ \A i \in 1..Len(all) : (number \o all)[Len(number) + i] = all[i]
  BY <1>5, Joined
<1>8. bytes[n + 1] = number[1] /\ bytes[n + 2] = number[2]
  <2>1. 1 \in 1..2 + size /\ 2 \in 1..2 + size /\ 1 \in 1..2 /\ 2 \in 1..2
    BY <1>6
  <2>2. (number \o all)[1] = number[1] /\ (number \o all)[2] = number[2]
    BY <1>6, <1>7, <2>1
  <2> QED
    BY <1>4, <2>1, <2>2
<1>9. GetUShort(bytes, n) = Len(strings)
  BY <1>6, <1>8 DEF GetUShort
<1>10. ASSUME NEW i \in 1..size PROVE bytes[(n + 2) + i] = all[i]
  <2>1. 2 + i \in 1..2 + size /\ (n + 2) + i = n + (2 + i)
    BY <1>4, <1>6
  <2>2. (number \o all)[2 + i] = all[i]
    BY <1>6, <1>7
  <2> QED
    BY <1>4, <2>1, <2>2
<1>11. n + 2 \in Nat /\ (n + 2) + size <= Len(bytes)
  BY <1>4, <1>6
<1>12. ReadStrings(bytes, n + 2, Len(strings)) = strings
  BY <1>1, <1>4, <1>10, <1>11, StringsRead DEF all, size
<1> QED
  BY <1>9, <1>12 DEF strings, bytes, n

\* So is a table.
LEMMA RowsRead ==
    ASSUME NEW m, IsMessage(m), HasTable(m), ~TooManyFields(m), ~TooLong(m)
    PROVE  ReadTable(Data(m), FixedSize(m)) = m.table
<1> DEFINE t == m.table
           bytes == Data(m)
           n == FixedSize(m)
<1>1. /\ IsTable(t) /\ t.nrows * t.ncols <= UShortMax
      /\ IsCounted(t.names) /\ IsCounted(t.fields)
  <2>1. IsTable(t) /\ ~(t.nrows * t.ncols > UShortMax)
    BY DEF IsMessage, TooManyFields
  <2>2. t.nrows \in Nat /\ t.ncols \in Nat
    BY <2>1, Widths DEF IsTable, Shorts
  <2>3. t.nrows * t.ncols \in Nat
    BY <2>2
  <2> QED
    BY <2>1, <2>3, Widths DEF TooLong
<1>2. ~OneString(m) /\ ~Unnamed(m) /\ ~Strings(m)
  BY DEF OneString, Unnamed, Strings, HasTable, Resp, Query, CallerList, ReadCaller, WriteCaller,
     WriteCall, CallList, ShowTables, DescribeTable, DeleteCaller
<1>3. RestSize(m) = TableSize(t) /\ Rest(m) = TableBytes(t)
  BY <1>2, RestChoice DEF RestSize
<1>4. /\ bytes \in Seq(Bytes) /\ n \in Nat /\ Len(bytes) = n + TableSize(t)
      /\ TableSize(t) \in Nat
      /\ \A i \in 1..TableSize(t) : bytes[n + i] = TableBytes(t)[i]
  BY <1>3, DataBehind
<1> HIDE DEF t, bytes, n
<1>5. n + TableSize(t) <= Len(bytes)
  BY <1>4
<1>6. ReadTable(bytes, n) = t
  BY <1>1, <1>4, <1>5, TableRead
<1> QED
  BY <1>6 DEF t, bytes, n

\* What cidbmsg_read_message makes of what cidbmsg_write_message has written.
LEMMA MessageRead ==
    ASSUME NEW m, IsMessage(m), ~TooManyFields(m), ~TooLong(m)
    PROVE  ReadMessage(m.cmd, m.sub, Data(m)) = Meaning(m)
<1> DEFINE zero == [Zero EXCEPT !.cmd = m.cmd, !.sub = m.sub]
           bytes == Data(m)
           numbers == ReadNumbers(zero, bytes)
           rest == Len(Fixed(zero))
<1>1. rest = FixedSize(m)
  BY RestFrom
<1>2. numbers = Says(m, <<>>, NoTable)
  BY DataBehind, NumbersRead
<1>3. /\ OneString(zero) <=> OneString(m)
      /\ Strings(zero) <=> Strings(m)
      /\ HasTable(zero) <=> HasTable(m)
  <2>1. zero.cmd = m.cmd /\ zero.sub = m.sub
    BY EmptyMessage DEF NumbersOnly
  <2> HIDE DEF zero
  <2> QED
    BY <2>1 DEF OneString, Strings, HasTable
<1>4. ReadMessage(m.cmd, m.sub, bytes) =
        CASE OneString(zero) -> [numbers EXCEPT !.strings = ReadStrings(bytes, rest, 1)]
          [] Strings(zero)   -> [numbers EXCEPT !.strings =
                                    ReadStrings(bytes, rest + 2, GetUShort(bytes, rest))]
          [] HasTable(zero)  -> [numbers EXCEPT !.table = ReadTable(bytes, rest)]
          [] OTHER           -> numbers
  BY Zenon DEF ReadMessage
<1>5. /\ ~(OneString(m) /\ Strings(m)) /\ ~(OneString(m) /\ HasTable(m))
      /\ ~(Strings(m) /\ HasTable(m))
  BY DEF OneString, Strings, HasTable, Resp, Query, CallerList, ReadCaller, WriteCaller, WriteCall,
     CallList, ShowTables, DescribeTable, DeleteCaller
<1> DEFINE one == [numbers EXCEPT !.strings = ReadStrings(bytes, rest, 1)]
           list == [numbers EXCEPT !.strings = ReadStrings(bytes, rest + 2, GetUShort(bytes, rest))]
           rows == [numbers EXCEPT !.table = ReadTable(bytes, rest)]
<1> HIDE DEF zero, numbers, rest
<1>6. ReadMessage(m.cmd, m.sub, bytes) =
        IF OneString(m) THEN one ELSE IF Strings(m) THEN list ELSE IF HasTable(m) THEN rows
        ELSE numbers
  <2> HIDE DEF one, list, rows
  <2> QED
    BY <1>3, <1>4, <1>5 DEF one, list, rows
<1>7. ASSUME OneString(m) PROVE one = Says(m, <<First(m)>>, NoTable)
  <2>1. ReadStrings(bytes, rest, 1) = <<First(m)>>
    BY <1>1, <1>7, NameRead
  <2> QED
    BY <1>2, <2>1 DEF Says
<1>8. ASSUME Strings(m) PROVE list = Says(m, m.strings, NoTable)
  <2>1. ReadStrings(bytes, rest + 2, GetUShort(bytes, rest)) = m.strings
    BY <1>1, <1>8, ListRead
  <2> QED
    BY <1>2, <2>1 DEF Says
<1>9. ASSUME HasTable(m) PROVE rows = Says(m, <<>>, m.table)
  <2>1. ReadTable(bytes, rest) = m.table
    BY <1>1, <1>9, RowsRead
  <2> QED
    BY <1>2, <2>1 DEF Says
<1>10. Meaning(m) = Says(m, IF OneString(m) THEN <<First(m)>>
                            ELSE IF Strings(m) THEN m.strings ELSE <<>>,
                         IF HasTable(m) THEN m.table ELSE NoTable)
  BY MeaningIs
<1> HIDE DEF one, list, rows, bytes
<1> QED
  BY <1>2, <1>5, <1>6, <1>7, <1>8, <1>9, <1>10 DEF bytes

-----------------------------------------------------------------------------
(* The way of the parts, for every message and every size of a part.       *)

Octets  == Unset..255
PartLengths == HeaderSize..(HeaderSize + DataSize)
Headers == [cmd : Bytes, sub : Bytes, dataSize : Nat, partSize : Nat, offset : Nat]
Results == [header : Headers, data : Seq(Octets)]

Typed ==
    /\ sent \in Seq(Messages) /\ Len(sent) <= MaxMessages
    /\ spc \in {"idle", "start", "continue", "failed"}
    /\ content \in Seq(Bytes) /\ Len(content) <= MaxData /\ offset \in 0..Len(content)
    /\ sent # <<>> => content = Data(Current)
    /\ spc \in {"start", "continue"} => sent # <<>>
    /\ spc = "start" => offset = 0
    /\ spc = "idle" => offset = Len(content)
    /\ stream \in Seq(Bytes) /\ parts \in Seq(PartLengths)
    /\ rpc \in {"idle", "first", "next", "done", "failed", "undefined"}
    /\ rpc \in {"first", "next"} => buffer \in Seq(Octets) /\ Len(buffer) = HeaderSize + DataSize
    /\ header \in Headers /\ data \in Seq(Octets) /\ got \in Nat
    /\ rpc = "first" => got = 0
    /\ received \in Seq(Results) /\ aligned \in BOOLEAN

\* A spot is where a part begins: in a message, and in the stream.
Spots == [msg : Nat, at : Nat, begin : Nat]
Length(p, msgs) == Len(Data(msgs[p.msg]))
Piece(p, msgs)  == Smaller(DataSize, Length(p, msgs) - p.at)
Successor(p, msgs) ==
    LET end == p.at + Piece(p, msgs)
    IN  [msg   |-> IF end < Length(p, msgs) THEN p.msg ELSE p.msg + 1,
         at    |-> IF end < Length(p, msgs) THEN end ELSE 0,
         begin |-> p.begin + HeaderSize + Piece(p, msgs)]

\* The part there: what HeaderOf will find in it, and its piece of the data.
IsPart(p, msgs, bytes) ==
    /\ p.msg \in 1..Len(msgs) /\ (p.at < Length(p, msgs) \/ p.at = 0)
    /\ bytes[p.begin + 3] = msgs[p.msg].cmd /\ bytes[p.begin + 4] = msgs[p.msg].sub
    /\ GetULong(bytes, p.begin + 10) = Length(p, msgs)
    /\ GetULong(bytes, p.begin + 14) = Piece(p, msgs)
    /\ GetULong(bytes, p.begin + 18) = p.at
    /\ \A i \in 1..Piece(p, msgs) :
          bytes[p.begin + HeaderSize + i] = Data(msgs[p.msg])[p.at + i]

IsChain(q, lengths, msgs, bytes) ==
    LET n == Len(lengths) IN
    /\ q \in [1..n + 1 -> Spots]
    /\ q[1].begin = 0 /\ q[n + 1].begin <= Len(bytes)
    /\ \A k \in 1..n : /\ IsPart(q[k], msgs, bytes) /\ q[k + 1] = Successor(q[k], msgs)
                       /\ lengths[k] = HeaderSize + Piece(q[k], msgs)

\* The part that the sender builds next, and the one the receiver waits for.
ToSend ==
    [msg   |-> IF spc = "start" \/ offset < Len(content) THEN Len(sent) ELSE Len(sent) + 1,
     at    |-> IF spc = "start" \/ offset < Len(content) THEN offset ELSE 0,
     begin |-> Len(stream)]
ToReceive ==
    [msg   |-> IF rpc = "done" THEN Len(received) + 2 ELSE Len(received) + 1,
     at    |-> IF rpc = "next" THEN got ELSE 0,
     begin |-> 0]

\* Between the two are the parts of the stream.
Chained ==
    \E q : /\ IsChain(q, parts, sent, stream) /\ q[1] = ToReceive
           /\ spc # "failed" => q[Len(parts) + 1] = ToSend

\* A header and data that are those of a message, as far as they have come.
Answers(h, d, m, n) ==
    /\ h.cmd = m.cmd /\ h.sub = m.sub /\ h.dataSize = Len(Data(m)) /\ Len(d) = Len(Data(m))
    /\ n \in 0..Len(Data(m)) /\ \A i \in 1..n : d[i] = Data(m)[i]

Collected ==
    /\ Len(received) <= Len(sent)
    /\ \A i \in 1..Len(received) :
          Answers(received[i].header, received[i].data, sent[i], Len(Data(sent[i])))
    /\ rpc \in {"next", "done"} =>
          /\ Len(received) < Len(sent)
          /\ Answers(header, data, sent[Len(received) + 1],
                     IF rpc = "next" THEN got ELSE Len(data))
    /\ rpc = "next" => got < Len(data)

Moving == aligned => Collected /\ rpc # "undefined" /\ (rpc # "failed" => Chained)

TransferInv == Typed /\ Moving

-----------------------------------------------------------------------------
(* The sender builds parts, and they stay what they are in the stream.     *)

\* The messages of the constant, and what is sent of them.
LEMMA MessagesAre ==
    ASSUME NEW m \in Messages
    PROVE  /\ IsMessage(m) /\ Data(m) \in Seq(Bytes) /\ Len(Data(m)) \in Nat
           /\ Len(Data(m)) <= MaxData /\ Len(Data(m)) \in Longs
<1>1. IsMessage(m) /\ Size(m) <= MaxData /\ MaxData \in Longs
  BY TransferAssumption
<1>2. Data(m) \in Seq(Bytes) /\ Len(Data(m)) = Size(m) /\ Size(m) \in Nat
  BY <1>1, DataIs
<1>3. ULongMax \in Nat
  BY Widths
<1> QED
  BY <1>1, <1>2, <1>3 DEF Longs

\* No part is longer than a buffer, and none goes beyond the data.
LEMMA PieceIs ==
    ASSUME NEW msgs \in Seq(Messages), NEW p \in Spots, p.msg \in 1..Len(msgs),
           p.at < Length(p, msgs) \/ p.at = 0
    PROVE  /\ msgs[p.msg] \in Messages /\ Length(p, msgs) \in Nat /\ Length(p, msgs) \in Longs
           /\ p.at \in 0..Length(p, msgs) /\ p.at \in Longs
           /\ Piece(p, msgs) \in 0..DataSize /\ Piece(p, msgs) \in Longs
           /\ p.at + Piece(p, msgs) \in p.at..Length(p, msgs)
           /\ p.at + Piece(p, msgs) = p.at <=> Length(p, msgs) = 0
           /\ Successor(p, msgs) \in Spots
<1> DEFINE length == Length(p, msgs)
           piece == Piece(p, msgs)
<1>1. msgs[p.msg] \in Messages
  OBVIOUS
<1>2. length \in Nat /\ length \in Longs
  BY <1>1, MessagesAre DEF Length
<1>3. p.at \in Nat /\ p.msg \in Nat /\ p.begin \in Nat
  BY DEF Spots
<1>4. DataSize \in Nat \ {0}
  BY TransferAssumption
<1>5. p.at \in 0..length
  <2> HIDE DEF length
  <2> QED
    BY <1>2, <1>3 DEF length
<1>6. piece = IF DataSize < length - p.at THEN DataSize ELSE length - p.at
  BY DEF Piece, Smaller
<1> HIDE DEF length, piece
<1>7. piece \in 0..DataSize /\ p.at + piece \in p.at..length /\ (p.at + piece = p.at <=> length = 0)
      /\ piece \in 0..length
  BY <1>2, <1>3, <1>4, <1>5, <1>6 DEF length
<1>8. piece \in Longs /\ p.at \in Longs
  BY <1>2, <1>3, <1>5, <1>7, Widths DEF Longs
<1>9. Successor(p, msgs) \in Spots
  <2>1. HeaderSize \in Nat
    BY DEF HeaderSize
  <2>2. /\ p.at + piece \in Nat /\ p.msg + 1 \in Nat /\ p.begin + HeaderSize + piece \in Nat
    BY <1>3, <1>7, <2>1
  <2> QED
    BY <1>3, <2>2 DEF Successor, Spots, length, piece
<1> QED
  BY <1>1, <1>2, <1>5, <1>7, <1>8, <1>9 DEF length, piece

\* The places of the bytes of a part.
Span(p, msgs) == 1..HeaderSize + Piece(p, msgs)

\* The part at p, with all its bytes, is the one at p2 of other messages and
\* another stream.
Moved(p, msgs, bytes, p2, msgs2, bytes2) ==
    /\ p2.msg = p.msg /\ p2.at = p.at /\ p.msg \in 1..Len(msgs2) /\ msgs2[p.msg] = msgs[p.msg]
    /\ \A i \in Span(p, msgs) : bytes2[p2.begin + i] = bytes[p.begin + i]

\* The same part in another place of another stream, of the same message.
LEMMA PartMoves ==
    ASSUME NEW msgs \in Seq(Messages), NEW msgs2, NEW bytes, NEW bytes2,
           NEW p \in Spots, NEW p2 \in Spots, IsPart(p, msgs, bytes),
           Moved(p, msgs, bytes, p2, msgs2, bytes2)
    PROVE  /\ IsPart(p2, msgs2, bytes2) /\ Piece(p2, msgs2) = Piece(p, msgs)
           /\ Length(p2, msgs2) = Length(p, msgs)
<1> DEFINE piece == Piece(p, msgs)
           length == Length(p, msgs)
           b == p.begin
           b2 == p2.begin
<1>0. /\ p2.msg = p.msg /\ p2.at = p.at /\ p.msg \in 1..Len(msgs2) /\ msgs2[p.msg] = msgs[p.msg]
      /\ \A i \in Span(p, msgs) : bytes2[p2.begin + i] = bytes[p.begin + i]
  BY DEF Moved
<1>1. p.msg \in 1..Len(msgs) /\ (p.at < length \/ p.at = 0)
  BY DEF IsPart
<1>2. piece \in Nat
  BY <1>1, PieceIs
<1>3. b \in Nat /\ b2 \in Nat
  BY DEF Spots
<1>4. Length(p2, msgs2) = length
  BY <1>0 DEF Length
<1>5. Piece(p2, msgs2) = piece
  BY <1>0, <1>4 DEF Piece
<1> HIDE DEF piece, length
<1>6. \A i \in 1..22 + piece : bytes2[b2 + i] = bytes[b + i]
  BY <1>0 DEF piece, HeaderSize, Span
<1>7. bytes2[b2 + 3] = bytes[b + 3] /\ bytes2[b2 + 4] = bytes[b + 4]
  BY <1>2, <1>6
<1>8. ASSUME NEW at \in {10, 14, 18} PROVE GetULong(bytes2, b2 + at) = GetULong(bytes, b + at)
  <2>1. \A i \in 1..4 : /\ at + i \in 1..22 + piece
                         /\ b2 + at + i = b2 + (at + i) /\ b + at + i = b + (at + i)
    BY <1>2, <1>3
  <2>2. \A i \in 1..4 : bytes2[b2 + at + i] = bytes[b + at + i]
    BY <1>6, <2>1
  <2>3. b2 + at \in Nat /\ b + at \in Nat
    <3> HIDE DEF b, b2
    <3> QED
      BY <1>3
  <2> DEFINE to == b2 + at
             from == b + at
  <2>4. to \in Nat /\ from \in Nat /\ \A i \in 1..4 : bytes2[to + i] = bytes[from + i]
    BY <2>2, <2>3
  <2> HIDE DEF to, from
  <2>5. GetULong(bytes2, to) = GetULong(bytes, from)
    BY <2>4, SameNumber
  <2> QED
    BY <2>5 DEF to, from
<1>9. ASSUME NEW i \in 1..piece
      PROVE  bytes2[b2 + HeaderSize + i] = bytes[b + HeaderSize + i]
  <2>1. HeaderSize = 22 /\ i \in Nat /\ i <= piece
    BY <1>2 DEF HeaderSize
  <2>2. /\ HeaderSize + i \in 1..22 + piece /\ b2 + HeaderSize + i = b2 + (HeaderSize + i)
        /\ b + HeaderSize + i = b + (HeaderSize + i)
    <3> HIDE DEF b, b2
    <3> QED
      BY <1>2, <1>3, <2>1
  <2> QED
    BY <1>6, <2>2
<1>10. /\ bytes[b + 3] = msgs[p.msg].cmd /\ bytes[b + 4] = msgs[p.msg].sub
       /\ GetULong(bytes, b + 10) = length /\ GetULong(bytes, b + 14) = piece
       /\ GetULong(bytes, b + 18) = p.at
       /\ \A i \in 1..piece : bytes[b + HeaderSize + i] = Data(msgs[p.msg])[p.at + i]
  BY DEF IsPart, length, piece
<1>11. /\ p2.msg \in 1..Len(msgs2) /\ (p2.at < length \/ p2.at = 0)
       /\ bytes2[b2 + 3] = msgs2[p2.msg].cmd /\ bytes2[b2 + 4] = msgs2[p2.msg].sub
       /\ GetULong(bytes2, b2 + 10) = length /\ GetULong(bytes2, b2 + 14) = piece
       /\ GetULong(bytes2, b2 + 18) = p2.at
       /\ \A i \in 1..piece : bytes2[b2 + HeaderSize + i] = Data(msgs2[p2.msg])[p2.at + i]
  <2>1. 10 \in {10, 14, 18} /\ 14 \in {10, 14, 18} /\ 18 \in {10, 14, 18}
    OBVIOUS
  <2>2. /\ GetULong(bytes2, b2 + 10) = GetULong(bytes, b + 10)
        /\ GetULong(bytes2, b2 + 14) = GetULong(bytes, b + 14)
        /\ GetULong(bytes2, b2 + 18) = GetULong(bytes, b + 18)
    BY <1>8, <2>1
  <2> QED
    BY <1>0, <1>1, <1>7, <1>9, <1>10, <2>2
<1>12. IsPart(p2, msgs2, bytes2)
  BY <1>4, <1>5, <1>11 DEF IsPart, piece, length
<1> QED
  BY <1>4, <1>5, <1>12 DEF piece, length

\* The parts lie one behind the other.
LEMMA ChainRises ==
    ASSUME NEW msgs \in Seq(Messages), NEW bytes, NEW lengths, Len(lengths) \in Nat,
           NEW q, IsChain(q, lengths, msgs, bytes)
    PROVE  \A k \in 1..Len(lengths) + 1 : \A j \in 1..k : q[j].begin <= q[k].begin
<1> DEFINE n == Len(lengths)
           T == {k \in Nat : k <= n => \A j \in 1..k + 1 : q[j].begin <= q[k + 1].begin}
<1>1. n \in Nat /\ \A k \in 1..n + 1 : q[k] \in Spots /\ q[k].begin \in Nat
  BY DEF IsChain, Spots
<1>2. \A k \in 1..n : q[k].begin <= q[k + 1].begin
  <2> SUFFICES ASSUME NEW k \in 1..n PROVE q[k].begin <= q[k + 1].begin
    OBVIOUS
  <2>1. IsPart(q[k], msgs, bytes) /\ q[k + 1] = Successor(q[k], msgs)
    BY DEF IsChain
  <2>2. k \in 1..n + 1
    BY <1>1
  <2>3. q[k] \in Spots /\ q[k].begin \in Nat
    BY <1>1, <2>2
  <2>4. Piece(q[k], msgs) \in Nat
    BY <2>1, <2>3, PieceIs DEF IsPart
  <2>5. q[k + 1].begin = q[k].begin + HeaderSize + Piece(q[k], msgs)
    BY <2>1 DEF Successor
  <2> QED
    BY <2>3, <2>4, <2>5 DEF HeaderSize
<1> HIDE DEF n
<1>3. 0 \in T
  BY <1>1
<1>4. ASSUME NEW k \in Nat, k \in T PROVE k + 1 \in T
  <2>1. CASE k + 1 <= n
    <3>1. k + 1 \in 1..n /\ k <= n /\ k + 1 + 1 \in 1..n + 1 /\ k + 1 \in 1..n + 1
      BY <1>1, <2>1
    <3>2. q[k + 1].begin <= q[k + 1 + 1].begin
      BY <1>2, <3>1
    <3>3. ASSUME NEW j \in 1..k + 1 + 1 PROVE q[j].begin <= q[k + 1 + 1].begin
      <4>1. CASE j \in 1..k + 1
        <5>0. \A i \in 1..k + 1 : q[i].begin <= q[k + 1].begin
          BY <1>4, <3>1
        <5>1. q[j].begin <= q[k + 1].begin /\ j \in 1..n + 1
          BY <1>1, <3>1, <4>1, <5>0
        <5> QED
          BY <1>1, <3>1, <3>2, <5>1
      <4>2. CASE j = k + 1 + 1
        BY <1>1, <3>1, <4>2
      <4> QED
        BY <4>1, <4>2
    <3> QED
      BY <3>3
  <2>2. CASE ~(k + 1 <= n)
    BY <2>2
  <2> QED
    BY <2>1, <2>2
<1> HIDE DEF T
<1>5. Nat \subseteq T
  BY <1>3, <1>4, SetInduction
<1> SUFFICES ASSUME NEW k \in 1..n + 1, NEW j \in 1..k PROVE q[j].begin <= q[k].begin
  BY DEF n
<1>6. k - 1 \in Nat /\ k - 1 <= n /\ k - 1 + 1 = k
  BY <1>1
<1> QED
  BY <1>5, <1>6 DEF T

\* Each part ends before the end of the stream.
LEMMA PartsInside ==
    ASSUME NEW msgs \in Seq(Messages), NEW bytes \in Seq(Bytes), NEW lengths, Len(lengths) \in Nat,
           NEW q, IsChain(q, lengths, msgs, bytes), NEW k \in 1..Len(lengths)
    PROVE  /\ q[k] \in Spots /\ Piece(q[k], msgs) \in 0..DataSize /\ IsPart(q[k], msgs, bytes)
           /\ q[k].begin + HeaderSize + Piece(q[k], msgs) = q[k + 1].begin
           /\ q[k + 1].begin <= q[Len(lengths) + 1].begin
           /\ q[k].begin + HeaderSize + Piece(q[k], msgs) <= Len(bytes)
<1> DEFINE n == Len(lengths)
<1>1. /\ k + 1 \in 1..n + 1 /\ n + 1 \in 1..n + 1 /\ k + 1 \in 1..n + 1 /\ k \in 1..n + 1
  OBVIOUS
<1>2. /\ q[k] \in Spots /\ q[k + 1] \in Spots /\ q[n + 1] \in Spots /\ q[n + 1].begin <= Len(bytes)
      /\ IsPart(q[k], msgs, bytes) /\ q[k + 1] = Successor(q[k], msgs)
  BY <1>1 DEF IsChain
<1>3. k + 1 \in 1..n + 1 /\ q[k + 1].begin <= q[n + 1].begin
  BY <1>1, ChainRises
<1>4. Piece(q[k], msgs) \in 0..DataSize
  BY <1>2, PieceIs DEF IsPart
<1>5. q[k].begin + HeaderSize + Piece(q[k], msgs) = q[k + 1].begin
  BY <1>2 DEF Successor
<1>6. q[k + 1].begin \in Nat /\ q[n + 1].begin \in Nat /\ Len(bytes) \in Nat
  BY <1>2 DEF Spots
<1> QED
  BY <1>2, <1>3, <1>4, <1>5, <1>6

\* The parts of a stream stay what they are when it grows, and when there are
\* more messages.
LEMMA ChainKept ==
    ASSUME NEW msgs \in Seq(Messages), NEW msgs2 \in Seq(Messages), NEW bytes \in Seq(Bytes),
           NEW bytes2 \in Seq(Bytes), NEW lengths, Len(lengths) \in Nat,
           NEW q, IsChain(q, lengths, msgs, bytes),
           Len(msgs) <= Len(msgs2), \A i \in 1..Len(msgs) : msgs2[i] = msgs[i],
           Len(bytes) <= Len(bytes2), \A i \in 1..Len(bytes) : bytes2[i] = bytes[i]
    PROVE  IsChain(q, lengths, msgs2, bytes2)
<1> DEFINE n == Len(lengths)
<1>1. /\ q \in [1..n + 1 -> Spots] /\ q[1].begin = 0 /\ q[n + 1].begin <= Len(bytes2)
  <2>1. /\ q \in [1..n + 1 -> Spots] /\ q[1].begin = 0 /\ q[n + 1].begin <= Len(bytes)
    BY DEF IsChain
  <2>2. q[n + 1] \in Spots
    BY <2>1
  <2>3. q[n + 1].begin \in Nat /\ Len(bytes) \in Nat /\ Len(bytes2) \in Nat
    BY <2>2 DEF Spots
  <2> QED
    BY <2>1, <2>3
<1>2. ASSUME NEW k \in 1..n
      PROVE  /\ IsPart(q[k], msgs2, bytes2) /\ q[k + 1] = Successor(q[k], msgs2)
             /\ lengths[k] = HeaderSize + Piece(q[k], msgs2)
  <2> DEFINE p == q[k]
  <2>1. /\ p \in Spots /\ IsPart(p, msgs, bytes) /\ Piece(p, msgs) \in Nat
        /\ p.begin + HeaderSize + Piece(p, msgs) <= Len(bytes)
    BY PartsInside
  <2>2. q[k + 1] = Successor(p, msgs) /\ lengths[k] = HeaderSize + Piece(p, msgs)
    BY DEF IsChain
  <2>3. p.msg \in 1..Len(msgs) /\ p.begin \in Nat
    BY <2>1 DEF IsPart, Spots
  <2> HIDE DEF p
  <2>4. p.msg \in 1..Len(msgs2) /\ msgs2[p.msg] = msgs[p.msg]
    BY <2>3
  <2>5. ASSUME NEW i \in Span(p, msgs)
        PROVE  bytes2[p.begin + i] = bytes[p.begin + i]
    <3>1. p.begin + i \in 1..Len(bytes)
      BY <2>1, <2>3 DEF HeaderSize, Span
    <3> QED
      BY <3>1
  <2>6. /\ IsPart(p, msgs2, bytes2) /\ Piece(p, msgs2) = Piece(p, msgs)
        /\ Length(p, msgs2) = Length(p, msgs)
    <3>1. Moved(p, msgs, bytes, p, msgs2, bytes2)
      BY <2>4, <2>5 DEF Moved
    <3> QED
      BY <2>1, <3>1, PartMoves
  <2>7. Successor(p, msgs2) = Successor(p, msgs)
    BY <2>6 DEF Successor
  <2> QED
    BY <2>2, <2>6, <2>7 DEF p
<1> QED
  BY <1>1, <1>2 DEF IsChain

\* One more part.
LEMMA ChainGrows ==
    ASSUME NEW msgs \in Seq(Messages), NEW bytes \in Seq(Bytes), NEW lengths \in Seq(PartLengths),
           NEW q, IsChain(q, lengths, msgs, bytes),
           IsPart(q[Len(lengths) + 1], msgs, bytes),
           Successor(q[Len(lengths) + 1], msgs).begin <= Len(bytes)
    PROVE  LET p == q[Len(lengths) + 1]
               more == Append(lengths, HeaderSize + Piece(p, msgs))
           IN  /\ more \in Seq(PartLengths)
               /\ \E q2 : /\ IsChain(q2, more, msgs, bytes) /\ q2[1] = q[1]
                          /\ q2[Len(more) + 1] = Successor(p, msgs)
<1> DEFINE n == Len(lengths)
           p == q[n + 1]
           size == HeaderSize + Piece(p, msgs)
           more == Append(lengths, size)
           q2 == [k \in 1..n + 1 + 1 |-> IF k = n + 1 + 1 THEN Successor(p, msgs) ELSE q[k]]
<1>0. n \in Nat
  OBVIOUS
<1>1. q \in [1..n + 1 -> Spots] /\ q[1].begin = 0
      /\ \A k \in 1..n : /\ IsPart(q[k], msgs, bytes) /\ q[k + 1] = Successor(q[k], msgs)
                         /\ lengths[k] = HeaderSize + Piece(q[k], msgs)
  BY DEF IsChain
<1>2. p \in Spots
  BY <1>0, <1>1
<1>3. Piece(p, msgs) \in 0..DataSize /\ Successor(p, msgs) \in Spots
  BY <1>2, PieceIs DEF IsPart
<1>4. size \in PartLengths
  BY <1>3, TransferAssumption DEF PartLengths, HeaderSize
<1>5. IsPart(p, msgs, bytes) /\ Successor(p, msgs).begin <= Len(bytes)
  OBVIOUS
<1> HIDE DEF size
<1>6. more \in Seq(PartLengths) /\ Len(more) = n + 1 /\ more[n + 1] = size
      /\ \A k \in 1..n : more[k] = lengths[k]
  BY <1>4, AppendProperties
<1> HIDE DEF n, more
<1>7. q2 \in [1..n + 1 + 1 -> Spots] /\ q2[n + 1 + 1] = Successor(p, msgs)
      /\ \A k \in 1..n + 1 : q2[k] = q[k]
  <2>1. ASSUME NEW k \in 1..n + 1 + 1
        PROVE  (IF k = n + 1 + 1 THEN Successor(p, msgs) ELSE q[k]) \in Spots
    <3>1. k = n + 1 + 1 \/ k \in 1..n + 1
      BY <1>0
    <3> HIDE DEF p
    <3> QED
      BY <1>1, <1>3, <3>1
  <2>2. n + 1 + 1 \in 1..n + 1 + 1 /\ \A k \in 1..n + 1 : k \in 1..n + 1 + 1 /\ k # n + 1 + 1
    BY <1>0
  <2> HIDE DEF p
  <2> QED
    BY <2>1, <2>2
<1>8. q2[1] = q[1]
  <2>1. 1 \in 1..n + 1
    BY <1>0
  <2> HIDE DEF q2
  <2> QED
    BY <1>7, <2>1
<1> HIDE DEF q2
<1>9. ASSUME NEW k \in 1..n + 1
      PROVE  /\ IsPart(q2[k], msgs, bytes) /\ q2[k + 1] = Successor(q2[k], msgs)
             /\ more[k] = HeaderSize + Piece(q2[k], msgs)
  <2>1. CASE k = n + 1
    <3>1. q2[k] = p /\ q2[k + 1] = Successor(p, msgs)
      BY <1>7, <2>1 DEF p
    <3> QED
      BY <1>5, <1>6, <2>1, <3>1 DEF size
  <2>2. CASE k \in 1..n
    <3>1. k + 1 \in 1..n + 1
      BY <1>0, <2>2
    <3>2. q2[k] = q[k] /\ q2[k + 1] = q[k + 1] /\ more[k] = lengths[k]
      BY <1>6, <1>7, <2>2, <3>1
    <3> QED
      BY <1>1, <2>2, <3>2
  <2> QED
    BY <1>0, <2>1, <2>2
<1>10. IsChain(q2, more, msgs, bytes)
  <2>1. q2[Len(more) + 1].begin <= Len(bytes)
    BY <1>5, <1>6, <1>7
  <2> QED
    BY <1>1, <1>6, <1>7, <1>8, <1>9, <2>1 DEF IsChain
<1>11. q2[Len(more) + 1] = Successor(p, msgs)
  BY <1>6, <1>7
<1> QED
  BY <1>6, <1>8, <1>10, <1>11 DEF p, n, more, size

\* One part less, the first.
LEMMA ChainShortens ==
    ASSUME NEW msgs \in Seq(Messages), NEW bytes \in Seq(Bytes), NEW lengths \in Seq(PartLengths),
           lengths # <<>>, NEW q, IsChain(q, lengths, msgs, bytes)
    PROVE  LET rest == SubSeq(bytes, lengths[1] + 1, Len(bytes)) IN
           /\ rest \in Seq(Bytes) /\ Len(rest) = Len(bytes) - lengths[1]
           /\ \E q2 : /\ IsChain(q2, Tail(lengths), msgs, rest)
                      /\ q2[1] = [Successor(q[1], msgs) EXCEPT !.begin = 0]
                      /\ q2[Len(Tail(lengths)) + 1] =
                            [q[Len(lengths) + 1] EXCEPT !.begin = @ - lengths[1]]
<1> DEFINE n == Len(lengths)
           d == lengths[1]
           size == Len(bytes)
           rest == SubSeq(bytes, d + 1, size)
           less == Tail(lengths)
           q2 == [k \in 1..n |-> [q[k + 1] EXCEPT !.begin = @ - d]]
<1>0. n \in Nat /\ n # 0 /\ size \in Nat
  BY EmptySeq
<1>1. q \in [1..n + 1 -> Spots] /\ q[1].begin = 0 /\ q[n + 1].begin <= size
      /\ \A k \in 1..n : /\ IsPart(q[k], msgs, bytes) /\ q[k + 1] = Successor(q[k], msgs)
                         /\ lengths[k] = HeaderSize + Piece(q[k], msgs)
  BY DEF IsChain
<1>2. d \in Nat /\ d = q[2].begin /\ d <= size
  <2>1. 1 \in 1..n /\ 2 \in 1..n + 1
    BY <1>0
  <2>2. /\ q[1].begin + HeaderSize + Piece(q[1], msgs) = q[1 + 1].begin
        /\ q[1].begin + HeaderSize + Piece(q[1], msgs) <= size
        /\ Piece(q[1], msgs) \in Nat
    BY <1>0, <2>1, PartsInside
  <2>3. d = HeaderSize + Piece(q[1], msgs)
    BY <1>1, <2>1
  <2> HIDE DEF d, size
  <2> QED
    BY <1>1, <2>2, <2>3 DEF HeaderSize
<1>3. rest \in Seq(Bytes) /\ Len(rest) = size - d /\ \A i \in 1..size - d : rest[i] = bytes[d + i]
  <2>1. bytes \in Seq(Bytes) /\ d \in Nat /\ size \in Nat /\ d <= size /\ size <= Len(bytes)
    BY <1>0, <1>2
  <2> HIDE DEF d, size
  <2> QED
    BY <2>1, Slice
<1>4. less \in Seq(PartLengths) /\ Len(less) = n - 1 /\ \A k \in 1..n - 1 : less[k] = lengths[k + 1]
  BY HeadTailProperties, <1>0
<1>5. \A k \in 1..n : d <= q[k + 1].begin
  <2> SUFFICES ASSUME NEW k \in 1..n PROVE d <= q[k + 1].begin
    OBVIOUS
  <2>1. k + 1 \in 1..n + 1 /\ 2 \in 1..k + 1
    BY <1>0
  <2>2. \A i \in 1..n + 1 : \A j \in 1..i : q[j].begin <= q[i].begin
    BY <1>0, ChainRises
  <2> QED
    BY <1>2, <2>1, <2>2
<1> HIDE DEF n, d, rest, less, size
<1>6. ASSUME NEW k \in 1..n
      PROVE  /\ q[k + 1] \in Spots /\ q2[k] \in Spots /\ q2[k].msg = q[k + 1].msg
             /\ q2[k].at = q[k + 1].at /\ q2[k].begin = q[k + 1].begin - d
             /\ q[k + 1].begin \in Nat
             /\ q2[k] = [q[k + 1] EXCEPT !.begin = @ - d]
  <2>1. k + 1 \in 1..n + 1 /\ q[k + 1] \in Spots
    BY <1>0, <1>1
  <2>2. q[k + 1].begin - d \in Nat /\ q[k + 1].begin \in Nat
    BY <1>2, <1>5, <2>1 DEF Spots
  <2> QED
    BY <2>1, <2>2 DEF Spots
<1>7. q2 \in [1..n -> Spots]
  <2>1. \A k \in 1..n : q2[k] \in Spots
    BY <1>6
  <2> QED
    BY <2>1
<1> HIDE DEF q2
<1>8. ASSUME NEW k \in 1..n - 1
      PROVE  /\ IsPart(q2[k], msgs, rest) /\ q2[k + 1] = Successor(q2[k], msgs)
             /\ less[k] = HeaderSize + Piece(q2[k], msgs)
  <2> DEFINE p == q[k + 1]
             p2 == q2[k]
  <2>0. k \in 1..n /\ k + 1 \in 1..n
    BY <1>0
  <2>1. /\ p \in Spots /\ p2 \in Spots /\ p2.msg = p.msg /\ p2.at = p.at
        /\ p2.begin = p.begin - d /\ p.begin \in Nat
    BY <1>6, <2>0
  <2>2. /\ IsPart(p, msgs, bytes) /\ Piece(p, msgs) \in Nat
        /\ p.begin + HeaderSize + Piece(p, msgs) <= size
    BY <1>0, <2>0, PartsInside DEF n, size
  <2>3. q[k + 1 + 1] = Successor(p, msgs) /\ less[k] = HeaderSize + Piece(p, msgs)
    BY <1>1, <1>4, <2>0
  <2>4. p.msg \in 1..Len(msgs)
    BY <2>2 DEF IsPart
  <2>5. d <= p.begin
    BY <1>5, <2>0
  <2>6. q2[k + 1] = [q[k + 1 + 1] EXCEPT !.begin = @ - d]
    BY <1>6, <2>0
  <2> HIDE DEF p, p2
  <2>7. ASSUME NEW i \in Span(p, msgs)
        PROVE  rest[p2.begin + i] = bytes[p.begin + i]
    <3> DEFINE b == p.begin
               piece == Piece(p, msgs)
    <3>0. /\ b \in Nat /\ piece \in Nat /\ i \in 1..22 + piece /\ b + 22 + piece <= size
          /\ d \in Nat /\ size \in Nat /\ d <= b /\ p2.begin = b - d
      BY <1>0, <1>2, <2>1, <2>2, <2>5 DEF HeaderSize, Span
    <3> HIDE DEF b, piece
    <3>1. p2.begin + i \in 1..size - d /\ d + (p2.begin + i) = b + i
      BY <3>0
    <3> QED
      BY <1>3, <3>1 DEF b
  <2>8. /\ IsPart(p2, msgs, rest) /\ Piece(p2, msgs) = Piece(p, msgs)
        /\ Length(p2, msgs) = Length(p, msgs)
    <3>1. Moved(p, msgs, bytes, p2, msgs, rest)
      BY <2>1, <2>4, <2>7 DEF Moved
    <3> QED
      BY <2>1, <2>2, <3>1, PartMoves
  <2>9. Successor(p2, msgs) = [Successor(p, msgs) EXCEPT !.begin = @ - d]
    <3>1. p2.begin + HeaderSize + Piece(p, msgs) = (p.begin + HeaderSize + Piece(p, msgs)) - d
      BY <1>2, <2>1, <2>2, <2>5 DEF HeaderSize
    <3> QED
      BY <2>1, <2>8, <3>1 DEF Successor
  <2> QED
    BY <2>3, <2>6, <2>8, <2>9 DEF p, p2
<1>9. IsChain(q2, less, msgs, rest)
  <2>1. q2[1].begin = 0
    <3>1. 1 \in 1..n /\ 1 + 1 = 2
      BY <1>0
    <3>2. q2[1].begin = q[2].begin - d
      BY <1>6, <3>1
    <3> QED
      BY <1>2, <3>2
  <2>2. q2[n].begin <= Len(rest)
    <3>1. n \in 1..n
      BY <1>0
    <3>2. q2[n].begin = q[n + 1].begin - d /\ q[n + 1].begin \in Nat
      BY <1>6, <3>1
    <3> QED
      BY <1>0, <1>1, <1>2, <1>3, <3>2
  <2>3. n - 1 + 1 = n
    BY <1>0
  <2> QED
    BY <1>4, <1>7, <1>8, <2>1, <2>2, <2>3 DEF IsChain
<1>10. q2[1] = [Successor(q[1], msgs) EXCEPT !.begin = 0]
  <2>1. 1 \in 1..n /\ 1 + 1 = 2
    BY <1>0
  <2>2. q2[1] = [q[2] EXCEPT !.begin = @ - d] /\ q[2] \in Spots /\ q[2] = Successor(q[1], msgs)
    BY <1>1, <1>6, <2>1
  <2>3. q[2].begin - d = 0
    BY <1>2
  <2> QED
    BY <2>2, <2>3 DEF Spots
<1>11. q2[Len(less) + 1] = [q[n + 1] EXCEPT !.begin = @ - d]
  <2>1. Len(less) + 1 = n /\ n \in 1..n
    BY <1>0, <1>4
  <2> QED
    BY <1>6, <2>1
<1> QED
  BY <1>3, <1>9, <1>10, <1>11 DEF n, d, rest, less, size

Sending == spc = "start" \/ (spc = "continue" /\ offset < Len(content))

\* The part that the sender builds is the one that is next.
LEMMA PartWritten ==
    ASSUME Typed, Sending
    PROVE  /\ sent \in Seq(Messages) /\ ToSend \in Spots
           /\ ToSend.msg = Len(sent) /\ ToSend.at = offset /\ ToSend.begin = Len(stream)
           /\ Length(ToSend, sent) = Len(content) /\ Piece(ToSend, sent) = PartSize
           /\ PartSize \in 0..DataSize /\ offset + PartSize \in offset..Len(content)
           /\ Part \in Seq(Bytes) /\ Len(Part) = HeaderSize + PartSize
           /\ stream \o Part \in Seq(Bytes) /\ Len(stream \o Part) = Len(stream) + Len(Part)
           /\ \A i \in 1..Len(stream) : (stream \o Part)[i] = stream[i]
           /\ IsPart(ToSend, sent, stream \o Part)
<1> DEFINE p == ToSend
           c == content
           len == Len(content)
           size == PartSize
           head == HeaderBytes(Current, size, offset)
           piece == SubSeq(c, offset + 1, offset + size)
           more == stream \o Part
<1>1. /\ sent \in Seq(Messages) /\ sent # <<>> /\ c = Data(Current) /\ c \in Seq(Bytes)
      /\ len \in Nat /\ offset \in 0..len /\ stream \in Seq(Bytes) /\ Len(stream) \in Nat
      /\ (spc = "start" => offset = 0)
  BY DEF Typed, Sending
<1>2. Len(sent) \in 1..Len(sent) /\ Len(sent) \in Nat
  BY <1>1, EmptySeq
<1>3. p = [msg |-> Len(sent), at |-> offset, begin |-> Len(stream)] /\ p \in Spots
  <2>1. spc = "start" \/ offset < Len(content)
    BY DEF Sending
  <2>2. p = [msg |-> Len(sent), at |-> offset, begin |-> Len(stream)]
    BY <2>1 DEF ToSend
  <2>3. offset \in Nat
    BY <1>1
  <2> QED
    BY <1>1, <1>2, <2>2, <2>3 DEF Spots
<1>4. sent[p.msg] = Current /\ Length(p, sent) = len /\ p.msg \in 1..Len(sent)
  BY <1>1, <1>2, <1>3 DEF Current, Length
<1>5. Piece(p, sent) = size
  BY <1>3, <1>4 DEF Piece, PartSize
<1>6. p.at < Length(p, sent) \/ p.at = 0
  BY <1>1, <1>3, <1>4 DEF Sending
<1>7. /\ size \in 0..DataSize /\ offset + size \in offset..len /\ size \in Longs /\ offset \in Longs
      /\ len \in Longs /\ IsMessage(Current)
  BY <1>1, <1>3, <1>4, <1>5, <1>6, PieceIs, MessagesAre
<1>8. DataSize \in Nat
  BY TransferAssumption
<1>9. /\ head \in Seq(Bytes) /\ Len(head) = HeaderSize /\ head[3] = Current.cmd
      /\ head[4] = Current.sub /\ GetULong(head, 10) = len /\ GetULong(head, 14) = size
      /\ GetULong(head, 18) = offset
  BY <1>1, <1>7, HeaderIs
<1>10. piece \in Seq(Bytes) /\ Len(piece) = size /\ \A i \in 1..size : piece[i] = c[offset + i]
  <2> DEFINE end == offset + size
  <2>1. /\ offset \in Nat /\ end \in Nat /\ offset <= end /\ end <= Len(c) /\ end - offset = size
        /\ c \in Seq(Bytes)
    BY <1>1, <1>7, <1>8
  <2> HIDE DEF c, end
  <2>2. /\ SubSeq(c, offset + 1, end) \in Seq(Bytes)
        /\ Len(SubSeq(c, offset + 1, end)) = end - offset
        /\ \A i \in 1..end - offset : SubSeq(c, offset + 1, end)[i] = c[offset + i]
    BY <2>1, Slice
  <2> QED
    BY <2>1, <2>2 DEF end
<1>11. Part = head \o piece
  BY DEF Part
<1> HIDE DEF head, piece, size, more, p
<1>12. /\ Part \in Seq(Bytes) /\ Len(Part) = HeaderSize + size
       /\ \A i \in 1..HeaderSize : Part[i] = head[i]
       /\ \A i \in 1..size : Part[HeaderSize + i] = piece[i]
  <2>1. head \in Seq(Bytes) /\ piece \in Seq(Bytes)
    BY <1>9, <1>10
  <2>2. /\ Part \in Seq(Bytes) /\ Len(Part) = Len(head) + Len(piece)
        /\ \A i \in 1..Len(head) : Part[i] = head[i]
        /\ \A i \in 1..Len(piece) : Part[Len(head) + i] = piece[i]
    BY <1>11, <2>1, Joined
  <2> QED
    BY <1>9, <1>10, <2>2
<1>13. /\ more \in Seq(Bytes) /\ Len(more) = Len(stream) + Len(Part)
       /\ \A i \in 1..Len(stream) : more[i] = stream[i]
       /\ \A i \in 1..Len(Part) : more[Len(stream) + i] = Part[i]
  <2>1. stream \in Seq(Bytes) /\ Part \in Seq(Bytes)
    BY <1>1, <1>12
  <2> QED
    BY <2>1, Joined DEF more
<1> DEFINE b == Len(stream)
<1>14. b \in Nat /\ p.begin = b
  BY <1>1, <1>3
<1> HIDE DEF b
<1>15. \A i \in 1..22 : more[b + i] = head[i]
  <2> SUFFICES ASSUME NEW i \in 1..22 PROVE more[b + i] = head[i]
    OBVIOUS
  <2>1. i \in 1..HeaderSize /\ i \in 1..HeaderSize + size
    BY <1>7, <1>8 DEF HeaderSize
  <2>2. more[b + i] = Part[i] /\ Part[i] = head[i]
    BY <1>12, <1>13, <2>1 DEF b
  <2> QED
    BY <2>2
<1>16. ASSUME NEW at \in {10, 14, 18} PROVE GetULong(more, b + at) = GetULong(head, at)
  <2>1. \A i \in 1..4 : at + i \in 1..22 /\ b + at + i = b + (at + i)
    BY <1>14
  <2>2. \A i \in 1..4 : more[b + at + i] = head[at + i]
    BY <1>15, <2>1
  <2>3. b + at \in Nat /\ at \in Nat
    BY <1>14
  <2> QED
    BY <2>2, <2>3, SameNumber
<1>17. ASSUME NEW i \in 1..size PROVE more[b + HeaderSize + i] = c[offset + i]
  <2>1. HeaderSize + i \in 1..HeaderSize + size /\ b + HeaderSize + i = b + (HeaderSize + i)
    BY <1>7, <1>8, <1>14 DEF HeaderSize
  <2>2. more[b + (HeaderSize + i)] = Part[HeaderSize + i]
    BY <1>12, <1>13, <2>1 DEF b
  <2> QED
    BY <1>10, <1>12, <2>1, <2>2
<1>18. IsPart(p, sent, more)
  <2>1. more[b + 3] = head[3] /\ more[b + 4] = head[4]
    BY <1>15
  <2>2. /\ GetULong(more, b + 10) = GetULong(head, 10)
        /\ GetULong(more, b + 14) = GetULong(head, 14)
        /\ GetULong(more, b + 18) = GetULong(head, 18)
    <3>1. 10 \in {10, 14, 18} /\ 14 \in {10, 14, 18} /\ 18 \in {10, 14, 18}
      OBVIOUS
    <3> QED
      BY <1>16, <3>1
  <2>3. p.at = offset
    BY <1>3
  <2> QED
    BY <1>1, <1>4, <1>5, <1>6, <1>9, <1>14, <1>17, <2>1, <2>2, <2>3 DEF IsPart
<1> QED
  BY <1>1, <1>3, <1>4, <1>5, <1>7, <1>12, <1>13, <1>18 DEF p, size, more

-----------------------------------------------------------------------------
(* The receiver takes a part.                                              *)

\* Four bytes are a number, unless one has never been written.
LEMMA NumberOf ==
    ASSUME NEW bytes \in Seq(Octets), NEW n \in Nat, n <= Len(bytes),
           Unset \notin {bytes[i] : i \in 1..n}, NEW at \in Nat, at + 4 <= n
    PROVE  GetULong(bytes, at) \in Nat
<1>1. \A i \in 1..n : bytes[i] \in Nat
  <2> SUFFICES ASSUME NEW i \in 1..n PROVE bytes[i] \in Nat
    OBVIOUS
  <2>1. i \in 1..Len(bytes) /\ bytes[i] # Unset
    OBVIOUS
  <2>2. bytes[i] \in Octets
    BY <2>1
  <2>3. \A x \in Octets : x # Unset => x \in Nat
    BY DEF Octets, Unset
  <2> QED
    BY <2>1, <2>2, <2>3
<1>2. /\ at + 1 \in 1..n /\ at + 2 \in 1..n /\ at + 3 \in 1..n /\ at + 4 \in 1..n
  OBVIOUS
<1>3. /\ bytes[at + 1] \in Nat /\ bytes[at + 2] \in Nat
      /\ bytes[at + 3] \in Nat /\ bytes[at + 4] \in Nat
  BY <1>1, <1>2
<1>4. /\ Byte * bytes[at + 2] \in Nat /\ Byte * bytes[at + 4] \in Nat
  <2>1. Byte \in Nat
    BY Widths
  <2>2. \A x \in Nat : Byte * x \in Nat
    BY <2>1
  <2> QED
    BY <1>3, <2>2
<1>5. UShortMax * (bytes[at + 3] + Byte * bytes[at + 4]) \in Nat
  BY <1>3, <1>4, Widths
<1> QED
  BY <1>3, <1>4, <1>5, GetULongIs

\* Whatever recv() has taken, the receiver's state has its types.
LEMMA TakePartTyped ==
    ASSUME Typed, rpc \in {"first", "next"}, NEW bytes \in Seq(Octets),
           Len(bytes) = HeaderSize + DataSize, TakePart(bytes)
    PROVE  /\ header' \in Headers /\ data' \in Seq(Octets) /\ got' \in Nat
           /\ rpc' \in {"next", "done", "undefined"}
<1> DEFINE h == HeaderOf(bytes)
           size == IF rpc = "first" THEN h.dataSize ELSE Len(data)
           nothing == rpc = "first" /\ size = 0
           bad == \/ Unset \in {bytes[i] : i \in 1..HeaderSize}
                  \/ size > MaxData \/ ~(nothing \/ Fits(h, size))
           into == IF rpc = "first" THEN Fresh(size) ELSE data
<1>1. header \in Headers /\ data \in Seq(Octets) /\ got \in Nat
  BY DEF Typed
<1>2. \/ bad /\ rpc' = "undefined" /\ UNCHANGED <<header, data, got>>
      \/ /\ ~bad /\ header' = (IF rpc = "first" THEN h ELSE header)
         /\ data' = Copy(h, into, bytes) /\ got' = (IF nothing THEN 0 ELSE got + h.partSize)
         /\ rpc' = IF Misses(header', got') THEN "next" ELSE "done"
  BY DEF TakePart
<1>3. CASE bad /\ rpc' = "undefined" /\ UNCHANGED <<header, data, got>>
  BY <1>1, <1>3
<1>4. CASE ~bad /\ header' = (IF rpc = "first" THEN h ELSE header)
           /\ data' = Copy(h, into, bytes) /\ got' = (IF nothing THEN 0 ELSE got + h.partSize)
           /\ rpc' = IF Misses(header', got') THEN "next" ELSE "done"
  <2>1. Unset \notin {bytes[i] : i \in 1..HeaderSize}
    BY <1>4
  <2>2. DataSize \in Nat /\ HeaderSize = 22 /\ HeaderSize \in Nat /\ HeaderSize <= Len(bytes)
    BY TransferAssumption DEF HeaderSize
  <2>3. GetULong(bytes, 10) \in Nat /\ GetULong(bytes, 14) \in Nat /\ GetULong(bytes, 18) \in Nat
    <3>1. 10 + 4 <= HeaderSize /\ 14 + 4 <= HeaderSize /\ 18 + 4 <= HeaderSize
      BY <2>2
    <3> QED
      BY <2>1, <2>2, <3>1, NumberOf
  <2>4. bytes[3] \in Bytes /\ bytes[4] \in Bytes
    <3>1. 3 \in 1..HeaderSize /\ 4 \in 1..HeaderSize /\ 3 \in 1..Len(bytes) /\ 4 \in 1..Len(bytes)
      BY <2>2
    <3>2. bytes[3] # Unset /\ bytes[4] # Unset /\ bytes[3] \in Octets /\ bytes[4] \in Octets
      BY <2>1, <3>1
    <3> QED
      BY <3>2 DEF Octets, Unset, Bytes
  <2>5. h \in Headers /\ h.dataSize \in Nat /\ h.partSize \in Nat /\ h.offset \in Nat
    BY <2>3, <2>4 DEF HeaderOf, Headers
  <2>6. header' \in Headers
    BY <1>1, <1>4, <2>5
  <2>7. got' \in Nat
    BY <1>1, <1>4, <2>5
  <2>8. size \in Nat /\ into \in Seq(Octets) /\ Len(into) = size
    <3>1. CASE rpc = "first"
      <4>1. size = h.dataSize /\ into = [i \in 1..size |-> Unset]
        BY <3>1 DEF Fresh
      <4> HIDE DEF size, into
      <4>2. size \in Nat /\ Unset \in Octets
        BY <2>5, <4>1 DEF Unset, Octets
      <4> QED
        BY <4>1, <4>2
    <3>2. CASE rpc = "next"
      <4>1. size = Len(data) /\ into = data
        BY <3>2
      <4> QED
        BY <1>1, <4>1
    <3> QED
      BY <3>1, <3>2
  <2>9. data' \in Seq(Octets)
    <3> HIDE DEF size, into, h
    <3>1. DOMAIN into = 1..size
      BY <2>8
    <3>2. ASSUME NEW i \in 1..size
          PROVE  (IF i - h.offset \in 1..h.partSize THEN bytes[HeaderSize + i - h.offset]
                  ELSE into[i]) \in Octets
      <4>1. CASE i - h.offset \in 1..h.partSize
        <5>1. h.partSize <= DataSize
          <6>1. nothing \/ Fits(h, size)
            BY <1>4
          <6>2. ~nothing
            BY <2>8, <3>2
          <6>3. HeaderSize + h.partSize <= HeaderSize + DataSize
            BY <6>1, <6>2 DEF Fits
          <6> QED
            BY <2>2, <2>5, <6>3
        <5>2. HeaderSize + i - h.offset \in 1..Len(bytes)
          BY <2>2, <2>5, <4>1, <5>1
        <5> QED
          BY <4>1, <5>2
      <4>2. CASE ~(i - h.offset \in 1..h.partSize)
        BY <2>8, <4>2
      <4> QED
        BY <4>1, <4>2
    <3>3. data' = [i \in 1..size |-> IF i - h.offset \in 1..h.partSize
                                      THEN bytes[HeaderSize + i - h.offset] ELSE into[i]]
      BY <1>4, <3>1 DEF Copy
    <3>4. data' \in [1..size -> Octets]
      BY <3>2, <3>3
    <3> QED
      BY <2>8, <3>4
  <2> QED
    BY <1>4, <2>6, <2>7, <2>9
<1> HIDE DEF bad
<1> QED
  BY <1>2, <1>3, <1>4

\* The buffer after recv(): what has been taken in front of what was there.
Filled(n) == SubSeq(stream, 1, n) \o SubSeq(buffer, n + 1, HeaderSize + DataSize)

\* The buffer after a recv() of n bytes.
LEMMA FilledIs ==
    ASSUME Typed, rpc \in {"first", "next"}, NEW n \in Nat, n <= Len(stream),
           n <= HeaderSize + DataSize
    PROVE  /\ Filled(n) \in Seq(Octets) /\ Len(Filled(n)) = HeaderSize + DataSize
           /\ \A i \in 1..n : Filled(n)[i] = stream[i]
           /\ SubSeq(stream, n + 1, Len(stream)) \in Seq(Bytes)
           /\ Len(SubSeq(stream, n + 1, Len(stream))) = Len(stream) - n
<1> DEFINE size == HeaderSize + DataSize
           a == SubSeq(stream, 0 + 1, n)
           b == SubSeq(buffer, n + 1, size)
<1>1. /\ stream \in Seq(Bytes) /\ buffer \in Seq(Octets) /\ Len(buffer) = size
  BY DEF Typed
<1>2. size \in Nat
  BY TransferAssumption DEF HeaderSize
<1>3. stream \in Seq(Octets)
  <2>1. Bytes \subseteq Octets
    BY DEF Bytes, Octets, Unset
  <2> QED
    BY <1>1, <2>1
<1>4. n <= Len(stream) /\ n <= size
  OBVIOUS
<1> HIDE DEF size
<1>5. a \in Seq(Octets) /\ Len(a) = n /\ \A i \in 1..n : a[i] = stream[i]
  <2>1. 0 \in Nat /\ 0 <= n /\ n - 0 = n /\ \A i \in 1..n : 0 + i = i
    OBVIOUS
  <2>2. a \in Seq(Octets) /\ Len(a) = n - 0 /\ \A i \in 1..n - 0 : a[i] = stream[0 + i]
    BY <1>3, <1>4, <2>1, Slice
  <2> HIDE DEF a
  <2> QED
    BY <2>1, <2>2
<1>6. b \in Seq(Octets) /\ Len(b) = size - n
  <2>1. size <= Len(buffer)
    BY <1>1, <1>2
  <2> QED
    BY <1>1, <1>2, <1>4, <2>1, Slice
<1>7. /\ SubSeq(stream, n + 1, Len(stream)) \in Seq(Bytes)
      /\ Len(SubSeq(stream, n + 1, Len(stream))) = Len(stream) - n
  <2>1. Len(stream) \in Nat /\ Len(stream) <= Len(stream)
    BY <1>1
  <2> QED
    BY <1>1, <1>4, <2>1, Slice
<1>8. Filled(n) = a \o b
  <2>1. 0 + 1 = 1
    OBVIOUS
  <2> QED
    BY <2>1 DEF Filled, size
<1> HIDE DEF a, b
<1>9. /\ a \o b \in Seq(Octets) /\ Len(a \o b) = Len(a) + Len(b)
      /\ \A i \in 1..Len(a) : (a \o b)[i] = a[i]
  <2>1. a \in Seq(Octets) /\ b \in Seq(Octets)
    BY <1>5, <1>6
  <2> QED
    BY <2>1, Joined
<1>10. n + (size - n) = size
  BY <1>2
<1> QED
  BY <1>5, <1>6, <1>7, <1>8, <1>9, <1>10 DEF size

-----------------------------------------------------------------------------
(* Every step keeps the types.                                             *)

\* A recv() of n bytes.
LEMMA RecvIs ==
    ASSUME Typed, NEW n, Recv(n)
    PROVE  /\ rpc \in {"first", "next"} /\ n \in Nat /\ n # 0 /\ n <= Len(stream)
           /\ n <= HeaderSize + DataSize
           /\ stream' = SubSeq(stream, n + 1, Len(stream)) /\ buffer' = Filled(n)
           /\ aligned' = (aligned /\ parts # <<>> /\ n = Head(parts))
           /\ parts' = IF parts = <<>> THEN <<>> ELSE Tail(parts)
           /\ IF n < HeaderSize THEN rpc' = "failed" /\ UNCHANGED <<header, data, got>>
              ELSE TakePart(Filled(n))
           /\ UNCHANGED <<sent, spc, content, offset, received>>
<1>1. n \in 1..Smaller(Len(stream), HeaderSize + DataSize)
  BY DEF Recv
<1>2. Len(stream) \in Nat /\ HeaderSize + DataSize \in Nat
  BY TransferAssumption DEF Typed, HeaderSize
<1>3. n \in Nat /\ n # 0 /\ n <= Len(stream) /\ n <= HeaderSize + DataSize
  BY <1>1, <1>2 DEF Smaller
<1> QED
  BY <1>3 DEF Recv, Filled, sendVars

\* What send() has taken of the last part is behind the others.
LEMMA SendFailsIs ==
    ASSUME Typed, SendFails
    PROVE  /\ stream' \in Seq(Bytes) /\ Len(stream) <= Len(stream')
           /\ \A i \in 1..Len(stream) : stream'[i] = stream[i]
           /\ spc' = "failed" /\ UNCHANGED <<sent, content, offset, parts, rpc, buffer, header,
                                             data, got, received, aligned>>
<1>0. HeaderSize = 22
  BY DEF HeaderSize
<1>1. Sending
  BY DEF SendFails, Sending
<1>2. /\ Part \in Seq(Bytes) /\ Len(Part) = HeaderSize + PartSize /\ PartSize \in 0..DataSize
  BY <1>1, PartWritten
<1>3. PICK n \in {0, HeaderSize, Len(Part) - 1} : stream' = stream \o SubSeq(Part, 1, n)
  BY DEF SendFails
<1>4. SubSeq(Part, 1, n) \in Seq(Bytes)
  <2>1. n \in Nat /\ n <= Len(Part) /\ 0 \in Nat /\ 0 <= n /\ 0 + 1 = 1
    BY <1>0, <1>2, <1>3
  <2>2. SubSeq(Part, 0 + 1, n) \in Seq(Bytes)
    BY <1>2, <2>1, Slice
  <2> QED
    BY <2>1, <2>2
<1> DEFINE more == SubSeq(Part, 1, n)
<1>5. /\ stream' \in Seq(Bytes) /\ Len(stream') = Len(stream) + Len(more)
      /\ \A i \in 1..Len(stream) : stream'[i] = stream[i]
  <2>1. stream \in Seq(Bytes) /\ more \in Seq(Bytes)
    BY <1>4 DEF Typed
  <2> HIDE DEF more
  <2> QED
    BY <1>3, <2>1, Joined DEF more
<1>6. Len(stream) \in Nat /\ Len(more) \in Nat
  <2> HIDE DEF more
  <2> QED
    BY <1>4 DEF Typed, more
<1> HIDE DEF more
<1>7. spc' = "failed" /\ UNCHANGED <<sent, content, offset, parts, rpc, buffer, header, data, got,
                                      received, aligned>>
  BY DEF SendFails, recvVars
<1> QED
  BY <1>5, <1>6, <1>7

\* All of them keep the types.
LEMMA TypedKept ==
    ASSUME Typed, [Next]_vars
    PROVE  Typed'
<1>0. /\ DataSize \in Nat /\ HeaderSize = 22 /\ MaxData \in Nat
  BY TransferAssumption, Widths DEF HeaderSize, Longs
<1>1. ASSUME NEW m \in Messages, SendMessage(m) PROVE Typed'
  <2>1. Data(m) \in Seq(Bytes) /\ Len(Data(m)) \in Nat /\ Len(Data(m)) <= MaxData
    BY MessagesAre
  <2>2. sent' \in Seq(Messages) /\ Len(sent') = Len(sent) + 1 /\ sent'[Len(sent')] = m
    BY <1>1 DEF SendMessage, Typed
  <2>3. Len(sent') <= MaxMessages
    <3>1. Len(sent) \in Nat /\ Len(sent) < MaxMessages /\ MaxMessages \in Nat
      BY <1>1, TransferAssumption DEF SendMessage, Typed
    <3> QED
      BY <2>2, <3>1
  <2>4. sent' # <<>> /\ Current' = m
    <3>1. Len(sent) \in Nat
      BY DEF Typed
    <3> QED
      BY <2>2, <3>1, EmptySeq DEF Current
  <2>5. content' = Data(m) /\ offset' = 0 /\ spc' = "start"
        /\ UNCHANGED <<stream, parts, rpc, buffer, header, data, got, received, aligned>>
    BY <1>1 DEF SendMessage, recvVars
  <2>6. offset' \in 0..Len(content')
    BY <2>1, <2>5
  <2> QED
    BY <2>1, <2>2, <2>3, <2>4, <2>5, <2>6 DEF Typed
<1>2. ASSUME SendPart PROVE Typed'
  <2>1. Sending
    BY <1>2 DEF SendPart, Sending
  <2>2. /\ stream' = stream \o Part /\ parts' = Append(parts, HeaderSize + PartSize)
        /\ offset' = offset + PartSize /\ spc' = "continue"
        /\ UNCHANGED <<sent, content, rpc, buffer, header, data, got, received, aligned>>
    BY <1>2 DEF SendPart, recvVars
  <2>3. /\ PartSize \in 0..DataSize /\ offset + PartSize \in offset..Len(content)
        /\ stream' \in Seq(Bytes)
    BY <2>1, <2>2, PartWritten
  <2>4. HeaderSize + PartSize \in PartLengths
    BY <1>0, <2>3 DEF PartLengths
  <2>5. parts' \in Seq(PartLengths)
    BY <2>2, <2>4 DEF Typed
  <2>6. offset' \in 0..Len(content)
    <3>1. offset \in 0..Len(content) /\ Len(content) \in Nat
      BY DEF Typed
    <3> QED
      BY <2>2, <2>3, <3>1
  <2>7. sent # <<>> /\ Current' = Current
    BY <2>1, <2>2 DEF Sending, Typed, Current
  <2> QED
    BY <2>2, <2>3, <2>5, <2>6, <2>7 DEF Typed
<1>3. ASSUME SendDone PROVE Typed'
  <2>1. offset = Len(content)
    <3>1. offset \in 0..Len(content) /\ offset >= Len(content) /\ Len(content) \in Nat
      BY <1>3 DEF SendDone, Typed
    <3> QED
      BY <3>1
  <2>2. /\ spc' = "idle"
        /\ UNCHANGED <<sent, content, offset, stream, parts, rpc, buffer, header, data, got,
                       received, aligned>>
    BY <1>3 DEF SendDone, recvVars
  <2> QED
    BY <2>1, <2>2 DEF Typed, Current
<1>4. ASSUME SendFails PROVE Typed'
  BY <1>4, SendFailsIs DEF Typed, Current
<1>5. ASSUME ReceiveMessage PROVE Typed'
  <2>1. rpc' = "first" /\ buffer' = Fresh(HeaderSize + DataSize) /\ header' = NoHeader
        /\ data' = <<>> /\ got' = 0
        /\ UNCHANGED <<sent, spc, content, offset, stream, parts, received, aligned>>
    BY <1>5 DEF ReceiveMessage, sendVars
  <2>2. buffer' \in Seq(Octets) /\ Len(buffer') = HeaderSize + DataSize
    <3> DEFINE size == HeaderSize + DataSize
    <3>1. size \in Nat /\ Unset \in Octets
      BY <1>0 DEF Octets, Unset
    <3> HIDE DEF size
    <3>2. buffer' = [i \in 1..size |-> Unset]
      BY <2>1 DEF Fresh, size
    <3>3. buffer' \in Seq(Octets) /\ Len(buffer') = size
      BY <3>1, <3>2
    <3> QED
      BY <3>3 DEF size
  <2>3. header' \in Headers
    BY <2>1 DEF NoHeader, Headers, Bytes
  <2>4. <<>> \in Seq(Octets)
    OBVIOUS
  <2> QED
    BY <2>1, <2>2, <2>3, <2>4 DEF Typed, Current
<1>6. ASSUME NEW n, Recv(n) PROVE Typed'
  <2>1. /\ rpc \in {"first", "next"} /\ n \in Nat /\ n <= Len(stream)
        /\ n <= HeaderSize + DataSize
        /\ stream' = SubSeq(stream, n + 1, Len(stream)) /\ buffer' = Filled(n)
        /\ aligned' = (aligned /\ parts # <<>> /\ n = Head(parts))
        /\ parts' = (IF parts = <<>> THEN <<>> ELSE Tail(parts))
        /\ \/ rpc' = "failed" /\ UNCHANGED <<header, data, got>>
           \/ TakePart(Filled(n))
        /\ UNCHANGED <<sent, spc, content, offset, received>>
    BY <1>6, RecvIs
  <2>2. /\ Filled(n) \in Seq(Octets) /\ Len(Filled(n)) = HeaderSize + DataSize
        /\ stream' \in Seq(Bytes)
    BY <2>1, FilledIs
  <2>3. /\ header' \in Headers /\ data' \in Seq(Octets) /\ got' \in Nat
        /\ rpc' \in {"next", "done", "undefined", "failed"}
    <3>1. CASE rpc' = "failed" /\ UNCHANGED <<header, data, got>>
      BY <3>1 DEF Typed
    <3>2. CASE TakePart(Filled(n))
      BY <2>1, <2>2, <3>2, TakePartTyped
    <3> QED
      BY <2>1, <3>1, <3>2
  <2>4. parts' \in Seq(PartLengths)
    <3>1. CASE parts = <<>>
      BY <2>1, <3>1 DEF Typed
    <3>2. CASE parts # <<>>
      <4>1. parts \in Seq(PartLengths)
        BY DEF Typed
      <4>2. Tail(parts) \in Seq(PartLengths)
        BY <3>2, <4>1, HeadTailProperties
      <4> QED
        BY <2>1, <3>2, <4>2
    <3> QED
      BY <3>1, <3>2
  <2>5. aligned' \in BOOLEAN
    BY <2>1
  <2>6. rpc' # "first"
    BY <2>3
  <2> QED
    BY <2>1, <2>2, <2>3, <2>4, <2>5, <2>6 DEF Typed, Current
<1>7. ASSUME RecvEnd PROVE Typed'
  BY <1>7 DEF RecvEnd, sendVars, Typed, Current
<1>8. ASSUME RecvFails PROVE Typed'
  <2>1. /\ rpc \in {"first", "next"} /\ aligned' = FALSE /\ TakePart(buffer)
        /\ UNCHANGED <<sent, spc, content, offset, stream, parts, buffer, received>>
    BY <1>8 DEF RecvFails, sendVars
  <2>2. buffer \in Seq(Octets) /\ Len(buffer) = HeaderSize + DataSize
    BY <2>1 DEF Typed
  <2>3. /\ header' \in Headers /\ data' \in Seq(Octets) /\ got' \in Nat
        /\ rpc' \in {"next", "done", "undefined"}
    BY <2>1, <2>2, TakePartTyped
  <2>4. rpc' # "first"
    BY <2>3
  <2> QED
    BY <2>1, <2>2, <2>3, <2>4 DEF Typed, Current
<1>9. ASSUME Return PROVE Typed'
  <2>1. rpc' = "idle" /\ received' = Append(received, [header |-> header, data |-> data])
        /\ UNCHANGED <<sent, spc, content, offset, stream, parts, buffer, header, data, got,
                       aligned>>
    BY <1>9 DEF Return, sendVars
  <2>2. [header |-> header, data |-> data] \in Results
    BY DEF Typed, Results
  <2>3. received' \in Seq(Results)
    BY <2>1, <2>2 DEF Typed
  <2> QED
    BY <2>1, <2>3 DEF Typed, Current
<1>10. CASE UNCHANGED vars
  BY <1>10 DEF vars, sendVars, recvVars, Typed, Current
<1> QED
  BY <1>1, <1>2, <1>3, <1>4, <1>5, <1>6, <1>7, <1>8, <1>9, <1>10 DEF Next, Sender, Receiver

-----------------------------------------------------------------------------
(* Every step keeps the way of the parts.                                  *)

\* Collected looks at nothing else.
LEMMA CollectedStays ==
    ASSUME Typed, Typed', Collected, UNCHANGED <<rpc, header, data, got, received>>,
           Len(sent) <= Len(sent'), \A i \in 1..Len(sent) : sent'[i] = sent[i]
    PROVE  Collected'
<1>1. Len(sent) \in Nat /\ Len(sent') \in Nat /\ Len(received) \in Nat /\ Len(received) <= Len(sent)
  BY DEF Typed, Collected
<1>2. ASSUME NEW i \in 1..Len(received)
      PROVE  /\ Answers(received[i].header, received[i].data, sent[i], Len(Data(sent[i])))
             /\ sent'[i] = sent[i]
  <2>1. i \in 1..Len(sent)
    BY <1>1
  <2> QED
    BY <2>1 DEF Collected
<1>3. ASSUME rpc \in {"next", "done"}
      PROVE  /\ Len(received) < Len(sent)
             /\ Answers(header, data, sent[Len(received) + 1],
                        IF rpc = "next" THEN got ELSE Len(data))
             /\ sent'[Len(received) + 1] = sent[Len(received) + 1]
  <2>1. Len(received) < Len(sent)
    BY <1>3 DEF Collected
  <2>2. Len(received) + 1 \in 1..Len(sent)
    BY <1>1, <2>1
  <2> QED
    BY <1>3, <2>1, <2>2 DEF Collected
<1>4. \A i \in 1..Len(received') :
         Answers(received'[i].header, received'[i].data, sent'[i], Len(Data(sent'[i])))
  BY <1>2
<1>5. rpc' \in {"next", "done"} =>
         /\ Len(received') < Len(sent')
         /\ Answers(header', data', sent'[Len(received') + 1],
                    IF rpc' = "next" THEN got' ELSE Len(data'))
  BY <1>1, <1>3
<1>6. rpc' = "next" => got' < Len(data')
  BY DEF Collected
<1> QED
  BY <1>1, <1>4, <1>5, <1>6 DEF Collected

\* The sender adds at one end ...
LEMMA SentKept ==
    ASSUME Typed, Typed', Moving,
           (\E m \in Messages : SendMessage(m)) \/ SendPart \/ SendDone \/ SendFails
    PROVE  Moving'
<1> SUFFICES ASSUME aligned' PROVE Collected' /\ rpc' # "undefined" /\ (rpc' # "failed" => Chained')
  BY DEF Moving
<1>1. UNCHANGED <<rpc, header, data, got, received, aligned>>
  BY SendFailsIs DEF SendMessage, SendPart, SendDone, recvVars
<1>2. Collected /\ rpc # "undefined" /\ (rpc # "failed" => Chained)
  BY <1>1 DEF Moving
<1>3. /\ sent \in Seq(Messages) /\ sent' \in Seq(Messages)
      /\ Len(sent) \in Nat /\ Len(sent') \in Nat
      /\ stream \in Seq(Bytes) /\ stream' \in Seq(Bytes) /\ parts \in Seq(PartLengths)
      /\ Len(stream) \in Nat /\ Len(stream') \in Nat
      /\ Len(parts) \in Nat /\ Len(content) \in Nat /\ offset \in 0..Len(content)
  BY DEF Typed
<1>4. Len(sent) <= Len(sent') /\ \A i \in 1..Len(sent) : sent'[i] = sent[i]
  <2>1. CASE \E m \in Messages : SendMessage(m)
    <3>1. PICK m \in Messages : sent' = Append(sent, m)
      BY <2>1 DEF SendMessage
    <3> QED
      BY <1>3, <3>1
  <2>2. CASE SendPart \/ SendDone \/ SendFails
    <3>1. sent' = sent
      BY <2>2, SendFailsIs DEF SendPart, SendDone
    <3> QED
      BY <1>3, <3>1
  <2> QED
    BY <2>1, <2>2
<1>5. Len(stream) <= Len(stream') /\ \A i \in 1..Len(stream) : stream'[i] = stream[i]
  <2>1. CASE SendPart
    <3>1. Sending /\ stream' = stream \o Part
      BY <2>1 DEF SendPart, Sending
    <3>2. /\ Len(stream') = Len(stream) + Len(Part) /\ Part \in Seq(Bytes)
          /\ \A i \in 1..Len(stream) : stream'[i] = stream[i]
      BY <3>1, PartWritten
    <3>3. Len(Part) \in Nat
      BY <3>2
    <3> QED
      BY <1>3, <3>2, <3>3
  <2>2. CASE SendFails
    BY <2>2, SendFailsIs
  <2>3. CASE (\E m \in Messages : SendMessage(m)) \/ SendDone
    <3>1. stream' = stream
      BY <2>3 DEF SendMessage, SendDone
    <3> QED
      BY <1>3, <3>1
  <2> QED
    BY <2>1, <2>2, <2>3
<1>6. Collected'
  BY <1>1, <1>2, <1>4, CollectedStays
<1>7. ASSUME rpc # "failed" PROVE Chained'
  <2>1. PICK q : /\ IsChain(q, parts, sent, stream) /\ q[1] = ToReceive
                 /\ spc # "failed" => q[Len(parts) + 1] = ToSend
    BY <1>2, <1>7 DEF Chained
  <2>2. IsChain(q, parts, sent', stream')
    BY <1>3, <1>4, <1>5, <2>1, ChainKept
  <2>3. ToReceive' = ToReceive
    BY <1>1 DEF ToReceive
  <2>4. CASE \E m \in Messages : SendMessage(m)
    <3>1. PICK m \in Messages : SendMessage(m)
      BY <2>4
    <3>2. /\ spc = "idle" /\ spc' = "start" /\ offset' = 0 /\ stream' = stream /\ parts' = parts
          /\ Len(sent') = Len(sent) + 1
      BY <1>3, <3>1 DEF SendMessage
    <3>3. offset = Len(content)
      BY <3>2 DEF Typed
    <3>4. ToSend' = ToSend
      BY <1>3, <3>2, <3>3 DEF ToSend
    <3> QED
      BY <2>1, <2>2, <2>3, <3>2, <3>4 DEF Chained
  <2>5. CASE SendDone
    <3>1. /\ spc = "continue" /\ offset >= Len(content) /\ spc' = "idle"
          /\ UNCHANGED <<sent, content, offset, stream, parts>>
      BY <2>5 DEF SendDone
    <3>2. ToSend' = ToSend
      BY <3>1 DEF ToSend
    <3> QED
      BY <2>1, <2>2, <2>3, <3>1, <3>2 DEF Chained
  <2>6. CASE SendFails
    <3>1. spc' = "failed" /\ parts' = parts
      BY <2>6, SendFailsIs
    <3> QED
      BY <2>1, <2>2, <2>3, <3>1 DEF Chained
  <2>7. CASE SendPart
    <3>1. /\ Sending /\ spc # "failed" /\ stream' = stream \o Part /\ spc' = "continue"
          /\ parts' = Append(parts, HeaderSize + PartSize) /\ offset' = offset + PartSize
          /\ UNCHANGED <<sent, content>>
      BY <2>7 DEF SendPart, Sending
    <3> DEFINE p == ToSend
    <3>2. /\ p \in Spots /\ p.msg = Len(sent) /\ p.at = offset /\ p.begin = Len(stream)
          /\ Length(p, sent) = Len(content) /\ Piece(p, sent) = PartSize
          /\ PartSize \in 0..DataSize /\ offset + PartSize \in offset..Len(content)
          /\ Len(Part) = HeaderSize + PartSize /\ Len(stream') = Len(stream) + Len(Part)
          /\ IsPart(p, sent', stream')
      BY <3>1, PartWritten
    <3>3. q[Len(parts) + 1] = p /\ sent' = sent
      BY <2>1, <3>1
    <3> HIDE DEF p
    <3>4. Successor(p, sent') =
            [msg |-> IF offset' < Len(content) THEN Len(sent) ELSE Len(sent) + 1,
             at |-> IF offset' < Len(content) THEN offset' ELSE 0,
             begin |-> Len(stream) + HeaderSize + PartSize]
      BY <3>1, <3>2 DEF Successor
    <3>5. PartSize \in Nat /\ Len(stream) + HeaderSize + PartSize = Len(stream')
      BY <1>3, <3>2, TransferAssumption DEF HeaderSize
    <3>6. Successor(p, sent') = ToSend'
      BY <3>1, <3>4, <3>5 DEF ToSend
    <3>7. Successor(p, sent').begin <= Len(stream')
      BY <1>3, <3>4, <3>5
    <3>8. Piece(p, sent') = PartSize
      BY <3>2, <3>3
    <3>9. PICK q2 : /\ IsChain(q2, parts', sent', stream') /\ q2[1] = q[1]
                    /\ q2[Len(parts') + 1] = Successor(p, sent')
      <4> DEFINE more == Append(parts, HeaderSize + Piece(p, sent'))
      <4>1. IsPart(q[Len(parts) + 1], sent', stream')
        BY <3>2, <3>3
      <4>2. Successor(q[Len(parts) + 1], sent').begin <= Len(stream')
        BY <3>3, <3>7
      <4>3. \E q2 : /\ IsChain(q2, more, sent', stream') /\ q2[1] = q[1]
                    /\ q2[Len(more) + 1] = Successor(p, sent')
        BY <1>3, <2>2, <3>3, <4>1, <4>2, ChainGrows
      <4>4. parts' = more
        BY <3>1, <3>8
      <4> QED
        BY <4>3, <4>4
    <3> QED
      BY <2>1, <2>3, <3>6, <3>9 DEF Chained
  <2> QED
    BY <2>4, <2>5, <2>6, <2>7
<1> QED
  BY <1>1, <1>2, <1>6, <1>7

\* ... and the receiver takes from the other: with one part of the message it
\* waits for, what it has is that much more.
LEMMA TakePartIs ==
    ASSUME Typed, Collected, rpc \in {"first", "next"}, NEW p \in Spots, p = ToReceive,
           NEW piece, piece = Piece(p, sent), IsPart(p, sent, stream),
           NEW bytes \in Seq(Octets), Len(bytes) = HeaderSize + DataSize,
           HeaderSize + piece <= Len(stream),
           \A i \in 1..HeaderSize + piece : bytes[i] = stream[i],
           TakePart(bytes)
    PROVE  LET m == sent[p.msg]
               end == p.at + piece
           IN  /\ rpc' = IF end < Len(Data(m)) THEN "next" ELSE "done"
               /\ got' = end /\ end <= Len(Data(m)) /\ Answers(header', data', m, end)
<1> DEFINE m == sent[p.msg]
           c == Data(m)
           end == p.at + piece
           h == HeaderOf(bytes)
           size == IF rpc = "first" THEN h.dataSize ELSE Len(data)
           nothing == rpc = "first" /\ size = 0
           bad == \/ Unset \in {bytes[i] : i \in 1..HeaderSize}
                  \/ size > MaxData \/ ~(nothing \/ Fits(h, size))
           into == IF rpc = "first" THEN Fresh(size) ELSE data
<1>1. /\ sent \in Seq(Messages) /\ data \in Seq(Octets) /\ got \in Nat /\ stream \in Seq(Bytes)
      /\ Len(data) \in Nat /\ Len(stream) \in Nat /\ (rpc = "first" => got = 0)
  BY DEF Typed
<1>2. /\ p.msg = Len(received) + 1 /\ p.begin = 0 /\ p.at = got /\ p.at \in Nat
  BY <1>1 DEF ToReceive
<1>3. /\ p.msg \in 1..Len(sent) /\ (p.at < Length(p, sent) \/ p.at = 0) /\ Length(p, sent) = Len(c)
  BY DEF IsPart, Length
<1>4. /\ m \in Messages /\ Len(c) \in Nat /\ piece \in 0..DataSize /\ end \in p.at..Len(c)
      /\ (end = p.at <=> Len(c) = 0)
  BY <1>1, <1>3, PieceIs
<1>5. Len(c) <= MaxData /\ c \in Seq(Bytes) /\ DataSize \in Nat /\ MaxData \in Nat
  BY <1>4, MessagesAre, TransferAssumption, Widths DEF Longs
<1> HIDE DEF c, m
<1>6. /\ stream[3] = m.cmd /\ stream[4] = m.sub /\ GetULong(stream, 10) = Len(c)
      /\ GetULong(stream, 14) = piece /\ GetULong(stream, 18) = p.at
      /\ \A i \in 1..piece : stream[HeaderSize + i] = c[p.at + i]
  <2>1. /\ stream[0 + 3] = m.cmd /\ stream[0 + 4] = m.sub
        /\ GetULong(stream, 0 + 10) = Length(p, sent)
        /\ GetULong(stream, 0 + 14) = Piece(p, sent) /\ GetULong(stream, 0 + 18) = p.at
        /\ \A i \in 1..Piece(p, sent) : stream[0 + HeaderSize + i] = Data(sent[p.msg])[p.at + i]
    BY <1>2 DEF IsPart, m
  <2>2. /\ 0 + 3 = 3 /\ 0 + 4 = 4 /\ 0 + 10 = 10 /\ 0 + 14 = 14 /\ 0 + 18 = 18
        /\ 0 + HeaderSize = HeaderSize
    BY DEF HeaderSize
  <2>3. Data(sent[p.msg]) = c
    BY DEF c, m
  <2> QED
    BY <1>3, <2>1, <2>2, <2>3
<1>7. \A i \in 1..22 + piece : bytes[i] = stream[i]
  BY DEF HeaderSize
<1>8. h = [cmd |-> m.cmd, sub |-> m.sub, dataSize |-> Len(c), partSize |-> piece, offset |-> p.at]
  <2>1. bytes[3] = stream[3] /\ bytes[4] = stream[4]
    BY <1>4, <1>5, <1>7
  <2>2. ASSUME NEW at \in {10, 14, 18} PROVE GetULong(bytes, at) = GetULong(stream, at)
    <3>1. \A i \in 1..4 : at + i \in 1..22 + piece
      BY <1>4, <1>5
    <3>2. \A i \in 1..4 : bytes[at + i] = stream[at + i]
      BY <1>7, <3>1
    <3>3. at \in Nat
      OBVIOUS
    <3> QED
      BY <3>2, <3>3, SameNumber
  <2>3. 10 \in {10, 14, 18} /\ 14 \in {10, 14, 18} /\ 18 \in {10, 14, 18}
    OBVIOUS
  <2>4. /\ GetULong(bytes, 10) = GetULong(stream, 10) /\ GetULong(bytes, 14) = GetULong(stream, 14)
        /\ GetULong(bytes, 18) = GetULong(stream, 18)
    BY <2>2, <2>3
  <2> QED
    BY <1>6, <2>1, <2>4 DEF HeaderOf
<1>9. /\ h.dataSize = Len(c) /\ h.partSize = piece /\ h.offset = p.at
      /\ h.cmd = m.cmd /\ h.sub = m.sub
  BY <1>8
<1> HIDE DEF h
<1>10. rpc = "next" => /\ Answers(header, data, m, p.at)
                       /\ Len(data) = Len(c) /\ header.dataSize = Len(c)
  BY <1>2, <1>9 DEF Collected, Answers, m, c
<1>11. size = Len(c)
  BY <1>9, <1>10
<1>12. ~bad
  <2>1. Unset \notin {bytes[i] : i \in 1..HeaderSize}
    <3>0. piece \in Nat /\ 22 + piece <= Len(stream)
      BY <1>4, <1>5 DEF HeaderSize
    <3>1. \A i \in 1..22 : i \in 1..22 + piece /\ i \in 1..Len(stream)
      BY <1>1, <3>0
    <3>2. ASSUME NEW i \in 1..22 PROVE bytes[i] = stream[i] /\ stream[i] \in Bytes
      <4>1. i \in 1..22 + piece /\ i \in 1..Len(stream)
        BY <3>1
      <4> QED
        BY <1>1, <1>7, <4>1
    <3>3. \A x \in Bytes : x # Unset
      BY DEF Bytes, Unset
    <3> QED
      BY <3>2, <3>3 DEF HeaderSize
  <2>2. Fits(h, size)
    <3>1. HeaderSize + piece <= HeaderSize + DataSize
      BY <1>4, <1>5 DEF HeaderSize
    <3>2. p.at + piece <= Len(c)
      BY <1>2, <1>4
    <3> QED
      BY <1>9, <1>11, <3>1, <3>2 DEF Fits
  <2>3. ~(size > MaxData)
    BY <1>4, <1>5, <1>11
  <2> HIDE DEF size
  <2> QED
    BY <2>1, <2>2, <2>3
<1>13. /\ header' = (IF rpc = "first" THEN h ELSE header)
       /\ data' = Copy(h, into, bytes) /\ got' = (IF nothing THEN 0 ELSE got + h.partSize)
       /\ rpc' = IF Misses(header', got') THEN "next" ELSE "done"
  BY <1>12 DEF TakePart, h
<1> HIDE DEF bad
<1>14. got' = end
  <2>1. CASE nothing
    <3>1. end = 0
      BY <1>1, <1>2, <1>4, <1>11, <2>1
    <3> QED
      BY <1>13, <2>1, <3>1
  <2>2. CASE ~nothing
    BY <1>2, <1>9, <1>13, <2>2
  <2> QED
    BY <2>1, <2>2
<1>15. header'.dataSize = Len(c) /\ header'.cmd = m.cmd /\ header'.sub = m.sub
  BY <1>9, <1>10, <1>13 DEF Answers
<1>16. rpc' = IF end < Len(c) THEN "next" ELSE "done"
  <2>1. Misses(header', got') <=> end < Len(c)
    BY <1>14, <1>15 DEF Misses
  <2> QED
    BY <1>13, <2>1
<1>17. into \in Seq(Octets) /\ Len(into) = Len(c) /\ \A i \in 1..p.at : into[i] = c[i]
  <2>1. CASE rpc = "first"
    <3>1. into = [i \in 1..Len(c) |-> Unset]
      BY <1>11, <2>1 DEF Fresh
    <3>2. Unset \in Octets
      BY DEF Unset, Octets
    <3> HIDE DEF into
    <3>3. into \in Seq(Octets) /\ Len(into) = Len(c)
      BY <1>4, <3>1, <3>2
    <3>4. p.at = 0
      BY <1>1, <1>2, <2>1
    <3> QED
      BY <3>3, <3>4
  <2>2. CASE rpc = "next"
    <3>1. into = data /\ Answers(header, data, m, p.at) /\ Len(data) = Len(c)
      BY <1>10, <2>2
    <3> QED
      BY <1>1, <3>1 DEF Answers, c
  <2> QED
    BY <2>1, <2>2
<1> HIDE DEF into
<1>18. data' = [i \in 1..Len(c) |-> IF i - p.at \in 1..piece THEN bytes[HeaderSize + i - p.at]
                                    ELSE into[i]]
  <2>1. DOMAIN into = 1..Len(c)
    BY <1>17
  <2> QED
    BY <1>9, <1>13, <2>1 DEF Copy
<1>19. Len(data') = Len(c)
  <2>1. data' \in Seq(Octets)
    BY TakePartTyped
  <2>2. DOMAIN data' = 1..Len(c) /\ DOMAIN data' = 1..Len(data') /\ Len(data') \in Nat
    BY <1>18, <2>1
  <2> QED
    BY <1>4, <2>2
<1>20. ASSUME NEW i \in 1..end PROVE data'[i] = c[i]
  <2>1. i \in 1..Len(c) /\ p.at \in Nat /\ piece \in Nat
    BY <1>2, <1>4, <1>5
  <2>2. CASE i <= p.at
    <3>1. ~(i - p.at \in 1..piece) /\ i \in 1..p.at
      BY <2>1, <2>2
    <3>2. data'[i] = into[i]
      BY <1>18, <2>1, <3>1
    <3> QED
      BY <1>17, <3>1, <3>2
  <2>3. CASE i > p.at
    <3> DEFINE k == i - p.at
    <3>1. k \in 1..piece /\ p.at + k = i /\ HeaderSize + i - p.at = HeaderSize + k
          /\ HeaderSize + k \in 1..22 + piece
      BY <2>1, <2>3 DEF HeaderSize
    <3>2. data'[i] = bytes[HeaderSize + k]
      BY <1>18, <2>1, <3>1
    <3> HIDE DEF k
    <3>3. bytes[HeaderSize + k] = stream[HeaderSize + k] /\ stream[HeaderSize + k] = c[p.at + k]
      BY <1>6, <1>7, <3>1
    <3> QED
      BY <3>1, <3>2, <3>3
  <2> QED
    BY <2>1, <2>2, <2>3
<1>21. end \in 0..Len(c) /\ end <= Len(c)
  BY <1>2, <1>4
<1>22. Answers(header', data', m, end)
  BY <1>15, <1>19, <1>20, <1>21 DEF Answers, c
<1> QED
  BY <1>14, <1>16, <1>21, <1>22 DEF m, c

\* What is on its way is in sequences, and these have lengths.
LEMMA TypedLengths ==
    ASSUME Typed
    PROVE  /\ sent \in Seq(Messages) /\ stream \in Seq(Bytes) /\ parts \in Seq(PartLengths)
           /\ Len(received) \in Nat /\ Len(parts) \in Nat /\ Len(stream) \in Nat /\ Len(sent) \in Nat
<1>1. /\ sent \in Seq(Messages) /\ stream \in Seq(Bytes) /\ parts \in Seq(PartLengths)
      /\ received \in Seq(Results)
  BY DEF Typed
<1> QED
  BY <1>1, LenProperties

\* The receiver takes a part off the other end, and nothing else.
LEMMA RecvKept ==
    ASSUME Typed, Typed', Moving, NEW n, Recv(n)
    PROVE  Moving'
<1> SUFFICES ASSUME aligned' PROVE Collected' /\ rpc' # "undefined" /\ (rpc' # "failed" => Chained')
  BY DEF Moving
<1>1. /\ rpc \in {"first", "next"} /\ n \in Nat /\ n <= Len(stream) /\ n <= HeaderSize + DataSize
      /\ stream' = SubSeq(stream, n + 1, Len(stream))
      /\ aligned /\ parts # <<>> /\ n = Head(parts) /\ parts' = Tail(parts)
      /\ (~(n < HeaderSize) => TakePart(Filled(n)))
      /\ UNCHANGED <<sent, spc, content, offset, received>>
  BY RecvIs
<1>2. Collected /\ Chained
  BY <1>1 DEF Moving
<1>3. PICK q : /\ IsChain(q, parts, sent, stream) /\ q[1] = ToReceive
               /\ spc # "failed" => q[Len(parts) + 1] = ToSend
  BY <1>2 DEF Chained
<1>4. /\ sent \in Seq(Messages) /\ stream \in Seq(Bytes) /\ parts \in Seq(PartLengths)
      /\ Len(received) \in Nat /\ Len(parts) \in Nat /\ Len(stream) \in Nat /\ Len(sent) \in Nat
  BY TypedLengths
<1>5. 1 \in 1..Len(parts) /\ n = parts[1]
  <2>1. Len(parts) # 0 /\ Head(parts) = parts[1]
    BY <1>1, <1>4, EmptySeq
  <2> QED
    BY <1>1, <1>4, <2>1
<1> DEFINE p == q[1]
           piece == Piece(p, sent)
           m == sent[p.msg]
           end == p.at + piece
<1>6. /\ p \in Spots /\ piece \in 0..DataSize /\ IsPart(p, sent, stream)
      /\ p.begin + HeaderSize + piece <= Len(stream) /\ n = HeaderSize + piece
  <2>1. parts[1] = HeaderSize + piece
    BY <1>3, <1>5 DEF IsChain
  <2> QED
    BY <1>3, <1>4, <1>5, <2>1, PartsInside
<1>7. p = ToReceive /\ p.msg = Len(received) + 1 /\ p.begin = 0 /\ p.at \in Nat
  <2>1. p = ToReceive
    BY <1>3
  <2>2. p.at \in Nat
    BY <1>6 DEF Spots
  <2> HIDE DEF p
  <2> QED
    BY <1>1, <2>1, <2>2 DEF ToReceive
<1>8. DataSize \in Nat /\ HeaderSize = 22 /\ piece \in Nat
  BY <1>6, TransferAssumption DEF HeaderSize
<1> HIDE DEF p, piece, m, end
<1>9. /\ Filled(n) \in Seq(Octets) /\ Len(Filled(n)) = HeaderSize + DataSize
      /\ \A i \in 1..HeaderSize + piece : Filled(n)[i] = stream[i]
  BY <1>1, <1>6, FilledIs
<1>10. HeaderSize + piece <= Len(stream) /\ TakePart(Filled(n))
  BY <1>1, <1>6, <1>8
<1>11. /\ rpc' = (IF end < Len(Data(m)) THEN "next" ELSE "done")
       /\ got' = end /\ end <= Len(Data(m)) /\ Answers(header', data', m, end)
  BY <1>1, <1>2, <1>6, <1>7, <1>9, <1>10, TakePartIs DEF end, m, piece
<1>12. p.msg \in 1..Len(sent) /\ m \in Messages /\ Len(Data(m)) \in Nat /\ end \in Nat
       /\ Length(p, sent) = Len(Data(m))
  <2>1. p.msg \in 1..Len(sent)
    BY <1>6 DEF IsPart
  <2>2. m \in Messages
    BY <1>4, <2>1 DEF m
  <2> QED
    BY <1>7, <1>8, <2>1, <2>2, MessagesAre DEF end, Length, m
<1>13. Collected'
  <2>1. \A i \in 1..Len(received') :
           Answers(received'[i].header, received'[i].data, sent'[i], Len(Data(sent'[i])))
    BY <1>1, <1>2 DEF Collected
  <2>2. Len(received') < Len(sent') /\ sent'[Len(received') + 1] = m
    BY <1>1, <1>4, <1>7, <1>12 DEF m
  <2>3. Len(data') = Len(Data(m))
    BY <1>11 DEF Answers
  <2>4. Answers(header', data', m, IF rpc' = "next" THEN got' ELSE Len(data'))
    BY <1>11, <1>12, <2>3
  <2>5. rpc' = "next" => got' < Len(data')
    BY <1>11, <2>3
  <2> QED
    BY <1>1, <1>4, <2>1, <2>2, <2>4, <2>5 DEF Collected
<1>14. rpc' # "undefined"
  BY <1>11
<1>15. Chained'
  <2>1. PICK q2 : /\ IsChain(q2, parts', sent, stream')
                  /\ q2[1] = [Successor(p, sent) EXCEPT !.begin = 0]
                  /\ q2[Len(parts') + 1] = [q[Len(parts) + 1] EXCEPT !.begin = @ - n]
    <3> DEFINE rest == SubSeq(stream, parts[1] + 1, Len(stream))
    <3>1. \E q2 : /\ IsChain(q2, Tail(parts), sent, rest)
                  /\ q2[1] = [Successor(q[1], sent) EXCEPT !.begin = 0]
                  /\ q2[Len(Tail(parts)) + 1] =
                        [q[Len(parts) + 1] EXCEPT !.begin = @ - parts[1]]
      <4>1. parts # <<>> /\ IsChain(q, parts, sent, stream)
        BY <1>1, <1>3
      <4>2. sent \in Seq(Messages) /\ stream \in Seq(Bytes) /\ parts \in Seq(PartLengths)
        BY <1>4
      <4> QED
        BY <4>1, <4>2, ChainShortens
    <3>2. rest = stream' /\ Tail(parts) = parts' /\ parts[1] = n
      BY <1>1, <1>5
    <3> QED
      BY <3>1, <3>2 DEF p
  <2>2. Len(stream') = Len(stream) - n
    BY <1>1, FilledIs
  <2>3. q2[1] = ToReceive'
    <3>1. Successor(p, sent) = [msg |-> IF end < Len(Data(m)) THEN p.msg ELSE p.msg + 1,
                                at |-> IF end < Len(Data(m)) THEN end ELSE 0,
                                begin |-> p.begin + HeaderSize + piece]
      BY <1>12 DEF Successor, end, piece
    <3>2. received' = received
      BY <1>1
    <3>3. CASE end < Len(Data(m))
      <4>1. rpc' = "next" /\ got' = end
        BY <1>11, <3>3
      <4>2. Successor(p, sent) = [msg |-> p.msg, at |-> end, begin |-> p.begin + HeaderSize + piece]
        BY <3>1, <3>3
      <4>3. q2[1] = [msg |-> p.msg, at |-> end, begin |-> 0]
        BY <2>1, <4>2
      <4>4. ToReceive' = [msg |-> Len(received) + 1, at |-> end, begin |-> 0]
        BY <3>2, <4>1 DEF ToReceive
      <4> QED
        BY <1>7, <4>3, <4>4
    <3>4. CASE ~(end < Len(Data(m)))
      <4>1. rpc' = "done" /\ Len(received) + 1 + 1 = Len(received) + 2
        BY <1>4, <1>11, <3>4
      <4>2. Successor(p, sent) = [msg |-> p.msg + 1, at |-> 0, begin |-> p.begin + HeaderSize + piece]
        BY <3>1, <3>4
      <4>3. q2[1] = [msg |-> p.msg + 1, at |-> 0, begin |-> 0]
        BY <2>1, <4>2
      <4>4. ToReceive' = [msg |-> Len(received) + 2, at |-> 0, begin |-> 0]
        BY <3>2, <4>1 DEF ToReceive
      <4> QED
        BY <1>7, <4>1, <4>3, <4>4
    <3> QED
      BY <3>3, <3>4
  <2>4. ASSUME spc' # "failed" PROVE q2[Len(parts') + 1] = ToSend'
    <3>1. q[Len(parts) + 1] = ToSend
      BY <1>1, <1>3, <2>4
    <3>2. ToSend' = [ToSend EXCEPT !.begin = @ - n]
      <4>1. /\ sent' = sent /\ spc' = spc /\ content' = content /\ offset' = offset
            /\ Len(stream') = Len(stream) - n
        BY <1>1, <2>2
      <4>2. ToSend' = [msg   |-> ToSend.msg, at |-> ToSend.at, begin |-> Len(stream) - n]
        BY <4>1 DEF ToSend
      <4> QED
        BY <4>2 DEF ToSend
    <3> QED
      BY <2>1, <3>1, <3>2
  <2> QED
    BY <1>1, <2>1, <2>3, <2>4 DEF Chained
<1> QED
  BY <1>13, <1>14, <1>15

\* No step breaks the way of the parts.
LEMMA MovingKept ==
    ASSUME Typed, Typed', Moving, [Next]_vars
    PROVE  Moving'
<1>1. CASE (\E m \in Messages : SendMessage(m)) \/ SendPart \/ SendDone \/ SendFails
  BY <1>1, SentKept
<1>2. CASE \E n \in 1..(HeaderSize + DataSize) : Recv(n)
  BY <1>2, RecvKept
<1>3. CASE ReceiveMessage
  <2>1. /\ rpc = "idle" /\ aligned /\ rpc' = "first"
        /\ UNCHANGED <<sent, spc, content, offset, stream, parts, received, aligned>>
    BY <1>3 DEF ReceiveMessage, sendVars
  <2>2. Collected /\ Chained
    BY <2>1 DEF Moving
  <2>3. Collected'
    BY <2>1, <2>2 DEF Collected
  <2>4. ToReceive' = ToReceive /\ ToSend' = ToSend
    BY <2>1 DEF ToReceive, ToSend
  <2>5. Chained'
    BY <2>1, <2>2, <2>4 DEF Chained
  <2> QED
    BY <2>1, <2>3, <2>5 DEF Moving
<1>4. CASE RecvEnd
  <2>1. /\ rpc' = "failed" /\ UNCHANGED <<sent, received, aligned>>
    BY <1>4 DEF RecvEnd, sendVars
  <2>2. aligned => Collected
    BY DEF Moving
  <2>3. aligned => Collected'
    BY <2>1, <2>2 DEF Collected
  <2> QED
    BY <2>1, <2>3 DEF Moving
<1>5. CASE RecvFails
  BY <1>5 DEF RecvFails, Moving
<1>6. CASE Return
  <2>1. /\ rpc = "done" /\ rpc' = "idle"
        /\ received' = Append(received, [header |-> header, data |-> data])
        /\ UNCHANGED <<sent, spc, content, offset, stream, parts, header, data, got, aligned>>
    BY <1>6 DEF Return, sendVars
  <2> SUFFICES ASSUME aligned PROVE Collected' /\ Chained'
    BY <2>1 DEF Moving
  <2>2. Collected /\ Chained
    BY <2>1 DEF Moving
  <2> DEFINE r == [header |-> header, data |-> data]
             n == Len(received)
  <2>3. /\ received \in Seq(Results) /\ n \in Nat /\ Len(sent) \in Nat /\ n < Len(sent)
    BY <2>1, <2>2 DEF Typed, Collected
  <2>4. received' = Append(received, r) /\ r \in Results
    BY <2>1 DEF Typed, Results
  <2>5. r.header = header /\ r.data = data
    OBVIOUS
  <2>6. /\ Len(data) = Len(Data(sent[n + 1]))
        /\ Answers(header, data, sent[n + 1], Len(Data(sent[n + 1])))
    BY <2>1, <2>2 DEF Collected, Answers
  <2> HIDE DEF r
  <2>7. Len(received') = n + 1 /\ received'[n + 1] = r /\ \A i \in 1..n : received'[i] = received[i]
    BY <2>3, <2>4, AppendProperties
  <2> HIDE DEF n
  <2>8. ASSUME NEW i \in 1..n + 1
        PROVE  Answers(received'[i].header, received'[i].data, sent[i], Len(Data(sent[i])))
    <3>1. CASE i \in 1..n
      BY <2>2, <2>7, <3>1 DEF Collected, n
    <3>2. CASE i = n + 1
      BY <2>5, <2>6, <2>7, <3>2
    <3> QED
      BY <2>3, <3>1, <3>2
  <2>9. Collected'
    BY <2>1, <2>3, <2>7, <2>8 DEF Collected
  <2>10. ToReceive' = ToReceive
    <3>1. n + 1 + 1 = n + 2
      BY <2>3
    <3> QED
      BY <2>1, <2>7, <3>1 DEF ToReceive, n
  <2>11. ToSend' = ToSend
    BY <2>1 DEF ToSend
  <2>12. Chained'
    BY <2>1, <2>2, <2>10, <2>11 DEF Chained
  <2> QED
    BY <2>9, <2>12
<1>7. CASE UNCHANGED vars
  <2>1. UNCHANGED <<sent, spc, content, offset, stream, parts, rpc, header, data, got, received,
                    aligned>>
    BY <1>7 DEF vars, sendVars, recvVars
  <2>2. Collected => Collected'
    BY <2>1 DEF Collected
  <2>3. ToReceive' = ToReceive /\ ToSend' = ToSend
    BY <2>1 DEF ToReceive, ToSend
  <2>4. Chained => Chained'
    BY <2>1, <2>3 DEF Chained
  <2> QED
    BY <2>1, <2>2, <2>4 DEF Moving
<1> QED
  BY <1>1, <1>2, <1>3, <1>4, <1>5, <1>6, <1>7 DEF Next, Sender, Receiver

\* It holds before the first step.
LEMMA InitHolds == Init => TransferInv
<1> SUFFICES ASSUME Init PROVE TransferInv
  OBVIOUS
<1>1. /\ sent = <<>> /\ spc = "idle" /\ content = <<>> /\ offset = 0
      /\ stream = <<>> /\ parts = <<>>
      /\ rpc = "idle" /\ header = NoHeader /\ data = <<>> /\ got = 0
      /\ received = <<>> /\ aligned = TRUE
  BY DEF Init
<1>2. /\ <<>> \in Seq(Messages) /\ <<>> \in Seq(Bytes) /\ <<>> \in Seq(PartLengths)
      /\ <<>> \in Seq(Octets) /\ <<>> \in Seq(Results) /\ Len(<<>>) = 0
  OBVIOUS
<1>3. NoHeader \in Headers
  BY DEF NoHeader, Headers, Bytes
<1>4. MaxMessages \in Nat /\ MaxData \in Nat
  BY TransferAssumption, Widths DEF Longs
<1>5. Typed
  BY <1>1, <1>2, <1>3, <1>4 DEF Typed
<1>6. Collected
  BY <1>1, <1>2 DEF Collected
<1>7. ToReceive = [msg |-> 1, at |-> 0, begin |-> 0] /\ ToSend = [msg |-> 1, at |-> 0, begin |-> 0]
  BY <1>1, <1>2 DEF ToReceive, ToSend
<1>8. Chained
  <2> DEFINE spot == [msg |-> 1, at |-> 0, begin |-> 0]
             q == [k \in 1..0 + 1 |-> spot]
  <2>1. spot \in Spots
    BY DEF Spots
  <2>2. 1 \in 1..0 + 1 /\ 0 + 1 = 1
    OBVIOUS
  <2>3. q \in [1..0 + 1 -> Spots] /\ q[1] = spot /\ q[0 + 1] = spot /\ spot.begin = 0
    BY <2>1, <2>2
  <2>4. q[1].begin = 0 /\ q[0 + 1].begin <= 0
    BY <2>3
  <2> HIDE DEF q, spot
  <2>5. IsChain(q, parts, sent, stream)
    <3>1. Len(parts) = 0 /\ Len(stream) = 0
      BY <1>1, <1>2
    <3> QED
      BY <2>3, <2>4, <3>1 DEF IsChain
  <2>6. q[1] = ToReceive /\ q[Len(parts) + 1] = ToSend
    BY <1>1, <1>2, <1>7, <2>3 DEF spot
  <2> QED
    BY <2>5, <2>6 DEF Chained
<1> QED
  BY <1>1, <1>5, <1>6, <1>8 DEF TransferInv, Moving

\* The inductive invariant: between receiver and sender is a chain of parts, each of
\* which goes on in its message where the one before it has ended.
THEOREM TransferInvHolds == Spec => []TransferInv
<1>1. TransferInv /\ [Next]_vars => TransferInv'
  BY TypedKept, MovingKept DEF TransferInv
<1> QED
  BY InitHolds, <1>1, PTL DEF Spec

\* The state has its types; in particular no part in the stream is longer than the
\* buffer that recv() fills (CIDBMSG_DATA_SIZE and a header).
THEOREM TypeCorrect == Spec => []TypeOK
<1>1. TransferInv => TypeOK
  <2> SUFFICES ASSUME Typed PROVE TypeOK
    BY DEF TransferInv
  <2>1. /\ \A i \in DOMAIN stream : stream[i] \in Bytes
        /\ \A i \in DOMAIN parts : parts[i] \in HeaderSize..(HeaderSize + DataSize)
        /\ \A i \in DOMAIN data : data[i] \in Unset..255
    <3>1. stream \in Seq(Bytes) /\ parts \in Seq(PartLengths) /\ data \in Seq(Octets)
      BY DEF Typed
    <3>2. /\ \A i \in DOMAIN stream : stream[i] \in Bytes
          /\ \A i \in DOMAIN parts : parts[i] \in PartLengths
          /\ \A i \in DOMAIN data : data[i] \in Octets
      BY <3>1
    <3> QED
      BY <3>2 DEF PartLengths, Octets
  <2>2. offset \in Nat
    BY DEF Typed
  <2> QED
    BY <2>1, <2>2 DEF Typed, TypeOK
<1> QED
  BY <1>1, TransferInvHolds, PTL

\* As long as each recv() takes one part, no memcpy of cidbmsg_transmission_read goes
\* outside of the buffer or of the data, whose size is in the first header.
THEOREM NothingOutside == Spec => []StaysInside
<1>1. TransferInv => StaysInside
  BY DEF TransferInv, Moving, StaysInside
<1> QED
  BY <1>1, TransferInvHolds, PTL

\* The two switches of cidbmsg_write_message agree: the second fills what the first has
\* counted, for every message but a query without the name of a table.
THEOREM SizesAreWritten == Spec => []SizeIsWritten
<1>1. TransferInv => SizeIsWritten
  <2> SUFFICES ASSUME Typed, spc = "start"
               PROVE  Len(Written(Current)) = Size(Current) \/ Unnamed(Current)
    BY DEF TransferInv, SizeIsWritten
  <2>1. sent \in Seq(Messages) /\ sent # <<>>
    BY DEF Typed
  <2>2. Current \in Messages
    BY <2>1, EmptySeq DEF Current
  <2> QED
    BY <2>2, MessagesAre, WrittenIs
<1> QED
  BY <1>1, TransferInvHolds, PTL

\* What cidbcon_recv_message returns says what was handed to cidbcon_send_message, in
\* that order, as long as each recv() takes one part; but for tables with more fields
\* and for strings with more letters than an unsigned short counts.
THEOREM MessagesArrive == Spec => []ReceivedAsSent
<1>1. TransferInv => ReceivedAsSent
  <2> SUFFICES ASSUME Typed, Collected, NEW i \in 1..Len(received),
                      ~TooManyFields(sent[i]), ~TooLong(sent[i])
               PROVE  Structure(received[i]) = Meaning(sent[i])
    BY DEF TransferInv, Moving, ReceivedAsSent, Collected
  <2> DEFINE m == sent[i]
             h == received[i].header
             d == received[i].data
  <2>1. m \in Messages
    <3>1. /\ sent \in Seq(Messages) /\ received \in Seq(Results) /\ Len(received) <= Len(sent)
          /\ Len(received) \in Nat /\ Len(sent) \in Nat
      BY DEF Typed, Collected
    <3>2. i \in 1..Len(sent)
      BY <3>1
    <3> QED
      BY <3>1, <3>2
  <2>2. IsMessage(m) /\ Data(m) \in Seq(Bytes)
    BY <2>1, MessagesAre, TransferAssumption
  <2>3. d \in Seq(Octets)
    <3>1. received[i] \in Results
      BY DEF Typed
    <3> QED
      BY <3>1 DEF Results
  <2>4. Answers(h, d, m, Len(Data(m)))
    BY DEF Collected
  <2> DEFINE sentData == Data(m)
  <2> HIDE DEF m, h, d
  <2>5. /\ h.cmd = m.cmd /\ h.sub = m.sub /\ Len(d) = Len(sentData)
        /\ \A j \in 1..Len(sentData) : d[j] = sentData[j]
    BY <2>4 DEF Answers
  <2>6. sentData \in Seq(Octets)
    <3>1. Bytes \subseteq Octets
      BY DEF Bytes, Octets, Unset
    <3> HIDE DEF sentData
    <3>2. sentData \in Seq(Bytes)
      BY <2>2 DEF sentData
    <3> QED
      BY <3>1, <3>2
  <2> HIDE DEF sentData
  <2>7. d = sentData
    BY <2>3, <2>5, <2>6, SeqEqual
  <2>8. ReadMessage(m.cmd, m.sub, Data(m)) = Meaning(m)
    BY <2>2, MessageRead DEF m
  <2>9. Structure(received[i]) = ReadMessage(h.cmd, h.sub, d)
    BY DEF Structure, h, d
  <2> QED
    BY <2>5, <2>7, <2>8, <2>9 DEF sentData, m
<1> QED
  BY <1>1, TransferInvHolds, PTL

=============================================================================
