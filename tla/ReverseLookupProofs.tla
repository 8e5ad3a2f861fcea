------------------------ MODULE ReverseLookupProofs ------------------------
(***************************************************************************)
(* Proofs about one lookup after the other, for every source file whose    *)
(* templates close what they open, for every number and every page:        *)
(* the url fits into the memory that is allocated for it; it is the        *)
(* template of the configured source with the number; and an entry that is *)
(* returned is what the page of this lookup gives, decoded.                *)
(***************************************************************************)
EXTENDS ReverseLookup, SequenceTheorems, WellFoundedInduction, TLAPS

-----------------------------------------------------------------------------
(* Sequences and loops.                                                    *)

\* Induction over the natural numbers, with a set for the property.
LEMMA SetInduction ==
    ASSUME NEW T, 0 \in T, \A n \in Nat : n \in T => n + 1 \in T
    PROVE  Nat \subseteq T
<1> DEFINE R == OpToRel(<, Nat)
           U == Nat \ T
<1>1. IsWellFoundedOn(R, Nat)
  BY NatLessThanWellFounded
<1>2. \A x, y \in Nat : <<x, y>> \in R <=> x < y
  BY DEF OpToRel
<1>3. SUFFICES ASSUME U # {} PROVE FALSE
  OBVIOUS
<1>4. U \subseteq Nat
  OBVIOUS
<1> HIDE DEF R, U
<1>5. PICK x \in U : \A y \in U : ~(<<y, x>> \in R)
  BY <1>1, <1>3, <1>4, WFMin
<1>6. x \in Nat /\ x \notin T /\ x # 0
  BY DEF U
<1>7. x - 1 \in Nat /\ x - 1 < x /\ (x - 1) + 1 = x
  BY <1>6
<1>8. x - 1 \notin U
  BY <1>2, <1>5, <1>6, <1>7, Zenon
<1>q. QED
  BY <1>6, <1>7, <1>8 DEF U

\* What a loop of n turns goes through; step[k] is what its turn k does.
IsLoop(f, n, S, base, step) ==
    /\ f[0] = base /\ \A k \in 1..n : f[k] = step[k][f[k - 1]]
    /\ \A k \in 0..n : f[k] \in S

\* There is such a way through every loop.
LEMMA LoopExists ==
    ASSUME NEW n \in Nat, NEW S, NEW base \in S, NEW step \in [1..n -> [S -> S]]
    PROVE  \E f : IsLoop(f, n, S, base, step)
<1> DEFINE Loop(f, m) == /\ f[0] = base /\ \A k \in 1..m : f[k] = step[k][f[k - 1]]
                         /\ \A k \in 0..m : f[k] \in S
           T == {m \in Nat : m <= n => \E f : Loop(f, m)}
<1>1. 0 \in T
  <2>1. Loop([k \in {0} |-> base], 0)
    OBVIOUS
  <2>q. QED
    BY <2>1
<1>2. ASSUME NEW m \in Nat, m \in T PROVE m + 1 \in T
  <2>0. SUFFICES ASSUME m + 1 <= n PROVE \E f : Loop(f, m + 1)
    OBVIOUS
  <2>1. PICK f : Loop(f, m)
    BY <1>2, <2>0
  <2> DEFINE next == step[m + 1][f[m]]
             more == [k \in 0..m + 1 |-> IF k = m + 1 THEN next ELSE f[k]]
  <2>2. next \in S
    <3>1. m + 1 \in 1..n /\ m \in 0..m
      BY <2>0
    <3>2. f[m] \in S
      BY <2>1, <3>1
    <3>q. QED
      BY <3>1, <3>2
  <2>3. more[m + 1] = next /\ \A k \in 0..m : more[k] = f[k]
    <3> HIDE DEF next
    <3>q. QED
      OBVIOUS
  <2> HIDE DEF more
  <2>4. ASSUME NEW k \in 1..m + 1 PROVE more[k] = step[k][more[k - 1]]
    <3>1. CASE k = m + 1
      <4>1. k - 1 = m /\ m \in 0..m
        BY <3>1
      <4>2. more[k] = next /\ more[k - 1] = f[m]
        BY <2>3, <3>1, <4>1
      <4>q. QED
        BY <3>1, <4>2
    <3>2. CASE k \in 1..m
      <4>1. f[k] = step[k][f[k - 1]] /\ k \in 0..m /\ k - 1 \in 0..m
        BY <2>1, <3>2
      <4>q. QED
        BY <2>3, <4>1
    <3>q. QED
      BY <3>1, <3>2
  <2>5. \A k \in 0..m + 1 : more[k] \in S
    <3>1. \A k \in 0..m + 1 : k = m + 1 \/ k \in 0..m
      OBVIOUS
    <3> HIDE DEF next
    <3>q. QED
      BY <2>1, <2>2, <2>3, <3>1
  <2>6. more[0] = base
    BY <2>1, <2>3
  <2>q. QED
    BY <2>4, <2>5, <2>6
<1>3. n \in T
  <2> HIDE DEF T
  <2>q. QED
    BY <1>1, <1>2, SetInduction
<1>q. QED
  BY <1>3 DEF IsLoop

\* Two sequences one after the other.
LEMMA Joined ==
    ASSUME NEW S, NEW a \in Seq(S), NEW b \in Seq(S)
    PROVE  /\ a \o b \in Seq(S) /\ Len(a \o b) = Len(a) + Len(b)
           /\ \A k \in 1..Len(a) : (a \o b)[k] = a[k]
           /\ \A k \in 1..Len(b) : (a \o b)[Len(a) + k] = b[k]
<1>1. /\ a \o b \in Seq(S) /\ Len(a \o b) = Len(a) + Len(b)
      /\ \A k \in 1..Len(a) + Len(b) : (a \o b)[k] = IF k <= Len(a) THEN a[k] ELSE b[k - Len(a)]
  BY ConcatProperties
<1>2. Len(a) \in Nat /\ Len(b) \in Nat
  BY LenProperties
<1>3. ASSUME NEW k \in 1..Len(a) PROVE (a \o b)[k] = a[k]
  BY <1>1, <1>2
<1>4. ASSUME NEW k \in 1..Len(b) PROVE (a \o b)[Len(a) + k] = b[k]
  <2>1. Len(a) + k \in 1..Len(a) + Len(b) /\ ~(Len(a) + k <= Len(a)) /\ Len(a) + k - Len(a) = k
    BY <1>2
  <2>q. QED
    BY <1>1, <2>1
<1>q. QED
  BY <1>1, <1>3, <1>4

\* What FlattenSeq joins: flat[k] is the first k sequences after each other.
IsFlat(flat, seqs, n, S) ==
    /\ flat[0] = <<>> /\ \A k \in 0..n : flat[k] \in Seq(S)
    /\ \A k \in 1..n : flat[k] = flat[k - 1] \o seqs[k]

\* FlattenSeq joins all sequences that it is given.
LEMMA Flattened ==
    ASSUME NEW S, NEW n \in Nat, NEW seqs \in [1..n -> Seq(S)]
    PROVE  \E flat : IsFlat(flat, seqs, n, S) /\ flat[n] = FlattenSeq(seqs)
<1>0. seqs \in Seq(Seq(S)) /\ Len(seqs) = n
  OBVIOUS
<1>a. <<>> \in Seq(S) /\ Len(<<>>) = 0
  OBVIOUS
<1>1. CASE n = 0
  <2>1. seqs = <<>> /\ FlattenSeq(seqs) = seqs
    BY <1>0, <1>1, EmptySeq DEF FlattenSeq
  <2>2. IsFlat([k \in {0} |-> <<>>], seqs, n, S)
    BY <1>1, <1>a DEF IsFlat
  <2>q. QED
    BY <1>1, <2>1, <2>2
<1>2. CASE n # 0
  <2> DEFINE Eq(g) == g = [k \in 1..n |-> IF k = 1 THEN seqs[k] ELSE g[k - 1] \o seqs[k]]
             step == [k \in 1..n |-> [x \in Seq(S) |-> x \o seqs[k]]]
  <2>1. step \in [1..n -> [Seq(S) -> Seq(S)]]
    <3>1. \A k \in 1..n : \A x \in Seq(S) : x \o seqs[k] \in Seq(S)
      BY Joined
    <3>q. QED
      BY <3>1
  <2>2. PICK f : /\ f[0] = <<>> /\ \A k \in 1..n : f[k] = step[k][f[k - 1]]
                 /\ \A k \in 0..n : f[k] \in Seq(S)
    <3> DEFINE States == Seq(S)
               base   == <<>>
    <3>1. base \in States /\ step \in [1..n -> [States -> States]]
      BY <1>a, <2>1
    <3> HIDE DEF step, States, base
    <3>2. \E f : IsLoop(f, n, States, base, step)
      BY <3>1, LoopExists
    <3>q. QED
      BY <3>2 DEF States, base, IsLoop
  <2>3. f[0] = <<>> /\ \A k \in 1..n : f[k] = f[k - 1] \o seqs[k]
    <3>1. f[0] = <<>>
      BY <2>2
    <3>2. ASSUME NEW k \in 1..n PROVE f[k] = f[k - 1] \o seqs[k]
      <4>1. k - 1 \in 0..n /\ k \in 0..n /\ k # 0
        OBVIOUS
      <4>2. f[k] = step[k][f[k - 1]] /\ f[k - 1] \in Seq(S)
        <5> HIDE DEF step
        <5>q. QED
          BY <2>2, <4>1
      <4>q. QED
        BY <4>2
    <3>q. QED
      BY <3>1, <3>2
  <2> HIDE DEF step
  <2> DEFINE g == [k \in 1..n |-> f[k]]
  <2>4. Eq(g)
    <3>1. ASSUME NEW k \in 1..n PROVE f[k] = IF k = 1 THEN seqs[k] ELSE g[k - 1] \o seqs[k]
      <4>1. CASE k = 1
        <5>1. k - 1 = 0 /\ f[0] = <<>> /\ f[k] = f[k - 1] \o seqs[k] /\ seqs[k] \in Seq(S)
          <6>1. k - 1 = 0 /\ seqs[k] \in Seq(S)
            BY <4>1
          <6>2. f[0] = <<>> /\ f[k] = f[k - 1] \o seqs[k]
            BY <2>3
          <6>q. QED
            BY <6>1, <6>2
        <5>2. f[k - 1] = <<>>
          BY <5>1
        <5>q. QED
          BY <4>1, <5>1, <5>2, ConcatEmptySeq
      <4>2. CASE k # 1
        <5>1. k - 1 \in 1..n
          BY <4>2
        <5>q. QED
          BY <2>3, <4>2, <5>1
      <4>q. QED
        BY <4>1, <4>2
    <3>q. QED
      BY <3>1
  <2>5. PICK h : Eq(h) /\ FlattenSeq(seqs) = h[n]
    <3> HIDE DEF g
    <3>q. QED
      BY <1>0, <1>2, <2>4 DEF FlattenSeq
  <2> DEFINE flat == [k \in 0..n |-> IF k = 0 THEN <<>> ELSE h[k]]
  <2>6. \A k \in 1..n : h[k] = IF k = 1 THEN seqs[k] ELSE h[k - 1] \o seqs[k]
    BY <2>5
  <2>7. flat[0] = <<>> /\ \A k \in 1..n : flat[k] = h[k]
    OBVIOUS
  <2> HIDE DEF flat
  <2>8. ASSUME NEW k \in 1..n PROVE flat[k] = flat[k - 1] \o seqs[k]
    <3>1. CASE k = 1
      <4>1. flat[k] = seqs[k] /\ flat[k - 1] = <<>> /\ seqs[k] \in Seq(S)
        BY <2>6, <2>7, <3>1
      <4>q. QED
        BY <4>1, ConcatEmptySeq
    <3>2. CASE k # 1
      <4>1. k - 1 \in 1..n
        BY <3>2
      <4>q. QED
        BY <2>6, <2>7, <3>2, <4>1
    <3>q. QED
      BY <3>1, <3>2
  <2> DEFINE T == {k \in Nat : k <= n => flat[k] \in Seq(S)}
  <2>9. 0 \in T
    BY <1>a, <2>7
  <2>10. ASSUME NEW k \in Nat, k \in T PROVE k + 1 \in T
    <3>1. ASSUME k + 1 <= n PROVE flat[k + 1] \in Seq(S)
      <4>1. k + 1 \in 1..n /\ k + 1 - 1 = k /\ flat[k] \in Seq(S) /\ seqs[k + 1] \in Seq(S)
        BY <2>10, <3>1
      <4>2. flat[k + 1] = flat[k] \o seqs[k + 1]
        <5> DEFINE e == k + 1
        <5>1. e \in 1..n /\ e - 1 = k
          BY <4>1
        <5> HIDE DEF e
        <5>2. flat[e] = flat[k] \o seqs[e]
          BY <2>8, <5>1
        <5>q. QED
          BY <5>2 DEF e
      <4>q. QED
        BY <4>1, <4>2, Joined
    <3>q. QED
      BY <3>1
  <2>11. \A k \in 0..n : flat[k] \in Seq(S)
    <3>1. Nat \subseteq T
      <4> HIDE DEF T
      <4>q. QED
        BY <2>9, <2>10, SetInduction
    <3>q. QED
      BY <3>1
  <2>12. IsFlat(flat, seqs, n, S)
    BY <2>7, <2>8, <2>11 DEF IsFlat
  <2>13. flat[n] = FlattenSeq(seqs)
    BY <1>2, <2>5, <2>7
  <2>q. QED
    BY <2>12, <2>13
<1>q. QED
  BY <1>1, <1>2

\* Where the k-th sequence stands in all of them.
Stands(flat, seqs, n, k) ==
    /\ Len(flat[k - 1]) \in Nat /\ Len(flat[k]) \in Nat
    /\ Len(flat[k]) = Len(flat[k - 1]) + Len(seqs[k])
    /\ Len(flat[k]) <= Len(flat[n])
    /\ \A q \in 1..Len(seqs[k]) : flat[n][Len(flat[k - 1]) + q] = seqs[k][q]

\* Each of them stands in what is joined, after the ones before it.
LEMMA FlatHolds ==
    ASSUME NEW S, NEW n \in Nat, NEW seqs \in [1..n -> Seq(S)],
           NEW flat, IsFlat(flat, seqs, n, S), NEW k \in 1..n
    PROVE  Stands(flat, seqs, n, k)
<1> DEFINE Keeps(e) == /\ Len(flat[k]) <= Len(flat[e])
                       /\ \A x \in 1..Len(flat[k]) : flat[e][x] = flat[k][x]
           T == {d \in Nat : k + d <= n => Keeps(k + d)}
<1>0. \A e \in 0..n : flat[e] \in Seq(S) /\ Len(flat[e]) \in Nat
  BY LenProperties DEF IsFlat
<1>a. k \in 0..n /\ k - 1 \in 0..n /\ seqs[k] \in Seq(S) /\ Len(seqs[k]) \in Nat
  BY LenProperties
<1>1. 0 \in T
  <2>1. k + 0 = k /\ Len(flat[k]) \in Nat
    BY <1>0, <1>a
  <2>q. QED
    BY <2>1
<1>2. ASSUME NEW d \in Nat, d \in T PROVE d + 1 \in T
  <2>1. ASSUME k + (d + 1) <= n PROVE Keeps(k + (d + 1))
    <3> DEFINE e == k + d
    <3>1. e \in 0..n /\ e + 1 \in 1..n /\ e + 1 - 1 = e /\ e + 1 = k + (d + 1) /\ k + d <= n
      BY <2>1
    <3>2. Keeps(e)
      BY <1>2, <3>1
    <3> HIDE DEF e
    <3> DEFINE u == e + 1
    <3>a. u \in 1..n /\ u - 1 = e /\ u = k + (d + 1)
      BY <3>1
    <3> HIDE DEF u
    <3>3. flat[u] = flat[e] \o seqs[u] /\ seqs[u] \in Seq(S) /\ flat[e] \in Seq(S)
      BY <1>0, <3>1, <3>a DEF IsFlat
    <3> DEFINE before == flat[e]
               piece  == seqs[u]
    <3>4. Len(piece) \in Nat /\ Len(before) \in Nat /\ Len(flat[k]) \in Nat
      BY <1>0, <1>a, <3>1, <3>3, LenProperties
    <3>5. before \in Seq(S) /\ piece \in Seq(S) /\ flat[u] = before \o piece
      BY <3>3
    <3>b. Len(flat[k]) <= Len(before) /\ \A x \in 1..Len(flat[k]) : before[x] = flat[k][x]
      BY <3>2
    <3> HIDE DEF before, piece
    <3>c. /\ Len(before \o piece) = Len(before) + Len(piece)
          /\ \A x \in 1..Len(before) : (before \o piece)[x] = before[x]
      BY <3>5, Joined
    <3>6. Keeps(u)
      BY <3>4, <3>5, <3>b, <3>c
    <3>q. QED
      BY <3>a, <3>6
  <2>q. QED
    BY <2>1
<1>3. Keeps(n)
  <2>1. n - k \in Nat /\ k + (n - k) = n
    OBVIOUS
  <2>2. n - k \in T
    <3> HIDE DEF T
    <3>q. QED
      BY <1>1, <1>2, <2>1, SetInduction
  <2>q. QED
    BY <2>1, <2>2
<1>4. /\ flat[k] = flat[k - 1] \o seqs[k] /\ flat[k - 1] \in Seq(S)
      /\ Len(flat[k - 1]) \in Nat /\ Len(flat[k]) \in Nat
  BY <1>0, <1>a DEF IsFlat
<1>5. /\ Len(flat[k]) = Len(flat[k - 1]) + Len(seqs[k])
      /\ \A q \in 1..Len(seqs[k]) : flat[k][Len(flat[k - 1]) + q] = seqs[k][q]
  BY <1>a, <1>4, Joined
<1>q. QED
  <2>1. ASSUME NEW q \in 1..Len(seqs[k])
        PROVE  flat[n][Len(flat[k - 1]) + q] = seqs[k][q]
    <3> DEFINE x == Len(flat[k - 1]) + q
    <3>1. x \in 1..Len(flat[k]) /\ flat[k][x] = seqs[k][q]
      BY <1>a, <1>4, <1>5
    <3> HIDE DEF x
    <3>2. flat[n][x] = flat[k][x]
      BY <1>3, <3>1
    <3>q. QED
      BY <3>1, <3>2 DEF x
  <2>q. QED
    BY <1>3, <1>4, <1>5, <2>1 DEF Stands

-----------------------------------------------------------------------------
(* Texts and their pieces.                                                 *)

Pieces == DOMAIN Spelling
Firsts == {"a", "u", "U", "%"}

\* How the pieces are spelled, in the charset of the page and in UTF-8.
InUtf8    == [Spelling EXCEPT !.umlaut = <<"U">>]
Spellings == {Spelling, InUtf8}
SpelledAs(pieces, spell) == FlattenSeq([k \in 1..Len(pieces) |-> spell[pieces[k]]])

\* What the spelling of each piece is.
LEMMA SpellingIs ==
    /\ Pieces = {"text", "umlaut", "percent", "space", "number", "unknown"}
    /\ \A spell \in Spellings :
          /\ spell["text"] = <<"a">> /\ spell["percent"] = <<"%">>
          /\ spell["space"] = <<"%", "2", "0">>
          /\ spell["number"] = <<"%", "N", "%">> /\ spell["unknown"] = <<"%", "X", "%">>
          /\ DOMAIN spell = Pieces
    /\ Spelling["umlaut"] = <<"u">> /\ InUtf8["umlaut"] = <<"U">>
<1>1. Pieces = {"text", "umlaut", "percent", "space", "number", "unknown"}
  BY DEF Pieces, Spelling
<1>2. /\ Spelling["text"] = <<"a">> /\ Spelling["percent"] = <<"%">>
      /\ Spelling["space"] = <<"%", "2", "0">>
      /\ Spelling["number"] = <<"%", "N", "%">> /\ Spelling["unknown"] = <<"%", "X", "%">>
      /\ Spelling["umlaut"] = <<"u">> /\ DOMAIN Spelling = Pieces
  BY DEF Spelling, Pieces
<1>3. /\ InUtf8["umlaut"] = <<"U">> /\ DOMAIN InUtf8 = Pieces
      /\ \A p \in Pieces \ {"umlaut"} : InUtf8[p] = Spelling[p]
  <2>1. InUtf8 = [p \in Pieces |-> IF p = "umlaut" THEN <<"U">> ELSE Spelling[p]]
    BY <1>1, <1>2 DEF InUtf8, Spelling
  <2>q. QED
    BY <1>1, <2>1
<1>q. QED
  BY <1>1, <1>2, <1>3 DEF Spellings

\* Every piece has a letter, and none begins with a digit.
LEMMA SpellingTyped ==
    ASSUME NEW spell \in Spellings, NEW p \in Pieces
    PROVE  /\ spell[p] \in Seq(Chars) /\ Len(spell[p]) \in {1, 3}
           /\ spell[p][1] \in Firsts /\ spell \in [Pieces -> Seq(Chars)]
<1>1. {"a", "u", "U", "%", "2", "0", "N", "X"} \subseteq Chars
  BY DEF Chars, Digits
<1>2. ASSUME NEW a \in Chars PROVE <<a>> \in Seq(Chars) /\ Len(<<a>>) = 1 /\ <<a>>[1] = a
  OBVIOUS
<1>3. ASSUME NEW a \in Chars, NEW b \in Chars, NEW c \in Chars
      PROVE <<a, b, c>> \in Seq(Chars) /\ Len(<<a, b, c>>) = 3 /\ <<a, b, c>>[1] = a
  OBVIOUS
<1>4. /\ <<"a">> \in Seq(Chars) /\ <<"u">> \in Seq(Chars) /\ <<"U">> \in Seq(Chars)
      /\ <<"%">> \in Seq(Chars) /\ <<"%", "2", "0">> \in Seq(Chars)
      /\ <<"%", "N", "%">> \in Seq(Chars) /\ <<"%", "X", "%">> \in Seq(Chars)
  BY <1>1, <1>2, <1>3
<1>5. spell["umlaut"] \in {<<"u">>, <<"U">>}
  BY SpellingIs DEF Spellings
<1>6. \A x \in Pieces : spell[x] \in {<<"a">>, <<"u">>, <<"U">>, <<"%">>, <<"%", "2", "0">>,
                                      <<"%", "N", "%">>, <<"%", "X", "%">>}
  BY <1>5, SpellingIs
<1>7. spell \in [Pieces -> Seq(Chars)]
  <2>1. \A x \in Pieces : spell[x] \in Seq(Chars)
    BY <1>4, <1>6
  <2>2. DOMAIN spell = Pieces /\ spell = [x \in DOMAIN spell |-> spell[x]]
    BY SpellingIs DEF Spellings, InUtf8, Spelling
  <2>q. QED
    BY <2>1, <2>2
<1>8. spell[p][1] \in Firsts /\ Len(spell[p]) \in {1, 3}
  BY <1>6 DEF Firsts
<1>q. QED
  BY <1>7, <1>8

\* at[m] is where the piece after the first m begins in the text.
IsLayout(at, text, pieces, spell) ==
    /\ at[0] = 0 /\ at[Len(pieces)] = Len(text)
    /\ \A m \in 0..Len(pieces) :
          /\ at[m] \in 0..Len(text)
          /\ at[m] < Len(text) => text[at[m] + 1] \in Firsts
    /\ \A m \in 0..Len(pieces) - 1 :
          /\ at[m + 1] = at[m] + Len(spell[pieces[m + 1]])
          /\ \A q \in 1..Len(spell[pieces[m + 1]]) : text[at[m] + q] = spell[pieces[m + 1]][q]

\* A text that is spelled has a layout.
LEMMA LayoutExists ==
    ASSUME NEW pieces \in Seq(Pieces), NEW spell \in Spellings
    PROVE  /\ SpelledAs(pieces, spell) \in Seq(Chars)
           /\ \E at : IsLayout(at, SpelledAs(pieces, spell), pieces, spell)
<1> DEFINE n    == Len(pieces)
           seqs == [k \in 1..n |-> spell[pieces[k]]]
           text == SpelledAs(pieces, spell)
<1>0. n \in Nat /\ \A k \in 1..n : pieces[k] \in Pieces
  BY LenProperties, ElementOfSeq
<1>1. /\ seqs \in [1..n -> Seq(Chars)] /\ text = FlattenSeq(seqs)
      /\ \A k \in 1..n : /\ seqs[k] = spell[pieces[k]] /\ Len(seqs[k]) \in {1, 3}
                         /\ seqs[k][1] \in Firsts
  BY <1>0, SpellingTyped DEF SpelledAs
<1> HIDE DEF n, seqs, text
<1>a. n \in Nat /\ seqs \in [1..n -> Seq(Chars)]
  BY <1>0, <1>1
<1>2. PICK flat : IsFlat(flat, seqs, n, Chars) /\ flat[n] = text
  <2>1. \E flat : IsFlat(flat, seqs, n, Chars) /\ flat[n] = FlattenSeq(seqs)
    BY <1>a, Flattened
  <2>q. QED
    BY <1>1, <2>1
<1> DEFINE at == [m \in 0..n |-> Len(flat[m])]
<1>3. text \in Seq(Chars) /\ Len(text) \in Nat /\ at[0] = 0 /\ at[n] = Len(text)
  <2>1. flat[0] = <<>> /\ flat[n] \in Seq(Chars)
    BY <1>0, <1>2 DEF IsFlat
  <2>2. Len(<<>>) = 0
    OBVIOUS
  <2>q. QED
    BY <1>0, <1>2, <2>1, <2>2, LenProperties
<1>4. ASSUME NEW m \in 0..n - 1
      PROVE  /\ at[m] \in Nat /\ at[m + 1] \in Nat /\ at[m + 1] = at[m] + Len(seqs[m + 1])
             /\ at[m + 1] <= Len(text)
             /\ \A q \in 1..Len(seqs[m + 1]) : text[at[m] + q] = seqs[m + 1][q]
  <2> DEFINE k == m + 1
  <2>1. k \in 1..n /\ k - 1 = m /\ m \in 0..n /\ k \in 0..n
    BY <1>0
  <2> HIDE DEF k
  <2>2. Stands(flat, seqs, n, k)
    <3>1. IsFlat(flat, seqs, n, Chars) /\ k \in 1..n
      BY <1>2, <2>1
    <3>q. QED
      BY <1>a, <3>1, FlatHolds
  <2>3. at[k] = Len(flat[k]) /\ at[m] = Len(flat[k - 1])
    BY <2>1
  <2> HIDE DEF at
  <2>4. /\ at[m] \in Nat /\ at[k] \in Nat /\ at[k] = at[m] + Len(seqs[k])
        /\ at[k] <= Len(text)
        /\ \A q \in 1..Len(seqs[k]) : text[at[m] + q] = seqs[k][q]
    BY <1>2, <2>2, <2>3 DEF Stands
  <2>q. QED
    BY <2>4 DEF k
<1> HIDE DEF at
<1>5. ASSUME NEW m \in 0..n
      PROVE  at[m] \in 0..Len(text) /\ (at[m] < Len(text) => text[at[m] + 1] \in Firsts)
  <2>1. CASE m = n
    BY <1>3, <2>1
  <2>2. CASE m # n
    <3>1. m \in 0..n - 1 /\ m + 1 \in 1..n
      BY <1>0, <2>2
    <3>2. Len(seqs[m + 1]) \in {1, 3} /\ seqs[m + 1][1] \in Firsts
      BY <1>1, <3>1
    <3>3. 1 \in 1..Len(seqs[m + 1])
      BY <3>2
    <3>4. text[at[m] + 1] = seqs[m + 1][1]
      BY <1>4, <3>1, <3>3
    <3>5. at[m] \in Nat /\ at[m] <= Len(text)
      BY <1>3, <1>4, <3>1, <3>2
    <3>q. QED
      BY <3>2, <3>4, <3>5, <1>3
  <2>q. QED
    BY <2>1, <2>2
<1>6. ASSUME NEW m \in 0..n - 1 PROVE seqs[m + 1] = spell[pieces[m + 1]]
  <2>1. m + 1 \in 1..n
    BY <1>0
  <2>q. QED
    BY <1>1, <2>1
<1>7. IsLayout(at, text, pieces, spell)
  BY <1>3, <1>4, <1>5, <1>6 DEF IsLayout, n
<1>q. QED
  BY <1>3, <1>7 DEF text

\* The letters of a piece, and what comes after it.
IsPiece(p, begin, end, text, spell) ==
    /\ p \in Pieces /\ Len(text) \in Nat /\ begin \in Nat /\ end \in Nat
    /\ end = begin + Len(spell[p]) /\ end <= Len(text) /\ Len(spell[p]) \in {1, 3}
    /\ text[begin + 1] = spell[p][1]
    /\ Len(spell[p]) = 3 => text[begin + 2] = spell[p][2] /\ text[begin + 3] = spell[p][3]
    /\ end < Len(text) => text[end + 1] \in Firsts

\* The piece after the first m stands where the layout says.
LEMMA PieceThere ==
    ASSUME NEW spell \in Spellings, NEW pieces \in Seq(Pieces), NEW text \in Seq(Chars),
           NEW at, IsLayout(at, text, pieces, spell), NEW m \in 0..Len(pieces), m # Len(pieces)
    PROVE  m + 1 \in 1..Len(pieces) /\ IsPiece(pieces[m + 1], at[m], at[m + 1], text, spell)
<1> DEFINE p == pieces[m + 1]
<1>0. m \in 0..Len(pieces) - 1 /\ m + 1 \in 1..Len(pieces) /\ m + 1 \in 0..Len(pieces)
  BY LenProperties
<1>1. p \in Pieces
  BY <1>0, ElementOfSeq
<1>2. Len(spell[p]) \in {1, 3}
  BY <1>1, SpellingTyped
<1>3. /\ at[m] \in 0..Len(text) /\ at[m + 1] \in 0..Len(text)
      /\ at[m + 1] < Len(text) => text[at[m + 1] + 1] \in Firsts
  BY <1>0 DEF IsLayout
<1>4. /\ at[m + 1] = at[m] + Len(spell[p])
      /\ \A q \in 1..Len(spell[p]) : text[at[m] + q] = spell[p][q]
  <2>1. \A k \in 0..Len(pieces) - 1 :
          /\ at[k + 1] = at[k] + Len(spell[pieces[k + 1]])
          /\ \A q \in 1..Len(spell[pieces[k + 1]]) : text[at[k] + q] = spell[pieces[k + 1]][q]
    BY DEF IsLayout
  <2>q. QED
    BY <1>0, <2>1
<1> HIDE DEF p
<1>5. 1 \in 1..Len(spell[p]) /\ (Len(spell[p]) = 3 => 2 \in 1..Len(spell[p]) /\ 3 \in 1..Len(spell[p]))
  <2>1. \A len \in {1, 3} : 1 \in 1..len /\ (len = 3 => 2 \in 1..len /\ 3 \in 1..len)
    OBVIOUS
  <2>q. QED
    BY <1>2, <2>1
<1>6. Len(text) \in Nat
  BY LenProperties
<1>7. text[at[m] + 1] = spell[p][1]
      /\ (Len(spell[p]) = 3 => text[at[m] + 2] = spell[p][2] /\ text[at[m] + 3] = spell[p][3])
  BY <1>4, <1>5
<1>q. QED
  BY <1>0, <1>1, <1>2, <1>3, <1>4, <1>6, <1>7 DEF p, IsPiece

-----------------------------------------------------------------------------
(* What the second loop of _cirlw_prepare_url writes.                      *)

\* Three letters after each other are three more letters.
LEMMA ThreeMore ==
    ASSUME NEW S, NEW w \in Seq(S), NEW a \in S, NEW b \in S, NEW c \in S
    PROVE  Append(Append(Append(w, a), b), c) = w \o <<a, b, c>>
OBVIOUS

\* What stands in the url for the pieces of a template.
Substitutes(pieces, number) ==
    [k \in 1..Len(pieces) |-> IF pieces[k] = "number" THEN number ELSE Spelling[pieces[k]]]

\* The second loop stands at place and has written the pieces before it, and
\* the beginning of the escape in which it may stand.
CopiedTo(at, exp, m, text, pieces, number, place, written) ==
    /\ IsLayout(at, text, pieces, Spelling)
    /\ IsFlat(exp, Substitutes(pieces, number), Len(pieces), Chars)
    /\ exp[Len(pieces)] = Expanded(pieces, number)
    /\ m \in 0..Len(pieces)
    /\ \/ place = at[m] + 1 /\ written = exp[m]
       \/ /\ m # Len(pieces) /\ pieces[m + 1] = "space"
          /\ \/ place = at[m] + 2 /\ written = Append(exp[m], "%")
             \/ place = at[m] + 3 /\ written = Append(Append(exp[m], "%"), "2")
Copied(text, pieces, number, place, written) ==
    \E at, exp, m : CopiedTo(at, exp, m, text, pieces, number, place, written)

\* What stands for a piece is a text, for the number as for the others.
LEMMA SubstitutesTyped ==
    ASSUME NEW pieces \in Seq(Pieces), NEW number \in Seq(Digits)
    PROVE  /\ Substitutes(pieces, number) \in [1..Len(pieces) -> Seq(Chars)] /\ Len(pieces) \in Nat
           /\ \A m \in 0..Len(pieces) - 1 :
                 Substitutes(pieces, number)[m + 1] =
                     IF pieces[m + 1] = "number" THEN number ELSE Spelling[pieces[m + 1]]
<1>1. number \in Seq(Chars)
  BY SeqMonotonic DEF Chars
<1>2. Len(pieces) \in Nat /\ \A k \in 1..Len(pieces) : pieces[k] \in Pieces
  BY LenProperties, ElementOfSeq
<1>3. \A p \in Pieces : Spelling[p] \in Seq(Chars)
  BY SpellingTyped DEF Spellings
<1>4. Substitutes(pieces, number) \in [1..Len(pieces) -> Seq(Chars)]
  BY <1>1, <1>2, <1>3 DEF Substitutes
<1>5. \A m \in 0..Len(pieces) - 1 : m + 1 \in 1..Len(pieces)
  BY <1>2
<1>q. QED
  BY <1>2, <1>4, <1>5 DEF Substitutes

\* Before the first turn nothing is copied.
LEMMA CopyStarts ==
    ASSUME NEW pieces \in Seq(Pieces), NEW number \in Seq(Digits)
    PROVE  Copied(Spelled(pieces), pieces, number, 1, <<>>)
<1>1. Spelled(pieces) = SpelledAs(pieces, Spelling) /\ Spelling \in Spellings
  BY DEF Spelled, SpelledAs, Spellings
<1>2. PICK at : IsLayout(at, Spelled(pieces), pieces, Spelling)
  BY <1>1, LayoutExists
<1> DEFINE subst == Substitutes(pieces, number)
           n     == Len(pieces)
<1>3. subst \in [1..n -> Seq(Chars)] /\ n \in Nat /\ Expanded(pieces, number) = FlattenSeq(subst)
  BY SubstitutesTyped DEF Expanded, Substitutes
<1> HIDE DEF subst, n
<1>4. PICK exp : IsFlat(exp, subst, n, Chars) /\ exp[n] = Expanded(pieces, number)
  <2>1. \E exp : IsFlat(exp, subst, n, Chars) /\ exp[n] = FlattenSeq(subst)
    BY <1>3, Flattened
  <2>q. QED
    BY <1>3, <2>1
<1>5. 0 \in 0..n /\ 1 = at[0] + 1 /\ <<>> = exp[0]
  BY <1>2, <1>3, <1>4 DEF IsLayout, IsFlat
<1>6. CopiedTo(at, exp, 0, Spelled(pieces), pieces, number, 1, <<>>)
  BY <1>2, <1>4, <1>5 DEF CopiedTo, subst, n
<1>q. QED
  BY <1>6 DEF Copied

\* The piece in which the second loop stands, and what the url gets for it.
InPiece(at, exp, m, text, pieces, number, k, w) ==
    /\ Len(text) \in Nat /\ at[m] \in Nat /\ m \in Nat /\ exp[m] \in Seq(Chars)
    /\ m = Len(pieces) => at[m] = Len(text) /\ k = Len(text) + 1 /\ w = Expanded(pieces, number)
    /\ m # Len(pieces) =>
          /\ m + 1 \in 0..Len(pieces) /\ pieces[m + 1] \in Pieces
          /\ at[m + 1] = at[m] + Len(Spelling[pieces[m + 1]]) /\ at[m + 1] <= Len(text)
          /\ exp[m + 1] = exp[m] \o (IF pieces[m + 1] = "number" THEN number
                                     ELSE Spelling[pieces[m + 1]])

\* Where the second loop stands is in a piece, or at the end.
LEMMA CopyAt ==
    ASSUME NEW pieces \in Seq(Pieces), NEW number \in Seq(Digits), NEW text \in Seq(Chars),
           NEW at, NEW exp, NEW m, NEW k, NEW w, CopiedTo(at, exp, m, text, pieces, number, k, w)
    PROVE  InPiece(at, exp, m, text, pieces, number, k, w)
<1>0. /\ IsLayout(at, text, pieces, Spelling) /\ m \in 0..Len(pieces)
      /\ IsFlat(exp, Substitutes(pieces, number), Len(pieces), Chars)
      /\ exp[Len(pieces)] = Expanded(pieces, number)
  BY DEF CopiedTo
<1>1. Len(text) \in Nat /\ at[m] \in Nat /\ m \in Nat
  <2>1. at[m] \in 0..Len(text)
    BY <1>0 DEF IsLayout
  <2>q. QED
    BY <1>0, <2>1, LenProperties
<1>2. exp[m] \in Seq(Chars)
  BY <1>0 DEF IsFlat
<1>3. ASSUME m = Len(pieces)
      PROVE  at[m] = Len(text) /\ k = Len(text) + 1 /\ w = Expanded(pieces, number)
  BY <1>0, <1>3 DEF CopiedTo, IsLayout
<1>4. ASSUME m # Len(pieces)
      PROVE  /\ m + 1 \in 0..Len(pieces) /\ pieces[m + 1] \in Pieces
             /\ at[m + 1] = at[m] + Len(Spelling[pieces[m + 1]]) /\ at[m + 1] <= Len(text)
             /\ exp[m + 1] = exp[m] \o (IF pieces[m + 1] = "number" THEN number
                                        ELSE Spelling[pieces[m + 1]])
  <2>1. Spelling \in Spellings
    BY DEF Spellings
  <2>2. /\ m + 1 \in 1..Len(pieces) /\ pieces[m + 1] \in Pieces
        /\ at[m + 1] = at[m] + Len(Spelling[pieces[m + 1]]) /\ at[m + 1] <= Len(text)
    BY <1>0, <1>4, <2>1, PieceThere DEF IsPiece
  <2>3. m \in 0..Len(pieces) - 1 /\ m + 1 \in 0..Len(pieces)
    BY <1>0, <1>4, <2>2, LenProperties
  <2> DEFINE u == m + 1
  <2>4. u \in 1..Len(pieces) /\ u - 1 = m
    BY <1>1, <2>2
  <2> HIDE DEF u
  <2>5. exp[u] = exp[m] \o Substitutes(pieces, number)[u]
    BY <1>0, <2>4 DEF IsFlat
  <2>6. Substitutes(pieces, number)[m + 1] =
             IF pieces[m + 1] = "number" THEN number ELSE Spelling[pieces[m + 1]]
    BY <2>3, SubstitutesTyped
  <2>q. QED
    BY <2>2, <2>3, <2>5, <2>6 DEF u
<1>q. QED
  BY <1>1, <1>2, <1>3, <1>4 DEF InPiece

\* At the end of the template the url is complete.
LEMMA CopyEnds ==
    ASSUME NEW pieces \in Seq(Pieces), NEW number \in Seq(Digits), NEW text \in Seq(Chars),
           NEW k, NEW w, Copied(text, pieces, number, k, w), k > Len(text)
    PROVE  w = Expanded(pieces, number)
<1>1. PICK at, exp, m : CopiedTo(at, exp, m, text, pieces, number, k, w)
  BY DEF Copied
<1>a. InPiece(at, exp, m, text, pieces, number, k, w)
  BY <1>1, CopyAt
<1>2. ASSUME m # Len(pieces) PROVE FALSE
  <2>1. /\ Len(text) \in Nat /\ at[m] \in Nat /\ pieces[m + 1] \in Pieces
        /\ at[m] + Len(Spelling[pieces[m + 1]]) <= Len(text)
    BY <1>a, <1>2 DEF InPiece
  <2>2. \/ k = at[m] + 1
        \/ pieces[m + 1] = "space" /\ (k = at[m] + 2 \/ k = at[m] + 3)
    BY <1>1 DEF CopiedTo
  <2>3. /\ Len(Spelling[pieces[m + 1]]) \in {1, 3}
        /\ pieces[m + 1] = "space" => Len(Spelling[pieces[m + 1]]) = 3
    <3>1. Spelling \in Spellings
      BY DEF Spellings
    <3>2. Len(Spelling[pieces[m + 1]]) \in {1, 3}
      BY <2>1, <3>1, SpellingTyped
    <3>3. Spelling["space"] = <<"%", "2", "0">>
      BY <3>1, SpellingIs
    <3>4. Len(<<"%", "2", "0">>) = 3
      OBVIOUS
    <3>q. QED
      BY <3>2, <3>3, <3>4
  <2> DEFINE len == Len(Spelling[pieces[m + 1]])
             p == pieces[m + 1]
             a == at[m]
  <2>4. /\ Len(text) \in Nat /\ a \in Nat /\ a + len <= Len(text) /\ len \in {1, 3}
        /\ (p = "space" => len = 3) /\ (k = a + 1 \/ (p = "space" /\ (k = a + 2 \/ k = a + 3)))
    BY <2>1, <2>2, <2>3
  <2> HIDE DEF len, p, a
  <2>q. QED
    BY <2>4
<1>3. m = Len(pieces)
  BY <1>2
<1>q. QED
  BY <1>a, <1>3 DEF InPiece

\* In which piece a place of the second loop is, if it is not the end.
LEMMA CopyWhere ==
    ASSUME NEW pieces \in Seq(Pieces), NEW number \in Seq(Digits), NEW text \in Seq(Chars),
           NEW at, NEW exp, NEW m, NEW k, NEW w, CopiedTo(at, exp, m, text, pieces, number, k, w),
           k <= Len(text)
    PROVE  /\ m # Len(pieces) /\ m \in 0..Len(pieces) /\ m + 1 \in 0..Len(pieces)
           /\ IsPiece(pieces[m + 1], at[m], at[m + 1], text, Spelling)
<1>1. InPiece(at, exp, m, text, pieces, number, k, w)
  BY CopyAt
<1>2. m # Len(pieces)
  BY <1>1 DEF InPiece
<1>3. IsLayout(at, text, pieces, Spelling) /\ Spelling \in Spellings /\ m \in 0..Len(pieces)
  BY DEF CopiedTo, Spellings
<1>4. IsPiece(pieces[m + 1], at[m], at[m + 1], text, Spelling)
  BY <1>2, <1>3, PieceThere
<1>q. QED
  BY <1>1, <1>2, <1>3, <1>4 DEF InPiece

\* A letter that opens no placeholder is copied.
LEMMA CopyLetter ==
    ASSUME NEW pieces \in Seq(Pieces), NEW number \in Seq(Digits), NEW text \in Seq(Chars),
           NEW k, NEW w, Copied(text, pieces, number, k, w), k <= Len(text), ~Opens(text, k)
    PROVE  Copied(text, pieces, number, k + 1, Append(w, text[k]))
<1>1. PICK at, exp, m : CopiedTo(at, exp, m, text, pieces, number, k, w)
  BY DEF Copied
<1> DEFINE p == pieces[m + 1]
           a == at[m]
           e == at[m + 1]
           done == exp[m]
<1>2. /\ m # Len(pieces) /\ m \in 0..Len(pieces) /\ m + 1 \in 0..Len(pieces)
      /\ IsPiece(p, a, e, text, Spelling)
  BY <1>1, CopyWhere
<1>3. done \in Seq(Chars) /\ exp[m + 1] = done \o (IF p = "number" THEN number ELSE Spelling[p])
  <2>1. InPiece(at, exp, m, text, pieces, number, k, w)
    BY <1>1, CopyAt
  <2>q. QED
    BY <1>2, <2>1 DEF InPiece
<1>4. \/ k = a + 1 /\ w = done
      \/ p = "space" /\ k = a + 2 /\ w = Append(done, "%")
      \/ p = "space" /\ k = a + 3 /\ w = Append(Append(done, "%"), "2")
  BY <1>1, <1>2 DEF CopiedTo
<1>5. /\ IsLayout(at, text, pieces, Spelling)
      /\ IsFlat(exp, Substitutes(pieces, number), Len(pieces), Chars)
      /\ exp[Len(pieces)] = Expanded(pieces, number)
  BY <1>1 DEF CopiedTo
<1>6. ASSUME k + 1 = e + 1, Append(w, text[k]) = exp[m + 1]
      PROVE  Copied(text, pieces, number, k + 1, Append(w, text[k]))
  <2>1. CopiedTo(at, exp, m + 1, text, pieces, number, k + 1, Append(w, text[k]))
    BY <1>2, <1>5, <1>6 DEF CopiedTo
  <2>q. QED
    BY <2>1 DEF Copied
<1>7. ASSUME p = "space", \/ k + 1 = a + 2 /\ Append(w, text[k]) = Append(done, "%")
                          \/ k + 1 = a + 3 /\ Append(w, text[k]) = Append(Append(done, "%"), "2")
      PROVE  Copied(text, pieces, number, k + 1, Append(w, text[k]))
  <2>1. CopiedTo(at, exp, m, text, pieces, number, k + 1, Append(w, text[k]))
    BY <1>2, <1>5, <1>7 DEF CopiedTo
  <2>q. QED
    BY <2>1 DEF Copied
<1> HIDE DEF p, a, e, done
<1>8. Spelling \in Spellings /\ {"a", "u", "%", "2", "0"} \subseteq Chars
  BY DEF Spellings, Chars, Digits
<1>9. /\ Len(<<"a">>) = 1 /\ Len(<<"u">>) = 1 /\ Len(<<"%">>) = 1
      /\ Len(<<"%", "2", "0">>) = 3 /\ Len(<<"%", "N", "%">>) = 3 /\ Len(<<"%", "X", "%">>) = 3
  OBVIOUS
<1>10. CASE p \in {"text", "umlaut"}
  <2>1. PICK c \in {"a", "u"} : Spelling[p] = <<c>>
    BY <1>8, <1>10, SpellingIs
  <2>2. e = a + 1 /\ text[a + 1] = c /\ k = a + 1 /\ w = done
    BY <1>2, <1>4, <1>9, <1>10, <2>1 DEF IsPiece
  <2>3. Append(w, text[k]) = exp[m + 1]
    BY <1>3, <1>8, <1>10, <2>1, <2>2, AppendIsConcat
  <2>q. QED
    BY <1>6, <2>2, <2>3
<1>11. CASE p = "space"
  <2>1. Spelling[p] = <<"%", "2", "0">>
    BY <1>8, <1>11, SpellingIs
  <2>2. e = a + 3 /\ text[a + 1] = "%" /\ text[a + 2] = "2" /\ text[a + 3] = "0" /\ a \in Nat
    BY <1>2, <1>9, <2>1 DEF IsPiece
  <2>3. CASE k = a + 1 /\ w = done
    BY <1>7, <1>11, <2>2, <2>3
  <2>4. CASE k = a + 2 /\ w = Append(done, "%")
    BY <1>7, <1>11, <2>2, <2>4
  <2>5. CASE k = a + 3 /\ w = Append(Append(done, "%"), "2")
    <3>1. Append(w, text[k]) = exp[m + 1]
      <4>1. Append(w, text[k]) = Append(Append(Append(done, "%"), "2"), "0")
        BY <2>2, <2>5
      <4>2. "%" \in Chars /\ "2" \in Chars /\ "0" \in Chars
        BY <1>8
      <4>3. Append(Append(Append(done, "%"), "2"), "0") = done \o <<"%", "2", "0">>
        <5>1. done \in Seq(Chars)
          BY <1>3
        <5>q. QED
          BY <4>2, <5>1, ThreeMore
      <4>4. exp[m + 1] = done \o Spelling[p]
        BY <1>3, <1>11
      <4>q. QED
        BY <2>1, <4>1, <4>3, <4>4
    <3>q. QED
      BY <1>6, <2>2, <2>5, <3>1
  <2>q. QED
    BY <1>4, <2>3, <2>4, <2>5
<1>12. CASE p \in {"percent", "number", "unknown"}
  <2>1. k = a + 1 /\ Firsts \cap Digits = {} /\ "N" \notin Digits /\ "X" \notin Digits
    BY <1>4, <1>12 DEF Firsts, Digits
  <2>2. Opens(text, k)
    <3>1. CASE p = "percent"
      <4>0. Spelling[p] = <<"%">> /\ <<"%">>[1] = "%"
        BY <1>8, <3>1, SpellingIs
      <4>1. text[k] = "%" /\ e = k /\ (e < Len(text) => text[e + 1] \in Firsts)
            /\ e <= Len(text) /\ e \in Nat /\ Len(text) \in Nat
        BY <1>2, <1>9, <2>1, <4>0 DEF IsPiece
      <4>q. QED
        BY <2>1, <4>1 DEF Opens
    <3>2. CASE p \in {"number", "unknown"}
      <4>1. PICK c \in {"N", "X"} : Spelling[p] = <<"%", c, "%">>
        BY <1>8, <3>2, SpellingIs
      <4>2. Len(<<"%", c, "%">>) = 3 /\ <<"%", c, "%">>[1] = "%" /\ <<"%", c, "%">>[2] = c
        OBVIOUS
      <4>3. text[a + 1] = "%" /\ text[a + 2] = c /\ a \in Nat
        BY <1>2, <4>1, <4>2 DEF IsPiece
      <4>q. QED
        BY <2>1, <4>1, <4>3 DEF Opens
    <3>q. QED
      BY <1>12, <3>1, <3>2
  <2>q. QED
    BY <2>2
<1>q. QED
  BY <1>2, <1>10, <1>11, <1>12, SpellingIs DEF IsPiece

\* For the placeholder of the number the number is written.
LEMMA CopyNumber ==
    ASSUME NEW pieces \in Seq(Pieces), NEW number \in Seq(Digits), NEW text \in Seq(Chars),
           NEW k, NEW w, Copied(text, pieces, number, k, w), k + 1 <= Len(text),
           text[k] = "%", text[k + 1] = "N"
    PROVE  Copied(text, pieces, number, k + 3, w \o number)
<1>1. PICK at, exp, m : CopiedTo(at, exp, m, text, pieces, number, k, w)
  BY DEF Copied
<1> DEFINE p == pieces[m + 1]
           a == at[m]
           e == at[m + 1]
           done == exp[m]
<1>a. Len(text) \in Nat /\ a \in Nat
  BY <1>1, CopyAt DEF InPiece
<1>b. k \in Nat
  BY <1>1, <1>a DEF CopiedTo
<1>c. k <= Len(text)
  BY <1>a, <1>b
<1>2. /\ m # Len(pieces) /\ m \in 0..Len(pieces) /\ m + 1 \in 0..Len(pieces)
      /\ IsPiece(p, a, e, text, Spelling)
  BY <1>1, <1>c, CopyWhere
<1>3. done \in Seq(Chars) /\ exp[m + 1] = done \o (IF p = "number" THEN number ELSE Spelling[p])
  <2>1. InPiece(at, exp, m, text, pieces, number, k, w)
    BY <1>1, CopyAt
  <2>q. QED
    BY <1>2, <2>1 DEF InPiece
<1>4. \/ k = a + 1 /\ w = done
      \/ p = "space" /\ (k = a + 2 \/ k = a + 3)
  BY <1>1, <1>2 DEF CopiedTo
<1>5. /\ IsLayout(at, text, pieces, Spelling)
      /\ IsFlat(exp, Substitutes(pieces, number), Len(pieces), Chars)
      /\ exp[Len(pieces)] = Expanded(pieces, number)
  BY <1>1 DEF CopiedTo
<1>6. ASSUME k + 3 = e + 1, w \o number = exp[m + 1]
      PROVE  Copied(text, pieces, number, k + 3, w \o number)
  <2>1. CopiedTo(at, exp, m + 1, text, pieces, number, k + 3, w \o number)
    BY <1>2, <1>5, <1>6 DEF CopiedTo
  <2>q. QED
    BY <2>1 DEF Copied
<1> HIDE DEF p, a, e, done
<1>8. Spelling \in Spellings
  BY DEF Spellings
<1>9. /\ Len(<<"a">>) = 1 /\ Len(<<"u">>) = 1 /\ Len(<<"%">>) = 1
      /\ Len(<<"%", "2", "0">>) = 3 /\ Len(<<"%", "N", "%">>) = 3 /\ Len(<<"%", "X", "%">>) = 3
  OBVIOUS
<1>10. CASE p \in {"text", "umlaut"}
  <2>1. PICK c \in {"a", "u"} : Spelling[p] = <<c>>
    BY <1>8, <1>10, SpellingIs
  <2>2. text[a + 1] = c /\ k = a + 1
    BY <1>2, <1>4, <1>9, <1>10, <2>1 DEF IsPiece
  <2>q. QED
    BY <2>2
<1>11. CASE p = "space"
  <2>1. Spelling[p] = <<"%", "2", "0">>
    BY <1>8, <1>11, SpellingIs
  <2>2. text[a + 1] = "%" /\ text[a + 2] = "2" /\ text[a + 3] = "0" /\ a \in Nat
    BY <1>2, <1>9, <2>1 DEF IsPiece
  <2>q. QED
    BY <1>4, <2>2
<1>12. CASE p = "percent"
  <2>0. Spelling[p] = <<"%">>
    BY <1>8, <1>12, SpellingIs
  <2>1. k = a + 1 /\ e = k
    BY <1>2, <1>4, <1>9, <1>12, <2>0 DEF IsPiece
  <2>2. text[k + 1] \in Firsts
    BY <1>2, <1>a, <1>b, <2>1 DEF IsPiece
  <2>q. QED
    BY <2>2 DEF Firsts
<1>13. CASE p = "unknown"
  <2>0. Spelling[p] = <<"%", "X", "%">> /\ <<"%", "X", "%">>[2] = "X"
    BY <1>8, <1>13, SpellingIs
  <2>1. k = a + 1 /\ text[a + 2] = "X"
    BY <1>2, <1>4, <1>9, <1>13, <2>0 DEF IsPiece
  <2>q. QED
    BY <1>a, <2>1
<1>14. CASE p = "number"
  <2>0. Spelling[p] = <<"%", "N", "%">>
    BY <1>8, <1>14, SpellingIs
  <2>1. k = a + 1 /\ w = done /\ e = a + 3
    BY <1>2, <1>4, <1>9, <1>14, <2>0 DEF IsPiece
  <2>q. QED
    BY <1>3, <1>6, <1>14, <1>a, <2>1
<1>q. QED
  BY <1>2, <1>10, <1>11, <1>12, <1>13, <1>14, SpellingIs DEF IsPiece

-----------------------------------------------------------------------------
(* The url fits.  The first loop of _cirlw_prepare_url leaves a trace: at    *)
(* every place where it has stood, the sum of the differences up to it.  The *)
(* second loop stands at the same places, and has written there what the     *)
(* trace says.                                                               *)

\* Where a loop goes on from k, and by how much the url has become longer then.
After(text, k) == IF Opens(text, k) THEN CloseOf(text, k) + 1 ELSE k + 1
Delta(text, number, k) ==
    IF Opens(text, k) /\ SubSeq(text, k + 1, CloseOf(text, k) - 1) = <<"N">>
    THEN Len(number) - Len(SubSeq(text, k + 1, CloseOf(text, k) - 1)) - 2 ELSE 0

\* The trace of the first loop up to the place upto, where the sum is total.
IsTrace(sum, text, number, upto, total) ==
    /\ DOMAIN sum \subseteq 1..upto /\ \A k \in DOMAIN sum : sum[k] \in Int
    /\ 1 \in DOMAIN sum /\ sum[1] = 0
    /\ upto \in DOMAIN sum /\ sum[upto] = total
    /\ \A k \in DOMAIN sum \ {upto} :
          /\ k <= Len(text)
          /\ Opens(text, k) => CloseOf(text, k) \in k + 1 .. Len(text)
          /\ After(text, k) \in DOMAIN sum
          /\ sum[After(text, k)] = sum[k] + Delta(text, number, k)
    /\ \A k \in DOMAIN sum : k + sum[k] <= upto + total

Usable(text) == text \in Seq(Chars) /\ AllClosed(text)
Loaded == doc \in Documents /\ sources \in {<<>>, SourcesOf(doc)}

\* A lookup uses the first element with the configured id.
IsFirst(k) ==
    /\ k \in 1..Len(Elements(doc)) /\ Elements(doc)[k].id = SourceId
    /\ \A k2 \in 1..k - 1 : Elements(doc)[k2].id # SourceId
Chosen == pc \in {"measure", "fill", "perform", "match"} =>
    \E k : IsFirst(k) /\ source = SourceOf(Elements(doc)[k])

UrlInUse == pc \in {"measure", "fill"} =>
    /\ Usable(url) /\ caller.number \in Seq(Digits)
    /\ i \in Nat \ {0} /\ diff \in Int /\ out \in Seq(Chars)
Measured == pc = "measure" =>
    /\ room = 0
    /\ out = <<>>
    /\ \E walk : IsWalk(walk, url) /\ i \in walk
    /\ \E sum : IsTrace(sum, url, caller.number, i, diff)
Filled == pc = "fill" =>
    /\ room = Len(url) + 1 + diff
    /\ \E sum : /\ IsTrace(sum, url, caller.number, Len(url) + 1, diff)
                /\ i \in DOMAIN sum /\ Len(out) = i - 1 + sum[i]

\* The inductive invariant.
UrlInv ==
    /\ Loaded /\ Chosen
    /\ UrlInUse /\ Measured /\ Filled
    /\ UrlFits

-----------------------------------------------------------------------------
(* What the two loops rest on.                                             *)

\* A "%" that closes the placeholder at k is the one that the loops stop at.
LEMMA CloseIsIt ==
    ASSUME NEW text, NEW k, NEW c \in k + 1 .. Len(text), Closes(text, k, c)
    PROVE  CloseOf(text, k) \in k + 1 .. Len(text) /\ Closes(text, k, CloseOf(text, k))
BY DEF CloseOf

\* The closing "%" of a placeholder is not passed by.
LEMMA CloseIsUnique ==
    ASSUME NEW text, Len(text) \in Nat, NEW k \in Nat,
           NEW c \in k + 1 .. Len(text), Closes(text, k, c)
    PROVE  CloseOf(text, k) = c
<1>1. CloseOf(text, k) \in k + 1 .. Len(text) /\ Closes(text, k, CloseOf(text, k))
  BY CloseIsIt
<1>2. ~(c < CloseOf(text, k)) /\ ~(CloseOf(text, k) < c)
  <2> DEFINE d == CloseOf(text, k)
  <2>1. d \in k + 1 .. Len(text) /\ Closes(text, k, d)
    BY <1>1
  <2> HIDE DEF d
  <2>2. ASSUME c < d PROVE FALSE
    BY <2>1, <2>2 DEF Closes
  <2>3. ASSUME d < c PROVE FALSE
    BY <2>1, <2>3 DEF Closes
  <2>q. QED
    BY <2>2, <2>3 DEF d
<1>q. QED
  BY <1>1, <1>2

\* From a place of a closed text a loop goes on to another one, further on.
LEMMA WalkGoesOn ==
    ASSUME NEW text \in Seq(Chars), NEW walk, IsWalk(walk, text),
           NEW k \in walk, k <= Len(text)
    PROVE  /\ k \in 1..Len(text)
           /\ Opens(text, k) => CloseOf(text, k) \in k + 1 .. Len(text)
           /\ After(text, k) \in walk /\ After(text, k) \in Nat /\ k < After(text, k)
<1>0. Len(text) \in Nat /\ k \in 1..Len(text) /\ k \in walk \ {Len(text) + 1}
  BY LenProperties DEF IsWalk
<1>1. CASE Opens(text, k)
  <2>1. PICK c \in k + 1 .. Len(text) : Closes(text, k, c) /\ c + 1 \in walk
    BY <1>0, <1>1 DEF IsWalk
  <2>2. CloseOf(text, k) = c
    BY <1>0, <2>1, CloseIsUnique
  <2>q. QED
    BY <1>0, <1>1, <2>1, <2>2 DEF After
<1>2. CASE ~Opens(text, k)
  BY <1>0, <1>2 DEF After, IsWalk
<1>q. QED
  BY <1>1, <1>2

\* A step does not take back what the url reaches, however short the number is.
LEMMA StepFits ==
    ASSUME NEW text \in Seq(Chars), NEW number \in Seq(Digits), NEW k \in 1..Len(text),
           Opens(text, k) => CloseOf(text, k) \in k + 1 .. Len(text)
    PROVE  /\ Delta(text, number, k) \in Int
           /\ After(text, k) \in Nat /\ k < After(text, k)
           /\ k <= After(text, k) + Delta(text, number, k)
<1>0. Len(text) \in Nat /\ Len(number) \in Nat
  BY LenProperties
<1>1. CASE Opens(text, k)
  <2> DEFINE c == CloseOf(text, k)
  <2>1. c \in k + 1 .. Len(text)
    BY <1>1
  <2>2. Len(SubSeq(text, k + 1, c - 1)) = c - k - 1
    <3>1. k + 1 \in 1..Len(text) + 1 /\ c - 1 \in k + 1 - 1 .. Len(text) /\ c \in Int
      BY <1>0, <2>1
    <3>q. QED
      BY <1>0, <2>1, <3>1, SubSeqProperties
  <2> DEFINE m == Len(SubSeq(text, k + 1, c - 1))
             n == Len(number)
  <2>3. After(text, k) = c + 1 /\ Delta(text, number, k) \in {n - m - 2, 0}
    BY <1>1 DEF After, Delta
  <2>4. c \in Int /\ k < c /\ k \in Nat /\ n \in Nat /\ m = c - k - 1
    BY <1>0, <2>1, <2>2
  <2> HIDE DEF c, m, n
  <2>5. /\ n - m - 2 \in Int /\ c + 1 \in Nat /\ k < c + 1
        /\ k <= c + 1 + (n - m - 2) /\ k <= c + 1 + 0
    BY <2>4
  <2>6. Delta(text, number, k) = n - m - 2 \/ Delta(text, number, k) = 0
    BY <2>3
  <2>q. QED
    BY <2>3, <2>5, <2>6
<1>2. CASE ~Opens(text, k)
  BY <1>0, <1>2 DEF After, Delta
<1>q. QED
  BY <1>1, <1>2

\* The trace grows by a step of the first loop.
LEMMA TraceGrows ==
    ASSUME NEW text \in Seq(Chars), NEW number \in Seq(Digits), NEW k \in 1..Len(text),
           Opens(text, k) => CloseOf(text, k) \in k + 1 .. Len(text),
           NEW sum, NEW total \in Int, IsTrace(sum, text, number, k, total)
    PROVE  \E longer : IsTrace(longer, text, number, After(text, k),
                               total + Delta(text, number, k))
<1> DEFINE next == After(text, k)
           delta == Delta(text, number, k)
           longer == [p \in DOMAIN sum \cup {next} |-> IF p = next THEN total + delta ELSE sum[p]]
<1>0. /\ Len(text) \in Nat /\ delta \in Int /\ next \in Nat /\ k < next
      /\ k <= next + delta
  BY StepFits, LenProperties
<1>1. next \notin DOMAIN sum
  BY <1>0 DEF IsTrace
<1>2. /\ DOMAIN longer = DOMAIN sum \cup {next}
      /\ longer[next] = total + delta
      /\ \A p \in DOMAIN sum : longer[p] = sum[p]
  BY <1>1
<1> HIDE DEF longer
<1>3. DOMAIN longer \subseteq 1..next /\ \A p \in DOMAIN longer : longer[p] \in Int
  BY <1>0, <1>2 DEF IsTrace
<1>4. 1 \in DOMAIN longer /\ longer[1] = 0
  BY <1>2 DEF IsTrace
<1>5. ASSUME NEW p \in DOMAIN longer \ {next}
      PROVE  /\ p <= Len(text)
             /\ Opens(text, p) => CloseOf(text, p) \in p + 1 .. Len(text)
             /\ After(text, p) \in DOMAIN longer
             /\ longer[After(text, p)] = longer[p] + Delta(text, number, p)
  <2>0. p \in DOMAIN sum
    BY <1>2
  <2>1. CASE p = k
    BY <1>0, <1>2, <2>0, <2>1 DEF IsTrace
  <2>2. CASE p # k
    <3>1. /\ p <= Len(text) /\ (Opens(text, p) => CloseOf(text, p) \in p + 1 .. Len(text))
          /\ After(text, p) \in DOMAIN sum
          /\ sum[After(text, p)] = sum[p] + Delta(text, number, p)
      BY <2>0, <2>2 DEF IsTrace
    <3>q. QED
      BY <1>2, <2>0, <3>1
  <2>q. QED
    BY <2>1, <2>2
<1>6. \A p \in DOMAIN longer : p + longer[p] <= next + (total + delta)
  <2>1. \A p \in DOMAIN sum : p \in Nat /\ sum[p] \in Int /\ p + sum[p] <= k + total
    BY DEF IsTrace
  <2>q. QED
    BY <1>0, <1>2, <2>1
<1>7. IsTrace(longer, text, number, next, total + delta)
  <2> HIDE DEF next, delta
  <2>q. QED
    BY <1>2, <1>3, <1>4, <1>5, <1>6 DEF IsTrace
<1>q. QED
  BY <1>7

\* The second loop stands where the first one has stood, and goes on as it did.
LEMMA TraceLeads ==
    ASSUME NEW text \in Seq(Chars), NEW number \in Seq(Digits), NEW total \in Int,
           NEW sum, IsTrace(sum, text, number, Len(text) + 1, total),
           NEW k \in DOMAIN sum, k <= Len(text)
    PROVE  /\ k \in 1..Len(text)
           /\ Opens(text, k) => CloseOf(text, k) \in k + 1 .. Len(text)
           /\ After(text, k) \in DOMAIN sum
           /\ sum[k] \in Int /\ sum[After(text, k)] = sum[k] + Delta(text, number, k)
<1>1. Len(text) \in Nat /\ k \in DOMAIN sum \ {Len(text) + 1}
  BY LenProperties
<1>q. QED
  BY <1>1 DEF IsTrace

-----------------------------------------------------------------------------
(* The sources.                                                            *)

\* What the list holds for an element: its template, spelled, which closes what
\* it opens.
LEMMA SourcesAre ==
    ASSUME NEW d \in Documents, NEW k \in DOMAIN SourcesOf(d)
    PROVE  /\ DOMAIN SourcesOf(d) = 1..Len(Elements(d))
           /\ SourcesOf(d)[k] = SourceOf(Elements(d)[k])
           /\ SourcesOf(d)[k].id = Elements(d)[k].id
           /\ Last(Elements(d)[k].queries).template \in Seq(Pieces)
           /\ SourcesOf(d)[k].query = Spelled(Last(Elements(d)[k].queries).template)
           /\ Usable(SourcesOf(d)[k].query)
<1> DEFINE template == Last(Elements(d)[k].queries).template
<1>1. DOMAIN SourcesOf(d) = 1..Len(Elements(d)) /\ SourcesOf(d)[k] = SourceOf(Elements(d)[k])
  BY DEF SourcesOf
<1>2. /\ SourcesOf(d)[k].id = Elements(d)[k].id
      /\ SourcesOf(d)[k].query = Spelled(template)
  BY <1>1 DEF SourceOf
<1>3. template \in Seq(Pieces) /\ AllClosed(SourcesOf(d)[k].query)
  BY TemplateAssumption DEF Pieces
<1> HIDE DEF template
<1>4. Spelled(template) \in Seq(Chars)
  <2>1. Spelled(template) = SpelledAs(template, Spelling)
    BY DEF Spelled, SpelledAs
  <2>2. Spelling \in Spellings
    BY DEF Spellings
  <2>q. QED
    BY <1>3, <2>1, <2>2, LayoutExists
<1>5. Usable(SourcesOf(d)[k].query)
  BY <1>2, <1>3, <1>4 DEF Usable
<1>q. QED
  BY <1>1, <1>2, <1>3, <1>5 DEF template

-----------------------------------------------------------------------------
(* The inductive invariant.                                                *)

\* Before the sources are read there is no url.
LEMMA InitUrl == Init => UrlInv
<1> SUFFICES ASSUME Init PROVE UrlInv
  OBVIOUS
<1>q. QED
  BY DEF Init, UrlInv, Loaded, Chosen, UrlInUse, Measured, Filled, UrlFits

\* The templates of a source file close what they open.
LEMMA LoadUrl == UrlInv /\ Load => UrlInv'
<1> SUFFICES ASSUME UrlInv, Load PROVE UrlInv'
  OBVIOUS
<1>1. Loaded'
  BY DEF Load, UrlInv, Loaded
<1>q. QED
  BY <1>1 DEF Load, UrlInv, Chosen, UrlInUse, Measured, Filled, UrlFits, urlVars

\* A lookup begins with nothing measured, at the start of a url that is closed.
LEMMA GetCallerUrl ==
    ASSUME UrlInv, NEW number \in Numbers, GetCaller(number) PROVE UrlInv'
<1>0. room' = 0 /\ out' = <<>> /\ i' = 1 /\ diff' = 0 /\ doc' = doc /\ sources' = sources
  BY DEF GetCaller
<1>1. CASE pc' = "idle"
  BY <1>0, <1>1 DEF UrlInv, Loaded, Chosen, IsFirst, UrlInUse, Measured, Filled, UrlFits
<1>2. CASE pc' # "idle"
  <2>0. /\ doc \in Documents
        /\ \E k \in DOMAIN SourcesOf(doc) :
              /\ pc' = "measure" /\ source' = SourcesOf(doc)[k] /\ SourcesOf(doc)[k].id = SourceId
              /\ \A k2 \in DOMAIN SourcesOf(doc) : k2 < k => SourcesOf(doc)[k2].id # SourceId
    <3>1. PICK k \in DOMAIN sources :
              /\ pc' = "measure" /\ source' = sources[k] /\ sources[k].id = SourceId
              /\ \A k2 \in DOMAIN sources : k2 < k => sources[k2].id # SourceId
      BY <1>2 DEF GetCaller, Return
    <3>2. DOMAIN <<>> = {}
      OBVIOUS
    <3>3. sources = SourcesOf(doc) /\ doc \in Documents
      BY <3>1, <3>2 DEF UrlInv, Loaded
    <3>q. QED
      BY <3>1, <3>3
  <2>1. PICK k \in DOMAIN SourcesOf(doc) :
              /\ pc' = "measure" /\ source' = SourcesOf(doc)[k] /\ SourcesOf(doc)[k].id = SourceId
              /\ \A k2 \in DOMAIN SourcesOf(doc) : k2 < k => SourcesOf(doc)[k2].id # SourceId
    BY <2>0
  <2>2. Usable(url)'
    BY <2>0, <2>1, SourcesAre DEF url
  <2>c. Chosen'
    <3>1. /\ k \in 1..Len(Elements(doc)) /\ DOMAIN SourcesOf(doc) = 1..Len(Elements(doc))
          /\ \A k2 \in DOMAIN SourcesOf(doc) :
                /\ SourcesOf(doc)[k2] = SourceOf(Elements(doc)[k2])
                /\ SourcesOf(doc)[k2].id = Elements(doc)[k2].id
      BY <2>0, <2>1, SourcesAre
    <3>2. Elements(doc)[k].id = SourceId /\ source' = SourceOf(Elements(doc)[k])
      BY <2>1, <3>1
    <3>3. \A k2 \in 1..k - 1 : Elements(doc)[k2].id # SourceId
      <4>1. ASSUME NEW k2 \in 1..k - 1 PROVE k2 \in 1..Len(Elements(doc)) /\ k2 < k
        BY <3>1
      <4>q. QED
        BY <2>1, <3>1, <4>1
    <3>q. QED
      BY <1>0, <3>1, <3>2, <3>3 DEF Chosen, IsFirst
  <2>3. caller'.number \in Seq(Digits)
    BY LookupAssumption DEF GetCaller, Nobody
  <2>4. <<>> \in Seq(Chars)
    OBVIOUS
  <2> DEFINE text == url'
  <2>5. PICK walk : IsWalk(walk, text)
    BY <2>2 DEF Usable, AllClosed
  <2>6. 1 \in walk
    BY <2>5 DEF IsWalk
  <2>7. IsTrace([k2 \in {1} |-> 0], text, caller'.number, 1, 0)
    BY DEF IsTrace
  <2>8. UrlInUse'
    BY <1>0, <2>2, <2>3, <2>4 DEF UrlInUse
  <2>9. Measured'
    BY <1>0, <2>1, <2>5, <2>6, <2>7 DEF Measured
  <2>q. QED
    BY <1>0, <2>1, <2>8, <2>9, <2>c DEF UrlInv, Loaded, Filled, UrlFits
<1>q. QED
  BY <1>1, <1>2

\* The first loop leaves its trace.
LEMMA MeasureUrl == UrlInv /\ Measure => UrlInv'
<1> SUFFICES ASSUME UrlInv, Measure PROVE UrlInv'
  OBVIOUS
<1> DEFINE text == url
           number == caller.number
<1>0. /\ pc = "measure" /\ pc' = "measure" /\ i <= Len(text)
      /\ url' = text /\ caller' = caller /\ room' = room /\ out' = out
      /\ doc' = doc /\ sources' = sources /\ source' = source
  BY DEF Measure, url
<1>1. /\ Usable(text) /\ text \in Seq(Chars) /\ number \in Seq(Digits)
      /\ diff \in Int /\ out \in Seq(Chars) /\ room = 0 /\ out = <<>>
  BY <1>0 DEF UrlInv, UrlInUse, Usable, Measured
<1>2. PICK walk : IsWalk(walk, text) /\ i \in walk
  BY <1>0 DEF UrlInv, Measured
<1>3. PICK sum : IsTrace(sum, text, number, i, diff)
  BY <1>0 DEF UrlInv, Measured
<1>4. i' = After(text, i) /\ diff' = diff + Delta(text, number, i)
  <2>1. diff + 0 = diff
    BY <1>1
  <2>q. QED
    BY <2>1 DEF Measure, After, Delta, SubstituteDiff, Pattern, Closing, url
<1> HIDE DEF text, number
<1>5. /\ i \in 1..Len(text) /\ (Opens(text, i) => CloseOf(text, i) \in i + 1 .. Len(text))
      /\ After(text, i) \in walk
  BY <1>0, <1>1, <1>2, WalkGoesOn
<1>6. Delta(text, number, i) \in Int /\ After(text, i) \in Nat /\ i < After(text, i)
  BY <1>1, <1>5, StepFits
<1>7. PICK longer : IsTrace(longer, text, number, i', diff')
  BY <1>1, <1>3, <1>4, <1>5, TraceGrows
<1>8. UrlInUse'
  BY <1>0, <1>1, <1>4, <1>5, <1>6 DEF UrlInUse, number
<1>9. Measured'
  BY <1>0, <1>1, <1>2, <1>4, <1>5, <1>7 DEF Measured, number
<1>q. QED
  BY <1>0, <1>1, <1>8, <1>9 DEF UrlInv, Loaded, Chosen, IsFirst, Filled, UrlFits

\* The memory is for what the trace says of the end of the url.
LEMMA AllocateUrl == UrlInv /\ Allocate => UrlInv'
<1> SUFFICES ASSUME UrlInv, Allocate PROVE UrlInv'
  OBVIOUS
<1> DEFINE text == url
           number == caller.number
<1>0. /\ pc = "measure" /\ i > Len(text) /\ url' = text /\ caller' = caller
      /\ diff' = diff /\ out' = out /\ doc' = doc /\ sources' = sources /\ source' = source
  BY DEF Allocate, url
<1>1. /\ Usable(text) /\ text \in Seq(Chars) /\ number \in Seq(Digits)
      /\ diff \in Int /\ out \in Seq(Chars) /\ room = 0 /\ out = <<>>
  BY <1>0 DEF UrlInv, UrlInUse, Usable, Measured
<1>2. CASE pc' = "fill" /\ room' = Len(text) + 1 + diff /\ i' = 1
  <2>1. PICK walk : IsWalk(walk, text) /\ i \in walk
    BY <1>0 DEF UrlInv, Measured
  <2>2. PICK sum : IsTrace(sum, text, number, i, diff)
    BY <1>0 DEF UrlInv, Measured
  <2>3. Len(text) \in Nat /\ Len(<<>>) = 0
    BY <1>1, LenProperties
  <2>4. i = Len(text) + 1
    BY <1>0, <2>1, <2>3 DEF IsWalk
  <2>5. 1 \in DOMAIN sum /\ sum[1] = 0 /\ \A k \in DOMAIN sum : k + sum[k] <= i + diff
    BY <2>2 DEF IsTrace
  <2>6. Len(out) = 1 - 1 + sum[1]
    BY <1>1, <2>3, <2>5
  <2>7. Filled'
    BY <1>0, <1>2, <2>2, <2>4, <2>5, <2>6 DEF Filled, number
  <2>8. UrlInUse'
    BY <1>0, <1>1, <1>2 DEF UrlInUse, number
  <2>9. UrlFits'
    BY <1>0, <1>1, <1>2, <2>3, <2>4, <2>5 DEF UrlFits
  <2>q. QED
    BY <1>0, <1>2, <2>7, <2>8, <2>9 DEF UrlInv, Loaded, Chosen, IsFirst, Measured
<1>3. CASE pc' = "idle" /\ room' = room
  BY <1>0, <1>1, <1>3 DEF UrlInv, Loaded, Chosen, IsFirst, UrlInUse, Measured, Filled, UrlFits
<1>q. QED
  BY <1>2, <1>3 DEF Allocate, Return, url

\* The second loop writes what the trace says.
LEMMA FillUrl == UrlInv /\ Fill => UrlInv'
<1> SUFFICES ASSUME UrlInv, Fill PROVE UrlInv'
  OBVIOUS
<1> DEFINE text == url
           number == caller.number
<1>0. /\ pc = "fill" /\ pc' = "fill" /\ i <= Len(text) /\ url' = text /\ caller' = caller
      /\ diff' = diff /\ room' = room /\ doc' = doc /\ sources' = sources /\ source' = source
  BY DEF Fill, url
<1>1. /\ Usable(text) /\ text \in Seq(Chars) /\ number \in Seq(Digits)
      /\ diff \in Int /\ out \in Seq(Chars) /\ room = Len(text) + 1 + diff
  BY <1>0 DEF UrlInv, UrlInUse, Usable, Filled
<1>2. PICK sum : /\ IsTrace(sum, text, number, Len(text) + 1, diff)
                 /\ i \in DOMAIN sum /\ Len(out) = i - 1 + sum[i]
  BY <1>0 DEF UrlInv, Filled
<1>3. Len(text) \in Nat /\ Len(number) \in Nat /\ Len(out) \in Nat /\ i \in 1..Len(text)
      /\ (Opens(text, i) => CloseOf(text, i) \in i + 1 .. Len(text))
      /\ sum[i] \in Int /\ sum[After(text, i)] = sum[i] + Delta(text, number, i)
  BY <1>0, <1>1, <1>2, TraceLeads, LenProperties
<1>4. out' \in Seq(Chars) /\ i' = After(text, i) /\ Len(out') = i' - 1 + sum[i']
  <2>1. CASE ~Opens(text, i)
    <3>1. out' = Append(out, text[i]) /\ i' = i + 1
      BY <2>1 DEF Fill
    <3>2. text[i] \in Chars
      BY <1>1, <1>3, ElementOfSeq
    <3>3. i' = After(text, i) /\ Delta(text, number, i) = 0
      BY <2>1, <3>1 DEF After, Delta
    <3>4. out' \in Seq(Chars) /\ Len(out') = Len(out) + 1
      BY <1>1, <3>1, <3>2, AppendProperties
    <3> HIDE DEF text, number
    <3>q. QED
      BY <1>2, <1>3, <3>1, <3>3, <3>4
  <2>2. CASE Opens(text, i)
    <3> DEFINE c == CloseOf(text, i)
               pattern == SubSeq(text, i + 1, c - 1)
    <3>1. out' = out \o number /\ i' = c + 1 /\ pattern = <<"N">>
      BY <2>2 DEF Fill, Closing, Pattern
    <3>2. c \in i + 1 .. Len(text)
      BY <1>3, <2>2
    <3>3. Len(pattern) = c - i - 1
      <4>1. i + 1 \in 1..Len(text) + 1 /\ c - 1 \in i + 1 - 1 .. Len(text) /\ c \in Int
        BY <1>3, <3>2
      <4> HIDE DEF text, c
      <4>q. QED
        BY <1>1, <1>3, <3>2, <4>1, SubSeqProperties
    <3>4. i' = After(text, i) /\ Delta(text, number, i) = Len(number) - Len(pattern) - 2
      BY <2>2, <3>1 DEF After, Delta
    <3>5. number \in Seq(Chars)
      BY <1>1, SeqMonotonic DEF Chars
    <3>6. out' \in Seq(Chars) /\ Len(out') = Len(out) + Len(number)
      BY <1>1, <3>1, <3>5, ConcatProperties
    <3>7. sum[i'] = sum[i] + (Len(number) - (c - i - 1) - 2)
      BY <1>3, <3>3, <3>4
    <3>8. c \in Int
      BY <3>2
    <3>9. Len(out') = c + sum[i']
      <4> DEFINE s == sum[i]
                 s2 == sum[i']
                 l == Len(out)
                 l2 == Len(out')
                 n == Len(number)
      <4>1. /\ s \in Int /\ l \in Nat /\ n \in Nat /\ c \in Int /\ i \in Int
            /\ l = i - 1 + s /\ l2 = l + n /\ s2 = s + (n - (c - i - 1) - 2)
        BY <1>2, <1>3, <3>6, <3>7, <3>8
      <4> HIDE DEF s, s2, l, l2, n, c
      <4>2. l2 = c + s2
        BY <4>1
      <4>q. QED
        BY <4>2 DEF l2, s2
    <3>10. i' - 1 = c
      BY <3>1, <3>8
    <3> HIDE DEF text, number, c, pattern
    <3>q. QED
      BY <3>4, <3>6, <3>9, <3>10
  <2>q. QED
    BY <2>1, <2>2
<1> HIDE DEF text, number
<1>5. i' \in DOMAIN sum
  BY <1>0, <1>1, <1>2, <1>4, TraceLeads
<1>6. Len(text) \in Nat /\ i' \in Nat \ {0} /\ sum[i'] \in Int
      /\ i' + sum[i'] <= Len(text) + 1 + diff
  <2>1. \A k \in DOMAIN sum : k + sum[k] <= Len(text) + 1 + diff /\ sum[k] \in Int
    BY <1>2 DEF IsTrace
  <2>2. DOMAIN sum \subseteq 1..Len(text) + 1
    BY <1>2 DEF IsTrace
  <2>q. QED
    BY <1>3, <1>5, <2>1, <2>2
<1>7. Filled'
  BY <1>0, <1>1, <1>2, <1>4, <1>5 DEF Filled, number
<1>8. UrlInUse' /\ UrlFits'
  BY <1>0, <1>1, <1>4, <1>6 DEF UrlInUse, UrlFits, number
<1>q. QED
  BY <1>0, <1>7, <1>8 DEF UrlInv, Loaded, Chosen, IsFirst, Measured

\* From then on the url stays as it is.
LEMMA RestUrl ==
    ASSUME UrlInv, Perform \/ ReadData \/ PerformFails \/ PerformEnds \/ Match \/ Decode
    PROVE  UrlInv'
<1>1. /\ pc' \notin {"measure", "fill"} /\ room' = room /\ out' = out
      /\ doc' = doc /\ sources' = sources /\ source' = source
      /\ pc' = "idle" \/ pc \in {"fill", "perform", "match"}
  BY DEF Perform, ReadData, PerformFails, PerformEnds, Match, InLine, StillMatching, Decode,
         Return, urlVars
<1>2. Loaded'
  BY <1>1 DEF UrlInv, Loaded
<1>3. Chosen'
  BY <1>1 DEF UrlInv, Chosen, IsFirst
<1>q. QED
  BY <1>1, <1>2, <1>3 DEF UrlInv, UrlInUse, Measured, Filled, UrlFits

\* It holds in every reachable state.
THEOREM UrlInvHolds == Spec => []UrlInv
<1>1. UrlInv /\ UNCHANGED vars => UrlInv'
  BY DEF vars, urlVars, UrlInv, Loaded, Chosen, IsFirst, UrlInUse, Measured, Filled, UrlFits, url
<1>2. UrlInv /\ [Next]_vars => UrlInv'
  BY <1>1, LoadUrl, GetCallerUrl, MeasureUrl, AllocateUrl, FillUrl, RestUrl DEF Next, Lookup, Web
<1>q. QED
  BY InitUrl, <1>2, PTL DEF Spec

-----------------------------------------------------------------------------
\* What _cirlw_prepare_url writes, its final NUL included, fits into what it
\* has asked for, whatever the template, the number and the answers are.
THEOREM UrlHolds == Spec => []UrlFits
<1>1. UrlInv => UrlFits
  BY DEF UrlInv
<1>q. QED
  BY <1>1, UrlInvHolds, PTL

-----------------------------------------------------------------------------
(* The url that is asked for.                                              *)

\* The second loop copies the template and puts the number into it.
Copying == pc = "fill" => Copied(url, Template, caller.number, i, out)
AskInv  == Copying /\ UrlAsked

\* The query of a lookup is the template of the first element with the id.
LEMMA TemplateIs ==
    ASSUME UrlInv, pc \in {"measure", "fill", "perform", "match"}
    PROVE  Template \in Seq(Pieces) /\ url = Spelled(Template)
<1>1. doc \in Documents /\ \E k : IsFirst(k) /\ source = SourceOf(Elements(doc)[k])
  BY DEF UrlInv, Loaded, Chosen
<1>2. PICK k : IsFirst(k) /\ source = SourceOf(Elements(doc)[k])
  BY <1>1
<1>3. k \in DOMAIN SourcesOf(doc)
  BY <1>2 DEF IsFirst, SourcesOf
<1>4. /\ Last(Elements(doc)[k].queries).template \in Seq(Pieces)
      /\ SourcesOf(doc)[k] = SourceOf(Elements(doc)[k])
      /\ SourcesOf(doc)[k].query = Spelled(Last(Elements(doc)[k].queries).template)
  BY <1>1, <1>3, SourcesAre
<1>5. Template = Last(Elements(doc)[k].queries).template
  <2> DEFINE first == CHOOSE q \in 1..Len(Elements(doc)) :
                    /\ Elements(doc)[q].id = SourceId
                    /\ \A k2 \in 1..q - 1 : Elements(doc)[k2].id # SourceId
  <2>1. IsFirst(first)
    BY <1>2 DEF IsFirst
  <2>2. Template = Last(Elements(doc)[first].queries).template
    BY DEF Template
  <2> HIDE DEF first
  <2>3. ~(k < first) /\ ~(first < k) /\ k \in Int /\ first \in Int
    <3>1. k \in Int /\ first \in Int /\ k >= 1 /\ first >= 1
      BY <1>2, <2>1 DEF IsFirst
    <3>2. ASSUME k < first PROVE FALSE
      <4>1. k \in 1..first - 1
        BY <3>1, <3>2
      <4>q. QED
        BY <1>2, <2>1, <4>1 DEF IsFirst
    <3>3. ASSUME first < k PROVE FALSE
      <4>1. first \in 1..k - 1
        BY <3>1, <3>3
      <4>q. QED
        BY <1>2, <2>1, <4>1 DEF IsFirst
    <3>q. QED
      BY <3>1, <3>2, <3>3
  <2>q. QED
    BY <2>2, <2>3
<1>q. QED
  BY <1>2, <1>4, <1>5 DEF url

\* When the memory is there the second loop begins.
LEMMA AllocateAsks == UrlInv /\ AskInv /\ Allocate => AskInv'
<1> SUFFICES ASSUME UrlInv, AskInv, Allocate PROVE AskInv'
  OBVIOUS
<1>0. /\ pc = "measure" /\ url' = url /\ caller' = caller /\ out' = out /\ doc' = doc
      /\ (pc' = "fill" /\ i' = 1) \/ pc' = "idle"
  BY DEF Allocate, Return, url
<1>1. Template' = Template
  BY <1>0 DEF Template
<1>2. Template \in Seq(Pieces) /\ url = Spelled(Template) /\ out = <<>> /\ caller.number \in Seq(Digits)
  BY <1>0, TemplateIs DEF UrlInv, UrlInUse, Measured
<1>3. Copied(url, Template, caller.number, 1, out)
  BY <1>2, CopyStarts
<1>q. QED
  BY <1>0, <1>1, <1>3 DEF AskInv, Copying, UrlAsked

\* A turn of the second loop copies a letter or puts in the number.
LEMMA FillAsks == UrlInv /\ AskInv /\ Fill => AskInv'
<1> SUFFICES ASSUME UrlInv, AskInv, Fill PROVE AskInv'
  OBVIOUS
<1> DEFINE text == url
           number == caller.number
           pieces == Template
<1>0. /\ pc = "fill" /\ pc' = "fill" /\ i <= Len(text) /\ url' = text /\ caller' = caller
      /\ doc' = doc /\ diff \in Int
  BY DEF Fill, url, UrlInv, UrlInUse
<1>1. Template' = pieces
  BY <1>0 DEF Template
<1>2. /\ pieces \in Seq(Pieces) /\ text \in Seq(Chars) /\ number \in Seq(Digits)
      /\ Copied(text, pieces, number, i, out)
  BY <1>0, TemplateIs DEF UrlInv, UrlInUse, Usable, AskInv, Copying
<1>3. \/ ~Opens(text, i) /\ out' = Append(out, text[i]) /\ i' = i + 1
      \/ /\ Opens(text, i) /\ SubSeq(text, i + 1, CloseOf(text, i) - 1) = <<"N">>
         /\ out' = out \o number /\ i' = CloseOf(text, i) + 1
  BY DEF Fill, Pattern, Closing
<1>4. PICK sum : IsTrace(sum, text, number, Len(text) + 1, diff) /\ i \in DOMAIN sum
  BY <1>0 DEF UrlInv, Filled
<1> HIDE DEF text, number, pieces
<1>5. i \in 1..Len(text) /\ (Opens(text, i) => CloseOf(text, i) \in i + 1 .. Len(text))
  BY <1>0, <1>2, <1>4, TraceLeads
<1>6. Copied(text, pieces, number, i', out')
  <2>1. CASE ~Opens(text, i)
    <3>1. Copied(text, pieces, number, i + 1, Append(out, text[i]))
      BY <1>0, <1>2, <2>1, CopyLetter
    <3>q. QED
      BY <1>3, <2>1, <3>1
  <2>2. CASE Opens(text, i)
    <3> DEFINE c == CloseOf(text, i)
    <3>1. /\ SubSeq(text, i + 1, c - 1) = <<"N">> /\ out' = out \o number /\ i' = c + 1
          /\ c \in i + 1 .. Len(text) /\ text[i] = "%" /\ Len(text) \in Nat
      BY <1>2, <1>3, <1>5, <2>2, LenProperties DEF Opens
    <3> HIDE DEF c
    <3>2. i + 1 \in 1..Len(text) + 1 /\ c - 1 \in i + 1 - 1 .. Len(text) /\ c \in Int
      BY <1>5, <3>1
    <3>3. Len(SubSeq(text, i + 1, c - 1)) = c - i - 1
      BY <1>2, <1>5, <3>1, <3>2, SubSeqProperties
    <3>4. Len(<<"N">>) = 1 /\ <<"N">>[1] = "N"
      OBVIOUS
    <3>5. c = i + 2 /\ i + 1 <= Len(text) /\ c - 1 = i + 1 /\ i + 3 = c + 1
      <4>1. 1 = c - i - 1
        BY <3>1, <3>3, <3>4
      <4>2. c \in i + 1 .. Len(text) /\ Len(text) \in Nat /\ i \in Int /\ c \in Int
        BY <1>5, <3>1, <3>2
      <4>q. QED
        BY <4>1, <4>2
    <3>6. text[i + 1] = "N"
      <4>1. SubSeq(text, i + 1, i + 1)[1] = text[i + 1]
        BY <1>2, <1>5, <3>1, <3>5
      <4>q. QED
        BY <3>1, <3>4, <3>5, <4>1
    <3>7. Copied(text, pieces, number, i + 3, out \o number)
      BY <1>2, <3>1, <3>5, <3>6, CopyNumber
    <3>q. QED
      BY <3>1, <3>5, <3>7
  <2>q. QED
    BY <2>1, <2>2
<1>q. QED
  BY <1>0, <1>1, <1>6 DEF AskInv, Copying, UrlAsked, text, number, pieces

\* When the second loop has ended the url is complete.
LEMMA PerformAsks == UrlInv /\ AskInv /\ Perform => AskInv'
<1> SUFFICES ASSUME UrlInv, AskInv, Perform PROVE AskInv'
  OBVIOUS
<1>0. /\ pc = "fill" /\ pc' = "perform" /\ i > Len(url) /\ url' = url /\ caller' = caller
      /\ doc' = doc /\ out' = out
  BY DEF Perform, url, urlVars
<1>1. Template' = Template
  BY <1>0 DEF Template
<1>2. /\ Template \in Seq(Pieces) /\ url \in Seq(Chars) /\ caller.number \in Seq(Digits)
      /\ Copied(url, Template, caller.number, i, out)
  BY <1>0, TemplateIs DEF UrlInv, UrlInUse, Usable, AskInv, Copying
<1>3. out = Expanded(Template, caller.number)
  BY <1>0, <1>2, CopyEnds
<1>q. QED
  BY <1>0, <1>1, <1>3 DEF AskInv, Copying, UrlAsked

\* What is asked for stays what it is until the answer is there.
LEMMA RestAsks ==
    ASSUME AskInv, \/ Load \/ \E number \in Numbers : GetCaller(number)
                   \/ Measure \/ PerformEnds \/ Match \/ Decode \/ Web
    PROVE  AskInv'
<1>1. CASE Load \/ (\E number \in Numbers : GetCaller(number)) \/ Measure \/ PerformEnds
           \/ Match \/ Decode \/ PerformFails
  <2>1. pc' \notin {"fill", "perform"}
    BY <1>1 DEF Load, GetCaller, Measure, PerformEnds, Match, InLine, StillMatching, Decode,
       PerformFails, Return
  <2>q. QED
    BY <2>1 DEF AskInv, Copying, UrlAsked
<1>2. CASE ReadData
  <2>1. pc = "perform" /\ pc' = "perform" /\ doc' = doc /\ caller' = caller /\ out' = out
    BY <1>2 DEF ReadData, urlVars
  <2>2. Template' = Template
    BY <2>1 DEF Template
  <2>q. QED
    BY <2>1, <2>2 DEF AskInv, Copying, UrlAsked
<1>q. QED
  BY <1>1, <1>2 DEF Web

\* The server is asked for the template with the number, whatever both are.
THEOREM AskedHolds == Spec => []UrlAsked
<1>1. Init => AskInv
  BY DEF Init, AskInv, Copying, UrlAsked
<1>2. AskInv /\ UNCHANGED vars => AskInv'
  <2> SUFFICES ASSUME AskInv, UNCHANGED vars PROVE AskInv'
    OBVIOUS
  <2>1. pc' = pc /\ doc' = doc /\ caller' = caller /\ out' = out /\ i' = i /\ source' = source
    BY DEF vars, urlVars
  <2>2. Template' = Template /\ url' = url
    BY <2>1 DEF Template, url
  <2>q. QED
    BY <2>1, <2>2 DEF AskInv, Copying, UrlAsked
<1>3. UrlInv /\ AskInv /\ [Next]_vars => AskInv'
  BY <1>2, AllocateAsks, FillAsks, PerformAsks, RestAsks DEF Next, Lookup
<1>4. AskInv => UrlAsked
  BY DEF AskInv
<1>q. QED
  BY <1>1, <1>3, <1>4, UrlInvHolds, PTL DEF Spec

-----------------------------------------------------------------------------
(* The escapes of a field are removed.                                     *)

\* Two texts after each other are converted each for itself.
LEMMA ConvertedJoined ==
    ASSUME NEW a \in Seq(Chars), NEW b \in Seq(Chars)
    PROVE  Converted(a \o b) = Converted(a) \o Converted(b)
<1> DEFINE ra == Converted(a)
           rb == Converted(b)
           ab == a \o b
           rab == Converted(ab)
<1>1. Len(a) \in Nat /\ Len(b) \in Nat
  BY LenProperties
<1>a. "U" \in Chars
  BY DEF Chars
<1>2. ASSUME NEW s \in Seq(Chars)
      PROVE  /\ Converted(s) \in Seq(Chars) /\ Len(Converted(s)) = Len(s)
             /\ \A k \in 1..Len(s) : Converted(s)[k] = IF s[k] = "u" THEN "U" ELSE s[k]
  <2>1. Len(s) \in Nat /\ \A k \in 1..Len(s) : s[k] \in Chars
    BY LenProperties, ElementOfSeq
  <2>2. Converted(s) \in [1..Len(s) -> Chars]
    BY <1>a, <2>1 DEF Converted, ReplaceAll
  <2>3. \A n \in Nat : \A f \in [1..n -> Chars] : f \in Seq(Chars) /\ Len(f) = n
    OBVIOUS
  <2>4. \A k \in 1..Len(s) : Converted(s)[k] = IF s[k] = "u" THEN "U" ELSE s[k]
    BY DEF Converted, ReplaceAll
  <2>q. QED
    BY <2>1, <2>2, <2>3, <2>4
<1>3. /\ ab \in Seq(Chars) /\ Len(ab) = Len(a) + Len(b)
      /\ \A k \in 1..Len(a) : ab[k] = a[k]
      /\ \A k \in 1..Len(b) : ab[Len(a) + k] = b[k]
  BY Joined
<1>4. /\ ra \in Seq(Chars) /\ Len(ra) = Len(a) /\ rb \in Seq(Chars) /\ Len(rb) = Len(b)
      /\ rab \in Seq(Chars) /\ Len(rab) = Len(ab)
      /\ \A k \in 1..Len(a) : ra[k] = IF a[k] = "u" THEN "U" ELSE a[k]
      /\ \A k \in 1..Len(b) : rb[k] = IF b[k] = "u" THEN "U" ELSE b[k]
      /\ \A k \in 1..Len(ab) : rab[k] = IF ab[k] = "u" THEN "U" ELSE ab[k]
  BY <1>2, <1>3
<1> HIDE DEF ra, rb, ab, rab
<1>5. /\ ra \o rb \in Seq(Chars) /\ Len(ra \o rb) = Len(ra) + Len(rb)
      /\ \A k \in 1..Len(ra) : (ra \o rb)[k] = ra[k]
      /\ \A k \in 1..Len(rb) : (ra \o rb)[Len(ra) + k] = rb[k]
  <2>1. ra \in Seq(Chars) /\ rb \in Seq(Chars)
    BY <1>4
  <2>q. QED
    BY <2>1, Joined
<1>6. ASSUME NEW k \in 1..Len(rab) PROVE rab[k] = (ra \o rb)[k]
  <2>1. CASE k <= Len(a)
    BY <1>1, <1>3, <1>4, <1>5, <2>1
  <2>2. CASE ~(k <= Len(a))
    <3> DEFINE x == k - Len(a)
    <3>1. x \in 1..Len(b) /\ k = Len(a) + x
      BY <1>1, <1>3, <1>4, <2>2
    <3> HIDE DEF x
    <3>q. QED
      BY <1>1, <1>3, <1>4, <1>5, <3>1
  <2>q. QED
    BY <2>1, <2>2
<1>7. rab = ra \o rb
  BY <1>3, <1>4, <1>5, <1>6, SeqEqual
<1>q. QED
  BY <1>7 DEF ra, rb, ab, rab

\* In UTF-8 the umlauts of the page are other letters, and all else is the same.
LEMMA ConvertedIs ==
    ASSUME NEW pieces \in Seq(Pieces)
    PROVE  Converted(Spelled(pieces)) = SpelledAs(pieces, InUtf8)
<1> DEFINE n    == Len(pieces)
           raw  == [k \in 1..n |-> Spelling[pieces[k]]]
           utf8 == [k \in 1..n |-> InUtf8[pieces[k]]]
<1>0. n \in Nat /\ \A k \in 1..n : pieces[k] \in Pieces
  BY LenProperties, ElementOfSeq
<1>1. /\ raw \in [1..n -> Seq(Chars)] /\ utf8 \in [1..n -> Seq(Chars)]
      /\ \A k \in 1..n : raw[k] = Spelling[pieces[k]] /\ utf8[k] = InUtf8[pieces[k]]
  BY <1>0, SpellingTyped DEF Spellings
<1>2. "u" \in Chars /\ "U" \in Chars /\ <<>> \in Seq(Chars)
  <2>1. <<>> \in Seq(Chars)
    OBVIOUS
  <2>q. QED
    BY <2>1 DEF Chars
<1>3. ASSUME NEW p \in Pieces PROVE Converted(Spelling[p]) = InUtf8[p]
  <2>1. ASSUME NEW x \in Chars, x # "u" PROVE Converted(<<x>>) = <<x>>
    BY <2>1 DEF Converted, ReplaceAll
  <2>2. ASSUME NEW x \in Chars, NEW y \in Chars, NEW z \in Chars, x # "u", y # "u", z # "u"
        PROVE  Converted(<<x, y, z>>) = <<x, y, z>>
    BY <2>2 DEF Converted, ReplaceAll
  <2>3. Converted(<<"u">>) = <<"U">>
    BY DEF Converted, ReplaceAll
  <2>4. {"a", "u", "%", "2", "0", "N", "X"} \subseteq Chars
    BY DEF Chars, Digits
  <2>5. /\ Converted(<<"a">>) = <<"a">> /\ Converted(<<"%">>) = <<"%">>
        /\ Converted(<<"%", "2", "0">>) = <<"%", "2", "0">> /\ Converted(<<"%", "N", "%">>) = <<"%", "N", "%">>
        /\ Converted(<<"%", "X", "%">>) = <<"%", "X", "%">>
    <3>q. QED
      BY <2>1, <2>2, <2>4
  <2>6. Spelling \in Spellings /\ InUtf8 \in Spellings
    BY DEF Spellings
  <2>7. CASE p = "umlaut"
    BY <2>3, <2>7, SpellingIs
  <2>8. CASE p \in {"text", "percent"}
    BY <2>5, <2>6, <2>8, SpellingIs
  <2>9. CASE p \in {"space", "number", "unknown"}
    BY <2>5, <2>6, <2>9, SpellingIs
  <2>q. QED
    BY <2>7, <2>8, <2>9, SpellingIs
<1>4. /\ Spelled(pieces) = FlattenSeq(raw) /\ SpelledAs(pieces, InUtf8) = FlattenSeq(utf8)
  BY DEF Spelled, SpelledAs
<1> HIDE DEF n, raw, utf8
<1>5. PICK a : IsFlat(a, raw, n, Chars) /\ a[n] = FlattenSeq(raw)
  BY <1>0, <1>1, Flattened
<1>6. PICK b : IsFlat(b, utf8, n, Chars) /\ b[n] = FlattenSeq(utf8)
  BY <1>0, <1>1, Flattened
<1> DEFINE T == {m \in Nat : m <= n => Converted(a[m]) = b[m]}
<1>7. 0 \in T
  <2>1. a[0] = <<>> /\ b[0] = <<>>
    BY <1>5, <1>6 DEF IsFlat
  <2>2. Converted(<<>>) = <<>>
    BY DEF Converted, ReplaceAll
  <2>q. QED
    BY <2>1, <2>2
<1>8. ASSUME NEW m \in Nat, m \in T PROVE m + 1 \in T
  <2>1. ASSUME m + 1 <= n PROVE Converted(a[m + 1]) = b[m + 1]
    <3> DEFINE k == m + 1
    <3>1. k \in 1..n /\ k - 1 = m /\ m \in 0..n /\ m <= n
      BY <1>0, <2>1
    <3>2. Converted(a[m]) = b[m]
      BY <1>8, <3>1
    <3> HIDE DEF k
    <3>3. /\ a[k] = a[m] \o raw[k] /\ b[k] = b[m] \o utf8[k] /\ a[m] \in Seq(Chars)
          /\ raw[k] \in Seq(Chars)
      BY <1>1, <1>5, <1>6, <3>1 DEF IsFlat
    <3>4. Converted(raw[k]) = utf8[k]
      BY <1>0, <1>1, <1>3, <3>1
    <3>5. Converted(a[m] \o raw[k]) = Converted(a[m]) \o Converted(raw[k])
      BY <3>3, ConvertedJoined
    <3>6. Converted(a[k]) = b[k]
      BY <3>2, <3>3, <3>4, <3>5
    <3>q. QED
      BY <3>6 DEF k
  <2>q. QED
    BY <2>1
<1>9. n \in T
  <2> HIDE DEF T
  <2>q. QED
    BY <1>0, <1>7, <1>8, SetInduction
<1>q. QED
  BY <1>0, <1>4, <1>5, <1>6, <1>9

\* The loop that removes the escapes, turn by turn.
Moves == [written : Seq(Chars), read : Nat \ {0}]
IsAfter(after, str) ==
    /\ after[0] = [written |-> <<>>, read |-> 1]
    /\ \A k \in 1..Len(str) : after[k] = Moved(str, after[k - 1])

\* A turn leaves a text written and a place to read on.
LEMMA MovedTyped ==
    ASSUME NEW str \in Seq(Chars), NEW s \in Moves
    PROVE  Moved(str, s) \in Moves
<1>1. s.written \in Seq(Chars) /\ s.read \in Nat \ {0} /\ Len(str) \in Nat
  BY LenProperties DEF Moves
<1>2. "_" \in Chars /\ (s.read <= Len(str) => str[s.read] \in Chars)
  <2>1. s.read <= Len(str) => s.read \in 1..Len(str)
    BY <1>1
  <2>2. "_" \in Chars
    BY DEF Chars
  <2>q. QED
    BY <2>1, <2>2, ElementOfSeq
<1>3. Append(s.written, "_") \in Seq(Chars)
  BY <1>1, <1>2, AppendProperties
<1>4. s.read <= Len(str) => Append(s.written, str[s.read]) \in Seq(Chars)
  BY <1>1, <1>2, AppendProperties
<1>5. s.read + 3 \in Nat \ {0} /\ s.read + 1 \in Nat \ {0} /\ (s.read > Len(str) \/ s.read <= Len(str))
  BY <1>1
<1>q. QED
  BY <1>3, <1>4, <1>5 DEF Moved, Moves

\* The loop goes through its turns; the last one leaves the result.
LEMMA AfterExists ==
    ASSUME NEW str \in Seq(Chars)
    PROVE  \E after : IsAfter(after, str) /\ RemoveEscapes(str) = after[Len(str)].written
<1> DEFINE n     == Len(str)
           first == [written |-> <<>>, read |-> 1]
           step  == [k \in 1..n |-> [s \in Moves |-> Moved(str, s)]]
           Eq(g) == g = [k \in 0..n |-> IF k = 0 THEN first ELSE Moved(str, g[k - 1])]
<1>1. n \in Nat /\ first \in Moves /\ step \in [1..n -> [Moves -> Moves]]
  <2>1. <<>> \in Seq(Chars) /\ 1 \in Nat \ {0}
    OBVIOUS
  <2>2. first \in Moves
    BY <2>1 DEF Moves
  <2>3. \A s \in Moves : Moved(str, s) \in Moves
    BY MovedTyped
  <2>q. QED
    BY <2>2, <2>3, LenProperties
<1>2. \A k \in 1..n : \A s \in Moves : step[k][s] = Moved(str, s)
  OBVIOUS
<1> HIDE DEF n, first, step
<1>3. PICK f : IsLoop(f, n, Moves, first, step)
  BY <1>1, LoopExists
<1> DEFINE g == [k \in 0..n |-> f[k]]
<1>4. Eq(g)
  <2>1. ASSUME NEW k \in 0..n PROVE g[k] = IF k = 0 THEN first ELSE Moved(str, g[k - 1])
    <3>1. CASE k = 0
      BY <1>3, <2>1, <3>1 DEF IsLoop
    <3>2. CASE k # 0
      <4>1. k \in 1..n /\ k - 1 \in 0..n
        BY <1>1, <3>2
      <4>2. f[k] = step[k][f[k - 1]] /\ f[k - 1] \in Moves
        BY <1>3, <4>1 DEF IsLoop
      <4>3. f[k] = Moved(str, f[k - 1])
        BY <1>2, <4>1, <4>2
      <4>q. QED
        BY <3>2, <4>1, <4>3
    <3>q. QED
      BY <3>1, <3>2
  <2>2. g = [k \in 0..n |-> g[k]]
    OBVIOUS
  <2> HIDE DEF g
  <2>q. QED
    BY <2>1, <2>2
<1> HIDE DEF g
<1>5. PICK h : Eq(h) /\ RemoveEscapes(str) = h[n].written
  BY <1>4 DEF RemoveEscapes, n, first
<1>6. h[0] = first /\ \A k \in 1..n : h[k] = Moved(str, h[k - 1])
  <2>1. \A k \in 0..n : h[k] = IF k = 0 THEN first ELSE Moved(str, h[k - 1])
    BY <1>5
  <2>2. 0 \in 0..n /\ \A k \in 1..n : k \in 0..n /\ k # 0
    BY <1>1
  <2>q. QED
    BY <2>1, <2>2
<1>q. QED
  BY <1>5, <1>6 DEF IsAfter, n, first

\* The loop has read so much and written this, after some of its turns.
Reached(after, str, read, written) ==
    \E t \in 0..Len(str) :
        t < read /\ after[t] = [written |-> written, read |-> read]

\* A letter that begins no escape is moved.
LEMMA TurnLetter ==
    ASSUME NEW str \in Seq(Chars), NEW after, IsAfter(after, str), NEW r \in 1..Len(str), NEW w,
           Reached(after, str, r, w), ~IsSpace(str, r)
    PROVE  Reached(after, str, r + 1, Append(w, str[r]))
<1>1. PICK t \in 0..Len(str) : t < r /\ after[t] = [written |-> w, read |-> r]
  BY DEF Reached
<1>2. Len(str) \in Nat /\ t + 1 \in 1..Len(str) /\ t + 1 \in 0..Len(str) /\ t + 1 < r + 1
      /\ ~(r > Len(str))
  BY <1>1, LenProperties
<1> DEFINE u == t + 1
<1>3. u \in 1..Len(str) /\ u - 1 = t
  BY <1>1, <1>2
<1> HIDE DEF u
<1>4. after[u] = Moved(str, after[t])
  BY <1>3 DEF IsAfter
<1>5. Moved(str, after[t]) = [written |-> Append(w, str[r]), read |-> r + 1]
  BY <1>1, <1>2 DEF Moved
<1>q. QED
  BY <1>2, <1>4, <1>5 DEF Reached, u

\* An escape is turned into a blank.
LEMMA TurnSpace ==
    ASSUME NEW str \in Seq(Chars), NEW after, IsAfter(after, str), NEW r \in 1..Len(str), NEW w,
           Reached(after, str, r, w), IsSpace(str, r)
    PROVE  Reached(after, str, r + 3, Append(w, "_"))
<1>1. PICK t \in 0..Len(str) : t < r /\ after[t] = [written |-> w, read |-> r]
  BY DEF Reached
<1>2. Len(str) \in Nat /\ t + 1 \in 1..Len(str) /\ t + 1 \in 0..Len(str) /\ t + 1 < r + 3
      /\ ~(r > Len(str))
  BY <1>1, LenProperties
<1> DEFINE u == t + 1
<1>3. u \in 1..Len(str) /\ u - 1 = t
  BY <1>1, <1>2
<1> HIDE DEF u
<1>4. after[u] = Moved(str, after[t])
  BY <1>3 DEF IsAfter
<1>5. Moved(str, after[t]) = [written |-> Append(w, "_"), read |-> r + 3]
  BY <1>1, <1>2 DEF Moved
<1>q. QED
  BY <1>2, <1>4, <1>5 DEF Reached, u

\* When all is read the loop has ended.
LEMMA TurnsEnd ==
    ASSUME NEW str \in Seq(Chars), NEW after, IsAfter(after, str), NEW w,
           Reached(after, str, Len(str) + 1, w)
    PROVE  after[Len(str)].written = w
<1> DEFINE n   == Len(str)
           end == [written |-> w, read |-> n + 1]
<1>1. PICK t \in 0..n : after[t] = end
  BY DEF Reached
<1>2. n \in Nat /\ n + 1 > n
  BY LenProperties
<1>3. Moved(str, end) = end
  BY <1>2 DEF Moved
<1>4. \A k \in 1..n : after[k] = Moved(str, after[k - 1])
  BY DEF IsAfter
<1>5. end.written = w
  OBVIOUS
<1> HIDE DEF n, end
<1> DEFINE T == {d \in Nat : t + d <= n => after[t + d] = end}
<1>6. 0 \in T
  <2>1. t + 0 = t
    BY <1>2
  <2>q. QED
    BY <1>1, <2>1
<1>7. ASSUME NEW d \in Nat, d \in T PROVE d + 1 \in T
  <2>1. ASSUME t + (d + 1) <= n PROVE after[t + (d + 1)] = end
    <3> DEFINE u == t + (d + 1)
    <3>1. u \in 1..n /\ u - 1 = t + d /\ t + d <= n
      BY <1>2, <2>1
    <3>2. after[t + d] = end
      BY <1>7, <3>1
    <3> HIDE DEF u
    <3>3. after[u] = end
      BY <1>3, <1>4, <3>1, <3>2
    <3>q. QED
      BY <3>3 DEF u
  <2>q. QED
    BY <2>1
<1>8. after[n] = end
  <2>1. n - t \in Nat /\ t + (n - t) = n
    BY <1>2
  <2>2. n - t \in T
    <3> HIDE DEF T
    <3>q. QED
      BY <1>6, <1>7, <2>1, SetInduction
  <2>q. QED
    BY <2>1, <2>2
<1>q. QED
  BY <1>5, <1>8 DEF n

\* What is left of the pieces.
Plain(pieces, umlaut) ==
    [k \in 1..Len(pieces) |-> CASE pieces[k] = "space"  -> <<"_">>
                                [] pieces[k] = "umlaut" -> umlaut
                                [] OTHER -> Spelling[pieces[k]]]

\* What is left of a piece is its spelling, or a blank.
LEMMA PlainTyped ==
    ASSUME NEW pieces \in Seq(Pieces), NEW spell \in Spellings
    PROVE  /\ Plain(pieces, spell["umlaut"]) \in [1..Len(pieces) -> Seq(Chars)]
           /\ \A k \in 1..Len(pieces) :
                 Plain(pieces, spell["umlaut"])[k] =
                     IF pieces[k] = "space" THEN <<"_">> ELSE spell[pieces[k]]
<1>1. \A k \in 1..Len(pieces) : pieces[k] \in Pieces
  BY ElementOfSeq
<1>2. ASSUME NEW k \in 1..Len(pieces)
      PROVE  Plain(pieces, spell["umlaut"])[k] = IF pieces[k] = "space" THEN <<"_">> ELSE spell[pieces[k]]
  <2>1. pieces[k] \in Pieces
    BY <1>1
  <2>2. Spelling \in Spellings
    BY DEF Spellings
  <2>3. CASE pieces[k] \in {"space", "umlaut"}
    BY <2>3 DEF Plain
  <2>4. CASE pieces[k] \in {"text", "percent", "number", "unknown"}
    <3>1. Plain(pieces, spell["umlaut"])[k] = Spelling[pieces[k]]
      BY <2>4 DEF Plain
    <3>2. spell[pieces[k]] = Spelling[pieces[k]] /\ pieces[k] # "space"
      BY <2>2, <2>4, SpellingIs
    <3>q. QED
      BY <3>1, <3>2
  <2>q. QED
    BY <2>1, <2>3, <2>4, SpellingIs
<1>3. ASSUME NEW k \in 1..Len(pieces) PROVE Plain(pieces, spell["umlaut"])[k] \in Seq(Chars)
  <2>1. "_" \in Chars
    BY DEF Chars
  <2>2. <<"_">> \in Seq(Chars)
    <3>1. \A x \in Chars : <<x>> \in Seq(Chars)
      OBVIOUS
    <3>q. QED
      BY <2>1, <3>1
  <2>3. spell[pieces[k]] \in Seq(Chars)
    BY <1>1, SpellingTyped
  <2>q. QED
    BY <1>2, <2>2, <2>3
<1>4. Plain(pieces, spell["umlaut"]) = [k \in 1..Len(pieces) |-> Plain(pieces, spell["umlaut"])[k]]
  BY DEF Plain
<1>q. QED
  BY <1>2, <1>3, <1>4

\* What one piece comes to.
LEMMA PieceDecoded ==
    ASSUME NEW spell \in Spellings, NEW text \in Seq(Chars), NEW after, IsAfter(after, text),
           NEW p, NEW a, NEW e, IsPiece(p, a, e, text, spell),
           NEW w \in Seq(Chars), Reached(after, text, a + 1, w)
    PROVE  Reached(after, text, e + 1, w \o (IF p = "space" THEN <<"_">> ELSE spell[p]))
<1>1. /\ p \in Pieces /\ Len(text) \in Nat /\ a \in Nat /\ e \in Nat
      /\ e = a + Len(spell[p]) /\ e <= Len(text) /\ Len(spell[p]) \in {1, 3}
      /\ a + 1 \in 1..Len(text)
      /\ text[a + 1] = spell[p][1]
      /\ Len(spell[p]) = 3 => text[a + 2] = spell[p][2] /\ text[a + 3] = spell[p][3]
      /\ e < Len(text) => text[e + 1] \in Firsts
  BY DEF IsPiece
<1>2. {"a", "u", "U", "%", "_", "N", "X"} \subseteq Chars /\ "2" \notin Firsts
  BY DEF Chars, Digits, Firsts
<1>3. /\ Len(<<"a">>) = 1 /\ Len(<<"u">>) = 1 /\ Len(<<"U">>) = 1 /\ Len(<<"%">>) = 1
      /\ Len(<<"%", "2", "0">>) = 3
  OBVIOUS
<1>4. CASE p \in {"text", "umlaut", "percent"}
  <2>1. PICK c \in {"a", "u", "U", "%"} : spell[p] = <<c>> /\ (c = "%" <=> p = "percent")
    BY <1>4, SpellingIs DEF Spellings
  <2>2. e = a + 1 /\ text[a + 1] = c /\ c \in Chars
    <3>1. Len(<<c>>) = 1 /\ <<c>>[1] = c
      OBVIOUS
    <3>2. c \in Chars
      BY <1>2
    <3>q. QED
      BY <1>1, <2>1, <3>1, <3>2
  <2>3. ~IsSpace(text, a + 1)
    <3>1. CASE c # "%"
      BY <2>2, <3>1 DEF IsSpace
    <3>2. CASE c = "%"
      <4>1. a + 1 + 2 <= Len(text) => text[a + 1 + 1] # "2"
        <5>1. (a + 1 + 2 <= Len(text) => e < Len(text)) /\ a + 1 + 1 = e + 1
          BY <1>1, <2>2
        <5>q. QED
          BY <1>1, <1>2, <5>1
      <4>q. QED
        BY <4>1 DEF IsSpace
    <3>q. QED
      BY <3>1, <3>2
  <2>4. Reached(after, text, a + 1 + 1, Append(w, text[a + 1]))
    BY <1>1, <2>3, TurnLetter
  <2>5. Append(w, c) = w \o <<c>>
    BY <2>2, AppendIsConcat
  <2>q. QED
    BY <1>4, <2>1, <2>2, <2>4, <2>5
<1>5. CASE p = "space"
  <2>1. spell[p] = <<"%", "2", "0">>
    BY <1>5, SpellingIs
  <2>2. /\ e = a + 3 /\ e + 1 = a + 1 + 3
        /\ text[a + 1] = "%" /\ text[a + 2] = "2" /\ text[a + 3] = "0"
        /\ a + 1 + 1 = a + 2 /\ a + 1 + 2 = a + 3 /\ a + 3 <= Len(text)
    BY <1>1, <1>3, <2>1
  <2>3. IsSpace(text, a + 1)
    BY <2>2 DEF IsSpace
  <2>4. Reached(after, text, a + 1 + 3, Append(w, "_"))
    BY <1>1, <2>3, TurnSpace
  <2>5. Append(w, "_") = w \o <<"_">>
    BY <1>2, AppendIsConcat
  <2>q. QED
    BY <1>5, <2>2, <2>4, <2>5
<1>6. CASE p \in {"number", "unknown"}
  <2>1. PICK c \in {"N", "X"} : spell[p] = <<"%", c, "%">>
    BY <1>6, SpellingIs
  <2>a. Len(<<"%", c, "%">>) = 3 /\ <<"%", c, "%">>[1] = "%"
        /\ <<"%", c, "%">>[2] = c /\ <<"%", c, "%">>[3] = "%"
    OBVIOUS
  <2>2. /\ e = a + 3 /\ text[a + 1] = "%" /\ text[a + 2] = c /\ text[a + 3] = "%"
        /\ a + 2 \in 1..Len(text) /\ a + 3 \in 1..Len(text) /\ e + 1 = a + 4
        /\ a + 1 + 1 = a + 2 /\ a + 2 + 1 = a + 3 /\ a + 3 + 1 = a + 4
    BY <1>1, <2>1, <2>a
  <2>3. ~IsSpace(text, a + 1) /\ ~IsSpace(text, a + 2)
    BY <2>2 DEF IsSpace
  <2>4. ~IsSpace(text, a + 3)
    <3>1. a + 3 + 2 <= Len(text) => text[a + 3 + 1] # "2"
      <4>1. (a + 3 + 2 <= Len(text) => e < Len(text)) /\ a + 3 + 1 = e + 1
        BY <1>1, <2>2
      <4>q. QED
        BY <1>1, <1>2, <4>1
    <3>q. QED
      BY <3>1 DEF IsSpace
  <2>5. Reached(after, text, a + 2, Append(w, "%"))
    <3>1. Reached(after, text, a + 1 + 1, Append(w, text[a + 1]))
      BY <1>1, <2>3, TurnLetter
    <3>q. QED
      BY <2>2, <3>1
  <2>6. Reached(after, text, a + 3, Append(Append(w, "%"), c))
    <3>1. Reached(after, text, a + 2 + 1, Append(Append(w, "%"), text[a + 2]))
      BY <2>2, <2>3, <2>5, TurnLetter
    <3>q. QED
      BY <2>2, <3>1
  <2>7. Reached(after, text, a + 4, Append(Append(Append(w, "%"), c), "%"))
    <3>1. Reached(after, text, a + 3 + 1, Append(Append(Append(w, "%"), c), text[a + 3]))
      BY <2>2, <2>4, <2>6, TurnLetter
    <3>q. QED
      BY <2>2, <3>1
  <2>8. Append(Append(Append(w, "%"), c), "%") = w \o <<"%", c, "%">>
    <3>1. "%" \in Chars /\ c \in Chars
      BY <1>2
    <3>q. QED
      BY <3>1, ThreeMore
  <2>q. QED
    BY <1>6, <2>1, <2>2, <2>7, <2>8
<1>q. QED
  BY <1>1, <1>4, <1>5, <1>6, SpellingIs

\* The escapes of a text are its blanks: nothing else is changed.
LEMMA EscapesRemoved ==
    ASSUME NEW pieces \in Seq(Pieces), NEW spell \in Spellings
    PROVE  /\ RemoveEscapes(SpelledAs(pieces, spell)) = Decoded(pieces, spell["umlaut"])
           /\ Decoded(pieces, spell["umlaut"]) \in Seq(Chars)
<1> DEFINE text  == SpelledAs(pieces, spell)
           n     == Len(pieces)
           plain == Plain(pieces, spell["umlaut"])
<1>1. text \in Seq(Chars) /\ \E at : IsLayout(at, text, pieces, spell)
  BY LayoutExists
<1>2. PICK at : IsLayout(at, text, pieces, spell)
  BY <1>1
<1>3. /\ plain \in [1..n -> Seq(Chars)] /\ n \in Nat
      /\ \A k \in 1..n : plain[k] = IF pieces[k] = "space" THEN <<"_">> ELSE spell[pieces[k]]
  BY PlainTyped, LenProperties
<1>4. Decoded(pieces, spell["umlaut"]) = FlattenSeq(plain)
  BY DEF Decoded, Plain
<1>a. n = Len(pieces)
  OBVIOUS
<1> HIDE DEF text, plain, n
<1>5. PICK dec : IsFlat(dec, plain, n, Chars) /\ dec[n] = FlattenSeq(plain)
  BY <1>3, Flattened
<1>6. PICK after : IsAfter(after, text) /\ RemoveEscapes(text) = after[Len(text)].written
  BY <1>1, AfterExists
<1> DEFINE T == {m \in Nat : m <= n => Reached(after, text, at[m] + 1, dec[m])}
<1>7. 0 \in T
  <2>1. at[0] + 1 = 1 /\ dec[0] = <<>> /\ after[0] = [written |-> <<>>, read |-> 1]
    BY <1>2, <1>5, <1>6 DEF IsLayout, IsFlat, IsAfter
  <2>2. 0 \in 0..Len(text)
    BY <1>1, LenProperties
  <2>3. Reached(after, text, 1, <<>>)
    BY <2>1, <2>2 DEF Reached
  <2>q. QED
    BY <2>1, <2>3
<1>8. ASSUME NEW m \in Nat, m \in T PROVE m + 1 \in T
  <2>1. ASSUME m + 1 <= n PROVE Reached(after, text, at[m + 1] + 1, dec[m + 1])
    <3> DEFINE k == m + 1
    <3>0. n \in Nat
      BY <1>3
    <3>n. m \in 0..n /\ m # n /\ k \in 1..n /\ k - 1 = m /\ m <= n
      BY <3>0, <2>1
    <3>1. m \in 0..Len(pieces) /\ m # Len(pieces) /\ m \in 0..n /\ k \in 1..n /\ k - 1 = m /\ m <= n
      BY <3>n, <1>a
    <3>2. IsPiece(pieces[k], at[m], at[k], text, spell)
      BY <1>1, <1>2, <3>1, PieceThere
    <3>3. Reached(after, text, at[m] + 1, dec[m])
      BY <1>8, <3>1
    <3> HIDE DEF k
    <3>4. dec[k] = dec[m] \o plain[k] /\ dec[m] \in Seq(Chars)
      BY <1>5, <3>1 DEF IsFlat
    <3>5. plain[k] = IF pieces[k] = "space" THEN <<"_">> ELSE spell[pieces[k]]
      BY <1>3, <3>1
    <3>6. Reached(after, text, at[k] + 1,
                  dec[m] \o (IF pieces[k] = "space" THEN <<"_">> ELSE spell[pieces[k]]))
      BY <1>1, <1>6, <3>2, <3>3, <3>4, PieceDecoded
    <3>q. QED
      BY <3>4, <3>5, <3>6 DEF k
  <2>q. QED
    BY <2>1
<1>9. Reached(after, text, Len(text) + 1, dec[n])
  <2>1. n \in T
    <3> HIDE DEF T
    <3>q. QED
      BY <1>3, <1>7, <1>8, SetInduction
  <2>2. at[n] = Len(text)
    BY <1>2, <1>a DEF IsLayout
  <2>0. n \in Nat
    BY <1>3
  <2>3. n <= n
    BY <2>0
  <2>4. Reached(after, text, at[n] + 1, dec[n])
    BY <2>1, <2>3
  <2>q. QED
    BY <2>2, <2>4
<1>10. after[Len(text)].written = dec[n]
  BY <1>1, <1>6, <1>9, TurnsEnd
<1>11. dec[n] \in Seq(Chars)
  <2>0. n \in Nat
    BY <1>3
  <2>1. n \in 0..n
    BY <2>0
  <2>q. QED
    BY <1>5, <2>1 DEF IsFlat
<1>q. QED
  BY <1>4, <1>5, <1>6, <1>10, <1>11 DEF text

-----------------------------------------------------------------------------
(* The page and the fields taken from it.                                  *)

\* The next n parts of what is left come after what is there.
LEMMA CutOn ==
    ASSUME NEW S, NEW s \in Seq(S), NEW m \in 0..Len(s), NEW rest, rest = SubSeq(s, m + 1, Len(s)),
           NEW n \in 1..Len(rest)
    PROVE  /\ m + n \in 0..Len(s)
           /\ SubSeq(s, 1, m) \o SubSeq(rest, 1, n) = SubSeq(s, 1, m + n)
           /\ SubSeq(rest, n + 1, Len(rest)) = SubSeq(s, m + n + 1, Len(s))
<1> DEFINE l == Len(s)
           r == Len(rest)
<1>1. l \in Nat /\ (\A k \in 1..l : s[k] \in S) /\ m \in Nat /\ m <= l
  BY LenProperties, ElementOfSeq
<1>2. rest \in Seq(S) /\ r = l - m /\ \A k \in 1..r : rest[k] = s[m + k]
  <2> HIDE DEF l
  <2>1. m + 1 \in Int /\ l \in Int /\ (m + 1 <= l => l - (m + 1) + 1 = l - m)
        /\ (~(m + 1 <= l) => l - m = 0) /\ l - (m + 1) + 1 = l - m
        /\ (\A k \in m + 1 .. l : k \in 1..l)
    BY <1>1
  <2>2. \A k \in m + 1 .. l : s[k] \in S
    BY <1>1, <2>1
  <2>3. /\ SubSeq(s, m + 1, l) \in Seq(S)
        /\ Len(SubSeq(s, m + 1, l)) = IF m + 1 <= l THEN l - (m + 1) + 1 ELSE 0
        /\ \A k \in 1 .. l - (m + 1) + 1 : SubSeq(s, m + 1, l)[k] = s[m + 1 + k - 1]
    BY <2>1, <2>2, SubSeqProperties
  <2>4. rest \in Seq(S) /\ r = l - m
    BY <2>1, <2>3 DEF l
  <2>5. ASSUME NEW k \in 1..r PROVE rest[k] = s[m + k]
    <3>1. k \in 1 .. l - (m + 1) + 1 /\ m + 1 + k - 1 = m + k
      BY <1>1, <2>1, <2>4
    <3>q. QED
      BY <2>3, <3>1 DEF l
  <2>q. QED
    BY <2>4, <2>5
<1> HIDE DEF l, r
<1>3. n \in Nat /\ r \in Nat /\ n <= r /\ n \in 1..r
  BY <1>1, <1>2 DEF r
<1>4. m + n \in 0..l /\ m + n \in Nat /\ m + n <= l
  BY <1>1, <1>2, <1>3
<1> DEFINE a == SubSeq(s, 1, m)
           b == SubSeq(rest, 1, n)
           c == SubSeq(s, 1, m + n)
           d == SubSeq(rest, n + 1, r)
           e == SubSeq(s, m + n + 1, l)
<1>5. ASSUME NEW t \in Seq(S), NEW x \in Nat, NEW y \in Nat, Len(t) = y, x <= y
      PROVE  /\ SubSeq(t, 1, x) \in Seq(S) /\ Len(SubSeq(t, 1, x)) = x
             /\ \A k \in 1..x : SubSeq(t, 1, x)[k] = t[k]
             /\ SubSeq(t, x + 1, y) \in Seq(S) /\ Len(SubSeq(t, x + 1, y)) = y - x
             /\ \A k \in 1..y - x : SubSeq(t, x + 1, y)[k] = t[x + k]
  <2>1. \A k \in 1..y : t[k] \in S
    BY <1>5, ElementOfSeq
  <2>2. /\ SubSeq(t, 1, x) \in Seq(S) /\ Len(SubSeq(t, 1, x)) = (IF 1 <= x THEN x - 1 + 1 ELSE 0)
        /\ \A k \in 1 .. x - 1 + 1 : SubSeq(t, 1, x)[k] = t[1 + k - 1]
    <3>1. \A k \in 1..x : t[k] \in S
      BY <1>5, <2>1
    <3>q. QED
      BY <3>1, SubSeqProperties
  <2>3. /\ SubSeq(t, x + 1, y) \in Seq(S)
        /\ Len(SubSeq(t, x + 1, y)) = (IF x + 1 <= y THEN y - (x + 1) + 1 ELSE 0)
        /\ \A k \in 1 .. y - (x + 1) + 1 : SubSeq(t, x + 1, y)[k] = t[x + 1 + k - 1]
    <3> DEFINE z == x + 1
    <3>1. z \in Int /\ y \in Int /\ \A k \in z .. y : k \in 1..y
      BY <1>5
    <3> HIDE DEF z
    <3>2. \A k \in z .. y : t[k] \in S
      BY <2>1, <3>1
    <3>3. /\ SubSeq(t, z, y) \in Seq(S)
          /\ Len(SubSeq(t, z, y)) = (IF z <= y THEN y - z + 1 ELSE 0)
          /\ \A k \in 1 .. y - z + 1 : SubSeq(t, z, y)[k] = t[z + k - 1]
      BY <3>1, <3>2, SubSeqProperties
    <3>q. QED
      BY <3>3 DEF z
  <2>4. x - 1 + 1 = x /\ y - (x + 1) + 1 = y - x /\ (1 <= x \/ x = 0) /\ (x + 1 <= y \/ y - x = 0)
    BY <1>5
  <2>5. \A k \in Int : 1 + k - 1 = k /\ x + 1 + k - 1 = x + k
    BY <1>5
  <2>6. \A k \in 1..x : SubSeq(t, 1, x)[k] = t[k]
    BY <2>2, <2>4, <2>5
  <2>7. \A k \in 1..y - x : SubSeq(t, x + 1, y)[k] = t[x + k]
    BY <2>3, <2>4, <2>5
  <2>q. QED
    BY <2>2, <2>3, <2>4, <2>6, <2>7
<1>6. /\ a \in Seq(S) /\ Len(a) = m /\ \A k \in 1..m : a[k] = s[k]
  BY <1>1, <1>5 DEF l
<1>7. /\ b \in Seq(S) /\ Len(b) = n /\ \A k \in 1..n : b[k] = rest[k]
      /\ d \in Seq(S) /\ Len(d) = r - n /\ \A k \in 1..r - n : d[k] = rest[n + k]
  BY <1>2, <1>3, <1>5 DEF r
<1>8. /\ c \in Seq(S) /\ Len(c) = m + n /\ \A k \in 1..m + n : c[k] = s[k]
      /\ e \in Seq(S) /\ Len(e) = l - (m + n) /\ \A k \in 1..l - (m + n) : e[k] = s[m + n + k]
  BY <1>1, <1>4, <1>5 DEF l
<1> HIDE DEF a, b, c, d, e
<1>9. a \o b = c
  <2>0. a \in Seq(S) /\ b \in Seq(S)
    BY <1>6, <1>7
  <2>1. /\ a \o b \in Seq(S) /\ Len(a \o b) = Len(a) + Len(b)
        /\ \A k \in 1..Len(a) : (a \o b)[k] = a[k]
        /\ \A k \in 1..Len(b) : (a \o b)[Len(a) + k] = b[k]
    BY <2>0, Joined
  <2>2. ASSUME NEW k \in 1..m + n PROVE (a \o b)[k] = c[k]
    <3>1. CASE k <= m
      <4>1. k \in 1..m
        BY <1>1, <1>3, <2>2, <3>1
      <4>q. QED
        BY <1>6, <1>8, <2>1, <4>1
    <3>2. CASE ~(k <= m)
      <4> DEFINE x == k - m
      <4>1. x \in 1..n /\ m + x = k /\ x \in 1..r
        BY <1>1, <1>3, <2>2, <3>2
      <4> HIDE DEF x
      <4>2. (a \o b)[k] = b[x] /\ b[x] = rest[x] /\ rest[x] = s[k] /\ c[k] = s[k]
        BY <1>2, <1>6, <1>7, <1>8, <2>1, <4>1
      <4>q. QED
        BY <4>2
    <3>q. QED
      BY <3>1, <3>2
  <2>3. Len(a \o b) = m + n /\ Len(c) = m + n
    BY <1>6, <1>7, <1>8, <2>1
  <2>4. \A k \in 1..Len(a \o b) : (a \o b)[k] = c[k]
    BY <2>2, <2>3
  <2>5. a \o b \in Seq(S) /\ c \in Seq(S) /\ Len(a \o b) = Len(c)
    BY <1>8, <2>1, <2>3
  <2> HIDE DEF a, b
  <2>q. QED
    BY <2>4, <2>5, SeqEqual
<1>10. d = e
  <2>1. r - n = l - (m + n) /\ r - n \in Nat /\ \A k \in 1..r - n : n + k \in 1..r /\ m + (n + k) = m + n + k
    BY <1>1, <1>2, <1>3
  <2>2. ASSUME NEW k \in 1..r - n PROVE d[k] = e[k]
    <3>1. d[k] = rest[n + k] /\ rest[n + k] = s[m + (n + k)] /\ e[k] = s[m + n + k]
      BY <1>2, <1>7, <1>8, <2>1
    <3>2. m + (n + k) = m + n + k
      BY <2>1
    <3>q. QED
      BY <3>1, <3>2
  <2>3. Len(d) = r - n /\ Len(e) = r - n
    BY <1>7, <1>8, <2>1
  <2>4. \A k \in 1..Len(d) : d[k] = e[k]
    BY <2>2, <2>3
  <2>q. QED
    BY <1>7, <1>8, <2>3, <2>4, SeqEqual
<1>q. QED
  BY <1>4, <1>9, <1>10 DEF a, b, c, d, e, l, r

\* What an answer was restored to: of a field that is spelled the pieces, in
\* the charset of the page or in UTF-8.
LEMMA DecodedIs ==
    ASSUME NEW pieces \in Seq(Pieces)
    PROVE  /\ Spelled(pieces) \in Seq(Chars)
           /\ RemoveEscapes(Spelled(pieces)) = Decoded(pieces, <<"u">>)
           /\ RemoveEscapes(Converted(Spelled(pieces))) = Decoded(pieces, <<"U">>)
           /\ Decoded(pieces, <<"u">>) \in Seq(Chars) /\ Decoded(pieces, <<"U">>) \in Seq(Chars)
<1>1. /\ Spelling \in Spellings /\ InUtf8 \in Spellings
      /\ Spelling["umlaut"] = <<"u">> /\ InUtf8["umlaut"] = <<"U">>
  BY SpellingIs DEF Spellings
<1>2. Spelled(pieces) = SpelledAs(pieces, Spelling)
  BY DEF Spelled, SpelledAs
<1>3. Converted(Spelled(pieces)) = SpelledAs(pieces, InUtf8)
  BY ConvertedIs
<1>4. SpelledAs(pieces, Spelling) \in Seq(Chars)
  BY <1>1, LayoutExists
<1>5. /\ RemoveEscapes(SpelledAs(pieces, Spelling)) = Decoded(pieces, Spelling["umlaut"])
      /\ Decoded(pieces, Spelling["umlaut"]) \in Seq(Chars)
  BY <1>1, EscapesRemoved
<1>6. /\ RemoveEscapes(SpelledAs(pieces, InUtf8)) = Decoded(pieces, InUtf8["umlaut"])
      /\ Decoded(pieces, InUtf8["umlaut"]) \in Seq(Chars)
  BY <1>1, EscapesRemoved
<1>q. QED
  BY <1>1, <1>2, <1>3, <1>4, <1>5, <1>6

\* Whether the loops over the page have been past the pattern p at the line k,
\* when they stand at the pattern q of the line l.
Sees(l, q, k, p) == k < l \/ (k = l /\ p < q)
Gives(lines, patterns, k, p, f) == p \in lines[k].hits /\ f \in FieldsOf(patterns[p])
GroupAt(lines, patterns, k, p, f) == lines[k].groups[GroupOf(patterns[p], f)]

\* What gives a field last of all that the loops have been past.
GivesLast(lines, patterns, l, q, k, p, f) ==
    /\ k \in 1..Len(lines) /\ p \in 1..Len(patterns)
    /\ Gives(lines, patterns, k, p, f) /\ Sees(l, q, k, p)
    /\ \A k2 \in 1..Len(lines) : \A p2 \in 1..Len(patterns) :
          Gives(lines, patterns, k2, p2, f) /\ Sees(l, q, k2, p2) => k2 < k \/ (k2 = k /\ p2 <= p)
GivesNone(lines, patterns, l, q, f) ==
    \A k \in 1..Len(lines) : \A p \in 1..Len(patterns) :
        Gives(lines, patterns, k, p, f) => ~Sees(l, q, k, p)

\* A field is what the loops have met for it last.
FieldAt(lines, patterns, l, q, fields, f, text) ==
    \/ f \notin fields /\ text = <<>> /\ GivesNone(lines, patterns, l, q, f)
    \/ f \in fields /\ \E k \in 1..Len(lines) : \E p \in 1..Len(patterns) :
          /\ GivesLast(lines, patterns, l, q, k, p, f)
          /\ text = Spelled(GroupAt(lines, patterns, k, p, f))

\* The loops go on from one place to the next.
GoesOn(patterns, l, q, l2, q2) ==
    \/ q <= Len(patterns) /\ q2 = q + 1 /\ l2 = l
    \/ q > Len(patterns) /\ q2 = 1 /\ l2 = l + 1
\* What a turn does for a field.
TakenAt(lines, patterns, l, q, fields, text, fields2, text2, f) ==
    IF q <= Len(patterns) /\ Gives(lines, patterns, l, q, f)
    THEN f \in fields2 /\ text2 = Spelled(GroupAt(lines, patterns, l, q, f))
    ELSE text2 = text /\ (f \in fields2 <=> f \in fields)

\* A turn of the loops is past one pattern more.
LEMMA SeesOneMore ==
    ASSUME NEW lines, Len(lines) \in Nat, NEW patterns, Len(patterns) \in Nat,
           NEW l \in 1..Len(lines), NEW q \in 1..Len(patterns) + 1, NEW l2, NEW q2,
           GoesOn(patterns, l, q, l2, q2), NEW k \in 1..Len(lines), NEW p \in 1..Len(patterns)
    PROVE  Sees(l2, q2, k, p) <=> (Sees(l, q, k, p) \/ (q <= Len(patterns) /\ k = l /\ p = q))
BY DEF Sees, GoesOn

\* Each turn leaves every field what was met for it last.
LEMMA FieldTurn ==
    ASSUME NEW lines, Len(lines) \in Nat, NEW patterns, Len(patterns) \in Nat,
           NEW l \in 1..Len(lines), NEW q \in 1..Len(patterns) + 1, NEW l2, NEW q2,
           GoesOn(patterns, l, q, l2, q2), NEW f, NEW fields, NEW text, NEW fields2, NEW text2,
           FieldAt(lines, patterns, l, q, fields, f, text),
           TakenAt(lines, patterns, l, q, fields, text, fields2, text2, f)
    PROVE  FieldAt(lines, patterns, l2, q2, fields2, f, text2)
<1>1. \A k \in 1..Len(lines) : \A p \in 1..Len(patterns) :
        Sees(l2, q2, k, p) <=> (Sees(l, q, k, p) \/ (q <= Len(patterns) /\ k = l /\ p = q))
  BY SeesOneMore
<1>2. CASE q <= Len(patterns) /\ Gives(lines, patterns, l, q, f)
  <2>1. q \in 1..Len(patterns) /\ f \in fields2 /\ text2 = Spelled(GroupAt(lines, patterns, l, q, f))
    BY <1>2 DEF TakenAt
  <2>2. Sees(l2, q2, l, q)
    BY <1>1, <1>2, <2>1
  <2>3. ASSUME NEW k2 \in 1..Len(lines), NEW p2 \in 1..Len(patterns), Sees(l2, q2, k2, p2)
        PROVE  k2 < l \/ (k2 = l /\ p2 <= q)
    <3>1. Sees(l, q, k2, p2) \/ (k2 = l /\ p2 = q)
      BY <1>1, <2>3
    <3>q. QED
      BY <2>1, <3>1 DEF Sees
  <2>4. GivesLast(lines, patterns, l2, q2, l, q, f)
    BY <1>2, <2>1, <2>2, <2>3 DEF GivesLast
  <2>q. QED
    BY <2>1, <2>4 DEF FieldAt
<1>3. CASE ~(q <= Len(patterns) /\ Gives(lines, patterns, l, q, f))
  <2>1. text2 = text /\ (f \in fields2 <=> f \in fields)
    BY <1>3 DEF TakenAt
  <2>2. \A k \in 1..Len(lines) : \A p \in 1..Len(patterns) :
          Gives(lines, patterns, k, p, f) => (Sees(l2, q2, k, p) <=> Sees(l, q, k, p))
    BY <1>1, <1>3
  <2>3. CASE f \notin fields /\ text = <<>> /\ GivesNone(lines, patterns, l, q, f)
    <3>1. GivesNone(lines, patterns, l2, q2, f)
      BY <2>2, <2>3 DEF GivesNone
    <3>q. QED
      BY <2>1, <2>3, <3>1 DEF FieldAt
  <2>4. ASSUME f \in fields, NEW k \in 1..Len(lines), NEW p \in 1..Len(patterns),
               GivesLast(lines, patterns, l, q, k, p, f),
               text = Spelled(GroupAt(lines, patterns, k, p, f))
        PROVE  FieldAt(lines, patterns, l2, q2, fields2, f, text2)
    <3>1. GivesLast(lines, patterns, l2, q2, k, p, f)
      BY <2>2, <2>4 DEF GivesLast
    <3>q. QED
      BY <2>1, <2>4, <3>1 DEF FieldAt
  <2>q. QED
    BY <2>3, <2>4 DEF FieldAt
<1>q. QED
  BY <1>2, <1>3

\* At the start nothing has been met.
LEMMA FieldStarts ==
    ASSUME NEW lines, Len(lines) \in Nat, NEW patterns, Len(patterns) \in Nat, NEW f
    PROVE  FieldAt(lines, patterns, 1, 1, {}, f, <<>>)
<1>1. \A k \in 1..Len(lines) : \A p \in 1..Len(patterns) : ~Sees(1, 1, k, p)
  BY DEF Sees
<1>q. QED
  BY <1>1 DEF FieldAt, GivesNone

\* At the end every field is what the page gives for it last.
LEMMA FieldEnds ==
    ASSUME Len(served) \in Nat, Len(Patterns) \in Nat, NEW l, l = Len(served) + 1,
           NEW fields, NEW f, NEW text,
           FieldAt(served, Patterns, l, 1, fields, f, text)
    PROVE  /\ f \in fields <=> Given(f)
           /\ f \notin fields => text = <<>>
           /\ f \in fields =>
                 /\ text = Spelled(LastGiven(f))
                 /\ \E k \in 1..Len(served) : \E p \in 1..Len(Patterns) :
                       /\ Gives(served, Patterns, k, p, f)
                       /\ LastGiven(f) = GroupAt(served, Patterns, k, p, f)
<1> DEFINE lines == served
           patterns == Patterns
<1>1. \A k \in 1..Len(lines) : \A p : Sees(l, 1, k, p)
  BY DEF Sees
<1>2. \A k, p : Giving(k, p, f) <=> p \in 1..Len(patterns) /\ Gives(lines, patterns, k, p, f)
  BY DEF Giving, Gives
<1>3. CASE f \notin fields /\ text = <<>> /\ GivesNone(lines, patterns, l, 1, f)
  <2>1. \A k \in 1..Len(lines) : \A p : ~Giving(k, p, f)
    BY <1>1, <1>2, <1>3 DEF GivesNone
  <2>q. QED
    BY <1>3, <2>1 DEF Given
<1>4. ASSUME f \in fields, NEW k \in 1..Len(lines), NEW p \in 1..Len(patterns),
             GivesLast(lines, patterns, l, 1, k, p, f),
             text = Spelled(GroupAt(lines, patterns, k, p, f))
      PROVE  /\ Given(f) /\ text = Spelled(LastGiven(f))
             /\ Gives(lines, patterns, k, p, f)
             /\ LastGiven(f) = GroupAt(lines, patterns, k, p, f)
  <2>1. Gives(lines, patterns, k, p, f) /\ p \in lines[k].hits /\ Giving(k, p, f)
    BY <1>2, <1>4 DEF GivesLast, Gives
  <2>2. ASSUME NEW k2 \in 1..Len(lines), NEW p2, Giving(k2, p2, f)
        PROVE  k2 < k \/ (k2 = k /\ p2 <= p)
    <3>1. p2 \in 1..Len(patterns) /\ Gives(lines, patterns, k2, p2, f) /\ Sees(l, 1, k2, p2)
      BY <1>1, <1>2, <2>2
    <3>q. QED
      BY <1>4, <3>1 DEF GivesLast
  <2> DEFINE LastLine(n) ==
               /\ \E q \in lines[n].hits : Giving(n, q, f)
               /\ \A k2 \in n + 1 .. Len(lines) : \A q \in lines[k2].hits : ~Giving(k2, q, f)
             LastHit(n, q) ==
               Giving(n, q, f) /\ \A p2 \in lines[n].hits : Giving(n, p2, f) => p2 <= q
             n1 == CHOOSE n \in 1..Len(lines) : LastLine(n)
             q1 == CHOOSE q \in lines[n1].hits : LastHit(n1, q)
  <2>3. LastGiven(f) = GroupAt(lines, patterns, n1, q1, f)
    BY DEF LastGiven, GroupAt
  <2>4. LastLine(k)
    <3>1. ASSUME NEW k2 \in k + 1 .. Len(lines), NEW q, Giving(k2, q, f) PROVE FALSE
      <4>1. k2 \in 1..Len(lines) /\ ~(k2 < k) /\ k2 # k
        BY <3>1
      <4>q. QED
        BY <2>2, <3>1, <4>1
    <3>q. QED
      BY <2>1, <3>1
  <2>5. n1 \in 1..Len(lines) /\ LastLine(n1)
    <3> HIDE DEF LastLine
    <3>q. QED
      BY <2>4
  <2>6. n1 = k
    <3> HIDE DEF n1
    <3>1. PICK q \in lines[n1].hits : Giving(n1, q, f)
      BY <2>5
    <3>2. n1 <= k
      BY <2>2, <2>5, <3>1
    <3>3. ASSUME n1 < k PROVE FALSE
      <4>1. k \in n1 + 1 .. Len(lines)
        BY <2>5, <3>3
      <4>q. QED
        BY <2>1, <2>5, <4>1
    <3>q. QED
      BY <2>5, <3>2, <3>3
  <2>7. LastHit(k, p)
    <3>1. ASSUME NEW p2, Giving(k, p2, f) PROVE p2 <= p
      BY <2>2, <3>1
    <3>q. QED
      BY <2>1, <3>1
  <2>8. q1 \in lines[k].hits /\ LastHit(k, q1)
    <3>1. q1 = CHOOSE q \in lines[k].hits : LastHit(k, q)
      BY <2>6
    <3> HIDE DEF LastHit, q1
    <3>q. QED
      BY <2>1, <2>7, <3>1
  <2>9. q1 = p
    <3> HIDE DEF q1
    <3>1. q1 <= p /\ p <= q1 /\ q1 \in 1..Len(patterns)
      BY <1>2, <2>1, <2>7, <2>8
    <3>q. QED
      BY <3>1
  <2>10. LastGiven(f) = GroupAt(lines, patterns, k, p, f)
    BY <2>3, <2>6, <2>9
  <2>11. Given(f)
    BY <2>1 DEF Given
  <2>q. QED
    BY <1>4, <2>1, <2>10, <2>11
<1>q. QED
  BY <1>3, <1>4 DEF FieldAt

\* A caller whose number has called, or nobody.
Callers == [number : Numbers \cup {<<>>}, field : [Fields -> Seq(Chars)]]

\* What a lookup begins with, what it has received of the page, and what the
\* loops over the lines have met so far.
Fresh == pc \in {"measure", "fill", "perform"} =>
    line = 1 /\ j = 1 /\ found = {} /\ charset = FALSE /\ caller.field = Nobody.field
Received ==
    /\ served \in Pages \cup {<<>>}
    /\ \E m \in 0..Len(served) :
          /\ page = SubSeq(served, m + 1, Len(served))
          /\ pc = "perform" => served \in Pages /\ memory = SubSeq(served, 1, m)
Matching == pc = "match" =>
    /\ memory = served /\ served \in Pages
    /\ line \in 1..Len(served) + 1 /\ j \in 1..Len(Patterns) + 1 /\ (line > Len(served) => j = 1)
    /\ found \subseteq Fields
    /\ charset = \E k \in 1..line - 1 : served[k].charset
    /\ \A f \in Fields : FieldAt(served, Patterns, line, j, found, f, caller.field[f])
Began == pc = "load" => lookups = 0

AnswerInv == Began /\ caller \in Callers /\ Fresh /\ Received /\ Matching /\ AnswerFromPage

\* A page is a sequence of its lines.
LEMMA PageIs ==
    ASSUME NEW answer \in Pages
    PROVE  answer \in Seq({answer[k] : k \in DOMAIN answer}) /\ Len(answer) \in Nat
           /\ DOMAIN answer = 1..Len(answer)
BY LookupAssumption, LenProperties

\* The groups that the patterns of a source take from a page are texts.
LEMMA PatternsAre ==
    ASSUME UrlInv, pc \in {"measure", "fill", "perform", "match"}
    PROVE  /\ Len(Patterns) \in Nat
           /\ \A p \in 1..Len(Patterns) : FieldsOf(Patterns[p]) \subseteq Fields
           /\ \A answer \in Pages : \A k \in 1..Len(answer) :
                 /\ answer[k].charset \in BOOLEAN
                 /\ \A p \in 1..Len(Patterns) : \A f :
                       Gives(answer, Patterns, k, p, f) => GroupAt(answer, Patterns, k, p, f) \in Seq(Pieces)
<1>1. doc \in Documents /\ \E k : IsFirst(k) /\ source = SourceOf(Elements(doc)[k])
  BY DEF UrlInv, Loaded, Chosen
<1>2. PICK e : IsFirst(e) /\ source = SourceOf(Elements(doc)[e])
  BY <1>1
<1>3. e \in DOMAIN SourcesOf(doc) /\ SourcesOf(doc)[e] = source
  BY <1>2 DEF IsFirst, SourcesOf
<1>4. /\ Patterns \in Seq(Seq([pos : Nat, field : Fields]))
      /\ \A answer \in Pages : \A k \in DOMAIN answer :
            /\ answer[k].charset \in BOOLEAN
            /\ \A p \in answer[k].hits \cap DOMAIN Patterns : \A f \in FieldsOf(Patterns[p]) :
                  answer[k].groups[GroupOf(Patterns[p], f)] \in Seq(DOMAIN Spelling)
  BY <1>1, <1>3, PatternAssumption DEF Patterns
<1> DEFINE patterns == Patterns
           S == [pos : Nat, field : Fields]
<1> HIDE DEF patterns
<1>5. Len(patterns) \in Nat /\ DOMAIN patterns = 1..Len(patterns)
      /\ \A p \in 1..Len(patterns) : patterns[p] \in Seq(S)
  <2>1. patterns \in Seq(Seq(S))
    BY <1>4 DEF patterns
  <2> HIDE DEF S
  <2>q. QED
    BY <2>1, LenProperties, ElementOfSeq
<1>6. ASSUME NEW p \in 1..Len(patterns) PROVE FieldsOf(patterns[p]) \subseteq Fields
  <2> DEFINE pattern == patterns[p]
  <2>1. pattern \in Seq(S)
    BY <1>5
  <2> HIDE DEF pattern
  <2>2. \A k \in 1..Len(pattern) : pattern[k] \in S
    BY <2>1, ElementOfSeq
  <2>3. \A k \in 1..Len(pattern) : pattern[k].field \in Fields
    BY <2>2
  <2>q. QED
    BY <2>3 DEF FieldsOf, pattern
<1>7. ASSUME NEW answer \in Pages, NEW k \in 1..Len(answer)
      PROVE  /\ answer[k].charset \in BOOLEAN
             /\ \A p \in 1..Len(patterns) : \A f :
                   Gives(answer, patterns, k, p, f) => GroupAt(answer, patterns, k, p, f) \in Seq(Pieces)
  <2>1. k \in DOMAIN answer
    BY PageIs
  <2>2. answer[k].charset \in BOOLEAN
    BY <1>4, <2>1
  <2>3. \A p \in answer[k].hits \cap DOMAIN patterns : \A f \in FieldsOf(patterns[p]) :
           answer[k].groups[GroupOf(patterns[p], f)] \in Seq(Pieces)
    BY <1>4, <2>1 DEF patterns, Pieces
  <2>4. \A p \in 1..Len(patterns) : \A f :
           Gives(answer, patterns, k, p, f) => GroupAt(answer, patterns, k, p, f) \in Seq(Pieces)
    BY <1>5, <2>3 DEF Gives, GroupAt
  <2>q. QED
    BY <2>2, <2>4
<1>q. QED
  BY <1>5, <1>6, <1>7 DEF patterns

\* At the start there is nobody and no page.
LEMMA InitAnswer == Init => AnswerInv
<1> SUFFICES ASSUME Init PROVE AnswerInv
  OBVIOUS
<1>1. pc = "load" /\ lookups = 0 /\ caller = Nobody /\ served = <<>> /\ page = <<>>
  BY DEF Init
<1>2. Nobody \in Callers
  <2>1. <<>> \in Seq(Chars)
    OBVIOUS
  <2>q. QED
    BY <2>1 DEF Nobody, Callers
<1>3. Received
  <2>1. Len(<<>>) = 0 /\ SubSeq(<<>>, 0 + 1, 0) = <<>>
    BY SubSeqEmpty
  <2>q. QED
    BY <1>1, <2>1 DEF Received
<1>q. QED
  BY <1>1, <1>2, <1>3 DEF AnswerInv, Began, Fresh, Matching, AnswerFromPage

\* A lookup begins with nothing found, and with no page.
LEMMA GetCallerAnswer ==
    ASSUME AnswerInv, NEW number \in Numbers, GetCaller(number) PROVE AnswerInv'
<1>1. /\ pc' \in {"idle", "measure"} /\ (pc' = "idle" => err' = 1)
      /\ caller' = [Nobody EXCEPT !.number = number] /\ served' = <<>> /\ page' = <<>>
      /\ line' = 1 /\ j' = 1 /\ found' = {} /\ charset' = FALSE
  BY DEF GetCaller, Return
<1>2. caller' \in Callers /\ caller'.field = Nobody.field
  <2>1. <<>> \in Seq(Chars)
    OBVIOUS
  <2>q. QED
    BY <1>1, <2>1 DEF Nobody, Callers
<1>3. Received'
  <2>1. Len(<<>>) = 0 /\ SubSeq(<<>>, 0 + 1, 0) = <<>>
    BY SubSeqEmpty
  <2>q. QED
    BY <1>1, <2>1 DEF Received
<1>4. Nobody' = Nobody
  BY DEF Nobody
<1>5. Fresh'
  BY <1>1, <1>2, <1>4 DEF Fresh
<1>6. AnswerFromPage'
  BY <1>1 DEF AnswerFromPage
<1>7. Began' /\ Matching'
  BY <1>1 DEF Began, Matching
<1>q. QED
  BY <1>2, <1>3, <1>5, <1>6, <1>7 DEF AnswerInv, Callers

\* What is done before the page arrives touches none of it.
LEMMA UrlAnswer ==
    ASSUME AnswerInv, Load \/ Measure \/ Allocate \/ Fill PROVE AnswerInv'
<1>1. /\ caller' = caller /\ served' = served /\ page' = page /\ memory' = memory
      /\ line' = line /\ j' = j /\ found' = found /\ charset' = charset /\ lookups' = lookups
      /\ \/ pc' \in {"measure", "fill"} /\ pc \in {"measure", "fill"}
         \/ pc' = "idle" /\ err' = 1
         \/ pc = "load" /\ pc' \in {"idle", "failed"}
  BY DEF Load, Measure, Allocate, Fill, Return, pageVars, matchVars
<1>2. Received'
  BY <1>1 DEF AnswerInv, Received
<1>3. Nobody' = Nobody
  BY DEF Nobody
<1>4. Fresh' /\ caller' \in Callers
  BY <1>1, <1>3 DEF AnswerInv, Fresh
<1>5. AnswerFromPage'
  BY <1>1 DEF AnswerInv, Began, AnswerFromPage
<1>q. QED
  BY <1>1, <1>2, <1>4, <1>5 DEF AnswerInv, Began, Matching

\* The page begins with nothing in the memory.
LEMMA PerformAnswer == AnswerInv /\ Perform => AnswerInv'
<1> SUFFICES ASSUME AnswerInv, Perform PROVE AnswerInv'
  OBVIOUS
<1>1. /\ pc = "fill" /\ pc' = "perform" /\ caller' = caller /\ memory' = <<>>
      /\ served' \in Pages /\ page' = served'
      /\ line' = line /\ j' = j /\ found' = found /\ charset' = charset
  BY DEF Perform, matchVars
<1>2. Nobody' = Nobody
  BY DEF Nobody
<1>3. Received'
  <2> DEFINE answer == served'
  <2>1. answer \in Seq({answer[k] : k \in DOMAIN answer}) /\ Len(answer) \in Nat
    BY <1>1, PageIs
  <2>2. answer = SubSeq(answer, 0 + 1, Len(answer)) /\ <<>> = SubSeq(answer, 1, 0)
    BY <2>1, SubSeqFull, SubSeqEmpty
  <2>3. 0 \in 0..Len(answer)
    BY <2>1
  <2>q. QED
    BY <1>1, <2>2, <2>3 DEF Received
<1>q. QED
  BY <1>1, <1>2, <1>3 DEF AnswerInv, Began, Fresh, Matching, AnswerFromPage

\* The memory and what is left of the page are the page.
LEMMA ReadDataAnswer == AnswerInv /\ ReadData => AnswerInv'
<1> SUFFICES ASSUME AnswerInv, ReadData PROVE AnswerInv'
  OBVIOUS
<1>1. /\ pc = "perform" /\ pc' = "perform" /\ caller' = caller /\ served' = served
      /\ line' = line /\ j' = j /\ found' = found /\ charset' = charset
  BY DEF ReadData, matchVars
<1>2. Nobody' = Nobody
  BY DEF Nobody
<1>3. PICK n \in 1..Len(page) : /\ memory' = memory \o SubSeq(page, 1, n)
                                /\ page' = SubSeq(page, n + 1, Len(page))
  BY DEF ReadData
<1>4. PICK m \in 0..Len(served) : /\ page = SubSeq(served, m + 1, Len(served))
                                  /\ served \in Pages /\ memory = SubSeq(served, 1, m)
  BY <1>1 DEF AnswerInv, Received
<1>5. Received'
  <2> DEFINE S == {served[k] : k \in DOMAIN served}
  <2>1. served \in Seq(S)
    BY <1>4, PageIs
  <2>p. page = SubSeq(served, m + 1, Len(served))
    BY <1>4
  <2> HIDE DEF S
  <2>2. /\ m + n \in 0..Len(served)
        /\ memory \o SubSeq(page, 1, n) = SubSeq(served, 1, m + n)
        /\ SubSeq(page, n + 1, Len(page)) = SubSeq(served, m + n + 1, Len(served))
    <3>1. /\ m + n \in 0..Len(served)
          /\ SubSeq(served, 1, m) \o SubSeq(page, 1, n) = SubSeq(served, 1, m + n)
          /\ SubSeq(page, n + 1, Len(page)) = SubSeq(served, m + n + 1, Len(served))
      BY <2>1, <2>p, CutOn
    <3>q. QED
      BY <1>4, <3>1
  <2>q. QED
    BY <1>1, <1>3, <1>4, <2>2 DEF Received
<1>q. QED
  BY <1>1, <1>2, <1>5 DEF AnswerInv, Began, Fresh, Matching, AnswerFromPage

\* The loops over the lines begin when the memory is the page.
LEMMA EndsAnswer == UrlInv /\ AnswerInv /\ PerformEnds => AnswerInv'
<1> SUFFICES ASSUME UrlInv, AnswerInv, PerformEnds PROVE AnswerInv'
  OBVIOUS
<1>1. /\ pc = "perform" /\ page = <<>> /\ source' = source
      /\ caller' = caller /\ served' = served /\ page' = page /\ memory' = memory
      /\ line' = line /\ j' = j /\ found' = found /\ charset' = charset
      /\ (pc' = "match") \/ (pc' = "idle" /\ err' = 4)
  BY DEF PerformEnds, pageVars, matchVars, Return
<1>2. PICK m \in 0..Len(served) : /\ page = SubSeq(served, m + 1, Len(served))
                                  /\ served \in Pages /\ memory = SubSeq(served, 1, m)
  BY <1>1 DEF AnswerInv, Received
<1>3. served \in Seq({served[k] : k \in DOMAIN served}) /\ Len(served) \in Nat
  BY <1>2, PageIs
<1>4. memory = served
  <2> DEFINE S == {served[k] : k \in DOMAIN served}
             l == Len(served)
  <2>1. served \in Seq(S) /\ l \in Nat /\ m \in Nat /\ m <= l
    BY <1>3
  <2> HIDE DEF S
  <2>2. \A k \in m + 1 .. l : served[k] \in S
    <3>1. ASSUME NEW k \in m + 1 .. l PROVE k \in 1..Len(served)
      BY <2>1
    <3>q. QED
      BY <2>1, <3>1, ElementOfSeq
  <2>3. Len(SubSeq(served, m + 1, l)) = IF m + 1 <= l THEN l - (m + 1) + 1 ELSE 0
    BY <2>1, <2>2, SubSeqProperties
  <2>4. Len(<<>>) = 0 /\ SubSeq(served, m + 1, l) = <<>>
    BY <1>1, <1>2
  <2>5. m = l
    <3>1. 0 = IF m + 1 <= l THEN l - (m + 1) + 1 ELSE 0
      BY <2>3, <2>4
    <3> HIDE DEF l
    <3>q. QED
      BY <2>1, <3>1
  <2>q. QED
    BY <1>2, <2>1, <2>5, SubSeqFull
<1>5. Received'
  BY <1>1 DEF AnswerInv, Received
<1>6. line = 1 /\ j = 1 /\ found = {} /\ charset = FALSE /\ caller.field = Nobody.field
  BY <1>1 DEF AnswerInv, Fresh
<1>7. \A f \in Fields : caller.field[f] = <<>>
  BY <1>6 DEF Nobody
<1>8. Len(Patterns) \in Nat /\ Patterns' = Patterns
  BY <1>1, PatternsAre DEF Patterns
<1>9. \A f \in Fields : FieldAt(served, Patterns, line, j, found, f, caller.field[f])
  BY <1>3, <1>6, <1>7, <1>8, FieldStarts
<1>10. Matching'
  <2>1. charset = \E k \in 1..line - 1 : served[k].charset
    <3>1. \A k \in 1..line - 1 : FALSE
      BY <1>6
    <3>2. (\E k \in 1..line - 1 : served[k].charset) = FALSE
      BY <3>1, Zenon
    <3>q. QED
      BY <1>6, <3>2, Zenon
  <2>2. line \in 1..Len(served) + 1 /\ j \in 1..Len(Patterns) + 1
    <3>1. 1 \in 1..Len(served) + 1 /\ 1 \in 1..Len(Patterns) + 1
      BY <1>3, <1>8
    <3>q. QED
      BY <1>6, <3>1
  <2>q. QED
    BY <1>1, <1>2, <1>4, <1>6, <1>8, <1>9, <2>1, <2>2 DEF Matching
<1>q. QED
  BY <1>1, <1>5, <1>10 DEF AnswerInv, Began, Fresh, AnswerFromPage

\* A lookup that fails says so.
LEMMA FailsAnswer == AnswerInv /\ PerformFails => AnswerInv'
<1> SUFFICES ASSUME AnswerInv, PerformFails PROVE AnswerInv'
  OBVIOUS
<1>1. /\ pc' = "idle" /\ err' = 1 /\ caller' = caller /\ served' = served /\ page' = page
  BY DEF PerformFails, pageVars, Return
<1>q. QED
  BY <1>1 DEF AnswerInv, Began, Fresh, Matching, Received, AnswerFromPage

\* A turn of the loops takes what a pattern gives.
LEMMA MatchAnswer == UrlInv /\ AnswerInv /\ Match => AnswerInv'
<1> SUFFICES ASSUME UrlInv, AnswerInv, Match PROVE AnswerInv'
  OBVIOUS
<1>1. /\ pc = "match" /\ pc' = "match" /\ line <= Len(memory) /\ source' = source
      /\ served' = served /\ page' = page /\ memory' = memory
      /\ TakeFields /\ NoteCharset /\ Advance
  BY DEF Match, InLine, StillMatching, pageVars
<1>2. /\ memory = served /\ served \in Pages
      /\ line \in 1..Len(served) + 1 /\ j \in 1..Len(Patterns) + 1
      /\ found \subseteq Fields /\ caller \in Callers
      /\ charset = \E k \in 1..line - 1 : served[k].charset
      /\ \A f \in Fields : FieldAt(served, Patterns, line, j, found, f, caller.field[f])
  BY <1>1 DEF AnswerInv, Matching
<1>3. Patterns' = Patterns
  BY <1>1 DEF Patterns
<1> DEFINE patterns == Patterns
<1>4. /\ Len(patterns) \in Nat /\ \A p \in 1..Len(patterns) : FieldsOf(patterns[p]) \subseteq Fields
      /\ \A k \in 1..Len(served) :
            /\ served[k].charset \in BOOLEAN
            /\ \A p \in 1..Len(patterns) : \A f :
                  Gives(served, patterns, k, p, f) => GroupAt(served, patterns, k, p, f) \in Seq(Pieces)
  BY <1>1, <1>2, PatternsAre
<1>5. Len(served) \in Nat /\ line \in 1..Len(served)
  <2>1. Len(served) \in Nat
    BY <1>2, PageIs
  <2>q. QED
    BY <1>1, <1>2, <2>1
<1>6. /\ GoesOn(patterns, line, j, line', j')
      /\ line' \in 1..Len(served) + 1 /\ j' \in 1..Len(patterns) + 1
      /\ (line' > Len(served) => j' = 1)
  <2>1. IF j <= Len(patterns) THEN j' = j + 1 /\ line' = line ELSE j' = 1 /\ line' = line + 1
    BY <1>1 DEF Advance
  <2>2. j \in 1..Len(patterns) + 1
    BY <1>2
  <2> HIDE DEF patterns
  <2>q. QED
    BY <1>4, <1>5, <2>1, <2>2 DEF GoesOn
<1>7. charset' = \E k \in 1..line' - 1 : served[k].charset
  <2>1. charset' = (charset \/ (j > Len(patterns) /\ served[line].charset))
    BY <1>1, <1>2 DEF NoteCharset
  <2>2. charset = \E k \in 1..line - 1 : served[k].charset
    BY <1>2
  <2>3. /\ j > Len(patterns) => line' = line + 1
        /\ ~(j > Len(patterns)) => line' = line
    <3>1. j \in 1..Len(patterns) + 1
      BY <1>2
    <3>q. QED
      BY <1>4, <1>6, <3>1 DEF GoesOn
  <2>4. 1..(line + 1) - 1 = 1..line - 1 \cup {line}
    BY <1>5
  <2> HIDE DEF patterns
  <2>5. (\E k \in 1..line' - 1 : served[k].charset)
          <=> ((\E k \in 1..line - 1 : served[k].charset) \/ (j > Len(patterns) /\ served[line].charset))
    <3>1. CASE j > Len(patterns)
      <4>1. 1..line' - 1 = 1..line - 1 \cup {line}
        BY <2>3, <2>4, <3>1
      <4>q. QED
        BY <3>1, <4>1, Zenon
    <3>2. CASE ~(j > Len(patterns))
      BY <2>3, <3>2, Zenon
    <3>q. QED
      BY <3>1, <3>2
  <2>q. QED
    BY <2>1, <2>2, <2>5, Zenon
<1>8. /\ found' \subseteq Fields /\ caller' \in Callers
      /\ \A f \in Fields : TakenAt(served, patterns, line, j, found, caller.field[f],
                                   found', caller'.field[f], f)
  <2>1. CASE Hit
    <3>1. /\ caller' = Fetched(patterns[j], served[line].groups)
          /\ found' = found \cup FieldsOf(patterns[j])
          /\ j <= Len(patterns) /\ j \in served[line].hits
      BY <1>1, <1>2, <2>1 DEF TakeFields, Hit
    <3>j. j \in 1..Len(patterns)
      <4>1. j \in 1..Len(patterns) + 1
        BY <1>2
      <4> HIDE DEF patterns
      <4>q. QED
        BY <1>4, <3>1, <4>1
    <3> DEFINE taken == [f \in Fields |-> IF f \in FieldsOf(patterns[j])
                                          THEN Spelled(GroupAt(served, patterns, line, j, f))
                                          ELSE caller.field[f]]
    <3>2. caller' = [caller EXCEPT !.field = taken]
      BY <3>1 DEF Fetched, GroupAt
    <3>3. \A f \in FieldsOf(patterns[j]) : Spelled(GroupAt(served, patterns, line, j, f)) \in Seq(Chars)
      <4>1. ASSUME NEW f \in FieldsOf(patterns[j])
            PROVE  GroupAt(served, patterns, line, j, f) \in Seq(Pieces)
        <5>1. Gives(served, patterns, line, j, f)
          BY <3>1 DEF Gives
        <5>q. QED
          BY <1>4, <1>5, <3>j, <5>1
      <4>q. QED
        BY <4>1, DecodedIs
    <3>4. taken \in [Fields -> Seq(Chars)]
      <4>1. caller.field \in [Fields -> Seq(Chars)]
        BY <1>2 DEF Callers
      <4>q. QED
        BY <3>3, <4>1
    <3>5. caller'.field = taken /\ caller' \in Callers
      <4> HIDE DEF taken
      <4>q. QED
        BY <1>2, <3>2, <3>4 DEF Callers
    <3>6. FieldsOf(patterns[j]) \subseteq Fields
      BY <1>4, <3>j
    <3>7. ASSUME NEW f \in Fields
          PROVE  TakenAt(served, patterns, line, j, found, caller.field[f],
                         found', caller'.field[f], f)
      <4>1. Gives(served, patterns, line, j, f) <=> f \in FieldsOf(patterns[j])
        BY <3>1 DEF Gives
      <4>2. caller'.field[f] = IF f \in FieldsOf(patterns[j])
                               THEN Spelled(GroupAt(served, patterns, line, j, f)) ELSE caller.field[f]
        BY <3>5
      <4>3. f \in found' <=> (f \in found \/ f \in FieldsOf(patterns[j]))
        BY <3>1
      <4> HIDE DEF patterns, taken
      <4>q. QED
        BY <3>1, <4>1, <4>2, <4>3 DEF TakenAt
    <3>q. QED
      BY <1>2, <3>1, <3>5, <3>6, <3>7
  <2>2. CASE ~Hit
    <3>1. caller' = caller /\ found' = found
      BY <1>1, <2>2 DEF TakeFields
    <3>2. \A f : ~(j <= Len(patterns) /\ Gives(served, patterns, line, j, f))
      BY <1>2, <2>2 DEF Hit, Gives
    <3> HIDE DEF patterns
    <3>q. QED
      BY <1>2, <3>1, <3>2 DEF TakenAt
  <2>q. QED
    BY <2>1, <2>2
<1>9. \A f \in Fields : FieldAt(served, patterns, line', j', found', f, caller'.field[f])
  <2>1. ASSUME NEW f \in Fields
        PROVE  FieldAt(served, patterns, line', j', found', f, caller'.field[f])
    <3>1. /\ FieldAt(served, patterns, line, j, found, f, caller.field[f])
          /\ j \in 1..Len(patterns) + 1
      BY <1>2
    <3>2. TakenAt(served, patterns, line, j, found, caller.field[f], found', caller'.field[f], f)
      BY <1>8
    <3>3. GoesOn(patterns, line, j, line', j')
      BY <1>6
    <3> HIDE DEF patterns
    <3>q. QED
      BY <1>4, <1>5, <3>1, <3>2, <3>3, FieldTurn
  <2>q. QED
    BY <2>1
<1>10. Matching'
  BY <1>1, <1>2, <1>3, <1>6, <1>7, <1>8, <1>9 DEF Matching
<1>11. Received'
  BY <1>1 DEF AnswerInv, Received
<1>q. QED
  BY <1>1, <1>8, <1>10, <1>11 DEF AnswerInv, Began, Fresh, AnswerFromPage, Callers

\* What the decoding leaves is what the page gives, and nothing else.
LEMMA DecodeAnswer == UrlInv /\ AnswerInv /\ Decode => AnswerInv'
<1> SUFFICES ASSUME UrlInv, AnswerInv, Decode PROVE AnswerInv'
  OBVIOUS
<1>1. /\ pc = "match" /\ pc' = "idle" /\ line > Len(memory) /\ source' = source
      /\ served' = served /\ page' = page /\ memory' = memory
      /\ err' = (IF found = {} THEN 4 ELSE 0)
      /\ \/ ~charset /\ caller' = caller
         \/ /\ charset
            /\ \E converts \in SUBSET (found \ {"PostalCode"}) :
                 caller' = [caller EXCEPT !.field = [f \in Fields |->
                     IF f \notin found THEN caller.field[f]
                     ELSE RemoveEscapes(IF f \in converts THEN Converted(caller.field[f])
                                        ELSE caller.field[f])]]
  BY DEF Decode, pageVars, Return
<1>2. /\ memory = served /\ served \in Pages
      /\ line \in 1..Len(served) + 1 /\ j \in 1..Len(Patterns) + 1 /\ (line > Len(served) => j = 1)
      /\ found \subseteq Fields /\ caller \in Callers
      /\ charset = \E k \in 1..line - 1 : served[k].charset
      /\ \A f \in Fields : FieldAt(served, Patterns, line, j, found, f, caller.field[f])
  BY <1>1 DEF AnswerInv, Matching
<1> DEFINE patterns == Patterns
<1>4. /\ Len(patterns) \in Nat
      /\ \A k \in 1..Len(served) :
            \A p \in 1..Len(patterns) : \A f :
                  Gives(served, patterns, k, p, f) => GroupAt(served, patterns, k, p, f) \in Seq(Pieces)
  BY <1>1, <1>2, PatternsAre
<1>5. Len(served) \in Nat /\ line = Len(served) + 1 /\ j = 1
  <2>1. Len(served) \in Nat
    BY <1>2, PageIs
  <2>q. QED
    BY <1>1, <1>2, <2>1
<1>6. charset = InCharset
  <2>1. 1..line - 1 = 1..Len(served)
    BY <1>5
  <2>q. QED
    BY <1>2, <2>1 DEF InCharset
<1>7. ASSUME NEW f \in Fields
      PROVE  /\ f \in found <=> Given(f)
             /\ f \notin found => caller.field[f] = <<>>
             /\ f \in found => caller.field[f] = Spelled(LastGiven(f)) /\ LastGiven(f) \in Seq(Pieces)
  <2>1. FieldAt(served, Patterns, line, 1, found, f, caller.field[f])
    BY <1>2, <1>5
  <2>2. /\ f \in found <=> Given(f)
        /\ f \notin found => caller.field[f] = <<>>
        /\ f \in found =>
                 /\ caller.field[f] = Spelled(LastGiven(f))
                 /\ \E k \in 1..Len(served) : \E p \in 1..Len(Patterns) :
                       /\ Gives(served, Patterns, k, p, f)
                       /\ LastGiven(f) = GroupAt(served, Patterns, k, p, f)
    BY <1>4, <1>5, <2>1, FieldEnds
  <2>3. f \in found => LastGiven(f) \in Seq(Pieces)
    BY <1>4, <2>2
  <2>q. QED
    BY <2>2, <2>3
<1> DEFINE Right(f, text) ==
              IF ~Given(f) THEN text = <<>>
              ELSE IF InCharset THEN \E umlaut \in {<<"u">>, <<"U">>} :
                                       text = Decoded(LastGiven(f), umlaut)
              ELSE text = Spelled(LastGiven(f))
<1>8. caller' \in Callers /\ \A f \in Fields : Right(f, caller'.field[f])
  <2>1. CASE ~charset /\ caller' = caller
    <3>1. ASSUME NEW f \in Fields PROVE Right(f, caller'.field[f])
      BY <1>6, <1>7, <2>1
    <3>q. QED
      BY <1>2, <2>1, <3>1
  <2>2. ASSUME charset, NEW converts \in SUBSET (found \ {"PostalCode"}),
               caller' = [caller EXCEPT !.field = [f \in Fields |->
                     IF f \notin found THEN caller.field[f]
                     ELSE RemoveEscapes(IF f \in converts THEN Converted(caller.field[f])
                                        ELSE caller.field[f])]]
        PROVE  caller' \in Callers /\ \A f \in Fields : Right(f, caller'.field[f])
    <3> DEFINE clean == [f \in Fields |->
                     IF f \notin found THEN caller.field[f]
                     ELSE RemoveEscapes(IF f \in converts THEN Converted(caller.field[f])
                                        ELSE caller.field[f])]
    <3>1. ASSUME NEW f \in Fields PROVE clean[f] \in Seq(Chars) /\ Right(f, clean[f])
      <4>1. CASE f \notin found
        <5>1. clean[f] = <<>> /\ <<>> \in Seq(Chars)
          <6>1. <<>> \in Seq(Chars)
            OBVIOUS
          <6>q. QED
            BY <1>7, <4>1, <6>1
        <5>q. QED
          BY <1>7, <4>1, <5>1
      <4>2. CASE f \in found
        <5> DEFINE pieces == LastGiven(f)
        <5>1. pieces \in Seq(Pieces) /\ caller.field[f] = Spelled(pieces) /\ Given(f)
          BY <1>7, <4>2
        <5>2. clean[f] = RemoveEscapes(IF f \in converts THEN Converted(caller.field[f])
                                       ELSE caller.field[f])
          BY <4>2
        <5> HIDE DEF pieces, clean
        <5>3. /\ RemoveEscapes(Spelled(pieces)) = Decoded(pieces, <<"u">>)
              /\ RemoveEscapes(Converted(Spelled(pieces))) = Decoded(pieces, <<"U">>)
              /\ Decoded(pieces, <<"u">>) \in Seq(Chars) /\ Decoded(pieces, <<"U">>) \in Seq(Chars)
          BY <5>1, DecodedIs
        <5>4. /\ clean[f] \in Seq(Chars)
              /\ clean[f] = Decoded(pieces, <<"u">>) \/ clean[f] = Decoded(pieces, <<"U">>)
          BY <5>1, <5>2, <5>3
        <5>5. InCharset
          BY <1>6, <2>2
        <5>q. QED
          BY <5>1, <5>4, <5>5 DEF pieces
      <4>q. QED
        BY <4>1, <4>2
    <3>2. caller'.field = clean /\ caller' \in Callers
      <4>1. clean \in [Fields -> Seq(Chars)]
        BY <3>1
      <4>2. caller' = [caller EXCEPT !.field = clean]
        BY <2>2
      <4> HIDE DEF clean
      <4>q. QED
        BY <1>2, <4>1, <4>2 DEF Callers
    <3> HIDE DEF clean, Right
    <3>q. QED
      BY <3>1, <3>2
  <2> HIDE DEF Right
  <2>q. QED
    BY <1>1, <2>1, <2>2
<1>9. err' = 0 => \E f \in Fields : Given(f)
  BY <1>1, <1>2, <1>7
<1>10. /\ \A f : Given(f)' <=> Given(f)
       /\ \A f : LastGiven(f)' = LastGiven(f)
       /\ InCharset' <=> InCharset
  <2>1. served' = served /\ Patterns' = Patterns
    BY <1>1 DEF Patterns
  <2>2. ASSUME NEW f PROVE Given(f)' <=> Given(f)
    BY <2>1 DEF Given, Giving
  <2>3. ASSUME NEW f PROVE LastGiven(f)' = LastGiven(f)
    BY <2>1 DEF LastGiven, Giving
  <2>4. InCharset' <=> InCharset
    BY <2>1 DEF InCharset
  <2>q. QED
    BY <2>2, <2>3, <2>4
<1>11. AnswerFromPage'
  <2>1. ASSUME NEW f \in Fields
        PROVE (IF ~Given(f) THEN caller.field[f] = <<>>
              ELSE IF InCharset THEN \E umlaut \in {<<"u">>, <<"U">>} :
                                       caller.field[f] = Decoded(LastGiven(f), umlaut)
              ELSE caller.field[f] = Spelled(LastGiven(f)))'
    BY <1>8, <1>10
  <2>q. QED
    BY <1>9, <1>10, <2>1 DEF AnswerFromPage
<1>12. Received'
  BY <1>1 DEF AnswerInv, Received
<1>q. QED
  BY <1>1, <1>8, <1>11, <1>12 DEF AnswerInv, Began, Fresh, Matching, Callers

\* It holds in every reachable state.
THEOREM AnswerInvHolds == Spec => []AnswerInv
<1>1. AnswerInv /\ UNCHANGED vars => AnswerInv'
  <2> SUFFICES ASSUME AnswerInv, UNCHANGED vars PROVE AnswerInv'
    OBVIOUS
  <2>1. /\ pc' = pc /\ source' = source /\ served' = served /\ page' = page /\ memory' = memory
        /\ caller' = caller /\ line' = line /\ j' = j /\ found' = found /\ charset' = charset
        /\ err' = err /\ lookups' = lookups
    BY DEF vars, pageVars, matchVars
  <2>2. Patterns' = Patterns /\ Nobody' = Nobody
    BY <2>1 DEF Patterns, Nobody
  <2>3. /\ \A f : Given(f)' <=> Given(f)
        /\ \A f : LastGiven(f)' = LastGiven(f)
        /\ InCharset' <=> InCharset
    <3>1. ASSUME NEW f PROVE Given(f)' <=> Given(f)
      BY <2>1, <2>2 DEF Given, Giving
    <3>2. ASSUME NEW f PROVE LastGiven(f)' = LastGiven(f)
      BY <2>1, <2>2 DEF LastGiven, Giving
    <3>3. InCharset' <=> InCharset
      BY <2>1 DEF InCharset
    <3>q. QED
      BY <3>1, <3>2, <3>3
  <2>4. AnswerFromPage'
    BY <2>1, <2>3 DEF AnswerInv, AnswerFromPage
  <2>5. Matching' /\ Received'
    BY <2>1, <2>2 DEF AnswerInv, Matching, Received
  <2>q. QED
    BY <2>1, <2>2, <2>4, <2>5 DEF AnswerInv, Began, Fresh, Callers
<1>2. UrlInv /\ AnswerInv /\ [Next]_vars => AnswerInv'
  BY <1>1, GetCallerAnswer, UrlAnswer, PerformAnswer, ReadDataAnswer, EndsAnswer, FailsAnswer,
     MatchAnswer, DecodeAnswer DEF Next, Lookup, Web
<1>q. QED
  BY InitAnswer, <1>2, UrlInvHolds, PTL DEF Spec

\* An entry that a lookup returns is what the page of this lookup gives, and of
\* no earlier one, whatever the sources and the pages are.
THEOREM AnswerHolds == Spec => []AnswerFromPage
<1>1. AnswerInv => AnswerFromPage
  BY DEF AnswerInv
<1>q. QED
  BY <1>1, AnswerInvHolds, PTL

-----------------------------------------------------------------------------
(* Types.                                                                  *)

\* What the other invariants leave of the types.
RestOK ==
    /\ pc \in {"load", "failed", "idle", "measure", "fill", "perform", "match"}
    /\ i \in 1..Len(url) + 1 /\ diff \in Int /\ room \in Nat /\ out \in Seq(Chars)
    /\ found \subseteq Fields /\ charset \in BOOLEAN /\ err \in {0, 1, 4}
    /\ lookups \in 0..MaxLookups

\* The url of a lookup is typed by what is known of it.
UrlTypes == pc \in {"measure", "fill"} =>
    i \in 1..Len(url) + 1 /\ diff \in Int /\ room \in Nat /\ out \in Seq(Chars)

\* They follow from what is known of the two loops.
LEMMA UrlTyped == UrlInv => UrlTypes
<1> SUFFICES ASSUME UrlInv, pc \in {"measure", "fill"}
             PROVE  i \in 1..Len(url) + 1 /\ diff \in Int /\ room \in Nat /\ out \in Seq(Chars)
  BY DEF UrlTypes
<1>1. /\ url \in Seq(Chars) /\ Len(url) \in Nat /\ caller.number \in Seq(Digits)
      /\ diff \in Int /\ out \in Seq(Chars)
  BY LenProperties DEF UrlInv, UrlInUse, Usable
<1>2. CASE pc = "measure"
  <2>1. room = 0 /\ \E walk : IsWalk(walk, url) /\ i \in walk
    BY <1>2 DEF UrlInv, Measured
  <2>q. QED
    BY <1>1, <2>1 DEF IsWalk
<1>3. CASE pc = "fill"
  <2>1. PICK sum : IsTrace(sum, url, caller.number, Len(url) + 1, diff) /\ i \in DOMAIN sum
    BY <1>3 DEF UrlInv, Filled
  <2>2. /\ i \in 1..Len(url) + 1 /\ 1 \in DOMAIN sum /\ sum[1] = 0
        /\ \A k \in DOMAIN sum : k + sum[k] <= Len(url) + 1 + diff
    BY <2>1 DEF IsTrace
  <2>3. 1 + 0 <= Len(url) + 1 + diff
    BY <2>2
  <2>4. room = Len(url) + 1 + diff
    BY <1>3 DEF UrlInv, Filled
  <2>q. QED
    BY <1>1, <2>2, <2>3, <2>4
<1>q. QED
  BY <1>2, <1>3

\* The types of a lookup hold in every reachable state.
THEOREM TypesHold == Spec => []TypeOK
<1>1. Init => RestOK
  <2>1. <<>> \in Seq(Chars) /\ Len(<<>>) = 0
    OBVIOUS
  <2>2. ASSUME Init PROVE RestOK
    <3>1. /\ pc = "load" /\ i = 1 /\ diff = 0 /\ room = 0 /\ out = <<>> /\ url = <<>>
          /\ found = {} /\ charset = FALSE /\ err = 0 /\ lookups = 0
      BY <2>2 DEF Init, url, NoSource
    <3>2. 0 \in 0..MaxLookups
      BY LookupAssumption
    <3>3. i \in 1..Len(url) + 1
      BY <2>1, <3>1
    <3>q. QED
      <4>1. /\ diff \in Int /\ room \in Nat /\ out \in Seq(Chars)
            /\ found \subseteq Fields /\ lookups \in 0..MaxLookups
        BY <2>1, <3>1, <3>2
      <4>2. /\ pc \in {"load", "failed", "idle", "measure", "fill", "perform", "match"}
            /\ charset \in BOOLEAN /\ err \in {0, 1, 4}
        BY <3>1
      <4>q. QED
        BY <3>3, <4>1, <4>2 DEF RestOK
  <2>q. QED
    BY <2>2
<1>a. UrlInv' => UrlTypes'
  BY UrlTyped, PTL
<1>2. UrlInv' /\ AnswerInv' /\ RestOK /\ [Next]_vars => RestOK'
  <2> SUFFICES ASSUME UrlInv', AnswerInv', RestOK, [Next]_vars PROVE RestOK'
    OBVIOUS
  <2>1. /\ pc' \in {"load", "failed", "idle", "measure", "fill", "perform", "match"}
        /\ err' \in {0, 1, 4}
    <3>1. CASE UNCHANGED vars
      <4>1. pc' = pc /\ err' = err
        BY <3>1 DEF vars
      <4>q. QED
        BY <4>1 DEF RestOK
    <3>2. CASE Next
      <4>1. \/ pc' = pc
            \/ pc' \in {"failed", "idle", "measure", "fill", "perform", "match"}
        BY <3>2 DEF Next, Lookup, Web, Load, GetCaller, Measure, Allocate, Fill, Perform,
           PerformEnds, Match, StillMatching, Decode, ReadData, PerformFails, Return
      <4>2. err' = err \/ err' \in {0, 1, 4}
        BY <3>2 DEF Next, Lookup, Web, Load, GetCaller, Measure, Allocate, Fill, Perform,
           PerformEnds, Match, StillMatching, Decode, ReadData, PerformFails, Return
      <4>q. QED
        BY <4>1, <4>2 DEF RestOK
    <3>q. QED
      BY <3>1, <3>2
  <2>2. lookups' \in 0..MaxLookups
    <3>1. lookups' = lookups \/ (lookups < MaxLookups /\ lookups' = lookups + 1)
      BY DEF vars, Next, Lookup, Web, Load, GetCaller, Measure, Allocate, Fill, Perform,
         PerformEnds, Match, StillMatching, Decode, ReadData, PerformFails
    <3>q. QED
      BY <3>1, LookupAssumption DEF RestOK
  <2>3. i' \in 1..Len(url') + 1 /\ diff' \in Int /\ room' \in Nat /\ out' \in Seq(Chars)
    <3>1. CASE pc' \in {"measure", "fill"}
      BY <1>a, <3>1 DEF UrlTypes
    <3>2. CASE pc' \notin {"measure", "fill"}
      <4>1. \/ i' = i /\ diff' = diff /\ room' = room /\ out' = out /\ source' = source
            \/ i' = 1 /\ diff' = 0 /\ room' = 0 /\ out' = <<>> /\ source' = NoSource
        BY <3>2 DEF vars, urlVars, Next, Lookup, Web, Load, GetCaller, Measure, Allocate, Fill,
           Perform, PerformEnds, Match, InLine, StillMatching, Decode, ReadData, PerformFails, Return
      <4>2. CASE i' = i /\ diff' = diff /\ room' = room /\ out' = out /\ source' = source
        BY <4>2 DEF RestOK, url
      <4>3. CASE i' = 1 /\ diff' = 0 /\ room' = 0 /\ out' = <<>> /\ source' = NoSource
        <5>1. <<>> \in Seq(Chars) /\ Len(<<>>) = 0
          OBVIOUS
        <5>q. QED
          BY <4>3, <5>1 DEF url, NoSource
      <4>q. QED
        BY <4>1, <4>2, <4>3
    <3>q. QED
      BY <3>1, <3>2
  <2>4. found' \subseteq Fields /\ charset' \in BOOLEAN
    <3>1. CASE pc' = "match"
      <4>1. found' \subseteq Fields /\ charset' = (\E k \in 1..line' - 1 : served'[k].charset)
        BY <3>1 DEF AnswerInv, Matching
      <4>q. QED
        BY <4>1, Zenon
    <3>2. CASE pc' # "match"
      <4>1. (found' = found /\ charset' = charset) \/ (found' = {} /\ charset' = FALSE)
        BY <3>2 DEF vars, matchVars, Next, Lookup, Web, Load, GetCaller, Measure, Allocate, Fill,
           Perform, PerformEnds, Match, InLine, StillMatching, Decode, ReadData, PerformFails
      <4>q. QED
        BY <4>1 DEF RestOK
    <3>q. QED
      BY <3>1, <3>2
  <2>q. QED
    BY <2>1, <2>2, <2>3, <2>4 DEF RestOK
<1>3. UrlInv /\ AnswerInv /\ RestOK => TypeOK
  <2> SUFFICES ASSUME UrlInv, AnswerInv, RestOK PROVE TypeOK
    OBVIOUS
  <2>1. doc \in Documents
        /\ \A k \in DOMAIN sources : \E k2 \in DOMAIN SourcesOf(doc) : sources[k] = SourcesOf(doc)[k2]
    <3>1. DOMAIN <<>> = {}
      OBVIOUS
    <3>q. QED
      BY <3>1 DEF UrlInv, Loaded
  <2>2. caller.number \in Numbers \cup {<<>>} /\ \A f \in Fields : caller.field[f] \in Seq(Chars)
    BY DEF AnswerInv, Callers
  <2>3. /\ served \in Pages \cup {<<>>}
        /\ \E m \in 0..Len(served) : page = SubSeq(served, m + 1, Len(served))
    BY DEF AnswerInv, Received
  <2>4. pc = "match" => line \in 1..Len(memory) + 1 /\ j \in 1..Len(Patterns) + 1
    BY DEF AnswerInv, Matching
  <2>q. QED
    BY <2>1, <2>2, <2>3, <2>4 DEF RestOK, TypeOK
<1>q. QED
  BY <1>1, <1>2, <1>3, UrlInvHolds, AnswerInvHolds, PTL DEF Spec

=============================================================================
