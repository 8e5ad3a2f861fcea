--------------------------- MODULE LifeCycleProofs ---------------------------
(***************************************************************************)
(* Theorems about LifeCycle, for all files of area codes in order, all     *)
(* numbers and any number of calls and requests: the search of an area     *)
(* code is right while the index is being written, and nothing is released *)
(* while a thread uses it, but in the two cases that InUseIsUp names.      *)
(***************************************************************************)
EXTENDS LifeCycle, WellFoundedInduction, TLAPS

-----------------------------------------------------------------------------
(* The search of an area code, for every file in order and every number:   *)
(* it returns the listed code if it begins at or before its line, and a    *)
(* code that is not listed never.                                          *)

\* The natural numbers are well ordered.
LEMMA Least ==
  ASSUME NEW T, T \subseteq Nat, T # {}
  PROVE  \E x \in T : \A y \in T : x <= y
<1> DEFINE R == OpToRel(<, Nat)
<1>1. IsWellFoundedOn(R, Nat)
  BY NatLessThanWellFounded
<1>2. \A x, y \in Nat : <<x, y>> \in R <=> x < y
  BY DEF OpToRel
<1> HIDE DEF R
<1>3. PICK x \in T : \A y \in T : ~(<<y, x>> \in R)
  BY <1>1, WFMin
<1>4. ASSUME NEW y \in T PROVE x <= y
  <2>1. x \in Nat /\ y \in Nat
    OBVIOUS
  <2>2. ~(y < x)
    BY <1>2, <1>3, <2>1, Zenon
  <2> QED BY <2>1, <2>2
<1> QED BY <1>4

LEMMA MinIsLeast ==
  ASSUME NEW T, T \subseteq Nat, T # {}
  PROVE  Min(T) \in T /\ \A y \in T : Min(T) <= y
  BY Least DEF Min

\* The greatest of a bounded set is what the bound leaves over least.
LEMMA MaxIsGreatest ==
  ASSUME NEW b \in Nat, NEW T, T \subseteq 0..b, T # {}
  PROVE  Max(T) \in T /\ \A y \in T : y <= Max(T)
<1> DEFINE U == {u \in 0..b : b - u \in T}
<1>1. U \subseteq Nat /\ U # {}
  <2>1. PICK y \in T : TRUE
    OBVIOUS
  <2>2. y \in 0..b /\ b - (b - y) = y /\ b - y \in 0..b
    BY <2>1
  <2>3. b - y \in U
    BY <2>1, <2>2
  <2>4. U \subseteq 0..b
    OBVIOUS
  <2>5. U \subseteq Nat
    BY <2>4
  <2> HIDE DEF U
  <2> QED BY <2>3, <2>5
<1>2. PICK u \in U : \A v \in U : u <= v
  BY <1>1, Least
<1>3. \A y \in T : y <= b - u
  <2> TAKE y \in T
  <2>1. y \in 0..b /\ b - (b - y) = y /\ b - y \in 0..b
    OBVIOUS
  <2>2. b - y \in U
    BY <2>1
  <2>3. u <= b - y /\ u \in 0..b
    BY <1>2, <2>2
  <2> QED BY <2>1, <2>3
<1>4. b - u \in T
  BY <1>2
<1>5. \E x \in T : \A y \in T : x >= y
  <2>1. \A y \in T : b - u >= y
    BY <1>2, <1>3
  <2> QED BY <1>4, <2>1
<1>6. Max(T) \in T /\ \A y \in T : Max(T) >= y
  BY <1>5 DEF Max
<1> QED
  <2>1. Max(T) \in 0..b /\ \A y \in T : y \in 0..b
    BY <1>6
  <2> QED BY <1>6, <2>1

-----------------------------------------------------------------------------
(* Lines and numbers.                                                      *)

\* The first n characters are the same.
Agree(code, digits, n) ==
    n <= Len(code) /\ n <= Len(digits) /\ \A i \in 1..n : code[i] = digits[i]

LEMMA PrefixAgrees ==
  ASSUME NEW code \in Seq(Digit), NEW digits \in Seq(Digit), NEW n \in 0..Len(code)
  PROVE  IsPrefix(SubSeq(code, 1, n), digits) <=> Agree(code, digits, n)
<1>1. /\ SubSeq(code, 1, n) \in Seq(Digit) /\ Len(SubSeq(code, 1, n)) = n
      /\ \A i \in 1..n : SubSeq(code, 1, n)[i] = code[i]
  OBVIOUS
<1>2. SubSeq(SubSeq(code, 1, n), 1, n) = SubSeq(code, 1, n)
  BY <1>1
<1>3. CASE n <= Len(digits)
  <2>1. /\ SubSeq(digits, 1, n) \in Seq(Digit) /\ Len(SubSeq(digits, 1, n)) = n
        /\ \A i \in 1..n : SubSeq(digits, 1, n)[i] = digits[i]
    BY <1>3
  <2>2. SubSeq(code, 1, n) = SubSeq(digits, 1, n) <=> \A i \in 1..n : code[i] = digits[i]
    BY <1>1, <2>1
  <2> QED BY <1>1, <1>2, <1>3, <2>2 DEF IsPrefix, Agree
<1> QED BY <1>1, <1>3 DEF IsPrefix, Agree

LEMMA WholeAgrees ==
  ASSUME NEW code \in Seq(Digit), NEW digits \in Seq(Digit)
  PROVE  IsPrefix(code, digits) <=> Agree(code, digits, Len(code))
<1>1. SubSeq(code, 1, Len(code)) = code /\ Len(code) \in 0..Len(code)
  OBVIOUS
<1> QED BY <1>1, PrefixAgrees

LEMMA MatchedIs ==
  ASSUME NEW code \in Seq(Digit), NEW digits \in Seq(Digit)
  PROVE  /\ Matched(code, digits) \in 0..Len(code)
         /\ Agree(code, digits, Matched(code, digits))
         /\ \A n \in 0..Len(code) : Agree(code, digits, n) => n <= Matched(code, digits)
<1> DEFINE T == {n \in 0..Len(code) : IsPrefix(SubSeq(code, 1, n), digits)}
<1>1. \A n \in 0..Len(code) : n \in T <=> Agree(code, digits, n)
  BY PrefixAgrees
<1>2. Len(code) \in Nat /\ T \subseteq 0..Len(code) /\ 0 \in T
  BY <1>1 DEF Agree
<1>3. Matched(code, digits) = Max(T)
  BY DEF Matched
<1> HIDE DEF T
<1>4. Max(T) \in T /\ \A y \in T : y <= Max(T)
  BY <1>2, MaxIsGreatest
<1> QED BY <1>1, <1>2, <1>3, <1>4

LEMMA HitIs ==
  ASSUME NEW code \in Seq(Digit), NEW digits \in Seq(Digit)
  PROVE  Hit(code, digits) <=> IsCode(code) /\ IsPrefix(code, digits)
<1>1. Len(code) \in 0..Len(code)
  OBVIOUS
<1> QED BY <1>1, MatchedIs, WholeAgrees DEF Hit, IsCode

\* Behind a line that is past the number there is no code of it.
LEMMA PastEnds ==
  ASSUME NEW a \in Seq(Digit), NEW c \in Seq(Digit), NEW digits \in Seq(Digit),
         Past(a, digits), Before(a, c)
  PROVE  ~IsPrefix(c, digits)
<1> SUFFICES ASSUME IsPrefix(c, digits) PROVE FALSE
  OBVIOUS
<1> DEFINE n == Matched(a, digits)
<1>1. /\ n \in 0..Len(a) /\ Agree(a, digits, n) /\ DigitAt(a, n) > DigitAt(digits, n)
      /\ \A m \in 0..Len(a) : Agree(a, digits, m) => m <= n
  BY MatchedIs DEF Past
<1> HIDE DEF n
<1>2. Agree(c, digits, Len(c))
  BY WholeAgrees
<1>3. PICK i \in 1..Len(c) : /\ i <= Len(a) + 1 /\ SubSeq(a, 1, i - 1) = SubSeq(c, 1, i - 1)
                             /\ i > Len(a) \/ a[i] < c[i]
  BY DEF Before
<1>4. Agree(a, digits, i - 1)
  <2>1. \A j \in 1..(i - 1) : /\ SubSeq(a, 1, i - 1)[j] = a[j]
                              /\ SubSeq(c, 1, i - 1)[j] = c[j]
    BY <1>3
  <2>2. \A j \in 1..(i - 1) : a[j] = digits[j]
    BY <1>2, <1>3, <2>1 DEF Agree
  <2> QED BY <1>2, <1>3, <2>2 DEF Agree
<1>5. i - 1 <= n
  BY <1>1, <1>3, <1>4
<1>6. n < Len(a) /\ a[n + 1] \in Digit
  <2>1. DigitAt(digits, n) \in -1..9
    <3>1. CASE n < Len(digits)
      <4>1. n + 1 \in 1..Len(digits)
        BY <1>1, <3>1
      <4>2. digits[n + 1] \in Digit
        BY <4>1
      <4> QED BY <3>1, <4>2 DEF DigitAt, Digit
    <3> QED BY <3>1 DEF DigitAt
  <2>2. n < Len(a)
    BY <1>1, <2>1 DEF DigitAt
  <2>3. n + 1 \in 1..Len(a)
    BY <1>1, <2>2
  <2> QED BY <2>2, <2>3
<1>7. i <= Len(a) /\ a[i] < c[i] /\ c[i] = digits[i] /\ i <= Len(digits)
  BY <1>1, <1>2, <1>3, <1>5, <1>6 DEF Agree
<1>8. n = i - 1
  <2>1. a[i] # digits[i]
    <3>1. a[i] \in Digit /\ c[i] \in Digit
      BY <1>3, <1>7
    <3> QED BY <1>7, <3>1 DEF Digit
  <2>2. ~Agree(a, digits, n) \/ n < i
    BY <1>1, <1>3, <2>1 DEF Agree
  <2> QED BY <1>1, <1>3, <1>5, <2>2
<1>9. DigitAt(a, n) = a[i] /\ DigitAt(digits, n) = digits[i]
  BY <1>1, <1>3, <1>6, <1>7, <1>8 DEF DigitAt
<1>10. a[i] \in Digit /\ digits[i] \in Digit
  BY <1>3, <1>7
<1> QED BY <1>1, <1>7, <1>9, <1>10 DEF Digit

-----------------------------------------------------------------------------
(* The search.                                                             *)

IsFile(lines) == lines \in Seq(Seq(Digit)) /\ IsCodeFile(lines)

LEMMA LineIsDigits ==
  ASSUME NEW lines, IsFile(lines), NEW k \in 1..Len(lines)
  PROVE  lines[k] \in Seq(Digit)
  BY DEF IsFile

LEMMA ListedIsHit ==
  ASSUME NEW lines, IsFile(lines), NEW digits \in Seq(Digit), NEW k \in 1..Len(lines)
  PROVE  k \in Listed(lines, digits) <=> Hit(lines[k], digits)
  BY LineIsDigits, HitIs DEF Listed

\* No code is the beginning of another, so a number has one at most.
LEMMA OneListed ==
  ASSUME NEW lines, IsFile(lines), NEW digits \in Seq(Digit),
         NEW j \in Listed(lines, digits), NEW k \in Listed(lines, digits)
  PROVE  j = k
<1> SUFFICES ASSUME j # k PROVE FALSE
  OBVIOUS
<1>1. /\ j \in 2..Len(lines) /\ k \in 2..Len(lines)
      /\ IsPrefix(lines[j], digits) /\ IsPrefix(lines[k], digits)
  <2>1. /\ j \in 1..Len(lines) /\ IsCode(lines[j]) /\ IsPrefix(lines[j], digits)
        /\ k \in 1..Len(lines) /\ IsCode(lines[k]) /\ IsPrefix(lines[k], digits)
    BY DEF Listed
  <2>2. ~IsCode(lines[1])
    BY DEF IsFile, IsCodeFile
  <2>3. j # 1 /\ k # 1
    BY <2>1, <2>2
  <2> QED BY <2>1, <2>3
<1>2. lines[j] \in Seq(Digit) /\ lines[k] \in Seq(Digit)
  BY <1>1, LineIsDigits
<1>3. Agree(lines[j], digits, Len(lines[j])) /\ Agree(lines[k], digits, Len(lines[k]))
  BY <1>1, <1>2, WholeAgrees
<1>4. ASSUME NEW a \in Seq(Digit), NEW c \in Seq(Digit), Len(a) <= Len(c),
             Agree(a, digits, Len(a)), Agree(c, digits, Len(c))
      PROVE  IsPrefix(a, c)
  <2>1. Agree(a, c, Len(a))
    BY <1>4 DEF Agree
  <2> QED BY <2>1, WholeAgrees
<1>5. IsPrefix(lines[j], lines[k]) \/ IsPrefix(lines[k], lines[j])
  <2>1. Len(lines[j]) <= Len(lines[k]) \/ Len(lines[k]) <= Len(lines[j])
    BY <1>2
  <2> QED BY <1>2, <1>3, <1>4, <2>1
<1> QED BY <1>1, <1>5 DEF IsFile, IsCodeFile

\* What a search returns when it is a line is listed.
THEOREM ScanIsListed ==
  ASSUME NEW lines, IsFile(lines), NEW digits \in Seq(Digit), NEW pos \in 0..Len(lines)
  PROVE  /\ Scan(lines, pos, digits) \in AtEnd..Len(lines)
         /\ Scan(lines, pos, digits) > 0 =>
                Scan(lines, pos, digits) \in Listed(lines, digits)
<1> DEFINE ends == {k \in (pos + 1)..Len(lines) : Hit(lines[k], digits) \/ Past(lines[k], digits)}
<1>1. Len(lines) \in Nat /\ AtEnd \in AtEnd..Len(lines) /\ Unknown \in AtEnd..Len(lines)
  BY DEF IsFile, AtEnd, Unknown
<1>2. CASE ends = {}
  BY <1>1, <1>2 DEF Scan, AtEnd
<1>3. CASE ends # {}
  <2>1. Min(ends) \in 1..Len(lines)
    <3>1. ends \subseteq Nat
      OBVIOUS
    <3>2. Min(ends) \in ends
      BY <1>3, <3>1, MinIsLeast
    <3> QED BY <3>2
  <2>2. Scan(lines, pos, digits) = IF Hit(lines[Min(ends)], digits) THEN Min(ends) ELSE Unknown
    BY <1>3 DEF Scan
  <2> HIDE DEF ends
  <2>3. CASE Hit(lines[Min(ends)], digits)
    BY <1>1, <2>1, <2>2, <2>3, ListedIsHit DEF AtEnd
  <2>4. CASE ~Hit(lines[Min(ends)], digits)
    BY <1>1, <2>2, <2>4 DEF Unknown
  <2> QED BY <2>3, <2>4
<1> QED BY <1>2, <1>3

\* A listed code is found from every position at or before its line.
THEOREM ScanFindsListed ==
  ASSUME NEW lines, IsFile(lines), NEW digits \in Seq(Digit),
         NEW k \in Listed(lines, digits), NEW pos \in 0..(k - 1)
  PROVE  Scan(lines, pos, digits) = k
<1> DEFINE ends == {m \in (pos + 1)..Len(lines) : Hit(lines[m], digits) \/ Past(lines[m], digits)}
<1>1. k \in 1..Len(lines) /\ IsPrefix(lines[k], digits)
  BY DEF Listed
<1>2. Hit(lines[k], digits) /\ k \in ends
  BY <1>1, ListedIsHit
<1>3. ASSUME NEW m \in ends, m < k PROVE FALSE
  <2>1. m \in 1..Len(lines)
    OBVIOUS
  <2>2. CASE Hit(lines[m], digits)
    BY <1>3, <2>1, <2>2, ListedIsHit, OneListed
  <2>3. CASE Past(lines[m], digits)
    <3>1. Before(lines[m], lines[k])
      BY <1>1, <1>3, <2>1 DEF IsFile, IsCodeFile
    <3> QED BY <1>1, <2>1, <2>3, <3>1, LineIsDigits, PastEnds
  <2> QED BY <2>2, <2>3
<1>4. Min(ends) = k
  <2>1. ends \subseteq Nat
    OBVIOUS
  <2>2. Min(ends) \in ends /\ \A m \in ends : Min(ends) <= m
    BY <1>2, <2>1, MinIsLeast
  <2>3. Min(ends) <= k /\ ~(Min(ends) < k) /\ Min(ends) \in Nat
    BY <1>2, <1>3, <2>1, <2>2
  <2> QED BY <1>1, <2>3
<1> QED BY <1>2, <1>4 DEF Scan

\* A code and a number that begins with it have the same group.
LEMMA GroupOfListed ==
  ASSUME NEW lines, IsFile(lines), NEW digits \in Seq(Digit), NEW k \in Listed(lines, digits)
  PROVE  GroupOf(lines[k]) = GroupOfNumber(digits) /\ digits # <<>>
<1>1. k \in 1..Len(lines) /\ IsCode(lines[k]) /\ IsPrefix(lines[k], digits)
  BY DEF Listed
<1>2. lines[k] \in Seq(Digit) /\ Agree(lines[k], digits, Len(lines[k]))
  BY <1>1, LineIsDigits, WholeAgrees
<1>3. Len(digits) >= 3 /\ lines[k][2] = digits[2] /\ lines[k][3] = digits[3]
  BY <1>1, <1>2 DEF Agree, IsCode
<1> QED BY <1>3 DEF GroupOf, GroupOfNumber

LEMMA GroupIsGroup ==
  ASSUME NEW code \in Seq(Digit)
  PROVE  GroupOfNumber(code) \in Groups /\ (IsCode(code) => GroupOf(code) \in Groups)
<1>1. Len(code) >= 3 => GroupOf(code) \in Groups
  <2> SUFFICES ASSUME Len(code) >= 3 PROVE GroupOf(code) \in Groups
    OBVIOUS
  <2>1. 2 \in 1..Len(code) /\ 3 \in 1..Len(code)
    OBVIOUS
  <2>2. code[2] \in 0..9 /\ code[3] \in 0..9
    BY <2>1 DEF Digit
  <2>3. \A x, y \in 0..9 : 10 * x + y \in 0..99
    OBVIOUS
  <2> QED BY <2>2, <2>3 DEF GroupOf, Groups
<1>2. Len(code) = 2 => code[2] \in Groups
  <2>1. \A k \in 1..Len(code) : code[k] \in Digit
    OBVIOUS
  <2>2. Digit \subseteq Groups
    BY DEF Groups, Digit
  <2> HIDE DEF Groups
  <2>3. ASSUME Len(code) = 2 PROVE code[2] \in Digit
    BY <2>1, <2>3
  <2> QED BY <2>2, <2>3
<1>3. 0 \in Groups
  BY DEF Groups
<1> QED BY <1>1, <1>2, <1>3 DEF GroupOfNumber, IsCode

-----------------------------------------------------------------------------
(* The life cycle.                                                         *)

Places == Searching \cup {"none", "born", "idle", "ended", "alias", "announce",
                          "lookup", "store", "complete", "call_alias", "query"}

\* The places of the main thread, in its order.
Unnamed   == {"fritz_init", "cisrv_init", "dbhandler_init", "lookup_init", "msnl_read_file",
              "cisrv_run", "fritz_startup", "ci_init_area_codes", "area_name"}
Serving   == {"area_open", "area_read", "sigaction", "loop", "ci_free_area_codes"}
Waiting   == {"fritz_shutdown", "fritz_join", "cisrv_disconnect", "cisrv_join"}
Releasing == {"msnl_cleanup", "fritz_cleanup", "fritz_cleanup_join", "fritz_close",
              "dbhandler_cleanup", "cisrv_cleanup", "cidb_cleanup", "cirlw_cleanup",
              "g_queue_free", "config_free", "done"}

MainTyped == main \in Unnamed \cup Serving \cup Waiting \cup Releasing

\* Before the file is opened no line of it has been read, and before it is named
\* there is no name.
NotYetRead ==
    /\ main \in Unnamed \cup {"area_open"} => line = 0 /\ index = NoIndex
    /\ main \in Unnamed => name = "NULL"

\* A group in the index begins with a line that has been read, and it is in the
\* index once a line of it has been read, with its first one.
IndexLeads ==
    /\ \A g \in Groups : index[g] # 0 => index[g] < line
    /\ \A g \in Groups, k \in 1..Len(file) :
          k <= line /\ IsCode(file[k]) /\ GroupOf(file[k]) = g => index[g] # 0 /\ index[g] < k

\* What a search has found in the index stays there.
KnownStays == \A t \in Threads : known[t] => name # "NULL" /\ Indexed(t)

Gone(t) == pc[t] \in {"none", "ended"}

\* When the main thread has waited for a thread it is gone, but for that of the
\* link if it did not listen yet; nothing is released before.
Waited ==
    /\ pc["Fritz"] \notin {"none", "born", "ended"} => listening
    /\ main \in Releasing \cup {"cisrv_disconnect", "cisrv_join"} => unjoined \/ Gone("Fritz")
    /\ main \in Releasing => Gone("Srv")
    /\ name = "freed" => main \in Waiting \cup Releasing
    /\ released # {} => main \in Releasing

IInv == /\ TypeOK /\ MainTyped /\ NotYetRead /\ IndexLeads /\ KnownStays
        /\ FoundIsListed /\ FoundOnceIndexed /\ Waited

LEMMA FileIsFile ==
  ASSUME TypeOK
  PROVE  IsFile(file) /\ Len(file) \in Nat \ {0}
  BY LifeCycleAssumption DEF TypeOK, IsFile, IsCodeFile

LEMMA InitInv == Init => IInv
<1> SUFFICES ASSUME Init PROVE IInv
  OBVIOUS
<1>1. IsFile(file) /\ Len(file) \in Nat \ {0} /\ file \in Files
  BY LifeCycleAssumption DEF Init, IsFile, IsCodeFile
<1>2. TypeOK
  <2>1. index \in [Groups -> 0..(Len(file) - 1)]
    BY <1>1 DEF Init, NoIndex
  <2>2. number \in [Threads -> Seq(Digit)] /\ known \in [Threads -> BOOLEAN]
    BY DEF Init
  <2>3. result \in [Threads -> Unopened..Len(file)]
    BY <1>1 DEF Init, Unknown, Unopened
  <2>4. uses \in [Threads -> 0..MaxUses] /\ line \in 0..Len(file)
    BY <1>1, LifeCycleAssumption DEF Init
  <2>5. pc \in [Threads -> Places]
    BY DEF Init, Places
  <2> QED BY <1>1, <2>1, <2>2, <2>3, <2>4, <2>5 DEF Init, TypeOK, Places, Parts
<1>3. MainTyped /\ NotYetRead
  BY DEF Init, MainTyped, NotYetRead, Unnamed
<1>4. IndexLeads
  BY <1>1 DEF Init, IndexLeads, NoIndex
<1>5. KnownStays /\ FoundIsListed /\ FoundOnceIndexed
  BY DEF Init, KnownStays, FoundIsListed, FoundOnceIndexed, Unknown
<1>6. Waited
  BY DEF Init, Waited, Unnamed, Waiting, Releasing, Gone, Threads
<1> QED BY <1>2, <1>3, <1>4, <1>5, <1>6 DEF IInv

-----------------------------------------------------------------------------
(* The steps of the threads.                                               *)

Threaded == Fritz \/ Srv \/ \E t \in Threads : Thread(t)

Moved(t, there) == pc' = [pc EXCEPT ![t] = there] /\ there \in Places

\* A step outside of a search.
Aside(t) ==
    /\ UNCHANGED <<number, result, known>> /\ pc[t] \in Places \ (Searching \cup {"none", "ended"})
    /\ \E there \in Places \ (Searching \cup {"none", "born"}) : Moved(t, there)

\* A search begins.
Searches(t) ==
    /\ pc[t] \in {"idle", "query"} /\ Moved(t, "name")
    /\ \E n \in Numbers : number' = [number EXCEPT ![t] = n]
    /\ result' = [result EXCEPT ![t] = Unknown] /\ known' = [known EXCEPT ![t] = FALSE]

\* Its variables are gone.
Forgets(t) ==
    /\ pc[t] \in {"alias", "query"} /\ \E there \in {"announce", "idle"} : Moved(t, there)
    /\ number' = [number EXCEPT ![t] = <<>>]
    /\ result' = [result EXCEPT ![t] = Unknown] /\ known' = [known EXCEPT ![t] = FALSE]

Moves(t) == Aside(t) \/ Searches(t) \/ Forgets(t) \/ CheckName(t) \/ CheckGroup(t)
            \/ OpenFile(t) \/ ScanFile(t)

\* The thread of the link listens as soon as it has begun, until it ends.
Listens(t) ==
    t = "Fritz" => listening' \/ pc'[t] = "ended" \/ (listening' = listening /\ pc[t] # "born")

LEMMA ThreadMoves ==
  ASSUME TypeOK, Threaded
  PROVE  /\ UNCHANGED <<mainVars, told>>
         /\ uses' \in [Threads -> 0..MaxUses] /\ listening' \in BOOLEAN
         /\ \E t \in Threads : Moves(t) /\ Listens(t) /\ (t = "Srv" => listening' = listening)
<1> USE DEF Step, Work
<1>1. CASE \E t \in Threads : Thread(t)
  <2>1. PICK t \in Threads : Thread(t)
    BY <1>1
  <2>2. CASE Begin(t) \/ Fail(t) \/ End(t)
    BY <2>2 DEF TypeOK, Begin, Fail, End, Moves, Aside, Moved, Places, Listens, threadVars,
                Searching, Threads
  <2>3. CASE CheckName(t) \/ CheckGroup(t) \/ OpenFile(t) \/ ScanFile(t)
    BY <2>3 DEF TypeOK, CheckName, CheckGroup, OpenFile, ScanFile, Moves, Listens, threadVars
  <2> QED BY <2>1, <2>2, <2>3 DEF Thread
<1>2. CASE \E t \in Threads, n \in Numbers : Search(t, "idle", n) \/ Search(t, "query", n)
  <2>1. PICK t \in Threads, n \in Numbers, here \in {"idle", "query"} : Search(t, here, n)
    BY <1>2
  <2>2. Searches(t) /\ listening' = listening /\ pc[t] # "born"
    BY <2>1 DEF Search, Searches, Moved, Places, Searching
  <2>3. uses' \in [Threads -> 0..MaxUses]
    BY <2>1, LifeCycleAssumption DEF TypeOK, Search, Use
  <2> QED BY <2>1, <2>2, <2>3 DEF TypeOK, Search, Moves, Listens
<1>3. CASE Leave("Fritz", "alias", "announce") \/ Leave("Srv", "query", "idle")
  <2>1. PICK t \in Threads, here \in {"alias", "query"}, there \in {"announce", "idle"} :
            Leave(t, here, there)
    BY <1>3 DEF Threads
  <2>2. Forgets(t) /\ listening' = listening /\ pc[t] # "born"
    BY <2>1 DEF Leave, Forgets, Moved, Places
  <2> QED BY <2>1, <2>2 DEF TypeOK, Leave, Moves, Listens
<1>4. CASE \/ Work("Fritz", "announce", "lookup") \/ Work("Fritz", "lookup", "store")
           \/ Work("Fritz", "store", "complete") \/ Work("Fritz", "complete", "idle")
           \/ Work("Fritz", "call_alias", "complete")
  BY <1>4 DEF TypeOK, Moves, Aside, Moved, Places, Searching, Listens, threadVars, Threads
<1>5. CASE \E t \in Threads, there \in {"call_alias", "query"} :
              /\ Step(t, "idle", there) /\ Use(t) /\ UNCHANGED <<listening, number, result, known>>
  <2>1. PICK t \in Threads, there \in {"call_alias", "query"} :
            Step(t, "idle", there) /\ Use(t) /\ UNCHANGED <<listening, number, result, known>>
    BY <1>5
  <2>2. Aside(t) /\ pc[t] # "born"
    BY <2>1 DEF Aside, Moved, Places, Searching
  <2>3. uses' \in [Threads -> 0..MaxUses]
    BY <2>1, LifeCycleAssumption DEF TypeOK, Use
  <2> QED BY <2>1, <2>2, <2>3 DEF TypeOK, Moves, Listens
<1> QED BY <1>1, <1>2, <1>3, <1>4, <1>5 DEF Threaded, Fritz, Srv, Threads

-----------------------------------------------------------------------------
(* The steps of the main thread.                                           *)

Mains == Unnamed \cup Serving \cup Waiting \cup Releasing

\* The start of a part, of a thread, or the reading of the area codes.
LEMMA StartupMoves ==
  ASSUME TypeOK, Startup
  PROVE  /\ UNCHANGED <<released, listening, told, file, unjoined, threadVars>>
         /\ up' \in SUBSET Parts
         /\ main \in Unnamed \cup (Serving \ {"ci_free_area_codes"})
         /\ main' \in Unnamed \cup Serving
         /\ main' \in Unnamed => main \in Unnamed
         /\ main' \in Unnamed \cup {"area_open"} => main \in Unnamed
         /\ \/ pc' = pc
            \/ \E t \in Threads : main \in {"cisrv_run", "fritz_startup"} /\ Moved(t, "born")
         /\ \/ name' = name
            \/ main = "ci_init_area_codes" /\ name' = "NULL"
            \/ main = "area_name" /\ name' = "set" /\ main' = "area_open"
         /\ \/ UNCHANGED <<index, line>>
            \/ main = "ci_init_area_codes" /\ index' = NoIndex /\ line' = line
            \/ ReadLine
<1> USE DEF Unnamed, Serving, Starting, Reading
<1>1. ASSUME NEW here \in Unnamed, NEW there \in Unnamed, NEW onFailure \in Unnamed \cup Serving,
             NEW parts \in SUBSET Parts, StartParts(here, parts, there, onFailure),
             onFailure # "area_open"
      PROVE  /\ UNCHANGED <<released, listening, told, file, unjoined, threadVars, pc, name,
                            index, line>>
             /\ up' \in SUBSET Parts /\ main \in Unnamed /\ main' \in Unnamed \cup Serving
  BY <1>1 DEF TypeOK, StartParts
<1>2. CASE FritzInit \/ CisrvInit \/ DbhandlerInit \/ LookupInit \/ MsnlReadFile
  BY <1>1, <1>2 DEF FritzInit, CisrvInit, DbhandlerInit, LookupInit, MsnlReadFile, Parts
<1>3. CASE CisrvRun \/ FritzStartup
  BY <1>3 DEF TypeOK, CisrvRun, FritzStartup, Moved, Places, Threads
<1>4. CASE CiInitAreaCodes \/ NameAreaCodes \/ OpenAreaCodes
  BY <1>4 DEF TypeOK, CiInitAreaCodes, NameAreaCodes, OpenAreaCodes
<1>5. CASE ReadLine \/ ReadEnd \/ Sigaction \/ Signal
  BY <1>5 DEF TypeOK, ReadLine, ReadEnd, Sigaction, Signal
<1> QED BY <1>2, <1>3, <1>4, <1>5 DEF Startup

\* A step of the shutdown: the file name, a thread, or a part.
LEMMA ShutdownMoves ==
  ASSUME TypeOK, Shutdown
  PROVE  /\ UNCHANGED <<pc, file, line, index, threadVars>>
         /\ up' \in SUBSET Parts /\ released' \in SUBSET Parts /\ told' \in SUBSET Threads
         /\ listening' \in BOOLEAN /\ unjoined' \in BOOLEAN
         /\ main \in {"ci_free_area_codes"} \cup Waiting \cup Releasing
         /\ main' \in Waiting \cup Releasing
         /\ main \in Releasing => main' \in Releasing
         /\ main \in Releasing \/ released' = released
         /\ name' = name \/ (name = "set" /\ name' = "freed")
<1> USE DEF Stopping, Waiting, Releasing
<1>1. CASE CiFreeAreaCodes
  BY <1>1 DEF TypeOK, CiFreeAreaCodes
<1>2. CASE \/ FritzShutdown("fritz_shutdown", "fritz_join", "cisrv_disconnect")
           \/ FritzShutdown("fritz_cleanup", "fritz_cleanup_join", "fritz_close")
  BY <1>2 DEF TypeOK, FritzShutdown, Threads
<1>3. CASE \/ FritzJoin("fritz_join", "cisrv_disconnect")
           \/ FritzJoin("fritz_cleanup_join", "fritz_close")
  BY <1>3 DEF TypeOK, FritzJoin
<1>4. CASE CisrvDisconnect \/ CisrvJoin
  BY <1>4 DEF TypeOK, CisrvDisconnect, CisrvJoin, Threads
<1>5. ASSUME NEW here \in Releasing, NEW part, NEW there \in Releasing, Release(here, part, there)
      PROVE  /\ UNCHANGED <<pc, file, line, index, threadVars, told, listening, unjoined, name>>
             /\ up' \in SUBSET Parts /\ released' \in SUBSET Parts
             /\ main \in Releasing /\ main' \in Releasing
  BY <1>5 DEF TypeOK, Release
<1>6. CASE MsnlCleanup \/ FritzClose \/ DbhandlerCleanup \/ CisrvCleanup \/ CidbCleanup
           \/ CirlwCleanup \/ QueueFree \/ ConfigFree
  BY <1>5, <1>6 DEF TypeOK, MsnlCleanup, FritzClose, DbhandlerCleanup, CisrvCleanup,
                    CidbCleanup, CirlwCleanup, QueueFree, ConfigFree
<1> QED BY <1>1, <1>2, <1>3, <1>4, <1>6 DEF Shutdown

LEMMA NextMoves ==
  ASSUME [Next]_vars
  PROVE  Startup \/ Shutdown \/ Threaded \/ UNCHANGED vars
  BY DEF Next, Threaded

-----------------------------------------------------------------------------
(* Types, the main thread and the index.                                   *)

LEMMA ReadLineIndexes ==
  ASSUME TypeOK, ReadLine
  PROVE  /\ line' = line + 1 /\ line < Len(file) /\ file' = file /\ file[line + 1] \in Seq(Digit)
         /\ index' \in [Groups -> 0..(Len(file) - 1)]
         /\ \A g \in Groups :
               index'[g] = IF IsCode(file[line + 1]) /\ GroupOf(file[line + 1]) = g /\ index[g] = 0
                           THEN line ELSE index[g]
<1>1. /\ line' = line + 1 /\ line < Len(file) /\ file' = file /\ line \in Nat
      /\ index' = IndexLine(index, file, line)
  BY FileIsFile DEF TypeOK, ReadLine, Reading
<1>2. line + 1 \in 1..Len(file) /\ line \in 0..(Len(file) - 1)
  BY <1>1, FileIsFile
<1>3. file[line + 1] \in Seq(Digit)
  BY <1>2, FileIsFile, LineIsDigits
<1>4. index \in [Groups -> 0..(Len(file) - 1)]
  BY DEF TypeOK
<1>5. IsCode(file[line + 1]) => GroupOf(file[line + 1]) \in Groups
  BY <1>3, GroupIsGroup
<1> QED BY <1>1, <1>2, <1>3, <1>4, <1>5 DEF IndexLine

LEMMA TypeStep == IInv /\ [Next]_vars => TypeOK'
<1> SUFFICES ASSUME IInv, [Next]_vars PROVE TypeOK'
  OBVIOUS
<1> USE DEF Places
<1>1. TypeOK /\ IsFile(file) /\ Len(file) \in Nat \ {0}
  BY FileIsFile DEF IInv
<1>2. CASE Startup
  <2>1. pc' \in [Threads -> Places]
    BY <1>1, <1>2, StartupMoves DEF TypeOK, Moved
  <2>2. name' \in {"NULL", "set", "freed"}
    BY <1>1, <1>2, StartupMoves DEF TypeOK
  <2>3. index' \in [Groups -> 0..(Len(file) - 1)] /\ line' \in 0..Len(file)
    <3>1. CASE UNCHANGED <<index, line>>
      BY <1>1, <3>1 DEF TypeOK
    <3>2. CASE index' = NoIndex /\ line' = line
      BY <1>1, <3>2 DEF TypeOK, NoIndex
    <3>3. CASE ReadLine
      <4>1. line \in 0..Len(file)
        BY <1>1 DEF TypeOK
      <4> QED BY <1>1, <3>3, <4>1, ReadLineIndexes
    <3> QED BY <1>1, <1>2, <3>1, <3>2, <3>3, StartupMoves
  <2> QED BY <1>1, <1>2, <2>1, <2>2, <2>3, StartupMoves DEF TypeOK, threadVars
<1>3. CASE Shutdown
  BY <1>1, <1>3, ShutdownMoves DEF TypeOK, threadVars
<1>4. CASE Threaded
  <2>1. PICK t \in Threads : Moves(t)
    BY <1>1, <1>4, ThreadMoves
  <2>2. /\ pc' \in [Threads -> Places] /\ number' \in [Threads -> Seq(Digit)]
        /\ result' \in [Threads -> Unopened..Len(file)] /\ known' \in [Threads -> BOOLEAN]
    <3>0. /\ pc \in [Threads -> Places] /\ number \in [Threads -> Seq(Digit)]
          /\ result \in [Threads -> Unopened..Len(file)] /\ known \in [Threads -> BOOLEAN]
          /\ Unknown \in Unopened..Len(file) /\ Unopened \in Unopened..Len(file)
          /\ AtEnd..Len(file) \subseteq Unopened..Len(file)
      BY <1>1 DEF TypeOK, Unknown, Unopened, AtEnd
    <3>1. CASE Aside(t)
      BY <3>0, <3>1 DEF Aside, Moved
    <3>2. CASE Searches(t)
      BY <3>0, <3>2, LifeCycleAssumption DEF Searches, Moved
    <3>3. CASE Forgets(t)
      BY <3>0, <3>3 DEF Forgets, Moved
    <3>4. CASE CheckName(t)
      BY <3>0, <3>4 DEF CheckName, Step, Found, Searching
    <3>5. CASE CheckGroup(t)
      BY <3>0, <3>5 DEF CheckGroup, Work, Step, Found, Searching, threadVars
    <3>6. CASE OpenFile(t)
      BY <3>0, <3>6 DEF OpenFile, Work, Step, Found, Searching, threadVars
    <3>7. CASE ScanFile(t)
      <4>1. index[Group(t)] \in 0..Len(file)
        <5>1. number[t] \in Seq(Digit)
          BY <3>0
        <5>2. Group(t) \in Groups
          BY <5>1, GroupIsGroup DEF Group
        <5> QED BY <1>1, <5>2 DEF TypeOK
      <4>2. Scan(file, index[Group(t)], number[t]) \in AtEnd..Len(file)
        BY <1>1, <3>0, <4>1, ScanIsListed
      <4> QED BY <3>0, <3>7, <4>2 DEF ScanFile, Step, Found
    <3> QED BY <2>1, <3>1, <3>2, <3>3, <3>4, <3>5, <3>6, <3>7 DEF Moves
  <2> QED BY <1>1, <1>4, <2>2, ThreadMoves DEF TypeOK, mainVars
<1>5. CASE UNCHANGED vars
  BY <1>1, <1>5 DEF TypeOK, vars, mainVars, threadVars
<1> QED BY <1>2, <1>3, <1>4, <1>5, NextMoves

LEMMA MainStep == IInv /\ [Next]_vars => MainTyped' /\ NotYetRead'
<1> SUFFICES ASSUME IInv, [Next]_vars PROVE MainTyped' /\ NotYetRead'
  OBVIOUS
<1>1. TypeOK /\ MainTyped /\ NotYetRead
  BY DEF IInv
<1>2. CASE Startup
  <2>1. MainTyped'
    BY <1>1, <1>2, StartupMoves DEF MainTyped
  <2>2. main' \in Unnamed => name' = "NULL"
    BY <1>1, <1>2, StartupMoves DEF NotYetRead, Unnamed
  <2>3. main' \in Unnamed \cup {"area_open"} => line' = 0 /\ index' = NoIndex
    <3>1. CASE ReadLine
      BY <3>1 DEF ReadLine, Unnamed
    <3> QED BY <1>1, <1>2, <3>1, StartupMoves DEF NotYetRead
  <2> QED BY <2>1, <2>2, <2>3 DEF NotYetRead
<1>3. CASE Shutdown
  BY <1>1, <1>3, ShutdownMoves DEF MainTyped, NotYetRead, Unnamed, Waiting, Releasing
<1>4. CASE Threaded
  BY <1>1, <1>4, ThreadMoves DEF MainTyped, NotYetRead, mainVars
<1>5. CASE UNCHANGED vars
  BY <1>1, <1>5 DEF MainTyped, NotYetRead, vars, mainVars
<1> QED BY <1>2, <1>3, <1>4, <1>5, NextMoves

LEMMA IndexStep == IInv /\ [Next]_vars => IndexLeads'
<1> SUFFICES ASSUME IInv, [Next]_vars PROVE IndexLeads'
  OBVIOUS
<1>1. TypeOK /\ IndexLeads /\ NotYetRead /\ IsFile(file) /\ Len(file) \in Nat \ {0}
  BY FileIsFile DEF IInv
<1>2. CASE UNCHANGED <<index, line, file>>
  BY <1>1, <1>2 DEF IndexLeads
<1>3. CASE main = "ci_init_area_codes" /\ index' = NoIndex /\ UNCHANGED <<line, file>>
  <2>1. line = 0
    BY <1>1, <1>3 DEF NotYetRead, Unnamed
  <2> QED BY <1>1, <1>3, <2>1 DEF IndexLeads, NoIndex
<1>4. CASE ReadLine
  <2> DEFINE new(g) == IsCode(file[line + 1]) /\ GroupOf(file[line + 1]) = g
  <2>1. /\ line' = line + 1 /\ line < Len(file) /\ file' = file /\ line \in Nat
        /\ \A g \in Groups : index'[g] = IF new(g) /\ index[g] = 0 THEN line ELSE index[g]
    BY <1>1, <1>4, ReadLineIndexes DEF TypeOK
  <2>2. \A g \in Groups : index[g] \in Nat
    BY <1>1 DEF TypeOK
  \* The heading is no code, so that no place is 0.
  <2>3. \A g \in Groups : new(g) => line # 0
    BY <1>1 DEF IsFile, IsCodeFile
  <2>4. \A g \in Groups : index'[g] # 0 => index'[g] < line'
    BY <1>1, <2>1, <2>2 DEF IndexLeads
  <2>5. ASSUME NEW g \in Groups, NEW k \in 1..Len(file), k <= line', IsCode(file[k]),
               GroupOf(file[k]) = g
        PROVE  index'[g] # 0 /\ index'[g] < k
    <3>1. CASE k <= line
      BY <1>1, <2>1, <2>5, <3>1 DEF IndexLeads
    <3>2. CASE k = line + 1
      <4>1. new(g)
        BY <2>5, <3>2
      <4> QED BY <1>1, <2>1, <2>2, <2>3, <3>2, <4>1 DEF IndexLeads
    <3> QED BY <2>1, <2>5, <3>1, <3>2
  <2> QED BY <2>1, <2>4, <2>5 DEF IndexLeads
<1>5. CASE Startup
  BY <1>1, <1>2, <1>3, <1>4, <1>5, StartupMoves
<1>6. CASE Shutdown
  BY <1>1, <1>2, <1>6, ShutdownMoves
<1>7. CASE Threaded
  BY <1>1, <1>2, <1>7, ThreadMoves DEF mainVars
<1>8. CASE UNCHANGED vars
  BY <1>2, <1>8 DEF vars, mainVars
<1> QED BY <1>5, <1>6, <1>7, <1>8, NextMoves

-----------------------------------------------------------------------------
(* The search.                                                             *)

\* What the main thread does to the index leaves to a search what it has seen.
LEMMA IndexedStays ==
  ASSUME IInv, Startup \/ Shutdown \/ UNCHANGED vars, NEW t \in Threads, known[t]
  PROVE  name' # "NULL" /\ Indexed(t)'
<1>1. TypeOK /\ NotYetRead /\ name # "NULL" /\ Indexed(t)
  BY DEF IInv, KnownStays
<1>2. main \notin Unnamed
  BY <1>1 DEF NotYetRead
<1>3. name' # "NULL" /\ UNCHANGED number /\ file' = file /\ (UNCHANGED <<index, line>> \/ ReadLine)
  <2>1. CASE Startup
    BY <1>1, <1>2, <2>1, StartupMoves DEF Unnamed, threadVars
  <2>2. CASE Shutdown
    BY <1>1, <2>2, ShutdownMoves DEF threadVars
  <2> QED BY <1>1, <2>1, <2>2 DEF vars, mainVars, threadVars
<1>4. Group(t)' = Group(t)
  BY <1>3 DEF Group
<1>5. CASE UNCHANGED <<index, line>>
  BY <1>1, <1>3, <1>4, <1>5 DEF Indexed
<1>6. CASE ReadLine
  <2>1. line < Len(file) /\ line \in Nat /\ index[Group(t)] # 0
    BY <1>1, <1>6, ReadLineIndexes DEF Indexed, TypeOK
  <2>2. Group(t) \in Groups
    BY <1>1, GroupIsGroup DEF Group, TypeOK
  <2>3. index'[Group(t)] # 0
    BY <1>1, <1>6, <2>1, <2>2, ReadLineIndexes
  <2> QED BY <1>3, <1>4, <2>3 DEF Indexed
<1> QED BY <1>3, <1>5, <1>6

\* A scan by way of the index finds what is listed.
LEMMA IndexedScan ==
  ASSUME IInv, NEW t \in Threads, NEW k \in Listed(file, number[t]),
         Indexed(t) \/ Group(t) = 0
  PROVE  /\ index[Group(t)] = 0 => Group(t) = 0
         /\ Scan(file, index[Group(t)], number[t]) = k
<1>1. TypeOK /\ IndexLeads /\ IsFile(file) /\ Len(file) \in Nat \ {0} /\ number[t] \in Seq(Digit)
      /\ line \in Nat
  BY FileIsFile DEF IInv, TypeOK
<1>2. k \in 1..Len(file) /\ IsCode(file[k]) /\ GroupOf(file[k]) = Group(t) /\ Group(t) \in Groups
  BY <1>1, GroupOfListed, GroupIsGroup DEF Listed, Group
<1>3. index[Group(t)] \in Nat
  BY <1>1, <1>2 DEF TypeOK
<1>4. index[Group(t)] = 0 => Group(t) = 0
  BY <1>1, <1>2 DEF IndexLeads, Indexed
<1>5. index[Group(t)] <= k - 1
  <2>1. CASE index[Group(t)] # 0 /\ k <= line
    BY <1>1, <1>2, <1>3, <2>1 DEF IndexLeads
  <2>2. CASE index[Group(t)] # 0 /\ k > line
    BY <1>1, <1>2, <1>3, <2>2 DEF IndexLeads
  <2>3. CASE index[Group(t)] = 0
    BY <1>2, <2>3
  <2> QED BY <1>1, <1>2, <2>1, <2>2, <2>3
<1>6. index[Group(t)] \in 0..(k - 1)
  BY <1>2, <1>3, <1>5
<1> QED BY <1>1, <1>4, <1>6, ScanFindsListed

\* What a thread does to its own search, and to no other.
LEMMA OwnSearch ==
  ASSUME TypeOK, NEW t \in Threads, Moves(t), NEW u \in Threads, u # t
  PROVE  /\ number'[u] = number[u] /\ result'[u] = result[u] /\ known'[u] = known[u]
         /\ pc'[u] = pc[u]
<1> USE DEF TypeOK
<1>1. CASE Aside(t) \/ Searches(t) \/ Forgets(t)
  BY <1>1 DEF Aside, Searches, Forgets, Moved
<1>2. CASE CheckName(t) \/ CheckGroup(t)
  BY <1>2 DEF CheckName, CheckGroup, Work, Step, threadVars
<1>3. CASE OpenFile(t) \/ ScanFile(t)
  BY <1>3 DEF OpenFile, ScanFile, Work, Step, threadVars
<1> QED BY <1>1, <1>2, <1>3 DEF Moves

LEMMA KnownStep == IInv /\ [Next]_vars => KnownStays'
<1> SUFFICES ASSUME IInv, [Next]_vars PROVE KnownStays'
  OBVIOUS
<1>1. TypeOK /\ KnownStays
  BY DEF IInv
<1>2. CASE Startup \/ Shutdown \/ UNCHANGED vars
  <2>1. UNCHANGED known
    BY <1>1, <1>2, StartupMoves, ShutdownMoves DEF threadVars, vars
  <2> QED BY <1>2, <2>1, IndexedStays DEF KnownStays
<1>3. CASE Threaded
  <2>1. PICK t \in Threads : Moves(t)
    BY <1>1, <1>3, ThreadMoves
  <2>2. UNCHANGED <<name, index, line, file>>
    BY <1>1, <1>3, ThreadMoves DEF mainVars
  <2>3. ASSUME NEW u \in Threads, u # t, known'[u] PROVE name' # "NULL" /\ Indexed(u)'
    BY <1>1, <2>1, <2>2, <2>3, OwnSearch DEF KnownStays, Indexed, Group
  <2>4. ASSUME known'[t] PROVE name' # "NULL" /\ Indexed(t)'
    <3>1. CASE UNCHANGED <<number, known>>
      BY <1>1, <2>2, <2>4, <3>1 DEF KnownStays, Indexed, Group
    <3>2. CASE Searches(t) \/ Forgets(t)
      BY <1>1, <2>4, <3>2 DEF TypeOK, Searches, Forgets
    <3>3. CASE CheckName(t)
      <4>1. known'[t] = (name # "NULL" /\ Indexed(t)) /\ UNCHANGED number
        BY <1>1, <3>3 DEF TypeOK, CheckName
      <4> QED BY <2>2, <2>4, <4>1 DEF Indexed, Group
    <3>4. CASE Aside(t) \/ CheckGroup(t) \/ OpenFile(t) \/ ScanFile(t)
      BY <3>1, <3>4 DEF Aside, CheckGroup, OpenFile, ScanFile, Work, threadVars
    <3> QED BY <2>1, <3>2, <3>3, <3>4 DEF Moves
  <2> QED BY <2>3, <2>4 DEF KnownStays
<1> QED BY <1>2, <1>3, NextMoves

LEMMA FoundStep == IInv /\ [Next]_vars => FoundIsListed' /\ FoundOnceIndexed'
<1> SUFFICES ASSUME IInv, [Next]_vars PROVE FoundIsListed' /\ FoundOnceIndexed'
  OBVIOUS
<1>1. TypeOK /\ FoundIsListed /\ FoundOnceIndexed /\ KnownStays /\ IsFile(file)
      /\ Len(file) \in Nat \ {0}
  BY FileIsFile DEF IInv
<1>2. CASE UNCHANGED <<file, number, result, known, pc>>
  BY <1>1, <1>2 DEF FoundIsListed, FoundOnceIndexed
\* A thread that begins has not searched.
<1>3. CASE Startup
  <2>1. UNCHANGED <<file, number, result, known>>
    BY <1>1, <1>3, StartupMoves DEF threadVars
  <2>2. pc' = pc \/ \E t \in Threads : main \in {"cisrv_run", "fritz_startup"} /\ Moved(t, "born")
    BY <1>1, <1>3, StartupMoves
  <2>3. ASSUME NEW t \in Threads, main \in {"cisrv_run", "fritz_startup"}, Moved(t, "born")
        PROVE  FoundIsListed' /\ FoundOnceIndexed'
    <3>1. \A u \in Threads : ~known[u]
      BY <2>3 DEF IInv, NotYetRead, KnownStays, Unnamed
    <3> QED BY <1>1, <2>1, <3>1 DEF FoundIsListed, FoundOnceIndexed
  <2> QED BY <1>2, <2>1, <2>2, <2>3
<1>4. CASE Shutdown
  BY <1>1, <1>2, <1>4, ShutdownMoves DEF threadVars
<1>5. CASE Threaded
  <2>1. PICK t \in Threads : Moves(t)
    BY <1>1, <1>5, ThreadMoves
  <2>2. UNCHANGED <<file, index, line>>
    BY <1>1, <1>5, ThreadMoves DEF mainVars
  <2>3. number[t] \in Seq(Digit) /\ Group(t) \in Groups /\ index[Group(t)] \in 0..Len(file)
    <3>1. number[t] \in Seq(Digit) /\ Group(t) \in Groups
      BY <1>1, GroupIsGroup DEF TypeOK, Group
    <3> QED BY <1>1, <3>1 DEF TypeOK
  <2> DEFINE Right == /\ result'[t] > 0 => result'[t] \in Listed(file, number'[t])
                      /\ known'[t] /\ pc'[t] \notin Searching /\ Listed(file, number'[t]) # {}
                         => result'[t] \in Listed(file, number'[t]) \cup {Unopened}
  <2>4. Right
    <3>1. CASE Aside(t)
      BY <1>1, <3>1 DEF Aside, FoundIsListed, FoundOnceIndexed
    <3>2. CASE Searches(t) \/ Forgets(t)
      BY <1>1, <3>2 DEF TypeOK, Searches, Forgets, Unknown
    <3>3. CASE CheckName(t)
      <4>1. /\ UNCHANGED <<number, result>> /\ known'[t] = (name # "NULL" /\ Indexed(t))
            /\ pc'[t] = IF name = "NULL" \/ number[t] = <<>> THEN Found(t) ELSE "group"
        BY <1>1, <3>3 DEF TypeOK, CheckName, Step
      <4>2. Listed(file, number[t]) # {} => number[t] # <<>>
        BY <1>1, <2>3, GroupOfListed
      <4> QED BY <1>1, <4>1, <4>2 DEF FoundIsListed, Searching
    <3>4. CASE CheckGroup(t)
      <4>1. /\ UNCHANGED <<number, result, known>>
            /\ pc'[t] = IF Group(t) > 0 /\ index[Group(t)] = 0 THEN Found(t) ELSE "open"
        BY <1>1, <3>4 DEF TypeOK, CheckGroup, Work, Step, threadVars
      <4>2. ASSUME known[t], Listed(file, number[t]) # {}
            PROVE  ~(Group(t) > 0 /\ index[Group(t)] = 0)
        <5>1. Indexed(t)
          BY <1>1, <4>2 DEF KnownStays
        <5> QED BY <2>3, <4>2, <5>1, IndexedScan DEF Groups
      <4> QED BY <1>1, <4>1, <4>2 DEF FoundIsListed, Searching
    <3>5. CASE OpenFile(t)
      <4>1. /\ UNCHANGED <<number, known>>
            /\ \/ pc'[t] = "scan" /\ result' = result
               \/ result'[t] = Unopened
        BY <1>1, <3>5 DEF TypeOK, OpenFile, Work, Step, threadVars
      <4> QED BY <1>1, <4>1 DEF FoundIsListed, Searching, Unopened
    <3>6. CASE ScanFile(t)
      <4>1. UNCHANGED <<number, known>> /\ result'[t] = Scan(file, index[Group(t)], number[t])
        BY <1>1, <3>6 DEF TypeOK, ScanFile
      <4>2. result'[t] > 0 => result'[t] \in Listed(file, number[t])
        BY <1>1, <2>3, <4>1, ScanIsListed
      <4>3. ASSUME known[t], NEW k \in Listed(file, number[t])
            PROVE  result'[t] = k
        BY <1>1, <4>1, <4>3, IndexedScan DEF KnownStays
      <4> QED BY <4>1, <4>2, <4>3
    <3> QED BY <2>1, <3>1, <3>2, <3>3, <3>4, <3>5, <3>6 DEF Moves
  <2>5. \A u \in Threads : u # t =>
           /\ number'[u] = number[u] /\ result'[u] = result[u] /\ known'[u] = known[u]
           /\ pc'[u] = pc[u]
    BY <1>1, <2>1, OwnSearch
  <2> QED BY <1>1, <2>2, <2>4, <2>5 DEF FoundIsListed, FoundOnceIndexed
<1>6. CASE UNCHANGED vars
  BY <1>2, <1>6 DEF vars, mainVars, threadVars
<1> QED BY <1>3, <1>4, <1>5, <1>6, NextMoves

-----------------------------------------------------------------------------
(* The end of the threads.                                                 *)

LEMMA WaitedStep == IInv /\ [Next]_vars => Waited'
<1> SUFFICES ASSUME IInv, [Next]_vars PROVE Waited'
  OBVIOUS
<1>1. TypeOK /\ MainTyped /\ Waited
  BY DEF IInv
<1> USE DEF Waited, Gone
<1>2. CASE Startup
  <2>1. /\ UNCHANGED <<released, listening, unjoined>>
        /\ main \notin Waiting \cup Releasing /\ main' \notin Waiting \cup Releasing
        /\ name' = name \/ name' \in {"NULL", "set"}
        /\ pc' = pc \/ \E t \in Threads : Moved(t, "born")
    BY <1>1, <1>2, StartupMoves DEF Unnamed, Serving, Waiting, Releasing
  <2>2. pc'["Fritz"] = pc["Fritz"] \/ pc'["Fritz"] = "born"
    BY <1>1, <2>1 DEF TypeOK, Moved, Threads
  <2> QED BY <1>1, <2>1, <2>2 DEF Waiting, Releasing
<1>3. CASE Shutdown
  <2>1. /\ UNCHANGED pc /\ main' \in Waiting \cup Releasing
        /\ main \in Releasing => main' \in Releasing
        /\ main \in Releasing \/ released' = released
    BY <1>1, <1>3, ShutdownMoves
  <2>2. pc["Fritz"] \notin {"none", "born", "ended"} => listening'
    BY <1>1, <1>3 DEF Shutdown, CiFreeAreaCodes, FritzShutdown, FritzJoin, CisrvDisconnect,
                      CisrvJoin, Release, MsnlCleanup, FritzClose, DbhandlerCleanup, CisrvCleanup,
                      CidbCleanup, CirlwCleanup, QueueFree, ConfigFree
  <2>3. main' \in Releasing \cup {"cisrv_disconnect", "cisrv_join"} => unjoined' \/ Gone("Fritz")
    <3>1. CASE \/ FritzShutdown("fritz_shutdown", "fritz_join", "cisrv_disconnect")
               \/ FritzShutdown("fritz_cleanup", "fritz_cleanup_join", "fritz_close")
      BY <1>1, <3>1 DEF FritzShutdown, Releasing, TypeOK
    <3>2. CASE \/ FritzJoin("fritz_join", "cisrv_disconnect")
               \/ FritzJoin("fritz_cleanup_join", "fritz_close")
      BY <3>2 DEF FritzJoin
    <3>3. CASE CiFreeAreaCodes
      BY <3>3 DEF CiFreeAreaCodes, Releasing
    <3>4. CASE CisrvDisconnect \/ CisrvJoin
      BY <1>1, <3>4 DEF CisrvDisconnect, CisrvJoin, Releasing
    <3>5. CASE MsnlCleanup \/ FritzClose \/ DbhandlerCleanup \/ CisrvCleanup \/ CidbCleanup
               \/ CirlwCleanup \/ QueueFree \/ ConfigFree
      BY <1>1, <3>5 DEF Release, MsnlCleanup, FritzClose, DbhandlerCleanup, CisrvCleanup,
                        CidbCleanup, CirlwCleanup, QueueFree, ConfigFree, Releasing
    <3> QED BY <1>3, <3>1, <3>2, <3>3, <3>4, <3>5 DEF Shutdown
  <2>4. main' \in Releasing => Gone("Srv")
    <3>1. CASE main \in Releasing
      BY <1>1, <3>1
    <3>2. CASE main \notin Releasing
      BY <1>1, <1>3, <3>2 DEF Shutdown, CiFreeAreaCodes, FritzShutdown, FritzJoin, CisrvDisconnect,
                              CisrvJoin, Release, MsnlCleanup, FritzClose, DbhandlerCleanup,
                              CisrvCleanup, CidbCleanup, CirlwCleanup, QueueFree, ConfigFree,
                              Releasing
    <3> QED BY <3>1, <3>2
  <2> QED BY <1>1, <2>1, <2>2, <2>3, <2>4
<1>4. CASE Threaded
  <2>1. PICK t \in Threads : Moves(t) /\ Listens(t) /\ (t = "Srv" => listening' = listening)
    BY <1>1, <1>4, ThreadMoves
  <2>2. UNCHANGED <<main, released, unjoined, name>>
    BY <1>1, <1>4, ThreadMoves DEF mainVars
  <2>3. pc[t] \notin {"none", "ended"}
    BY <2>1 DEF Moves, Aside, Searches, Forgets, CheckName, CheckGroup, OpenFile, ScanFile,
                Work, Step
  <2>4. CASE t = "Srv"
    <3>1. pc'["Fritz"] = pc["Fritz"]
      BY <1>1, <2>1, <2>4, OwnSearch DEF Threads
    <3> QED BY <1>1, <2>1, <2>2, <2>3, <2>4, <3>1
  <2>5. CASE t = "Fritz"
    <3>1. pc'["Srv"] = pc["Srv"]
      BY <1>1, <2>1, <2>5, OwnSearch DEF Threads
    <3>2. pc'["Fritz"] \notin {"none", "born", "ended"} => listening'
      BY <1>1, <2>1, <2>3, <2>5 DEF Listens
    <3> QED BY <1>1, <2>2, <2>3, <2>5, <3>1, <3>2
  <2> QED BY <2>4, <2>5 DEF Threads
<1>5. CASE UNCHANGED vars
  BY <1>1, <1>5 DEF vars, mainVars
<1> QED BY <1>2, <1>3, <1>4, <1>5, NextMoves

LEMMA InUse == IInv => InUseIsUp
<1> SUFFICES ASSUME IInv, NEW t \in Threads, ~(t = "Fritz" /\ unjoined)
             PROVE  /\ UsedBy(t) \cap released = {}
                    /\ pc[t] = "open" /\ name = "freed" => main \in Waiting
  BY DEF InUseIsUp, Waiting
<1>1. main \in Releasing => Gone(t)
  BY DEF IInv, Waited, Threads
<1>2. Gone(t) => UsedBy(t) = {}
  BY DEF Gone, UsedBy
<1> QED BY <1>1, <1>2 DEF IInv, Waited, Gone

-----------------------------------------------------------------------------
THEOREM InvHolds == Spec => []IInv
<1>1. IInv /\ [Next]_vars => IInv'
  BY TypeStep, MainStep, IndexStep, KnownStep, FoundStep, WaitedStep DEF IInv
<1> QED BY InitInv, <1>1, PTL DEF Spec

\* The types of the life cycle; a place in the index is a line of the file.
THEOREM TypeCorrect == Spec => []TypeOK
  BY InvHolds, PTL DEF IInv

\* ci_get_area_code never returns an area code that is not one of the number,
\* not even from an index that is being written.
THEOREM NothingWrongFound == Spec => []FoundIsListed
  BY InvHolds, PTL DEF IInv

\* And it returns the one that is listed as soon as the index knows its group.
THEOREM ListedIsFound == Spec => []FoundOnceIndexed
  BY InvHolds, PTL DEF IInv

\* _shutdown releases nothing that a thread uses, but in two cases.
THEOREM NothingReleasedInUse == Spec => []InUseIsUp
  BY InvHolds, InUse, PTL
==============================================================================
