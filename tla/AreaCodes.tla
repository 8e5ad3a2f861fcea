----------------------------- MODULE AreaCodes -----------------------------
(***************************************************************************)
(* ci_areacodes.c: the file of area codes, its index, and the search for   *)
(* the area code of a number.  A line of the file is the sequence of the   *)
(* digits it begins with; the area is named by the place of the line.  A   *)
(* position in the file is the number of lines before it, 0 at the start,  *)
(* which the index also uses for "no such line".                           *)
(***************************************************************************)
EXTENDS Integers, Sequences, FiniteSets, SequencesExt, FiniteSetsExt

Digit  == 0..9
Groups == 0..99

\* The character at place i, counted from 0: -1 for one that is no digit.
DigitAt(s, i) == IF i < Len(s) THEN s[i + 1] ELSE -1

IsCode(line) == Len(line) >= 3

\* The entry of the index for a line, and for a number that may be shorter.
GroupOf(line) == 10 * line[2] + line[3]
GroupOfNumber(number) ==
    CASE Len(number) >= 3 -> GroupOf(number)
      [] Len(number) = 2  -> number[2]
      [] OTHER            -> 0

NoIndex == [g \in Groups |-> 0]

\* Fault: the position is taken after the line has been read.
IndexNext(index, file, pos) ==
    LET line == file[pos + 1] IN
    IF IsCode(line) /\ index[GroupOf(line)] = 0
    THEN [index EXCEPT ![GroupOf(line)] = pos + 1] ELSE index

\* Fault: a later line of the group replaces the first.
IndexLast(index, file, pos) ==
    LET line == file[pos + 1] IN
    IF IsCode(line) THEN [index EXCEPT ![GroupOf(line)] = pos] ELSE index

\* One round of the loop of ci_read_area_codes_from_file: the line at pos.
IndexLine(index, file, pos) ==
    LET line == file[pos + 1] IN
    IF IsCode(line) /\ index[GroupOf(line)] = 0
    THEN [index EXCEPT ![GroupOf(line)] = pos] ELSE index

\* How many digits the line and the number have in common.
Matched(line, number) ==
    Max({n \in 0..Len(line) : IsPrefix(SubSeq(line, 1, n), number)})

\* Fault: a line is taken although it goes on with other digits.
HitPartly(line, number) == Matched(line, number) > 2

\* Fault: the shortest codes are not taken.
HitLong(line, number) == Matched(line, number) > 3 /\ Matched(line, number) = Len(line)

\* The line is the area code of the number.
Hit(line, number) == Matched(line, number) > 2 /\ Matched(line, number) = Len(line)

\* The line comes after the number in the order of the file.
Past(line, number) ==
    LET n == Matched(line, number) IN
    ~Hit(line, number) /\ DigitAt(line, n) > DigitAt(number, n)

\* What a search returns: a line, or why there is none.  In the last two cases
\* the area code is "<unknown>" with its first character overwritten.
Unknown  == 0
AtEnd    == -1
Unopened == -2

\* The loop of ci_get_area_code from a position of the file on.
Scan(file, pos, number) ==
    LET ends == {k \in (pos + 1)..Len(file) : Hit(file[k], number) \/ Past(file[k], number)} IN
    IF ends = {} THEN AtEnd
    ELSE IF Hit(file[Min(ends)], number) THEN Min(ends) ELSE Unknown

-----------------------------------------------------------------------------
(* What a file promises, and what is promised of it.                       *)

Before(a, b) ==
    \E i \in 1..Len(b) :
        /\ i <= Len(a) + 1 /\ SubSeq(a, 1, i - 1) = SubSeq(b, 1, i - 1)
        /\ i > Len(a) \/ a[i] < b[i]

\* A heading, then codes in increasing order, none the beginning of another.
IsCodeFile(file) ==
    /\ Len(file) > 0 /\ ~IsCode(file[1])
    /\ \A k \in 2..Len(file) : IsCode(file[k])
    /\ \A j, k \in 1..Len(file) : j < k => Before(file[j], file[k])
    /\ \A j, k \in 2..Len(file) : j # k => ~IsPrefix(file[j], file[k])

Listed(file, number) == {k \in 1..Len(file) : IsCode(file[k]) /\ IsPrefix(file[k], number)}

=============================================================================
