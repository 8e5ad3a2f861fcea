---------------------------- MODULE CidbMessages ----------------------------
(***************************************************************************)
(* The layout of the messages of the old database protocol: cidbmessages.c *)
(* as operators.  A message has a size, which is computed first, and data, *)
(* which is written then; both follow the same case distinction in two     *)
(* places.  A NULL string is an empty one and a NULL list an empty one, as *)
(* everywhere in the code but where it says so below.                      *)
(***************************************************************************)
EXTENDS Integers, Sequences, SequencesExt

CONSTANT Byte       \* number of values of a byte of a number, 256 in the code

ASSUME ByteAssumption == Byte \in 2..256

UShortMax == Byte * Byte
ULongMax  == UShortMax * UShortMax

Register      == 1
CallerList    == 2
ReadCaller    == 3
WriteCaller   == 4
WriteCall     == 5
CallList      == 6
ShowTables    == 7
DescribeTable == 8
DeleteCaller  == 9
ListInfo      == 10
Listen        == 11
Query         == 128
Resp          == 129

-----------------------------------------------------------------------------
(* Numbers, least significant byte first, and strings.                     *)

UShort(v) == <<v % Byte, (v \div Byte) % Byte>>
ULong(v)  == UShort(v % UShortMax) \o UShort((v \div UShortMax) % UShortMax)

GetUShort(bytes, at) == bytes[at + 1] + Byte * bytes[at + 2]
GetULong(bytes, at)  == GetUShort(bytes, at) + UShortMax * GetUShort(bytes, at + 2)

\* The length is in one byte, or after an escape in two.
Escape == Byte - 1
StringLength(s) == Len(s) % UShortMax

LengthBytes(len) == IF len >= Escape THEN <<Escape>> \o UShort(len) ELSE <<len>>
StringBytes(s) == LengthBytes(StringLength(s)) \o SubSeq(s, 1, StringLength(s))
StringSize(s)  == StringLength(s) + IF StringLength(s) >= Escape THEN 3 ELSE 1

AllBytes(strings) == FlattenSeq([i \in DOMAIN strings |-> StringBytes(strings[i])])
AllSizes(strings) ==
    LET sum[k \in 0..Len(strings)] ==
            IF k = 0 THEN 0 ELSE sum[k - 1] + StringSize(strings[k])
    IN  sum[Len(strings)]

\* One more string, and where it ends.
ReadOne(bytes, prev) ==
    LET at   == prev.at
        long == bytes[at + 1] = Escape
        len  == IF long THEN GetUShort(bytes, at + 1) ELSE bytes[at + 1]
        text == at + IF long THEN 3 ELSE 1
    IN  [at |-> text + len,
         strings |-> Append(prev.strings, SubSeq(bytes, text + 1, text + len))]

\* n strings from a position on.
ReadStrings(bytes, start, n) ==
    LET read[k \in 0..n] ==
            IF k = 0 THEN [at |-> start, strings |-> <<>>] ELSE ReadOne(bytes, read[k - 1])
    IN  read[n].strings

-----------------------------------------------------------------------------
(* Tables.  The fields are one array; the index of the first field of a row *)
(* is an unsigned short.                                                    *)

NoTable == [nrows |-> 0, ncols |-> 0, names |-> <<>>, fields |-> <<>>]

Cells(nrows, ncols) == 1..(nrows * ncols)

\* Fault: the row counts as many fields as there are rows.
PlaceByRows(ncols, k) == ((((k - 1) \div ncols) * (ncols - 1)) % UShortMax) + ((k - 1) % ncols) + 1

Place(ncols, k) == ((((k - 1) \div ncols) * ncols) % UShortMax) + ((k - 1) % ncols) + 1

TableStrings(t) ==
    t.names \o [k \in Cells(t.nrows, t.ncols) |-> t.fields[Place(t.ncols, k)]]

\* Fault: the names of the columns are not counted.
TableSizeOfFields(t) == 4 + AllSizes(t.fields)

TableSize(t)  == 4 + AllSizes(TableStrings(t))
TableBytes(t) == UShort(t.nrows) \o UShort(t.ncols) \o AllBytes(TableStrings(t))

\* Places that are never filled are whatever malloc has left: no string.
ReadTable(bytes, start) ==
    LET nrows == GetUShort(bytes, start)
        ncols == GetUShort(bytes, start + 2)
        all   == ReadStrings(bytes, start + 4, ncols + nrows * ncols)
        For(x) == {k \in Cells(nrows, ncols) : Place(ncols, k) = x}
        Latest(x) == CHOOSE k \in For(x) : \A other \in For(x) : other <= k
    IN  [nrows |-> nrows, ncols |-> ncols, names |-> SubSeq(all, 1, ncols),
         fields |-> [x \in Cells(nrows, ncols) |->
                        IF For(x) = {} THEN <<-1>> ELSE all[ncols + Latest(x)]]]

-----------------------------------------------------------------------------
(* Messages.  "number" is the field index, offset, mask or maxentries: a    *)
(* command uses one of them.                                                *)

Zero == [cmd |-> 0, sub |-> 0, id |-> 0, client |-> 0, err |-> 0, user |-> 0, flags |-> 0,
         number |-> 0, count |-> 0, strings |-> <<>>, table |-> NoTable]

\* What a CIDBMessage may hold: numbers of two or four bytes, strings as long as
\* they like in lists that two bytes count, tables that are full.
Shorts == 0..UShortMax - 1
Longs  == 0..ULongMax - 1
Bytes  == 0..255
IsTexts(t) == t \in Seq(Seq(Bytes))
IsTable(t) ==
    /\ t = [nrows |-> t.nrows, ncols |-> t.ncols, names |-> t.names, fields |-> t.fields]
    /\ t.nrows \in Shorts /\ t.ncols \in Shorts /\ IsTexts(t.names) /\ IsTexts(t.fields)
    /\ Len(t.names) = t.ncols /\ Len(t.fields) = t.nrows * t.ncols
IsMessage(m) ==
    /\ DOMAIN m = DOMAIN Zero /\ m.cmd \in Register..Listen /\ m.sub \in {Query, Resp}
    /\ m.client \in Shorts /\ m.err \in Shorts /\ m.user \in Shorts /\ m.count \in Shorts
    /\ m.id \in Longs /\ m.flags \in Longs /\ m.number \in Longs
    /\ IsTexts(m.strings) /\ Len(m.strings) \in Shorts /\ IsTable(m.table)
    /\ m.cmd = DeleteCaller /\ m.sub = Query => Len(m.strings) = 2

First(m) == IF m.strings = <<>> THEN <<>> ELSE m.strings[1]

OneString(m)  == m.sub = Query /\ m.cmd \in {CallerList, ReadCaller, DescribeTable}
Strings(m)    == \/ m.sub = Resp /\ m.cmd \in {ShowTables, DescribeTable}
                 \/ m.sub = Query /\ m.cmd = DeleteCaller
HasTable(m)   == \/ m.sub = Resp /\ m.cmd \in {CallerList, ReadCaller, CallList}
                 \/ m.sub = Query /\ m.cmd \in {WriteCaller, WriteCall}

\* The first switch of cidbmsg_write_message.
Size(m) ==
    CASE m.sub = Resp /\ m.cmd = Register -> 4
      [] m.sub = Resp /\ m.cmd \in {WriteCaller, WriteCall, ListInfo} -> 6
      [] m.sub = Resp /\ m.cmd \in {CallerList, ReadCaller, CallList} -> 2 + TableSize(m.table)
      [] m.sub = Resp /\ m.cmd \in {ShowTables, DescribeTable} -> 4 + AllSizes(m.strings)
      [] m.sub = Resp /\ m.cmd \in {DeleteCaller, Listen} -> 2
      [] m.sub = Query /\ m.cmd \in {Register, ShowTables, ListInfo} -> 0
      [] m.sub = Query /\ m.cmd = CallerList -> 2 + StringSize(First(m))
      [] m.sub = Query /\ m.cmd = ReadCaller -> 4 + StringSize(First(m))
      [] m.sub = Query /\ m.cmd = WriteCaller -> 4 + TableSize(m.table)
      [] m.sub = Query /\ m.cmd = WriteCall -> TableSize(m.table)
      [] m.sub = Query /\ m.cmd = CallList -> 6
      [] m.sub = Query /\ m.cmd = DescribeTable -> StringSize(First(m))
      [] m.sub = Query /\ m.cmd = DeleteCaller ->
            4 + StringSize(m.strings[1]) + StringSize(m.strings[2])
      [] m.sub = Query /\ m.cmd = Listen -> 4

\* The second: numbers first, then a string, strings or a table.
Fixed(m) ==
    CASE m.sub = Resp /\ m.cmd = Register -> UShort(m.err) \o UShort(m.client)
      [] m.sub = Resp /\ m.cmd \in {WriteCaller, WriteCall, ListInfo} ->
            UShort(m.err) \o ULong(m.number)
      [] m.sub = Resp /\ m.cmd \notin {Register, WriteCaller, WriteCall, ListInfo} ->
            UShort(m.err)
      [] m.sub = Query /\ m.cmd \in {CallerList, DeleteCaller} -> UShort(m.user)
      [] m.sub = Query /\ m.cmd \in {ReadCaller, WriteCaller} ->
            UShort(m.user) \o UShort(m.flags % UShortMax)
      [] m.sub = Query /\ m.cmd = CallList -> ULong(m.number) \o UShort(m.count)
      [] m.sub = Query /\ m.cmd = Listen -> ULong(m.number)
      [] OTHER -> <<>>

\* A query without the name of a table is written as a number of two bytes.
Unnamed(m) == m.cmd = DescribeTable /\ m.sub = Query /\ m.strings = <<>>

Written(m) ==
    Fixed(m) \o CASE Unnamed(m)   -> UShort(0)
                  [] OneString(m) /\ ~Unnamed(m) -> StringBytes(First(m))
                  [] Strings(m)   -> UShort(Len(m.strings)) \o AllBytes(m.strings)
                  [] HasTable(m)  -> TableBytes(m.table)
                  [] OTHER        -> <<>>

\* What fits into the memory that has been allocated.  Without data nothing is.
Data(m) == IF Size(m) = 0 THEN <<>> ELSE SubSeq(Written(m), 1, Size(m))

\* cidbmsg_read_message: the numbers first.
ReadNumbers(m, bytes) ==
    LET At(n) == GetUShort(bytes, n)
    IN  CASE m.sub = Resp /\ m.cmd = Register -> [m EXCEPT !.err = At(0), !.client = At(2)]
          [] m.sub = Resp /\ m.cmd \in {WriteCaller, WriteCall, ListInfo} ->
                [m EXCEPT !.err = At(0), !.number = GetULong(bytes, 2)]
          [] m.sub = Resp /\ m.cmd \notin {Register, WriteCaller, WriteCall, ListInfo} ->
                [m EXCEPT !.err = At(0)]
          [] m.sub = Query /\ m.cmd \in {CallerList, DeleteCaller} -> [m EXCEPT !.user = At(0)]
          [] m.sub = Query /\ m.cmd \in {ReadCaller, WriteCaller} ->
                [m EXCEPT !.user = At(0), !.flags = At(2)]
          [] m.sub = Query /\ m.cmd = CallList ->
                [m EXCEPT !.number = GetULong(bytes, 0), !.count = At(4)]
          [] m.sub = Query /\ m.cmd = Listen -> [m EXCEPT !.number = GetULong(bytes, 0)]
          [] OTHER -> m

\* It leaves the identifiers of the header alone.
ReadMessage(cmd, sub, bytes) ==
    LET m       == [Zero EXCEPT !.cmd = cmd, !.sub = sub]
        numbers == ReadNumbers(m, bytes)
        rest    == Len(Fixed(m))
    IN  CASE OneString(m) -> [numbers EXCEPT !.strings = ReadStrings(bytes, rest, 1)]
          [] Strings(m)   -> [numbers EXCEPT !.strings =
                                 ReadStrings(bytes, rest + 2, GetUShort(bytes, rest))]
          [] HasTable(m)  -> [numbers EXCEPT !.table = ReadTable(bytes, rest)]
          [] OTHER        -> numbers

-----------------------------------------------------------------------------
(* What a message says: the fields that cidbmessages.h lists for it.       *)

Carried(m) ==
    {"cmd", "sub"} \cup
    CASE m.cmd = Register     -> IF m.sub = Query THEN {} ELSE {"err", "client"}
      [] m.cmd = CallerList   -> IF m.sub = Query THEN {"user", "strings"} ELSE {"err", "table"}
      [] m.cmd = ReadCaller   -> IF m.sub = Query THEN {"user", "flags", "strings"}
                                                  ELSE {"err", "table"}
      [] m.cmd = WriteCaller  -> IF m.sub = Query THEN {"user", "flags", "table"}
                                                  ELSE {"err", "number"}
      [] m.cmd = WriteCall    -> IF m.sub = Query THEN {"table"} ELSE {"err", "number"}
      [] m.cmd = CallList     -> IF m.sub = Query THEN {"number", "count"} ELSE {"err", "table"}
      [] m.cmd \in {ShowTables, DescribeTable} ->
                                 IF m.sub = Resp THEN {"err", "strings"}
                                 ELSE IF m.cmd = ShowTables THEN {} ELSE {"strings"}
      [] m.cmd = DeleteCaller -> IF m.sub = Query THEN {"user", "strings"} ELSE {"err"}
      [] m.cmd = ListInfo     -> IF m.sub = Query THEN {} ELSE {"err", "number"}
      [] m.cmd = Listen       -> IF m.sub = Query THEN {"number"} ELSE {"err"}

\* A query for one string always carries one, which may be empty, and of the
\* flags it carries what fits into two bytes.
Meaning(m) ==
    [f \in DOMAIN m |->
        CASE f \notin Carried(m) -> Zero[f]
          [] f \in Carried(m) /\ f = "strings" /\ OneString(m) -> <<First(m)>>
          [] f \in Carried(m) /\ f = "flags" -> m.flags % UShortMax
          [] OTHER -> m[f]]

\* More fields, or a longer string, than an unsigned short counts.
TooManyFields(m) == m.table.nrows * m.table.ncols > UShortMax

IsCounted(t) == \A k \in 1..Len(t) : Len(t[k]) \in Shorts
TooLong(m) == ~IsCounted(m.strings) \/ ~IsCounted(m.table.names) \/ ~IsCounted(m.table.fields)

=============================================================================
