--------------------------- MODULE MCCidbTransfer ---------------------------
(* CidbTransfer for TLC: for every command and subcommand a message with     *)
(* numbers of several bytes, flags of more than two; strings that are        *)
(* missing, empty, short, as long as the escape and longer than two bytes    *)
(* count; tables without rows, with some, and with more fields               *)
(* than an unsigned short counts (of bytes with 4 values).                 *)
EXTENDS CidbTransfer

\* Letters are bytes other than 0.
Text(n) == [i \in 1..n |-> 1 + (i % 2)]
Short   == Text(2)
Long    == Text(Escape)

Table22 == [nrows |-> 2, ncols |-> 2, names |-> <<Text(1), Short>>,
            fields |-> <<Short, <<>>, Text(1), <<>>>>]
TableLong == [nrows |-> 1, ncols |-> 1, names |-> <<Short>>, fields |-> <<Long>>]
TableBare == [nrows |-> 0, ncols |-> 2, names |-> <<Text(1), Short>>, fields |-> <<>>]
TableHuge == [nrows |-> 9, ncols |-> 2, names |-> <<Text(1), <<>>>>,
              fields |-> [i \in 1..18 |-> IF i \in {1, 17} THEN Text(1 + (i % 2)) ELSE <<>>]]

Queries ==
    LET Q(cmd) == [Zero EXCEPT !.cmd = cmd, !.sub = Query, !.id = 200, !.client = 13] IN
    {Q(cmd) : cmd \in {Register, ShowTables, ListInfo, DescribeTable}} \cup
    {[Q(cmd) EXCEPT !.user = 14, !.flags = 9, !.strings = s] :
        cmd \in {CallerList, ReadCaller}, s \in {<<>>, <<Short>>, <<Long>>}} \cup
    {[Q(DescribeTable) EXCEPT !.strings = <<Long>>],
     [Q(DeleteCaller) EXCEPT !.user = 1, !.strings = <<Short, Long>>],
     [Q(DeleteCaller) EXCEPT !.user = 2, !.strings = <<Text(UShortMax + 1), Short>>],
     [Q(WriteCaller) EXCEPT !.user = 15, !.flags = 25, !.table = Table22],
     [Q(WriteCall) EXCEPT !.table = TableLong], [Q(WriteCall) EXCEPT !.table = TableHuge],
     [Q(CallList) EXCEPT !.number = 228, !.count = 11], [Q(Listen) EXCEPT !.number = 145]}

Responses ==
    LET R(cmd) == [Zero EXCEPT !.cmd = cmd, !.sub = Resp, !.id = 3, !.client = 11, !.err = 6] IN
    {R(cmd) : cmd \in {Register, DeleteCaller, Listen, ShowTables}} \cup
    {[R(cmd) EXCEPT !.number = 201] : cmd \in {WriteCaller, WriteCall, ListInfo}} \cup
    {[R(CallerList) EXCEPT !.table = TableBare], [R(ReadCaller) EXCEPT !.table = TableLong],
     [R(CallList) EXCEPT !.table = Table22], [R(DescribeTable) EXCEPT !.strings = <<Long, <<>>, Short>>]}

MCMessages == Queries \cup Responses

=============================================================================
