---------------------------- MODULE CidbTransfer ----------------------------
(***************************************************************************)
(* Messages of the old database protocol on their way: cidbconnection.c    *)
(* with the transmission in parts of cidbmessages.c.  "Sender" is a thread *)
(* in cidbcon_send_message, "Receiver" one in cidbcon_recv_message; between *)
(* them is a stream, from which recv() takes as many bytes as it likes.    *)
(* The receiver takes what one recv() returns for one part.                *)
(***************************************************************************)
EXTENDS CidbMessages, FiniteSets

CONSTANTS
    Messages,       \* messages, as CIDBMessage structures
    DataSize,       \* CIDBMSG_DATA_SIZE, what a part holds after its header
    MaxMessages,    \* bound: messages sent
    MaxData         \* bound: a header that claims more is read in the wrong place

ASSUME TransferAssumption ==
    /\ DataSize \in Nat \ {0} /\ MaxMessages \in Nat /\ MaxData \in Longs
    /\ \A m \in Messages : IsMessage(m) /\ Size(m) <= MaxData

VARIABLES
    sent,       \* the messages handed to cidbcon_send_message
    spc,        \* where the sender is
    content,    \* the data of the message being sent
    offset,     \* msg->offset: how much of it has been given to send()
    stream,     \* bytes sent and not received
    parts,      \* the lengths of the whole parts in it
    rpc,        \* where the receiver is
    buffer,     \* its buffer
    header,     \* the header of the message being received
    data,       \* its data
    got,        \* bytes_read
    received,   \* header and data of the messages it has returned (history)
    aligned     \* each recv() so far has taken exactly one part (history)

sendVars == <<sent, spc, content, offset>>
recvVars == <<rpc, buffer, header, data, got, received>>
vars == <<sendVars, stream, parts, recvVars, aligned>>

HeaderSize == 22
Unset    == -1                  \* a byte that nothing has written
NoHeader == [cmd |-> 0, sub |-> 0, dataSize |-> 0, partSize |-> 0, offset |-> 0]
Fresh(n) == [i \in 1..n |-> Unset]

Init ==
    /\ sent = <<>> /\ spc = "idle" /\ content = <<>> /\ offset = 0 /\ stream = <<>> /\ parts = <<>>
    /\ rpc = "idle" /\ buffer = <<>> /\ header = NoHeader /\ data = <<>> /\ got = 0
    /\ received = <<>> /\ aligned = TRUE

-----------------------------------------------------------------------------
(* The sender.                                                             *)

Smaller(a, b) == IF a < b THEN a ELSE b
Current  == sent[Len(sent)]

\* Fault: all that is left in one part.
PartOfAll == Len(content) - offset

PartSize == Smaller(DataSize, Len(content) - offset)

\* Fault: the offset counts the header in front of the data.
HeaderOfWhole(m, size, at) ==
    UShort(m.client) \o <<m.cmd, m.sub>> \o ULong(m.id) \o UShort(0)
    \o ULong(Len(content)) \o ULong(size) \o ULong(at + HeaderSize)

\* The header of a part, and the part.
HeaderBytes(m, size, at) ==
    UShort(m.client) \o <<m.cmd, m.sub>> \o ULong(m.id) \o UShort(0)
    \o ULong(Len(content)) \o ULong(size) \o ULong(at)

Part == HeaderBytes(Current, PartSize, offset)
        \o SubSeq(content, offset + 1, offset + PartSize)

SendMessage(m) ==
    /\ spc = "idle" /\ Len(sent) < MaxMessages
    /\ sent' = Append(sent, m) /\ content' = Data(m) /\ offset' = 0 /\ spc' = "start"
    /\ UNCHANGED <<stream, parts, recvVars, aligned>>

\* cidbmsg_transmission_start sends a part even if there is no data,
\* cidbmsg_transmission_continue ends when all has been given away.
SendPart ==
    /\ spc = "start" \/ (spc = "continue" /\ offset < Len(content))
    /\ stream' = stream \o Part /\ parts' = Append(parts, HeaderSize + PartSize)
    /\ offset' = offset + PartSize /\ spc' = "continue"
    /\ UNCHANGED <<sent, content, recvVars, aligned>>

SendDone ==
    /\ spc = "continue" /\ offset >= Len(content) /\ spc' = "idle"
    /\ UNCHANGED <<sent, content, offset, stream, parts, recvVars, aligned>>

\* send() fails or takes less than the part; the connection is given up.
SendFails ==
    /\ spc = "start" \/ (spc = "continue" /\ offset < Len(content))
    /\ \E n \in {0, HeaderSize, Len(Part) - 1} : stream' = stream \o SubSeq(Part, 1, n)
    /\ spc' = "failed"
    /\ UNCHANGED <<sent, content, offset, parts, recvVars, aligned>>

Sender == SendPart \/ SendDone

-----------------------------------------------------------------------------
(* The receiver.                                                           *)

\* Bound: after a recv() that has taken something else than a part, messages
\* begin in the wrong place and are not followed.
ReceiveMessage ==
    /\ rpc = "idle" /\ aligned /\ rpc' = "first"
    /\ buffer' = Fresh(HeaderSize + DataSize) /\ header' = NoHeader /\ data' = <<>> /\ got' = 0
    /\ UNCHANGED <<sendVars, stream, parts, received, aligned>>

HeaderOf(bytes) ==
    [cmd |-> bytes[3], sub |-> bytes[4], dataSize |-> GetULong(bytes, 10),
     partSize |-> GetULong(bytes, 14), offset |-> GetULong(bytes, 18)]

\* Bytes for the part of a header: memcpy goes outside one of the two buffers.
Fits(h, size) == /\ h.offset + h.partSize <= size
                 /\ HeaderSize + h.partSize <= HeaderSize + DataSize

\* Fault: every part goes to the beginning.
CopyToFront(h, into, bytes) ==
    [i \in DOMAIN into |-> IF i \in 1..h.partSize THEN bytes[HeaderSize + i] ELSE into[i]]

Copy(h, into, bytes) ==
    [i \in DOMAIN into |-> IF i - h.offset \in 1..h.partSize
                           THEN bytes[HeaderSize + i - h.offset] ELSE into[i]]

\* Fault: one more part than there is.
MissesAfterAll(h, n) == n <= h.dataSize

Misses(h, n) == n < h.dataSize

\* What happens with the buffer after a recv(): the first part says how long
\* the data is.  Bytes nobody has written may be any number, and writing outside
\* of the data may do anything: "undefined".
TakePart(bytes) ==
    \E h \in {HeaderOf(bytes)} :
    \E size \in {IF rpc = "first" THEN h.dataSize ELSE Len(data)} :
        LET nothing == rpc = "first" /\ size = 0     \* memcpy is not called
        IN  IF \/ Unset \in {bytes[i] : i \in 1..HeaderSize}
               \/ size > MaxData \/ ~(nothing \/ Fits(h, size))
            THEN rpc' = "undefined" /\ UNCHANGED <<header, data, got>>
            ELSE /\ header' = IF rpc = "first" THEN h ELSE header
                 /\ data' = Copy(h, IF rpc = "first" THEN Fresh(size) ELSE data, bytes)
                 /\ got' = IF nothing THEN 0 ELSE got + h.partSize
                 /\ rpc' = IF Misses(header', got') THEN "next" ELSE "done"

\* Bound: of all the numbers of bytes recv() may take, some in a header, the
\* header, some of the data, one part, and all there is.
Takes == {HeaderSize - 1, HeaderSize, HeaderSize + 1, Len(stream)}
         \cup {parts[i] : i \in {1} \cap DOMAIN parts}

\* recv() takes n bytes; fewer than a header are an error.
Recv(n) ==
    /\ rpc \in {"first", "next"}
    /\ n \in Takes \cap 1..Smaller(Len(stream), HeaderSize + DataSize)
    /\ stream' = SubSeq(stream, n + 1, Len(stream))
    /\ aligned' = (aligned /\ parts # <<>> /\ n = Head(parts))
    /\ parts' = IF parts = <<>> THEN <<>> ELSE Tail(parts)
    /\ \E b \in {SubSeq(stream, 1, n) \o SubSeq(buffer, n + 1, HeaderSize + DataSize)} :
        /\ buffer' = b
        /\ IF n < HeaderSize THEN rpc' = "failed" /\ UNCHANGED <<header, data, got>>
           ELSE TakePart(b)
    /\ UNCHANGED <<sendVars, received>>

\* The sender has given up and closed: recv() returns 0.
RecvEnd ==
    /\ rpc \in {"first", "next"} /\ stream = <<>> /\ spc = "failed" /\ rpc' = "failed"
    /\ UNCHANGED <<sendVars, stream, parts, buffer, header, data, got, received, aligned>>

\* recv() returns -1, a large number when unsigned: the buffer is read again.
RecvFails ==
    /\ rpc \in {"first", "next"} /\ aligned' = FALSE
    /\ TakePart(buffer)
    /\ UNCHANGED <<sendVars, stream, parts, buffer, received>>

\* The message is whole, and read_message makes a structure of it: Structure.
Return ==
    /\ rpc = "done" /\ rpc' = "idle"
    /\ received' = Append(received, [header |-> header, data |-> data])
    /\ UNCHANGED <<sendVars, stream, parts, buffer, header, data, got, aligned>>

Structure(r) == ReadMessage(r.header.cmd, r.header.sub, r.data)

Receiver == ReceiveMessage \/ RecvEnd \/ Return \/ \E n \in 1..(HeaderSize + DataSize) : Recv(n)

Next == Sender \/ Receiver \/ SendFails \/ RecvFails \/ \E m \in Messages : SendMessage(m)

Spec == Init /\ [][Next]_vars

\* Both go on, and recv() returns while there is something to receive.
FairSpec == Spec /\ WF_vars(Sender) /\ WF_vars(Receiver)

-----------------------------------------------------------------------------
(* Properties.                                                             *)

\* Type correctness; no part is longer than a buffer.
TypeOK ==
    /\ sent \in Seq(Messages) /\ Len(sent) <= MaxMessages /\ offset \in Nat
    /\ spc \in {"idle", "start", "continue", "failed"}
    /\ \A i \in DOMAIN stream : stream[i] \in Bytes
    /\ \A i \in DOMAIN parts : parts[i] \in HeaderSize..(HeaderSize + DataSize)
    /\ rpc \in {"idle", "first", "next", "done", "failed", "undefined"}
    /\ rpc \in {"first", "next"} => Len(buffer) = HeaderSize + DataSize
    /\ got \in Nat /\ aligned \in BOOLEAN
    /\ \A i \in DOMAIN data : data[i] \in Unset..255

\* The two switches of cidbmsg_write_message agree on every message: what is
\* written fills what has been allocated.  Not so for a query without the name
\* of a table, where two bytes are written into one.
SizeIsWritten ==
    spc = "start" => \/ Len(Written(Current)) = Size(Current)
                     \/ Unnamed(Current)

\* As long as each recv() takes one part, a message says to the receiver what
\* it said to the sender, in the order of sending, unless a table has more
\* fields than its index counts or a string more letters than its length.
ReceivedAsSent ==
    aligned => /\ Len(received) <= Len(sent)
               /\ \A i \in 1..Len(received) :
                     \/ Structure(received[i]) = Meaning(sent[i])
                     \/ TooManyFields(sent[i]) \/ TooLong(sent[i])

\* And nothing is read or written outside of a buffer.
StaysInside == aligned => rpc # "undefined"

\* Every message arrives, unless sending fails or recv() cuts elsewhere.
Arrives ==
    \A k \in 1..MaxMessages :
        Len(sent) = k ~> (Len(received) >= k \/ spc = "failed" \/ ~aligned)

=============================================================================
