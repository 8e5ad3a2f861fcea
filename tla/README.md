# A verification project for fritz2ci

fritz2ci listens to the call monitor of a Fritz!Box and serves what it hears to
clients on the network: an event when the telephone rings, an update with the
caller's name once it has been looked up, the list of past calls and a phone
book. This directory models the program in TLA+, checks the
models with TLC on small instances, and proves with TLAPS, for every instance,
the safety properties of the server, of the link to the box, of the phone book,
of the old protocol, of the pid file, of the search of an area code, of the
shutdown and of the lookup in the web, and that the handling of a call implements
an abstract specification of it.

## 1. Inventory

### Threads

| thread | runs | started | stopped |
|---|---|---|---|
| main | `main`, the GLib loop with the 10 s reconnect timers, `_shutdown` | | by SIGINT, SIGTERM |
| CIServer | `_cisrv_listen_thread_proc` (ci-server.c) | `cisrv_run` | pipe, join in `cisrv_disconnect` |
| Fritz | `_fritz_listen_thread_proc` (fritz.c), and `handle_fritz_message` (main.c) as its callback | `fritz_startup` | pipe, join in `fritz_shutdown` |

Shared between them: the client list (guarded by `clist_lock`), the socket and
the state word of the link (guarded by nothing), the sqlite connection of
`dbhandler.c` (serialised call by call), the queue `_db_data_todo` (its lock is
taken by one thread only, so the models leave it out), the area code index.

### Components

| component | state | operations | hard because | properties |
|---|---|---|---|---|
| caller-info server, `ci-server.c` | client list, descriptors, flags, listen socket, control pipe | accept, handle a message, broadcast, remove marked clients, disconnect | select runs on a set filled earlier; broadcasts of another thread close descriptors meanwhile; sends and a draining recv block under the lock; SIGPIPE | `CIServer` below |
| link, `fritz.c` | socket, state word, timers, pipe | connect, reconnect, receive, net up and down, shutdown | two threads connect and close one socket; flags are changed by read-modify-write; stream without boundaries | `FritzLink` below |
| helpers, `netutils.c` | none | bind with retry, fd set, close, netlink | close and forget are two steps | in the two modules |
| call handling, `main.c` 170-259 | one call record, queue of unwritten calls | RING, CALL | spread over broadcasts, web, two databases, each of which may fail | `CallFeed`, implemented by `CallPipeline` |
| call database, `dbhandler.c` | calls, phone book, one connection | add a call, add, change or remove a phone book entry, queries | two threads share the connection's change counter | `CallPipeline` |
| reverse lookup, `lookup.c` | sources, cache, the page being received | load sources, find, prepare url, receive, match, decode | two loops over a template that must agree; memory shared by all lookups; no timeout | `ReverseLookup`; the cache in `CallPipeline` |
| life cycle, `main.c` 32-168 | which parts are up | startup, shutdown | area codes are read after the threads have started and released before they end; joins that may be skipped | `LifeCycle` below |
| area codes, `ci_areacodes.c` | index of a sorted file | prefix search | sentinel 0, order of the file, an index that is being written | `AreaCodes`, `LifeCycle` |
| old protocol, `cidbconnection.c`, `cidbmessages.c` | a message and its offset | write, read, send and receive in parts | two switches that must agree; one recv is taken for one part; not called any more | `CidbMessages`, `CidbTransfer` |
| daemon, `daemon.c` | pid file | start, stop | test, fork and write are steps; pids are used again | `Daemon` |
| init script, `fritz2ci` | none | start and stop the daemon | | not modelled |
| aliases, configuration | lists read once | | released while in use? | `LifeCycle` |
| logging | none | | | not modelled |

All that is hard to test, line by line, is under "hazards" in `PROJECT.json`.

## 2. Modules

| module | what it is |
|---|---|
| `CIServer` | ci-server.c with its three threads and its clients |
| `CIServerProofs` | the TLAPS proofs about it |
| `MCCIServer` | its symmetries for TLC |
| `FritzLink` | fritz.c and the helpers of netutils.c |
| `FritzLinkProofs` | the TLAPS proofs about it |
| `MCFritzLink` | its symmetry for TLC |
| `CallFeed` | what handle_fritz_message promises, without threads and failures |
| `CallFeedProofs` | what follows from it |
| `CallPipeline` | handle_fritz_message, the cache, the web and dbhandler.c; `Feed` is its instance of `CallFeed` |
| `CallPipelineProofs` | the proof that it implements `CallFeed`, and the proofs about the phone book |
| `MCCallPipeline` | its module for TLC |
| `ReverseLookup` | lookup.c after the cache: sources, url, page, patterns |
| `ReverseLookupProofs` | the TLAPS proofs about it |
| `MCReverseLookup` | documents, numbers and pages for TLC |
| `AreaCodes` | ci_areacodes.c as functions: the index, the search |
| `LifeCycle` | main and _shutdown of main.c, with the threads and the steps of a search of an area code; extends `AreaCodes` |
| `LifeCycleProofs` | the TLAPS proofs about both |
| `MCLifeCycle` | the files and numbers for TLC |
| `CidbMessages` | cidbmessages.c as functions: the layout of every message |
| `CidbTransfer` | its transmission in parts and cidbconnection.c; extends `CidbMessages` |
| `CidbTransferProofs` | the TLAPS proofs about both |
| `MCCidbTransfer` | messages of every command for TLC |
| `Daemon` | daemon.c and its callers in main.c |
| `DaemonProofs` | the TLAPS proofs about it |
| `MCDaemon` | its symmetry for TLC |

Operators whose comment begins with "Fault:" are not part of a specification:
each is a wrong form of the definition after it and shows that a property
notices it.

### CIServer

A step is what a thread does between two points where another thread can
interfere: a lock, an unlock, a call that may block, one client of an
iteration. `pc` says where each thread is, `pos` at which client.

* **Listen thread** (`Srv`): `Bind`, `BindWait` (wait_for_bind and its retry on
  the pipe), `BuildFdSet` under the lock, then `SelectEnter` and `SelectReturn`
  without it, `Accept`, `AddClient`, then under the lock again one `HandleClient`
  per client, removal of marked clients, `CheckPipe`. A descriptor of the set
  that is closed by the time select() begins makes it fail, and the thread ends.
* **Broadcasts** (`Fritz`): `FritzMessage` starts a call, whose script of
  broadcasts (Message, maybe Update, Complete; or Call) each run
  `BroadcastLock`, one `BroadcastSend` or `BroadcastSkip` per client,
  `BroadcastUnlock`, then the removal.
* **Shutdown** (`Main`): `Shutdown` stops and joins the listen thread, broadcasts
  the disconnect and closes everything.
* **Removal** (`RemoveLock`, `RemoveSkip`, `ShutdownSock`, `DrainAndClose`,
  `Unlink`) is shared by all. `DrainAndClose` waits, with the lock, until the
  peer has closed.
* **Peers** connect once, send messages, read or do not read, and close. A send
  is delivered, lost on a connection the peer has just closed, fails, or kills
  the process with SIGPIPE. A peer that does not read blocks the send.

Message contents are reduced to their kind (`MessageKinds`): what matters is
whether a record is marked, answered or ignored. A failed accept() yields a
record with socket -1 (`BadFd`), as in the code; `MaxBad` bounds how many. With
-1 in the list FD_SET writes in front of the set: the Makefile does not ask for
a fortified build, and in the build it asks for this sets a bit of the first
word, so that select() may or may not fail: `SelectEnter` allows both.
`send()` failing for a version 2 client does not mark it, since -1 is compared
with an unsigned size (ci-server.c:546): `MarkFailed`.

Clients may still get an event after their LEAVE has been answered, in the gap
between the unlock and the removal. Nothing in the sources promises otherwise,
and no property says so.

### FritzLink

`Main` connects at startup, then in timers; `Fritz` connects when an interface
comes up. The steps are finer than in `CIServer`, for nothing is locked:
changing a flag is `LoadState` and `StoreState`, closing the socket `CloseFd` and
`ForgetFd`, connecting `OpenSocket` (which overwrites `sock`), `Dial` (which reads
it again) and `DialSucceeds` or `DialFails`. `ctx` says for whom a thread runs
such a shared piece of code. The pipe is a sequence of the messages written;
`ReadPipe` takes them all and looks at the first, as read() and strncmp do. The
box sends each notification in one or in two segments, and `Recv` takes all that
has arrived and gives the parser its beginning; what follows the first
notification is dropped, as in the code. `Parse` says what the parser makes of it.
`overlapped` records that both threads have been between a test of the socket and
the end of what they do with it (`Busy`): from then on the code may leak a
descriptor, and `SocketOwned` promises nothing.

Timers are untimed: one may fire at any time, also before the listen thread has
set Listening, which in a real run takes less than the ten seconds.

### CallPipeline

One call after the other: `Ring`, `SendMessage`, `FindInCache`, `AskWeb`, `Store`,
`DecideUpdate`, `SendUpdate`, `SendComplete`, or `Call` and `SendCall`. Reading the
cache, asking the web, caching, and writing the call may each fail; a page may be
found without a name (`Blank`). Meanwhile `Srv` works on phone book requests:
`UpdateCaller`, `CountUpdated`, `InsertCaller`, `CountInserted`, `Reply`, and
`RemoveCaller`. Both change the one counter `changes`. `clist_lock` appears as the
guard of a broadcast that no request is being worked on. After a failed insert the
call joins `todo`, which nothing empties, and so do all calls after it; the
statement is not reset (dbhandler.c:123), which cannot show: nothing tries again.
Users of the phone book are reduced to one, since every statement has the user in
its condition. The phone book is a table of rows, named by the request that has
inserted them (`Table`, `Rows`): an entry that is there twice is two rows.

### CallFeed

Three variables: what clients have been told (`feed`), which calls are kept under
which names (`kept`), and how far the last call is (`stage`). A RING is `Announce`,
`Keep`, `Correct` if a name was looked up, `Finish`; a CALL is `Outgoing`. There are no
failures: that the database refused a call, that the web did not answer, or
that another thread works on the phone book does not show. `CallPipeline` maps
`out` to `feed`, the table followed by the queue to `kept` (`FeedKept`), and the place of
the listen thread to `stage` (`FeedStage`); `ImplementsFeed` says that every step is
one of the feed or a stutter. What a careful client may rely on follows from
`CallFeed` alone: `CompleteIsKept`, `KeptInOrder`, `ToldInOrder`.

### ReverseLookup

One lookup after the other, as the listen thread makes them. `Load` reads the
source file; `GetCaller` picks the first source with the configured id; `Measure` is
a turn of the first loop of _cirlw_prepare_url and `Fill` one of the second, which
walk the template by the same test for a placeholder (`Opens`: a "%" that no digit
follows; `CloseOf`: the next "%" closes it) but write by themselves; `Perform`, `ReadData`, `PerformFails` and
`PerformEnds` are curl with its callback, which delivers a page in any parts or
not to its end; `Match` is a line with a pattern; `Decode` converts the fields and
removes their escapes if a charset was found in any line.

Texts are sequences of characters, but the alphabet is small: the word NUMBER is
one letter, "N", and any other word is "X", so a placeholder is shorter than the
one in the code by a constant. That `Len(Pattern)` is measured and not assumed is
kept; numbers are shorter and longer than the placeholder. A blank is written "_".
Templates are spelled in these pieces and close their placeholders
(`TemplateAssumption`: behind an opening "%" the loops do not look for the end of the
template). Sources have a query, their patterns compile, and curl has a handle: the
program ends at startup otherwise, or the shipped sources are so. A line that a
pattern matches has the groups that its fields name (`PatternAssumption`: the result
of g_match_info_fetch is copied without a test, lookup.c:631-659). What a regular
expression matches is a property of a line (`hits`, `groups`), conversion is the
exchange of one umlaut.

At a placeholder it does not know, `Fill` has no step: the code goes back to the
beginning of its loop without moving, for ever. `LookupEnds` excepts this template.

### CidbMessages and CidbTransfer

The old database protocol is compiled, but no part of the program calls it any
more. `CidbMessages` is its layout: numbers of two and four bytes, least significant
first, strings with a length of one byte or, after an escape, of two, lists and
tables. `Size` and `Written` are the two switches of cidbmsg_write_message,
`ReadMessage` is the one of cidbmsg_read_message, `Meaning` the reference: the fields
that cidbmessages.h lists for a command. `Byte`, the number of values of a byte, is
256 in the code and 4 for TLC: escape, short and long are then 3, 16 and 256, so
that every boundary is reached by short messages.

`CidbTransfer` has a sender, which cuts the data of a message into parts with a
header each (`SendPart`), and a receiver, which copies each part to the offset its
header names (`TakePart`). Between them is a stream, and `Recv` takes any number of
bytes of a few kinds (`Takes`), `RecvFails` none, which the unsigned comparison in
cidbconnection.c takes for a full part. `aligned` records that each recv() so far
has taken exactly one part, which the code assumes and TCP does not promise. What
the receiver does with other bytes is followed to the end of the message
(`"undefined"` where it reads or writes outside a buffer), later messages are not.

`IsMessage` says what a message may be: any numbers of the widths that CIDBMessage
gives them, any strings, in lists that its counters count, and tables that are
full. Beyond the structure it assumes only that a query to delete a caller has
two strings, as cidbmessages.h lists it, since the size reads both unasked. The
flags have four bytes in the structure and two in the message: `Meaning` is what
the two hold.

`SizeIsWritten` and `ReceivedAsSent` except three cases that go wrong in the code: a
query for a table without a name writes two bytes into a block of one
(`Unnamed`), the index of a row is an unsigned short (`TooManyFields`), and so is the
length of a string (`TooLong`).

### Daemon

Starts that test the pid file, fork, and write the pid of the child from the
parent; children that serve, remove the file and end, or are killed. Pids are
given to starts, children and other programs, and used again. `Compare` is the
test of /proc/<pid>/comm against argv[0], which never succeeds for a start whose
argv[0] has a path (`ByPath`), as the init script gives it one. `Create` truncates the
file, `Write` closes it; a removal between the two makes the parent write into a
file that is in no directory (`open`). `lapses` records the three ways in which the
pid file loses its force: two starts have crossed, a start with a path has passed
a daemon, a file could not be written. The properties promise nothing after a
lapse and everything before.

### AreaCodes and LifeCycle

A line of the file is its leading digits, its place stands for the area, and a
position is the number of lines before it, so that position 0 is the heading and
keeps its second meaning, "not in the index". `IndexLine` is one round of the
reading loop, `Scan` the loop of ci_get_area_code with its two ends, `Hit` and
`Past`. Files are ordered and no code is the beginning of another (`IsCodeFile`),
as in share/vorwahl.dat up to line 4685; after it the shipped file is not in
order, and 24 of its 5238 codes are not found (see hazards). `Listed` is the
definition the search is compared with.

`LifeCycle` follows `main`: each initialisation succeeds or fails (`StartParts`;
without a call database or aliases the daemon goes on), the two threads are
started (`CisrvRun`, `FritzStartup`), only then the area codes are read, line by
line. `Shutdown` is `_shutdown` in its order: `CiFreeAreaCodes` before the two
joins, then one `Release` per part. `FritzShutdown` is called twice, as in the
code, and waits only if the thread has set Listening. The threads are reduced to
the parts they use (`UsedBy`); ci_get_area_code is four steps (`CheckName`,
`CheckGroup`, `OpenFile`, `ScanFile`), since the name and the index are read without
a lock. What the threads do else is in the other modules, among it the ways in
which a "disconnect" is not noticed: here it is always read.

## 3. Runs

| run | module, cfg | bounds | shows |
|---|---|---|---|
| server_safety | MCCIServer.cfg | 2 peers, 2 descriptors, 2 broadcasts, one message per peer, one unread message | type, lock, ownership and distinctness of descriptors, order and completeness of events, marks only for cause |
| server_live | MCCIServerLive.cfg | 2 peers, 1 descriptor, 1 call | exhausted and reused descriptors: nothing leaks, a call is broadcast to its end, a client that leaves is released, the shutdown returns |
| server_serves | MCCIServerServes.cfg | 1 peer | violated: a removal between the set and select() ends the listen thread |
| server_sigpipe | MCCIServerSigpipe.cfg | 1 peer | violated: two sends to a client that has closed end the process |
| link_safety | MCFritzLink.cfg | 2 descriptors, 2 notifications, 1 netlink event | notifications at most once and in order, the first connection is tried until it succeeds, no lost wakeup, no leaked descriptor while the threads keep apart |
| link_reconnect | MCFritzLinkReconnect.cfg | 1 descriptor | violated: a lost connection is not made again |
| link_stop | MCFritzLinkStop.cfg | 1 descriptor | violated: "add sock" and "disconnect" read together, the join never returns |
| calls | MCCallPipeline.cfg | 2 numbers, 1 name, 2 calls, 2 requests | implements `CallFeed`; an announced call is completed; the phone book outside the counter race |
| life_cycle | MCLifeCycle.cfg | 2 files, 10 numbers, 2 uses per thread | no wrong area, and the right one once its group is indexed; nothing is released while in use |
| old_protocol | MCCidbTransfer.cfg | 2 messages of every command, bytes of 4 values, parts of 8 bytes | what is allocated is filled, what arrives in parts is what was sent, no access outside a buffer |
| daemon | MCDaemon.cfg | 3 starts, one by path, 3 pids | one daemon, named by the file, before a lapse; a stale file and a refusal have a cause |
| lookup | MCReverseLookup.cfg | 90 source files, 3 numbers, pages of at most 2 lines, 2 lookups | the url fits its memory and is the configured one, the answer stands on this page, a lookup ends |

Why the bounds are enough: two peers and one or two descriptors give every
combination of a record before, at and after the position of an iteration, and every
reuse of a number; two broadcasts are the least that can be out of order or raise
SIGPIPE. With two notifications every duplication, loss and exchange is visible, and
with two descriptors every overwritten socket. One netlink event already lets both
threads connect at once. The two files have a group with several codes, codes of
three and four digits, a group of one code and one of group 0; the numbers are
listed, too short, between two codes, after all, and empty. Two calls and two
requests show order in the queue, duplicate entries and a store in the middle of an
addition. Two messages, one without and one with several parts, give every place in
which a header can be mistaken. Three starts are the least of which one may end
while two cross, and with three pids a pid is used again by anybody. The templates
are all those of up to three pieces, so that placeholders stand at the beginning, in
the middle, at the end and side by side; two lookups are the least of which one
could see the page of the other. Every system may stop (after a shutdown, SIGPIPE,
or at a bound), so deadlock is not checked; where not stopping matters there is a
liveness property.

The race of `AddedIsThere` and `OneEntry`: a call stored between the update and
sqlite3_changes() leaves the counter at 1 (the entry is not inserted, and the
client is answered as if it were) or, when it failed, at 0 (the entry is there
twice). Both properties except exactly this (`raced`) and hold otherwise.

### Fairness

* `CIServer`: weak fairness for the listen thread. Strong fairness for the two
  broadcasting threads: with descriptors exhausted the listen thread spins and
  takes and releases the lock in every round, and a waiting thread gets it in
  one of the gaps; g_mutex gives no stronger promise, the scheduler this one.
  Clients read, announce their version, and close when they see the end of the
  stream. Without the latter, one client stops everything (ci-server.c:605):
  liveness is a promise to well-behaved clients only.
* `FritzLink`: weak fairness of both threads, only used for a violated property.
* `CallPipeline`: weak fairness of both threads; the web answers or fails
  (curl has no timeout, so this is an assumption on the network).
* `ReverseLookup`: weak fairness of the thread (`Lookup`) and of curl (`Web`): a page
  or an error comes, by the same assumption.
* `CidbTransfer`: weak fairness of the sender and of the receiver, whose recv()
  returns while there is something to receive. That it fails is never due.
* `Daemon` has no fairness: all that is said of it is safety.

## 4. Proofs

`CIServerProofs` proves, for every set of peers and descriptors, every bound and
every mix of messages that satisfies the two assumptions of `CIServer`,

* `TypeCorrect`: `Spec => []TypeOK`
* `MutualExclusion`: `Spec => []LockHeld`, no two threads walk the client list
* `SocketsAreOwned`: `Spec => []OwnSocket`, a record's descriptor is open and
  belongs to the client it was accepted for
* `SocketsAreDistinct`: `Spec => []DistinctSockets`

All follow from `InvHolds`: `Spec => []IInv`. `OwnSocket` is not inductive. A
descriptor closed by one thread can be handed out to a new client while another
record still bears its number, unless it is known that nobody else walks the
list (`LockHeld`), that the position of the thread that closes is in the list
(`PosInRange`), that a peer has one record and one descriptor
(`RecordsMakeSense`, `OnePeerPerFd`), that a waiting client has neither
(`NotYetAccepted`), and that a socket between accept and its record belongs to a
client without one (`NewSockIsNew`). `NotYetRunning` says that cisrv_run starts
threads that are not there yet.

The proof has one lemma per conjunct: `TypeStep`, `LockStep`, `PosStep`, `OwnStep`.
For ownership the steps are divided into the quiet ones, which leave clients'
descriptors, connections and the new socket alone (`QuietSteps`,
`QuietKeepsOwnership`), and the six that do not: accept, add, connect, close,
shutdown of a socket, unlink, with a lemma each. `Exclusive` is mutual exclusion
in the form the lemmas use.

On top of it `DInv` proves `EventsAreInOrder` (`EventsInOrder`), `AllDelivered`
(`Delivered`), `MarksAreRightful` (`MarkedForCause`) and `NothingLeaks` (`NoLeak`).
`Sending` compares what a peer has got with what it is due: as long as its
connection stands they differ at most by the event of the broadcast under way,
which the walk has not brought to it yet (`Awaits`), and afterwards the first is a
beginning of the second. It needs the order of the list, for a client that comes
in the middle of a walk is behind the one who walks. `Heard` says that what is
still to be received has been said, so that a mark for it has a cause. `Kept` says
that an open descriptor is in the list or on its way there, and that the thread
that closes it is the one that unlinks its record; `Stopped` that the last walk of
the shutdown begins again at the head until the list is empty.

`FritzLinkProofs` proves, for any number of descriptors, notifications and netlink
events, `TypeCorrect`, `NotificationsInOrder` (`HandledInOrder`), `FirstConnectKeptUp`
(`FirstConnectNotGivenUp`), `Woken` (`WokenForSocket`) and `SocketIsOwned`
(`SocketOwned`), all from one inductive invariant. `There` says for whom each thread
can run each piece of the shared code, which excludes most combinations of steps.
Order needs `Fresh`: what the present socket still holds is later than all that has
been handled, but for the rest of a notification that has been cut, which the
parser drops. `NeverConnected` follows the flag through the words that the threads
have loaded and not stored yet. `Waking` excepts the one moment in which the
listen thread may sleep without the socket: a timer is then on its way to wake it
or to close the socket. `Apart` is the point of `SocketOwned`: while the threads have
kept apart, one of them is not busy, flag and socket agree when both are not
(`Agree`), and the busy one knows at each of its steps what the other cannot have
changed (`Knows`). Nothing is claimed after an overlap, where the code does leak.

`DaemonProofs` proves, for any number of starts and pids, `TypeCorrect`, `AtMostOne`
(`OneDaemon`), `FileNames` (`FileNamesDaemon`), `NoOtherStaleFile` (`StaleForCause`) and
`RefusedRightly` (`RefusedForCause`), from one inductive invariant. `OneDaemon` says
nothing of a start on its way; `Alone` adds that without a lapse only one start is,
that it has read the pid of a daemon that serves, forks only if there is none, and
then has the file. `OwnPids` and `Owners` tie pids to those who run under them, in
both directions: without them a pid used again could pass for a daemon.
`NotItself` is the odd one: a start finds itself under the pid in the file only if
a daemon has left it there.

`CallFeedProofs` proves `CompleteKept`, `KeptOrdered` and `ToldOrdered` of the feed, for any
names and any number of calls. The invariant adds that the last event is of the
latest call, and that what is kept is of it or of earlier ones (`Latest`).

`CallPipelineProofs` proves `Implements`: `Spec => ImplementsFeed`, for any numbers, names,
calls and requests. Its invariant says what the handler knows at each of its
steps: whether the call at hand has been told (`Telling`), that its name is the area
exactly as long as none has been found (`Naming`), and that from the store on it is
the last one kept, under this name (`Storing`). With it each step is one of the feed
(`StepShows`; `StoreIsKeep` for the step into the table or the queue) or shows
nothing. `PromiseHolds` carries the three theorems about the feed over to the handler.

For the phone book it proves `TypeCorrect`, `AdditionsAreThere` (`AddedIsThere`) and
`EntriesAreUnique` (`OneEntry`), from `BookInv`: unless the counter of the connection has
been overwritten, it is 0 at each stage of an addition exactly if the number has
no row yet (`Counted`). The step that overwrites it is a store of the other thread in
between, and there `raced` becomes true. Two rows of one number are compared by the
requests that have inserted them, and `RowsCounted` takes the numbers of rows from the
library's theorems about finite sets.

`ReverseLookupProofs` proves, for every file of sources that satisfies the two
assumptions, every number and every page, `UrlHolds` (`UrlFits`), `AskedHolds`
(`UrlAsked`), `AnswerHolds` (`AnswerFromPage`) and `TypesHold` (`TypeOK`).

* That the url fits: the two loops of _cirlw_prepare_url do not share more than a
  sum, so the invariant gives the first one a memory: a trace, that is the sum at
  each place where the loop has stood (`IsTrace`). The second loop stands at the same
  places, has written there what the trace says (`Filled`), and no place of the trace
  is beyond the total. Without `TemplateAssumption` it does not hold: at a "%" that
  nothing closes both loops leave the template.
* What the url is: a text that is spelled in pieces has a layout, the places where
  its pieces begin (`IsLayout`, `LayoutExists`). The second loop stands at such a place,
  with the pieces before it expanded, or inside of an escape, of which it has
  copied the beginning (`Copied`). No piece begins with a digit, so what opens a
  placeholder by the test of the loops is one (`CopyLetter`, `CopyNumber`).
* What is returned: the memory and what is left of the page are the page
  (`Received`). The loops over lines and patterns have left in each field the group
  that they have met for it last (`FieldAt`, `FieldTurn`), which at their end is the one
  that the page gives last (`FieldEnds`). The escapes are removed piece by piece: a
  turn of the loop never takes a piece for the beginning of an escape that another
  one ends (`PieceDecoded`, `EscapesRemoved`), and what has been converted is spelled in
  the same pieces, with other umlauts (`ConvertedIs`).

`CidbTransferProofs` proves of every message that `IsMessage` allows, every size of a
part and every number of messages `TypeCorrect`, `SizesAreWritten` (`SizeIsWritten`),
`NothingOutside` (`StaysInside`) and `MessagesArrive` (`ReceivedAsSent`). It has three parts.

* Layout: what is written is as long as what is computed (`WrittenIs`, `SizeIs`), and
  what is written is read as it was (`MessageRead`), by way of numbers (`ShortRead`,
  `LongRead`), a string (`ReadOneIs`), a list (`StringsRead`) and a table (`TableRead`). The
  operators that go through a list are recursive functions. The provers do not
  unfold one by themselves, so a lemma says of each that there is a function
  with its equation (`SumExists`, `FlattenExists`, `ReadExists`), from the least
  number for which there is none; induction on a set of numbers is `SetInduction`.
* Parts: `Chained` says that the stream is a chain of parts from the one the receiver
  waits for to the one the sender builds next, each the `Successor` of the one before.
  A step of the sender adds a link at the end (`ChainGrows`), a recv() of one part
  takes the first away (`ChainShortens`).
* The receiver: what it has collected is the beginning of the message the chain
  begins with, and what it has returned is what was sent (`Collected`). So every header
  it reads fits its buffers.

All of this is under `aligned`, as in the code; without it the receiver reads
headers where there are none.

`LifeCycleProofs` proves first, of the search of any ordered file: where it stops is the
listed code (`ScanIsListed`), and it gets there from any position at or before it
(`ScanFindsListed`), since codes in order are greater than the number only after the
one that is its beginning (`PastEnds`). `Scan` takes the least of a set of lines: that
every set of natural numbers has a least element follows from the library's theorem
that `<` is well-founded on them (`Least`).

Then it proves, for any ordered files, any numbers and any number of calls and
requests, `TypeCorrect`, `NothingWrongFound` (`FoundIsListed`), `ListedIsFound`
(`FoundOnceIndexed`) and `NothingReleasedInUse` (`InUseIsUp`). The index is right while it
is written because a group enters it with the first of its lines and before the
next is read (`IndexLeads`); a search that has seen it there sees the same value
later, since entries are written once (`KnownStays`). For the shutdown, `Waited` says
which thread is gone at which of its steps, and that nothing is released before.

Assumptions on constants are in the modules, named, and hold in the instances TLC
checks: `FdAssumption` says that a descriptor is a number or `NoFd`, `BoundAssumption`,
`LinkAssumption`, `PipelineAssumption`, `LifeCycleAssumption`, `DaemonAssumption` and
`LookupAssumption` mostly that the bounds are numbers, `ByteAssumption` that a byte has
from 2 to 256 values; `TransferAssumption`, `TemplateAssumption` and
`PatternAssumption` are explained with their modules.

Every safety invariant that a run checks is proved. Only model-checked is liveness
under fairness, which the prover does not reach. The violated properties are TLC's
counterexamples.

## 5. Findings

Quoted with their lines in `PROJECT.json`: the listen thread ends when a client
is removed at the wrong moment; a client that hangs up can end the daemon; a
lost connection is not made again although the log says so; the stop message
can be swallowed.

Modelled, without a promise in the sources that they break: two threads that
connect at once leak a descriptor or leave Connected set without a socket;
close() of a number that the other thread has closed and that is in use again;
a file name that is released while a thread may open a file by it; a thread of
the link that is not waited for because it does not listen yet. `InUseIsUp` holds
with exactly the last two excepted, `SocketOwned` with the first ones. Further:
notifications that arrive together are dropped but for the first; after one
failed insert all later calls wait in a queue that is not emptied; an unknown
placeholder makes a lookup turn for ever; a client may get an event after its
LEAVE has been answered; two starts that cross both serve; a start by path does
not notice a daemon; a start may be refused because its own pid is in a stale
file; and in the old protocol the three of the section about it.

## 6. Not modelled

* Logging and texts: output only. Contents and layout of the messages to clients:
  libcinet, a library outside of the sources.
* The init script: start-stop-daemon with its options; `Daemon` models what it starts.
* The reading of the configuration and of the aliases, once each and before any
  thread; the linear search in the aliases; the rows that queries return.
* cidb_clear_cache, which nothing calls; cidbmsg_mkmessage and
  cidbmsg_table_free, which only fill and free a structure; memory management.
* What a failed initialisation leaves half open: fritz_init that fails before
  pipe() leaves descriptor 0 for the cleanup to close, and cidb_connect keeps the
  handle of a database it has closed (lookup.c:84). A signal between sigaction()
  and the main loop (main.c:173). All three are single steps at startup.

The sections above say what each model abstracts.

## 7. Plan

1. Done: all models, and the proofs of section 4.
2. To prove: an abstract specification of the delivery of the server (a client gets,
   from its accept on, every event that is broadcast, each once and in order, until
   its connection ends), which `EventsInOrder` and `Delivered` state as invariants, and
   that `CIServer` implements it step by step.
3. To shorten: two modules prove the same of sequences and loops (`IsLoop` and
   `IsFlat` in `ReverseLookupProofs`, `SumExists` and `FlattenExists` in
   `CidbTransferProofs`).
