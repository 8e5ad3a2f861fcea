------------------------------- MODULE Daemon -------------------------------
(***************************************************************************)
(* One daemon at a time, by a pid file: daemon.c with its callers in       *)
(* main.c.  A start tests the file, and the process it names, forks, and   *)
(* the parent writes the pid of the child into the file; the child serves, *)
(* and removes the file when it ends by itself.  Pids are used again, by   *)
(* other programs and by starts and daemons.                               *)
(***************************************************************************)
EXTENDS Naturals

CONSTANTS
    Starts,     \* starts of the program, each with its child
    ByPath,     \* the starts whose argv[0] has a path
    Pids,       \* process ids
    NoFile,     \* instead of a pid: there is no pid file, or no number in it
    Empty       \* instead of a pid: the file has been truncated and not written

ASSUME DaemonAssumption ==
    /\ ByPath \subseteq Starts
    /\ NoFile \notin Pids /\ Empty \notin Pids /\ NoFile # Empty

VARIABLES
    pc,         \* where a start is
    daemon,     \* where its child is
    process,    \* what runs under a pid
    pid,        \* the pid of a start
    child,      \* the pid of its child
    number,     \* the pid a start has read
    file,       \* the pid file: a pid, Empty or NoFile
    open,       \* the starts whose stream belongs to the file in the directory
    lapses,     \* what has put the file out of force (history)
    stale       \* the file names a daemon that has ended (history)

starting == <<pc, pid, child, number>>
vars == <<starting, daemon, process, file, open, lapses, stale>>

Free  == [kind |-> "free"]
Other == [kind |-> "other"]
Parent(s) == [kind |-> "parent", of |-> s]
Child(s)  == [kind |-> "child", of |-> s]
Named == {Parent(s) : s \in Starts} \cup {Child(s) : s \in Starts}

Pending(s) == pc[s] \in {"test", "read", "compare", "fork", "create", "write"}
Alive(s)   == daemon[s] \in {"serves", "leaves"}

LapseIf(condition, how) == lapses' = IF condition THEN lapses \cup {how} ELSE lapses

Init ==
    /\ pc = [s \in Starts |-> "off"] /\ daemon = [s \in Starts |-> "none"]
    /\ process = [p \in Pids |-> Free] /\ pid = [s \in Starts |-> NoFile]
    /\ child = [s \in Starts |-> NoFile] /\ number = [s \in Starts |-> NoFile]
    /\ file \in Pids \cup {NoFile} /\ open = {} /\ lapses = {} /\ stale = (file # NoFile)

-----------------------------------------------------------------------------
(* A start.                                                                *)

Begin(s, p) ==
    /\ pc[s] = "off" /\ process[p] = Free
    /\ pc' = [pc EXCEPT ![s] = "test"] /\ pid' = [pid EXCEPT ![s] = p]
    /\ process' = [process EXCEPT ![p] = Parent(s)]
    /\ LapseIf(\E t \in Starts : Pending(t), "crossed")
    /\ UNCHANGED <<child, number, daemon, file, open, stale>>

TestFile(s) ==
    /\ pc[s] = "test"
    /\ pc' = [pc EXCEPT ![s] = IF file = NoFile THEN "fork" ELSE "read"]
    /\ UNCHANGED <<pid, child, number, daemon, process, file, open, lapses, stale>>

\* What strtoul makes of the buffer: of an empty file, of whatever was in it.
NumbersRead == CASE file = NoFile -> {NoFile}
                 [] file = Empty  -> {NoFile} \cup Pids
                 [] OTHER         -> {file}

ReadFile(s) ==
    /\ pc[s] = "read"
    /\ \E p \in NumbersRead :
        /\ number' = [number EXCEPT ![s] = p]
        /\ pc' = [pc EXCEPT ![s] = IF p = NoFile THEN "fork" ELSE "compare"]
    /\ UNCHANGED <<pid, child, daemon, process, file, open, lapses, stale>>

\* Faults: any process is taken for a daemon; or only what is under another name.
AnyProcess(s)   == process[number[s]] # Free
OtherProcess(s) == process[number[s]] = Other

\* The name under /proc is without a path.
SameName(s) == process[number[s]] \in Named /\ s \notin ByPath

Compare(s) ==
    /\ pc[s] = "compare"
    /\ IF SameName(s)
       THEN /\ pc' = [pc EXCEPT ![s] = "refused"]
            /\ process' = [process EXCEPT ![pid[s]] = Free] /\ UNCHANGED lapses
       ELSE /\ pc' = [pc EXCEPT ![s] = "fork"] /\ UNCHANGED process
            /\ LapseIf(s \in ByPath /\ process[number[s]] \in Named, "path")
    /\ UNCHANGED <<pid, child, number, daemon, file, open, stale>>

Fork(s, p) ==
    /\ pc[s] = "fork" /\ process[p] = Free
    /\ pc' = [pc EXCEPT ![s] = "create"] /\ daemon' = [daemon EXCEPT ![s] = "serves"]
    /\ child' = [child EXCEPT ![s] = p] /\ process' = [process EXCEPT ![p] = Child(s)]
    /\ UNCHANGED <<pid, number, file, open, lapses, stale>>

ForkFails(s) ==
    /\ pc[s] = "fork" /\ pc' = [pc EXCEPT ![s] = "failed"]
    /\ process' = [process EXCEPT ![pid[s]] = Free]
    /\ UNCHANGED <<pid, child, number, daemon, file, open, lapses, stale>>

\* fopen truncates the file or creates one.
Create(s) ==
    /\ pc[s] = "create" /\ pc' = [pc EXCEPT ![s] = "write"]
    /\ file' = Empty /\ open' = open \cup {s} /\ stale' = FALSE
    /\ UNCHANGED <<pid, child, number, daemon, process, lapses>>

CreateFails(s) ==
    /\ pc[s] = "create" /\ pc' = [pc EXCEPT ![s] = "done"]
    /\ process' = [process EXCEPT ![pid[s]] = Free] /\ LapseIf(TRUE, "unwritten")
    /\ UNCHANGED <<pid, child, number, daemon, file, open, stale>>

\* Faults: the parent writes its own pid; it writes only while the child serves.
WriteOwnPid(s) ==
    /\ pc[s] = "write" /\ pc' = [pc EXCEPT ![s] = "done"]
    /\ file' = IF s \in open THEN pid[s] ELSE file
    /\ stale' = IF s \in open THEN daemon[s] # "serves" ELSE stale
    /\ open' = open \ {s} /\ process' = [process EXCEPT ![pid[s]] = Free]
    /\ UNCHANGED <<pid, child, number, daemon, lapses>>
WriteIfServes(s) ==
    /\ pc[s] = "write" /\ pc' = [pc EXCEPT ![s] = "done"]
    /\ file' = IF s \in open /\ daemon[s] = "serves" THEN child[s] ELSE file
    /\ open' = open \ {s} /\ process' = [process EXCEPT ![pid[s]] = Free]
    /\ UNCHANGED <<pid, child, number, daemon, lapses, stale>>

\* The text is written when the stream is closed, to a file that may be unlinked.
\* The child may have ended before.
Write(s) ==
    /\ pc[s] = "write" /\ pc' = [pc EXCEPT ![s] = "done"]
    /\ file' = IF s \in open THEN child[s] ELSE file
    /\ stale' = IF s \in open THEN daemon[s] # "serves" ELSE stale
    /\ open' = open \ {s} /\ process' = [process EXCEPT ![pid[s]] = Free]
    /\ UNCHANGED <<pid, child, number, daemon, lapses>>

-----------------------------------------------------------------------------
(* A child.                                                                *)

\* Fault: the file stays.
LeaveFile(s) ==
    /\ daemon[s] = "serves" /\ daemon' = [daemon EXCEPT ![s] = "leaves"]
    /\ UNCHANGED <<starting, process, file, open, lapses, stale>>

\* _shutdown, after a signal or when a part cannot be started, ends with
\* stop_daemon, whoever the file belongs to.
StopDaemon(s) ==
    /\ daemon[s] = "serves" /\ daemon' = [daemon EXCEPT ![s] = "leaves"]
    /\ file' = NoFile /\ open' = {} /\ stale' = FALSE
    /\ UNCHANGED <<starting, process, lapses>>

Leave(s) ==
    /\ daemon[s] = "leaves" /\ daemon' = [daemon EXCEPT ![s] = "ended"]
    /\ process' = [process EXCEPT ![child[s]] = Free]
    /\ UNCHANGED <<starting, file, open, lapses, stale>>

\* A signal that is not handled, or not yet; main returns after fritz_startup has
\* failed.
Killed(s) ==
    /\ daemon[s] = "serves" /\ daemon' = [daemon EXCEPT ![s] = "ended"]
    /\ process' = [process EXCEPT ![child[s]] = Free]
    /\ stale' = (stale \/ file = child[s])
    /\ UNCHANGED <<starting, file, open, lapses>>

-----------------------------------------------------------------------------
(* Other programs.                                                         *)

OtherBegins(p) ==
    /\ process[p] = Free /\ process' = [process EXCEPT ![p] = Other]
    /\ UNCHANGED <<starting, daemon, file, open, lapses, stale>>

OtherEnds(p) ==
    /\ process[p] = Other /\ process' = [process EXCEPT ![p] = Free]
    /\ UNCHANGED <<starting, daemon, file, open, lapses, stale>>

-----------------------------------------------------------------------------
Starting(s) ==
    \/ TestFile(s) \/ ReadFile(s) \/ Compare(s) \/ ForkFails(s)
    \/ Create(s) \/ CreateFails(s) \/ Write(s)
    \/ \E p \in Pids : Begin(s, p) \/ Fork(s, p)

Serving(s) == StopDaemon(s) \/ Leave(s) \/ Killed(s)

Next ==
    \/ \E s \in Starts : Starting(s) \/ Serving(s)
    \/ \E p \in Pids : OtherBegins(p) \/ OtherEnds(p)

Spec == Init /\ [][Next]_vars

-----------------------------------------------------------------------------
(* Properties.                                                             *)

\* Type correctness; a file is only open, and empty, while a start is writing it.
TypeOK ==
    /\ pc \in [Starts -> {"off", "test", "read", "compare", "fork", "create", "write",
                          "done", "refused", "failed"}]
    /\ daemon \in [Starts -> {"none", "serves", "leaves", "ended"}]
    /\ process \in [Pids -> {Free, Other} \cup Named]
    /\ pid \in [Starts -> Pids \cup {NoFile}] /\ child \in [Starts -> Pids \cup {NoFile}]
    /\ number \in [Starts -> Pids \cup {NoFile}]
    /\ file \in Pids \cup {NoFile, Empty} /\ lapses \subseteq {"crossed", "path", "unwritten"}
    /\ stale \in BOOLEAN /\ open \subseteq {s \in Starts : pc[s] = "write"}
    /\ file = Empty => open # {}

\* No two daemons serve at the same time, as long as no start has begun while
\* another was between its test and its writing, none had a path in its name and
\* every file could be written.
OneDaemon ==
    lapses = {} => \A s, t \in Starts :
                      daemon[s] = "serves" /\ daemon[t] = "serves" => s = t

\* Then, too, the file names the daemon that serves: a stop finds it.
FileNamesDaemon ==
    lapses = {} => \A s \in Starts :
                      daemon[s] = "serves" /\ ~Pending(s) => file = child[s]

\* A pid in the file is that of a daemon, or one that was killed, or that ended
\* before its parent has written the file.
StaleForCause ==
    file \in Pids /\ ~stale => \E s \in Starts : daemon[s] = "serves" /\ child[s] = file

Refusals ==
    \A s \in Starts : pc[s] = "compare" /\ pc'[s] = "refused" =>
        (\E t \in Starts : Alive(t)) \/ stale \/ lapses # {}

\* Then, too, a start is refused because of a daemon, unless the file names one
\* that has ended and its pid has been used again, even for the start itself.
RefusedForCause == [][Refusals]_vars

=============================================================================
