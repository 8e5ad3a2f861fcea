------------------------------ MODULE CIServer ------------------------------
(***************************************************************************)
(* The caller-info server of ci-server.c: one listen thread ("Srv") that   *)
(* accepts clients and answers their messages, and the two threads that    *)
(* broadcast, the Fritz thread ("Fritz", from handle_fritz_message) and    *)
(* the main thread ("Main", from cisrv_disconnect).  The client list is    *)
(* guarded by clist_lock; select, accept and the tail of an iteration of   *)
(* the listen thread run without it.                                       *)
(*                                                                         *)
(* A step is what a thread does between two points at which another thread *)
(* or a peer can interfere: a lock or an unlock, a call that may block, one *)
(* client of an iteration.  Blocking calls are steps without a successor   *)
(* while they block; the lock stays held meanwhile, as in the code.        *)
(***************************************************************************)
EXTENDS Naturals, Sequences, FiniteSets, SequencesExt

CONSTANTS
    Peers,      \* the programs at the other end; each connects once
    Fds,        \* the descriptors the process may have open for clients
    NoPeer,     \* conn[f] = NoPeer: descriptor f is closed
    NoSock,     \* newsock while the listen thread holds no new socket
    BadFd,      \* the -1 of a failed accept()
    Sayings,    \* the message kinds the peers send, of MessageKinds
    MaxEvents,  \* bound: broadcasts of the Fritz thread
    MaxBad,     \* bound: records with socket -1 in the list
    MaxUnread,  \* bound: messages a peer's socket buffers hold unread
    MaxSay      \* bound: messages a peer sends, of different kinds

ASSUME FdAssumption ==
    /\ NoPeer \notin Peers
    /\ NoSock \notin Fds
    /\ BadFd \notin Fds
    /\ BadFd # NoSock

\* A version 3 VERSION, LEAVE, any database request, a message whose header
\* arrived before its body, a message cut inside its header.
MessageKinds == {"version", "leave", "request", "truncated", "short"}

ASSUME BoundAssumption ==
    /\ Sayings \subseteq MessageKinds
    /\ MaxEvents \in Nat /\ MaxBad \in Nat \ {0}
    /\ MaxUnread \in Nat \ {0} /\ MaxSay \in Nat

VARIABLES
    state,      \* _cisrv_server.state
    clients,    \* _cisrv_server.clientlist
    lock,       \* the holder of clist_lock
    pipe,       \* fdpipe has input
    listening,  \* the listen socket is bound, listening and not closed
    pc,         \* where each thread is
    pos,        \* the list position of each thread's iteration
    fdSet,      \* fdSet of the listen thread: requested, then ready
    newsock,    \* newsock of the listen thread
    script,     \* broadcasts left in this call of handle_fritz_message
    log,        \* the kinds of all broadcasts so far, in order
    alive,      \* FALSE once SIGPIPE has killed the process
    conn,       \* the peer each open descriptor belongs to
    backlog,    \* peers waiting to be accepted
    tcp,        \* state of each peer's connection, seen from the server
    said,       \* the message kinds each peer has sent
    c2s,        \* sent by the peer, not yet received
    unread,     \* number of messages sent to the peer it has not read
    got,        \* the broadcasts (positions in log) sent to the peer
    due         \* the broadcasts the peer was listed for (history)

srvVars  == <<state, clients, lock, pipe, listening>>
thrVars  == <<pc, pos, fdSet, newsock, script>>
netVars  == <<conn, backlog, tcp, said, c2s, unread>>
histVars == <<log, got, due>>
vars     == <<srvVars, thrVars, netVars, histVars, alive>>

Threads  == {"Srv", "Fritz", "Main"}
NoThread == "none"
Labels   == {"off", "start", "bind", "bindwait", "build", "select", "wait", "accept",
             "add", "hlock", "handle", "pipe", "run", "idle", "join",
             "bcast", "send", "rlock", "rem", "rwait", "unlink", "close", "done"}
\* The labels at which a thread holds clist_lock.
Critical == {"handle", "send", "rem", "rwait", "unlink"}

Listen == "listen"
Pipe   == "pipe"

Client  == [sock : Fds \cup {BadFd}, peer : Peers \cup {NoPeer},
            remove : BOOLEAN, v3 : BOOLEAN]
Kinds   == {"Message", "Update", "Complete", "Call", "Disconnect"}
TcpStates == {"idle", "up", "fin", "reset", "epipe"}

Init ==
    /\ state = "Initialized" /\ clients = <<>> /\ lock = NoThread
    /\ pipe = FALSE /\ listening = FALSE
    /\ pc = [t \in Threads |-> IF t = "Main" THEN "start" ELSE "off"]
    /\ pos = [t \in Threads |-> 1]
    /\ fdSet = {} /\ newsock = NoSock /\ script = <<>>
    /\ log = <<>> /\ alive = TRUE
    /\ conn = [f \in Fds |-> NoPeer] /\ backlog = {}
    /\ tcp = [p \in Peers |-> "idle"] /\ said = [p \in Peers |-> {}]
    /\ c2s = [p \in Peers |-> <<>>] /\ unread = [p \in Peers |-> 0]
    /\ got = [p \in Peers |-> <<>>] /\ due = [p \in Peers |-> <<>>]

-----------------------------------------------------------------------------
(* Sockets, from how ci-server.c uses them.                                *)

PeerOf(s) == IF s \in Fds THEN conn[s] ELSE NoPeer

\* select() reports s ready for reading.
Readable(s) == \/ s = Listen /\ backlog # {}
               \/ s = Pipe /\ pipe
               \/ /\ PeerOf(s) # NoPeer
                  /\ c2s[conn[s]] # <<>> \/ tcp[conn[s]] # "up"

\* send() to an established connection: blocks while the buffers are full.
SendDelivers(p) == /\ tcp[p] = "up" /\ unread[p] < MaxUnread
                   /\ unread' = [unread EXCEPT ![p] = @ + 1]
                   /\ UNCHANGED <<tcp, alive>>
\* The peer has closed: the data is accepted and lost, a reset may come back.
SendIsLost(p) == /\ tcp[p] = "fin"
                 /\ \E s \in {"fin", "epipe"} : tcp' = [tcp EXCEPT ![p] = s]
                 /\ UNCHANGED <<unread, alive>>
\* A pending reset is reported once, as ECONNRESET.
SendFails(p) == /\ tcp[p] = "reset" /\ tcp' = [tcp EXCEPT ![p] = "epipe"]
                /\ UNCHANGED <<unread, alive>>
\* EPIPE raises SIGPIPE, which the program neither handles nor ignores.
SendKills(p) == /\ tcp[p] = "epipe" /\ alive' = FALSE
                /\ UNCHANGED <<tcp, unread>>

-----------------------------------------------------------------------------
(* clist_lock and the list.                                                *)

Goto(t, label) == pc' = [pc EXCEPT ![t] = label]
Lock(t, label) == /\ lock = NoThread /\ lock' = t
                  /\ pos' = [pos EXCEPT ![t] = 1] /\ Goto(t, label)
\* Fault: the iteration state is left at zero.
UnlockToZero(t, label) == /\ lock' = NoThread
                          /\ pos' = [pos EXCEPT ![t] = 0] /\ Goto(t, label)

Unlock(t, label) == /\ lock' = NoThread
                    /\ pos' = [pos EXCEPT ![t] = 1] /\ Goto(t, label)
Advance(t) == pos' = [pos EXCEPT ![t] = @ + 1]

AtEnd(t) == pos[t] > Len(clients)
Cur(t)   == clients[pos[t]]
Mark(i)  == clients' = [clients EXCEPT ![i] = [clients[i] EXCEPT !.remove = TRUE]]

-----------------------------------------------------------------------------
(* _cisrv_remove_marked_clients, run by all three threads, and             *)
(* _cisrv_close_all_clients, run by Main once state is Initialized again.  *)

ClosingAll(t) == t = "Main" /\ state = "Initialized"
Doomed(t) == Cur(t).remove \/ ClosingAll(t)

\* Fault: the list is walked without taking clist_lock.
RemoveUnlocked(t) ==
    /\ pc[t] = "rlock" /\ lock' = t
    /\ pos' = [pos EXCEPT ![t] = 1] /\ Goto(t, "rem")
    /\ UNCHANGED <<state, clients, pipe, listening, fdSet, newsock, script,
                   netVars, histVars, alive>>

RemoveLock(t) ==
    /\ pc[t] = "rlock" /\ Lock(t, "rem")
    /\ UNCHANGED <<state, clients, pipe, listening, fdSet, newsock, script,
                   netVars, histVars, alive>>

RemoveSkip(t) ==
    /\ pc[t] = "rem" /\ ~AtEnd(t) /\ ~Doomed(t) /\ Advance(t)
    /\ UNCHANGED <<srvVars, pc, fdSet, newsock, script, netVars, histVars, alive>>

\* close(): what was buffered either way is gone with the descriptor.
CloseSock(f) ==
    IF PeerOf(f) = NoPeer THEN UNCHANGED <<conn, c2s, unread>>
    ELSE /\ conn' = [conn EXCEPT ![f] = NoPeer]
         /\ c2s' = [c2s EXCEPT ![conn[f]] = <<>>]
         /\ unread' = [unread EXCEPT ![conn[f]] = 0]

\* _cisrv_shutdown_sock: shutdown(SHUT_WR) succeeds on a live connection and
\* the thread goes on to recv() until the peer closes; it fails on -1, on a
\* closed descriptor and on a reset connection, which are closed at once.
ShutdownSock(t) ==
    /\ pc[t] = "rem" /\ ~AtEnd(t) /\ Doomed(t)
    /\ LET p == PeerOf(Cur(t).sock) IN
       IF p # NoPeer /\ tcp[p] \in {"up", "fin"}
       THEN Goto(t, "rwait") /\ UNCHANGED <<conn, c2s, unread>>
       ELSE Goto(t, "unlink") /\ CloseSock(Cur(t).sock)
    /\ UNCHANGED <<srvVars, pos, fdSet, newsock, script, backlog, tcp, said,
                   histVars, alive>>

\* Fault: the socket is drained but not closed.
DrainOnly(t) ==
    /\ pc[t] = "rwait"
    /\ LET p == PeerOf(Cur(t).sock) IN p # NoPeer => tcp[p] # "up"
    /\ Goto(t, "unlink")
    /\ UNCHANGED <<srvVars, pos, fdSet, newsock, script, netVars, histVars, alive>>

DrainAndClose(t) ==
    /\ pc[t] = "rwait"
    /\ LET p == PeerOf(Cur(t).sock) IN p # NoPeer => tcp[p] # "up"
    /\ CloseSock(Cur(t).sock) /\ Goto(t, "unlink")
    /\ UNCHANGED <<srvVars, pos, fdSet, newsock, script, backlog, tcp, said,
                   histVars, alive>>

\* Fault: always the head of the list is unlinked.
UnlinkHead(t) ==
    /\ pc[t] = "unlink" /\ Goto(t, "rem")
    /\ clients' = Tail(clients)
    /\ UNCHANGED <<state, lock, pipe, listening, pos, fdSet, newsock, script,
                   netVars, histVars, alive>>

\* Fault: the record stays in the list, unmarked.
UnlinkForgotten(t) ==
    /\ pc[t] = "unlink" /\ Goto(t, "rem") /\ Advance(t)
    /\ clients' = [clients EXCEPT ![pos[t]].remove = FALSE]
    /\ UNCHANGED <<state, lock, pipe, listening, fdSet, newsock, script,
                   netVars, histVars, alive>>

Unlink(t) ==
    /\ pc[t] = "unlink" /\ Goto(t, "rem")
    /\ clients' = RemoveAt(clients, pos[t])
    /\ UNCHANGED <<state, lock, pipe, listening, pos, fdSet, newsock, script,
                   netVars, histVars, alive>>

\* Where the caller goes on: the listen thread to its look at the pipe, the
\* Fritz thread to its next broadcast, Main to closing all clients and, when
\* that was done, to closing the listen socket.
AfterRemove(t) == CASE t = "Srv" -> "pipe"
                    [] t = "Fritz" -> "idle"
                    [] ClosingAll(t) -> "close"
                    [] OTHER -> "rlock"

RemoveUnlock(t) ==
    /\ pc[t] = "rem" /\ AtEnd(t) /\ Unlock(t, AfterRemove(t))
    /\ state' = IF t = "Main" THEN "Initialized" ELSE state
    /\ UNCHANGED <<clients, pipe, listening, fdSet, newsock, script,
                   netVars, histVars, alive>>

-----------------------------------------------------------------------------
(* cisrv_broadcast_message.                                                *)

\* Clients below version 3.0.0 get no Call event.
Wants(c, kind) == c.v3 \/ kind # "Call"
Listed(p, kind) ==
    \E i \in 1..Len(clients) : clients[i].peer = p /\ Wants(clients[i], kind)

BroadcastLock(t, kind) ==
    /\ Lock(t, "send")
    /\ log' = Append(log, kind)
    /\ due' = [p \in Peers |-> IF Listed(p, kind)
                               THEN Append(due[p], Len(log) + 1) ELSE due[p]]
    /\ UNCHANGED <<clients, pipe, listening, fdSet, newsock, netVars, got, alive>>

\* Fault: older clients are passed over whatever the event.
BroadcastSkipOld(t) ==
    /\ pc[t] = "send" /\ ~AtEnd(t) /\ ~Cur(t).v3 /\ Advance(t)
    /\ UNCHANGED <<srvVars, pc, fdSet, newsock, script, netVars, histVars, alive>>

BroadcastSkip(t) ==
    /\ pc[t] = "send" /\ ~AtEnd(t) /\ ~Wants(Cur(t), log[Len(log)]) /\ Advance(t)
    /\ UNCHANGED <<srvVars, pc, fdSet, newsock, script, netVars, histVars, alive>>

\* A failed send() marks a version 3 client.  For an older one the result, -1,
\* is compared with sizeof(CINetMessage) as an unsigned number: no mark.
MarkFailed(t) == IF Cur(t).v3 THEN Mark(pos[t]) ELSE UNCHANGED clients

BroadcastSend(t) ==
    /\ pc[t] = "send" /\ ~AtEnd(t) /\ Wants(Cur(t), log[Len(log)])
    /\ LET p == PeerOf(Cur(t).sock) IN
       \/ /\ p # NoPeer /\ SendDelivers(p) /\ Advance(t)
          /\ got' = [got EXCEPT ![p] = Append(@, Len(log))]
          /\ UNCHANGED clients
       \/ p # NoPeer /\ SendIsLost(p) /\ Advance(t) /\ UNCHANGED <<clients, got>>
       \/ p # NoPeer /\ SendFails(p) /\ Advance(t) /\ MarkFailed(t) /\ UNCHANGED got
       \/ p # NoPeer /\ SendKills(p) /\ UNCHANGED <<pos, clients, got>>
       \/ /\ p = NoPeer /\ Advance(t) /\ MarkFailed(t)
          /\ UNCHANGED <<got, tcp, unread, alive>>
    /\ UNCHANGED <<state, lock, pipe, listening, pc, fdSet, newsock, script,
                   conn, backlog, said, c2s, log, due>>

\* Fault: the lock is still held when the marked clients are to be removed.
BroadcastKeepsLock(t) ==
    /\ pc[t] = "send" /\ AtEnd(t) /\ Goto(t, "rlock")
    /\ UNCHANGED <<srvVars, pos, fdSet, newsock, script, netVars, histVars, alive>>

BroadcastUnlock(t) ==
    /\ pc[t] = "send" /\ AtEnd(t) /\ Unlock(t, "rlock")
    /\ UNCHANGED <<state, clients, pipe, listening, fdSet, newsock, script,
                   netVars, histVars, alive>>

RemoveOrSend(t) ==
    \/ RemoveLock(t) \/ RemoveSkip(t) \/ ShutdownSock(t) \/ DrainAndClose(t)
    \/ Unlink(t) \/ RemoveUnlock(t)
    \/ BroadcastSkip(t) \/ BroadcastSend(t) \/ BroadcastUnlock(t)

-----------------------------------------------------------------------------
(* _cisrv_listen_thread_proc.                                              *)

\* wait_for_bind and listen(): bound and listening, a hard error, or the
\* address is in use.
Bind ==
    /\ pc["Srv"] = "bind"
    /\ \/ Goto("Srv", "build") /\ listening' = TRUE
       \/ Goto("Srv", "done") /\ UNCHANGED listening
       \/ Goto("Srv", "bindwait") /\ UNCHANGED listening
    /\ UNCHANGED <<state, clients, lock, pipe, pos, fdSet, newsock, script,
                   netVars, histVars, alive>>

\* Ten seconds on the control pipe: input ends the thread, a timeout retries.
\* Fault: the control pipe is not looked at.
BindWaitDeaf ==
    /\ pc["Srv"] = "bindwait" /\ Goto("Srv", "bind")
    /\ UNCHANGED <<srvVars, pos, fdSet, newsock, script, netVars, histVars, alive>>

BindWait ==
    /\ pc["Srv"] = "bindwait"
    /\ Goto("Srv", IF pipe THEN "done" ELSE "bind")
    /\ UNCHANGED <<srvVars, pos, fdSet, newsock, script, netVars, histVars, alive>>

\* FD_SET(-1) is undefined; built as the Makefile does, it sets a high bit.
BuildFdSet ==
    /\ pc["Srv"] = "build" /\ lock = NoThread /\ Goto("Srv", "select")
    /\ fdSet' = {Listen, Pipe} \cup {clients[i].sock : i \in 1..Len(clients)}
    /\ UNCHANGED <<srvVars, pos, newsock, script, netVars, histVars, alive>>

IsOpen(s) == s \in {Listen, Pipe} \/ PeerOf(s) # NoPeer

\* Entering select(): a descriptor that is not open fails it with EBADF, and
\* that ends the thread.  The bit of -1 may be beyond those select() looks at,
\* or that of an open descriptor.
SelectEnter ==
    /\ pc["Srv"] = "select"
    /\ \/ (\A s \in fdSet \ {BadFd} : IsOpen(s)) /\ Goto("Srv", "wait")
       \/ (\E s \in fdSet : ~IsOpen(s)) /\ Goto("Srv", "done")
    /\ UNCHANGED <<srvVars, pos, fdSet, newsock, script, netVars, histVars, alive>>

\* select() returns: what is readable, and perhaps what was closed meanwhile.
SelectReturn ==
    /\ pc["Srv"] = "wait" /\ Goto("Srv", "accept")
    /\ \E closed \in SUBSET {s \in fdSet : ~IsOpen(s)} :
          fdSet' = {s \in fdSet : Readable(s)} \cup closed
    /\ fdSet' # {}
    /\ UNCHANGED <<srvVars, pos, newsock, script, netVars, histVars, alive>>

\* accept(): any free descriptor, other threads open and close theirs; -1 when
\* there is none left, with the connection still in the backlog.
Accept ==
    /\ pc["Srv"] = "accept"
    /\ IF Listen \notin fdSet THEN Goto("Srv", "hlock") /\ UNCHANGED <<conn, backlog, newsock>>
       ELSE /\ Goto("Srv", "add")
            /\ \/ \E f \in Fds, p \in backlog :
                     /\ conn[f] = NoPeer
                     /\ conn' = [conn EXCEPT ![f] = p]
                     /\ backlog' = backlog \ {p} /\ newsock' = f
               \/ /\ \A f \in Fds : conn[f] # NoPeer
                  /\ newsock' = BadFd /\ UNCHANGED <<conn, backlog>>
    /\ UNCHANGED <<srvVars, pos, fdSet, script, tcp, said, c2s, unread,
                   histVars, alive>>

BadRecords == {i \in 1..Len(clients) : clients[i].sock = BadFd}

\* _cisrv_add_client: a version 2.0.0 client until it says otherwise.  While
\* accept() keeps failing the list grows by a record per iteration; beyond
\* MaxBad of them one more makes no difference and is left out.
AddClient ==
    /\ pc["Srv"] = "add" /\ lock = NoThread /\ Goto("Srv", "hlock")
    /\ clients' = IF newsock = BadFd /\ Cardinality(BadRecords) >= MaxBad THEN clients
                  ELSE Append(clients, [sock |-> newsock, peer |-> PeerOf(newsock),
                                        remove |-> FALSE, v3 |-> FALSE])
    /\ newsock' = NoSock
    /\ UNCHANGED <<state, lock, pipe, listening, pos, fdSet, script, netVars,
                   histVars, alive>>

HandleLock ==
    /\ pc["Srv"] = "hlock" /\ Lock("Srv", "handle")
    /\ UNCHANGED <<state, clients, pipe, listening, fdSet, newsock, script,
                   netVars, histVars, alive>>

HandleSkip ==
    /\ pc["Srv"] = "handle" /\ ~AtEnd("Srv") /\ Cur("Srv").sock \notin fdSet
    /\ Advance("Srv")
    /\ UNCHANGED <<srvVars, pc, fdSet, newsock, script, netVars, histVars, alive>>

\* Fault: a hang-up is noticed but the client not marked.
HandleHangupIgnored(p) ==
    /\ c2s[p] = <<>> /\ tcp[p] # "up"
    /\ UNCHANGED <<clients, c2s, tcp, unread, alive>>

\* _cisrv_handle_client_message up to the dispatch: recv() of the header
\* blocks on a live connection without data.  Nothing to read any more, an
\* error, or a body that has not arrived mark the client for removal.
HandleHangup(p) ==
    /\ c2s[p] = <<>> /\ tcp[p] # "up"
    /\ tcp' = [tcp EXCEPT ![p] = IF @ = "reset" THEN "epipe" ELSE @]
    /\ Mark(pos["Srv"]) /\ UNCHANGED <<c2s, unread, alive>>
\* A record with the -1 of a failed accept().
HandleBad == Mark(pos["Srv"]) /\ UNCHANGED <<c2s, tcp, unread, alive>>
HandleTruncated(p) ==
    /\ c2s[p] # <<>> /\ Head(c2s[p]) = "truncated"
    /\ c2s' = [c2s EXCEPT ![p] = <<>>]
    /\ Mark(pos["Srv"]) /\ UNCHANGED <<tcp, unread, alive>>
\* A short header: everything that has arrived is read and dropped.
HandleShort(p) ==
    /\ c2s[p] # <<>> /\ Head(c2s[p]) = "short"
    /\ c2s' = [c2s EXCEPT ![p] = <<>>]
    /\ UNCHANGED <<clients, tcp, unread, alive>>
\* Fault: the VERSION case falls through to the LEAVE case.
HandleFallsThrough(p) ==
    /\ c2s[p] # <<>> /\ Head(c2s[p]) \in {"version", "leave", "request"}
    /\ c2s' = [c2s EXCEPT ![p] = Tail(@)]
    /\ LET c == Cur("Srv") IN
       clients' = [clients EXCEPT ![pos["Srv"]] =
                     [c EXCEPT !.v3 = c.v3 \/ Head(c2s[p]) = "version",
                               !.remove = c.remove \/ Head(c2s[p]) # "request"]]
    /\ SendDelivers(p) \/ SendIsLost(p) \/ SendFails(p) \/ SendKills(p)

\* VERSION sets the version, LEAVE the mark; they and the database requests
\* are answered on the spot.  The result of that send is ignored.
HandleMessage(p) ==
    /\ c2s[p] # <<>> /\ Head(c2s[p]) \in {"version", "leave", "request"}
    /\ c2s' = [c2s EXCEPT ![p] = Tail(@)]
    /\ LET c == Cur("Srv") IN
       clients' = [clients EXCEPT ![pos["Srv"]] =
                     [c EXCEPT !.v3 = c.v3 \/ Head(c2s[p]) = "version",
                               !.remove = c.remove \/ Head(c2s[p]) = "leave"]]
    /\ SendDelivers(p) \/ SendIsLost(p) \/ SendFails(p) \/ SendKills(p)

HandleClient ==
    /\ pc["Srv"] = "handle" /\ ~AtEnd("Srv") /\ Cur("Srv").sock \in fdSet
    /\ Advance("Srv")
    /\ LET p == PeerOf(Cur("Srv").sock) IN
       \/ p = NoPeer /\ HandleBad
       \/ /\ p # NoPeer
          /\ HandleHangup(p) \/ HandleTruncated(p) \/ HandleShort(p) \/ HandleMessage(p)
    /\ UNCHANGED <<state, lock, pipe, listening, pc, fdSet, newsock, script,
                   conn, backlog, said, histVars>>

\* Fault: clist_lock is not released after the messages.
HandleKeepsLock ==
    /\ pc["Srv"] = "handle" /\ AtEnd("Srv") /\ Goto("Srv", "rlock")
    /\ UNCHANGED <<srvVars, pos, fdSet, newsock, script, netVars, histVars, alive>>

HandleUnlock ==
    /\ pc["Srv"] = "handle" /\ AtEnd("Srv") /\ Unlock("Srv", "rlock")
    /\ UNCHANGED <<state, clients, pipe, listening, fdSet, newsock, script,
                   netVars, histVars, alive>>

CheckPipe ==
    /\ pc["Srv"] = "pipe" /\ fdSet' = {}
    /\ Goto("Srv", IF Pipe \in fdSet THEN "done" ELSE "build")
    /\ UNCHANGED <<srvVars, pos, newsock, script, netVars, histVars, alive>>

Srv == /\ alive
       /\ \/ Bind \/ BindWait \/ BuildFdSet \/ SelectEnter \/ SelectReturn
          \/ Accept \/ AddClient \/ HandleLock \/ HandleSkip \/ HandleClient
          \/ HandleUnlock \/ CheckPipe \/ RemoveOrSend("Srv")

-----------------------------------------------------------------------------
(* The broadcasting threads.                                               *)

\* What handle_fritz_message broadcasts: for a RING the Message, the Update if
\* the lookup found the caller, and Complete; for a CALL the Call.
Scripts == {<<"Message", "Update", "Complete">>, <<"Message", "Complete">>,
            <<"Call">>}

FritzMessage ==
    /\ alive /\ pc["Fritz"] = "idle" /\ script = <<>>
    /\ \E s \in Scripts : Len(log) + Len(s) <= MaxEvents /\ script' = s
    /\ UNCHANGED <<srvVars, pc, pos, fdSet, newsock, netVars, histVars, alive>>

FritzBroadcast ==
    /\ pc["Fritz"] = "idle" /\ script # <<>>
    /\ BroadcastLock("Fritz", Head(script)) /\ script' = Tail(script)
    /\ UNCHANGED state

Fritz == alive /\ (FritzBroadcast \/ RemoveOrSend("Fritz"))

\* cisrv_run, and fritz_startup with its thread; a pipe() that fails leaves
\* the state, and main goes to _shutdown at once.
CisrvRun ==
    /\ pc["Main"] = "start"
    /\ \/ /\ pc' = [pc EXCEPT !["Srv"] = "bind", !["Fritz"] = "idle", !["Main"] = "run"]
          /\ state' = "Running"
       \/ Goto("Main", "rlock") /\ UNCHANGED state
    /\ UNCHANGED <<clients, lock, pipe, listening, pos, fdSet, newsock, script,
                   netVars, histVars, alive>>

\* _shutdown joins the Fritz thread, which ends between two callbacks, and
\* cisrv_disconnect writes the pipe.
Shutdown ==
    /\ alive /\ pc["Main"] = "run" /\ pc["Fritz"] = "idle" /\ script = <<>>
    /\ pc' = [pc EXCEPT !["Fritz"] = "done", !["Main"] = "join"]
    /\ pipe' = TRUE
    /\ UNCHANGED <<state, clients, lock, listening, pos, fdSet, newsock, script,
                   netVars, histVars, alive>>

JoinSrv ==
    /\ pc["Main"] = "join" /\ pc["Srv"] = "done" /\ Goto("Main", "bcast")
    /\ pipe' = FALSE /\ state' = "Connected"
    /\ UNCHANGED <<clients, lock, listening, pos, fdSet, newsock, script,
                   netVars, histVars, alive>>

BroadcastDisconnect ==
    /\ pc["Main"] = "bcast" /\ BroadcastLock("Main", "Disconnect")
    /\ UNCHANGED <<state, script>>

\* Closing the listen socket resets the connections nobody accepted.
CloseListenSock ==
    /\ pc["Main"] = "close" /\ Goto("Main", "done")
    /\ listening' = FALSE /\ backlog' = {}
    /\ tcp' = [p \in Peers |-> IF p \in backlog THEN "reset" ELSE tcp[p]]
    /\ UNCHANGED <<state, clients, lock, pipe, pos, fdSet, newsock, script,
                   conn, said, c2s, unread, histVars, alive>>

Main == /\ alive
        /\ \/ CisrvRun \/ JoinSrv \/ BroadcastDisconnect \/ CloseListenSock
           \/ RemoveOrSend("Main")

-----------------------------------------------------------------------------
(* The peers.                                                              *)

Connected(p) == tcp[p] = "up" /\ (p \in backlog \/ \E f \in Fds : conn[f] = p)

PeerConnect(p) ==
    /\ alive /\ listening /\ tcp[p] = "idle"
    /\ tcp' = [tcp EXCEPT ![p] = "up"] /\ backlog' = backlog \cup {p}
    /\ UNCHANGED <<srvVars, thrVars, conn, said, c2s, unread, histVars, alive>>

\* Each kind once per peer.
PeerSay(p, m) ==
    /\ alive /\ Connected(p) /\ m \notin said[p] /\ Cardinality(said[p]) < MaxSay
    /\ said' = [said EXCEPT ![p] = @ \cup {m}]
    /\ c2s' = [c2s EXCEPT ![p] = Append(@, m)]
    /\ UNCHANGED <<srvVars, thrVars, conn, backlog, tcp, unread, histVars, alive>>

PeerRead(p) ==
    /\ alive /\ unread[p] > 0 /\ tcp[p] = "up"
    /\ unread' = [unread EXCEPT ![p] = 0]
    /\ UNCHANGED <<srvVars, thrVars, conn, backlog, tcp, said, c2s, histVars, alive>>

\* Closing with unread data resets the connection, otherwise it sends a FIN.
PeerClose(p) ==
    /\ alive /\ Connected(p)
    /\ tcp' = [tcp EXCEPT ![p] = IF unread[p] > 0 THEN "reset" ELSE "fin"]
    /\ UNCHANGED <<srvVars, thrVars, conn, backlog, said, c2s, unread, histVars, alive>>

Peer(p) == \/ PeerConnect(p) \/ PeerRead(p) \/ PeerClose(p)
           \/ \E m \in Sayings : PeerSay(p, m)

Next == Srv \/ Fritz \/ FritzMessage \/ Main \/ Shutdown \/ \E p \in Peers : Peer(p)

Spec == Init /\ [][Next]_vars

-----------------------------------------------------------------------------
(* Properties.                                                             *)

\* Type correctness of every variable of _cisrv_server, of the threads and of
\* the connections.
TypeOK ==
    /\ state \in {"Initialized", "Connected", "Running"}
    /\ clients \in Seq(Client) /\ lock \in Threads \cup {NoThread}
    /\ pipe \in BOOLEAN /\ listening \in BOOLEAN
    /\ pc \in [Threads -> Labels] /\ pos \in [Threads -> Nat \ {0}]
    /\ fdSet \subseteq Fds \cup {BadFd, Listen, Pipe}
    /\ newsock \in Fds \cup {BadFd, NoSock}
    /\ script \in Seq(Kinds) /\ log \in Seq(Kinds) /\ alive \in BOOLEAN
    /\ conn \in [Fds -> Peers \cup {NoPeer}] /\ backlog \subseteq Peers
    /\ tcp \in [Peers -> TcpStates] /\ said \in [Peers -> SUBSET MessageKinds]
    /\ c2s \in [Peers -> Seq(MessageKinds)] /\ unread \in [Peers -> Nat]
    /\ got \in [Peers -> Seq(Nat)] /\ due \in [Peers -> Seq(Nat)]

\* clist_lock is held exactly by the thread that is between its g_mutex_lock
\* and its g_mutex_unlock, so that no two threads walk the list at once.
LockHeld == \A t \in Threads : pc[t] \in Critical <=> lock = t

\* The record whose descriptor is closed but which is not yet out of the list.
Closing(i) == \E t \in Threads : pc[t] = "unlink" /\ pos[t] = i

\* A descriptor in the list belongs to the client it was accepted for, even
\* though close() and accept() hand the same number out again: no client is
\* sent another one's data, and no record is left with a closed descriptor.
OwnSocket ==
    \A i \in 1..Len(clients) :
        ~Closing(i) => PeerOf(clients[i].sock) = clients[i].peer

\* No two records in the list stand for the same descriptor.
DistinctSockets ==
    \A i, j \in 1..Len(clients) :
        /\ i # j /\ ~Closing(i) /\ ~Closing(j) /\ clients[i].peer # NoPeer
        => clients[i].sock # clients[j].sock

\* Every open descriptor is in the list or on its way there: none leaks, also
\* not through a shutdown, after which all are closed.
NoLeak ==
    /\ \A f \in Fds : conn[f] # NoPeer =>
          newsock = f \/ \E i \in 1..Len(clients) : clients[i].sock = f
    /\ pc["Main"] = "done" => clients = <<>> /\ \A f \in Fds : conn[f] = NoPeer

\* What has been sent to a peer is what it was listed for, each event once, in
\* the order of the broadcasts and without a gap; what is missing is a tail.
EventsInOrder == \A p \in Peers : IsPrefix(got[p], due[p])

\* Between broadcasts, a client that is connected and not marked has received
\* every event it was listed for.
Delivered ==
    alive /\ lock = NoThread =>
        \A i \in 1..Len(clients) :
            LET c == clients[i] IN
            ~c.remove /\ c.peer # NoPeer /\ tcp[c.peer] = "up" => got[c.peer] = due[c.peer]

\* Only a client that closed its connection, said LEAVE or sent a message
\* without its body is ever marked for removal.
MarkedForCause ==
    \A i \in 1..Len(clients) :
        LET c == clients[i] IN
        c.remove => \/ c.peer = NoPeer
                    \/ tcp[c.peer] # "up"
                    \/ said[c.peer] \cap {"leave", "truncated"} # {}

\* Once it listens, the daemon goes on serving clients until it is shut down.
ServesUntilShutdown ==
    alive /\ listening /\ pc["Main"] = "run" => pc["Srv"] # "done"

\* A client that goes away takes no more than its own connection with it.
SurvivesClients == alive

-----------------------------------------------------------------------------
(* What makes the ownership of descriptors inductive (CIServerProofs).     *)

\* Before cisrv_run there is no thread but Main.
NotYetRunning == pc["Main"] = "start" => pc["Srv"] = "off" /\ pc["Fritz"] = "off"

PosInRange ==
    \A t \in Threads : pc[t] \in {"rwait", "unlink"} => pos[t] \in 1..Len(clients)

\* A record without a descriptor is one without a peer, and a peer, which
\* connects once, is in the list once.
RecordsMakeSense ==
    \A i \in 1..Len(clients) :
        /\ clients[i].sock = BadFd <=> clients[i].peer = NoPeer
        /\ \A j \in 1..Len(clients) :
              i # j /\ clients[i].peer # NoPeer => clients[i].peer # clients[j].peer

OnePeerPerFd == \A f, g \in Fds : conn[f] = conn[g] /\ conn[f] # NoPeer => f = g

\* p has no descriptor and no record.
Unknown(p) == /\ \A f \in Fds : conn[f] # p
              /\ \A i \in 1..Len(clients) : clients[i].peer # p

NotYetAccepted ==
    \A p \in Peers : /\ tcp[p] = "idle" \/ p \in backlog => Unknown(p)
                     /\ p \in backlog => tcp[p] # "idle"

NewSockIsNew ==
    /\ pc["Srv"] = "add" <=> newsock # NoSock
    /\ newsock \in Fds => /\ conn[newsock] # NoPeer
                          /\ \A i \in 1..Len(clients) : clients[i].peer # conn[newsock]

Ownership == /\ OwnSocket /\ RecordsMakeSense /\ OnePeerPerFd
             /\ NotYetAccepted /\ NewSockIsNew

IInv == TypeOK /\ LockHeld /\ NotYetRunning /\ PosInRange /\ Ownership

-----------------------------------------------------------------------------
(* Liveness.                                                               *)

\* The scheduler runs every thread.  A broadcasting thread that finds the lock
\* free again and again gets it in the end: the listen thread, which spins
\* while accept() fails, leaves it free for most of each iteration.
ThreadFairness == WF_vars(Srv) /\ SF_vars(Fritz) /\ SF_vars(Main)

\* The peer is being waited for by _cisrv_shutdown_sock.
SeesEof(p) == \E t \in Threads : pc[t] = "rwait" /\ PeerOf(Cur(t).sock) = p

\* Clients read what they are sent, announce their version and close when the
\* server has closed its side.
PeerFairness ==
    \A p \in Peers : /\ WF_vars(PeerRead(p))
                     /\ WF_vars(PeerSay(p, "version"))
                     /\ WF_vars(SeesEof(p) /\ PeerClose(p))

ThreadSpec == Spec /\ ThreadFairness
FairSpec   == Spec /\ ThreadFairness /\ PeerFairness

\* The Fritz thread gets through every call it has begun to broadcast, unless
\* SIGPIPE ends the process.
CallFinishes == script # <<>> ~> (script = <<>> /\ pc["Fritz"] \in {"idle", "done"}) \/ ~alive

\* cisrv_disconnect returns.
ShutdownFinishes == pc["Main"] = "join" ~> pc["Main"] = "done" \/ ~alive

\* A client that said LEAVE, or hung up, gives its descriptor back.
Gone(p) == \/ tcp[p] # "up" /\ \E f \in Fds : conn[f] = p
           \/ "leave" \in said[p] /\ "short" \notin said[p] /\ \E f \in Fds : conn[f] = p
GoneIsReleased ==
    \A p \in Peers : Gone(p) ~> \/ \A f \in Fds : conn[f] # p
                                \/ pc["Srv"] = "done" \/ ~alive

=============================================================================
