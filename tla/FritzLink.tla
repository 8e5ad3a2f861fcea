----------------------------- MODULE FritzLink -----------------------------
(***************************************************************************)
(* The link to the Fritz!Box: fritz.c and the parts of netutils.c it uses. *)
(* "Fritz" is the listen thread, which selects on the socket, a control    *)
(* pipe and the netlink socket; "Main" runs fritz_startup, the reconnect   *)
(* timers of the main loop and fritz_shutdown.  Both threads connect and   *)
(* close the same socket, and set and clear flags of the same state word,  *)
(* without a lock: a change of the word is a load and a store, closing the *)
(* socket a close() and the assignment of -1.                              *)
(***************************************************************************)
EXTENDS Naturals, Sequences, FiniteSets, SequencesExt

CONSTANTS
    Socks,      \* the descriptors the process may open for the link
    NoFd,       \* the -1 of a closed sock
    MaxCalls,   \* bound: notifications the box sends
    MaxNet      \* bound: netlink events

ASSUME LinkAssumption == NoFd \notin Socks /\ MaxCalls \in Nat /\ MaxNet \in Nat

VARIABLES
    state,      \* _cifritz_server.state, as a set of flags
    sock,       \* _cifritz_server.sock
    assoc,      \* assoc_ifindex is the interface the box is reached by
    timers,     \* number of _fritz_try_reconnect sources of the main loop
    fdpipe,     \* what has been written to the pipe and not read
    netlink,    \* netlink events not yet received
    kern,       \* what each descriptor is
    inbox,      \* what the box has sent on it and has not been received
    pc, ctx,    \* where each thread is, and what it does it for
    word,       \* the state word a thread has loaded and not yet stored
    arg,        \* the descriptor a thread is calling connect() with
    fds,        \* rfds of the listen thread: requested, then ready
    cmsg,       \* the notification being handled
    sent,       \* number of notifications the box has sent
    partly,     \* where the box has sent the first of two segments
    events,     \* number of netlink events so far
    handled,    \* the notifications given to the callback (history)
    ever,       \* some connect() has succeeded (history)
    overlapped  \* both threads have been busy with the socket at once (history)

linkVars == <<state, sock, assoc, timers, fdpipe>>
kernVars == <<kern, inbox>>
thrVars  == <<pc, ctx, word, arg>>
boxVars  == <<sent, partly, netlink, events>>
callVars == <<cmsg, handled>>
vars == <<linkVars, kernVars, thrVars, boxVars, callVars, fds, ever, overlapped>>

Threads == {"Main", "Fritz"}
Flags   == {"Connected", "Listening"}
Pipe    == "pipe"
Netlink == "netlink"
Labels  == {"off", "try", "connect", "dial", "dialing", "connected", "failed", "create",
            "loop", "flag", "store", "close", "forget", "build", "select", "wait", "sock",
            "recv", "handle", "pipe", "net", "done", "join", "joined", "stopped"}
Contexts == {"startup", "timer", "netup", "listen", "lost", "down", "end", "shut",
             "cleanup"}
\* A notification arrives whole or in two segments.
Segment == [n : 1..MaxCalls, part : {"whole", "head", "tail"}]
NoCall  == [n |-> 0, part |-> "none"]

\* fritz_init; it leaves sock 0, which nothing reads before OpenSocket sets it.
Init ==
    /\ state = {} /\ sock = NoFd /\ assoc = FALSE /\ timers = 0 /\ fdpipe = <<>>
    /\ kern = [s \in Socks |-> "closed"] /\ inbox = [s \in Socks |-> <<>>]
    /\ pc = [Main |-> "try", Fritz |-> "off"] /\ ctx = [t \in Threads |-> "startup"]
    /\ word = [t \in Threads |-> {}] /\ arg = [t \in Threads |-> NoFd] /\ fds = {}
    /\ cmsg = NoCall /\ handled = <<>>
    /\ sent = 0 /\ partly = {} /\ netlink = <<>> /\ events = 0 /\ ever = FALSE
    /\ overlapped = FALSE

Goto(t, label) == pc' = [pc EXCEPT ![t] = label] /\ UNCHANGED ctx
GotoFor(t, label, c) == pc' = [pc EXCEPT ![t] = label] /\ ctx' = [ctx EXCEPT ![t] = c]
IsConnected == "Connected" \in state

\* A thread opens, connects or closes the socket, or changes the state word for it.
Busy(t) == pc[t] \in {"connect", "dial", "dialing", "flag", "store", "close", "forget"}
Noted   == overlapped' = (overlapped \/ \A t \in Threads : Busy(t)')

-----------------------------------------------------------------------------
(* The state word.  Initialized is set from fritz_init on.                 *)

Callers  == {"startup", "timer", "netup"}
Stopping == {"shut", "cleanup"}

\* What each assignment makes of the word, and where the thread goes on.
Flagged(flags, why) ==
    CASE why = "listen" -> flags \cup {"Listening"}
      [] why \in Callers -> flags \cup {"Connected"}
      [] why \in {"lost", "down"} \cup Stopping -> flags \ {"Connected"}
      [] why = "end" -> flags \ {"Listening"}
AfterFlag(why) == CASE why = "listen" -> "build" [] why \in Callers -> "connected"
                    [] why = "lost" -> "close"   [] why = "down" -> "net"
                    [] why \in Stopping -> "stopped" [] why = "end" -> "done"

LoadState(t) ==
    /\ pc[t] = "flag" /\ word' = [word EXCEPT ![t] = state] /\ Goto(t, "store")
    /\ UNCHANGED <<linkVars, kernVars, arg, boxVars, callVars, fds, ever>>

StoreState(t) ==
    /\ pc[t] = "store" /\ state' = Flagged(word[t], ctx[t])
    /\ word' = [word EXCEPT ![t] = {}] /\ Goto(t, AfterFlag(ctx[t]))
    /\ UNCHANGED <<sock, assoc, timers, fdpipe, kernVars, arg, boxVars, callVars, fds, ever>>

-----------------------------------------------------------------------------
(* netutil_close_fd(&_cifritz_server.sock).                                *)

AfterClose(why) == CASE why = "lost" -> "pipe" [] why \in Callers -> "failed"
                     [] OTHER -> "flag"

CloseFd(t) ==
    /\ pc[t] = "close"
    /\ IF sock = NoFd THEN Goto(t, AfterClose(ctx[t])) /\ UNCHANGED <<kernVars, partly>>
       ELSE /\ Goto(t, "forget")
            /\ kern' = [kern EXCEPT ![sock] = "closed"]
            /\ inbox' = [inbox EXCEPT ![sock] = <<>>] /\ partly' = partly \ {sock}
    /\ UNCHANGED <<linkVars, word, arg, sent, netlink, events, callVars, fds, ever>>

\* Fault: the descriptor is closed and not forgotten.
KeepFd(t) ==
    /\ pc[t] = "forget" /\ Goto(t, AfterClose(ctx[t]))
    /\ UNCHANGED <<linkVars, kernVars, word, arg, boxVars, callVars, fds, ever>>

ForgetFd(t) ==
    /\ pc[t] = "forget" /\ sock' = NoFd /\ Goto(t, AfterClose(ctx[t]))
    /\ UNCHANGED <<state, assoc, timers, fdpipe, kernVars, word, arg, boxVars, callVars,
                   fds, ever>>

-----------------------------------------------------------------------------
(* _fritz_try_connect and _fritz_connect, in Main at startup, in Main from a *)
(* timer, and in Fritz when an interface comes up.                         *)

Return(t) == Goto(t, CASE ctx[t] = "startup" -> "create" [] ctx[t] = "timer" -> "loop"
                       [] ctx[t] = "netup" -> "net")

TryConnect(t) ==
    /\ pc[t] = "try" /\ IF IsConnected THEN Return(t) ELSE Goto(t, "connect")
    /\ UNCHANGED <<linkVars, kernVars, word, arg, boxVars, callVars, fds, ever>>

\* socket(), when not connected already; sock is overwritten, whatever it is.
OpenSocket(t) ==
    /\ pc[t] = "connect"
    /\ \/ IsConnected /\ Goto(t, "connected") /\ UNCHANGED <<kern, sock>>
       \/ /\ ~IsConnected /\ Goto(t, "dial")
          /\ \E s \in Socks : /\ kern[s] = "closed" /\ sock' = s
                              /\ kern' = [kern EXCEPT ![s] = "new"]
       \/ /\ ~IsConnected /\ Goto(t, "failed")
          /\ \A s \in Socks : kern[s] # "closed"
          /\ sock' = NoFd /\ UNCHANGED kern
    /\ UNCHANGED <<state, assoc, timers, fdpipe, inbox, word, arg, boxVars, callVars,
                   fds, ever>>

\* connect() is called with what sock is by now, and may take long.
Dial(t) ==
    /\ pc[t] = "dial" /\ arg' = [arg EXCEPT ![t] = sock] /\ Goto(t, "dialing")
    /\ UNCHANGED <<linkVars, kernVars, word, boxVars, callVars, fds, ever>>

\* It succeeds on a fresh socket, also on one the other thread is connecting.
\* assoc_ifindex is found from what sock is afterwards.
DialSucceeds(t) ==
    /\ pc[t] = "dialing" /\ arg[t] # NoFd /\ kern[arg[t]] \in {"new", "up"}
    /\ kern' = [kern EXCEPT ![arg[t]] = "up"] /\ ever' = TRUE
    /\ assoc' = (assoc \/ (sock # NoFd /\ kern'[sock] = "up"))
    /\ arg' = [arg EXCEPT ![t] = NoFd] /\ Goto(t, "flag")
    /\ UNCHANGED <<state, sock, timers, fdpipe, inbox, word, boxVars, callVars, fds>>

DialFails(t) ==
    /\ pc[t] = "dialing" /\ arg' = [arg EXCEPT ![t] = NoFd] /\ Goto(t, "close")
    /\ UNCHANGED <<linkVars, kernVars, word, boxVars, callVars, fds, ever>>

\* Fault: the listen thread is not told of the new socket.
ConnectedQuietly(t) ==
    /\ pc[t] = "connected" /\ Return(t)
    /\ timers' = IF ctx[t] = "timer" THEN timers - 1 ELSE timers
    /\ UNCHANGED <<state, sock, assoc, fdpipe, kernVars, word, arg, boxVars, callVars, fds, ever>>

\* Fault: every caller ends a timer.
ConnectedEndsTimer(t) ==
    /\ pc[t] = "connected" /\ Return(t)
    /\ timers' = timers - 1
    /\ fdpipe' = IF ctx[t] = "timer" THEN Append(fdpipe, "add_sock") ELSE fdpipe
    /\ UNCHANGED <<state, sock, assoc, kernVars, word, arg, boxVars, callVars, fds, ever>>

\* A timer that has found or made a connection wakes the listen thread and ends.
Connected(t) ==
    /\ pc[t] = "connected" /\ Return(t)
    /\ IF ctx[t] = "timer"
       THEN timers' = timers - 1 /\ fdpipe' = Append(fdpipe, "add_sock")
       ELSE UNCHANGED <<timers, fdpipe>>
    /\ UNCHANGED <<state, sock, assoc, kernVars, word, arg, boxVars, callVars, fds, ever>>

\* Fault: the timer ends when the connection has failed.
GivesUp(t) ==
    /\ pc[t] = "failed" /\ Return(t)
    /\ timers' = IF ctx[t] = "timer" THEN timers - 1 ELSE timers + 1
    /\ UNCHANGED <<state, sock, assoc, fdpipe, kernVars, word, arg, boxVars, callVars, fds, ever>>

\* A timer that has failed stays; the other two callers start one.
Failed(t) ==
    /\ pc[t] = "failed" /\ Return(t)
    /\ timers' = IF ctx[t] = "timer" THEN timers ELSE timers + 1
    /\ UNCHANGED <<state, sock, assoc, fdpipe, kernVars, word, arg, boxVars, callVars, fds, ever>>

ConnectStep(t) ==
    \/ LoadState(t) \/ StoreState(t) \/ CloseFd(t) \/ ForgetFd(t) \/ TryConnect(t)
    \/ OpenSocket(t) \/ Dial(t) \/ DialFails(t) \/ Connected(t) \/ Failed(t)

-----------------------------------------------------------------------------
(* _fritz_listen_thread_proc.                                              *)

BuildFdSet ==
    /\ pc["Fritz"] = "build" /\ Goto("Fritz", "select")
    /\ fds' = {Pipe, Netlink} \cup ({sock} \ {NoFd})
    /\ UNCHANGED <<linkVars, kernVars, word, arg, boxVars, callVars, ever>>

\* A closed descriptor fails select() and ends the thread; Listening stays set.
SelectEnter ==
    /\ pc["Fritz"] = "select"
    /\ Goto("Fritz", IF \E s \in fds \cap Socks : kern[s] = "closed" THEN "done" ELSE "wait")
    /\ UNCHANGED <<linkVars, kernVars, word, arg, boxVars, callVars, fds, ever>>

Dialing(s) == \E t \in Threads : pc[t] = "dialing" /\ arg[t] = s

\* A socket that is not connected nor connecting counts as readable.
Ready(s) == \/ s = Pipe /\ fdpipe # <<>>
            \/ s = Netlink /\ netlink # <<>>
            \/ /\ s \in Socks
               /\ \/ inbox[s] # <<>> \/ kern[s] = "eof"
                  \/ kern[s] = "new" /\ ~Dialing(s)

\* What was closed by Main meanwhile may be reported as well.
SelectReturn ==
    /\ pc["Fritz"] = "wait" /\ Goto("Fritz", "sock")
    /\ \E closed \in SUBSET {s \in fds \cap Socks : kern[s] = "closed"} :
          fds' = {s \in fds : Ready(s)} \cup closed
    /\ fds' # {}
    /\ UNCHANGED <<linkVars, kernVars, word, arg, boxVars, callVars, ever>>

\* FD_ISSET of a sock that is -1 by now tests a bit that is never set.
TestSock ==
    /\ pc["Fritz"] = "sock" /\ Goto("Fritz", IF sock \in fds THEN "recv" ELSE "pipe")
    /\ UNCHANGED <<linkVars, kernVars, word, arg, boxVars, callVars, fds, ever>>

\* recv() returns all that has arrived and _fritz_parse_notification parses the
\* first notification in it; the others are dropped.  A first segment alone passes as a notification
\* if it reaches into the last field that is used; a second segment never does.
Parse(segments) ==
    LET first == Head(segments) IN
    CASE first.part = "whole" -> {first}
      [] first.part = "head" /\ Len(segments) > 1 -> {[first EXCEPT !.part = "whole"]}
      [] first.part = "head" -> {first, NoCall}
      [] OTHER -> {NoCall}

\* Fault: what has been received stays to be received again.
RecvPeeks ==
    /\ pc["Fritz"] = "recv" /\ sock # NoFd /\ inbox[sock] # <<>>
    /\ \E c \in Parse(inbox[sock]) :
          cmsg' = c /\ Goto("Fritz", IF c = NoCall THEN "pipe" ELSE "handle")
    /\ UNCHANGED <<linkVars, kernVars, word, arg, boxVars, handled, fds, ever>>

Recv ==
    /\ pc["Fritz"] = "recv" /\ sock # NoFd /\ inbox[sock] # <<>>
    /\ \E c \in Parse(inbox[sock]) :
          cmsg' = c /\ Goto("Fritz", IF c = NoCall THEN "pipe" ELSE "handle")
    /\ inbox' = [inbox EXCEPT ![sock] = <<>>]
    /\ UNCHANGED <<linkVars, kern, word, arg, boxVars, handled, fds, ever>>

\* recv() reports the end of the connection, or that there is none.
RecvFails ==
    /\ pc["Fritz"] = "recv"
    /\ \/ sock = NoFd
       \/ /\ sock # NoFd /\ inbox[sock] = <<>>
          /\ kern[sock] \in {"closed", "eof"} \/ (kern[sock] = "new" /\ ~Dialing(sock))
    /\ GotoFor("Fritz", "flag", "lost")
    /\ UNCHANGED <<linkVars, kernVars, word, arg, boxVars, callVars, fds, ever>>

\* The callback, handle_fritz_message: lookups, the database, broadcasts.
Handle ==
    /\ pc["Fritz"] = "handle" /\ Goto("Fritz", "pipe")
    /\ handled' = Append(handled, cmsg) /\ cmsg' = NoCall
    /\ UNCHANGED <<linkVars, kernVars, word, arg, boxVars, fds, ever>>

\* All that has been written is read at once; only what it begins with counts.
ReadPipe ==
    /\ pc["Fritz"] = "pipe"
    /\ IF Pipe \notin fds THEN Goto("Fritz", "net") /\ UNCHANGED fdpipe
       ELSE /\ fdpipe' = <<>>
            /\ IF Head(fdpipe) = "disconnect" THEN GotoFor("Fritz", "flag", "end")
               ELSE Goto("Fritz", "net")
    /\ UNCHANGED <<state, sock, assoc, timers, kernVars, word, arg, boxVars, callVars,
                   fds, ever>>

\* netutil_handle_netlink_message: one event after the other until there is
\* none; an interface up, the associated interface down, another one down.
NetMessage ==
    /\ pc["Fritz"] = "net" /\ Netlink \in fds /\ netlink # <<>>
    /\ netlink' = Tail(netlink)
    /\ CASE Head(netlink) = "up" -> GotoFor("Fritz", "try", "netup")
         [] Head(netlink) = "down" /\ assoc -> GotoFor("Fritz", "close", "down")
         [] OTHER -> Goto("Fritz", "net")
    /\ UNCHANGED <<linkVars, kernVars, word, arg, sent, partly, events, callVars, fds, ever>>

NetDone ==
    /\ pc["Fritz"] = "net" /\ (Netlink \in fds => netlink = <<>>)
    /\ fds' = {} /\ Goto("Fritz", "build")
    /\ UNCHANGED <<linkVars, kernVars, word, arg, boxVars, callVars, ever>>

Fritz == /\ \/ ConnectStep("Fritz") \/ DialSucceeds("Fritz")
            \/ BuildFdSet \/ SelectEnter \/ SelectReturn \/ TestSock
            \/ Recv \/ RecvFails \/ Handle \/ ReadPipe \/ NetMessage \/ NetDone
         /\ Noted

-----------------------------------------------------------------------------
(* Main.                                                                   *)

CreateThread ==
    /\ pc["Main"] = "create"
    /\ pc' = [pc EXCEPT !["Main"] = "loop", !["Fritz"] = "flag"]
    /\ ctx' = [ctx EXCEPT !["Fritz"] = "listen"]
    /\ UNCHANGED <<linkVars, kernVars, word, arg, boxVars, callVars, fds, ever>>

TimerFires ==
    /\ pc["Main"] = "loop" /\ timers > 0 /\ GotoFor("Main", "connect", "timer")
    /\ UNCHANGED <<linkVars, kernVars, word, arg, boxVars, callVars, fds, ever>>

\* fritz_shutdown, which fritz_cleanup calls again if a flag is still set: the
\* thread is stopped and joined if it says it listens.
Stop(why) ==
    /\ IF "Listening" \in state
       THEN GotoFor("Main", "join", why) /\ fdpipe' = Append(fdpipe, "disconnect")
       ELSE GotoFor("Main", "joined", why) /\ UNCHANGED fdpipe
    /\ UNCHANGED <<state, sock, assoc, timers, kernVars, word, arg, boxVars, callVars,
                   fds, ever>>

Shutdown == pc["Main"] = "loop" /\ Stop("shut")
Cleanup  == /\ pc["Main"] = "stopped" /\ ctx["Main"] = "shut" /\ state # {}
            /\ Stop("cleanup")

Join ==
    /\ pc["Main"] = "join" /\ pc["Fritz"] = "done"
    /\ Goto("Main", "joined") /\ state' = state \ {"Listening"}
    /\ UNCHANGED <<sock, assoc, timers, fdpipe, kernVars, word, arg, boxVars, callVars,
                   fds, ever>>

CloseLink ==
    /\ pc["Main"] = "joined"
    /\ IF IsConnected THEN Goto("Main", "close") ELSE Goto("Main", "stopped")
    /\ UNCHANGED <<linkVars, kernVars, word, arg, boxVars, callVars, fds, ever>>

Main == /\ ConnectStep("Main") \/ CreateThread \/ TimerFires \/ Join \/ CloseLink \/ Cleanup
        /\ Noted

-----------------------------------------------------------------------------
(* The Fritz!Box, which tells every connection of every call, and the      *)
(* network interfaces.                                                     *)

Up == {s \in Socks : kern[s] = "up"}
Deliver(to, segment) ==
    inbox' = [s \in Socks |-> IF s \in to THEN Append(inbox[s], segment) ELSE inbox[s]]

BoxSends ==
    /\ Up # {} /\ partly = {} /\ sent < MaxCalls /\ sent' = sent + 1
    /\ \/ Deliver(Up, [n |-> sent + 1, part |-> "whole"]) /\ UNCHANGED partly
       \/ Deliver(Up, [n |-> sent + 1, part |-> "head"]) /\ partly' = Up
    /\ UNCHANGED <<linkVars, kern, thrVars, netlink, events, callVars, fds, ever>>

BoxSendsRest ==
    /\ partly # {} /\ partly' = {}
    /\ Deliver(partly \cap Up, [n |-> sent, part |-> "tail"])
    /\ UNCHANGED <<linkVars, kern, thrVars, sent, netlink, events, callVars, fds, ever>>

BoxDrops(s) ==
    /\ kern[s] = "up" /\ kern' = [kern EXCEPT ![s] = "eof"]
    /\ UNCHANGED <<linkVars, inbox, thrVars, boxVars, callVars, fds, ever>>

NetEvent ==
    /\ events < MaxNet /\ events' = events + 1
    /\ \E e \in {"up", "down", "other"} : netlink' = Append(netlink, e)
    /\ UNCHANGED <<linkVars, kernVars, thrVars, sent, partly, callVars, fds, ever>>

Environment == BoxSends \/ BoxSendsRest \/ NetEvent \/ \E s \in Socks : BoxDrops(s)

Next == Fritz \/ Main \/ ((DialSucceeds("Main") \/ Shutdown \/ Environment) /\ Noted)

Spec == Init /\ [][Next]_vars

\* Both threads run: connect() and select() return when they can.
FairSpec == Spec /\ WF_vars(Fritz) /\ WF_vars(Main)

-----------------------------------------------------------------------------
(* Properties.                                                             *)

\* Type correctness of the state of fritz.c and of its two threads.
TypeOK ==
    /\ state \subseteq Flags /\ sock \in Socks \cup {NoFd} /\ assoc \in BOOLEAN
    /\ timers \in Nat /\ fdpipe \in Seq({"add_sock", "disconnect"})
    /\ netlink \in Seq({"up", "down", "other"}) /\ events \in 0..MaxNet
    /\ kern \in [Socks -> {"closed", "new", "up", "eof"}]
    /\ inbox \in [Socks -> Seq(Segment)] /\ partly \subseteq Socks
    /\ pc \in [Threads -> Labels] /\ ctx \in [Threads -> Contexts]
    /\ word \in [Threads -> SUBSET Flags] /\ arg \in [Threads -> Socks \cup {NoFd}]
    /\ fds \subseteq Socks \cup {Pipe, Netlink}
    /\ cmsg \in Segment \cup {NoCall} /\ handled \in Seq(Segment)
    /\ sent \in 0..MaxCalls /\ ever \in BOOLEAN

\* No notification is handled twice or after a later one, over all the
\* connections the link goes through.
HandledInOrder ==
    \A i, j \in 1..Len(handled) : i < j => handled[i].n < handled[j].n

\* The thread is not in _fritz_connect for one of its callers.
NotConnecting(t) ==
    \/ pc[t] \in {"off", "create", "loop", "net", "build", "select", "wait", "sock", "recv",
                 "handle", "pipe", "done"}
    \/ ctx[t] \notin Callers

\* Until the first connection there is always a timer left to try again: no
\* order of failures at startup, in timers and after link events loses it.
FirstConnectNotGivenUp ==
    /\ ~ever /\ pc["Fritz"] # "off"
    /\ \A t \in Threads : NotConnecting(t)
    => timers > 0

\* No lost wakeup: the listen thread does not sleep without the connected
\* socket in its set, unless the pipe is about to wake it.
WokenForSocket ==
    /\ pc["Fritz"] \in {"select", "wait"} /\ pc["Main"] = "loop"
    /\ IsConnected /\ sock # NoFd /\ sock \notin fds
    => fdpipe # <<>>

\* As long as the threads have not been busy with the socket at once, the link
\* has no descriptor but sock, and sock is open unless it is just being closed:
\* none is leaked and none closed twice.
SocketOwned ==
    ~overlapped => \A s \in Socks :
        kern[s] # "closed" <=> sock = s /\ \A t \in Threads : pc[t] # "forget"

\* A lost connection is tried again: while the listen thread waits and there is
\* no connection, a timer is left that makes one.
Reconnects ==
    /\ pc["Fritz"] = "wait" /\ NotConnecting("Main") /\ ctx["Main"] \notin Stopping
    /\ ctx["Fritz"] = "lost" /\ ~IsConnected
    => timers > 0

\* fritz_shutdown returns.
ShutdownReturns == ctx["Main"] = "shut" ~> pc["Main"] = "stopped"

=============================================================================
