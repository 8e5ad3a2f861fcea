--------------------------- MODULE FritzLinkProofs ---------------------------
(***************************************************************************)
(* Theorems about FritzLink, for any number of descriptors, notifications  *)
(* and netlink events: types, the order of the notifications, the timers   *)
(* before the first connection, the wakeup of the listen thread, and, as   *)
(* long as the threads keep apart, the ownership of the socket.            *)
(***************************************************************************)
EXTENDS FritzLink, TLAPS

Connecting == {"connect", "dial", "dialing", "connected", "failed"}
Changing   == {"flag", "store", "close", "forget"}

\* Where each thread can be, and for whom.
MainThere ==
    \/ ctx["Main"] = "startup" /\ pc["Main"] \in Connecting \cup Changing
                                                     \cup {"try", "create", "loop"}
    \/ ctx["Main"] = "timer" /\ pc["Main"] \in Connecting \cup Changing \cup {"loop"}
    \/ ctx["Main"] \in Stopping /\ pc["Main"] \in Changing \cup {"join", "joined", "stopped"}

Listening == {"build", "select", "wait", "sock", "recv", "handle", "pipe", "net", "done"}

FritzThere ==
    \/ ctx["Fritz"] = "startup" /\ pc["Fritz"] = "off"
    \/ ctx["Fritz"] = "netup" /\ pc["Fritz"] \in Connecting \cup Changing \cup Listening
                                                    \cup {"try"}
    \/ ctx["Fritz"] \in {"lost", "down"} /\ pc["Fritz"] \in Changing \cup Listening
    \/ ctx["Fritz"] = "listen" /\ pc["Fritz"] \in Listening \cup {"flag", "store"}
    \/ ctx["Fritz"] = "end" /\ pc["Fritz"] \in {"flag", "store", "done"}

Starting == ctx["Main"] = "startup" /\ pc["Main"] # "loop"

There == MainThere /\ FritzThere /\ (pc["Fritz"] = "off" <=> Starting)

\* The timer that runs is one of those that are there; the rest of a
\* notification is of one that has been sent.
Counted ==
    /\ ctx["Main"] = "timer" /\ pc["Main"] # "loop" => timers > 0
    /\ partly # {} => sent > 0

\* A notification waits for the callback while it is called, and only then.
Pending ==
    /\ pc["Fritz"] = "handle" => cmsg \in Segment
    /\ pc["Fritz"] # "handle" => cmsg = NoCall

Typed == TypeOK /\ There /\ Counted /\ Pending

-----------------------------------------------------------------------------
(* Every notification that the socket still holds is later than those       *)
(* handled, but for the rest of one that has been handled or dropped.  Only *)
(* the present socket counts: another one comes back fresh or not at all.   *)
Fresh == sock # NoFd => \A k \in 1..Len(inbox[sock]) :
             inbox[sock][k].part # "tail" =>
                 /\ cmsg.n < inbox[sock][k].n
                 /\ \A i \in 1..Len(handled) : handled[i].n < inbox[sock][k].n

Arrived ==
    /\ cmsg.n <= sent /\ \A i \in 1..Len(handled) : handled[i].n <= sent
    /\ \A s \in Socks : /\ \A k \in 1..Len(inbox[s]) : inbox[s][k].n <= sent
                        /\ kern[s] \in {"closed", "new"} => inbox[s] = <<>>
    /\ Fresh
    /\ \A i \in 1..Len(handled) : pc["Fritz"] = "handle" => handled[i].n < cmsg.n

\* Before a connect() has succeeded no flag says so, and the first attempt
\* leaves a timer.
NeverConnected ==
    ~ever =>
        /\ ~IsConnected
        /\ \A t \in Threads :
              /\ "Connected" \notin word[t]
              /\ pc[t] \in {"flag", "store", "connected"} => ctx[t] \notin Callers
        /\ pc["Fritz"] # "off" \/ pc["Main"] = "create" => timers > 0

\* While the listen thread sleeps without the socket in its set, a timer of the
\* main thread is about to wake it or to close the socket.
Waking ==
    /\ pc["Fritz"] \in {"select", "wait"} /\ sock # NoFd /\ sock \notin fds /\ fdpipe = <<>>
    => ctx["Main"] = "timer" /\ pc["Main"] \in (Connecting \cup Changing) \ {"connect", "failed"}

\* The flag says whether there is a socket.
Agree == IsConnected <=> sock # NoFd

\* What a thread that is busy with the socket knows while the other is not.
Knows(t) ==
    /\ pc[t] = "connect" => Agree
    /\ pc[t] \in {"dial", "dialing"} => ~IsConnected /\ sock # NoFd
    /\ pc[t] = "dialing" => arg[t] = sock
    /\ pc[t] \in {"flag", "store"} =>
          /\ ctx[t] \in {"listen", "end", "lost"} => Agree
          /\ ctx[t] \in Callers => ~IsConnected /\ sock # NoFd
          /\ ctx[t] \in {"down"} \cup Stopping => sock = NoFd
    /\ pc[t] = "store" => ("Connected" \in word[t] <=> IsConnected)
    /\ pc[t] \in {"close", "forget"} => (ctx[t] \in Callers \cup {"lost"} => ~IsConnected)
    /\ pc[t] = "forget" => sock # NoFd

Apart ==
    ~overlapped =>
        /\ \E t \in Threads : ~Busy(t)
        /\ \A t \in Threads : Knows(t)
        /\ (\A t \in Threads : ~Busy(t)) => Agree

IInv == Typed /\ HandledInOrder /\ Arrived /\ NeverConnected /\ Waking /\ Apart /\ SocketOwned

-----------------------------------------------------------------------------
(* The steps.                                                              *)

\* What both threads do with the socket.
Links(t) ==
    \/ LoadState(t) \/ StoreState(t) \/ CloseFd(t) \/ ForgetFd(t) \/ TryConnect(t) \/ OpenSocket(t)
    \/ Dial(t) \/ DialSucceeds(t) \/ DialFails(t) \/ Connected(t) \/ Failed(t)

\* What the listen thread does by itself, what the main thread does, and what
\* goes on outside.
Listens  == \/ BuildFdSet \/ SelectEnter \/ SelectReturn \/ TestSock \/ Recv \/ RecvFails
            \/ Handle \/ ReadPipe \/ NetMessage \/ NetDone
Controls == CreateThread \/ TimerFires \/ Shutdown \/ Cleanup \/ Join \/ CloseLink
Outside  == BoxSends \/ BoxSendsRest \/ NetEvent \/ \E s \in Socks : BoxDrops(s)

LEMMA NextCases ==
    ASSUME [Next]_vars
    PROVE  \/ UNCHANGED vars
           \/ Noted /\ (Listens \/ Controls \/ Outside \/ \E t \in Threads : Links(t))
  BY DEF Next, Fritz, Main, Environment, ConnectStep, Threads, Links, Listens, Controls, Outside

\* A thread that works on the socket leaves the other thread, what the box and
\* the interfaces send, and the listen thread's set alone.
Left == {"build", "pipe", "net", "done", "create", "loop", "stopped"}

LEMMA LinksAlone ==
    ASSUME Typed, NEW t \in Threads, Links(t)
    PROVE  /\ UNCHANGED <<ctx, netlink, events, sent, callVars, fds>>
           /\ \A u \in Threads : u # t => pc'[u] = pc[u]
           /\ pc[t] \in Connecting \cup Changing \cup {"try"} /\ partly' \subseteq partly
           /\ pc'[t] \in Connecting \cup Changing \cup Left
<1> USE DEF Goto, linkVars, kernVars, boxVars, Connecting, Changing
<1>0. pc \in [Threads -> Labels] /\ ctx[t] \in Contexts
  BY DEF Typed, TypeOK
<1>c. pc[t] \in {"try", "connected", "failed"} => ctx[t] \in Callers
  BY DEF Typed, There, MainThere, FritzThere, Callers, Stopping, Listening, Threads
<1>f. /\ AfterFlag(ctx[t]) \in Connecting \cup Changing \cup Left
      /\ AfterClose(ctx[t]) \in Connecting \cup Changing \cup Left
  BY <1>0 DEF AfterFlag, AfterClose, Contexts, Callers, Stopping, Left
<1>1. CASE LoadState(t) \/ StoreState(t) \/ CloseFd(t) \/ ForgetFd(t)
  BY <1>0, <1>f, <1>1 DEF LoadState, StoreState, CloseFd, ForgetFd
<1>2. CASE TryConnect(t) \/ OpenSocket(t) \/ Dial(t) \/ DialSucceeds(t) \/ DialFails(t)
  BY <1>0, <1>c, <1>2 DEF TryConnect, OpenSocket, Dial, DialSucceeds, DialFails, Return, Callers,
                          Left
<1>3. CASE Connected(t) \/ Failed(t)
  BY <1>0, <1>c, <1>3 DEF Connected, Failed, Return, Callers, Left
<1> QED BY <1>1, <1>2, <1>3 DEF Links

\* The listen thread by itself leaves the main thread where it is, and the
\* timers, the state word and the socket as they are.
LEMMA ListensAlone ==
    ASSUME Typed, Listens
    PROVE  /\ UNCHANGED <<state, sock, assoc, timers, kern, word, arg, sent, partly, events, ever>>
           /\ pc'["Main"] = pc["Main"] /\ ctx'["Main"] = ctx["Main"]
           /\ pc["Fritz"] \in Listening /\ pc'["Fritz"] \in Listening \cup {"flag", "close", "try"}
<1> USE DEF Goto, GotoFor, linkVars, kernVars, boxVars, Listening, Threads
<1>0. pc \in [Threads -> Labels] /\ ctx \in [Threads -> Contexts]
  BY DEF Typed, TypeOK
<1>1. CASE BuildFdSet \/ SelectEnter \/ SelectReturn \/ TestSock
  BY <1>0, <1>1 DEF BuildFdSet, SelectEnter, SelectReturn, TestSock
<1>2. CASE Recv \/ RecvFails \/ Handle
  BY <1>0, <1>2 DEF Recv, RecvFails, Handle
<1>3. CASE ReadPipe \/ NetMessage \/ NetDone
  BY <1>0, <1>3 DEF ReadPipe, NetMessage, NetDone
<1> QED BY <1>1, <1>2, <1>3 DEF Listens

\* The main thread starts and stops the listen thread, and clears its flag.
LEMMA ControlsAlone ==
    ASSUME Typed, Controls
    PROVE  /\ UNCHANGED <<sock, assoc, timers, kernVars, word, arg, boxVars, callVars, fds, ever>>
           /\ state' = state \/ state' = state \ {"Listening"}
           /\ fdpipe' = fdpipe \/ fdpipe' = Append(fdpipe, "disconnect")
           /\ \/ UNCHANGED <<pc, ctx>>
              \/ /\ pc["Main"] = "create" /\ pc'["Main"] = "loop" /\ pc'["Fritz"] = "flag"
                 /\ ctx'["Main"] = ctx["Main"] /\ ctx'["Fritz"] = "listen"
              \/ /\ pc["Main"] = "loop" /\ timers > 0
                 /\ pc'["Main"] = "connect" /\ ctx'["Main"] = "timer"
                 /\ pc'["Fritz"] = pc["Fritz"] /\ ctx'["Fritz"] = ctx["Fritz"]
              \/ /\ pc["Main"] \in {"loop", "join", "joined", "stopped"}
                 /\ ctx'["Main"] \in Stopping
                 /\ pc'["Main"] \in {"join", "joined", "close", "stopped"}
                 /\ pc'["Main"] = "close" => pc["Main"] = "joined"
                 /\ pc'["Fritz"] = pc["Fritz"] /\ ctx'["Fritz"] = ctx["Fritz"]
<1> USE DEF Goto, GotoFor, linkVars, kernVars, boxVars, callVars, Stopping, Threads
<1>0. pc \in [Threads -> Labels] /\ ctx \in [Threads -> Contexts] /\ There
  BY DEF Typed, TypeOK
<1>1. CASE CreateThread \/ TimerFires
  BY <1>0, <1>1 DEF CreateThread, TimerFires
<1>2. CASE Shutdown \/ Cleanup
  BY <1>0, <1>2 DEF Shutdown, Cleanup, Stop
<1>3. CASE Join \/ CloseLink
  BY <1>0, <1>3 DEF Join, CloseLink, There, MainThere, Connecting, Changing
<1> QED BY <1>1, <1>2, <1>3 DEF Controls

LEMMA OutsideAlone ==
    ASSUME Outside
    PROVE  /\ UNCHANGED <<linkVars, thrVars, callVars, fds, ever>>
           /\ kern' = kern \/ \E s \in Socks : kern[s] = "up" /\ kern' = [kern EXCEPT ![s] = "eof"]
<1>1. CASE BoxSends \/ BoxSendsRest \/ NetEvent
  BY <1>1 DEF BoxSends, BoxSendsRest, NetEvent, kernVars
<1>2. ASSUME NEW s \in Socks, BoxDrops(s)
      PROVE  UNCHANGED <<linkVars, thrVars, callVars, fds, ever>> /\ kern[s] = "up"
             /\ kern' = [kern EXCEPT ![s] = "eof"]
  BY <1>2 DEF BoxDrops
<1> QED BY <1>1, <1>2 DEF Outside

-----------------------------------------------------------------------------
(* Types.                                                                  *)

\* What is parsed is a notification or nothing.
LEMMA ParseTypes ==
    ASSUME NEW segments \in Seq(Segment), segments # <<>>, NEW c \in Parse(segments)
    PROVE  /\ c \in Segment \cup {NoCall}
           /\ c # NoCall => /\ c \in Segment /\ c.n = Head(segments).n
                            /\ Head(segments).part # "tail"
<1>1. Head(segments) \in Segment
  OBVIOUS
<1>2. c \in {Head(segments), NoCall, [Head(segments) EXCEPT !.part = "whole"]}
      /\ (c # NoCall => Head(segments).part \in {"whole", "head"})
  BY <1>1 DEF Parse, Segment
<1>3. [Head(segments) EXCEPT !.part = "whole"] \in Segment
      /\ [Head(segments) EXCEPT !.part = "whole"].n = Head(segments).n
  BY <1>1 DEF Segment
<1> QED BY <1>1, <1>2, <1>3

\* What is sent is a notification.
LEMMA DeliverTypes ==
    ASSUME TypeOK, NEW to, NEW segment \in Segment, Deliver(to, segment)
    PROVE  inbox' \in [Socks -> Seq(Segment)]
<1>1. ASSUME NEW s \in Socks PROVE Append(inbox[s], segment) \in Seq(Segment)
  <2>1. inbox[s] \in Seq(Segment)
    BY DEF TypeOK
  <2> QED BY <2>1
<1> QED BY <1>1 DEF Deliver, TypeOK

Placed == There /\ pc \in [Threads -> Labels] /\ ctx \in [Threads -> Contexts]

LEMMA ThereStep ==
    ASSUME Typed, [Next]_vars
    PROVE  Placed'
<1> USE DEF Typed, Placed, There, Labels, Contexts, MainThere, FritzThere, Starting, Connecting,
            Changing, Listening, Callers, Stopping, Goto, GotoFor
<1>0. pc \in [Threads -> Labels] /\ ctx \in [Threads -> Contexts]
  BY DEF TypeOK
<1>1. CASE UNCHANGED <<pc, ctx>>
  BY <1>0, <1>1
<1>2. ASSUME NEW t \in Threads, LoadState(t) \/ StoreState(t) PROVE Placed'
  BY <1>0, <1>2 DEF LoadState, StoreState, AfterFlag, Threads
<1>3. ASSUME NEW t \in Threads, CloseFd(t) \/ ForgetFd(t) PROVE Placed'
  BY <1>0, <1>3 DEF CloseFd, ForgetFd, AfterClose, Threads
<1>4. ASSUME NEW t \in Threads, TryConnect(t) \/ OpenSocket(t) PROVE Placed'
  BY <1>0, <1>4 DEF TryConnect, OpenSocket, Return, Threads
<1>5. ASSUME NEW t \in Threads, Dial(t) \/ DialSucceeds(t) \/ DialFails(t) PROVE Placed'
  BY <1>0, <1>5 DEF Dial, DialSucceeds, DialFails, Threads
<1>6. ASSUME NEW t \in Threads, Connected(t) \/ Failed(t) PROVE Placed'
  BY <1>0, <1>6 DEF Connected, Failed, Return, Threads
<1>7. CASE BuildFdSet \/ SelectEnter \/ SelectReturn \/ TestSock \/ Recv \/ RecvFails \/ Handle
  BY <1>0, <1>7 DEF BuildFdSet, SelectEnter, SelectReturn, TestSock, Recv, RecvFails, Handle,
                    Threads
<1>8. CASE ReadPipe \/ NetMessage \/ NetDone
  BY <1>0, <1>8 DEF ReadPipe, NetMessage, NetDone, Threads
<1>9. CASE CreateThread \/ TimerFires
  BY <1>0, <1>9 DEF CreateThread, TimerFires, Threads
<1>10. CASE Shutdown \/ Cleanup \/ Join \/ CloseLink
  BY <1>0, <1>10 DEF Shutdown, Cleanup, Stop, Join, CloseLink, Threads
<1>11. CASE BoxSends \/ BoxSendsRest \/ NetEvent \/ \E s \in Socks : BoxDrops(s)
  BY <1>1, <1>11 DEF BoxSends, BoxSendsRest, NetEvent, BoxDrops, thrVars
<1> QED BY <1>1, <1>2, <1>3, <1>4, <1>5, <1>6, <1>7, <1>8, <1>9, <1>10, <1>11, NextCases
           DEF vars, thrVars, Links, Listens, Controls, Outside

LEMMA TypeStep ==
    ASSUME Typed, [Next]_vars
    PROVE  TypeOK'
<1> USE LinkAssumption DEF Typed, linkVars, kernVars, thrVars, boxVars, callVars
<1>0. pc' \in [Threads -> Labels] /\ ctx' \in [Threads -> Contexts]
  BY ThereStep DEF Placed
<1>t. /\ timers \in Nat /\ sent \in 0..MaxCalls /\ netlink \in Seq({"up", "down", "other"})
      /\ fdpipe \in Seq({"add_sock", "disconnect"}) /\ <<>> \in Seq({"add_sock", "disconnect"})
  <2>1. <<>> \in Seq({"add_sock", "disconnect"})
    OBVIOUS
  <2> QED BY <2>1 DEF TypeOK
<1>1. CASE UNCHANGED vars
  BY <1>1 DEF vars, TypeOK
<1>2. ASSUME NEW t \in Threads, LoadState(t) PROVE TypeOK'
  BY <1>0, <1>2 DEF LoadState, TypeOK
<1>3. ASSUME NEW t \in Threads, StoreState(t) PROVE TypeOK'
  <2>1. word[t] \subseteq Flags
    BY DEF TypeOK
  <2>2. ctx[t] \in {"listen", "lost", "down", "end"} \cup Callers \cup Stopping
    BY <1>3 DEF There, MainThere, FritzThere, Callers, StoreState, Connecting, Changing,
                Listening, Threads
  <2>3. state' \subseteq Flags
    BY <1>3, <2>1, <2>2 DEF StoreState, Flagged, Flags, Callers, Stopping
  <2> QED BY <1>0, <1>3, <2>3 DEF StoreState, TypeOK
<1>4. ASSUME NEW t \in Threads, CloseFd(t) PROVE TypeOK'
  <2>1. <<>> \in Seq(Segment)
    OBVIOUS
  <2> QED BY <1>0, <1>4, <2>1 DEF CloseFd, TypeOK
<1>5. ASSUME NEW t \in Threads, ForgetFd(t) \/ TryConnect(t) PROVE TypeOK'
  BY <1>0, <1>5 DEF ForgetFd, TryConnect, TypeOK
<1>6. ASSUME NEW t \in Threads, OpenSocket(t) PROVE TypeOK'
  BY <1>0, <1>6 DEF OpenSocket, TypeOK
<1>7. ASSUME NEW t \in Threads, Dial(t) \/ DialFails(t) PROVE TypeOK'
  BY <1>0, <1>7 DEF Dial, DialFails, TypeOK
<1>8. ASSUME NEW t \in Threads, DialSucceeds(t) PROVE TypeOK'
  <2>1. assoc' \in BOOLEAN /\ ever' \in BOOLEAN
    BY <1>8 DEF DialSucceeds, TypeOK
  <2> QED BY <1>0, <1>8, <2>1 DEF DialSucceeds, TypeOK
<1>9. ASSUME NEW t \in Threads, Connected(t) PROVE TypeOK'
  <2>1. ctx[t] = "timer" => t = "Main" /\ timers > 0
    BY <1>9 DEF There, FritzThere, Counted, Connected, Threads
  <2>2. timers' \in Nat
    BY <1>9, <1>t, <2>1 DEF Connected
  <2>3. fdpipe' \in Seq({"add_sock", "disconnect"})
    <3>1. fdpipe' = fdpipe \/ fdpipe' = Append(fdpipe, "add_sock")
      BY <1>9 DEF Connected
    <3> QED BY <1>t, <3>1
  <2> QED BY <1>0, <1>9, <2>2, <2>3 DEF Connected, TypeOK
<1>10. ASSUME NEW t \in Threads, Failed(t) PROVE TypeOK'
  <2>1. timers' \in Nat
    BY <1>10, <1>t DEF Failed
  <2> QED BY <1>0, <1>10, <2>1 DEF Failed, TypeOK
<1>11. CASE BuildFdSet \/ SelectEnter \/ SelectReturn \/ TestSock
  BY <1>0, <1>11 DEF BuildFdSet, SelectEnter, SelectReturn, TestSock, TypeOK
<1>12. CASE Recv
  <2>1. sock \in Socks /\ inbox[sock] \in Seq(Segment) /\ inbox[sock] # <<>>
    BY <1>12 DEF Recv, TypeOK
  <2>2. cmsg' \in Segment \cup {NoCall}
    BY <1>12, <2>1, ParseTypes DEF Recv
  <2>3. <<>> \in Seq(Segment)
    OBVIOUS
  <2>4. inbox' \in [Socks -> Seq(Segment)]
    BY <1>12, <2>1, <2>3 DEF Recv, TypeOK
  <2> QED BY <1>0, <1>12, <2>2, <2>4 DEF Recv, TypeOK
<1>13. CASE RecvFails
  BY <1>0, <1>13 DEF RecvFails, TypeOK
<1>14. CASE Handle
  <2>1. cmsg \in Segment /\ handled \in Seq(Segment)
    BY <1>14 DEF Handle, Pending, TypeOK
  <2>2. handled' \in Seq(Segment)
    BY <1>14, <2>1 DEF Handle
  <2> QED BY <1>0, <1>14, <2>2 DEF Handle, TypeOK
<1>15. CASE ReadPipe
  <2>1. fdpipe' \in Seq({"add_sock", "disconnect"})
    BY <1>15, <1>t DEF ReadPipe
  <2> QED BY <1>0, <1>15, <2>1 DEF ReadPipe, TypeOK
<1>16. CASE NetMessage
  <2>1. netlink' \in Seq({"up", "down", "other"})
    BY <1>16, <1>t DEF NetMessage
  <2> QED BY <1>0, <1>16, <2>1 DEF NetMessage, TypeOK
<1>17. CASE NetDone
  BY <1>0, <1>17 DEF NetDone, TypeOK
<1>18. CASE CreateThread \/ TimerFires \/ CloseLink
  BY <1>0, <1>18 DEF CreateThread, TimerFires, CloseLink, TypeOK
<1>19. CASE Shutdown \/ Cleanup
  <2>1. fdpipe' \in Seq({"add_sock", "disconnect"})
    <3>1. fdpipe' = fdpipe \/ fdpipe' = Append(fdpipe, "disconnect")
      BY <1>19 DEF Shutdown, Cleanup, Stop
    <3> QED BY <1>t, <3>1
  <2> QED BY <1>0, <1>19, <2>1 DEF Shutdown, Cleanup, Stop, TypeOK
<1>20. CASE Join
  BY <1>0, <1>20 DEF Join, TypeOK
<1>21. CASE BoxSends
  <2>1. sent \in Nat /\ sent + 1 \in 1..MaxCalls
    BY <1>21, <1>t DEF BoxSends
  <2>2. \E segment \in Segment : Deliver(Up, segment)
    BY <1>21, <2>1 DEF BoxSends, Segment
  <2>3. inbox' \in [Socks -> Seq(Segment)]
    BY <2>2, DeliverTypes
  <2>4. sent' \in 0..MaxCalls /\ partly' \subseteq Socks
    BY <1>21, <2>1 DEF BoxSends, Up
  <2> QED BY <1>0, <1>21, <2>3, <2>4 DEF BoxSends, TypeOK
<1>22. CASE BoxSendsRest
  <2>1. sent \in 1..MaxCalls
    BY <1>22, <1>t DEF BoxSendsRest, Counted
  <2>2. [n |-> sent, part |-> "tail"] \in Segment
    BY <2>1 DEF Segment
  <2>3. inbox' \in [Socks -> Seq(Segment)]
    BY <1>22, <2>2, DeliverTypes DEF BoxSendsRest
  <2> QED BY <1>0, <1>22, <2>3 DEF BoxSendsRest, TypeOK
<1>23. CASE NetEvent
  <2>1. netlink' \in Seq({"up", "down", "other"})
    BY <1>23, <1>t DEF NetEvent
  <2> QED BY <1>0, <1>23, <2>1 DEF NetEvent, TypeOK
<1>24. ASSUME NEW s \in Socks, BoxDrops(s) PROVE TypeOK'
  BY <1>0, <1>24 DEF BoxDrops, TypeOK
<1> QED BY <1>1, <1>2, <1>3, <1>4, <1>5, <1>6, <1>7, <1>8, <1>9, <1>10, <1>11, <1>12, <1>13,
           <1>14, <1>15, <1>16, <1>17, <1>18, <1>19, <1>20, <1>21, <1>22, <1>23, <1>24, NextCases
           DEF Links, Listens, Controls, Outside

LEMMA CountedStep ==
    ASSUME Typed, [Next]_vars
    PROVE  Counted'
<1> USE DEF Counted
<1>t. /\ timers \in Nat /\ sent \in 0..MaxCalls
      /\ pc \in [Threads -> Labels] /\ ctx \in [Threads -> Contexts]
  BY DEF Typed, TypeOK
<1>1. partly' # {} => sent' > 0
  <2>1. CASE BoxSends
    BY <1>t, <2>1 DEF BoxSends
  <2>2. CASE sent' = sent /\ partly' \subseteq partly
    BY <1>t, <2>2 DEF Typed
  <2>3. CASE BoxSendsRest \/ NetEvent \/ \E s \in Socks : BoxDrops(s)
    BY <2>2, <2>3 DEF BoxSendsRest, NetEvent, BoxDrops, boxVars
  <2> QED BY <2>1, <2>2, <2>3, NextCases, LinksAlone, ListensAlone, ControlsAlone
          DEF vars, boxVars, Outside
<1> DEFINE TimerRuns == ctx["Main"] = "timer" /\ pc["Main"] # "loop" => timers > 0
<1>2. TimerRuns'
  <2>1. ASSUME NEW t \in Threads, Links(t) PROVE TimerRuns'
    <3>1. ctx' = ctx /\ pc[t] # "loop" /\ \A u \in Threads : u # t => pc'[u] = pc[u]
      BY <2>1, LinksAlone DEF Connecting, Changing
    <3>2. timers' = timers \/ timers' = timers + 1 \/ Connected(t)
      BY <2>1 DEF Links, LoadState, StoreState, CloseFd, ForgetFd, TryConnect, OpenSocket, Dial,
                  DialSucceeds, DialFails, Failed, linkVars
    <3>3. CASE Connected(t)
      <4>1. t = "Main" /\ ctx["Main"] = "timer" => pc'["Main"] = "loop"
        BY <1>t, <3>3 DEF Connected, Return, Goto, Threads
      <4>2. t = "Fritz" => timers' = timers
        BY <3>3 DEF Connected, Typed, There, FritzThere
      <4> QED BY <1>t, <3>1, <4>1, <4>2 DEF Typed, Threads
    <3> QED BY <1>t, <3>1, <3>2, <3>3 DEF Typed, Threads
  <2>2. CASE Listens
    BY <2>2, ListensAlone DEF Typed, Listening
  <2>3. CASE Controls
    BY <2>3, ControlsAlone DEF Typed, Stopping
  <2>4. CASE Outside \/ UNCHANGED vars
    BY <2>4, OutsideAlone DEF vars, linkVars, thrVars, Typed
  <2> QED BY <2>1, <2>2, <2>3, <2>4, NextCases
<1> QED BY <1>1, <1>2

LEMMA PendingStep ==
    ASSUME Typed, [Next]_vars
    PROVE  Pending'
<1> USE DEF Pending
<1>t. pc \in [Threads -> Labels]
  BY DEF Typed, TypeOK
<1>1. CASE Recv
  <2>1. sock \in Socks /\ inbox[sock] \in Seq(Segment) /\ inbox[sock] # <<>>
    BY <1>1 DEF Recv, Typed, TypeOK
  <2>2. cmsg' \in Segment \cup {NoCall} /\ (cmsg' # NoCall => cmsg' \in Segment)
    BY <1>1, <2>1, ParseTypes DEF Recv
  <2>3. pc'["Fritz"] = IF cmsg' = NoCall THEN "pipe" ELSE "handle"
    BY <1>t, <1>1 DEF Recv, Goto, Threads
  <2> QED BY <2>2, <2>3
<1>2. CASE Handle
  BY <1>t, <1>2 DEF Handle, Goto, Threads
<1>3. CASE cmsg' = cmsg /\ (pc["Fritz"] = "handle" <=> pc'["Fritz"] = "handle")
  BY <1>3 DEF Typed
<1>4. CASE BuildFdSet \/ SelectEnter \/ SelectReturn \/ TestSock \/ RecvFails
  BY <1>t, <1>3, <1>4 DEF BuildFdSet, SelectEnter, SelectReturn, TestSock, RecvFails, Goto,
                          GotoFor, callVars, Threads
<1>5. CASE ReadPipe \/ NetMessage \/ NetDone
  BY <1>t, <1>3, <1>5 DEF ReadPipe, NetMessage, NetDone, Goto, GotoFor, callVars, Threads
<1>6. ASSUME NEW t \in Threads, Links(t) PROVE Pending'
  <2>1. cmsg' = cmsg /\ pc[t] # "handle" /\ pc'[t] # "handle"
        /\ \A u \in Threads : u # t => pc'[u] = pc[u]
    BY <1>6, LinksAlone DEF Connecting, Changing, Left, callVars
  <2> QED BY <1>3, <2>1 DEF Threads
<1>7. CASE Controls
  BY <1>3, <1>7, ControlsAlone DEF callVars, Typed, There, FritzThere, MainThere, Starting,
                                   Stopping, Listening, Connecting, Changing
<1>8. CASE Outside \/ UNCHANGED vars
  BY <1>3, <1>8, OutsideAlone DEF vars, callVars, thrVars
<1> QED BY <1>1, <1>2, <1>4, <1>5, <1>6, <1>7, <1>8, NextCases DEF Listens

-----------------------------------------------------------------------------
(* The order of the notifications.                                         *)

Order == HandledInOrder /\ Arrived

\* The order stays as long as what was received stays and no socket gets
\* anything but emptied.
LEMMA OrderKept ==
    ASSUME Typed, Order, Placed', UNCHANGED <<cmsg, handled, sent>>,
           pc'["Fritz"] = "handle" <=> pc["Fritz"] = "handle",
           \A s \in Socks : inbox'[s] = inbox[s] \/ inbox'[s] = <<>>,
           \A s \in Socks : kern'[s] \in {"closed", "new"} =>
                               kern[s] \in {"closed", "new"} \/ inbox'[s] = <<>>,
           sock' = sock \/ sock' = NoFd \/ (sock' \in Socks /\ inbox'[sock'] = <<>>)
    PROVE  Order'
<1> USE DEF Order, HandledInOrder, Arrived, Fresh
<1>1. HandledInOrder' /\ cmsg'.n <= sent' /\ \A i \in 1..Len(handled') : handled'[i].n <= sent'
  OBVIOUS
<1>2. Len(<<>>) = 0
  OBVIOUS
<1>3. ASSUME NEW s \in Socks
      PROVE  /\ \A k \in 1..Len(inbox'[s]) : inbox'[s][k].n <= sent'
             /\ kern'[s] \in {"closed", "new"} => inbox'[s] = <<>>
  BY <1>2
<1>4. Fresh'
  <2>1. CASE sock' # NoFd /\ inbox'[sock'] = <<>>
    BY <1>2, <2>1
  <2>2. CASE sock' = sock /\ sock \in Socks /\ inbox'[sock] = inbox[sock]
    BY <2>2
  <2>3. CASE sock' = NoFd
    BY <2>3
  <2> QED BY <2>1, <2>2, <2>3 DEF Typed, TypeOK
<1> QED BY <1>1, <1>3, <1>4

LEMMA RecvOrder ==
    ASSUME Typed, Order, Recv
    PROVE  Order'
<1> USE DEF Order, HandledInOrder, Arrived, Fresh
<1>1. sock \in Socks /\ inbox[sock] \in Seq(Segment) /\ inbox[sock] # <<>>
  BY DEF Recv, Typed, TypeOK
<1>2. PICK c \in Parse(inbox[sock]) :
         cmsg' = c /\ Goto("Fritz", IF c = NoCall THEN "pipe" ELSE "handle")
  BY DEF Recv
<1>3. UNCHANGED <<sock, kern, sent, handled>> /\ inbox' = [inbox EXCEPT ![sock] = <<>>]
  BY DEF Recv, linkVars, boxVars
<1>4. Len(inbox[sock]) >= 1 /\ Head(inbox[sock]) = inbox[sock][1]
  BY <1>1
<1>5. cmsg' # NoCall => /\ cmsg'.n <= sent
                        /\ \A i \in 1..Len(handled) : handled[i].n < cmsg'.n
  <2>1. inbox[sock][1].n <= sent
    BY <1>1, <1>4
  <2>2. inbox[sock][1].part # "tail" => \A i \in 1..Len(handled) : handled[i].n < inbox[sock][1].n
    BY <1>1, <1>4, LinkAssumption
  <2> QED BY <1>1, <1>2, <1>4, <2>1, <2>2, ParseTypes
<1>6. cmsg' = NoCall => cmsg'.n <= sent /\ pc'["Fritz"] # "handle"
  <2>1. pc'["Fritz"] = IF cmsg' = NoCall THEN "pipe" ELSE "handle"
    BY <1>2 DEF Goto, Typed, TypeOK, Threads
  <2> QED BY <2>1 DEF NoCall, Typed, TypeOK
<1>7. inbox \in [Socks -> Seq(Segment)] /\ Len(<<>>) = 0
  BY DEF Typed, TypeOK
<1> QED BY <1>1, <1>3, <1>5, <1>6, <1>7

LEMMA HandleOrder ==
    ASSUME Typed, Order, Handle
    PROVE  Order'
<1> USE DEF Order, HandledInOrder, Arrived, Fresh
<1>1. /\ UNCHANGED <<sock, kern, inbox, sent>> /\ pc["Fritz"] = "handle"
      /\ handled' = Append(handled, cmsg) /\ cmsg' = NoCall
  BY DEF Handle, linkVars, kernVars, boxVars
<1>2. /\ handled \in Seq(Segment) /\ cmsg \in Segment /\ sent \in Nat /\ cmsg.n \in Nat
      /\ inbox \in [Socks -> Seq(Segment)] /\ NoCall.n = 0
  <2>1. \A c \in Segment : c.n \in Nat
    BY LinkAssumption DEF Segment
  <2>2. NoCall.n = 0
    BY DEF NoCall
  <2> QED BY <1>1, <2>1, <2>2 DEF Typed, TypeOK, Pending
<1>3. Len(handled') = Len(handled) + 1 /\ Len(handled) \in Nat
      /\ \A i \in 1..Len(handled') : handled'[i] = IF i <= Len(handled) THEN handled[i] ELSE cmsg
  BY <1>1, <1>2
<1>4. \A i \in 1..Len(handled) : handled[i].n < cmsg.n
  BY <1>1
<1>5. HandledInOrder'
  BY <1>3, <1>4
<1>6. \A i \in 1..Len(handled') : handled'[i].n <= sent
  BY <1>3
<1>7. ASSUME sock # NoFd, NEW k \in 1..Len(inbox[sock]), inbox[sock][k].part # "tail"
      PROVE  /\ cmsg'.n < inbox[sock][k].n
             /\ \A i \in 1..Len(handled') : handled'[i].n < inbox[sock][k].n
  <2>1. cmsg.n < inbox[sock][k].n /\ \A i \in 1..Len(handled) : handled[i].n < inbox[sock][k].n
    BY <1>7
  <2>2. inbox[sock][k].n \in Nat /\ inbox[sock][k].n > 0
    <3>1. inbox[sock] \in Seq(Segment)
      BY <1>2, <1>7 DEF Typed, TypeOK
    <3>2. inbox[sock][k] \in Segment
      BY <1>7, <3>1
    <3> QED BY <3>2 DEF Segment
  <2>3. \A i \in 1..Len(handled') : handled'[i].n < inbox[sock][k].n
    BY <1>3, <2>1
  <2> QED BY <1>1, <1>2, <2>2, <2>3
<1>8. pc'["Fritz"] # "handle"
  BY DEF Handle, Goto, Typed, TypeOK, Threads
<1> QED BY <1>1, <1>2, <1>5, <1>6, <1>7, <1>8

\* What arrives now is later than whatever has been sent before.
LEMMA SendOrder ==
    ASSUME Typed, Order, BoxSends \/ BoxSendsRest
    PROVE  Order'
<1> USE DEF Order, HandledInOrder, Arrived, Fresh
<1>1. UNCHANGED <<sock, kern, pc, cmsg, handled>> /\ sent' \in {sent, sent + 1}
  BY DEF BoxSends, BoxSendsRest, linkVars, thrVars, callVars
<1>2. PICK to \in SUBSET Up, x \in [n : {sent'}, part : {"whole", "head", "tail"}] :
         /\ Deliver(to, x)
         /\ x.part # "tail" => sent' = sent + 1
  <2>1. CASE BoxSends
    <3>1. \E x \in [n : {sent'}, part : {"whole", "head", "tail"}] :
             Deliver(Up, x) /\ x.part # "tail"
      BY <2>1 DEF BoxSends
    <3> QED BY <2>1, <3>1 DEF BoxSends
  <2>2. CASE BoxSendsRest
    BY <2>2 DEF BoxSendsRest
  <2> QED BY <2>1, <2>2
<1>3. /\ sent \in Nat /\ inbox \in [Socks -> Seq(Segment)] /\ sock \in Socks \cup {NoFd}
      /\ handled \in Seq(Segment) /\ x.n = sent' /\ cmsg.n \in Nat
      /\ \A i \in 1..Len(handled) : handled[i].n \in Nat
  <2>1. \A i \in 1..Len(handled) : handled[i] \in Segment
    BY DEF Typed, TypeOK
  <2>2. \A c \in Segment \cup {NoCall} : c.n \in Nat
    BY DEF Segment, NoCall
  <2> QED BY <1>2, <2>1, <2>2 DEF Typed, TypeOK
<1>4. ASSUME NEW s \in Socks
      PROVE  /\ inbox'[s] = inbox[s] \/ (s \in Up /\ inbox'[s] = Append(inbox[s], x))
             /\ Len(inbox[s]) \in Nat /\ inbox[s] \in Seq(Segment)
             /\ \A k \in 1..Len(inbox[s]) : inbox[s][k] \in Segment
  <2>1. inbox[s] \in Seq(Segment)
    BY <1>3
  <2>2. inbox'[s] = IF s \in to THEN Append(inbox[s], x) ELSE inbox[s]
    BY <1>2, ZenonT(20) DEF Deliver
  <2> QED BY <2>1, <2>2
<1>5. ASSUME NEW s \in Socks, NEW k \in 1..Len(inbox'[s])
      PROVE  (k \in 1..Len(inbox[s]) /\ inbox'[s][k] = inbox[s][k]) \/ inbox'[s][k] = x
  <2>1. inbox'[s] = inbox[s] \/ inbox'[s] = Append(inbox[s], x)
    BY <1>4
  <2>2. inbox[s] \in Seq(Segment)
    BY <1>4
  <2> QED BY <2>1, <2>2
<1>6. ASSUME NEW s \in Socks, NEW k \in 1..Len(inbox'[s])
      PROVE  inbox'[s][k].n <= sent'
  <2>1. CASE inbox'[s][k] = x
    BY <1>1, <1>3, <2>1
  <2>2. CASE k \in 1..Len(inbox[s]) /\ inbox'[s][k] = inbox[s][k]
    <3>1. inbox[s][k].n <= sent /\ inbox[s][k].n \in Nat
      BY <1>4, <2>2 DEF Segment
    <3> QED BY <1>1, <1>3, <2>2, <3>1
  <2> QED BY <1>5, <2>1, <2>2
<1>7. ASSUME NEW s \in Socks, kern'[s] \in {"closed", "new"} PROVE inbox'[s] = <<>>
  BY <1>1, <1>4, <1>7 DEF Up
<1>8. ASSUME sock # NoFd, NEW k \in 1..Len(inbox'[sock]), inbox'[sock][k].part # "tail"
      PROVE  /\ cmsg.n < inbox'[sock][k].n
             /\ \A i \in 1..Len(handled) : handled[i].n < inbox'[sock][k].n
  <2>1. CASE inbox'[sock][k] = x
    BY <1>1, <1>2, <1>3, <1>8, <2>1
  <2>2. CASE k \in 1..Len(inbox[sock]) /\ inbox'[sock][k] = inbox[sock][k]
    BY <1>1, <1>8, <2>2
  <2> QED BY <1>3, <1>5, <1>8, <2>1, <2>2
<1>9. \A i \in 1..Len(handled) : handled[i].n <= sent'
  BY <1>1, <1>3
<1>10. cmsg'.n <= sent'
  BY <1>1, <1>3
<1> QED BY <1>1, <1>6, <1>7, <1>8, <1>9, <1>10

LEMMA OrderStep ==
    ASSUME Typed, Order, [Next]_vars
    PROVE  Order'
<1>1. Placed' /\ Pending'
  BY ThereStep, PendingStep
<1>2. pc \in [Threads -> Labels] /\ kern \in [Socks -> {"closed", "new", "up", "eof"}]
      /\ inbox \in [Socks -> Seq(Segment)] /\ sock \in Socks \cup {NoFd}
      /\ arg \in [Threads -> Socks \cup {NoFd}]
  BY DEF Typed, TypeOK
<1> DEFINE Quiet ==
       /\ UNCHANGED <<sent, handled>>
       /\ \A s \in Socks : inbox'[s] = inbox[s] \/ inbox'[s] = <<>>
       /\ \A s \in Socks : kern'[s] \in {"closed", "new"} =>
                               kern[s] \in {"closed", "new"} \/ inbox'[s] = <<>>
       /\ sock' = sock \/ sock' = NoFd \/ (sock' \in Socks /\ inbox'[sock'] = <<>>)
<1>3. ASSUME Quiet, cmsg' = cmsg PROVE Order'
  <2>1. pc'["Fritz"] = "handle" <=> pc["Fritz"] = "handle"
    <3>1. NoCall \notin Segment
      BY DEF NoCall, Segment
    <3> QED BY <1>1, <1>3, <3>1 DEF Typed, Pending
  <2> QED BY <1>1, <1>3, <2>1, OrderKept
<1>4. ASSUME NEW t \in Threads, Links(t) PROVE Order'
  <2>1. UNCHANGED <<sent, handled, cmsg>>
    BY <1>4, LinksAlone DEF callVars
  <2>2. CASE UNCHANGED <<sock, kern, inbox>>
    BY <1>3, <2>1, <2>2
  <2>3. CASE LoadState(t) \/ StoreState(t) \/ TryConnect(t) \/ Dial(t) \/ DialFails(t)
             \/ Connected(t) \/ Failed(t)
    BY <2>2, <2>3 DEF LoadState, StoreState, TryConnect, Dial, DialFails, Connected, Failed,
                      linkVars, kernVars
  <2>4. CASE CloseFd(t)
    <3>1. sock' = sock
      BY <2>4 DEF CloseFd, linkVars
    <3>2. CASE sock = NoFd
      BY <2>2, <2>4, <3>1, <3>2 DEF CloseFd, kernVars
    <3>3. CASE sock # NoFd
      <4>1. kern' = [kern EXCEPT ![sock] = "closed"] /\ inbox' = [inbox EXCEPT ![sock] = <<>>]
        BY <2>4, <3>3 DEF CloseFd
      <4> QED BY <1>2, <1>3, <2>1, <3>1, <4>1
    <3> QED BY <3>2, <3>3
  <2>5. CASE ForgetFd(t)
    BY <1>3, <2>1, <2>5 DEF ForgetFd, kernVars
  <2>6. CASE OpenSocket(t)
    <3>1. inbox' = inbox
      BY <2>6 DEF OpenSocket
    <3>2. CASE kern' = kern /\ sock' \in {sock, NoFd}
      BY <1>3, <2>1, <3>1, <3>2
    <3>3. ASSUME NEW s \in Socks, kern[s] = "closed", sock' = s, kern' = [kern EXCEPT ![s] = "new"]
          PROVE  Order'
      <4>1. inbox[s] = <<>>
        BY <3>3 DEF Order, Arrived
      <4> QED BY <1>2, <1>3, <2>1, <3>1, <3>3, <4>1
    <3> QED BY <2>6, <3>2, <3>3 DEF OpenSocket
  <2>7. CASE DialSucceeds(t)
    <3>1. sock' = sock /\ inbox' = inbox /\ kern' = [kern EXCEPT ![arg[t]] = "up"]
      BY <2>7 DEF DialSucceeds
    <3> QED BY <1>2, <1>3, <2>1, <3>1
  <2> QED BY <1>4, <2>3, <2>4, <2>5, <2>6, <2>7 DEF Links
<1>5. CASE Listens
  <2>1. CASE Recv \/ Handle
    BY <2>1, RecvOrder, HandleOrder
  <2>2. CASE BuildFdSet \/ SelectEnter \/ SelectReturn \/ TestSock \/ RecvFails
    BY <1>3, <2>2 DEF BuildFdSet, SelectEnter, SelectReturn, TestSock, RecvFails, linkVars,
                      kernVars, boxVars, callVars
  <2>3. CASE ReadPipe \/ NetMessage \/ NetDone
    BY <1>3, <2>3 DEF ReadPipe, NetMessage, NetDone, linkVars, kernVars, boxVars, callVars
  <2> QED BY <1>5, <2>1, <2>2, <2>3 DEF Listens
<1>6. CASE Controls
  BY <1>3, <1>6, ControlsAlone DEF kernVars, boxVars, callVars
<1>7. CASE Outside
  <2>1. CASE BoxSends \/ BoxSendsRest
    BY <2>1, SendOrder
  <2>2. CASE NetEvent
    BY <1>3, <2>2 DEF NetEvent, linkVars, kernVars, callVars
  <2>3. ASSUME NEW s \in Socks, BoxDrops(s) PROVE Order'
    BY <1>2, <1>3, <2>3 DEF BoxDrops, linkVars, boxVars, callVars
  <2> QED BY <1>7, <2>1, <2>2, <2>3 DEF Outside
<1>8. CASE UNCHANGED vars
  BY <1>3, <1>8 DEF vars, linkVars, kernVars, boxVars, callVars
<1> QED BY <1>4, <1>5, <1>6, <1>7, <1>8, NextCases

-----------------------------------------------------------------------------
(* The timers before the first connection.                                 *)

LEMMA NeverConnectedStep ==
    ASSUME Typed, NeverConnected, [Next]_vars
    PROVE  NeverConnected'
<1> USE DEF NeverConnected, IsConnected
<1>t. /\ timers \in Nat /\ pc \in [Threads -> Labels] /\ ctx \in [Threads -> Contexts]
      /\ word \in [Threads -> SUBSET Flags] /\ "Fritz" \in Threads /\ "Main" \in Threads
  BY DEF Typed, TypeOK, Threads
<1>h. There
  BY DEF Typed
<1>1. ASSUME ever' = ever, "Connected" \in state' => "Connected" \in state,
             \A t \in Threads : word'[t] = word[t] \/ word'[t] = {},
             \A t \in Threads : pc'[t] \in {"flag", "store", "connected"} /\ ctx'[t] \in Callers =>
                                   pc[t] \in {"flag", "store", "connected"} /\ ctx[t] \in Callers,
             pc'["Fritz"] # "off" \/ pc'["Main"] = "create" =>
                pc["Fritz"] # "off" \/ pc["Main"] = "create",
             timers' = timers
      PROVE  NeverConnected'
  BY <1>1
<1>2. ASSUME NEW t \in Threads, Links(t), ~ever' PROVE NeverConnected'
  <2>1. ctx' = ctx /\ \A u \in Threads : u # t => pc'[u] = pc[u]
    BY <1>2, LinksAlone
  <2>2. pc[t] \in {"connect", "dial", "dialing", "connected", "failed", "try"} => ctx[t] \in Callers
    BY <1>h DEF There, MainThere, FritzThere, Callers, Stopping, Listening, Connecting, Changing,
                Threads
  <2>3. ctx[t] \in Callers /\ t = "Fritz" => ctx[t] = "netup" \/ pc["Fritz"] = "off"
    BY <1>h DEF There, FritzThere, Callers
  <2>4. pc[t] \in Connecting \cup Changing \cup {"try"}
    BY <1>2, LinksAlone
  <2>5. pc["Fritz"] = "off" => t = "Main"
    BY <2>4 DEF Connecting, Changing, Threads
  <2>6. CASE LoadState(t)
    <3>1. /\ word' = [word EXCEPT ![t] = state] /\ pc' = [pc EXCEPT ![t] = "store"]
          /\ UNCHANGED <<state, timers, ever>> /\ pc[t] = "flag"
      BY <2>6 DEF LoadState, Goto, linkVars
    <3> QED BY <1>t, <1>2, <2>1, <3>1
  <2>7. CASE StoreState(t)
    <3>1. /\ state' = Flagged(word[t], ctx[t]) /\ pc' = [pc EXCEPT ![t] = AfterFlag(ctx[t])]
          /\ UNCHANGED <<timers, ever>> /\ pc[t] = "store" /\ word' = [word EXCEPT ![t] = {}]
      BY <2>7 DEF StoreState, Goto
    <3>2. ctx[t] \notin Callers
      BY <1>2, <3>1
    <3>3. "Connected" \notin state'
      BY <1>t, <1>2, <3>1, <3>2 DEF Flagged, Contexts, Stopping, Callers
    <3>4. AfterFlag(ctx[t]) \notin {"flag", "store", "connected", "create", "off"}
      BY <1>t, <3>2 DEF AfterFlag, Contexts, Stopping, Callers
    <3> QED BY <1>t, <1>2, <2>1, <2>5, <3>1, <3>3, <3>4
  <2>8. CASE CloseFd(t) \/ ForgetFd(t)
    <3>1. /\ \/ pc' = [pc EXCEPT ![t] = AfterClose(ctx[t])]
             \/ pc' = [pc EXCEPT ![t] = "forget"]
          /\ UNCHANGED <<state, timers, ever, word>>
      BY <2>8 DEF CloseFd, ForgetFd, Goto, linkVars
    <3>2. /\ AfterClose(ctx[t]) \notin {"store", "connected", "create", "off"}
          /\ AfterClose(ctx[t]) = "flag" => ctx[t] \notin Callers
      BY <1>t DEF AfterClose, Contexts, Callers
    <3> QED BY <1>t, <1>2, <2>1, <2>5, <3>1, <3>2
  <2>9. CASE TryConnect(t) \/ OpenSocket(t) \/ Dial(t) \/ DialFails(t)
    <3>1. /\ \E l \in {"connect", "dial", "dialing", "failed", "close"} : pc' = [pc EXCEPT ![t] = l]
          /\ UNCHANGED <<state, timers, ever, word>>
      BY <1>2, <2>9 DEF TryConnect, OpenSocket, Dial, DialFails, Goto, linkVars
    <3> QED BY <1>t, <1>2, <2>1, <2>5, <3>1
  <2>10. CASE DialSucceeds(t)
    BY <1>2, <2>10 DEF DialSucceeds
  <2>11. CASE Connected(t)
    BY <1>2, <2>2, <2>11 DEF Connected
  <2>12. CASE Failed(t)
    <3>1. /\ pc' = [pc EXCEPT ![t] = IF ctx[t] = "startup" THEN "create"
                                     ELSE IF ctx[t] = "timer" THEN "loop" ELSE "net"]
          /\ timers' = IF ctx[t] = "timer" THEN timers ELSE timers + 1
          /\ UNCHANGED <<state, ever, word>>
      BY <2>2, <2>12 DEF Failed, Return, Goto, Callers
    <3>2. ctx[t] = "timer" => pc["Fritz"] # "off"
      BY <1>h, <2>2, <2>12 DEF There, FritzThere, Starting, Threads
    <3> QED BY <1>t, <1>2, <2>1, <3>1, <3>2
  <2> QED BY <1>2, <2>6, <2>7, <2>8, <2>9, <2>10, <2>11, <2>12 DEF Links
<1>3. CASE Listens
  <2>1. /\ UNCHANGED <<state, timers, word, ever>> /\ pc["Fritz"] # "off"
        /\ pc'["Main"] = pc["Main"] /\ ctx'["Main"] = ctx["Main"]
    BY <1>3, ListensAlone DEF Listening
  <2>2. pc'["Fritz"] \in {"flag", "store", "connected"} => ctx'["Fritz"] \notin Callers
    <3>1. CASE BuildFdSet \/ SelectEnter \/ SelectReturn \/ TestSock \/ Recv \/ RecvFails \/ Handle
      BY <1>t, <3>1 DEF BuildFdSet, SelectEnter, SelectReturn, TestSock, Recv, RecvFails, Handle,
                        Goto, GotoFor, Callers
    <3>2. CASE ReadPipe \/ NetMessage \/ NetDone
      BY <1>t, <3>2 DEF ReadPipe, NetMessage, NetDone, Goto, GotoFor, Callers
    <3> QED BY <1>3, <3>1, <3>2 DEF Listens
  <2> QED BY <2>1, <2>2 DEF Threads
<1>4. CASE Controls
  <2>1. /\ UNCHANGED <<timers, word, ever>> /\ ("Connected" \in state' => "Connected" \in state)
        /\ \A t \in Threads : pc'[t] \in {"flag", "store", "connected"} /\ ctx'[t] \in Callers =>
                                   pc[t] \in {"flag", "store", "connected"} /\ ctx[t] \in Callers
        /\ pc'["Fritz"] # "off" \/ pc'["Main"] = "create" =>
                pc["Fritz"] # "off" \/ pc["Main"] = "create"
    BY <1>4, ControlsAlone DEF Stopping, Callers, Threads
  <2> QED BY <1>1, <2>1
<1>5. CASE Outside \/ UNCHANGED vars
  BY <1>1, <1>5, OutsideAlone DEF vars, linkVars, thrVars
<1>6. ever => ever'
  <2>1. ASSUME NEW t \in Threads, Links(t) PROVE ever => ever'
    BY <2>1 DEF Links, LoadState, StoreState, CloseFd, ForgetFd, TryConnect, OpenSocket, Dial,
                DialFails, DialSucceeds, Connected, Failed
  <2> QED BY <2>1, NextCases, ListensAlone, ControlsAlone, OutsideAlone DEF vars
<1> QED BY <1>2, <1>3, <1>4, <1>5, NextCases

-----------------------------------------------------------------------------
(* The wakeup of the listen thread.                                        *)

LEMMA WakingStep ==
    ASSUME Typed, Waking, [Next]_vars
    PROVE  Waking'
<1> USE DEF Waking
<1>t. /\ pc \in [Threads -> Labels] /\ ctx \in [Threads -> Contexts]
      /\ "Fritz" \in Threads /\ "Main" \in Threads
      /\ fdpipe \in Seq({"add_sock", "disconnect"})
  BY DEF Typed, TypeOK, Threads
<1>h. There
  BY DEF Typed
<1>a. \A x \in {"add_sock", "disconnect"} : Append(fdpipe, x) # <<>>
  BY <1>t
<1>1. CASE Links("Fritz")
  <2>1. pc'["Fritz"] \notin {"select", "wait"}
    BY <1>t, <1>1, LinksAlone DEF Connecting, Changing, Left
  <2> QED BY <2>1
<1>2. CASE Links("Main")
  <2>1. ctx' = ctx /\ pc'["Fritz"] = pc["Fritz"] /\ fds' = fds
    BY <1>t, <1>2, LinksAlone
  <2>2. CASE /\ UNCHANGED <<sock, fdpipe>>
             /\ pc'["Main"] \in (Connecting \cup Changing) \ {"connect", "failed"}
    BY <2>1, <2>2
  <2>3. CASE LoadState("Main") \/ Dial("Main") \/ DialFails("Main") \/ DialSucceeds("Main")
    <3>1. UNCHANGED <<sock, fdpipe>> /\ pc'["Main"] \in {"store", "dialing", "close", "flag"}
      BY <1>t, <2>3 DEF LoadState, Dial, DialFails, DialSucceeds, Goto, linkVars
    <3> QED BY <2>2, <3>1 DEF Connecting, Changing
  <2>4. CASE StoreState("Main")
    <3>1. /\ UNCHANGED <<sock, fdpipe>> /\ pc'["Main"] = AfterFlag(ctx["Main"])
      BY <1>t, <2>4 DEF StoreState, Goto
    <3>2. ctx["Main"] = "timer" => pc'["Main"] = "connected"
      BY <3>1 DEF AfterFlag, Callers, Stopping
    <3> QED BY <2>1, <3>1, <3>2 DEF Connecting
  <2>5. CASE CloseFd("Main")
    <3>1. UNCHANGED <<sock, fdpipe>> /\ (sock # NoFd => pc'["Main"] = "forget")
      BY <1>t, <2>5 DEF CloseFd, Goto, linkVars
    <3> QED BY <2>1, <3>1 DEF Connecting, Changing
  <2>6. CASE ForgetFd("Main")
    BY <2>6 DEF ForgetFd
  <2>7. CASE TryConnect("Main")
    <3>1. UNCHANGED <<sock, fdpipe>> /\ pc["Main"] = "try"
      BY <2>7 DEF TryConnect, linkVars
    <3> QED BY <2>1, <3>1 DEF Connecting, Changing
  <2>8. CASE OpenSocket("Main")
    <3>1. /\ fdpipe' = fdpipe /\ pc["Main"] = "connect"
          /\ sock' = sock \/ sock' = NoFd \/ pc'["Main"] = "dial"
      BY <1>t, <2>8 DEF OpenSocket, Goto
    <3>2. ctx["Main"] \in {"startup", "timer"} /\ (ctx["Main"] = "startup" => pc["Fritz"] = "off")
      BY <1>h, <3>1 DEF There, MainThere, Starting, Connecting, Changing
    <3> QED BY <2>1, <3>1, <3>2 DEF Connecting, Changing
  <2>9. CASE Connected("Main")
    <3>1. sock' = sock /\ (ctx["Main"] = "timer" => fdpipe' = Append(fdpipe, "add_sock"))
          /\ (ctx["Main"] # "timer" => fdpipe' = fdpipe)
      BY <2>9 DEF Connected
    <3> QED BY <1>a, <2>1, <3>1
  <2>10. CASE Failed("Main")
    BY <2>1, <2>10 DEF Failed
  <2> QED BY <1>2, <2>3, <2>4, <2>5, <2>6, <2>7, <2>8, <2>9, <2>10 DEF Links
<1>3. CASE Listens
  <2>1. CASE BuildFdSet
    <3>1. fds' = {Pipe, Netlink} \cup ({sock} \ {NoFd}) /\ sock' = sock
      BY <2>1 DEF BuildFdSet, linkVars
    <3> QED BY <3>1
  <2>2. CASE SelectEnter
    BY <1>t, <2>2 DEF SelectEnter, Goto, linkVars
  <2>3. CASE SelectReturn \/ TestSock \/ Recv \/ RecvFails \/ Handle \/ ReadPipe \/ NetMessage
             \/ NetDone
    <3>1. pc'["Fritz"] \notin {"select", "wait"}
      BY <1>t, <2>3 DEF SelectReturn, TestSock, Recv, RecvFails, Handle, ReadPipe, NetMessage,
                        NetDone, Goto, GotoFor
    <3> QED BY <3>1
  <2> QED BY <1>3, <2>1, <2>2, <2>3 DEF Listens
<1>4. CASE Controls
  <2>1. UNCHANGED <<sock, fds>> /\ (fdpipe' = <<>> => fdpipe = <<>>)
    BY <1>a, <1>4, ControlsAlone
  <2>2. UNCHANGED <<pc, ctx>> \/ pc'["Fritz"] = "flag"
        \/ (pc'["Fritz"] = pc["Fritz"] /\ pc["Main"] \in {"loop", "join", "joined", "stopped"})
    BY <1>4, ControlsAlone
  <2> QED BY <2>1, <2>2 DEF Connecting, Changing
<1>5. CASE Outside \/ UNCHANGED vars
  BY <1>5, OutsideAlone DEF vars, linkVars, thrVars
<1> QED BY <1>1, <1>2, <1>3, <1>4, <1>5, NextCases DEF Threads

-----------------------------------------------------------------------------
(* The socket, as long as the threads keep apart.                          *)

\* What a thread knows stays as long as nothing it is about changes.
LEMMA KnowsKept ==
    ASSUME NEW t \in Threads, Knows(t), pc'[t] = pc[t], ctx'[t] = ctx[t], word'[t] = word[t],
           arg'[t] = arg[t], sock' = sock, IsConnected' <=> IsConnected
    PROVE  Knows(t)'
  BY DEF Knows, Agree

\* A thread that is not busy with the socket has nothing to know.
LEMMA KnowsIdle ==
    ASSUME NEW t \in Threads, ~Busy(t)
    PROVE  Knows(t)
  BY DEF Knows, Busy

\* As long as the history variable says so, one of the threads is idle.
LEMMA KeptApart ==
    ASSUME Apart, [Next]_vars, ~overlapped'
    PROVE  /\ ~overlapped /\ \E t \in Threads : ~Busy(t)
           /\ \A t \in Threads : Knows(t)
           /\ (\A t \in Threads : ~Busy(t)) => Agree
           /\ \E t \in Threads : ~Busy(t)'
<1>1. CASE UNCHANGED vars
  <2>1. UNCHANGED <<pc, overlapped>>
    BY <1>1 DEF vars, thrVars
  <2> QED BY <2>1 DEF Apart, Busy
<1>2. CASE Noted
  BY <1>2 DEF Noted, Apart
<1> QED BY <1>1, <1>2, NextCases

\* One of the two threads works on the socket, and the other one is idle.
LEMMA LinksApart ==
    ASSUME Typed, Apart, [Next]_vars, ~overlapped', NEW t \in Threads, Links(t)
    PROVE  /\ \A u \in Threads : u # t /\ (Busy(t) \/ Busy(t)') => ~Busy(u) /\ ~Busy(u)'
           /\ Knows(t) /\ (~Busy(t) /\ Busy(t)' => Agree)
           /\ ctx' = ctx /\ \A u \in Threads : u # t => pc'[u] = pc[u]
<1>1. ctx' = ctx /\ \A u \in Threads : u # t => pc'[u] = pc[u]
  BY LinksAlone
<1>2. \A u \in Threads : u # t => (Busy(u) <=> Busy(u)')
  BY <1>1 DEF Busy
<1> QED BY <1>1, <1>2, KeptApart DEF Threads

\* What the thread that works on the socket knows afterwards, and what holds
\* when it is done.
LEMMA LinksKnow ==
    ASSUME Typed, Apart, [Next]_vars, ~overlapped', NEW t \in Threads, Links(t), Busy(t) \/ Busy(t)'
    PROVE  Knows(t)' /\ (~Busy(t)' => Agree')
<1> USE DEF Knows, Busy, Agree, IsConnected
<1>t. /\ pc \in [Threads -> Labels] /\ ctx \in [Threads -> Contexts] /\ NoFd \notin Socks
      /\ word \in [Threads -> SUBSET Flags] /\ arg \in [Threads -> Socks \cup {NoFd}]
  BY LinkAssumption DEF Typed, TypeOK
<1>k. Knows(t) /\ (~Busy(t) /\ Busy(t)' => Agree) /\ ctx' = ctx
  BY LinksApart
<1>c. /\ pc[t] \in {"connect", "dial", "dialing", "connected", "failed", "try"} =>
            ctx[t] \in Callers
      /\ pc[t] \in {"close", "forget"} => ctx[t] \in {"lost", "down"} \cup Callers \cup Stopping
  BY DEF Typed, There, MainThere, FritzThere, Callers, Stopping, Listening, Connecting, Changing,
         Threads
<1>1. CASE LoadState(t)
  <2>1. pc[t] = "flag" /\ pc'[t] = "store" /\ word'[t] = state /\ UNCHANGED <<state, sock>>
    BY <1>t, <1>1 DEF LoadState, Goto, linkVars
  <2> QED BY <1>k, <2>1
<1>2. CASE StoreState(t)
  <2>1. /\ pc[t] = "store" /\ pc'[t] = AfterFlag(ctx[t]) /\ state' = Flagged(word[t], ctx[t])
        /\ sock' = sock
    BY <1>t, <1>2 DEF StoreState, Goto
  <2>2. /\ ctx[t] \in Callers => "Connected" \in state' /\ pc'[t] = "connected"
        /\ ctx[t] = "listen" => /\ "Connected" \in state' <=> "Connected" \in word[t]
                                /\ pc'[t] = "build"
        /\ ctx[t] = "end" => ("Connected" \in state' <=> "Connected" \in word[t]) /\ pc'[t] = "done"
        /\ ctx[t] = "lost" => "Connected" \notin state' /\ pc'[t] = "close"
        /\ ctx[t] \in {"down"} \cup Stopping => /\ "Connected" \notin state'
                                               /\ pc'[t] \in {"net", "stopped"}
    BY <2>1 DEF Flagged, AfterFlag, Callers, Stopping
  <2>3. ctx[t] \in Callers \cup {"listen", "end", "lost", "down"} \cup Stopping
    BY <1>t DEF Contexts, Callers, Stopping
  <2>4. ctx[t] = "lost" => ctx[t] \notin Callers
    BY DEF Callers
  <2> QED BY <1>k, <2>1, <2>2, <2>3, <2>4
<1>3. CASE CloseFd(t)
  <2>1. pc[t] = "close" /\ UNCHANGED <<state, sock>>
        /\ pc'[t] = IF sock = NoFd THEN AfterClose(ctx[t]) ELSE "forget"
    BY <1>t, <1>3 DEF CloseFd, Goto, linkVars
  <2>2. /\ ctx[t] \in Callers => AfterClose(ctx[t]) = "failed"
        /\ ctx[t] = "lost" => AfterClose(ctx[t]) = "pipe"
        /\ ctx[t] \in {"down"} \cup Stopping => AfterClose(ctx[t]) = "flag" /\ ctx[t] \notin Callers
                                                /\ ctx[t] \notin {"listen", "end", "lost"}
    BY DEF AfterClose, Callers, Stopping
  <2> QED BY <1>k, <1>c, <2>1, <2>2
<1>4. CASE ForgetFd(t)
  <2>1. pc[t] = "forget" /\ state' = state /\ sock' = NoFd /\ pc'[t] = AfterClose(ctx[t])
    BY <1>t, <1>4 DEF ForgetFd, Goto
  <2>2. /\ ctx[t] \in Callers => AfterClose(ctx[t]) = "failed"
        /\ ctx[t] = "lost" => AfterClose(ctx[t]) = "pipe"
        /\ ctx[t] \in {"down"} \cup Stopping => AfterClose(ctx[t]) = "flag" /\ ctx[t] \notin Callers
                                                /\ ctx[t] \notin {"listen", "end", "lost"}
    BY DEF AfterClose, Callers, Stopping
  <2> QED BY <1>k, <1>c, <2>1, <2>2
<1>5. CASE TryConnect(t)
  <2>1. pc[t] = "try" /\ UNCHANGED <<state, sock>> /\ (Busy(t)' => pc'[t] = "connect")
    <3>1. ctx[t] \in Callers
      BY <1>5, <1>c DEF TryConnect
    <3> QED BY <1>t, <1>5, <3>1 DEF TryConnect, Return, Goto, linkVars, Callers
  <2> QED BY <1>k, <2>1
<1>6. CASE OpenSocket(t)
  <2>1. /\ pc[t] = "connect" /\ state' = state
        /\ \/ IsConnected /\ pc'[t] = "connected" /\ sock' = sock
           \/ ~IsConnected /\ pc'[t] = "dial" /\ sock' \in Socks
           \/ ~IsConnected /\ pc'[t] = "failed" /\ sock' = NoFd
    BY <1>t, <1>6 DEF OpenSocket, Goto
  <2> QED BY <1>t, <1>k, <2>1
<1>7. CASE Dial(t)
  <2>1. pc[t] = "dial" /\ pc'[t] = "dialing" /\ arg'[t] = sock /\ UNCHANGED <<state, sock>>
    BY <1>t, <1>7 DEF Dial, Goto, linkVars
  <2> QED BY <1>k, <2>1
<1>8. CASE DialSucceeds(t)
  <2>1. pc[t] = "dialing" /\ pc'[t] = "flag" /\ UNCHANGED <<state, sock>>
    BY <1>t, <1>8 DEF DialSucceeds, Goto
  <2>2. ctx[t] \notin {"listen", "end", "lost"} /\ ctx[t] \notin {"down"} \cup Stopping
    BY <1>c, <2>1 DEF Callers, Stopping
  <2> QED BY <1>k, <2>1, <2>2
<1>9. CASE DialFails(t)
  <2>1. pc[t] = "dialing" /\ pc'[t] = "close" /\ UNCHANGED <<state, sock>>
    BY <1>t, <1>9 DEF DialFails, Goto, linkVars
  <2> QED BY <1>k, <2>1
<1>10. CASE Connected(t) \/ Failed(t)
  <2>1. ~Busy(t) /\ ~Busy(t)'
    BY <1>t, <1>c, <1>10 DEF Connected, Failed, Return, Goto, Callers
  <2> QED BY <2>1
<1> QED BY <1>1, <1>2, <1>3, <1>4, <1>5, <1>6, <1>7, <1>8, <1>9, <1>10 DEF Links

\* What both know stays, while the thread that takes a step is idle, as long as
\* it does not become busy or knows what it has to then.
LEMMA IdleStep ==
    ASSUME Apart, [Next]_vars, ~overlapped', NEW t \in Threads, NEW u \in Threads, Threads = {t, u},
           ~Busy(t), pc'[u] = pc[u], ctx'[u] = ctx[u], word'[u] = word[u], arg'[u] = arg[u],
           sock' = sock, IsConnected' <=> IsConnected,
           ~Busy(u) /\ Agree => Knows(t)'
    PROVE  Apart'
<1>1. /\ \E v \in Threads : ~Busy(v)'
      /\ Knows(u) /\ ((\A v \in Threads : ~Busy(v)) => Agree)
  BY KeptApart
<1>2. Knows(u)'
  BY <1>1, KnowsKept
<1>3. (Busy(u)' <=> Busy(u)) /\ (Agree' <=> Agree)
  BY DEF Busy, Agree
<1>4. Knows(t)'
  <2>1. CASE Busy(t)'
    BY <1>1, <1>3, <2>1
  <2>2. CASE ~Busy(t)'
    BY <2>2 DEF Knows, Busy
  <2> QED BY <2>1, <2>2
<1> QED BY <1>1, <1>2, <1>3, <1>4 DEF Apart

LEMMA ApartStep ==
    ASSUME Typed, Apart, [Next]_vars
    PROVE  Apart'
<1> SUFFICES ASSUME ~overlapped' PROVE Apart'
  BY DEF Apart
<1>t. /\ pc \in [Threads -> Labels] /\ ctx \in [Threads -> Contexts]
      /\ word \in [Threads -> SUBSET Flags] /\ arg \in [Threads -> Socks \cup {NoFd}]
  BY DEF Typed, TypeOK
<1>1. ASSUME NEW t \in Threads, Links(t) PROVE Apart'
  <2>1. PICK u \in Threads : u # t /\ Threads = {t, u}
    BY DEF Threads
  <2>2. ctx' = ctx /\ pc'[u] = pc[u] /\ ((Busy(t) \/ Busy(t)') => ~Busy(u) /\ ~Busy(u)')
    BY <1>1, <2>1, LinksApart
  <2>3. CASE Busy(t) \/ Busy(t)'
    <3>1. Knows(t)' /\ (~Busy(t)' => Agree')
      BY <1>1, <2>3, LinksKnow
    <3>2. Knows(u)'
      BY <2>2, <2>3 DEF Knows, Busy
    <3> QED BY <2>1, <2>2, <2>3, <3>1, <3>2 DEF Apart
  <2>4. CASE ~Busy(t) /\ ~Busy(t)'
    <3>1. UNCHANGED <<state, sock, word, arg>>
      <4>1. pc[t] \in {"try", "connected", "failed"}
        BY <1>1, <2>4, LinksAlone DEF Busy, Connecting, Changing
      <4>2. TryConnect(t) \/ Connected(t) \/ Failed(t)
        BY <1>1, <4>1 DEF Links, LoadState, StoreState, CloseFd, ForgetFd, OpenSocket, Dial,
                          DialSucceeds, DialFails
      <4> QED BY <4>2 DEF TryConnect, Connected, Failed, linkVars
    <3>2. Knows(t)'
      BY <2>4 DEF Knows, Busy
    <3> QED BY <2>1, <2>2, <2>4, <3>1, <3>2, IdleStep DEF IsConnected
  <2> QED BY <2>3, <2>4
<1>2. CASE Listens
  <2>1. /\ UNCHANGED <<state, sock, word, arg>> /\ pc["Fritz"] \in Listening
        /\ pc'["Main"] = pc["Main"] /\ ctx'["Main"] = ctx["Main"]
    BY <1>2, ListensAlone
  <2>2. ~Busy("Fritz")
    BY <2>1 DEF Listening, Busy
  <2>3. pc'["Fritz"] \in Listening \cup {"try"}
        \/ (pc'["Fritz"] = "close" /\ ctx'["Fritz"] = "down")
        \/ (pc'["Fritz"] = "flag" /\ ctx'["Fritz"] \in {"lost", "end"})
    <3>1. CASE BuildFdSet \/ SelectEnter \/ SelectReturn \/ TestSock \/ Recv \/ RecvFails \/ Handle
      BY <1>t, <3>1 DEF BuildFdSet, SelectEnter, SelectReturn, TestSock, Recv, RecvFails, Handle,
                        Goto, GotoFor, Listening, Threads
    <3>2. CASE ReadPipe \/ NetMessage \/ NetDone
      BY <1>t, <3>2 DEF ReadPipe, NetMessage, NetDone, Goto, GotoFor, Listening, Threads
    <3> QED BY <1>2, <3>1, <3>2 DEF Listens
  <2>4. Agree => Knows("Fritz")'
    BY <2>1, <2>3 DEF Knows, Agree, IsConnected, Listening, Callers, Stopping
  <2> QED BY <2>1, <2>2, <2>4, IdleStep DEF Threads, IsConnected
<1>3. CASE Controls
  <2>1. UNCHANGED <<sock, word, arg>> /\ (IsConnected' <=> IsConnected)
    BY <1>3, ControlsAlone DEF IsConnected
  <2>2. CASE pc["Main"] = "create" /\ pc'["Main"] = "loop" /\ pc'["Fritz"] = "flag"
             /\ ctx'["Main"] = ctx["Main"] /\ ctx'["Fritz"] = "listen"
    <3>1. pc["Fritz"] = "off"
      BY <2>2 DEF Typed, There, MainThere, Starting, Stopping, Connecting, Changing
    <3>2. ~Busy("Main") /\ ~Busy("Fritz")
      BY <2>2, <3>1 DEF Busy
    <3>3. Agree
      BY <3>2, KeptApart DEF Threads
    <3>4. Knows("Main")' /\ Knows("Fritz")' /\ ~Busy("Main")'
      BY <2>1, <2>2, <3>3 DEF Knows, Agree, Callers, Stopping, Busy
    <3>5. Busy("Fritz")'
      BY <2>2 DEF Busy
    <3> QED BY <3>4, <3>5 DEF Apart, Threads
  <2>3. CASE pc["Main"] = "loop" /\ pc'["Main"] = "connect"
             /\ pc'["Fritz"] = pc["Fritz"] /\ ctx'["Fritz"] = ctx["Fritz"]
    <3>1. ~Busy("Main") /\ (Agree => Knows("Main")')
      BY <2>1, <2>3 DEF Busy, Knows, Agree
    <3> QED BY <2>1, <2>3, <3>1, IdleStep DEF Threads
  <2>4. CASE pc["Main"] \in {"loop", "join", "joined", "stopped"} /\ ctx'["Main"] \in Stopping
             /\ pc'["Main"] \in {"join", "joined", "close", "stopped"}
             /\ pc'["Fritz"] = pc["Fritz"] /\ ctx'["Fritz"] = ctx["Fritz"]
    <3>1. ~Busy("Main") /\ Knows("Main")'
      BY <2>4 DEF Busy, Knows, Callers, Stopping
    <3> QED BY <2>1, <2>4, <3>1, IdleStep DEF Threads
  <2>5. CASE UNCHANGED <<pc, ctx>>
    <3>1. ~Busy("Main")
      <4>1. pc["Main"] \in {"create", "loop", "stopped", "join", "joined"}
        BY <1>3 DEF Controls, CreateThread, TimerFires, Shutdown, Cleanup, Join, CloseLink
      <4> QED BY <4>1 DEF Busy
    <3>2. Knows("Main")'
      BY <2>5, <3>1 DEF Knows, Busy
    <3> QED BY <2>1, <2>5, <3>1, <3>2, IdleStep DEF Threads
  <2> QED BY <1>3, <2>2, <2>3, <2>4, <2>5, ControlsAlone
<1>4. CASE Outside \/ UNCHANGED vars
  <2>1. UNCHANGED <<pc, ctx, word, arg, sock, state>>
    BY <1>4, OutsideAlone DEF vars, linkVars, thrVars
  <2>2. \A t \in Threads : Knows(t)' /\ (Busy(t)' <=> Busy(t))
    BY <2>1, KeptApart, KnowsKept DEF Busy, IsConnected
  <2> QED BY <2>1, <2>2, KeptApart DEF Apart, Agree, IsConnected
<1> QED BY <1>1, <1>2, <1>3, <1>4, NextCases

\* Which descriptors are open matters, and whether one is being closed.
LEMMA OwnedKept ==
    ASSUME SocketOwned, ~overlapped, sock' = sock,
           \A s \in Socks : kern'[s] = "closed" <=> kern[s] = "closed",
           \A t \in Threads : pc'[t] = "forget" <=> pc[t] = "forget"
    PROVE  SocketOwned'
  BY DEF SocketOwned

LEMMA OwnedStep ==
    ASSUME Typed, Apart, SocketOwned, [Next]_vars
    PROVE  SocketOwned'
<1> SUFFICES ASSUME ~overlapped' PROVE SocketOwned'
  BY DEF SocketOwned
<1>t. /\ pc \in [Threads -> Labels] /\ kern \in [Socks -> {"closed", "new", "up", "eof"}]
      /\ sock \in Socks \cup {NoFd} /\ NoFd \notin Socks /\ ~overlapped
      /\ arg \in [Threads -> Socks \cup {NoFd}]
  BY LinkAssumption, KeptApart DEF Typed, TypeOK
<1>1. ASSUME NEW t \in Threads, Links(t) PROVE SocketOwned'
  <2>1. \A u \in Threads : u # t => pc'[u] = pc[u]
    BY <1>1, LinksAlone
  <2>2. Busy(t) => \A u \in Threads : u # t => pc[u] # "forget" /\ pc'[u] # "forget"
    BY <1>1, LinksApart DEF Busy
  <2>3. Knows(t)
    BY <1>1, LinksApart
  <2>4. ASSUME UNCHANGED <<sock, kern>>, pc[t] # "forget", pc'[t] # "forget" PROVE SocketOwned'
    BY <1>t, <2>1, <2>4, OwnedKept
  <2>5. CASE LoadState(t) \/ StoreState(t) \/ TryConnect(t) \/ Dial(t) \/ DialFails(t)
             \/ Connected(t) \/ Failed(t)
    <3>1. UNCHANGED <<sock, kern>> /\ pc[t] # "forget"
      BY <2>5 DEF LoadState, StoreState, TryConnect, Dial, DialFails, Connected, Failed, linkVars,
                  kernVars
    <3>2. pc'[t] # "forget"
      <4>1. pc[t] \in {"try", "connected", "failed"} => ctx[t] \in Callers
        BY DEF Typed, There, MainThere, FritzThere, Callers, Stopping, Listening, Connecting,
               Changing, Threads
      <4>2. AfterFlag(ctx[t]) # "forget"
        BY DEF AfterFlag, Contexts, Callers, Stopping, Typed, TypeOK
      <4> QED BY <1>t, <2>5, <4>1, <4>2 DEF LoadState, StoreState, TryConnect, Dial, DialFails,
                                            Connected, Failed, Return, Goto, Callers
    <3> QED BY <2>4, <3>1, <3>2
  <2>6. CASE CloseFd(t)
    <3>1. /\ pc[t] = "close" /\ sock' = sock /\ Busy(t)
          /\ pc'[t] = IF sock = NoFd THEN AfterClose(ctx[t]) ELSE "forget"
          /\ kern' = IF sock = NoFd THEN kern ELSE [kern EXCEPT ![sock] = "closed"]
      BY <1>t, <2>6 DEF CloseFd, Goto, linkVars, kernVars, Busy
    <3>2. AfterClose(ctx[t]) # "forget"
      BY DEF AfterClose, Contexts, Callers, Typed, TypeOK
    <3>3. CASE sock = NoFd
      BY <2>4, <3>1, <3>2, <3>3
    <3>4. CASE sock # NoFd
      <4>1. \A s \in Socks : kern[s] # "closed" => sock = s
        BY <1>t DEF SocketOwned
      <4>2. \A s \in Socks : kern'[s] = "closed"
        BY <1>t, <3>1, <3>4, <4>1
      <4> QED BY <3>1, <3>4, <4>2 DEF SocketOwned
    <3> QED BY <3>3, <3>4
  <2>7. CASE ForgetFd(t)
    <3>1. pc[t] = "forget" /\ sock' = NoFd /\ kern' = kern
      BY <2>7 DEF ForgetFd, kernVars
    <3>2. \A s \in Socks : kern[s] = "closed"
      BY <1>t, <3>1 DEF SocketOwned
    <3> QED BY <1>t, <3>1, <3>2 DEF SocketOwned
  <2>8. CASE OpenSocket(t)
    <3>1. pc[t] = "connect" /\ Busy(t) /\ pc'[t] # "forget"
      BY <1>t, <2>8 DEF OpenSocket, Goto, Busy
    <3>2. Agree
      BY <2>3, <3>1 DEF Knows
    <3>3. CASE IsConnected
      BY <2>4, <2>8, <3>1, <3>3 DEF OpenSocket
    <3>4. CASE ~IsConnected
      <4>1. sock = NoFd /\ \A s \in Socks : kern[s] = "closed"
        BY <1>t, <3>2, <3>4 DEF Agree, SocketOwned
      <4>2. CASE \E s \in Socks : sock' = s /\ kern' = [kern EXCEPT ![s] = "new"]
        <5>1. \A u \in Threads : pc'[u] # "forget"
          BY <2>2, <3>1
        <5> QED BY <1>t, <4>1, <4>2, <5>1 DEF SocketOwned
      <4>3. CASE sock' = NoFd /\ kern' = kern
        BY <1>t, <4>1, <4>3 DEF SocketOwned
      <4> QED BY <2>8, <3>4, <4>2, <4>3 DEF OpenSocket
    <3> QED BY <3>3, <3>4
  <2>9. CASE DialSucceeds(t)
    <3>1. /\ pc[t] = "dialing" /\ pc'[t] = "flag" /\ sock' = sock
          /\ arg[t] # NoFd /\ kern[arg[t]] \in {"new", "up"}
          /\ kern' = [kern EXCEPT ![arg[t]] = "up"]
      BY <1>t, <2>9 DEF DialSucceeds, Goto
    <3>2. \A s \in Socks : kern'[s] = "closed" <=> kern[s] = "closed"
      BY <1>t, <3>1
    <3> QED BY <1>t, <2>1, <3>1, <3>2, OwnedKept
  <2> QED BY <1>1, <2>5, <2>6, <2>7, <2>8, <2>9 DEF Links
<1>2. CASE Listens
  <2>1. UNCHANGED <<sock, kern>> /\ pc'["Main"] = pc["Main"] /\ pc["Fritz"] # "forget"
        /\ pc'["Fritz"] # "forget"
    BY <1>2, ListensAlone DEF Listening
  <2> QED BY <1>t, <2>1, OwnedKept DEF Threads
<1>3. CASE Controls
  <2>1. UNCHANGED <<sock, kern>>
    BY <1>3, ControlsAlone DEF kernVars
  <2>2. \A t \in Threads : pc'[t] = "forget" <=> pc[t] = "forget"
    <3>1. pc["Main"] = "create" => pc["Fritz"] = "off"
      BY DEF Typed, There, MainThere, Starting, Stopping, Connecting, Changing
    <3> QED BY <1>3, <3>1, ControlsAlone DEF Threads
  <2> QED BY <1>t, <2>1, <2>2, OwnedKept
<1>4. CASE Outside \/ UNCHANGED vars
  <2>1. UNCHANGED <<pc, sock>> /\ \A s \in Socks : kern'[s] = "closed" <=> kern[s] = "closed"
    BY <1>t, <1>4, OutsideAlone DEF vars, linkVars, thrVars, kernVars
  <2> QED BY <1>t, <2>1, OwnedKept
<1> QED BY <1>1, <1>2, <1>3, <1>4, NextCases

-----------------------------------------------------------------------------
(* The theorems.                                                           *)

LEMMA InitInv ==
    ASSUME Init
    PROVE  IInv
<1> USE LinkAssumption DEF Init
<1>1. /\ <<>> \in Seq({"add_sock", "disconnect"}) /\ <<>> \in Seq({"up", "down", "other"})
      /\ <<>> \in Seq(Segment) /\ Len(<<>>) = 0
  OBVIOUS
<1>2. TypeOK
  <2>1. /\ kern \in [Socks -> {"closed", "new", "up", "eof"}] /\ inbox \in [Socks -> Seq(Segment)]
        /\ fdpipe \in Seq({"add_sock", "disconnect"}) /\ handled \in Seq(Segment)
        /\ netlink \in Seq({"up", "down", "other"})
    BY <1>1
  <2>2. /\ pc \in [Threads -> Labels] /\ ctx \in [Threads -> Contexts]
        /\ word \in [Threads -> SUBSET Flags] /\ arg \in [Threads -> Socks \cup {NoFd}]
    BY DEF Threads, Labels, Contexts
  <2>3. sent \in 0..MaxCalls /\ events \in 0..MaxNet /\ timers \in Nat
    OBVIOUS
  <2> QED BY <2>1, <2>2, <2>3 DEF TypeOK
<1>3. There /\ Counted /\ Pending
  BY DEF There, MainThere, FritzThere, Starting, Counted, Pending, Threads
<1>4. HandledInOrder /\ Arrived
  BY <1>1 DEF HandledInOrder, Arrived, Fresh, NoCall
<1>5. NeverConnected /\ Waking
  BY DEF NeverConnected, Waking, IsConnected, Threads
<1>6. Apart /\ SocketOwned
  BY DEF Apart, SocketOwned, Knows, Busy, Agree, IsConnected, Threads
<1> QED BY <1>2, <1>3, <1>4, <1>5, <1>6 DEF IInv, Typed

LEMMA StepInv ==
    ASSUME IInv, [Next]_vars
    PROVE  IInv'
<1>1. Typed /\ Order /\ NeverConnected /\ Waking /\ Apart /\ SocketOwned
  BY DEF IInv, Order
<1>2. Typed'
  BY <1>1, TypeStep, ThereStep, CountedStep, PendingStep DEF Typed, Placed
<1>3. Order'
  BY <1>1, OrderStep
<1>4. NeverConnected' /\ Waking'
  BY <1>1, NeverConnectedStep, WakingStep
<1>5. Apart' /\ SocketOwned'
  BY <1>1, ApartStep, OwnedStep
<1> QED BY <1>2, <1>3, <1>4, <1>5 DEF IInv, Order

\* The invariant the theorems below rest on: where each thread can be and for
\* whom, what is still to be received, what a thread knows of the socket.
THEOREM InvHolds == Spec => []IInv
<1>1. Init => IInv
  BY InitInv
<1>2. IInv /\ [Next]_vars => IInv'
  BY StepInv
<1> QED BY <1>1, <1>2, PTL DEF Spec

\* The state of fritz.c and of its two threads keeps its type; no timer of the
\* main loop is ended that is not there.
THEOREM TypeCorrect == Spec => []TypeOK
<1>1. IInv => TypeOK
  BY DEF IInv, Typed
<1> QED BY <1>1, InvHolds, PTL

\* However often the connection is lost and made again, by whichever thread, the
\* callback is given each notification at most once and none after a later one.
THEOREM NotificationsInOrder == Spec => []HandledInOrder
<1>1. IInv => HandledInOrder
  BY DEF IInv
<1> QED BY <1>1, InvHolds, PTL

\* As long as no connect() has succeeded and no caller of _fritz_connect is
\* under way, a timer is there to try again.
THEOREM FirstConnectKeptUp == Spec => []FirstConnectNotGivenUp
<1>1. IInv => FirstConnectNotGivenUp
  BY DEF IInv, NeverConnected, FirstConnectNotGivenUp
<1> QED BY <1>1, InvHolds, PTL

\* The listen thread does not sleep on a set without the connected socket: the
\* timer that has connected it has written to the pipe.
THEOREM Woken == Spec => []WokenForSocket
<1>1. IInv => WokenForSocket
  BY DEF IInv, Waking, WokenForSocket, Connecting, Changing
<1> QED BY <1>1, InvHolds, PTL

\* As long as the two threads have not worked on the socket at once, the open
\* descriptor is the one in sock: none is leaked and none closed twice.
THEOREM SocketIsOwned == Spec => []SocketOwned
<1>1. IInv => SocketOwned
  BY DEF IInv
<1> QED BY <1>1, InvHolds, PTL

=============================================================================
