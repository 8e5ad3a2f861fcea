--------------------------- MODULE CIServerProofs ---------------------------
(***************************************************************************)
(* What TLAPS proves of CIServer for every number of clients, descriptors, *)
(* broadcasts and messages: type correctness, mutual exclusion on the      *)
(* client list, and that a descriptor in the list belongs to the client it *)
(* was accepted for (by the inductive invariant IInv of CIServer); and     *)
(* that broadcasts reach the clients in order and completely, that clients *)
(* are given up only for a cause, and that no descriptor leaks (by DInv,   *)
(* below, which extends IInv).                                             *)
(***************************************************************************)
EXTENDS CIServer, SequenceTheorems, TLAPS

-----------------------------------------------------------------------------
(* Lists.                                                                  *)

\* g_list_remove: the elements after the removed one move up by one.
LEMMA RemoveAtProperties ==
    ASSUME NEW S, NEW s \in Seq(S), NEW i \in 1..Len(s)
    PROVE  /\ RemoveAt(s, i) \in Seq(S)
           /\ Len(RemoveAt(s, i)) = Len(s) - 1
           /\ \A j \in 1..Len(s) - 1 :
                RemoveAt(s, i)[j] = IF j < i THEN s[j] ELSE s[j + 1]
<1> DEFINE a == SubSeq(s, 1, i - 1)
           b == SubSeq(s, i + 1, Len(s))
<1>1. a \in Seq(S) /\ Len(a) = i - 1 /\ \A j \in 1..i - 1 : a[j] = s[j]
  OBVIOUS
<1>2. /\ b \in Seq(S) /\ Len(b) = Len(s) - i
      /\ \A j \in 1..Len(s) - i : b[j] = s[i + j]
  OBVIOUS
<1>3. RemoveAt(s, i) = a \o b
  BY DEF RemoveAt
<1> HIDE DEF a, b
<1>4. /\ a \o b \in Seq(S) /\ Len(a \o b) = Len(a) + Len(b)
      /\ \A j \in 1..Len(a) + Len(b) :
           (a \o b)[j] = IF j <= Len(a) THEN a[j] ELSE b[j - Len(a)]
  BY <1>1, <1>2, ConcatProperties
<1>5. ASSUME NEW j \in 1..Len(s) - 1
      PROVE  (a \o b)[j] = IF j < i THEN s[j] ELSE s[j + 1]
  <2>1. CASE j < i
    BY <1>1, <1>2, <1>4, <2>1
  <2>2. CASE ~(j < i)
    <3>0. j \in 1..Len(a) + Len(b) /\ ~(j <= Len(a))
      BY <1>1, <1>2, <2>2
    <3> DEFINE k == j - Len(a)
    <3>1. (a \o b)[j] = b[k]
      BY <1>4, <3>0
    <3>2. k \in 1..Len(s) - i /\ i + k = j + 1
      BY <1>1, <2>2
    <3> HIDE DEF k
    <3>3. b[k] = s[j + 1]
      BY <1>2, <3>2
    <3> QED
      BY <2>2, <3>1, <3>3
  <2> QED
    BY <2>1, <2>2
<1>6. Len(a) + Len(b) = Len(s) - 1
  BY <1>1, <1>2
<1> QED
  BY <1>3, <1>4, <1>5, <1>6

\* Changing the flags of one client leaves its socket and peer, and all other
\* clients, as they were.
SameSockets(s, t) == /\ t \in Seq(Client) /\ Len(t) = Len(s)
                     /\ \A j \in 1..Len(s) : t[j].sock = s[j].sock /\ t[j].peer = s[j].peer

LEMMA FlagProperties ==
    ASSUME NEW s \in Seq(Client), NEW i \in 1..Len(s), NEW c \in Client,
           c.sock = s[i].sock, c.peer = s[i].peer
    PROVE  SameSockets(s, [s EXCEPT ![i] = c])
<1> DEFINE t == [s EXCEPT ![i] = c]
<1>1. t \in Seq(Client) /\ Len(t) = Len(s)
  OBVIOUS
<1>2. \A j \in 1..Len(s) : t[j].sock = s[j].sock /\ t[j].peer = s[j].peer
  OBVIOUS
<1> QED
  BY <1>1, <1>2 DEF SameSockets

LEMMA MarkProperties ==
    ASSUME TypeOK, NEW i \in 1..Len(clients), Mark(i)
    PROVE  SameSockets(clients, clients')
<1> DEFINE c == [clients[i] EXCEPT !.remove = TRUE]
<1>1. clients \in Seq(Client) /\ clients[i] \in Client
  BY DEF TypeOK
<1>2. c \in Client /\ c.sock = clients[i].sock /\ c.peer = clients[i].peer
  BY <1>1 DEF Client
<1>3. clients' = [clients EXCEPT ![i] = c]
  BY DEF Mark
<1> HIDE DEF c
<1> QED
  BY <1>1, <1>2, <1>3, FlagProperties

-----------------------------------------------------------------------------
(* The steps of the system, one by one.                                    *)

ListStep(t) == \/ RemoveLock(t) \/ RemoveSkip(t) \/ ShutdownSock(t)
               \/ DrainAndClose(t) \/ Unlink(t) \/ RemoveUnlock(t)
               \/ BroadcastSkip(t) \/ BroadcastSend(t) \/ BroadcastUnlock(t)

LEMMA NextCases ==
    ASSUME [Next]_vars
    PROVE  \/ UNCHANGED vars
           \/ Bind \/ BindWait \/ BuildFdSet \/ SelectEnter \/ SelectReturn
           \/ Accept \/ AddClient \/ HandleLock \/ HandleSkip \/ HandleClient
           \/ HandleUnlock \/ CheckPipe
           \/ FritzMessage \/ FritzBroadcast
           \/ CisrvRun \/ Shutdown \/ JoinSrv \/ BroadcastDisconnect \/ CloseListenSock
           \/ \E t \in Threads : ListStep(t)
           \/ \E p \in Peers : \/ PeerConnect(p) \/ PeerRead(p) \/ PeerClose(p)
                               \/ \E m \in Sayings : PeerSay(p, m)
  BY DEF Next, Srv, Fritz, Main, Peer, RemoveOrSend, ListStep, Threads

-----------------------------------------------------------------------------
(* Type correctness.                                                       *)

\* Handling a message changes the flags of the client at most.
LEMMA HandleKeepsSockets ==
    ASSUME TypeOK, NEW p \in Peers, pos["Srv"] \in 1..Len(clients),
           \/ HandleHangup(p) \/ HandleTruncated(p) \/ HandleShort(p) \/ HandleMessage(p)
           \/ HandleBad
    PROVE  SameSockets(clients, clients')
<1> DEFINE i == pos["Srv"]
<1>0. clients \in Seq(Client) /\ i \in 1..Len(clients) /\ clients[i] \in Client
  BY DEF TypeOK
<1>1. CASE HandleHangup(p) \/ HandleTruncated(p) \/ HandleBad
  <2>1. Mark(i)
    BY <1>1 DEF HandleHangup, HandleTruncated, HandleBad
  <2> QED
    BY <1>0, <2>1, MarkProperties
<1>2. CASE HandleShort(p)
  BY <1>0, <1>2 DEF HandleShort, SameSockets
<1>3. CASE HandleMessage(p)
  <2> DEFINE c == [clients[i] EXCEPT
                     !.v3 = clients[i].v3 \/ Head(c2s[p]) = "version",
                     !.remove = clients[i].remove \/ Head(c2s[p]) = "leave"]
  <2>1. c \in Client /\ c.sock = clients[i].sock /\ c.peer = clients[i].peer
    BY <1>0 DEF Client
  <2>2. clients' = [clients EXCEPT ![i] = c]
    BY <1>3 DEF HandleMessage, Cur
  <2> HIDE DEF c, i
  <2> QED
    BY <1>0, <2>1, <2>2, FlagProperties
<1> QED
  BY <1>1, <1>2, <1>3

SendOutcome(p) == SendDelivers(p) \/ SendIsLost(p) \/ SendFails(p) \/ SendKills(p)

LEMMA SendTypes ==
    ASSUME TypeOK, NEW p \in Peers, SendOutcome(p)
    PROVE  tcp' \in [Peers -> TcpStates] /\ unread' \in [Peers -> Nat] /\ alive' \in BOOLEAN
<1>1. CASE SendDelivers(p)
  BY <1>1 DEF SendDelivers, TypeOK
<1>2. CASE SendIsLost(p)
  BY <1>2 DEF SendIsLost, TypeOK, TcpStates
<1>3. CASE SendFails(p)
  BY <1>3 DEF SendFails, TypeOK, TcpStates
<1>4. CASE SendKills(p)
  BY <1>4 DEF SendKills, TypeOK
<1> QED
  BY <1>1, <1>2, <1>3, <1>4 DEF SendOutcome

LEMMA CloseTypes ==
    ASSUME TypeOK, NEW f, CloseSock(f) \/ UNCHANGED <<conn, c2s, unread>>
    PROVE  /\ conn' \in [Fds -> Peers \cup {NoPeer}]
           /\ c2s' \in [Peers -> Seq(MessageKinds)] /\ unread' \in [Peers -> Nat]
<1>1. CASE UNCHANGED <<conn, c2s, unread>>
  BY <1>1 DEF TypeOK
<1>2. CASE CloseSock(f) /\ PeerOf(f) = NoPeer
  BY <1>2 DEF TypeOK, CloseSock
<1>3. CASE CloseSock(f) /\ PeerOf(f) # NoPeer
  <2>1. f \in Fds /\ conn[f] \in Peers
    BY <1>3 DEF TypeOK, PeerOf
  <2>2. /\ conn' = [conn EXCEPT ![f] = NoPeer]
        /\ c2s' = [c2s EXCEPT ![conn[f]] = <<>>]
        /\ unread' = [unread EXCEPT ![conn[f]] = 0]
    BY <1>3 DEF CloseSock
  <2>3. <<>> \in Seq(MessageKinds)
    OBVIOUS
  <2> QED
    BY <2>1, <2>2, <2>3 DEF TypeOK
<1> QED
  BY <1>1, <1>2, <1>3

\* Every step keeps the types.
LEMMA TypeStep ==
    ASSUME TypeOK, PosInRange, NewSockIsNew, [Next]_vars
    PROVE  TypeOK'
<1> USE FdAssumption, BoundAssumption
    DEF TypeOK, Threads, Labels, Kinds, TcpStates, Listen, Pipe, NoThread,
           vars, srvVars, thrVars, netVars, histVars
<1>1. CASE UNCHANGED vars
  BY <1>1
<1>2. CASE Bind
  <2>1. pc' \in [Threads -> Labels]
    BY <1>2 DEF Bind, Goto
  <2>2. listening' \in BOOLEAN
    BY <1>2, Zenon DEF Bind
  <2> QED
    BY <1>2, <2>1, <2>2 DEF Bind
<1>3. CASE BindWait
  BY <1>3 DEF BindWait, Goto
<1>4. CASE BuildFdSet
  <2>1. ASSUME NEW i \in 1..Len(clients) PROVE clients[i].sock \in Fds \cup {BadFd}
    <3>1. clients[i] \in Client
      OBVIOUS
    <3> QED
      BY <3>1 DEF Client
  <2>2. fdSet' \subseteq Fds \cup {BadFd, Listen, Pipe}
    BY <1>4, <2>1 DEF BuildFdSet
  <2>3. pc' \in [Threads -> Labels]
    BY <1>4 DEF BuildFdSet, Goto
  <2> QED
    BY <1>4, <2>2, <2>3 DEF BuildFdSet
<1>5. CASE SelectEnter
  BY <1>5 DEF SelectEnter, Goto
<1>6. CASE SelectReturn
  BY <1>6 DEF SelectReturn, Goto
<1>7. CASE Accept
  <2>1. CASE Listen \notin fdSet
    BY <1>7, <2>1 DEF Accept, Goto
  <2>2. ASSUME NEW f \in Fds, NEW p \in backlog,
               conn' = [conn EXCEPT ![f] = p], backlog' = backlog \ {p}, newsock' = f,
               Listen \in fdSet
        PROVE  TypeOK'
    BY <1>7, <2>2 DEF Accept, Goto
  <2>3. CASE Listen \in fdSet /\ newsock' = BadFd /\ UNCHANGED <<conn, backlog>>
    BY <1>7, <2>3 DEF Accept, Goto
  <2> QED
    BY <1>7, <2>1, <2>2, <2>3 DEF Accept
<1>8. CASE AddClient
  <2> DEFINE c == [sock |-> newsock, peer |-> PeerOf(newsock), remove |-> FALSE, v3 |-> FALSE]
  <2>1. newsock # NoSock
    BY <1>8 DEF AddClient, NewSockIsNew
  <2>2. c \in Client
    BY <2>1 DEF Client, PeerOf
  <2> HIDE DEF c
  <2>3. Append(clients, c) \in Seq(Client)
    BY <2>2
  <2> QED
    BY <1>8, <2>3 DEF AddClient, Goto, c
<1>9. CASE HandleLock
  BY <1>9 DEF HandleLock, Lock, Goto
<1>10. CASE HandleSkip
  BY <1>10 DEF HandleSkip, Advance
<1>11. CASE HandleClient
  <2> DEFINE i == pos["Srv"]
  <2>1. i \in 1..Len(clients) /\ clients[i] \in Client
    BY <1>11 DEF HandleClient, AtEnd
  <2>2. pos' \in [Threads -> Nat \ {0}]
    BY <1>11 DEF HandleClient, Advance
  <2>0. CASE HandleBad
    <3>1. clients' \in Seq(Client)
      BY <2>0, <2>1, MarkProperties DEF HandleBad, SameSockets
    <3> QED
      BY <1>11, <2>0, <2>2, <3>1 DEF HandleClient, HandleBad
  <2>9. SUFFICES ASSUME ~HandleBad PROVE TypeOK'
    BY <2>0
  <2>3. PICK p \in Peers :
             HandleHangup(p) \/ HandleTruncated(p) \/ HandleShort(p) \/ HandleMessage(p)
    BY <1>11, <2>1, <2>9 DEF HandleClient, PeerOf, Client
  <2>4. clients' \in Seq(Client)
    BY <2>1, <2>3, HandleKeepsSockets DEF SameSockets
  <2>5. /\ tcp' \in [Peers -> TcpStates] /\ unread' \in [Peers -> Nat]
        /\ c2s' \in [Peers -> Seq(MessageKinds)] /\ alive' \in BOOLEAN
    <3>1. CASE HandleHangup(p)
      BY <3>1 DEF HandleHangup
    <3>2. CASE HandleTruncated(p) \/ HandleShort(p)
      <4>1. c2s' = [c2s EXCEPT ![p] = <<>>] /\ UNCHANGED <<tcp, unread, alive>>
        BY <3>2 DEF HandleTruncated, HandleShort
      <4>2. <<>> \in Seq(MessageKinds)
        OBVIOUS
      <4> QED
        BY <4>1, <4>2
    <3>3. CASE HandleMessage(p)
      <4>1. c2s' = [c2s EXCEPT ![p] = Tail(@)] /\ c2s[p] # <<>>
        BY <3>3 DEF HandleMessage
      <4>2. c2s' \in [Peers -> Seq(MessageKinds)]
        BY <4>1
      <4> QED
        BY <3>3, <4>2, SendTypes DEF HandleMessage, SendOutcome
    <3> QED
      BY <2>3, <3>1, <3>2, <3>3
  <2> QED
    BY <1>11, <2>2, <2>4, <2>5 DEF HandleClient
<1>12. CASE HandleUnlock
  BY <1>12 DEF HandleUnlock, Unlock, Goto
<1>13. CASE CheckPipe
  BY <1>13 DEF CheckPipe, Goto
<1>14. CASE FritzMessage
  <2>1. Scripts \subseteq Seq(Kinds)
    BY DEF Scripts
  <2> QED
    BY <1>14, <2>1 DEF FritzMessage
<1>15. CASE FritzBroadcast
  BY <1>15 DEF FritzBroadcast, BroadcastLock, Lock, Goto
<1>16. CASE CisrvRun
  BY <1>16 DEF CisrvRun, Goto
<1>17. CASE Shutdown
  BY <1>17 DEF Shutdown
<1>18. CASE JoinSrv
  BY <1>18 DEF JoinSrv, Goto
<1>19. CASE BroadcastDisconnect
  BY <1>19 DEF BroadcastDisconnect, BroadcastLock, Lock, Goto
<1>20. CASE CloseListenSock
  BY <1>20 DEF CloseListenSock, Goto
<1>21. ASSUME NEW t \in Threads, ListStep(t) PROVE TypeOK'
  <2>1. CASE RemoveLock(t)
    BY <2>1 DEF RemoveLock, Lock, Goto
  <2>2. CASE RemoveSkip(t)
    BY <2>2 DEF RemoveSkip, Advance
  <2>3. CASE ShutdownSock(t)
    <3>1. conn' \in [Fds -> Peers \cup {NoPeer}] /\ c2s' \in [Peers -> Seq(MessageKinds)]
          /\ unread' \in [Peers -> Nat]
      BY <2>3, CloseTypes DEF ShutdownSock
    <3>2. pc' \in [Threads -> Labels]
      BY <2>3 DEF ShutdownSock, Goto
    <3> QED
      BY <2>3, <3>1, <3>2 DEF ShutdownSock
  <2>4. CASE DrainAndClose(t)
    <3>1. conn' \in [Fds -> Peers \cup {NoPeer}] /\ c2s' \in [Peers -> Seq(MessageKinds)]
          /\ unread' \in [Peers -> Nat]
      BY <2>4, CloseTypes DEF DrainAndClose
    <3>2. pc' \in [Threads -> Labels]
      BY <2>4 DEF DrainAndClose, Goto
    <3> QED
      BY <2>4, <3>1, <3>2 DEF DrainAndClose
  <2>5. CASE Unlink(t)
    <3>1. clients' \in Seq(Client)
      BY <2>5, RemoveAtProperties DEF Unlink, PosInRange
    <3> QED
      BY <2>5, <3>1 DEF Unlink, Goto
  <2>6. CASE RemoveUnlock(t)
    BY <2>6 DEF RemoveUnlock, Unlock, Goto, AfterRemove
  <2>7. CASE BroadcastSkip(t)
    BY <2>7 DEF BroadcastSkip, Advance
  <2>8. CASE BroadcastSend(t)
    <3>1. pos[t] \in 1..Len(clients)
      BY <2>8 DEF BroadcastSend, AtEnd
    <3> DEFINE p == PeerOf(Cur(t).sock)
    <3>2. \/ p # NoPeer /\ SendOutcome(p)
          \/ p = NoPeer /\ UNCHANGED <<tcp, unread, alive>>
      BY <2>8 DEF BroadcastSend, SendOutcome
    <3>3. Advance(t) \/ UNCHANGED pos
      BY <2>8 DEF BroadcastSend
    <3>4. Mark(pos[t]) \/ UNCHANGED clients
      BY <2>8 DEF BroadcastSend, MarkFailed
    <3>5. got' = [got EXCEPT ![p] = Append(@, Len(log))] \/ UNCHANGED got
      BY <2>8 DEF BroadcastSend
    <3>6. p # NoPeer => p \in Peers
      BY <3>1 DEF PeerOf, Cur
    <3>7. clients' \in Seq(Client)
      BY <3>1, <3>4, MarkProperties DEF SameSockets
    <3>8. pos' \in [Threads -> Nat \ {0}]
      BY <3>3 DEF Advance
    <3>9. got' \in [Peers -> Seq(Nat)]
      <4> HIDE DEF p
      <4>1. CASE UNCHANGED got
        BY <4>1
      <4>2. CASE p \in Peers /\ got' = [got EXCEPT ![p] = Append(got[p], Len(log))]
        <5>1. Append(got[p], Len(log)) \in Seq(Nat)
          BY <4>2
        <5> QED
          BY <4>2, <5>1
      <4>3. CASE p \notin Peers /\ got' = [got EXCEPT ![p] = Append(got[p], Len(log))]
        BY <4>3
      <4> QED
        BY <3>5, <4>1, <4>2, <4>3
    <3>10. tcp' \in [Peers -> TcpStates] /\ unread' \in [Peers -> Nat] /\ alive' \in BOOLEAN
      BY <3>2, <3>6, SendTypes
    <3> QED
      BY <2>8, <3>7, <3>8, <3>9, <3>10 DEF BroadcastSend
  <2>9. CASE BroadcastUnlock(t)
    BY <2>9 DEF BroadcastUnlock, Unlock, Goto
  <2> QED
    BY <1>21, <2>1, <2>2, <2>3, <2>4, <2>5, <2>6, <2>7, <2>8, <2>9 DEF ListStep
<1>22. ASSUME NEW p \in Peers, PeerConnect(p) PROVE TypeOK'
  BY <1>22 DEF PeerConnect
<1>23. ASSUME NEW p \in Peers, PeerRead(p) PROVE TypeOK'
  BY <1>23 DEF PeerRead
<1>24. ASSUME NEW p \in Peers, PeerClose(p) PROVE TypeOK'
  BY <1>24 DEF PeerClose
<1>25. ASSUME NEW p \in Peers, NEW m \in Sayings, PeerSay(p, m) PROVE TypeOK'
  BY <1>25 DEF PeerSay
<1> QED
  BY <1>1, <1>2, <1>3, <1>4, <1>5, <1>6, <1>7, <1>8, <1>9, <1>10, <1>11,
     <1>12, <1>13, <1>14, <1>15, <1>16, <1>17, <1>18, <1>19, <1>20, <1>21,
     <1>22, <1>23, <1>24, <1>25, NextCases

-----------------------------------------------------------------------------
(* Mutual exclusion.                                                       *)

\* Every step keeps the lock with the thread that is in its critical section.
LEMMA LockStep ==
    ASSUME TypeOK, LockHeld, NotYetRunning, [Next]_vars
    PROVE  LockHeld' /\ NotYetRunning'
<1>0. pc \in [Threads -> Labels] /\ lock \in Threads \cup {NoThread}
  BY DEF TypeOK
<1> USE <1>0 DEF LockHeld, NotYetRunning, Threads, NoThread, Critical, srvVars, thrVars, Goto
<1>1. CASE UNCHANGED vars
  BY <1>1 DEF vars
<1>2. CASE Bind \/ BindWait \/ BuildFdSet
  BY <1>2 DEF Bind, BindWait, BuildFdSet
<1>3. CASE SelectEnter \/ SelectReturn \/ Accept \/ AddClient
  BY <1>3 DEF SelectEnter, SelectReturn, Accept, AddClient
<1>4. CASE HandleLock \/ HandleSkip \/ HandleClient
  BY <1>4 DEF HandleLock, HandleSkip, HandleClient, Lock
<1>5. CASE HandleUnlock \/ CheckPipe
  BY <1>5 DEF HandleUnlock, CheckPipe, Unlock
<1>6. CASE FritzMessage \/ FritzBroadcast \/ BroadcastDisconnect
  BY <1>6 DEF FritzMessage, FritzBroadcast, BroadcastDisconnect, BroadcastLock, Lock
<1>7. CASE CisrvRun \/ Shutdown \/ JoinSrv \/ CloseListenSock
  <2>1. CASE CisrvRun
    BY <2>1 DEF CisrvRun
  <2>2. CASE Shutdown \/ JoinSrv
    BY <2>2 DEF Shutdown, JoinSrv
  <2>3. CASE CloseListenSock
    BY <2>3 DEF CloseListenSock
  <2> QED
    BY <1>7, <2>1, <2>2, <2>3
<1>8. ASSUME NEW t \in Threads, ListStep(t) PROVE LockHeld' /\ NotYetRunning'
  <2>1. CASE RemoveLock(t) \/ RemoveSkip(t) \/ ShutdownSock(t)
    BY <2>1 DEF RemoveLock, RemoveSkip, ShutdownSock, Lock
  <2>2. CASE DrainAndClose(t) \/ Unlink(t)
    BY <2>2 DEF DrainAndClose, Unlink
  <2>3. CASE RemoveUnlock(t)
    BY <2>3 DEF RemoveUnlock, Unlock, AfterRemove
  <2>4. CASE BroadcastSkip(t) \/ BroadcastSend(t) \/ BroadcastUnlock(t)
    BY <2>4 DEF BroadcastSkip, BroadcastSend, BroadcastUnlock, Unlock
  <2> QED
    BY <1>8, <2>1, <2>2, <2>3, <2>4 DEF ListStep
<1>9. ASSUME NEW p \in Peers, \/ PeerConnect(p) \/ PeerRead(p) \/ PeerClose(p)
                              \/ \E m \in Sayings : PeerSay(p, m)
      PROVE  LockHeld' /\ NotYetRunning'
  BY <1>9 DEF PeerConnect, PeerRead, PeerClose, PeerSay
<1> QED
  BY <1>1, <1>2, <1>3, <1>4, <1>5, <1>6, <1>7, <1>8, <1>9, NextCases

\* Two threads are never in their critical sections at once.
LEMMA Exclusive ==
    ASSUME LockHeld, NEW t \in Threads, NEW u \in Threads,
           pc[t] \in Critical, pc[u] \in Critical
    PROVE  t = u
  BY DEF LockHeld

-----------------------------------------------------------------------------
(* Positions.                                                              *)

\* A thread that is closing a client points at a record of the list: nobody
\* else changes the list meanwhile.
LEMMA PosStep ==
    ASSUME TypeOK, LockHeld, PosInRange, [Next]_vars
    PROVE  PosInRange'
<1>0. /\ pc \in [Threads -> Labels] /\ pos \in [Threads -> Nat \ {0}]
      /\ clients \in Seq(Client)
  BY DEF TypeOK
<1> USE <1>0 DEF PosInRange, Threads, srvVars, thrVars, Goto
<1>1. CASE UNCHANGED vars
  BY <1>1 DEF vars
<1>2. CASE Bind \/ BindWait \/ BuildFdSet
  BY <1>2 DEF Bind, BindWait, BuildFdSet
<1>3. CASE SelectEnter \/ SelectReturn \/ Accept
  BY <1>3 DEF SelectEnter, SelectReturn, Accept
<1>4. CASE AddClient
  <2>1. \A t \in Threads : pc[t] \notin {"rwait", "unlink"}
    BY <1>4 DEF AddClient, LockHeld, Critical, NoThread
  <2> QED
    BY <1>4, <2>1 DEF AddClient
<1>5. CASE HandleLock \/ HandleSkip
  BY <1>5 DEF HandleLock, HandleSkip, Lock, Advance
<1>6. CASE HandleClient
  <2>1. Len(clients') = Len(clients)
    <3>1. pos["Srv"] \in 1..Len(clients)
      BY <1>6 DEF HandleClient, AtEnd
    <3>2. CASE HandleBad
      BY <3>1, <3>2, MarkProperties DEF HandleBad, SameSockets
    <3>3. ASSUME ~HandleBad PROVE Len(clients') = Len(clients)
      <4>0. clients[pos["Srv"]] \in Client
        BY <3>1
      <4>1. PICK p \in Peers :
                 HandleHangup(p) \/ HandleTruncated(p) \/ HandleShort(p) \/ HandleMessage(p)
        BY <1>6, <3>3, <4>0 DEF HandleClient, PeerOf, Client, TypeOK
      <4> QED
        BY <3>1, <4>1, HandleKeepsSockets DEF SameSockets
    <3> QED
      BY <3>2, <3>3
  <2> QED
    BY <1>6, <2>1 DEF HandleClient, Advance
<1>7. CASE HandleUnlock \/ CheckPipe
  BY <1>7 DEF HandleUnlock, CheckPipe, Unlock
<1>8. CASE FritzMessage \/ FritzBroadcast \/ BroadcastDisconnect
  BY <1>8 DEF FritzMessage, FritzBroadcast, BroadcastDisconnect, BroadcastLock, Lock
<1>9. CASE CisrvRun \/ Shutdown
  BY <1>9 DEF CisrvRun, Shutdown
<1>10. CASE JoinSrv \/ CloseListenSock
  BY <1>10 DEF JoinSrv, CloseListenSock
<1>11. ASSUME NEW t \in Threads, ListStep(t) PROVE PosInRange'
  <2>1. CASE RemoveLock(t) \/ RemoveSkip(t)
    BY <2>1 DEF RemoveLock, RemoveSkip, Lock, Advance
  <2>2. CASE ShutdownSock(t)
    BY <2>2 DEF ShutdownSock, AtEnd
  <2>3. CASE DrainAndClose(t)
    BY <2>3 DEF DrainAndClose
  <2>4. CASE Unlink(t)
    <3>1. \A u \in Threads : u # t => pc[u] \notin {"rwait", "unlink"}
      BY <2>4, Exclusive DEF Unlink, Critical
    <3> QED
      BY <2>4, <3>1 DEF Unlink
  <2>5. CASE RemoveUnlock(t)
    BY <2>5 DEF RemoveUnlock, Unlock, AfterRemove
  <2>6. CASE BroadcastSkip(t) \/ BroadcastUnlock(t)
    BY <2>6 DEF BroadcastSkip, BroadcastUnlock, Unlock, Advance
  <2>7. CASE BroadcastSend(t)
    <3>1. pos[t] \in 1..Len(clients)
      BY <2>7 DEF BroadcastSend, AtEnd
    <3>2. Mark(pos[t]) \/ UNCHANGED clients
      BY <2>7 DEF BroadcastSend, MarkFailed
    <3>3. Len(clients') = Len(clients)
      BY <3>1, <3>2, MarkProperties DEF SameSockets
    <3>4. Advance(t) \/ UNCHANGED pos
      BY <2>7 DEF BroadcastSend
    <3>5. UNCHANGED pc /\ pc[t] = "send"
      BY <2>7 DEF BroadcastSend
    <3> QED
      BY <3>3, <3>4, <3>5 DEF Advance
  <2> QED
    BY <1>11, <2>1, <2>2, <2>3, <2>4, <2>5, <2>6, <2>7 DEF ListStep
<1>12. ASSUME NEW p \in Peers, \/ PeerConnect(p) \/ PeerRead(p) \/ PeerClose(p)
                               \/ \E m \in Sayings : PeerSay(p, m)
       PROVE  PosInRange'
  BY <1>12 DEF PeerConnect, PeerRead, PeerClose, PeerSay
<1> QED
  BY <1>1, <1>2, <1>3, <1>4, <1>5, <1>6, <1>7, <1>8, <1>9, <1>10, <1>11, <1>12, NextCases

-----------------------------------------------------------------------------
(* The ownership of descriptors.                                           *)

\* A step that neither opens nor closes a descriptor, nor adds or removes a
\* client.
Quiet ==
    /\ SameSockets(clients, clients') /\ conn' = conn /\ newsock' = newsock
    /\ pc'["Srv"] = "add" <=> pc["Srv"] = "add"
    /\ \A t \in Threads : /\ pc[t] = "unlink" => pc'[t] = "unlink" /\ pos'[t] = pos[t]
                          /\ pc'[t] = "unlink" => pc[t] = "unlink"
    /\ backlog' \subseteq backlog
    /\ \A p \in Peers : tcp'[p] = "idle" <=> tcp[p] = "idle"

LEMMA QuietKeepsOwnership ==
    ASSUME TypeOK, Ownership, Quiet
    PROVE  Ownership'
<1>0. clients \in Seq(Client) /\ clients' \in Seq(Client) /\ Len(clients') = Len(clients)
  BY DEF TypeOK, Quiet, SameSockets
<1>1. \A j \in 1..Len(clients) : /\ clients'[j].sock = clients[j].sock
                                 /\ clients'[j].peer = clients[j].peer
  BY DEF Quiet, SameSockets
<1>2. \A t \in Threads : pc[t] = "unlink" => pc'[t] = "unlink" /\ pos'[t] = pos[t]
  BY DEF Quiet
<1>9. \A j : Closing(j) => Closing(j)'
  BY <1>2 DEF Closing
<1>3. OwnSocket'
  BY <1>0, <1>1, <1>9 DEF Ownership, OwnSocket, Quiet, PeerOf
<1>4. RecordsMakeSense'
  BY <1>0, <1>1 DEF Ownership, RecordsMakeSense
<1>5. OnePeerPerFd'
  BY DEF Ownership, OnePeerPerFd, Quiet
<1>6. \A p \in Peers : Unknown(p) => Unknown(p)'
  BY <1>0, <1>1 DEF Unknown, Quiet
<1>7. NotYetAccepted'
  BY <1>6 DEF Ownership, NotYetAccepted, Quiet
<1>8. NewSockIsNew'
  BY <1>0, <1>1 DEF Ownership, NewSockIsNew, Quiet
<1> QED
  BY <1>3, <1>4, <1>5, <1>7, <1>8 DEF Ownership

\* send() never makes a connection idle, nor an idle one busy.
LEMMA SendKeepsIdle ==
    ASSUME TypeOK, NEW p \in Peers, SendOutcome(p)
    PROVE  \A q \in Peers : tcp'[q] = "idle" <=> tcp[q] = "idle"
<1>1. CASE SendDelivers(p)
  BY <1>1 DEF SendDelivers
<1>2. CASE SendIsLost(p)
  BY <1>2 DEF SendIsLost, TypeOK
<1>3. CASE SendFails(p)
  BY <1>3 DEF SendFails, TypeOK
<1>4. CASE SendKills(p)
  BY <1>4 DEF SendKills
<1> QED
  BY <1>1, <1>2, <1>3, <1>4 DEF SendOutcome

\* The steps that leave the descriptors and the list's members alone.
LEMMA QuietSteps ==
    ASSUME TypeOK, LockHeld, NotYetRunning, Ownership,
           \/ UNCHANGED vars
           \/ Bind \/ BindWait \/ BuildFdSet \/ SelectEnter \/ SelectReturn
           \/ HandleLock \/ HandleSkip \/ HandleClient \/ HandleUnlock \/ CheckPipe
           \/ FritzMessage \/ FritzBroadcast
           \/ CisrvRun \/ Shutdown \/ JoinSrv \/ BroadcastDisconnect \/ CloseListenSock
           \/ \E t \in Threads : \/ RemoveLock(t) \/ RemoveSkip(t) \/ RemoveUnlock(t)
                                 \/ BroadcastSkip(t) \/ BroadcastSend(t) \/ BroadcastUnlock(t)
           \/ \E p \in Peers : \/ PeerRead(p) \/ PeerClose(p)
                               \/ \E m \in Sayings : PeerSay(p, m)
    PROVE  Quiet
<1>0. /\ clients \in Seq(Client) /\ pc \in [Threads -> Labels]
      /\ pos \in [Threads -> Nat \ {0}] /\ tcp \in [Peers -> TcpStates]
  BY DEF TypeOK
<1>99. UNCHANGED clients => SameSockets(clients, clients')
  BY <1>0 DEF SameSockets
<1> USE <1>0, <1>99 DEF Quiet, Threads, srvVars, thrVars, netVars, histVars, Goto
<1>1. CASE UNCHANGED vars
  BY <1>1 DEF vars
<1>2. CASE Bind \/ BindWait \/ BuildFdSet
  BY <1>2 DEF Bind, BindWait, BuildFdSet
<1>3. CASE SelectEnter \/ SelectReturn
  BY <1>3 DEF SelectEnter, SelectReturn
<1>4. CASE HandleLock \/ HandleSkip
  BY <1>4 DEF HandleLock, HandleSkip, Lock, Advance
<1>5. CASE HandleClient
  <2>1. pos["Srv"] \in 1..Len(clients) /\ clients[pos["Srv"]] \in Client
    BY <1>5 DEF HandleClient, AtEnd
  <2>2. SameSockets(clients, clients') /\ \A q \in Peers : tcp'[q] = "idle" <=> tcp[q] = "idle"
    <3>1. CASE HandleBad
      BY <2>1, <3>1, MarkProperties DEF HandleBad
    <3>2. ASSUME NEW p \in Peers,
                 HandleHangup(p) \/ HandleTruncated(p) \/ HandleShort(p) \/ HandleMessage(p)
          PROVE  \A q \in Peers : tcp'[q] = "idle" <=> tcp[q] = "idle"
      <4>1. CASE HandleHangup(p)
        BY <4>1 DEF HandleHangup
      <4>2. CASE HandleTruncated(p) \/ HandleShort(p)
        BY <4>2 DEF HandleTruncated, HandleShort
      <4>3. CASE HandleMessage(p)
        BY <4>3, SendKeepsIdle DEF HandleMessage, SendOutcome
      <4> QED
        BY <3>2, <4>1, <4>2, <4>3
    <3>3. CASE ~HandleBad
      <4>1. PICK p \in Peers :
                 HandleHangup(p) \/ HandleTruncated(p) \/ HandleShort(p) \/ HandleMessage(p)
        BY <1>5, <2>1, <3>3 DEF HandleClient, PeerOf, Client, TypeOK
      <4> QED
        BY <2>1, <4>1, <3>2, HandleKeepsSockets
    <3> QED
      BY <3>1, <3>3
  <2> QED
    BY <1>5, <2>2 DEF HandleClient, Advance
<1>6. CASE HandleUnlock \/ CheckPipe
  BY <1>6 DEF HandleUnlock, CheckPipe, Unlock
<1>7. CASE FritzMessage \/ FritzBroadcast \/ BroadcastDisconnect
  BY <1>7 DEF FritzMessage, FritzBroadcast, BroadcastDisconnect, BroadcastLock, Lock
<1>8. CASE CisrvRun \/ Shutdown \/ JoinSrv
  BY <1>8 DEF CisrvRun, Shutdown, JoinSrv, NotYetRunning
<1>9. CASE CloseListenSock
  BY <1>9 DEF CloseListenSock, Ownership, NotYetAccepted
<1>10. ASSUME NEW t \in Threads, RemoveLock(t) \/ RemoveSkip(t) PROVE Quiet
  BY <1>10 DEF RemoveLock, RemoveSkip, Lock, Advance
<1>11. ASSUME NEW t \in Threads, RemoveUnlock(t) PROVE Quiet
  BY <1>11 DEF RemoveUnlock, Unlock, AfterRemove
<1>12. ASSUME NEW t \in Threads, BroadcastSkip(t) \/ BroadcastUnlock(t) PROVE Quiet
  BY <1>12 DEF BroadcastSkip, BroadcastUnlock, Unlock, Advance
<1>13. ASSUME NEW t \in Threads, BroadcastSend(t) PROVE Quiet
  <2>1. pos[t] \in 1..Len(clients) /\ clients[pos[t]] \in Client
    BY <1>13 DEF BroadcastSend, AtEnd
  <2>2. Mark(pos[t]) \/ UNCHANGED clients
    BY <1>13 DEF BroadcastSend, MarkFailed
  <2>3. SameSockets(clients, clients')
    BY <2>1, <2>2, MarkProperties
  <2> DEFINE p == PeerOf(Cur(t).sock)
  <2>4. \/ p # NoPeer /\ SendOutcome(p)
        \/ p = NoPeer /\ UNCHANGED <<tcp, unread, alive>>
    BY <1>13 DEF BroadcastSend, SendOutcome
  <2>5. p # NoPeer => p \in Peers
    BY <2>1 DEF PeerOf, TypeOK
  <2>6. \A q \in Peers : tcp'[q] = "idle" <=> tcp[q] = "idle"
    BY <2>4, <2>5, SendKeepsIdle
  <2>7. Advance(t) \/ UNCHANGED pos
    BY <1>13 DEF BroadcastSend
  <2>8. pc[t] = "send" /\ UNCHANGED <<pc, conn, newsock, backlog>>
    BY <1>13 DEF BroadcastSend
  <2> QED
    BY <2>3, <2>6, <2>7, <2>8 DEF Advance
<1>14. ASSUME NEW p \in Peers, \/ PeerRead(p) \/ PeerClose(p)
                               \/ \E m \in Sayings : PeerSay(p, m)
       PROVE  Quiet
  BY <1>14 DEF PeerRead, PeerClose, PeerSay, Connected
<1> QED
  BY <1>1, <1>2, <1>3, <1>4, <1>5, <1>6, <1>7, <1>8, <1>9, <1>10, <1>11, <1>12, <1>13, <1>14

\* accept() gives a connection out of the backlog a closed descriptor, which
\* no record of the list has.
LEMMA AcceptKeepsOwnership ==
    ASSUME TypeOK, Ownership, Accept
    PROVE  Ownership'
<1>0. /\ clients \in Seq(Client) /\ pc \in [Threads -> Labels]
      /\ conn \in [Fds -> Peers \cup {NoPeer}] /\ backlog \subseteq Peers
  BY DEF TypeOK
<1>1. /\ pc["Srv"] = "accept" /\ UNCHANGED <<clients, pos, tcp>>
      /\ \A t \in Threads \ {"Srv"} : pc'[t] = pc[t]
      /\ pc'["Srv"] \in {"add", "hlock"}
  BY <1>0 DEF Accept, Goto, srvVars, thrVars, Threads
<1>2. \A j : Closing(j)' <=> Closing(j)
  BY <1>0, <1>1 DEF Closing, Threads
<1>3. newsock = NoSock
  BY <1>1 DEF Ownership, NewSockIsNew
<1>4. CASE Listen \notin fdSet
  <2>1. pc'["Srv"] = "hlock" /\ UNCHANGED <<conn, backlog, newsock>>
    BY <1>0, <1>4 DEF Accept, Goto, Threads
  <2>2. Quiet
    BY <1>0, <1>1, <2>1 DEF Quiet, SameSockets, Threads
  <2> QED
    BY <2>2, QuietKeepsOwnership
<1>5. CASE Listen \in fdSet /\ newsock' = BadFd /\ UNCHANGED <<conn, backlog>>
  <2>1. pc'["Srv"] = "add"
    BY <1>0, <1>5 DEF Accept, Goto, Threads
  <2>2. OwnSocket' /\ RecordsMakeSense' /\ OnePeerPerFd' /\ NotYetAccepted'
    BY <1>1, <1>2, <1>5 DEF Ownership, OwnSocket, RecordsMakeSense, OnePeerPerFd,
                            NotYetAccepted, PeerOf, Unknown
  <2>3. NewSockIsNew'
    BY <1>5, <2>1, FdAssumption DEF NewSockIsNew
  <2> QED
    BY <2>2, <2>3 DEF Ownership
<1>6. ASSUME NEW f \in Fds, NEW p \in backlog, Listen \in fdSet, conn[f] = NoPeer,
             conn' = [conn EXCEPT ![f] = p], backlog' = backlog \ {p}, newsock' = f
      PROVE  Ownership'
  <2>1. p \in Peers /\ Unknown(p) /\ tcp[p] # "idle" /\ p # NoPeer
    BY <1>0, FdAssumption DEF Ownership, NotYetAccepted
  <2>2. pc'["Srv"] = "add"
    BY <1>0, <1>6 DEF Accept, Goto, Threads
  <2>3. conn'[f] = p /\ \A g \in Fds : g # f => conn'[g] = conn[g]
    BY <1>0, <1>6
  <2>4. OwnSocket'
    <3>1. ASSUME NEW j \in 1..Len(clients), ~Closing(j)
          PROVE  PeerOf(clients[j].sock)' = clients[j].peer
      <4>1. PeerOf(clients[j].sock) = clients[j].peer
        BY <3>1 DEF Ownership, OwnSocket
      <4>2. clients[j].sock # f
        BY <4>1, <1>6, FdAssumption DEF PeerOf, Ownership, RecordsMakeSense
      <4> QED
        BY <1>1, <2>3, <4>1, <4>2 DEF PeerOf
    <3> QED
      BY <1>1, <1>2, <3>1 DEF OwnSocket
  <2>5. RecordsMakeSense'
    BY <1>1 DEF Ownership, RecordsMakeSense
  <2>6. OnePeerPerFd'
    BY <2>1, <2>3 DEF Ownership, OnePeerPerFd, Unknown
  <2>7. NotYetAccepted'
    BY <1>1, <1>6, <2>1, <2>3 DEF Ownership, NotYetAccepted, Unknown
  <2>8. NewSockIsNew'
    BY <1>1, <1>6, <2>1, <2>2, <2>3, FdAssumption DEF NewSockIsNew, Unknown
  <2> QED
    BY <2>4, <2>5, <2>6, <2>7, <2>8 DEF Ownership
<1> QED
  BY <1>4, <1>5, <1>6 DEF Accept

\* The record of a new client is the only one of its descriptor and its peer.
LEMMA AddKeepsOwnership ==
    ASSUME TypeOK, LockHeld, Ownership, AddClient
    PROVE  Ownership'
<1>0. /\ clients \in Seq(Client) /\ pc \in [Threads -> Labels]
      /\ conn \in [Fds -> Peers \cup {NoPeer}] /\ newsock \in Fds \cup {BadFd, NoSock}
  BY DEF TypeOK
<1>1. /\ pc["Srv"] = "add" /\ lock = NoThread /\ newsock' = NoSock
      /\ UNCHANGED <<conn, backlog, tcp, pos>>
      /\ pc'["Srv"] = "hlock" /\ \A t \in Threads \ {"Srv"} : pc'[t] = pc[t]
  BY <1>0 DEF AddClient, Goto, netVars, Threads
<1>2. \A j : ~Closing(j) /\ ~Closing(j)'
  BY <1>1 DEF Closing, LockHeld, Critical, NoThread, Threads
<1>3. newsock # NoSock
  BY <1>1 DEF Ownership, NewSockIsNew
<1>4. NewSockIsNew'
  BY <1>1, FdAssumption DEF NewSockIsNew
<1>5. OnePeerPerFd'
  BY <1>1 DEF Ownership, OnePeerPerFd
<1>6. CASE UNCHANGED clients
  <2>1. OwnSocket' /\ RecordsMakeSense' /\ NotYetAccepted'
    BY <1>1, <1>2, <1>6 DEF Ownership, OwnSocket, RecordsMakeSense, NotYetAccepted,
                            PeerOf, Unknown
  <2> QED
    BY <1>4, <1>5, <2>1 DEF Ownership
<1>7. CASE ~(UNCHANGED clients)
  <2> DEFINE c == [sock |-> newsock, peer |-> PeerOf(newsock),
                   remove |-> FALSE, v3 |-> FALSE]
             n == Len(clients)
  <2>1. clients' = Append(clients, c)
    BY <1>7 DEF AddClient
  <2>2. c \in Client /\ c.sock = newsock /\ c.peer = PeerOf(newsock)
    BY <1>0, <1>3 DEF Client, PeerOf
  <2> HIDE DEF c
  <2>3. /\ Len(clients') = n + 1 /\ clients'[n + 1] = c
        /\ \A j \in 1..n : clients'[j] = clients[j]
    BY <1>0, <2>1, <2>2
  <2>4. n \in Nat
    BY <1>0
  <2> HIDE DEF n
  <2>5. c.sock = BadFd <=> c.peer = NoPeer
    BY <1>0, <1>3, <2>2, FdAssumption DEF PeerOf, Ownership, NewSockIsNew
  <2>6. \A j \in 1..n : c.peer # NoPeer => clients[j].peer # c.peer
    BY <1>0, <1>3, <2>2 DEF n, PeerOf, Ownership, NewSockIsNew
  <2>7. OwnSocket'
    <3>1. \A j \in 1..n : PeerOf(clients[j].sock) = clients[j].peer
      BY <1>2 DEF n, Ownership, OwnSocket
    <3>2. \A s : PeerOf(s)' = PeerOf(s)
      BY <1>1 DEF PeerOf
    <3>3. \A j \in 1..n + 1 : PeerOf(clients'[j].sock) = clients'[j].peer
      BY <2>2, <2>3, <2>4, <3>1
    <3> QED
      BY <2>3, <3>2, <3>3 DEF OwnSocket
  <2>8. RecordsMakeSense'
    <3>1. /\ \A j \in 1..n : clients[j].sock = BadFd <=> clients[j].peer = NoPeer
          /\ \A i, j \in 1..n : i # j /\ clients[i].peer # NoPeer
                                => clients[i].peer # clients[j].peer
      BY DEF n, Ownership, RecordsMakeSense
    <3> QED
      BY <2>3, <2>4, <2>5, <2>6, <3>1 DEF RecordsMakeSense
  <2>9. NotYetAccepted'
    <3>1. ASSUME NEW p \in Peers, Unknown(p) PROVE Unknown(p)'
      <4>1. c.peer # p
        BY <1>0, <2>2, <3>1, FdAssumption DEF PeerOf, Unknown
      <4> QED
        BY <1>1, <2>3, <2>4, <3>1, <4>1 DEF n, Unknown
    <3> QED
      BY <1>1, <3>1 DEF Ownership, NotYetAccepted
  <2> QED
    BY <1>4, <1>5, <2>7, <2>8, <2>9 DEF Ownership
<1> QED
  BY <1>6, <1>7

\* A connection that has just come in is nobody's yet.
LEMMA ConnectKeepsOwnership ==
    ASSUME TypeOK, Ownership, NEW p \in Peers, PeerConnect(p)
    PROVE  Ownership'
<1>1. /\ UNCHANGED <<clients, conn, pc, pos, newsock>> /\ tcp[p] = "idle"
      /\ backlog' = backlog \cup {p} /\ tcp'[p] = "up"
      /\ \A q \in Peers : q # p => tcp'[q] = tcp[q]
  BY DEF PeerConnect, srvVars, thrVars, TypeOK
<1>2. OwnSocket' /\ RecordsMakeSense' /\ OnePeerPerFd' /\ NewSockIsNew'
  BY <1>1 DEF Ownership, OwnSocket, RecordsMakeSense, OnePeerPerFd, NewSockIsNew,
              PeerOf, Closing
<1>3. NotYetAccepted'
  BY <1>1 DEF Ownership, NotYetAccepted, Unknown
<1> QED
  BY <1>2, <1>3 DEF Ownership

\* Closing the descriptor of the record i makes i the one record without a
\* descriptor; nobody else had it.
LEMMA CloseKeepsOwnership ==
    ASSUME TypeOK, Ownership, NEW i \in 1..Len(clients), \A j : ~Closing(j),
           \A j : Closing(j)' <=> j = i,
           CloseSock(clients[i].sock),
           UNCHANGED <<clients, backlog, tcp, newsock>>,
           pc'["Srv"] = "add" <=> pc["Srv"] = "add"
    PROVE  Ownership'
<1>0. /\ clients \in Seq(Client) /\ conn \in [Fds -> Peers \cup {NoPeer}]
      /\ clients[i] \in Client
  BY DEF TypeOK
<1> DEFINE f == clients[i].sock
<1>1. \A j \in 1..Len(clients) : PeerOf(clients[j].sock) = clients[j].peer
  BY DEF Ownership, OwnSocket
<1>3. RecordsMakeSense'
  BY DEF Ownership, RecordsMakeSense
<1>4. CASE PeerOf(f) = NoPeer
  <2>1. UNCHANGED conn
    BY <1>4 DEF CloseSock
  <2>2. OwnSocket' /\ OnePeerPerFd' /\ NotYetAccepted' /\ NewSockIsNew'
    BY <1>1, <2>1 DEF OwnSocket, PeerOf, Ownership, OnePeerPerFd, NotYetAccepted, Unknown,
                      NewSockIsNew
  <2> QED
    BY <1>3, <2>2 DEF Ownership
<1>5. CASE PeerOf(f) # NoPeer
  <2>1. f \in Fds /\ conn[f] = clients[i].peer /\ clients[i].peer # NoPeer
    BY <1>1, <1>5 DEF PeerOf
  <2>2. conn' = [conn EXCEPT ![f] = NoPeer]
    BY <1>5 DEF CloseSock
  <2>3. conn'[f] = NoPeer /\ \A g \in Fds : g # f => conn'[g] = conn[g]
    BY <1>0, <2>1, <2>2
  <2>4. ASSUME NEW j \in 1..Len(clients), j # i
        PROVE  PeerOf(clients[j].sock)' = clients[j].peer
    <3>1. PeerOf(clients[j].sock) = clients[j].peer /\ clients[j].peer # clients[i].peer
      BY <1>1, <2>1, <2>4 DEF Ownership, RecordsMakeSense
    <3>2. clients[j].sock # f
      BY <2>1, <3>1 DEF PeerOf
    <3> QED
      BY <2>3, <3>1, <3>2 DEF PeerOf
  <2>5. OwnSocket'
    BY <2>4 DEF OwnSocket
  <2>6. OnePeerPerFd'
    BY <2>3 DEF Ownership, OnePeerPerFd
  <2>7. ASSUME NEW p \in Peers, Unknown(p) PROVE Unknown(p)'
    BY <2>3, <2>7, FdAssumption DEF Unknown
  <2>8. NotYetAccepted'
    BY <2>7 DEF Ownership, NotYetAccepted
  <2>9. NewSockIsNew'
    <3>1. newsock \in Fds => newsock # f
      BY <2>1 DEF Ownership, NewSockIsNew
    <3> QED
      BY <2>3, <3>1 DEF Ownership, NewSockIsNew
  <2> QED
    BY <1>3, <2>5, <2>6, <2>8, <2>9 DEF Ownership
<1> QED
  BY <1>4, <1>5

LEMMA ShutdownKeepsOwnership ==
    ASSUME TypeOK, LockHeld, Ownership, NEW t \in Threads,
           ShutdownSock(t) \/ DrainAndClose(t), PosInRange
    PROVE  Ownership'
<1>0. /\ clients \in Seq(Client) /\ pc \in [Threads -> Labels]
      /\ pos \in [Threads -> Nat \ {0}]
  BY DEF TypeOK
<1>1. pc[t] \in {"rem", "rwait"} /\ pos[t] \in 1..Len(clients)
  BY <1>0 DEF ShutdownSock, DrainAndClose, AtEnd, PosInRange
<1>2. \A u \in Threads : u # t => pc[u] \notin Critical
  BY <1>1, Exclusive DEF Critical
<1>3. \A j : ~Closing(j)
  BY <1>1, <1>2 DEF Closing, Critical
<1>4. /\ UNCHANGED <<clients, backlog, tcp, newsock, pos>>
      /\ \A u \in Threads : u # t => pc'[u] = pc[u]
      /\ pc'[t] \in {"rwait", "unlink"} /\ pc[t] # "add"
  BY <1>0, <1>1 DEF ShutdownSock, DrainAndClose, Goto, srvVars
<1>5. pc'["Srv"] = "add" <=> pc["Srv"] = "add"
  BY <1>4 DEF Threads
<1>6. CASE pc'[t] = "rwait"
  <2>1. UNCHANGED conn
    BY <1>0, <1>6 DEF ShutdownSock, DrainAndClose, Goto
  <2>2. Quiet
    BY <1>0, <1>1, <1>4, <1>6, <2>1 DEF Quiet, SameSockets, Threads
  <2> QED
    BY <2>2, QuietKeepsOwnership
<1>7. CASE pc'[t] = "unlink"
  <2> DEFINE i == pos[t]
  <2>1. CloseSock(clients[i].sock)
    BY <1>0, <1>7 DEF ShutdownSock, DrainAndClose, Goto, Cur
  <2>2. \A j : Closing(j)' <=> j = i
    BY <1>2, <1>4, <1>7 DEF Closing, Critical
  <2> HIDE DEF i
  <2> QED
    BY <1>1, <1>3, <1>4, <1>5, <2>1, <2>2, CloseKeepsOwnership DEF i
<1> QED
  BY <1>4, <1>6, <1>7

\* With the record of the closed descriptor out of the list, every record has
\* its descriptor again.
LEMMA UnlinkKeepsOwnership ==
    ASSUME TypeOK, LockHeld, PosInRange, Ownership, NEW t \in Threads, Unlink(t)
    PROVE  Ownership'
<1> DEFINE i == pos[t]
           n == Len(clients)
<1>0. /\ clients \in Seq(Client) /\ pc \in [Threads -> Labels] /\ i \in 1..n /\ n \in Nat
  BY DEF TypeOK, Unlink, PosInRange
<1>1. /\ UNCHANGED <<conn, backlog, tcp, newsock, pos>> /\ pc[t] = "unlink"
      /\ \A u \in Threads : u # t => pc'[u] = pc[u]
      /\ pc'[t] = "rem"
  BY <1>0 DEF Unlink, Goto, netVars
<1>2. \A u \in Threads : u # t => pc[u] \notin Critical
  BY <1>1, Exclusive DEF Critical
<1>3. \A j : Closing(j) <=> j = i
  BY <1>1, <1>2 DEF Closing, Critical
<1>4. \A j : ~Closing(j)'
  BY <1>1, <1>2 DEF Closing, Critical
<1>5. clients' = RemoveAt(clients, i)
  BY DEF Unlink
<1>6. /\ clients' \in Seq(Client) /\ Len(clients') = n - 1
      /\ \A j \in 1..n - 1 : clients'[j] = IF j < i THEN clients[j] ELSE clients[j + 1]
  <2> HIDE DEF i
  <2> QED
    BY <1>0, <1>5, RemoveAtProperties
<1> DEFINE Old(j) == IF j < i THEN j ELSE j + 1
<1> HIDE DEF i, n
<1>7. \A j \in 1..n - 1 : Old(j) \in 1..n /\ Old(j) # i /\ clients'[j] = clients[Old(j)]
  BY <1>0, <1>6
<1>8. \A j, k \in 1..n - 1 : j # k => Old(j) # Old(k)
  BY <1>0
<1> HIDE DEF Old
<1>9. OwnSocket'
  <2>1. \A j \in 1..n : j # i => PeerOf(clients[j].sock) = clients[j].peer
    BY <1>3 DEF n, Ownership, OwnSocket
  <2>2. \A s : PeerOf(s)' = PeerOf(s)
    BY <1>1 DEF PeerOf
  <2>3. \A j \in 1..n - 1 : PeerOf(clients'[j].sock) = clients'[j].peer
    BY <1>7, <2>1
  <2> QED
    BY <1>6, <2>2, <2>3 DEF OwnSocket
<1>10. RecordsMakeSense'
  <2>1. /\ \A j \in 1..n : clients[j].sock = BadFd <=> clients[j].peer = NoPeer
        /\ \A j, k \in 1..n : j # k /\ clients[j].peer # NoPeer
                              => clients[j].peer # clients[k].peer
    BY DEF n, Ownership, RecordsMakeSense
  <2>2. \A j \in 1..n - 1 : clients'[j].sock = BadFd <=> clients'[j].peer = NoPeer
    BY <1>7, <2>1
  <2>3. \A j, k \in 1..n - 1 : j # k /\ clients'[j].peer # NoPeer
                                => clients'[j].peer # clients'[k].peer
    BY <1>7, <1>8, <2>1
  <2> QED
    BY <1>6, <2>2, <2>3 DEF RecordsMakeSense
<1>11. OnePeerPerFd'
  BY <1>1 DEF Ownership, OnePeerPerFd
<1>12. \A p : (\A j \in 1..n : clients[j].peer # p) => \A j \in 1..n - 1 : clients'[j].peer # p
  BY <1>7
<1>13. NotYetAccepted'
  BY <1>1, <1>6, <1>12 DEF n, Ownership, NotYetAccepted, Unknown
<1>14. pc'["Srv"] = "add" <=> pc["Srv"] = "add"
  BY <1>1 DEF Threads
<1>15. NewSockIsNew'
  BY <1>1, <1>6, <1>12, <1>14 DEF n, Ownership, NewSockIsNew
<1> QED
  BY <1>9, <1>10, <1>11, <1>13, <1>15 DEF Ownership

-----------------------------------------------------------------------------
(* The inductive invariant and the theorems.                               *)

LEMMA InitInv == Init => IInv
<1> SUFFICES ASSUME Init PROVE IInv
  OBVIOUS
<1>1. TypeOK
  <2>1. <<>> \in Seq(Client) /\ <<>> \in Seq(Kinds) /\ <<>> \in Seq(Nat)
        /\ <<>> \in Seq(MessageKinds)
    OBVIOUS
  <2>2. pc \in [Threads -> Labels] /\ pos \in [Threads -> Nat \ {0}]
    BY DEF Init, Labels
  <2>3. /\ conn \in [Fds -> Peers \cup {NoPeer}] /\ tcp \in [Peers -> TcpStates]
        /\ said \in [Peers -> SUBSET MessageKinds] /\ unread \in [Peers -> Nat]
    BY DEF Init, TcpStates
  <2>4. /\ c2s \in [Peers -> Seq(MessageKinds)]
        /\ got \in [Peers -> Seq(Nat)] /\ due \in [Peers -> Seq(Nat)]
    BY <2>1 DEF Init
  <2>5. /\ state \in {"Initialized", "Connected", "Running"} /\ clients \in Seq(Client)
        /\ lock \in Threads \cup {NoThread} /\ backlog \subseteq Peers
        /\ fdSet \subseteq Fds \cup {BadFd, Listen, Pipe}
        /\ newsock \in Fds \cup {BadFd, NoSock}
        /\ script \in Seq(Kinds) /\ log \in Seq(Kinds)
    BY <2>1 DEF Init, NoThread
  <2>6. pipe \in BOOLEAN /\ listening \in BOOLEAN /\ alive \in BOOLEAN
    BY Zenon DEF Init
  <2> QED
    BY <2>2, <2>3, <2>4, <2>5, <2>6 DEF TypeOK
<1>2. LockHeld /\ NotYetRunning /\ PosInRange
  BY DEF Init, LockHeld, NotYetRunning, PosInRange, Threads, Critical, NoThread
<1>3. Ownership
  BY FdAssumption DEF Init, Ownership, OwnSocket, RecordsMakeSense, OnePeerPerFd,
     NotYetAccepted, NewSockIsNew, Unknown, Threads
<1> QED
  BY <1>1, <1>2, <1>3 DEF IInv

LEMMA OwnStep ==
    ASSUME IInv, [Next]_vars
    PROVE  Ownership'
<1> USE DEF IInv
<1>1. CASE Accept
  BY <1>1, AcceptKeepsOwnership
<1>2. CASE AddClient
  BY <1>2, AddKeepsOwnership
<1>3. ASSUME NEW t \in Threads, ShutdownSock(t) \/ DrainAndClose(t) PROVE Ownership'
  BY <1>3, ShutdownKeepsOwnership
<1>4. ASSUME NEW t \in Threads, Unlink(t) PROVE Ownership'
  BY <1>4, UnlinkKeepsOwnership
<1>5. ASSUME NEW p \in Peers, PeerConnect(p) PROVE Ownership'
  BY <1>5, ConnectKeepsOwnership
<1>6. CASE Quiet
  BY <1>6, QuietKeepsOwnership
<1> QED
  BY <1>1, <1>2, <1>3, <1>4, <1>5, <1>6, NextCases, QuietSteps DEF ListStep

\* IInv is inductive: it holds of the start and no step of any thread or client
\* leaves it.
LEMMA StepInv == IInv /\ [Next]_vars => IInv'
  BY TypeStep, LockStep, PosStep, OwnStep DEF IInv, Ownership

\* The inductive invariant holds in every reachable state of the server.
THEOREM InvHolds == Spec => []IInv
  BY InitInv, StepInv, PTL DEF Spec

\* Every variable of the server, its threads and its connections keeps its
\* type, whatever the threads and the clients do.
THEOREM TypeCorrect == Spec => []TypeOK
<1>1. IInv => TypeOK
  BY DEF IInv
<1> QED
  BY <1>1, InvHolds, PTL

\* clist_lock is held exactly by the thread inside its critical section: the
\* three threads never walk or change the client list at the same time.
THEOREM MutualExclusion == Spec => []LockHeld
<1>1. IInv => LockHeld
  BY DEF IInv
<1> QED
  BY <1>1, InvHolds, PTL

\* Although descriptors are closed by three threads and handed out again by
\* accept(), a record of the client list never stands for another client's
\* connection or for a closed one.
THEOREM SocketsAreOwned == Spec => []OwnSocket
<1>1. IInv => OwnSocket
  BY DEF IInv, Ownership
<1> QED
  BY <1>1, InvHolds, PTL

\* No descriptor is in the client list twice, so that none is written to twice
\* by a broadcast nor closed twice.
THEOREM SocketsAreDistinct == Spec => []DistinctSockets
<1>1. IInv => DistinctSockets
  <2> SUFFICES ASSUME IInv,
                      NEW i \in 1..Len(clients), NEW j \in 1..Len(clients), i # j,
                      ~Closing(i), ~Closing(j), clients[i].peer # NoPeer
               PROVE  clients[i].sock # clients[j].sock
    BY DEF DistinctSockets
  <2>1. /\ PeerOf(clients[i].sock) = clients[i].peer
        /\ PeerOf(clients[j].sock) = clients[j].peer
    BY DEF IInv, Ownership, OwnSocket
  <2>2. clients[i].peer # clients[j].peer
    BY DEF IInv, Ownership, RecordsMakeSense
  <2> QED
    BY <2>1, <2>2
<1> QED
  BY <1>1, InvHolds, PTL

-----------------------------------------------------------------------------
(* The delivery of broadcasts.                                             *)

\* The broadcast that is under way has yet to come to p.
Awaits(p) ==
    \E t \in Threads :
        /\ pc[t] = "send"
        /\ \E i \in 1..Len(clients) : /\ i >= pos[t] /\ clients[i].peer = p
                                      /\ Wants(clients[i], log[Len(log)])

\* A peer whose connection stands has got all it was listed for, but for the
\* broadcast under way; one whose connection has gone gets nothing any more.
Sending ==
    \A p \in Peers :
        /\ tcp[p] \in {"idle", "up"} =>
              due[p] = IF Awaits(p) THEN Append(got[p], Len(log)) ELSE got[p]
        /\ IsPrefix(got[p], due[p])

LEMMA PrefixProperties ==
    ASSUME NEW s \in Seq(Nat), NEW t \in Seq(Nat), NEW n \in Nat
    PROVE  /\ IsPrefix(s, s) /\ IsPrefix(s, Append(s, n))
           /\ IsPrefix(s, t) => IsPrefix(s, Append(t, n))
<1>1. IsPrefix(s, s)
  BY DEF IsPrefix
<1>2. ASSUME NEW u \in Seq(Nat), NEW v \in Seq(Nat)
      PROVE  IsPrefix(u, v) <=> /\ Len(u) <= Len(v)
                                /\ \A i \in 1..Len(u) : u[i] = v[i]
  <2>1. CASE Len(u) <= Len(v)
    <3> DEFINE a == SubSeq(u, 1, Len(u))
               b == SubSeq(v, 1, Len(u))
    <3>1. /\ a \in Seq(Nat) /\ b \in Seq(Nat) /\ Len(a) = Len(u) /\ Len(b) = Len(u)
          /\ \A i \in 1..Len(u) : a[i] = u[i] /\ b[i] = v[i]
      BY <2>1
    <3> HIDE DEF a, b
    <3>2. a = b <=> \A i \in 1..Len(u) : u[i] = v[i]
      BY <3>1, SeqEqual
    <3> QED
      BY <2>1, <3>2 DEF IsPrefix, a, b
  <2>2. CASE ~(Len(u) <= Len(v))
    BY <2>2 DEF IsPrefix
  <2> QED
    BY <2>1, <2>2
<1>3. /\ Append(s, n) \in Seq(Nat) /\ Len(Append(s, n)) = Len(s) + 1
      /\ \A i \in 1..Len(s) : Append(s, n)[i] = s[i]
  OBVIOUS
<1>4. /\ Append(t, n) \in Seq(Nat) /\ Len(Append(t, n)) = Len(t) + 1
      /\ \A i \in 1..Len(t) : Append(t, n)[i] = t[i]
  OBVIOUS
<1>5. IsPrefix(s, Append(s, n))
  <2>1. Len(s) <= Len(Append(s, n))
    BY <1>3
  <2> QED
    BY <1>2, <1>3, <2>1
<1>6. ASSUME IsPrefix(s, t) PROVE IsPrefix(s, Append(t, n))
  <2>1. Len(s) <= Len(t) /\ \A i \in 1..Len(s) : s[i] = t[i]
    BY <1>2, <1>6
  <2>2. Len(s) <= Len(Append(t, n)) /\ \A i \in 1..Len(s) : s[i] = Append(t, n)[i]
    BY <1>4, <2>1
  <2> QED
    BY <1>2, <1>4, <2>2
<1> QED
  BY <1>1, <1>5, <1>6

\* Nothing is sent and no connection comes up but one that was not there.
LEMMA SendingKept ==
    ASSUME Sending, UNCHANGED <<log, got, due>>,
           \A p \in Peers : tcp'[p] \in {"idle", "up"} => tcp[p] \in {"idle", "up"},
           \A p \in Peers : Awaits(p)' <=> Awaits(p)
    PROVE  Sending'
  BY DEF Sending

\* No broadcast is under way while another thread holds the list.
LEMMA AwaitsNothing ==
    ASSUME LockHeld, lock = NoThread \/ \E t \in Threads : pc[t] \in Critical \ {"send"}
    PROVE  \A p : ~Awaits(p)
<1>1. \A t \in Threads : pc[t] # "send"
  BY DEF LockHeld, Critical, Threads, NoThread
<1> QED
  BY <1>1 DEF Awaits

\* send() does not bring a connection up.
LEMMA SendKeepsDown ==
    ASSUME TypeOK, NEW p \in Peers, SendOutcome(p)
    PROVE  \A q \in Peers : tcp'[q] \in {"idle", "up"} => tcp'[q] = tcp[q]
<1>1. CASE SendDelivers(p) \/ SendKills(p)
  BY <1>1 DEF SendDelivers, SendKills
<1>2. CASE SendIsLost(p) \/ SendFails(p)
  BY <1>2 DEF SendIsLost, SendFails, TypeOK
<1> QED
  BY <1>1, <1>2 DEF SendOutcome

\* A broadcast begins: those listed for it now await it.
LEMMA BroadcastBegins ==
    ASSUME TypeOK, TypeOK', LockHeld, Sending, NEW t \in Threads, NEW kind, BroadcastLock(t, kind)
    PROVE  Sending'
<1>0. /\ log \in Seq(Kinds) /\ pc \in [Threads -> Labels] /\ pos \in [Threads -> Nat \ {0}]
      /\ clients \in Seq(Client) /\ log' \in Seq(Kinds)
  BY DEF TypeOK
<1>1. /\ lock = NoThread /\ UNCHANGED <<clients, tcp, got>>
      /\ pos'[t] = 1 /\ pc' = [pc EXCEPT ![t] = "send"] /\ log' = Append(log, kind)
      /\ due' = [p \in Peers |-> IF Listed(p, kind) THEN Append(due[p], Len(log) + 1) ELSE due[p]]
  BY <1>0 DEF BroadcastLock, Lock, Goto, netVars
<1>2. \A p \in Peers : ~Awaits(p)
  BY <1>1, AwaitsNothing
<1>3. Len(log') = Len(log) + 1 /\ log'[Len(log')] = kind
  BY <1>0, <1>1
<1>4. \A u \in Threads : pc[u] # "send"
  BY <1>1 DEF LockHeld, Critical, Threads, NoThread
<1>5. \A u \in Threads : pc'[u] = "send" <=> u = t
  BY <1>0, <1>1, <1>4
<1>6. ASSUME NEW p \in Peers PROVE Awaits(p)' <=> Listed(p, kind)
  BY <1>0, <1>1, <1>3, <1>5 DEF Awaits, Listed, Wants
<1>7. ASSUME NEW p \in Peers
      PROVE  /\ tcp'[p] \in {"idle", "up"} =>
                   due'[p] = IF Awaits(p)' THEN Append(got'[p], Len(log')) ELSE got'[p]
             /\ IsPrefix(got'[p], due'[p])
  <2>1. due'[p] = IF Listed(p, kind) THEN Append(due[p], Len(log')) ELSE due[p]
    BY <1>1, <1>3
  <2>2. got[p] \in Seq(Nat) /\ due[p] \in Seq(Nat) /\ Len(log') \in Nat
    BY <1>0, <1>1 DEF TypeOK
  <2>3. IsPrefix(got[p], due[p]) /\ (tcp[p] \in {"idle", "up"} => due[p] = got[p])
    BY <1>2 DEF Sending
  <2>4. IsPrefix(got[p], due'[p])
    BY <2>1, <2>2, <2>3, PrefixProperties
  <2> QED
    BY <1>1, <1>6, <2>1, <2>3, <2>4
<1> QED
  BY <1>7 DEF Sending

\* One client of the broadcast: it gets the event, or its connection has gone.
LEMMA BroadcastGoesOn ==
    ASSUME IInv, Sending, NEW t \in Threads, BroadcastSend(t)
    PROVE  Sending'
<1> DEFINE i == pos[t]
<1>p. PICK p : p = PeerOf(clients[i].sock)
  OBVIOUS
<1>0. /\ clients \in Seq(Client) /\ i \in 1..Len(clients) /\ clients[i] \in Client
      /\ pos \in [Threads -> Nat \ {0}] /\ got \in [Peers -> Seq(Nat)]
      /\ due \in [Peers -> Seq(Nat)] /\ tcp \in [Peers -> TcpStates]
  BY DEF BroadcastSend, AtEnd, IInv, TypeOK
<1>1. /\ pc[t] = "send" /\ Wants(clients[i], log[Len(log)]) /\ UNCHANGED <<pc, log, due>>
  BY DEF BroadcastSend, Cur
<1>2. \A u \in Threads : pc[u] \in Critical <=> u = t
  BY <1>1, Exclusive DEF Critical, IInv
<1>3. p = clients[i].peer
  <2>1. ~Closing(i)
    BY <1>1, <1>2 DEF Closing, Critical
  <2> QED
    BY <1>0, <1>p, <2>1 DEF IInv, Ownership, OwnSocket
<1>4. \A j \in 1..Len(clients) : j # i /\ p # NoPeer => clients[j].peer # p
  BY <1>0, <1>3 DEF IInv, Ownership, RecordsMakeSense
<1>5. /\ Len(clients') = Len(clients)
      /\ \A j \in 1..Len(clients) :
            clients'[j].peer = clients[j].peer /\ clients'[j].v3 = clients[j].v3
  <2>1. Mark(i) \/ UNCHANGED clients
    BY DEF BroadcastSend, MarkFailed
  <2>2. CASE Mark(i)
    BY <1>0, <2>2 DEF Mark, Client
  <2> QED
    BY <2>1, <2>2
<1>6. \A u \in Threads : pc[u] = "send" <=> u = t
  BY <1>1, <1>2 DEF Critical
<1> HIDE DEF i
<1>7. ASSUME NEW q \in Peers
      PROVE  Awaits(q) <=> \E j \in 1..Len(clients) : /\ j >= i /\ clients[j].peer = q
                                                      /\ Wants(clients[j], log[Len(log)])
  BY <1>6 DEF Awaits, i
<1>8. ASSUME NEW q \in Peers
      PROVE  Awaits(q)' <=> \E j \in 1..Len(clients) : /\ j >= pos'[t] /\ clients[j].peer = q
                                                       /\ Wants(clients[j], log[Len(log)])
  BY <1>1, <1>5, <1>6 DEF Awaits, Wants
<1>9. pos'[t] = i + 1 \/ (p # NoPeer /\ UNCHANGED <<pos, tcp, got>>)
  <2>1. Advance(t) \/ (p # NoPeer /\ SendKills(p) /\ UNCHANGED <<pos, got>>)
    BY <1>p DEF BroadcastSend, Cur, i
  <2>2. Advance(t) => pos'[t] = i + 1
    BY <1>0 DEF Advance, i
  <2> QED
    BY <2>1, <2>2 DEF SendKills
<1>10. CASE p # NoPeer /\ UNCHANGED <<pos, tcp, got>>
  <2>1. \A q \in Peers : Awaits(q)' <=> Awaits(q)
    BY <1>7, <1>8, <1>10 DEF i
  <2> QED
    BY <1>1, <1>10, <2>1, SendingKept
<1>11. CASE pos'[t] = i + 1
  <2>1. \A q \in Peers : q # p => (Awaits(q)' <=> Awaits(q))
    BY <1>0, <1>3, <1>7, <1>8, <1>11
  <2>2. p \in Peers => Awaits(p) /\ ~Awaits(p)'
    <3>1. p \in Peers => Awaits(p)
      BY <1>0, <1>1, <1>3, <1>7
    <3>2. p \in Peers => ~Awaits(p)'
      <4>1. p \in Peers => p # NoPeer
        BY FdAssumption
      <4>2. \A j \in 1..Len(clients) : j >= i + 1 => j # i
        BY <1>0
      <4> QED
        BY <1>4, <1>8, <1>11, <4>1, <4>2
    <3> QED
      BY <3>1, <3>2
  <2>3. CASE p = NoPeer
    <3>1. UNCHANGED <<got, tcp>>
      BY <1>p, <2>3 DEF BroadcastSend, Cur, i
    <3> QED
      BY <1>1, <2>1, <2>3, <3>1, SendingKept, FdAssumption
  <2>4. CASE p # NoPeer
    <3>1. p \in Peers
      BY <1>0, <1>3, <2>4 DEF Client
    <3>2. SendOutcome(p)
      BY <1>p, <2>4 DEF BroadcastSend, Cur, SendOutcome, i
    <3>3. CASE SendDelivers(p) /\ got' = [got EXCEPT ![p] = Append(got[p], Len(log))]
      <4>1. tcp[p] = "up" /\ tcp' = tcp
        BY <3>3 DEF SendDelivers
      <4>2. due[p] = Append(got[p], Len(log)) /\ got'[p] = Append(got[p], Len(log))
        BY <1>0, <2>2, <3>1, <3>3, <4>1 DEF Sending
      <4>3. due'[p] = got'[p] /\ IsPrefix(got'[p], due'[p])
        BY <1>0, <1>1, <3>1, <4>2, PrefixProperties
      <4>4. \A q \in Peers : q # p => got'[q] = got[q]
        BY <1>0, <3>3
      <4>5. ASSUME NEW q \in Peers
            PROVE  /\ tcp'[q] \in {"idle", "up"} =>
                         due'[q] = IF Awaits(q)' THEN Append(got'[q], Len(log')) ELSE got'[q]
                   /\ IsPrefix(got'[q], due'[q])
        <5>1. CASE q = p
          BY <2>2, <3>1, <4>3, <5>1
        <5>2. CASE q # p
          BY <1>1, <2>1, <4>1, <4>4, <5>2 DEF Sending
        <5> QED
          BY <5>1, <5>2
      <4> QED
        BY <4>5 DEF Sending
    <3>4. CASE (SendIsLost(p) \/ SendFails(p)) /\ got' = got
      <4>1. tcp'[p] \notin {"idle", "up"}
        BY <1>0, <3>1, <3>4 DEF SendIsLost, SendFails
      <4>2. \A q \in Peers : tcp'[q] \in {"idle", "up"} => tcp'[q] = tcp[q]
        BY <3>1, <3>2, SendKeepsDown DEF IInv
      <4> QED
        BY <1>1, <2>1, <3>4, <4>1, <4>2 DEF Sending
    <3>5. CASE SendKills(p) /\ UNCHANGED pos
      BY <1>0, <1>11, <3>5 DEF i
    <3> QED
      BY <1>p, <2>4, <3>3, <3>4, <3>5 DEF BroadcastSend, Cur, i
  <2> QED
    BY <2>3, <2>4
<1> QED
  BY <1>9, <1>10, <1>11

\* A message is handled for the peer that the descriptor of the record is of.
LEMMA HandledPeer ==
    ASSUME TypeOK, HandleClient
    PROVE  \/ PeerOf(clients[pos["Srv"]].sock) = NoPeer /\ HandleBad
           \/ \E p \in Peers :
                 /\ p = PeerOf(clients[pos["Srv"]].sock)
                 /\ HandleHangup(p) \/ HandleTruncated(p) \/ HandleShort(p) \/ HandleMessage(p)
<1>1. clients[pos["Srv"]] \in Client
  BY DEF HandleClient, AtEnd, TypeOK, Threads
<1> QED
  BY <1>1 DEF HandleClient, PeerOf, Client, TypeOK, Cur

\* A connection that has gone does not come back, whatever the threads and the
\* clients do.
LEMMA GoneStaysGone ==
    ASSUME IInv, [Next]_vars
    PROVE  \A p \in Peers : tcp'[p] \in {"idle", "up"} => tcp[p] \in {"idle", "up"}
<1> DEFINE Conclusion == \A p \in Peers : tcp'[p] \in {"idle", "up"} => tcp[p] \in {"idle", "up"}
<1>0. tcp \in [Peers -> TcpStates] /\ clients \in Seq(Client)
  BY DEF IInv, TypeOK
<1>1. CASE UNCHANGED tcp
  BY <1>1
<1>2. ASSUME NEW p \in Peers, SendOutcome(p) PROVE Conclusion
  BY <1>2, SendKeepsDown DEF IInv
<1>3. CASE HandleClient
  <2>1. CASE HandleBad
    BY <1>1, <2>1 DEF HandleBad
  <2>2. ASSUME NEW p \in Peers, HandleHangup(p) PROVE Conclusion
    BY <1>0, <2>2 DEF HandleHangup
  <2>3. ASSUME NEW p \in Peers, HandleTruncated(p) \/ HandleShort(p) PROVE Conclusion
    BY <1>1, <2>3 DEF HandleTruncated, HandleShort
  <2>4. ASSUME NEW p \in Peers, HandleMessage(p) PROVE Conclusion
    BY <1>2, <2>4 DEF HandleMessage, SendOutcome
  <2>5. CASE ~HandleBad
    <3>1. PICK p \in Peers :
             HandleHangup(p) \/ HandleTruncated(p) \/ HandleShort(p) \/ HandleMessage(p)
      BY <1>3, <2>5, HandledPeer DEF IInv
    <3> QED
      BY <2>2, <2>3, <2>4, <3>1
  <2> QED
    BY <2>1, <2>5
<1>4. ASSUME NEW t \in Threads, BroadcastSend(t) PROVE Conclusion
  <2>1. PICK p : p = PeerOf(Cur(t).sock)
    OBVIOUS
  <2>2. UNCHANGED tcp \/ (p # NoPeer /\ SendOutcome(p))
    BY <1>4, <2>1 DEF BroadcastSend, SendOutcome
  <2>3. p # NoPeer => p \in Peers
    BY <2>1 DEF PeerOf, IInv, TypeOK
  <2> QED
    BY <1>1, <1>2, <2>2, <2>3
<1>5. CASE CloseListenSock
  BY <1>5 DEF CloseListenSock
<1>6. ASSUME NEW p \in Peers, PeerConnect(p) \/ PeerClose(p) PROVE Conclusion
  BY <1>0, <1>6 DEF PeerConnect, PeerClose, Connected
<1>7. CASE \/ UNCHANGED vars \/ Bind \/ BindWait \/ BuildFdSet \/ SelectEnter \/ SelectReturn
           \/ Accept
           \/ AddClient \/ HandleLock \/ HandleSkip \/ HandleUnlock \/ CheckPipe
  BY <1>1, <1>7 DEF vars, netVars, Bind, BindWait, BuildFdSet, SelectEnter, SelectReturn, Accept,
     AddClient, HandleLock, HandleSkip, HandleUnlock, CheckPipe
<1>8. CASE \/ FritzMessage \/ FritzBroadcast \/ CisrvRun \/ Shutdown \/ JoinSrv
           \/ BroadcastDisconnect
  BY <1>1, <1>8 DEF netVars, FritzMessage, FritzBroadcast, CisrvRun, Shutdown, JoinSrv,
     BroadcastDisconnect, BroadcastLock
<1>9. ASSUME NEW t \in Threads, ListStep(t), ~BroadcastSend(t) PROVE Conclusion
  BY <1>1, <1>9 DEF netVars, ListStep, RemoveLock, RemoveSkip, ShutdownSock, DrainAndClose,
     Unlink,
     RemoveUnlock, BroadcastSkip, BroadcastUnlock
<1>10. ASSUME NEW p \in Peers, PeerRead(p) \/ \E m \in Sayings : PeerSay(p, m) PROVE Conclusion
  BY <1>1, <1>10 DEF PeerRead, PeerSay
<1> QED
  BY <1>3, <1>4, <1>5, <1>6, <1>7, <1>8, <1>9, <1>10, NextCases

\* A walk of the list and a change of it by another thread exclude each other.
LEMMA AwaitsKept ==
    ASSUME UNCHANGED <<clients, log>>,
           \A t \in Threads : /\ pc'[t] = "send" <=> pc[t] = "send"
                              /\ pc[t] = "send" => pos'[t] = pos[t]
    PROVE  \A p : Awaits(p)' <=> Awaits(p)
<1>1. ASSUME NEW p PROVE Awaits(p) => Awaits(p)'
  BY DEF Awaits, Wants
<1>2. ASSUME NEW p PROVE Awaits(p)' => Awaits(p)
  BY DEF Awaits, Wants
<1> QED
  BY <1>1, <1>2

LEMMA SendingStep ==
    ASSUME IInv, IInv', Sending, [Next]_vars
    PROVE  Sending'
<1>0. pc \in [Threads -> Labels] /\ pos \in [Threads -> Nat \ {0}] /\ clients \in Seq(Client)
  BY DEF IInv, TypeOK
<1>1. ASSUME UNCHANGED <<log, got, due>>, \A p : Awaits(p)' <=> Awaits(p) PROVE Sending'
  BY <1>1, GoneStaysGone, SendingKept
<1>2. ASSUME UNCHANGED <<log, got, due, clients>>,
             \A t \in Threads : /\ pc'[t] = "send" <=> pc[t] = "send"
                                /\ pc[t] = "send" => pos'[t] = pos[t]
      PROVE  Sending'
  BY <1>1, <1>2, AwaitsKept
<1>3. ASSUME UNCHANGED <<log, got, due>>, NEW t \in Threads, pc[t] \in Critical \ {"send"},
             UNCHANGED lock, pc'[t] \in Critical \ {"send"}
      PROVE  Sending'
  <2>1. \A p : ~Awaits(p)
    BY <1>3, AwaitsNothing DEF IInv
  <2>2. \A u \in Threads : pc'[u] # "send"
    BY <1>3 DEF IInv, LockHeld, Critical
  <2>3. \A p : ~Awaits(p)'
    BY <2>2 DEF Awaits
  <2> QED
    BY <1>1, <1>3, <2>1, <2>3
<1> USE DEF Goto, srvVars, thrVars, netVars, histVars, Threads
<1>4. CASE UNCHANGED vars \/ Bind \/ BindWait \/ BuildFdSet
  BY <1>0, <1>2, <1>4 DEF vars, Bind, BindWait, BuildFdSet
<1>5. CASE SelectEnter \/ SelectReturn \/ Accept \/ CheckPipe
  BY <1>0, <1>2, <1>5 DEF SelectEnter, SelectReturn, Accept, CheckPipe
<1>6. CASE HandleLock \/ HandleSkip \/ HandleUnlock
  BY <1>0, <1>2, <1>6 DEF HandleLock, HandleSkip, HandleUnlock, Lock, Unlock, Advance
<1>7. CASE FritzMessage \/ CisrvRun \/ Shutdown
  BY <1>0, <1>2, <1>7 DEF FritzMessage, CisrvRun, Shutdown, IInv, NotYetRunning
<1>8. CASE JoinSrv \/ CloseListenSock
  BY <1>0, <1>2, <1>8 DEF JoinSrv, CloseListenSock
<1>9. ASSUME NEW p \in Peers, \/ PeerConnect(p) \/ PeerRead(p) \/ PeerClose(p)
                              \/ \E m \in Sayings : PeerSay(p, m)
      PROVE  Sending'
  BY <1>0, <1>2, <1>9 DEF PeerConnect, PeerRead, PeerClose, PeerSay
<1>10. CASE AddClient
  <2>1. /\ lock = NoThread /\ lock' = NoThread /\ UNCHANGED <<log, got, due>>
        /\ \A t \in Threads : pc'[t] = "send" => pc[t] = "send"
    BY <1>0, <1>10 DEF AddClient
  <2>2. \A p : ~Awaits(p)
    BY <2>1, AwaitsNothing DEF IInv
  <2>3. \A t \in Threads : pc[t] # "send"
    BY <2>1 DEF IInv, LockHeld, Critical, NoThread
  <2>4. \A p : ~Awaits(p)'
    BY <2>1, <2>3 DEF Awaits
  <2> QED
    BY <1>1, <2>1, <2>2, <2>4
<1>11. CASE HandleClient
  <2>1. UNCHANGED <<log, got, due, lock, pc>> /\ pc["Srv"] = "handle"
    BY <1>11 DEF HandleClient
  <2> QED
    BY <1>3, <2>1 DEF Critical
<1>12. CASE FritzBroadcast
  BY <1>12, BroadcastBegins DEF FritzBroadcast, IInv
<1>13. CASE BroadcastDisconnect
  BY <1>13, BroadcastBegins DEF BroadcastDisconnect, IInv
<1>14. ASSUME NEW t \in Threads, ListStep(t) PROVE Sending'
  <2>1. CASE RemoveLock(t) \/ RemoveSkip(t) \/ RemoveUnlock(t)
    BY <1>0, <1>2, <2>1 DEF RemoveLock, RemoveSkip, RemoveUnlock, Lock, Unlock, Advance, AfterRemove
  <2>2. CASE ShutdownSock(t) \/ DrainAndClose(t)
    BY <1>0, <1>2, <2>2 DEF ShutdownSock, DrainAndClose
  <2>3. CASE Unlink(t)
    <3>1. UNCHANGED <<log, got, due, lock>> /\ pc[t] = "unlink" /\ pc'[t] = "rem"
      BY <1>0, <2>3 DEF Unlink
    <3> QED
      BY <1>3, <3>1 DEF Critical
  <2>4. CASE BroadcastSend(t)
    BY <2>4, BroadcastGoesOn
  <2>5. CASE BroadcastSkip(t) \/ BroadcastUnlock(t)
    <3>1. /\ UNCHANGED <<log, got, due, clients>> /\ pc[t] = "send"
          /\ \/ pc' = pc /\ pos'[t] = pos[t] + 1 /\ ~Wants(clients[pos[t]], log[Len(log)])
             \/ pc'[t] = "rlock" /\ pos[t] > Len(clients)
          /\ \A u \in Threads : u # t => pc'[u] = pc[u]
      BY <1>0, <2>5 DEF BroadcastSkip, BroadcastUnlock, Advance, Unlock, AtEnd, Cur
    <3>2. \A u \in Threads : u # t => pc[u] # "send"
      BY <3>1, Exclusive DEF Critical, IInv
    <3>3. ASSUME NEW p PROVE Awaits(p)' <=> Awaits(p)
      <4>1. CASE pc'[t] = "rlock" /\ pos[t] > Len(clients)
        <5>1. \A i \in 1..Len(clients) : ~(i >= pos[t])
          BY <1>0, <4>1
        <5> QED
          BY <3>1, <3>2, <4>1, <5>1 DEF Awaits
      <4>2. CASE pc' = pc /\ pos'[t] = pos[t] + 1 /\ ~Wants(clients[pos[t]], log[Len(log)])
        <5>1. \A i \in 1..Len(clients) : i >= pos[t] <=> i >= pos[t] + 1 \/ i = pos[t]
          BY <1>0
        <5>2. Awaits(p) <=> \E i \in 1..Len(clients) : /\ i >= pos[t] + 1 /\ clients[i].peer = p
                                                       /\ Wants(clients[i], log[Len(log)])
          BY <3>1, <3>2, <4>2, <5>1 DEF Awaits
        <5>3. Awaits(p)' <=> \E i \in 1..Len(clients) : /\ i >= pos[t] + 1 /\ clients[i].peer = p
                                                        /\ Wants(clients[i], log[Len(log)])
          BY <3>1, <3>2, <4>2 DEF Awaits, Wants
        <5> QED
          BY <5>2, <5>3
      <4> QED
        BY <3>1, <4>1, <4>2
    <3> QED
      BY <1>1, <3>1, <3>3
  <2> QED
    BY <1>14, <2>1, <2>2, <2>3, <2>4, <2>5 DEF ListStep
<1> QED
  BY <1>4, <1>5, <1>6, <1>7, <1>8, <1>9, <1>10, <1>11, <1>12, <1>13, <1>14, NextCases

-----------------------------------------------------------------------------
(* The marks.                                                              *)

\* What has been sent and not yet received has been said.
Heard == \A p \in Peers : \A k \in 1..Len(c2s[p]) : c2s[p][k] \in said[p]

Cause(p) == p = NoPeer \/ tcp[p] # "up" \/ said[p] \cap {"leave", "truncated"} # {}

\* The steps that change the list.
LEMMA ListChanges ==
    ASSUME [Next]_vars
    PROVE  UNCHANGED clients \/ AddClient \/ HandleClient
           \/ \E t \in Threads : Unlink(t) \/ BroadcastSend(t)
<1> USE DEF srvVars
<1>1. CASE \/ UNCHANGED vars \/ Bind \/ BindWait \/ BuildFdSet \/ SelectEnter \/ SelectReturn
           \/ Accept
           \/ HandleLock \/ HandleSkip \/ HandleUnlock \/ CheckPipe
  BY <1>1 DEF vars, Bind, BindWait, BuildFdSet, SelectEnter, SelectReturn, Accept, HandleLock,
     HandleSkip, HandleUnlock, CheckPipe
<1>2. CASE \/ FritzMessage \/ FritzBroadcast \/ CisrvRun \/ Shutdown \/ JoinSrv
           \/ BroadcastDisconnect
           \/ CloseListenSock
  BY <1>2 DEF FritzMessage, FritzBroadcast, CisrvRun, Shutdown, JoinSrv, BroadcastDisconnect,
     BroadcastLock, CloseListenSock
<1>3. ASSUME NEW t \in Threads, ListStep(t), ~BroadcastSend(t), ~Unlink(t) PROVE UNCHANGED clients
  BY <1>3 DEF ListStep, RemoveLock, RemoveSkip, ShutdownSock, DrainAndClose, RemoveUnlock,
     BroadcastSkip,
     BroadcastUnlock
<1>4. ASSUME NEW p \in Peers, \/ PeerConnect(p) \/ PeerRead(p) \/ PeerClose(p)
                              \/ \E m \in Sayings : PeerSay(p, m)
      PROVE  UNCHANGED clients
  BY <1>4 DEF PeerConnect, PeerRead, PeerClose, PeerSay
<1> QED
  BY <1>1, <1>2, <1>3, <1>4, NextCases

\* Messages are received from the front or dropped, and said before they are sent.
LEMMA HeardStep ==
    ASSUME TypeOK, Heard, [Next]_vars
    PROVE  Heard' /\ \A p \in Peers : said[p] \subseteq said'[p]
<1>0. /\ c2s \in [Peers -> Seq(MessageKinds)] /\ said \in [Peers -> SUBSET MessageKinds]
      /\ conn \in [Fds -> Peers \cup {NoPeer}]
  BY DEF TypeOK
<1> DEFINE Conclusion == Heard' /\ \A p \in Peers : said[p] \subseteq said'[p]
<1>1. CASE UNCHANGED <<c2s, said>>
  BY <1>1 DEF Heard
<1>2. ASSUME NEW p \in Peers, NEW rest \in Seq(MessageKinds), said' = said,
             c2s' = [c2s EXCEPT ![p] = rest], \A k \in 1..Len(rest) : rest[k] \in said[p]
      PROVE  Conclusion
  BY <1>0, <1>2 DEF Heard
<1>3. ASSUME NEW p \in Peers, said' = said, c2s' = [c2s EXCEPT ![p] = <<>>] PROVE Conclusion
  <2>1. <<>> \in Seq(MessageKinds) /\ Len(<<>>) = 0
    OBVIOUS
  <2>2. PICK rest : rest = <<>>
    OBVIOUS
  <2>3. rest \in Seq(MessageKinds) /\ \A k \in 1..Len(rest) : rest[k] \in said[p]
    BY <2>1, <2>2
  <2> QED
    BY <1>2, <1>3, <2>2, <2>3
<1>4. ASSUME NEW p \in Peers, said' = said, c2s[p] # <<>>, c2s' = [c2s EXCEPT ![p] = Tail(c2s[p])]
      PROVE  Conclusion
  <2>1. /\ Tail(c2s[p]) \in Seq(MessageKinds) /\ Len(Tail(c2s[p])) = Len(c2s[p]) - 1
        /\ \A k \in 1..Len(Tail(c2s[p])) :
              Tail(c2s[p])[k] = c2s[p][k + 1] /\ k + 1 \in 1..Len(c2s[p])
    <3>1. c2s[p] \in Seq(MessageKinds) /\ c2s[p] # <<>>
      BY <1>0, <1>4
    <3> QED
      BY <3>1
  <2>2. \A k \in 1..Len(Tail(c2s[p])) : Tail(c2s[p])[k] \in said[p]
    BY <2>1 DEF Heard
  <2> QED
    BY <1>2, <1>4, <2>1, <2>2
<1>5. ASSUME NEW f, CloseSock(f), said' = said PROVE Conclusion
  <2>1. CASE PeerOf(f) = NoPeer
    BY <1>1, <1>5, <2>1 DEF CloseSock
  <2>2. CASE PeerOf(f) # NoPeer
    <3>1. PICK p \in Peers : p = conn[f]
      BY <1>0, <2>2 DEF PeerOf
    <3>2. c2s' = [c2s EXCEPT ![p] = <<>>]
      BY <1>5, <2>2, <3>1 DEF CloseSock
    <3> QED
      BY <1>3, <1>5, <3>2
  <2> QED
    BY <2>1, <2>2
<1>6. CASE HandleClient
  <2>1. said' = said
    BY <1>6 DEF HandleClient
  <2>2. CASE HandleBad
    BY <1>1, <2>1, <2>2 DEF HandleBad
  <2>3. ASSUME NEW p \in Peers,
               HandleHangup(p) \/ HandleTruncated(p) \/ HandleShort(p) \/ HandleMessage(p)
        PROVE  Conclusion
    BY <1>1, <1>3, <1>4, <2>1, <2>3 DEF HandleHangup, HandleTruncated, HandleShort, HandleMessage
  <2> QED
    BY <1>6, <2>2, <2>3, HandledPeer
<1>7. ASSUME NEW t \in Threads, ShutdownSock(t) \/ DrainAndClose(t) PROVE Conclusion
  <2>1. said' = said /\ (UNCHANGED c2s \/ CloseSock(Cur(t).sock))
    BY <1>7 DEF ShutdownSock, DrainAndClose
  <2> QED
    BY <1>1, <1>5, <2>1
<1>8. ASSUME NEW p \in Peers, NEW m \in Sayings, PeerSay(p, m) PROVE Conclusion
  <2>1. m \in MessageKinds
    BY BoundAssumption
  <2>2. /\ Len(Append(c2s[p], m)) = Len(c2s[p]) + 1 /\ Len(c2s[p]) \in Nat
        /\ \A k \in 1..Len(c2s[p]) + 1 :
              Append(c2s[p], m)[k] = IF k = Len(c2s[p]) + 1 THEN m ELSE c2s[p][k]
    <3>1. c2s[p] \in Seq(MessageKinds)
      BY <1>0
    <3> QED
      BY <2>1, <3>1
  <2>3. \A k \in 1..Len(c2s[p]) : c2s[p][k] \in said[p]
    BY DEF Heard
  <2>4. /\ said' = [said EXCEPT ![p] = said[p] \cup {m}]
        /\ c2s' = [c2s EXCEPT ![p] = Append(c2s[p], m)]
    BY <1>8 DEF PeerSay
  <2>5. \A k \in 1..Len(c2s'[p]) : c2s'[p][k] \in said'[p]
    BY <1>0, <2>2, <2>3, <2>4
  <2> QED
    BY <1>0, <2>4, <2>5 DEF Heard
<1> USE <1>1 DEF netVars
<1>9. CASE \/ UNCHANGED vars \/ Bind \/ BindWait \/ BuildFdSet \/ SelectEnter \/ SelectReturn
           \/ Accept
           \/ AddClient \/ HandleLock \/ HandleSkip \/ HandleUnlock \/ CheckPipe
  BY <1>9 DEF vars, Bind, BindWait, BuildFdSet, SelectEnter, SelectReturn, Accept, AddClient,
     HandleLock, HandleSkip, HandleUnlock, CheckPipe
<1>10. CASE \/ FritzMessage \/ FritzBroadcast \/ CisrvRun \/ Shutdown \/ JoinSrv
            \/ BroadcastDisconnect
            \/ CloseListenSock
  BY <1>10 DEF FritzMessage, FritzBroadcast, CisrvRun, Shutdown, JoinSrv, BroadcastDisconnect,
     BroadcastLock, CloseListenSock
<1>11. ASSUME NEW t \in Threads, ListStep(t), ~ShutdownSock(t), ~DrainAndClose(t) PROVE Conclusion
  BY <1>11 DEF ListStep, RemoveLock, RemoveSkip, Unlink, RemoveUnlock, BroadcastSkip,
     BroadcastSend,
     BroadcastUnlock
<1>12. ASSUME NEW p \in Peers, PeerConnect(p) \/ PeerRead(p) \/ PeerClose(p) PROVE Conclusion
  BY <1>12 DEF PeerConnect, PeerRead, PeerClose
<1> QED
  BY <1>6, <1>7, <1>8, <1>9, <1>10, <1>11, <1>12, NextCases

\* What has made a mark rightful stays: a client cannot take it back.
LEMMA CauseStays ==
    ASSUME IInv, Heard, [Next]_vars, NEW i \in 1..Len(clients), NEW p, p = clients[i].peer, Cause(p)
    PROVE  Cause(p)'
<1>1. clients[i] \in Client
  BY DEF IInv, TypeOK
<1>2. CASE p = NoPeer
  BY <1>2 DEF Cause
<1>3. CASE p \in Peers
  <2>1. tcp[p] # "idle"
    BY <1>3 DEF IInv, Ownership, NotYetAccepted, Unknown
  <2>2. tcp[p] # "up" => tcp'[p] # "up"
    BY <1>3, <2>1, GoneStaysGone
  <2>3. said[p] \subseteq said'[p]
    BY <1>3, HeardStep DEF IInv
  <2> QED
    BY <2>2, <2>3 DEF Cause
<1> QED
  BY <1>1, <1>2, <1>3 DEF Client

\* A record that is marked now was marked, or there is a cause.
LEMMA MarkedKept ==
    ASSUME IInv, Heard, MarkedForCause, [Next]_vars,
           \A j \in 1..Len(clients') :
              \/ ~clients'[j].remove
              \/ \E i \in 1..Len(clients) : /\ clients'[j].peer = clients[i].peer
                                            /\ clients[i].remove
              \/ \E p : p = clients'[j].peer /\ Cause(p)'
    PROVE  MarkedForCause'
<1>1. MarkedForCause <=> \A i \in 1..Len(clients) :
                            \A p : clients[i].remove /\ p = clients[i].peer => Cause(p)
  BY DEF MarkedForCause, Cause
<1>2. ASSUME NEW j \in 1..Len(clients'), NEW p, clients'[j].remove, p = clients'[j].peer
      PROVE  Cause(p)'
  <2>1. CASE \E i \in 1..Len(clients) : p = clients[i].peer /\ clients[i].remove
    BY <1>1, <2>1, CauseStays
  <2> QED
    BY <1>2, <2>1
<1> QED
  BY <1>2 DEF MarkedForCause, Cause

LEMMA MarkedStep ==
    ASSUME IInv, Heard, MarkedForCause, [Next]_vars
    PROVE  MarkedForCause'
<1>0. /\ clients \in Seq(Client) /\ tcp \in [Peers -> TcpStates]
      /\ c2s \in [Peers -> Seq(MessageKinds)]
  BY DEF IInv, TypeOK
<1>1. CASE UNCHANGED clients
  BY <1>1, MarkedKept
<1>2. CASE AddClient
  <2>1. PICK c : /\ UNCHANGED clients \/ clients' = Append(clients, c)
                 /\ c.remove = FALSE
    BY <1>2 DEF AddClient
  <2>2. CASE clients' = Append(clients, c)
    <3>1. /\ Len(clients') = Len(clients) + 1 /\ clients'[Len(clients) + 1] = c
          /\ \A j \in 1..Len(clients) : clients'[j] = clients[j]
      BY <1>0, <2>2
    <3>2. \A j \in 1..Len(clients') : j \in 1..Len(clients) \/ j = Len(clients) + 1
      BY <1>0, <3>1
    <3> QED
      BY <2>1, <3>1, <3>2, MarkedKept
  <2> QED
    BY <1>1, <2>1, <2>2
<1>3. ASSUME NEW t \in Threads, Unlink(t) PROVE MarkedForCause'
  <2>1. pos[t] \in 1..Len(clients) /\ clients' = RemoveAt(clients, pos[t])
    BY <1>3 DEF Unlink, IInv, PosInRange
  <2>2. /\ Len(clients) \in Nat /\ Len(clients') = Len(clients) - 1
        /\ \A j \in 1..Len(clients) - 1 :
              clients'[j] = IF j < pos[t] THEN clients[j] ELSE clients[j + 1]
    BY <1>0, <2>1, RemoveAtProperties
  <2>3. \A j \in 1..Len(clients') :
           j \in 1..Len(clients) - 1 /\ j \in 1..Len(clients) /\ j + 1 \in 1..Len(clients)
    BY <2>2
  <2>4. \A j \in 1..Len(clients') : \E i \in 1..Len(clients) : clients'[j] = clients[i]
    BY <2>2, <2>3
  <2> QED
    BY <2>4, MarkedKept
<1>4. ASSUME NEW i \in 1..Len(clients), NEW c \in Client, clients' = [clients EXCEPT ![i] = c],
             NEW p, p = clients[i].peer, c.peer = p, c.remove => clients[i].remove \/ Cause(p)'
      PROVE  MarkedForCause'
  <2>1. Len(clients') = Len(clients) /\ clients'[i] = c
        /\ \A j \in 1..Len(clients) : j # i => clients'[j] = clients[j]
    BY <1>0, <1>4
  <2> QED
    BY <1>4, <2>1, MarkedKept
<1>5. ASSUME NEW i \in 1..Len(clients), Mark(i), NEW p, p = clients[i].peer, Cause(p)'
      PROVE  MarkedForCause'
  <2>1. clients[i] \in Client
    BY <1>0
  <2>2. PICK c : c = [clients[i] EXCEPT !.remove = TRUE]
    OBVIOUS
  <2>3. c \in Client /\ c.peer = p
    BY <1>5, <2>1, <2>2 DEF Client
  <2> QED
    BY <1>4, <1>5, <2>2, <2>3 DEF Mark
<1>6. CASE HandleClient
  <2>1. pos["Srv"] \in 1..Len(clients) /\ pc["Srv"] = "handle"
    BY <1>6 DEF HandleClient, AtEnd, IInv, TypeOK, Threads
  <2>2. PICK i \in 1..Len(clients) : i = pos["Srv"]
    BY <2>1
  <2>3. PeerOf(clients[i].sock) = clients[i].peer
    <3>1. ~Closing(i)
      BY <2>1 DEF Closing, IInv, LockHeld, Critical, Threads
    <3> QED
      BY <3>1 DEF IInv, Ownership, OwnSocket
  <2>4. PICK p : p = clients[i].peer
    OBVIOUS
  <2>5. HandleHangup(p) => Cause(p)'
    BY <1>0 DEF HandleHangup, Cause
  <2>6. p \in Peers /\ HandleTruncated(p) => Cause(p)'
    <3>1. p \in Peers /\ HandleTruncated(p) => "truncated" \in said[p]
      <4>1. p \in Peers => c2s[p] \in Seq(MessageKinds)
        BY <1>0
      <4> QED
        BY <4>1 DEF HandleTruncated, Heard
    <3> QED
      BY <1>6, <3>1 DEF HandleClient, Cause
  <2>7. CASE PeerOf(clients[i].sock) = NoPeer /\ HandleBad
    BY <1>5, <2>2, <2>3, <2>4, <2>7 DEF HandleBad, Cause
  <2>8. CASE ~(PeerOf(clients[i].sock) = NoPeer /\ HandleBad)
    <3>1. /\ p \in Peers
          /\ HandleHangup(p) \/ HandleTruncated(p) \/ HandleShort(p) \/ HandleMessage(p)
      BY <1>6, <2>2, <2>3, <2>4, <2>8, HandledPeer DEF IInv
    <3>2. CASE HandleHangup(p) \/ HandleTruncated(p)
      BY <1>5, <2>2, <2>4, <2>5, <2>6, <3>1, <3>2 DEF HandleHangup, HandleTruncated
    <3>3. CASE HandleShort(p)
      BY <1>1, <3>3 DEF HandleShort
    <3>4. CASE HandleMessage(p)
      <4>1. clients[i] \in Client /\ c2s[p] \in Seq(MessageKinds) /\ c2s[p] # <<>>
        BY <1>0, <3>1, <3>4 DEF HandleMessage
      <4>2. PICK c : c = [clients[i] EXCEPT !.v3 = clients[i].v3 \/ Head(c2s[p]) = "version",
                                            !.remove = clients[i].remove \/ Head(c2s[p]) = "leave"]
        OBVIOUS
      <4>3. c \in Client /\ c.peer = p /\ (c.remove => clients[i].remove \/ Head(c2s[p]) = "leave")
        BY <2>4, <4>1, <4>2 DEF Client
      <4>4. Head(c2s[p]) = "leave" => Cause(p)'
        <5>1. Head(c2s[p]) \in said[p]
          BY <3>1, <4>1 DEF Heard
        <5> QED
          BY <1>6, <5>1 DEF HandleClient, Cause
      <4>5. clients' = [clients EXCEPT ![i] = c]
        BY <2>2, <3>4, <4>2 DEF HandleMessage, Cur
      <4> QED
        BY <1>4, <2>4, <4>3, <4>4, <4>5
    <3> QED
      BY <3>1, <3>2, <3>3, <3>4
  <2> QED
    BY <2>7, <2>8
<1>7. ASSUME NEW t \in Threads, BroadcastSend(t) PROVE MarkedForCause'
  <2>0. pos[t] \in Nat \ {0} /\ Len(clients) \in Nat
    BY <1>0 DEF IInv, TypeOK
  <2>1. PICK i \in 1..Len(clients) : i = pos[t]
    BY <1>7, <2>0 DEF BroadcastSend, AtEnd
  <2>2. PeerOf(clients[i].sock) = clients[i].peer
    <3>1. ~Closing(i)
      BY <1>7 DEF BroadcastSend, Closing, IInv, LockHeld, Critical
    <3> QED
      BY <3>1 DEF IInv, Ownership, OwnSocket
  <2>3. PICK p : p = clients[i].peer
    OBVIOUS
  <2>4. clients[i] \in Client
    BY <1>0
  <2>5. UNCHANGED clients \/ (Mark(i) /\ (p = NoPeer \/ SendFails(p)))
    BY <1>7, <2>1, <2>2, <2>3 DEF BroadcastSend, Cur, MarkFailed
  <2>6. p = NoPeer \/ SendFails(p) => Cause(p)'
    BY <1>0, <2>3, <2>4 DEF SendFails, Cause, Client
  <2> QED
    BY <1>1, <1>5, <2>3, <2>5, <2>6
<1> QED
  BY <1>1, <1>2, <1>3, <1>6, <1>7, ListChanges

-----------------------------------------------------------------------------
(* No descriptor leaks.                                                    *)

Holds(i, f) == clients[i].sock = f /\ ~Closing(i)

\* An open descriptor is in the list, in a record that is not about to go, or
\* on its way there.
Kept ==
    \A f \in Fds : conn[f] # NoPeer =>
        newsock = f \/ \E i \in 1..Len(clients) : Holds(i, f)

\* When cisrv_disconnect goes on, the listen thread has ended; the second walk
\* through the list removes its head until nothing is left.
Stopped ==
    /\ pc["Main"] \notin {"start", "run", "join"} => pc["Srv"] \in {"off", "done"}
    /\ pc["Main"] \in {"rem", "rwait", "unlink"} /\ state = "Initialized" => pos["Main"] = 1
    /\ pc["Main"] \in {"close", "done"} => clients = <<>>

LEMMA QuietKeeps ==
    ASSUME TypeOK, Kept, Quiet
    PROVE  Kept'
<1>0. \A t \in Threads : /\ pc[t] = "unlink" => pc'[t] = "unlink" /\ pos'[t] = pos[t]
                         /\ pc'[t] = "unlink" => pc[t] = "unlink"
  BY DEF Quiet
<1>1. \A j : Closing(j)' <=> Closing(j)
  BY <1>0 DEF Closing
<1>2. Len(clients') = Len(clients)
      /\ \A j \in 1..Len(clients) : clients'[j].sock = clients[j].sock
  BY DEF Quiet, SameSockets
<1> QED
  BY <1>1, <1>2 DEF Kept, Holds, Quiet

LEMMA AcceptKeeps ==
    ASSUME TypeOK, Ownership, Kept, Accept
    PROVE  Kept'
<1>1. /\ UNCHANGED <<clients, pos>> /\ pc["Srv"] = "accept"
      /\ \A t \in Threads : pc'[t] = "unlink" <=> pc[t] = "unlink"
  BY DEF Accept, Goto, srvVars, Threads, TypeOK
<1>2. \A j : Closing(j)' <=> Closing(j)
  BY <1>1 DEF Closing
<1>3. newsock = NoSock
  BY <1>1 DEF Ownership, NewSockIsNew
<1>4. \A f \in Fds : conn'[f] = conn[f] \/ newsock' = f
  BY DEF Accept, TypeOK
<1>5. \A f \in Fds : newsock # f
  BY <1>3, FdAssumption
<1> QED
  BY <1>1, <1>2, <1>4, <1>5 DEF Kept, Holds

LEMMA AddKeeps ==
    ASSUME TypeOK, LockHeld, Kept, AddClient
    PROVE  Kept'
<1>0. clients \in Seq(Client)
  BY DEF TypeOK
<1>1. /\ lock = NoThread /\ UNCHANGED <<conn, pos>>
      /\ \A t \in Threads : pc'[t] = "unlink" => pc[t] = "unlink"
  BY DEF AddClient, Goto, netVars, Threads, TypeOK
<1>2. \A j : ~Closing(j) /\ ~Closing(j)'
  BY <1>1 DEF Closing, LockHeld, Critical, NoThread, Threads
<1>3. PICK c : /\ (UNCHANGED clients /\ newsock = BadFd) \/ clients' = Append(clients, c)
               /\ c.sock = newsock
  BY DEF AddClient
<1>4. CASE UNCHANGED clients /\ newsock = BadFd
  BY <1>1, <1>2, <1>4, FdAssumption DEF Kept, Holds
<1>5. CASE clients' = Append(clients, c)
  <2>1. /\ Len(clients) + 1 \in 1..Len(clients') /\ clients'[Len(clients) + 1] = c
        /\ \A j \in 1..Len(clients) : clients'[j] = clients[j] /\ j \in 1..Len(clients')
    BY <1>0, <1>5
  <2>2. ASSUME NEW f \in Fds, conn[f] # NoPeer
        PROVE  \E i \in 1..Len(clients') : clients'[i].sock = f
    BY <1>3, <2>1, <2>2 DEF Kept, Holds
  <2> QED
    BY <1>1, <1>2, <2>2 DEF Kept, Holds
<1> QED
  BY <1>3, <1>4, <1>5

\* The descriptor of the record i is closed; every other one is in another
\* record.
LEMMA ShutdownKeeps ==
    ASSUME TypeOK, LockHeld, PosInRange, Ownership, Kept, NEW t \in Threads,
           ShutdownSock(t) \/ DrainAndClose(t)
    PROVE  Kept'
<1>0. /\ clients \in Seq(Client) /\ pc \in [Threads -> Labels]
      /\ pos \in [Threads -> Nat \ {0}] /\ conn \in [Fds -> Peers \cup {NoPeer}]
  BY DEF TypeOK
<1>1. pc[t] \in {"rem", "rwait"} /\ pos[t] \in 1..Len(clients)
  BY <1>0 DEF ShutdownSock, DrainAndClose, AtEnd, PosInRange
<1>2. \A u \in Threads : u # t => pc[u] \notin Critical
  BY <1>1, Exclusive DEF Critical
<1>3. \A j : ~Closing(j)
  BY <1>1, <1>2 DEF Closing, Critical
<1>4. /\ UNCHANGED <<clients, newsock, pos>>
      /\ \A u \in Threads : u # t => pc'[u] = pc[u]
      /\ pc'[t] \in {"rwait", "unlink"}
  BY <1>0, <1>1 DEF ShutdownSock, DrainAndClose, Goto, srvVars
<1>5. CASE pc'[t] = "rwait"
  <2>1. UNCHANGED conn
    BY <1>0, <1>5 DEF ShutdownSock, DrainAndClose, Goto
  <2>2. \A j : ~Closing(j)'
    BY <1>2, <1>4, <1>5 DEF Closing, Critical
  <2> QED
    BY <1>3, <1>4, <2>1, <2>2 DEF Kept, Holds
<1>6. CASE pc'[t] = "unlink"
  <2>1. PICK i \in 1..Len(clients) : i = pos[t]
    BY <1>1
  <2>2. CloseSock(clients[i].sock)
    BY <1>0, <1>6, <2>1 DEF ShutdownSock, DrainAndClose, Goto, Cur
  <2>3. \A j : Closing(j)' <=> j = i
    BY <1>2, <1>4, <1>6, <2>1 DEF Closing, Critical
  <2>4. ASSUME NEW g \in Fds PROVE conn'[g] = conn[g] \/ conn'[g] = NoPeer
    BY <1>0, <2>2 DEF CloseSock
  <2>5. clients[i].sock \in Fds => conn'[clients[i].sock] = NoPeer
    BY <1>0, <2>2 DEF CloseSock, PeerOf
  <2>6. ASSUME NEW g \in Fds, conn'[g] # NoPeer
        PROVE  newsock = g \/ \E j \in 1..Len(clients) : clients[j].sock = g /\ j # i
    BY <2>4, <2>5, <2>6 DEF Kept, Holds
  <2> QED
    BY <1>4, <2>3, <2>6 DEF Kept, Holds
<1> QED
  BY <1>4, <1>5, <1>6

LEMMA UnlinkKeeps ==
    ASSUME TypeOK, LockHeld, PosInRange, Kept, NEW t \in Threads, Unlink(t)
    PROVE  Kept'
<1>0. /\ clients \in Seq(Client) /\ pc \in [Threads -> Labels]
  BY DEF TypeOK
<1>1. /\ UNCHANGED <<conn, newsock, pos>> /\ pc[t] = "unlink" /\ pc'[t] = "rem"
      /\ \A u \in Threads : u # t => pc'[u] = pc[u]
  BY <1>0 DEF Unlink, Goto, netVars
<1>2. \A u \in Threads : u # t => pc[u] \notin Critical
  BY <1>1, Exclusive DEF Critical
<1>3. PICK i \in 1..Len(clients) : i = pos[t] /\ clients' = RemoveAt(clients, i)
  BY <1>1 DEF Unlink, PosInRange
<1>4. Closing(i) /\ \A j : ~Closing(j)'
  BY <1>1, <1>2, <1>3 DEF Closing, Critical
<1>5. /\ Len(clients) \in Nat /\ Len(clients') = Len(clients) - 1
      /\ \A j \in 1..Len(clients) - 1 :
            clients'[j] = IF j < i THEN clients[j] ELSE clients[j + 1]
  BY <1>0, <1>3, RemoveAtProperties
<1>6. ASSUME NEW k \in 1..Len(clients), k # i
      PROVE  \E j \in 1..Len(clients') : clients'[j] = clients[k]
  <2>1. CASE k < i
    <3>1. k \in 1..Len(clients) - 1
      BY <1>5, <2>1
    <3> QED
      BY <1>5, <2>1, <3>1
  <2>2. CASE ~(k < i)
    <3>1. PICK j \in 1..Len(clients) - 1 : j + 1 = k /\ ~(j < i)
      <4>1. k - 1 \in 1..Len(clients) - 1 /\ (k - 1) + 1 = k /\ ~(k - 1 < i)
        BY <1>5, <1>6, <2>2
      <4> QED
        BY <4>1
    <3> QED
      BY <1>5, <3>1
  <2> QED
    BY <2>1, <2>2
<1>7. ASSUME NEW f \in Fds, conn[f] # NoPeer, newsock # f
      PROVE  \E j \in 1..Len(clients') : clients'[j].sock = f
  <2>1. PICK k \in 1..Len(clients) : clients[k].sock = f /\ k # i
    BY <1>4, <1>7 DEF Kept, Holds
  <2> QED
    BY <1>6, <2>1
<1> QED
  BY <1>1, <1>4, <1>7 DEF Kept, Holds

LEMMA KeptStep ==
    ASSUME IInv, Kept, [Next]_vars
    PROVE  Kept'
<1> USE DEF IInv
<1>1. CASE Accept
  BY <1>1, AcceptKeeps
<1>2. CASE AddClient
  BY <1>2, AddKeeps
<1>3. ASSUME NEW t \in Threads, ShutdownSock(t) \/ DrainAndClose(t) PROVE Kept'
  BY <1>3, ShutdownKeeps
<1>4. ASSUME NEW t \in Threads, Unlink(t) PROVE Kept'
  BY <1>4, UnlinkKeeps
<1>5. ASSUME NEW p \in Peers, PeerConnect(p) PROVE Kept'
  BY <1>5 DEF PeerConnect, srvVars, thrVars, Kept, Holds, Closing
<1>6. CASE Quiet
  BY <1>6, QuietKeeps
<1> QED
  BY <1>1, <1>2, <1>3, <1>4, <1>5, <1>6, NextCases, QuietSteps DEF ListStep

LEMMA StoppedStep ==
    ASSUME IInv, Stopped, [Next]_vars
    PROVE  Stopped'
<1>0. /\ pc \in [Threads -> Labels] /\ pos \in [Threads -> Nat \ {0}] /\ clients \in Seq(Client)
  BY DEF IInv, TypeOK
<1> DEFINE AtWork == pc["Srv"] \notin {"off", "done"}
<1> USE <1>0 DEF Threads, srvVars, thrVars, Goto
<1>1. AtWork => pc["Main"] \in {"start", "run", "join"}
  BY DEF Stopped
<1>2. ASSUME UNCHANGED <<clients, state>>, UNCHANGED <<pc, pos>> PROVE Stopped'
  BY <1>2 DEF Stopped
<1>3. CASE \/ Bind \/ BindWait \/ BuildFdSet \/ SelectEnter \/ SelectReturn \/ Accept \/ AddClient
           \/ HandleLock \/ HandleSkip \/ HandleClient \/ HandleUnlock \/ CheckPipe
  <2>1. AtWork /\ pc'["Main"] = pc["Main"]
    BY <1>3 DEF Bind, BindWait, BuildFdSet, SelectEnter, SelectReturn, Accept, AddClient,
       HandleLock,
       HandleSkip, HandleClient, HandleUnlock, CheckPipe, Lock, Unlock
  <2> QED
    BY <1>1, <2>1 DEF Stopped
<1>4. CASE UNCHANGED vars \/ FritzMessage
  BY <1>2, <1>4 DEF vars, FritzMessage
<1>5. CASE FritzBroadcast \/ BroadcastDisconnect
  <2>1. /\ pc'["Main"] = pc["Main"] \/ (pc["Main"] = "bcast" /\ pc'["Main"] = "send")
        /\ pc'["Srv"] = pc["Srv"] /\ (pos'["Main"] = pos["Main"] \/ pc'["Main"] = "send")
        /\ UNCHANGED <<state, clients>>
    BY <1>5 DEF FritzBroadcast, BroadcastDisconnect, BroadcastLock, Lock
  <2> QED
    BY <2>1 DEF Stopped
<1>6. CASE CisrvRun \/ Shutdown \/ JoinSrv
  BY <1>6 DEF CisrvRun, Shutdown, JoinSrv, Stopped, IInv, NotYetRunning
<1>7. CASE CloseListenSock
  BY <1>7 DEF CloseListenSock, Stopped
<1>8. ASSUME NEW p \in Peers, \/ PeerConnect(p) \/ PeerRead(p) \/ PeerClose(p)
                              \/ \E m \in Sayings : PeerSay(p, m)
      PROVE  Stopped'
  BY <1>2, <1>8 DEF PeerConnect, PeerRead, PeerClose, PeerSay
<1>9. ASSUME NEW t \in Threads, ListStep(t) PROVE Stopped'
  <2>1. /\ pc[t] \in Critical \cup {"rlock"}
        /\ \A u \in Threads : u # t => pc'[u] = pc[u] /\ pos'[u] = pos[u]
        /\ t # "Main" => state' = state
    BY <1>9 DEF ListStep, RemoveLock, RemoveSkip, ShutdownSock, DrainAndClose, Unlink,
       RemoveUnlock,
       BroadcastSkip, BroadcastSend, BroadcastUnlock, Lock, Unlock, Advance, Critical
  <2>2. CASE t = "Srv"
    <3>1. AtWork
      BY <2>1, <2>2 DEF Critical
    <3> QED
      BY <1>1, <2>1, <2>2, <3>1 DEF Stopped
  <2>3. clients = <<>> => clients' = <<>>
    <3>1. ASSUME clients = <<>> PROVE Len(clients) = 0
      BY <3>1
    <3>2. ASSUME clients = <<>> PROVE ~Unlink(t)
      BY <3>1, <3>2 DEF Unlink, IInv, PosInRange
    <3>3. ASSUME clients = <<>> PROVE ~BroadcastSend(t)
      BY <3>1, <3>3 DEF BroadcastSend, AtEnd
    <3> QED
      BY <1>9, <3>2, <3>3 DEF ListStep, RemoveLock, RemoveSkip, ShutdownSock, DrainAndClose,
         RemoveUnlock, BroadcastSkip, BroadcastUnlock
  <2>4. CASE t = "Fritz"
    BY <2>1, <2>3, <2>4 DEF Stopped
  <2>5. CASE t = "Main"
    <3>1. pc["Srv"] \in {"off", "done"} /\ pc'["Srv"] = pc["Srv"]
      BY <2>1, <2>5 DEF Stopped, Critical
    <3>2. CASE RemoveLock(t)
      BY <2>5, <3>1, <3>2 DEF RemoveLock, Lock, Stopped
    <3>3. CASE RemoveSkip(t)
      BY <2>5, <3>1, <3>3 DEF RemoveSkip, Doomed, ClosingAll, Advance, Stopped
    <3>4. CASE ShutdownSock(t) \/ DrainAndClose(t) \/ Unlink(t)
      BY <2>5, <3>1, <3>4 DEF ShutdownSock, DrainAndClose, Unlink, Stopped
    <3>5. CASE RemoveUnlock(t)
      <4>1. CASE ClosingAll(t)
        <5>1. Len(clients) = 0
          BY <2>5, <3>5, <4>1 DEF RemoveUnlock, AtEnd, ClosingAll, Stopped
        <5>2. clients = <<>> /\ clients' = clients
          BY <3>5, <5>1 DEF RemoveUnlock
        <5>3. pc'["Main"] = "close"
          BY <2>5, <3>5, <4>1 DEF RemoveUnlock, Unlock, AfterRemove
        <5> QED
          BY <3>1, <5>2, <5>3 DEF Stopped
      <4>2. CASE ~ClosingAll(t)
        <5>1. pc'["Main"] = "rlock"
          BY <2>5, <3>5, <4>2 DEF RemoveUnlock, Unlock, AfterRemove
        <5> QED
          BY <3>1, <5>1 DEF Stopped
      <4> QED
        BY <4>1, <4>2
    <3>6. CASE BroadcastSkip(t) \/ BroadcastSend(t) \/ BroadcastUnlock(t)
      <4>1. pc'["Main"] \in {"send", "rlock"}
        BY <2>5, <3>6 DEF BroadcastSkip, BroadcastSend, BroadcastUnlock, Unlock
      <4> QED
        BY <3>1, <4>1 DEF Stopped
    <3> QED
      BY <1>9, <3>2, <3>3, <3>4, <3>5, <3>6 DEF ListStep
  <2> QED
    BY <2>2, <2>4, <2>5
<1> QED
  BY <1>3, <1>4, <1>5, <1>6, <1>7, <1>8, <1>9, NextCases

-----------------------------------------------------------------------------
(* The invariant of broadcasts, marks and descriptors, and its theorems.   *)

DInv == IInv /\ Sending /\ Heard /\ MarkedForCause /\ Kept /\ Stopped

LEMMA InitDelivery == Init => DInv
<1> SUFFICES ASSUME Init PROVE DInv
  OBVIOUS
<1>1. IInv
  BY InitInv
<1>2. /\ tcp = [p \in Peers |-> "idle"] /\ got = [p \in Peers |-> <<>>]
      /\ due = [p \in Peers |-> <<>>] /\ c2s = [p \in Peers |-> <<>>] /\ clients = <<>>
      /\ pc = [t \in Threads |-> IF t = "Main" THEN "start" ELSE "off"]
      /\ conn = [f \in Fds |-> NoPeer]
  BY DEF Init
<1>3. Sending
  <2>1. \A p \in Peers : got[p] \in Seq(Nat) /\ got[p] = due[p] /\ ~Awaits(p)
    BY <1>1, <1>2 DEF IInv, TypeOK, Awaits, Threads
  <2>2. PICK n \in Nat : n = 0
    OBVIOUS
  <2> QED
    BY <2>1, <2>2, PrefixProperties DEF Sending
<1>4. Heard
  BY <1>2 DEF Heard
<1>5. MarkedForCause
  BY <1>2 DEF MarkedForCause
<1>6. Kept /\ Stopped
  BY <1>2 DEF Kept, Stopped, Threads
<1> QED
  BY <1>1, <1>3, <1>4, <1>5, <1>6 DEF DInv

LEMMA DInvHolds == Spec => []DInv
<1>1. DInv /\ [Next]_vars => DInv'
  BY StepInv, SendingStep, HeardStep, MarkedStep, KeptStep, StoppedStep DEF DInv, IInv
<1> QED
  BY <1>1, InitDelivery, PTL DEF Spec

\* A client is sent each broadcast it was listed for once, in the order of the
\* broadcasts and without a gap, by whichever of the three threads sends them.
THEOREM EventsAreInOrder == Spec => []EventsInOrder
<1>1. DInv => EventsInOrder
  BY DEF DInv, Sending, EventsInOrder
<1> QED
  BY <1>1, DInvHolds, PTL

\* When no broadcast is under way, a client whose connection stands has been
\* sent everything it was listed for.
THEOREM AllDelivered == Spec => []Delivered
<1>1. DInv => Delivered
  <2> SUFFICES ASSUME DInv, lock = NoThread, NEW i \in 1..Len(clients),
                      clients[i].peer # NoPeer, tcp[clients[i].peer] = "up"
               PROVE  got[clients[i].peer] = due[clients[i].peer]
    BY DEF Delivered
  <2>1. PICK p \in Peers : p = clients[i].peer
    <3>1. clients[i] \in Client
      BY DEF DInv, IInv, TypeOK
    <3> QED
      BY <3>1 DEF Client
  <2>2. ~Awaits(p)
    BY AwaitsNothing DEF DInv, IInv
  <2> QED
    BY <2>1, <2>2 DEF DInv, Sending
<1> QED
  BY <1>1, DInvHolds, PTL

\* No client is given up that has not hung up, said LEAVE or sent a message
\* without its body.
THEOREM MarksAreRightful == Spec => []MarkedForCause
<1>1. DInv => MarkedForCause
  BY DEF DInv
<1> QED
  BY <1>1, DInvHolds, PTL

\* No descriptor that accept() gave out is lost, and after cisrv_disconnect all
\* of them are closed.
THEOREM NothingLeaks == Spec => []NoLeak
<1>1. DInv => NoLeak
  <2> SUFFICES ASSUME DInv PROVE NoLeak
    OBVIOUS
  <2>1. \A f \in Fds : conn[f] # NoPeer =>
           newsock = f \/ \E i \in 1..Len(clients) : clients[i].sock = f
    BY DEF DInv, Kept, Holds
  <2>2. ASSUME pc["Main"] = "done" PROVE clients = <<>> /\ \A f \in Fds : conn[f] = NoPeer
    <3>1. clients = <<>> /\ pc["Srv"] \in {"off", "done"}
      BY <2>2 DEF DInv, Stopped
    <3>2. newsock = NoSock
      BY <3>1 DEF DInv, IInv, Ownership, NewSockIsNew
    <3> QED
      BY <2>1, <3>1, <3>2, FdAssumption
  <2> QED
    BY <2>1, <2>2 DEF NoLeak
<1> QED
  BY <1>1, DInvHolds, PTL

=============================================================================
