---------------------------- MODULE DaemonProofs ----------------------------
(***************************************************************************)
(* Theorems about Daemon, for any number of starts and pids: the types, and *)
(* that without lapses one daemon at most serves and the file names it.    *)
(***************************************************************************)
EXTENDS Daemon, TLAPS

Serves(s) == daemon[s] = "serves"

\* A pid belongs to the start or the child it was given to, which has one as
\* long as it runs.
OwnPids ==
    \A s \in Starts :
        /\ Pending(s) => pid[s] \in Pids /\ process[pid[s]] = Parent(s)
        /\ Alive(s) => child[s] \in Pids /\ process[child[s]] = Child(s)
        /\ pc[s] \in {"create", "write"} => child[s] \in Pids
        /\ pc[s] = "compare" => number[s] \in Pids

\* And nobody else runs under the name of a start or a child.
Owners ==
    \A s \in Starts, p \in Pids :
        /\ process[p] = Parent(s) => Pending(s) /\ pid[s] = p
        /\ process[p] = Child(s)  => Alive(s) /\ child[s] = p

\* A child exists when its start has forked, and only then.
Stages ==
    \A s \in Starts :
        /\ pc[s] \in {"off", "test", "read", "compare", "fork", "refused", "failed"}
              => daemon[s] = "none"
        /\ Serves(s) => pc[s] \in {"create", "write", "done"}

\* Without lapses: one start at a time, which learns of a daemon that serves,
\* forks only if there is none, and then has the file for its own child.
Alone ==
    lapses = {} =>
        /\ \A s, t \in Starts : Pending(s) /\ Pending(t) => s = t
        /\ \A s, t \in Starts : Serves(t) =>
              /\ pc[s] = "compare" => number[s] = child[t]
              /\ pc[s] # "fork"
              /\ pc[s] \in {"create", "write"} => s = t
        /\ \A s \in Starts : Serves(s) /\ pc[s] = "write" => s \in open

\* A start finds itself under the pid it has read only if a daemon has left it.
NotItself ==
    lapses = {} => \A s \in Starts :
                      pc[s] = "compare" /\ ~stale => number[s] # pid[s]

IInv == TypeOK /\ OwnPids /\ Owners /\ NotItself /\ Stages /\ StaleForCause /\ Alone /\ OneDaemon /\ FileNamesDaemon

-----------------------------------------------------------------------------
(* What runs under a pid says whose it is.                                 *)

LEMMA Kinds ==
    /\ \A s, t \in Starts : /\ Parent(s) # Child(t)
                            /\ Parent(s) = Parent(t) => s = t
                            /\ Child(s) = Child(t) => s = t
                            /\ Parent(s) \in Named /\ Child(s) \in Named
    /\ \A s \in Starts : Free # Parent(s) /\ Free # Child(s)
                         /\ Other # Parent(s) /\ Other # Child(s)
    /\ Free \notin Named /\ Free # Other
<1> DEFINE kind(r) == r.kind
           of(r)   == r.of
<1>1. /\ kind(Free) = "free" /\ kind(Other) = "other"
      /\ \A s \in Starts : /\ kind(Parent(s)) = "parent" /\ kind(Child(s)) = "child"
                           /\ of(Parent(s)) = s /\ of(Child(s)) = s
      BY DEF Free, Other, Parent, Child
<1> HIDE DEF kind, of
<1>2. \A s \in Starts : Parent(s) \in Named /\ Child(s) \in Named
      BY DEF Named
<1>3. QED BY <1>1, <1>2 DEF Named

LEMMA InitIInv == Init => IInv
<1> SUFFICES ASSUME Init PROVE IInv OBVIOUS
<1> USE DaemonAssumption
<1>1. TypeOK BY DEF Init, TypeOK
<1>2. OwnPids /\ Stages BY DEF Init, OwnPids, Stages, Pending, Alive, Serves
<1>6. Owners BY Kinds DEF Init, Owners
<1>7. NotItself BY DEF Init, NotItself
<1>3. StaleForCause BY DEF Init, StaleForCause
<1>4. Alone /\ OneDaemon /\ FileNamesDaemon
      BY DEF Init, Alone, OneDaemon, FileNamesDaemon, Pending, Serves
<1>5. QED BY <1>1, <1>2, <1>3, <1>4, <1>6, <1>7 DEF IInv

LEMMA TypeStep == IInv /\ [Next]_vars => TypeOK'
<1> SUFFICES ASSUME IInv, [Next]_vars PROVE TypeOK' OBVIOUS
<1> USE DaemonAssumption DEF IInv, TypeOK
<1>1. ASSUME NEW s \in Starts, NEW p \in Pids, Begin(s, p) PROVE TypeOK'
      <2>1. Parent(s) \in Named BY DEF Named
      <2>2. lapses' \subseteq {"crossed", "path", "unwritten"} BY <1>1 DEF Begin, LapseIf
      <2>3. QED BY <1>1, <2>1, <2>2 DEF Begin
<1>2. ASSUME NEW s \in Starts, TestFile(s) PROVE TypeOK' BY <1>2 DEF TestFile
<1>3. ASSUME NEW s \in Starts, ReadFile(s) PROVE TypeOK'
      <2>1. PICK p \in NumbersRead : number' = [number EXCEPT ![s] = p] /\
               pc' = [pc EXCEPT ![s] = IF p = NoFile THEN "fork" ELSE "compare"]
            BY <1>3 DEF ReadFile
      <2>2. p \in Pids \cup {NoFile} BY DEF NumbersRead
      <2>3. QED BY <1>3, <2>1, <2>2 DEF ReadFile
<1>4. ASSUME NEW s \in Starts, Compare(s) PROVE TypeOK'
      <2>1. lapses' \subseteq {"crossed", "path", "unwritten"} BY <1>4 DEF Compare, LapseIf
      <2>2. QED BY <1>4, <2>1 DEF Compare
<1>5. ASSUME NEW s \in Starts, NEW p \in Pids, Fork(s, p) PROVE TypeOK'
      <2>1. Child(s) \in Named BY DEF Named
      <2>2. QED BY <1>5, <2>1 DEF Fork
<1>6. ASSUME NEW s \in Starts, ForkFails(s) \/ CreateFails(s) PROVE TypeOK'
      <2>1. CASE ForkFails(s) BY <2>1 DEF ForkFails
      <2>2. CASE CreateFails(s) BY <2>2 DEF CreateFails, LapseIf
      <2>3. QED BY <1>6, <2>1, <2>2
<1>7. ASSUME NEW s \in Starts, Create(s) PROVE TypeOK'
      <2>1. pc' = [pc EXCEPT ![s] = "write"] /\ open' = open \cup {s} BY <1>7 DEF Create
      <2>2. open' \subseteq {t \in Starts : pc'[t] = "write"} /\ open' # {} BY <2>1
      <2>3. pc' \in [Starts -> {"off", "test", "read", "compare", "fork", "create", "write",
                                "done", "refused", "failed"}]
            BY <2>1
      <2>4. QED BY <1>7, <2>2, <2>3 DEF Create
<1>8. ASSUME NEW s \in Starts, Write(s) PROVE TypeOK'
      <2>1. child[s] \in Pids BY <1>8 DEF Write, OwnPids
      <2>2. file' # Empty \/ s \notin open BY <1>8, <2>1 DEF Write
      <2>3. QED BY <1>8, <2>1, <2>2 DEF Write
<1>9. ASSUME NEW s \in Starts, Serving(s) PROVE TypeOK'
      BY <1>9 DEF Serving, StopDaemon, Leave, Killed, starting
<1>10. ASSUME NEW p \in Pids, OtherBegins(p) \/ OtherEnds(p) PROVE TypeOK'
      BY <1>10 DEF OtherBegins, OtherEnds, starting
<1>11. CASE UNCHANGED vars BY <1>11 DEF vars, starting
<1>12. QED BY <1>1, <1>2, <1>3, <1>4, <1>5, <1>6, <1>7, <1>8, <1>9, <1>10, <1>11
           DEF Next, Starting

LEMMA StagesStep == IInv /\ [Next]_vars => Stages'
<1> SUFFICES ASSUME IInv, [Next]_vars PROVE Stages' OBVIOUS
<1> USE DEF IInv, TypeOK, Stages, Serves
<1>1. ASSUME NEW s \in Starts, Starting(s) PROVE Stages'
      <2>1. CASE \E p \in Pids : Begin(s, p) BY <2>1 DEF Begin
      <2>2. CASE TestFile(s) BY <2>2 DEF TestFile
      <2>3. CASE ReadFile(s) BY <2>3 DEF ReadFile
      <2>4. CASE Compare(s) BY <2>4 DEF Compare
      <2>5. CASE \E p \in Pids : Fork(s, p) BY <2>5 DEF Fork
      <2>6. CASE ForkFails(s) BY <2>6 DEF ForkFails
      <2>7. CASE Create(s) BY <2>7 DEF Create
      <2>8. CASE CreateFails(s) BY <2>8 DEF CreateFails
      <2>9. CASE Write(s) BY <2>9 DEF Write
      <2>10. QED BY <1>1, <2>1, <2>2, <2>3, <2>4, <2>5, <2>6, <2>7, <2>8, <2>9 DEF Starting
<1>2. ASSUME NEW s \in Starts, Serving(s) PROVE Stages'
      BY <1>2 DEF Serving, StopDaemon, Leave, Killed, starting
<1>3. ASSUME NEW p \in Pids, OtherBegins(p) \/ OtherEnds(p) PROVE Stages'
      BY <1>3 DEF OtherBegins, OtherEnds, starting
<1>4. CASE UNCHANGED vars BY <1>4 DEF vars, starting
<1>5. QED BY <1>1, <1>2, <1>3, <1>4 DEF Next

LEMMA StaleStep == IInv /\ [Next]_vars => StaleForCause'
<1> SUFFICES ASSUME IInv, [Next]_vars PROVE StaleForCause' OBVIOUS
<1> USE DaemonAssumption DEF IInv, TypeOK, StaleForCause
<1>1. ASSUME NEW s \in Starts, NEW p \in Pids, Fork(s, p) PROVE StaleForCause'
      <2>1. daemon[s] = "none" BY <1>1 DEF Fork, Stages
      <2>2. QED BY <1>1, <2>1 DEF Fork
<1>2. ASSUME NEW s \in Starts, Write(s) PROVE StaleForCause'
      BY <1>2 DEF Write
<1>3. ASSUME NEW s \in Starts,
             TestFile(s) \/ ReadFile(s) \/ Compare(s) \/ ForkFails(s) \/ Create(s)
             \/ CreateFails(s) \/ \E p \in Pids : Begin(s, p)
      PROVE StaleForCause'
      BY <1>3 DEF TestFile, ReadFile, Compare, ForkFails, Create, CreateFails, Begin
<1>4. ASSUME NEW s \in Starts, Serving(s) PROVE StaleForCause'
      BY <1>4 DEF Serving, StopDaemon, Leave, Killed, starting
<1>5. ASSUME NEW p \in Pids, OtherBegins(p) \/ OtherEnds(p) PROVE StaleForCause'
      BY <1>5 DEF OtherBegins, OtherEnds, starting
<1>6. CASE UNCHANGED vars BY <1>6 DEF vars, starting
<1>7. QED BY <1>1, <1>2, <1>3, <1>4, <1>5, <1>6 DEF Next, Starting

LEMMA OwnPidsStep == IInv /\ [Next]_vars => OwnPids'
<1> SUFFICES ASSUME IInv, [Next]_vars PROVE OwnPids' OBVIOUS
<1> USE DaemonAssumption, Kinds DEF IInv, TypeOK, OwnPids, Pending, Alive
<1>1. ASSUME NEW s \in Starts, NEW p \in Pids, Begin(s, p) PROVE OwnPids'
      BY <1>1 DEF Begin
<1>2. ASSUME NEW s \in Starts, NEW p \in Pids, Fork(s, p) PROVE OwnPids'
      BY <1>2 DEF Fork
<1>3. ASSUME NEW s \in Starts, ReadFile(s) PROVE OwnPids'
      <2>1. PICK p \in NumbersRead : number' = [number EXCEPT ![s] = p] /\
               pc' = [pc EXCEPT ![s] = IF p = NoFile THEN "fork" ELSE "compare"]
            BY <1>3 DEF ReadFile
      <2>2. p \in Pids \cup {NoFile} BY DEF NumbersRead
      <2>3. QED BY <1>3, <2>1, <2>2 DEF ReadFile
<1>4. ASSUME NEW s \in Starts, TestFile(s) \/ Create(s) PROVE OwnPids'
      BY <1>4 DEF TestFile, Create
<1>5. ASSUME NEW s \in Starts, Compare(s) PROVE OwnPids'
      BY <1>5 DEF Compare
<1>6. ASSUME NEW s \in Starts, ForkFails(s) \/ CreateFails(s) \/ Write(s) PROVE OwnPids'
      <2>1. CASE ForkFails(s) BY <2>1 DEF ForkFails
      <2>2. CASE CreateFails(s) BY <2>2 DEF CreateFails
      <2>3. CASE Write(s) BY <2>3 DEF Write
      <2>4. QED BY <1>6, <2>1, <2>2, <2>3
<1>7. ASSUME NEW s \in Starts, Serving(s) PROVE OwnPids'
      BY <1>7 DEF Serving, StopDaemon, Leave, Killed, starting
<1>8. ASSUME NEW p \in Pids, OtherBegins(p) \/ OtherEnds(p) PROVE OwnPids'
      BY <1>8 DEF OtherBegins, OtherEnds, starting
<1>9. CASE UNCHANGED vars BY <1>9 DEF vars, starting
<1>10. QED BY <1>1, <1>2, <1>3, <1>4, <1>5, <1>6, <1>7, <1>8, <1>9 DEF Next, Starting

LEMMA OwnersStep == IInv /\ [Next]_vars => Owners'
<1> SUFFICES ASSUME IInv, [Next]_vars PROVE Owners' OBVIOUS
<1> USE DaemonAssumption, Kinds DEF IInv, TypeOK, OwnPids, Owners, Stages, Serves, Pending, Alive
<1>1. ASSUME NEW s \in Starts, NEW p \in Pids, Begin(s, p) PROVE Owners'
      BY <1>1 DEF Begin
<1>2. ASSUME NEW s \in Starts, NEW p \in Pids, Fork(s, p) PROVE Owners'
      BY <1>2 DEF Fork
<1>3. ASSUME NEW s \in Starts, TestFile(s) \/ ReadFile(s) \/ Create(s) PROVE Owners'
      <2>1. CASE TestFile(s) BY <2>1 DEF TestFile
      <2>2. CASE ReadFile(s) BY <2>2 DEF ReadFile
      <2>3. CASE Create(s) BY <2>3 DEF Create
      <2>4. QED BY <1>3, <2>1, <2>2, <2>3
<1>4. ASSUME NEW s \in Starts, Compare(s) PROVE Owners'
      BY <1>4 DEF Compare
<1>5. ASSUME NEW s \in Starts, ForkFails(s) PROVE Owners' BY <1>5 DEF ForkFails
<1>6. ASSUME NEW s \in Starts, CreateFails(s) PROVE Owners' BY <1>6 DEF CreateFails
<1>7. ASSUME NEW s \in Starts, Write(s) PROVE Owners' BY <1>7 DEF Write
<1>8. ASSUME NEW s \in Starts, StopDaemon(s) PROVE Owners' BY <1>8 DEF StopDaemon, starting
<1>9. ASSUME NEW s \in Starts, Leave(s) \/ Killed(s) PROVE Owners'
      BY <1>9 DEF Leave, Killed, starting
<1>10. ASSUME NEW p \in Pids, OtherBegins(p) \/ OtherEnds(p) PROVE Owners'
      BY <1>10 DEF OtherBegins, OtherEnds, starting
<1>11. CASE UNCHANGED vars BY <1>11 DEF vars, starting
<1>12. QED BY <1>1, <1>2, <1>3, <1>4, <1>5, <1>6, <1>7, <1>8, <1>9, <1>10, <1>11
           DEF Next, Starting, Serving

LEMMA LapsesStep == [Next]_vars /\ lapses' = {} => lapses = {}
BY DEF Next, Starting, Begin, TestFile, ReadFile, Compare, Fork, ForkFails, Create,
       CreateFails, Write, Serving, StopDaemon, Leave, Killed, OtherBegins, OtherEnds,
       LapseIf, vars

LEMMA NotItselfStep == IInv /\ [Next]_vars => NotItself'
<1> SUFFICES ASSUME IInv, [Next]_vars, lapses' = {} PROVE NotItself'
    BY DEF NotItself
<1>0. lapses = {} BY LapsesStep
<1> USE DaemonAssumption, Kinds, <1>0 DEF IInv, TypeOK, OwnPids, NotItself, Alone, Pending
<1>1. ASSUME NEW s \in Starts, NEW p \in Pids, Begin(s, p) PROVE NotItself'
      BY <1>1 DEF Begin
<1>2. ASSUME NEW s \in Starts, ReadFile(s) PROVE NotItself'
      <2>1. PICK p \in NumbersRead : number' = [number EXCEPT ![s] = p] /\
               pc' = [pc EXCEPT ![s] = IF p = NoFile THEN "fork" ELSE "compare"]
            BY <1>2 DEF ReadFile
      <2>2. file # Empty BY <1>2 DEF ReadFile
      <2>3. file \in Pids /\ ~stale => file # pid[s]
            <3>1. SUFFICES ASSUME file \in Pids, ~stale PROVE file # pid[s] OBVIOUS
            <3>2. PICK t \in Starts : Serves(t) /\ child[t] = file
                  BY <3>1 DEF StaleForCause, Serves
            <3>3. process[file] = Child(t) BY <3>2 DEF Serves, Alive
            <3>4. process[pid[s]] = Parent(s) BY <1>2 DEF ReadFile
            <3>5. QED BY <3>3, <3>4
      <2>4. QED BY <1>2, <2>1, <2>2, <2>3 DEF ReadFile, NumbersRead
<1>3. ASSUME NEW s \in Starts, TestFile(s) \/ Compare(s) \/ \E p \in Pids : Fork(s, p)
      PROVE NotItself'
      BY <1>3 DEF TestFile, Compare, Fork
<1>10. ASSUME NEW s \in Starts, ForkFails(s) \/ CreateFails(s) PROVE NotItself'
      <2>1. CASE ForkFails(s) BY <2>1 DEF ForkFails
      <2>2. CASE CreateFails(s) BY <2>2 DEF CreateFails
      <2>3. QED BY <1>10, <2>1, <2>2
<1>4. ASSUME NEW s \in Starts, Create(s) \/ Write(s) PROVE NotItself'
      BY <1>4 DEF Create, Write
<1>5. ASSUME NEW s \in Starts, StopDaemon(s) PROVE NotItself'
      <2>1. \A t \in Starts : pc[t] = "compare" =>
               number[t] = child[s] /\ process[child[s]] = Child(s)
            BY <1>5 DEF StopDaemon, Serves, Alive
      <2>2. QED BY <1>5, <2>1 DEF StopDaemon, starting
<1>6. ASSUME NEW s \in Starts, Leave(s) \/ Killed(s) PROVE NotItself'
      BY <1>6 DEF Leave, Killed, starting
<1>7. ASSUME NEW p \in Pids, OtherBegins(p) \/ OtherEnds(p) PROVE NotItself'
      BY <1>7 DEF OtherBegins, OtherEnds, starting
<1>8. CASE UNCHANGED vars BY <1>8 DEF vars, starting
<1>9. QED BY <1>1, <1>2, <1>3, <1>4, <1>5, <1>6, <1>7, <1>8, <1>10
          DEF Next, Starting, Serving

\* One daemon and its file: the three parts need one another.
Guarded == Alone /\ OneDaemon /\ FileNamesDaemon

LEMMA GuardedStep == IInv /\ [Next]_vars => Guarded'
<1> SUFFICES ASSUME IInv, [Next]_vars, lapses' = {} PROVE Guarded'
    BY DEF Guarded, Alone, OneDaemon, FileNamesDaemon
<1>0. lapses = {} BY LapsesStep
<1> USE DaemonAssumption, <1>0
    DEF IInv, TypeOK, Stages, Alone, OneDaemon, FileNamesDaemon, Guarded, Pending, Serves
<1>1. ASSUME NEW s \in Starts, NEW p \in Pids, Begin(s, p) PROVE Guarded'
      <2>1. \A t \in Starts : ~Pending(t) BY <1>1 DEF Begin, LapseIf
      <2>2. QED BY <1>1, <2>1 DEF Begin
<1>2. ASSUME NEW s \in Starts, TestFile(s) PROVE Guarded'
      <2>1. \A t \in Starts : Serves(t) => ~Pending(t) /\ child[t] \in Pids
            BY <1>2 DEF TestFile, OwnPids, Alive
      <2>2. QED BY <1>2, <2>1 DEF TestFile
<1>3. ASSUME NEW s \in Starts, ReadFile(s) PROVE Guarded'
      <2>1. PICK p \in NumbersRead : number' = [number EXCEPT ![s] = p] /\
               pc' = [pc EXCEPT ![s] = IF p = NoFile THEN "fork" ELSE "compare"]
            BY <1>3 DEF ReadFile
      <2>2. \A t \in Starts : Serves(t) => child[t] \in Pids /\ file = child[t]
            BY <1>3 DEF ReadFile, OwnPids, Alive
      <2>3. \A t \in Starts : Serves(t) => p = child[t]
            BY <2>2 DEF NumbersRead
      <2>4. QED BY <1>3, <2>1, <2>2, <2>3 DEF ReadFile
<1>4. ASSUME NEW s \in Starts, Compare(s) PROVE Guarded'
      <2>1. ASSUME NEW t \in Starts, Serves(t) PROVE SameName(s)
            <3>1. process[number[s]] = Child(t) BY <1>4, <2>1 DEF Compare, OwnPids, Alive
            <3>2. process[number[s]] \in Named BY <3>1, Kinds
            <3>3. s \notin ByPath BY <1>4, <3>2 DEF Compare, SameName, LapseIf
            <3>4. QED BY <3>2, <3>3 DEF SameName
      <2>2. CASE SameName(s) BY <1>4, <2>2 DEF Compare
      <2>3. CASE ~SameName(s) BY <1>4, <2>1, <2>3 DEF Compare
      <2>4. QED BY <2>2, <2>3
<1>5. ASSUME NEW s \in Starts, NEW p \in Pids, Fork(s, p) PROVE Guarded'
      <2>1. \A t \in Starts : ~Serves(t) BY <1>5 DEF Fork
      <2>2. QED BY <1>5, <2>1 DEF Fork
<1>6. ASSUME NEW s \in Starts, ForkFails(s) PROVE Guarded' BY <1>6 DEF ForkFails
<1>7. ASSUME NEW s \in Starts, Create(s) PROVE Guarded' BY <1>7 DEF Create
<1>8. ASSUME NEW s \in Starts, CreateFails(s) PROVE Guarded' BY <1>8 DEF CreateFails, LapseIf
<1>9. ASSUME NEW s \in Starts, Write(s) PROVE Guarded' BY <1>9 DEF Write
<1>10. ASSUME NEW s \in Starts, Serving(s) PROVE Guarded'
      BY <1>10 DEF Serving, StopDaemon, Leave, Killed, starting
<1>11. ASSUME NEW p \in Pids, OtherBegins(p) \/ OtherEnds(p) PROVE Guarded'
      BY <1>11 DEF OtherBegins, OtherEnds, starting
<1>12. CASE UNCHANGED vars BY <1>12 DEF vars, starting
<1>13. QED BY <1>1, <1>2, <1>3, <1>4, <1>5, <1>6, <1>7, <1>8, <1>9, <1>10, <1>11, <1>12
           DEF Next, Starting

-----------------------------------------------------------------------------
\* What main.c and daemon.c keep, whatever starts, daemons and other programs do.
THEOREM Invariance == Spec => []IInv
<1>1. IInv /\ [Next]_vars => IInv'
      BY TypeStep, OwnPidsStep, OwnersStep, NotItselfStep, StagesStep, StaleStep, GuardedStep
      DEF IInv, Guarded
<1>2. QED BY InitIInv, <1>1, PTL DEF Spec

\* Every start and every child is at one of its steps, and the file holds a pid,
\* unless a parent is just writing it.
THEOREM TypeCorrect == Spec => []TypeOK
<1>1. IInv => TypeOK BY DEF IInv
<1>2. QED BY Invariance, <1>1, PTL

\* The test of the pid file keeps a second daemon from serving if starts do not
\* overlap, are made without a path and can write the file.
THEOREM AtMostOne == Spec => []OneDaemon
<1>1. IInv => OneDaemon BY DEF IInv
<1>2. QED BY Invariance, <1>1, PTL

\* Then a stop by the pid file stops the daemon that serves.
THEOREM FileNames == Spec => []FileNamesDaemon
<1>1. IInv => FileNamesDaemon BY DEF IInv
<1>2. QED BY Invariance, <1>1, PTL

\* A pid that names no daemon has been left by a daemon that was killed or that
\* ended before its parent wrote, in every case.
THEOREM NoOtherStaleFile == Spec => []StaleForCause
<1>1. IInv => StaleForCause BY DEF IInv
<1>2. QED BY Invariance, <1>1, PTL
\* A start is not refused without a daemon, unless the file has been left by one
\* that has ended and the pid in it has come into use again.
THEOREM RefusedRightly == Spec => RefusedForCause
<1>1. ASSUME IInv, [Next]_vars, NEW s \in Starts, pc[s] = "compare", pc'[s] = "refused"
      PROVE  (\E t \in Starts : Alive(t)) \/ stale \/ lapses # {}
      <2>1. SUFFICES ASSUME ~stale, lapses = {} PROVE \E t \in Starts : Alive(t)
            OBVIOUS
      <2>2. SameName(s)
            <3> USE <1>1, <2>1 DEF IInv, TypeOK
            <3>1. ~UNCHANGED pc OBVIOUS
            <3>2. PICK u \in Starts : Starting(u)
                  BY <3>1 DEF Next, Serving, StopDaemon, Leave, Killed, OtherBegins, OtherEnds,
                              starting, vars
            <3>3. CASE Compare(u) BY <3>3 DEF Compare
            <3>4. CASE TestFile(u) \/ ReadFile(u) \/ \E p \in Pids : Begin(u, p) \/ Fork(u, p)
                  BY <3>4 DEF TestFile, ReadFile, Begin, Fork
            <3>5. CASE ForkFails(u) \/ Create(u) BY <3>5 DEF ForkFails, Create
            <3>6. CASE CreateFails(u) \/ Write(u) BY <3>6 DEF CreateFails, Write
            <3>7. QED BY <3>2, <3>3, <3>4, <3>5, <3>6 DEF Starting
      <2>3. number[s] \in Pids /\ number[s] # pid[s]
            BY <1>1, <2>1 DEF IInv, OwnPids, NotItself
      <2>4. ASSUME NEW t \in Starts, process[number[s]] = Parent(t) PROVE FALSE
            <3>1. Pending(t) /\ pid[t] = number[s]
                  BY <1>1, <2>3, <2>4 DEF IInv, Owners
            <3>2. s = t BY <1>1, <2>1, <3>1 DEF IInv, Alone, Pending
            <3>3. QED BY <2>3, <3>1, <3>2
      <2>5. PICK t \in Starts : process[number[s]] = Child(t)
            BY <2>2, <2>4 DEF SameName, Named
      <2>6. QED BY <1>1, <2>3, <2>5 DEF IInv, Owners
<1>2. IInv /\ [Next]_vars => [Refusals]_vars
      BY <1>1 DEF Refusals
<1>3. QED BY Invariance, <1>2, PTL DEF Spec, RefusedForCause

=============================================================================
