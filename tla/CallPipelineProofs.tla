------------------------- MODULE CallPipelineProofs -------------------------
(***************************************************************************)
(* CallPipeline implements CallFeed, for any numbers and names, any number *)
(* of calls and requests: what fails between two broadcasts does not show  *)
(* (inductive invariant IInv).  The phone book is right unless a call gets *)
(* between a statement and its count (BookInv).                            *)
(***************************************************************************)
EXTENDS CallPipeline, SequenceTheorems, FiniteSetTheorems, TLAPS

Stages == {"idle", "Message", "cache", "web", "store", "found", "Update", "Complete", "Call"}

\* What CallPipeline!TypeOK says of the calls.
CallsTyped ==
    /\ pc = [Fritz |-> pc["Fritz"], Srv |-> pc["Srv"]] /\ pc["Fritz"] \in Stages
    /\ set = [n |-> set.n, number |-> set.number, name |-> set.name]
    /\ set.n \in 0..MaxCalls /\ set.name \in AnyName /\ calls \in 0..MaxCalls
    /\ set.n = calls /\ found \in BOOLEAN
    /\ pc["Fritz"] # "idle" => set.number \in Numbers /\ set.n \in 1..MaxCalls
    /\ cache \in [Numbers -> Seq(Names \cup {Blank})]
    /\ cidata \in Seq(Record) /\ todo \in Seq(Record) /\ out \in Seq(Event)

\* The number of the last call that clients have been told of.
LastTold == IF out = <<>> THEN 0 ELSE out[Len(out)].n

\* The call at hand is the one after it until its first broadcast.
Telling ==
    /\ pc["Fritz"] \in {"Message", "Call"} => calls = LastTold + 1
    /\ pc["Fritz"] \notin {"Message", "Call"} => calls = LastTold

\* The name of the set is the area until a name is found, and never after.
Naming ==
    /\ pc["Fritz"] = "Call" => set.name = Blank
    /\ pc["Fritz"] \in {"Message", "cache", "web"} => set.name = Area /\ found = FALSE
    /\ pc["Fritz"] \in {"store", "found", "Update", "Complete"} => (found <=> set.name # Area)
    /\ pc["Fritz"] = "Update" => found = TRUE

\* From the store on, the last call kept is the one at hand.
Storing ==
    pc["Fritz"] \in {"found", "Update", "Complete"} =>
        Kept # <<>> /\ Kept[Len(Kept)].n = set.n /\ Kept[Len(Kept)].name = set.name

IInv == CallsTyped /\ Telling /\ Naming /\ Storing

LEMMA InitInv == Init => IInv
<1> SUFFICES ASSUME Init PROVE IInv
  OBVIOUS
<1>1. CallsTyped
  <2>1. cache \in [Numbers -> Seq(Names \cup {Blank})]
    BY DEF Init
  <2>2. /\ pc = [Fritz |-> pc["Fritz"], Srv |-> pc["Srv"]] /\ pc["Fritz"] = "idle"
        /\ set = [n |-> set.n, number |-> set.number, name |-> set.name]
        /\ set.n = 0 /\ set.name = Blank /\ calls = 0 /\ found = FALSE
    BY DEF Init
  <2>3. 0 \in 0..MaxCalls
    BY PipelineAssumption
  <2>4. cidata \in Seq(Record) /\ todo \in Seq(Record) /\ out \in Seq(Event)
    BY DEF Init
  <2> QED BY <2>1, <2>2, <2>3, <2>4 DEF CallsTyped, Stages, AnyName
<1>2. Telling
  BY DEF Init, Telling, LastTold
<1>3. Naming /\ Storing
  BY PipelineAssumption DEF Init, Naming, Storing
<1> QED BY <1>1, <1>2, <1>3 DEF IInv

\* Where a thread goes does not move the other one.
LEMMA GotoFritz ==
  ASSUME IInv, NEW label, Goto("Fritz", label)
  PROVE  /\ pc'["Fritz"] = label /\ pc'["Srv"] = pc["Srv"]
         /\ pc' = [Fritz |-> pc'["Fritz"], Srv |-> pc'["Srv"]]
  BY DEF IInv, CallsTyped, Goto

LEMMA GotoSrv ==
  ASSUME IInv, NEW label, Goto("Srv", label)
  PROVE  /\ pc'["Fritz"] = pc["Fritz"]
         /\ pc' = [Fritz |-> pc'["Fritz"], Srv |-> pc'["Srv"]]
  BY DEF IInv, CallsTyped, Goto

\* What is stored comes last, in the table or behind what waits.
LEMMA KeptGrows ==
  ASSUME IInv, Store
  PROVE  /\ set \in Record /\ Kept \in Seq(Record) /\ Kept' = Append(Kept, set)
         /\ cidata' \in Seq(Record) /\ todo' \in Seq(Record)
<1>1. set \in Record
  BY DEF IInv, CallsTyped, Store, At, Record
<1>2. cidata \in Seq(Record) /\ todo \in Seq(Record)
  BY DEF IInv, CallsTyped
<1>3. CASE cidata' = Append(cidata, set) /\ todo' = todo /\ todo = <<>>
  BY <1>1, <1>2, <1>3 DEF Kept
<1>4. CASE todo' = Append(todo, set) /\ cidata' = cidata
  <2>1. cidata \o Append(todo, set) = Append(cidata \o todo, set)
    BY <1>1, <1>2
  <2> QED BY <1>1, <1>2, <1>4, <2>1 DEF Kept
<1> QED BY <1>3, <1>4 DEF Store, Insert, InsertFails, Postpone

\* A step that leaves the calls alone.
LEMMA Aside ==
  ASSUME IInv, UNCHANGED callVars, pc'["Fritz"] = pc["Fritz"],
         pc' = [Fritz |-> pc'["Fritz"], Srv |-> pc'["Srv"]]
  PROVE  IInv'
<1>1. CallsTyped'
  BY DEF IInv, CallsTyped, callVars
<1> QED BY <1>1 DEF IInv, Telling, Naming, Storing, LastTold, Kept, callVars

\* What the stages of handle_fritz_message do to the set and to the name found.
LEMMA CallStarts ==
  ASSUME IInv, NEW number \in Numbers, Ring(number) \/ Call(number)
  PROVE  IInv'
<1>1. /\ pc["Fritz"] = "idle" /\ calls' = calls + 1 /\ calls' \in 1..MaxCalls
      /\ set'.n = calls' /\ set'.number = number
      /\ set' = [n |-> set'.n, number |-> set'.number, name |-> set'.name]
      /\ found' = FALSE /\ UNCHANGED <<cache, cidata, todo, out>>
  BY PipelineAssumption DEF IInv, CallsTyped, Ring, Call, At
<1>2. /\ pc' = [Fritz |-> pc'["Fritz"], Srv |-> pc'["Srv"]]
      /\ \/ pc'["Fritz"] = "Message" /\ set'.name = Area
         \/ pc'["Fritz"] = "Call" /\ set'.name = Blank
  BY GotoFritz DEF Ring, Call
<1>3. CallsTyped'
  <2>1. /\ cache' \in [Numbers -> Seq(Names \cup {Blank})]
        /\ cidata' \in Seq(Record) /\ todo' \in Seq(Record) /\ out' \in Seq(Event)
    BY <1>1 DEF IInv, CallsTyped
  <2>2. pc'["Fritz"] \in Stages /\ set'.name \in AnyName
    BY <1>2 DEF Stages, AnyName
  <2>3. set'.n \in 0..MaxCalls /\ calls' \in 0..MaxCalls
    BY <1>1, PipelineAssumption
  <2> QED BY <1>1, <1>2, <2>1, <2>2, <2>3 DEF CallsTyped
<1>4. Telling'
  BY <1>1, <1>2 DEF IInv, Telling, LastTold
<1>5. Naming' /\ Storing'
  BY <1>1, <1>2, PipelineAssumption DEF Naming, Storing
<1> QED BY <1>3, <1>4, <1>5 DEF IInv

\* A broadcast of the call at hand.
LEMMA BroadcastTells ==
  ASSUME IInv, NEW type \in {"Message", "Update", "Complete", "Call"},
         NEW next \in {"cache", "Complete", "idle"}, Broadcast(type, next)
  PROVE  /\ out' = Append(out, [type |-> type, n |-> set.n, name |-> set.name])
         /\ pc["Fritz"] = type /\ pc'["Fritz"] = next
         /\ CallsTyped' /\ calls' = LastTold'
<1>1. /\ pc["Fritz"] = type /\ pc'["Fritz"] = next
      /\ pc' = [Fritz |-> pc'["Fritz"], Srv |-> pc'["Srv"]]
      /\ UNCHANGED <<set, found, cache, cidata, todo, calls>>
  BY GotoFritz DEF Broadcast, At
<1> DEFINE e == [type |-> type, n |-> set.n, name |-> set.name]
<1>2. e \in Event /\ e.n = calls
  BY <1>1 DEF IInv, CallsTyped, Event
<1>3. out \in Seq(Event) /\ out' = Append(out, e)
  BY DEF IInv, CallsTyped, Broadcast
<1>4. CallsTyped'
  <2>1. out' \in Seq(Event)
    BY <1>2, <1>3
  <2> QED BY <1>1, <2>1 DEF IInv, CallsTyped, Stages
<1>5. LastTold' = calls'
  <2> HIDE DEF e
  <2>1. out' # <<>> /\ out'[Len(out')] = e
    BY <1>2, <1>3
  <2> QED BY <1>1, <1>2, <2>1 DEF LastTold
<1> QED BY <1>1, <1>3, <1>4, <1>5

LEMMA FindKeepsInv ==
  ASSUME IInv, FindInCache \/ AskWeb
  PROVE  IInv' /\ FeedStage = "announced" /\ FeedStage' = "announced"
<1>1. /\ pc["Fritz"] \in {"cache", "web"} /\ pc'["Fritz"] \in {"web", "store"}
      /\ pc' = [Fritz |-> pc'["Fritz"], Srv |-> pc'["Srv"]]
  BY GotoFritz DEF FindInCache, AskWeb, At
<1>2. UNCHANGED <<cidata, todo, calls, out>>
  BY DEF FindInCache, AskWeb
<1>3. /\ set' = [n |-> set.n, number |-> set.number, name |-> set'.name]
      /\ \/ set'.name = set.name /\ found' = found
         \/ /\ set'.name \in Names \cup {Blank} /\ found' = TRUE /\ pc'["Fritz"] = "store"
  <2>1. CASE UNCHANGED <<set, found>>
    BY <2>1 DEF IInv, CallsTyped
  <2>2. CASE FindInCache /\ cache[set.number] # <<>> /\ Goto("Fritz", "store")
             /\ set' = [set EXCEPT !.name = Head(cache[set.number])] /\ found' = TRUE
    <3>1. cache[set.number] \in Seq(Names \cup {Blank}) /\ cache[set.number] # <<>>
      BY <1>1, <2>2 DEF IInv, CallsTyped
    <3>2. Head(cache[set.number]) \in Names \cup {Blank}
      BY <3>1
    <3>3. set' = [n |-> set.n, number |-> set.number, name |-> Head(cache[set.number])]
      BY <2>2 DEF IInv, CallsTyped
    <3> QED BY <2>2, <3>2, <3>3, GotoFritz
  <2>3. CASE AskWeb /\ \E name \in Names \cup {Blank} :
                 set' = [set EXCEPT !.name = name] /\ found' = TRUE
    <3>1. PICK name \in Names \cup {Blank} :
              set' = [set EXCEPT !.name = name] /\ found' = TRUE
      BY <2>3
    <3>2. set' = [n |-> set.n, number |-> set.number, name |-> name]
      BY <3>1 DEF IInv, CallsTyped
    <3>3. pc'["Fritz"] = "store"
      BY <2>3, GotoFritz DEF AskWeb
    <3> QED BY <3>1, <3>2, <3>3
  <2> QED BY <2>1, <2>2, <2>3 DEF FindInCache, AskWeb
<1>4. cache' \in [Numbers -> Seq(Names \cup {Blank})]
  <2>1. CASE cache' = cache
    BY <2>1 DEF IInv, CallsTyped
  <2>2. CASE \E name \in Names \cup {Blank} :
                 cache' = [cache EXCEPT ![set.number] = Append(@, name)]
    <3>1. PICK name \in Names \cup {Blank} :
              cache' = [cache EXCEPT ![set.number] = Append(@, name)]
      BY <2>2
    <3>2. cache \in [Numbers -> Seq(Names \cup {Blank})] /\ set.number \in Numbers
      BY <1>1 DEF IInv, CallsTyped
    <3>3. Append(cache[set.number], name) \in Seq(Names \cup {Blank})
      BY <3>2
    <3> QED BY <3>1, <3>2, <3>3
  <2> QED BY <2>1, <2>2 DEF FindInCache, AskWeb
<1>5. CallsTyped'
  <2>1. pc'["Fritz"] \in Stages /\ set'.name \in AnyName /\ found' \in BOOLEAN
    BY <1>1, <1>3 DEF IInv, CallsTyped, Stages, AnyName
  <2> QED BY <1>1, <1>2, <1>3, <1>4, <2>1 DEF IInv, CallsTyped
<1>6. Naming'
  BY <1>1, <1>3, PipelineAssumption DEF IInv, Naming
<1>7. Telling' /\ Storing'
  BY <1>1, <1>2 DEF IInv, Telling, LastTold, Storing
<1> QED BY <1>1, <1>5, <1>6, <1>7 DEF IInv, FeedStage

LEMMA StoreKeepsInv ==
  ASSUME IInv, Store
  PROVE  IInv' /\ pc["Fritz"] = "store" /\ pc'["Fritz"] = "found"
         /\ UNCHANGED <<set, found, calls, out>>
<1>1. /\ pc["Fritz"] = "store" /\ pc'["Fritz"] = "found"
      /\ pc' = [Fritz |-> pc'["Fritz"], Srv |-> pc'["Srv"]]
      /\ UNCHANGED <<set, found, cache, calls, out>>
  BY GotoFritz DEF Store, Stored, At
<1>2. CallsTyped'
  BY <1>1, KeptGrows DEF IInv, CallsTyped, Stages
<1>3. Storing'
  <2>1. Kept' # <<>> /\ Kept'[Len(Kept')] = set
    BY KeptGrows
  <2> QED BY <1>1, <2>1 DEF Storing
<1>4. Telling' /\ Naming'
  BY <1>1 DEF IInv, Telling, LastTold, Naming
<1> QED BY <1>1, <1>2, <1>3, <1>4 DEF IInv

LEMMA DecideKeepsInv ==
  ASSUME IInv, DecideUpdate
  PROVE  IInv' /\ FeedStage = "known" /\ FeedStage' = "known"
<1>1. /\ pc["Fritz"] = "found" /\ pc'["Fritz"] = IF found THEN "Update" ELSE "Complete"
      /\ pc' = [Fritz |-> pc'["Fritz"], Srv |-> pc'["Srv"]] /\ UNCHANGED callVars
  BY GotoFritz DEF DecideUpdate, At
<1>2. CallsTyped'
  BY <1>1 DEF IInv, CallsTyped, Stages, callVars
<1>3. Telling' /\ Naming' /\ Storing'
  BY <1>1 DEF IInv, CallsTyped, Telling, LastTold, Naming, Storing, Kept, callVars
<1> QED BY <1>1, <1>2, <1>3 DEF IInv, FeedStage, callVars

LEMMA BroadcastKeepsInv ==
  ASSUME IInv, SendMessage \/ SendUpdate \/ SendComplete \/ SendCall
  PROVE  IInv'
<1>1. /\ \/ pc["Fritz"] = "Message" /\ pc'["Fritz"] = "cache"
         \/ pc["Fritz"] = "Update" /\ pc'["Fritz"] = "Complete"
         \/ pc["Fritz"] \in {"Complete", "Call"} /\ pc'["Fritz"] = "idle"
      /\ CallsTyped' /\ calls' = LastTold'
  BY BroadcastTells DEF SendMessage, SendUpdate, SendComplete, SendCall
<1>2. UNCHANGED <<set, found, cidata, todo>>
  BY DEF SendMessage, SendUpdate, SendComplete, SendCall, Broadcast
<1>3. Telling' /\ Naming' /\ Storing'
  BY <1>1, <1>2 DEF IInv, Telling, Naming, Storing, Kept
<1> QED BY <1>1, <1>3 DEF IInv

\* The phone book leaves the calls alone.
LEMMA BookAside ==
  ASSUME IInv, Srv \/ Client
  PROVE  UNCHANGED callVars /\ pc'["Fritz"] = pc["Fritz"]
         /\ pc' = [Fritz |-> pc'["Fritz"], Srv |-> pc'["Srv"]]
<1>1. pc = [Fritz |-> pc["Fritz"], Srv |-> pc["Srv"]]
  BY DEF IInv, CallsTyped
<1>2. CASE Srv
  BY <1>2, GotoSrv DEF Srv, CountUpdated, InsertCaller, CountInserted, Reply
<1>3. CASE \E entry \in Entry : UpdateCaller(entry)
  BY <1>3, GotoSrv DEF UpdateCaller
<1>4. CASE \E entry \in Entry : RemoveCaller(entry)
  BY <1>1, <1>4 DEF RemoveCaller
<1> QED BY <1>2, <1>3, <1>4 DEF Client

-----------------------------------------------------------------------------
(* IInv is inductive.                                                      *)

LEMMA NextInv == IInv /\ [Next]_vars => IInv'
<1> SUFFICES ASSUME IInv, [Next]_vars PROVE IInv'
  OBVIOUS
<1>1. CASE \E number \in Numbers : Ring(number) \/ Call(number)
  BY <1>1, CallStarts
<1>2. CASE SendMessage \/ SendUpdate \/ SendComplete \/ SendCall
  BY <1>2, BroadcastKeepsInv
<1>3. CASE FindInCache \/ AskWeb
  BY <1>3, FindKeepsInv
<1>4. CASE Store
  BY <1>4, StoreKeepsInv
<1>5. CASE DecideUpdate
  BY <1>5, DecideKeepsInv
<1>6. CASE Srv \/ Client
  BY <1>6, BookAside, Aside
<1>7. CASE UNCHANGED vars
  <2>1. pc' = pc /\ UNCHANGED callVars
    BY <1>7 DEF vars
  <2>2. pc' = [Fritz |-> pc'["Fritz"], Srv |-> pc'["Srv"]]
    BY <2>1 DEF IInv, CallsTyped
  <2> QED BY <2>1, <2>2, Aside
<1> QED BY <1>1, <1>2, <1>3, <1>4, <1>5, <1>6, <1>7 DEF Next, Progress

-----------------------------------------------------------------------------
(* Every step is one of the feed, or shows nothing.                         *)

\* As long as a call is on its way it is the one of the last event.
LEMMA NowIsSet ==
  ASSUME IInv, pc["Fritz"] \in {"cache", "web", "store", "found", "Update", "Complete"}
  PROVE  out # <<>> /\ Feed!Now = set.n
<1>1. LastTold = set.n /\ set.n \in 1..MaxCalls
  BY DEF IInv, CallsTyped, Telling
<1> QED BY <1>1, PipelineAssumption DEF LastTold, Feed!Now

LEMMA NextCallIsSet ==
  ASSUME IInv, pc["Fritz"] \in {"Message", "Call"}
  PROVE  FeedStage = "over" /\ Feed!NextCall = set.n /\ set.n <= MaxCalls
<1>1. LastTold + 1 = set.n /\ set.n \in 1..MaxCalls
  BY DEF IInv, CallsTyped, Telling
<1>2. Feed!NextCall = LastTold + 1
  BY DEF LastTold, Feed!NextCall, Feed!Now
<1> QED BY <1>1, <1>2, PipelineAssumption DEF FeedStage

\* From the store on, the name kept last is that of the call at hand.
LEMMA KeptNameIsSet ==
  ASSUME IInv, pc["Fritz"] \in {"found", "Update", "Complete"}
  PROVE  Feed!KeptName = set.name /\ (found <=> set.name # Area)
<1>1. Kept \in Seq(Record)
  BY DEF IInv, CallsTyped, Kept
<1>2. Kept # <<>> /\ Kept[Len(Kept)].name = set.name
  BY DEF IInv, Storing
<1>3. Len(Kept) \in 1..Len(Kept) /\ Len(FeedKept) = Len(Kept)
  BY <1>1, <1>2 DEF FeedKept
<1>4. FeedKept[Len(FeedKept)].name = Kept[Len(Kept)].name
  BY <1>3 DEF FeedKept
<1> QED BY <1>2, <1>4 DEF Feed!KeptName, IInv, Naming

LEMMA StoreIsKeep ==
  ASSUME IInv, Store
  PROVE  Feed!Keep
<1>1. /\ set \in Record /\ Kept \in Seq(Record) /\ Kept' = Append(Kept, set)
      /\ UNCHANGED <<set, out>> /\ pc["Fritz"] = "store" /\ pc'["Fritz"] = "found"
  BY KeptGrows, StoreKeepsInv
<1> DEFINE last == [n |-> set.n, name |-> set.name]
<1>2. FeedKept' = Append(FeedKept, last)
  <2>1. /\ Kept' \in Seq(Record) /\ Len(Kept') = Len(Kept) + 1 /\ Len(Kept) \in Nat
        /\ Kept'[Len(Kept) + 1] = set
        /\ \A i \in 1..Len(Kept) : Kept'[i] = Kept[i]
    BY <1>1
  <2> DEFINE KeptCall == [n : 1..MaxCalls, name : AnyName]
  <2>2. /\ FeedKept \in Seq(KeptCall) /\ Len(FeedKept) = Len(Kept)
        /\ FeedKept' \in Seq(KeptCall) /\ Len(FeedKept') = Len(Kept) + 1
    <3>1. /\ \A i \in 1..Len(Kept) : Kept[i] \in Record
          /\ \A i \in 1..Len(Kept') : Kept'[i] \in Record
      BY <1>1, <2>1
    <3> QED BY <2>1, <3>1 DEF FeedKept, Record
  <2>3. last \in KeptCall
    BY <1>1 DEF Record
  <2>4. \A i \in 1..Len(Kept) : FeedKept'[i] = FeedKept[i]
    BY <2>1 DEF FeedKept
  <2>5. FeedKept'[Len(Kept) + 1] = last
    BY <2>1 DEF FeedKept
  <2> HIDE DEF last, KeptCall
  <2>6. /\ Append(FeedKept, last) \in Seq(KeptCall)
        /\ Len(Append(FeedKept, last)) = Len(Kept) + 1
        /\ \A i \in 1..Len(Kept) : Append(FeedKept, last)[i] = FeedKept[i]
        /\ Append(FeedKept, last)[Len(Kept) + 1] = last
    BY <2>2, <2>3, AppendProperties
  <2>7. \A i \in 1..Len(FeedKept') : FeedKept'[i] = Append(FeedKept, last)[i]
    BY <2>1, <2>2, <2>4, <2>5, <2>6
  <2> QED BY <2>2, <2>6, <2>7, SeqEqual
<1>3. last.n = Feed!Now /\ last.name \in Names \cup {Blank, Area}
  BY <1>1, NowIsSet DEF Record, AnyName
<1>4. FeedStage = "announced" /\ FeedStage' = "known"
  BY <1>1 DEF FeedStage
<1> QED BY <1>1, <1>2, <1>3, <1>4 DEF Feed!Keep

LEMMA StepShows ==
  ASSUME IInv, [Next]_vars
  PROVE  [Feed!Next]_Feed!vars
<1> USE DEF At
<1>1. CASE \E number \in Numbers : Ring(number) \/ Call(number)
  <2>1. UNCHANGED <<cidata, todo, out>> /\ pc["Fritz"] = "idle"
        /\ pc'["Fritz"] \in {"Message", "Call"}
    BY <1>1, GotoFritz DEF Ring, Call
  <2> QED BY <2>1 DEF FeedStage, FeedKept, Kept, Feed!vars
<1>2. CASE SendMessage
  <2>1. /\ pc["Fritz"] = "Message" /\ pc'["Fritz"] = "cache" /\ UNCHANGED <<cidata, todo>>
        /\ out' = Append(out, [type |-> "Message", n |-> set.n, name |-> set.name])
    BY <1>2, BroadcastTells DEF SendMessage, Broadcast
  <2>2. set.name = Area
    BY <2>1 DEF IInv, Naming
  <2>3. Feed!Announce
    BY <2>1, <2>2, NextCallIsSet DEF Feed!Announce, Feed!Tell, FeedStage, FeedKept, Kept
  <2> QED BY <2>3 DEF Feed!Next
<1>3. CASE FindInCache \/ AskWeb
  <2>1. UNCHANGED <<cidata, todo, out>>
    BY <1>3 DEF FindInCache, AskWeb
  <2> QED BY <1>3, <2>1, FindKeepsInv DEF FeedKept, Kept, Feed!vars
<1>4. CASE Store
  BY <1>4, StoreIsKeep DEF Feed!Next
<1>5. CASE DecideUpdate
  <2>1. UNCHANGED <<cidata, todo, out>>
    BY <1>5 DEF DecideUpdate, callVars
  <2> QED BY <1>5, <2>1, DecideKeepsInv DEF FeedKept, Kept, Feed!vars
<1>6. CASE SendUpdate
  <2>1. /\ pc["Fritz"] = "Update" /\ pc'["Fritz"] = "Complete" /\ UNCHANGED <<cidata, todo>>
        /\ out' = Append(out, [type |-> "Update", n |-> set.n, name |-> set.name])
        /\ found' = found
    BY <1>6, BroadcastTells DEF SendUpdate, Broadcast
  <2>2. found = TRUE /\ set.name # Area
    BY <2>1 DEF IInv, Naming
  <2>3. FeedStage = "known" /\ FeedStage' = "corrected"
    BY <2>1, <2>2 DEF FeedStage
  <2>4. Feed!Correct
    BY <2>1, <2>2, <2>3, NowIsSet, KeptNameIsSet DEF Feed!Correct, Feed!Tell, FeedKept, Kept
  <2> QED BY <2>4 DEF Feed!Next
<1>7. CASE SendComplete
  <2>1. /\ pc["Fritz"] = "Complete" /\ pc'["Fritz"] = "idle" /\ UNCHANGED <<cidata, todo>>
        /\ out' = Append(out, [type |-> "Complete", n |-> set.n, name |-> set.name])
    BY <1>7, BroadcastTells DEF SendComplete, Broadcast
  <2>2. FeedStage = (IF found THEN "corrected" ELSE "known") /\ FeedStage' = "over"
    BY <2>1 DEF FeedStage
  <2>3. Feed!Finish
    BY <2>1, <2>2, NowIsSet, KeptNameIsSet DEF Feed!Finish, Feed!Tell, FeedKept, Kept
  <2> QED BY <2>3 DEF Feed!Next
<1>8. CASE SendCall
  <2>1. /\ pc["Fritz"] = "Call" /\ pc'["Fritz"] = "idle" /\ UNCHANGED <<cidata, todo>>
        /\ out' = Append(out, [type |-> "Call", n |-> set.n, name |-> set.name])
    BY <1>8, BroadcastTells DEF SendCall, Broadcast
  <2>2. set.name = Blank
    BY <2>1 DEF IInv, Naming
  <2>3. Feed!Outgoing
    BY <2>1, <2>2, NextCallIsSet DEF Feed!Outgoing,
         Feed!Tell, FeedStage, FeedKept, Kept
  <2> QED BY <2>3 DEF Feed!Next
<1>9. CASE Srv \/ Client
  <2>1. UNCHANGED <<found, cidata, todo, out>> /\ pc'["Fritz"] = pc["Fritz"]
    BY <1>9, BookAside DEF callVars
  <2> QED BY <2>1 DEF FeedStage, FeedKept, Kept, Feed!vars
<1>10. CASE UNCHANGED vars
  BY <1>10 DEF vars, callVars, FeedStage, FeedKept, Kept, Feed!vars
<1> QED BY <1>1, <1>2, <1>3, <1>4, <1>5, <1>6, <1>7, <1>8, <1>9, <1>10 DEF Next, Progress

LEMMA InitShows == Init => Feed!Init
  BY DEF Init, Feed!Init, FeedStage, FeedKept, Kept

\* handle_fritz_message, with the cache, the web, the queue and the failures
\* behind it, and beside the requests of clients, keeps the promise of CallFeed.
THEOREM Implements == Spec => ImplementsFeed
<1>1. Init => IInv /\ Feed!Init
  BY InitInv, InitShows
<1>2. IInv /\ [Next]_vars => IInv'
  BY NextInv
<1>3. IInv /\ [Next]_vars => [Feed!Next]_Feed!vars
  BY StepShows
<1> QED BY <1>1, <1>2, <1>3, PTL DEF Spec, ImplementsFeed, Feed!Spec

Promise == INSTANCE CallFeedProofs WITH feed <- out, kept <- FeedKept, stage <- FeedStage

LEMMA SamePromise ==
  /\ Feed!Init <=> Promise!Init
  /\ [Feed!Next]_Feed!vars <=> [Promise!Next]_Promise!vars
  BY DEF Feed!Init, Promise!Init,
         Feed!Next, Feed!Announce, Feed!Keep, Feed!Correct, Feed!Finish, Feed!Outgoing,
         Feed!Tell, Feed!Now, Feed!NextCall, Feed!KeptName, Feed!vars,
         Promise!Next, Promise!Announce, Promise!Keep, Promise!Correct, Promise!Finish,
         Promise!Outgoing,
         Promise!Tell, Promise!Now, Promise!NextCall, Promise!KeptName, Promise!vars

\* So what follows from CallFeed holds for handle_fritz_message: a call told as
\* complete is kept once and under that name, calls are kept in their order, and
\* no event of a call is told after one of a later call.
THEOREM PromiseHolds ==
  Spec => [](Promise!CompleteIsKept /\ Promise!KeptInOrder /\ Promise!ToldInOrder)
<1>1. Spec => Promise!Spec
  BY Implements, SamePromise, PTL DEF ImplementsFeed, Feed!Spec, Promise!Spec
<1>2. Promise!Spec => []Promise!CompleteIsKept
  BY Promise!CompleteKept
<1>3. Promise!Spec => []Promise!KeptInOrder
  BY Promise!KeptOrdered
<1>4. Promise!Spec => []Promise!ToldInOrder
  BY Promise!ToldOrdered
<1> QED BY <1>1, <1>2, <1>3, <1>4, PTL

-----------------------------------------------------------------------------
(* The phone book.                                                         *)

\* What CallPipeline!TypeOK says of the phone book and the connection.
BookTyped ==
    /\ book \in Table /\ changes \in Nat /\ rc \in {0, 1} /\ adds \in 0..MaxAdds
    /\ req \in Entry \cup {Unused} /\ raced \in BOOLEAN /\ backup \in Seq(1..MaxCalls)
    /\ set.number \in Numbers \cup {Blank}
    /\ pc["Srv"] \in {"idle", "count", "insert", "counted", "reply"}
    /\ pc["Srv"] # "idle" => req \in Entry /\ adds \in 1..MaxAdds

InBook(entry) == \E i \in DOMAIN book : book[i] = entry

\* Unless the counter of the connection has been overwritten, it says at each
\* stage of an addition what the addition has done to the rows.
Counted ==
    /\ OneEntry
    /\ At("Srv", "count") => /\ \A i \in Rows(req.number) : book[i] = req
                             /\ changes = 0 <=> Rows(req.number) = {}
    /\ At("Srv", "insert") => Rows(req.number) = {}
    /\ At("Srv", "counted") => InBook(req)
    /\ At("Srv", "reply") /\ rc = 0 => InBook(req)

BookInv == IInv /\ BookTyped /\ (raced \/ Counted)

LEMMA TableRows ==
    /\ book \in Table => DOMAIN book \subseteq 1..MaxAdds /\ book \in [DOMAIN book -> Entry]
    /\ \A rows \in SUBSET (1..MaxAdds) : [rows -> Entry] \subseteq Table
  BY DEF Table

\* sqlite3_changes is a number, and 0 exactly for a statement without rows.
LEMMA RowsCounted ==
    ASSUME BookTyped, NEW rows \in SUBSET DOMAIN book
    PROVE  Cardinality(rows) \in Nat /\ (Cardinality(rows) = 0 <=> rows = {})
<1>1. IsFiniteSet(1..MaxAdds)
  BY PipelineAssumption, FS_Interval
<1>2. rows \subseteq 1..MaxAdds
  BY TableRows DEF BookTyped
<1>3. IsFiniteSet(rows)
  BY <1>1, <1>2, FS_Subset
<1> QED
  BY <1>3, FS_CardinalityType, FS_EmptySet

\* The calls leave the phone book alone, and the counter too, but for one that is
\* stored; that is noted.
LEMMA CallsAside ==
    ASSUME IInv, BookTyped, Progress \/ \E number \in Numbers : Ring(number) \/ Call(number)
    PROVE  /\ UNCHANGED bookVars /\ pc'["Srv"] = pc["Srv"] /\ changes' \in Nat
           /\ raced' \in BOOLEAN /\ (raced => raced') /\ backup' \in Seq(1..MaxCalls)
           /\ set'.number \in Numbers \cup {Blank}
           /\ ~raced' => changes' = changes \/ pc["Srv"] \notin {"count", "counted"}
<1>0. /\ calls \in 0..MaxCalls /\ backup \in Seq(1..MaxCalls) /\ MaxCalls \in Nat
      /\ set.number \in Numbers \cup {Blank} /\ changes \in Nat /\ raced \in BOOLEAN
      /\ set = [n |-> set.n, number |-> set.number, name |-> set.name]
  BY PipelineAssumption DEF IInv, CallsTyped, BookTyped
<1>1. ASSUME NEW number \in Numbers, Ring(number) \/ Call(number)
      PROVE  /\ UNCHANGED <<bookVars, changes, raced>> /\ pc'["Srv"] = pc["Srv"]
             /\ set'.number = number /\ backup' \in {backup, Append(backup, calls + 1)}
             /\ calls + 1 \in 1..MaxCalls
  BY <1>0, <1>1, GotoFritz DEF Ring, Call
<1>2. ASSUME NEW type, NEW next, Broadcast(type, next)
      PROVE  UNCHANGED <<bookVars, changes, raced, set, backup>> /\ pc'["Srv"] = pc["Srv"]
  BY <1>2, GotoFritz DEF Broadcast
<1>3. CASE SendMessage \/ SendUpdate \/ SendComplete \/ SendCall
  BY <1>0, <1>2, <1>3 DEF SendMessage, SendUpdate, SendComplete, SendCall
<1>4. CASE FindInCache \/ AskWeb
  <2>1. UNCHANGED <<bookVars, changes, raced, backup>> /\ pc'["Srv"] = pc["Srv"]
    BY <1>4, GotoFritz DEF FindInCache, AskWeb
  <2>2. set'.number = set.number
    BY <1>0, <1>4 DEF FindInCache, AskWeb
  <2> QED
    BY <1>0, <2>1, <2>2
<1>5. CASE Store
  <2>1. UNCHANGED <<bookVars, set, backup>> /\ pc'["Srv"] = pc["Srv"]
    BY <1>5, GotoFritz DEF Store, Stored
  <2>2. changes' \in Nat
    BY <1>0, <1>5 DEF Store, Insert, InsertFails, Postpone
  <2>3. raced' = (raced \/ (todo = <<>> /\ pc["Srv"] \in {"count", "counted"}))
    BY <1>5 DEF Store, Stored
  <2>4. todo = <<>> \/ changes' = changes
    BY <1>5 DEF Store
  <2> QED
    BY <1>0, <2>1, <2>2, <2>3, <2>4
<1>6. CASE DecideUpdate
  BY <1>0, <1>6, GotoFritz DEF DecideUpdate, callVars
<1>7. CASE \E number \in Numbers : Ring(number) \/ Call(number)
  <2>1. PICK number \in Numbers : Ring(number) \/ Call(number)
    BY <1>7
  <2>2. calls + 1 \in 1..MaxCalls => Append(backup, calls + 1) \in Seq(1..MaxCalls)
    BY <1>0
  <2> QED
    BY <1>0, <1>1, <2>1, <2>2
<1> QED
  BY <1>3, <1>4, <1>5, <1>6, <1>7 DEF Progress

LEMMA CallsKeepBook ==
    ASSUME IInv, BookTyped, raced \/ Counted,
           Progress \/ \E number \in Numbers : Ring(number) \/ Call(number)
    PROVE  BookTyped' /\ (raced \/ Counted)'
<1>1. BookTyped'
  BY CallsAside DEF BookTyped, bookVars
<1>2. ASSUME ~raced' PROVE Counted'
  <2>1. ~raced /\ Counted
    BY <1>2, CallsAside DEF BookTyped
  <2>2. UNCHANGED bookVars /\ pc'["Srv"] = pc["Srv"]
        /\ (changes' = changes \/ pc["Srv"] # "count")
    BY <1>2, CallsAside
  <2>3. OneEntry'
    BY <2>1, <2>2 DEF Counted, OneEntry, bookVars
  <2> QED
    BY <2>1, <2>2, <2>3 DEF Counted, At, InBook, Rows, bookVars
<1> QED
  BY <1>1, <1>2

LEMMA UpdateKeepsBook ==
    ASSUME IInv, BookTyped, raced \/ Counted, NEW entry \in Entry, UpdateCaller(entry)
    PROVE  BookTyped' /\ (raced \/ Counted)'
<1>1. /\ pc["Srv"] = "idle" /\ adds' = adds + 1 /\ adds < MaxAdds /\ req' = entry
      /\ UNCHANGED <<set, backup, raced>>
  BY DEF UpdateCaller, At, callVars
<1>2. adds' \in 1..MaxAdds
  BY <1>1, PipelineAssumption DEF BookTyped
<1> DEFINE rows == Rows(entry.number)
           new  == [i \in DOMAIN book |-> IF i \in rows THEN entry ELSE book[i]]
<1>3. rows \in SUBSET DOMAIN book /\ Cardinality(rows) \in Nat
      /\ (Cardinality(rows) = 0 <=> rows = {})
  BY RowsCounted DEF Rows
<1>4. /\ DOMAIN new = DOMAIN book /\ new \in Table
      /\ \A i \in DOMAIN book : new[i].number = book[i].number
                                /\ (new[i].number = entry.number => new[i] = entry)
  <2>1. DOMAIN book \subseteq 1..MaxAdds /\ book \in [DOMAIN book -> Entry]
    BY TableRows DEF BookTyped
  <2>2. new \in [DOMAIN book -> Entry]
    BY <2>1
  <2>3. new \in Table
    BY <2>1, <2>2, TableRows
  <2>4. \A i \in DOMAIN book : i \in rows <=> book[i].number = entry.number
    BY DEF Rows
  <2> QED
    BY <2>2, <2>3, <2>4
<1>5. CASE book' = new /\ changes' = Cardinality(rows) /\ Goto("Srv", "count") /\ UNCHANGED rc
  <2>1. pc'["Srv"] = "count"
    BY <1>5 DEF Goto, IInv, CallsTyped
  <2>2. BookTyped'
    <3> HIDE DEF new, rows
    <3> QED
      BY <1>1, <1>2, <1>3, <1>4, <1>5, <2>1 DEF BookTyped
  <2>3. ASSUME ~raced PROVE Counted'
    <3>1. OneEntry'
      BY <1>4, <1>5, <2>3 DEF Counted, OneEntry
    <3>2. Rows(entry.number)' = rows
      <4>1. DOMAIN book' = DOMAIN book
            /\ \A i \in DOMAIN book : book'[i].number = book[i].number
        BY <1>4, <1>5
      <4> QED
        BY <4>1 DEF Rows
    <3>3. \A i \in rows : book'[i] = entry
      BY <1>5 DEF Rows
    <3> QED
      BY <1>1, <1>3, <1>5, <2>1, <3>1, <3>2, <3>3 DEF Counted, At
  <2> QED
    BY <1>1, <2>2, <2>3
<1>6. CASE rc' = 1 /\ changes' \in {0, changes} /\ Goto("Srv", "reply") /\ UNCHANGED book
  <2>1. pc'["Srv"] = "reply"
    BY <1>6 DEF Goto, IInv, CallsTyped
  <2>2. BookTyped'
    BY <1>1, <1>2, <1>6, <2>1 DEF BookTyped
  <2>3. raced' \/ Counted'
    BY <1>1, <1>6, <2>1 DEF Counted, OneEntry, At
  <2> QED
    BY <2>2, <2>3
<1> QED
  BY <1>5, <1>6 DEF UpdateCaller

LEMMA RemoveKeepsBook ==
    ASSUME IInv, BookTyped, raced \/ Counted, NEW entry \in Entry, RemoveCaller(entry)
    PROVE  BookTyped' /\ (raced \/ Counted)'
<1>1. /\ pc["Srv"] = "idle" /\ adds' = adds + 1 /\ adds < MaxAdds
      /\ UNCHANGED <<pc, set, backup, req, rc, raced>>
  BY DEF RemoveCaller, At, callVars
<1>2. adds' \in 0..MaxAdds
  BY <1>1, PipelineAssumption DEF BookTyped
<1> DEFINE left == DOMAIN book \ Equal(entry)
<1>3. /\ \/ book' = Restrict(book, left) /\ changes' = Cardinality(Equal(entry))
         \/ book' = book /\ changes' \in {0, changes}
  BY DEF RemoveCaller
<1>4. Cardinality(Equal(entry)) \in Nat
  BY RowsCounted DEF Equal
<1>5. DOMAIN book \subseteq 1..MaxAdds /\ book \in [DOMAIN book -> Entry]
  BY TableRows DEF BookTyped
<1>6. /\ book' \in Table /\ DOMAIN book' \subseteq DOMAIN book
      /\ \A i \in DOMAIN book' : book'[i] = book[i]
  <2>1. CASE book' = Restrict(book, left)
    <3>1. book' \in [left -> Entry] /\ left \in SUBSET (1..MaxAdds)
      BY <1>5, <2>1 DEF Restrict
    <3>2. DOMAIN book' = left /\ \A i \in left : book'[i] = book[i]
      BY <2>1 DEF Restrict
    <3> QED
      BY <3>1, <3>2, TableRows
  <2>2. CASE book' = book
    BY <2>2 DEF BookTyped
  <2> QED
    BY <1>3, <2>1, <2>2
<1>7. BookTyped'
  BY <1>1, <1>2, <1>3, <1>4, <1>6 DEF BookTyped
<1>8. raced' \/ Counted'
  BY <1>1, <1>6 DEF Counted, OneEntry, At
<1> QED
  BY <1>7, <1>8

LEMMA InsertKeepsBook ==
    ASSUME IInv, BookTyped, raced \/ Counted, InsertCaller
    PROVE  BookTyped' /\ (raced \/ Counted)'
<1>1. /\ pc["Srv"] = "insert" /\ UNCHANGED <<set, backup, req, adds, raced>>
      /\ req \in Entry /\ adds \in 1..MaxAdds
  BY DEF InsertCaller, At, callVars, BookTyped
<1> DEFINE new == [i \in DOMAIN book \cup {adds} |-> IF i = adds THEN req ELSE book[i]]
<1>2. CASE book' = new /\ changes' = 1 /\ Goto("Srv", "counted") /\ UNCHANGED rc
  <2>1. pc'["Srv"] = "counted"
    BY <1>2 DEF Goto, IInv, CallsTyped
  <2>2. /\ DOMAIN book' = DOMAIN book \cup {adds} /\ book'[adds] = req
        /\ \A i \in DOMAIN book : i # adds => book'[i] = book[i]
    BY <1>2
  <2>3. book' \in Table
    <3>1. DOMAIN book \subseteq 1..MaxAdds /\ book \in [DOMAIN book -> Entry]
      BY TableRows DEF BookTyped
    <3>2. DOMAIN book \cup {adds} \in SUBSET (1..MaxAdds)
      BY <1>1, <3>1
    <3>3. new \in [DOMAIN book \cup {adds} -> Entry]
      BY <1>1, <3>1
    <3> QED
      BY <1>2, <3>2, <3>3, TableRows
  <2>4. BookTyped'
    BY <1>1, <1>2, <2>1, <2>3 DEF BookTyped
  <2>5. ASSUME ~raced PROVE Counted'
    <3>1. \A i \in DOMAIN book : book[i].number # req.number
      BY <1>1, <2>5 DEF Counted, At, Rows
    <3>2. OneEntry'
      BY <2>2, <2>5, <3>1 DEF Counted, OneEntry
    <3>3. InBook(req)'
      BY <1>1, <2>2 DEF InBook
    <3> QED
      BY <2>1, <3>2, <3>3 DEF Counted, At
  <2> QED
    BY <1>1, <2>4, <2>5
<1>3. CASE rc' = 1 /\ changes' = 0 /\ Goto("Srv", "reply") /\ UNCHANGED book
  <2>1. pc'["Srv"] = "reply"
    BY <1>3 DEF Goto, IInv, CallsTyped
  <2>2. BookTyped'
    BY <1>1, <1>3, <2>1 DEF BookTyped
  <2>3. raced' \/ Counted'
    BY <1>1, <1>3, <2>1 DEF Counted, OneEntry, At
  <2> QED
    BY <2>2, <2>3
<1> QED
  BY <1>2, <1>3 DEF InsertCaller

\* A count of no rows lets the entry be inserted, any other one says it is there.
LEMMA CountKeepsBook ==
    ASSUME IInv, BookTyped, raced \/ Counted, CountUpdated \/ CountInserted \/ Reply
    PROVE  BookTyped' /\ (raced \/ Counted)'
<1>1. UNCHANGED <<set, backup, book, adds, changes, raced>>
  BY DEF CountUpdated, CountInserted, Reply, callVars
<1>2. CASE CountUpdated
  <2>1. /\ pc["Srv"] = "count" /\ UNCHANGED req
        /\ \/ changes = 0 /\ pc'["Srv"] = "insert" /\ rc' = rc
           \/ changes # 0 /\ pc'["Srv"] = "reply" /\ rc' = 0
    BY <1>2 DEF CountUpdated, At, Goto, IInv, CallsTyped
  <2>2. BookTyped'
    BY <1>1, <2>1 DEF BookTyped
  <2>3. ASSUME ~raced PROVE Counted'
    <3>1. /\ \A i \in Rows(req.number) : book[i] = req
          /\ changes = 0 <=> Rows(req.number) = {}
          /\ OneEntry'
      BY <1>1, <2>1, <2>3 DEF Counted, At, OneEntry
    <3>2. Rows(req.number)' = Rows(req.number)
      BY <1>1, <2>1 DEF Rows
    <3>3. changes # 0 => InBook(req)'
      BY <1>1, <2>1, <3>1 DEF InBook, Rows
    <3> QED
      BY <2>1, <3>1, <3>2, <3>3 DEF Counted, At
  <2> QED
    BY <1>1, <2>2, <2>3
<1>3. CASE CountInserted
  <2>1. /\ pc["Srv"] = "counted" /\ UNCHANGED req /\ pc'["Srv"] = "reply" /\ rc' \in {0, 1}
    BY <1>3 DEF CountInserted, At, Goto, IInv, CallsTyped
  <2>2. BookTyped'
    BY <1>1, <2>1 DEF BookTyped
  <2>3. raced' \/ Counted'
    BY <1>1, <2>1 DEF Counted, OneEntry, At, InBook
  <2> QED
    BY <2>2, <2>3
<1>4. CASE Reply
  <2>1. req' = Unused /\ pc'["Srv"] = "idle" /\ rc' = 0
    BY <1>4 DEF Reply, Goto, IInv, CallsTyped
  <2>2. BookTyped'
    BY <1>1, <2>1 DEF BookTyped
  <2>3. raced' \/ Counted'
    BY <1>1, <2>1 DEF Counted, OneEntry, At
  <2> QED
    BY <2>2, <2>3
<1> QED
  BY <1>2, <1>3, <1>4

LEMMA InitBook == Init => BookInv
<1> SUFFICES ASSUME Init PROVE BookInv
  OBVIOUS
<1>1. book = <<>> /\ DOMAIN book = {} /\ pc["Srv"] = "idle"
  BY DEF Init
<1>2. book \in Table
  <2>1. {} \in SUBSET (1..MaxAdds) /\ book \in [{} -> Entry]
    BY <1>1
  <2> QED
    BY <2>1, TableRows
<1>3. BookTyped
  <2>1. <<>> \in Seq(1..MaxCalls)
    OBVIOUS
  <2>2. /\ backup = <<>> /\ set.number = Blank /\ req = Unused /\ raced = FALSE
        /\ changes = 0 /\ rc = 0 /\ adds = 0
    BY DEF Init
  <2>3. adds \in 0..MaxAdds
    BY <2>2, PipelineAssumption
  <2> QED
    BY <1>1, <1>2, <2>1, <2>2, <2>3 DEF BookTyped
<1>4. Counted
  BY <1>1 DEF Counted, OneEntry, At
<1> QED
  BY <1>3, <1>4, InitInv DEF BookInv

LEMMA BookHolds == Spec => []BookInv
<1>1. ASSUME BookInv, [Next]_vars PROVE BookInv'
  <2> USE <1>1 DEF BookInv
  <2>1. IInv'
    BY NextInv
  <2>2. CASE UNCHANGED vars
    <3>1. UNCHANGED <<pc, set, backup, book, req, rc, adds, changes, raced>>
      BY <2>2 DEF vars, callVars, bookVars
    <3> QED
      BY <2>1, <3>1 DEF BookTyped, Counted, OneEntry, At, Rows, InBook
  <2>3. CASE Progress \/ \E number \in Numbers : Ring(number) \/ Call(number)
    BY <2>1, <2>3, CallsKeepBook
  <2>4. CASE Client
    BY <2>1, <2>4, UpdateKeepsBook, RemoveKeepsBook DEF Client
  <2>5. CASE Srv
    BY <2>1, <2>5, InsertKeepsBook, CountKeepsBook DEF Srv
  <2> QED
    BY <2>2, <2>3, <2>4, <2>5 DEF Next
<1> QED
  BY <1>1, InitBook, PTL DEF Spec

\* Every variable of the call pipeline keeps its type, for any calls, requests
\* and failures.
THEOREM TypeCorrect == Spec => []TypeOK
<1>1. BookInv => TypeOK
  BY DEF BookInv, IInv, CallsTyped, BookTyped, TypeOK, Stages
<1> QED
  BY <1>1, BookHolds, PTL

\* What a client is told has been added is in the phone book, unless a call was
\* stored on the connection between a statement and the look at its count.
THEOREM AdditionsAreThere == Spec => []AddedIsThere
<1>1. BookInv => AddedIsThere
  BY DEF BookInv, Counted, AddedIsThere, At, InBook, Range
<1> QED
  BY <1>1, BookHolds, PTL

\* With that exception no number has two entries, however often it is added.
THEOREM EntriesAreUnique == Spec => []OneEntry
<1>1. BookInv => OneEntry
  BY DEF BookInv, Counted, OneEntry
<1> QED
  BY <1>1, BookHolds, PTL

=============================================================================
