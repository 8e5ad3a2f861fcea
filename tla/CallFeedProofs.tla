--------------------------- MODULE CallFeedProofs ---------------------------
(***************************************************************************)
(* Theorems about CallFeed, for any set of names and any number of calls:   *)
(* what is told and what is kept agree, and both are in the order of the   *)
(* calls.                                                                  *)
(***************************************************************************)
EXTENDS CallFeed, TLAPS

AnyName == Names \cup {Blank, Area}
Event   == [type : {"Message", "Update", "Complete", "Call"}, n : Int, name : AnyName]
Call    == [n : Int, name : AnyName]

TypeOK ==
    /\ feed \in Seq(Event) /\ kept \in Seq(Call)
    /\ stage \in {"over", "announced", "known", "corrected"}
    /\ stage # "over" => feed # <<>>

\* The last event is of the latest call, and all that is kept is of it or of
\* earlier ones; of it only once its name is known.
Latest ==
    /\ \A i \in 1..Len(feed) : feed[i].n <= Now
    /\ \A j \in 1..Len(kept) : feed # <<>> /\ kept[j].n <= Now
    /\ stage = "announced" => \A j \in 1..Len(kept) : kept[j].n < Now
    /\ stage \in {"known", "corrected"} => kept # <<>> /\ kept[Len(kept)].n = Now

\* A completed call is kept under its name; that it is kept once is KeptInOrder.
IsKept ==
    \A i \in 1..Len(feed) : feed[i].type = "Complete" =>
        \E j \in 1..Len(kept) : kept[j].n = feed[i].n /\ kept[j].name = feed[i].name

IInv == TypeOK /\ Latest /\ IsKept /\ KeptInOrder /\ ToldInOrder

LEMMA InitInv == Init => IInv
  BY DEF Init, IInv, TypeOK, Latest, IsKept, KeptInOrder, ToldInOrder

LEMMA NowIsInt ==
  ASSUME IInv, feed # <<>>
  PROVE  Now \in Int
<1>1. feed \in Seq(Event) /\ Len(feed) \in 1..Len(feed)
  BY DEF IInv, TypeOK
<1>2. feed[Len(feed)] \in Event
  BY <1>1
<1> QED BY <1>2 DEF Now, Event

\* An event that does not go back in the order of the calls.
LEMMA TellKeepsOrder ==
  ASSUME IInv, NEW type \in {"Message", "Update", "Complete", "Call"}, NEW n \in Int,
         NEW name \in AnyName, Tell(type, n, name), feed # <<>> => Now <= n
  PROVE  /\ feed' \in Seq(Event) /\ feed' # <<>> /\ Now' = n /\ Len(feed') = Len(feed) + 1
         /\ \A i \in 1..Len(feed) : feed'[i] = feed[i]
         /\ feed'[Len(feed')] = [type |-> type, n |-> n, name |-> name]
         /\ \A i \in 1..Len(feed') : feed'[i].n <= n
         /\ ToldInOrder'
<1> DEFINE e == [type |-> type, n |-> n, name |-> name]
<1>1. e \in Event /\ feed \in Seq(Event) /\ feed' = Append(feed, e)
  BY DEF Event, Tell, IInv, TypeOK
<1>2. /\ feed' \in Seq(Event) /\ feed' # <<>> /\ Len(feed') = Len(feed) + 1
      /\ \A i \in 1..Len(feed) : feed'[i] = feed[i]
      /\ feed'[Len(feed')] = e
  BY <1>1
<1>3. Now' = n
  BY <1>2 DEF Now
<1>4. \A i \in 1..Len(feed') : feed'[i].n <= n
  <2> TAKE i \in 1..Len(feed')
  <2>1. CASE i = Len(feed')
    BY <2>1, <1>2
  <2>2. CASE i \in 1..Len(feed)
    <3>1. feed'[i] = feed[i] /\ feed[i] \in Event
      BY <2>2, <1>1, <1>2
    <3>2. feed # <<>> /\ feed[i].n <= Now /\ Now <= n
      BY <2>2, <1>1 DEF IInv, Latest
    <3>3. Now \in Int
      BY <3>2, NowIsInt
    <3> QED BY <3>1, <3>2, <3>3 DEF Event
  <2> QED BY <2>1, <2>2, <1>1, <1>2
<1>5. ToldInOrder'
  <2> SUFFICES ASSUME NEW i \in 1..Len(feed'), NEW j \in 1..Len(feed'), i <= j
               PROVE  feed'[i].n <= feed'[j].n
    BY DEF ToldInOrder
  <2>1. CASE j = Len(feed')
    BY <2>1, <1>2, <1>4
  <2>2. CASE j \in 1..Len(feed)
    BY <2>2, <1>1, <1>2 DEF IInv, ToldInOrder
  <2> QED BY <2>1, <2>2, <1>1, <1>2
<1> QED BY <1>2, <1>3, <1>4, <1>5

LEMMA NamesKept ==
  ASSUME IInv, kept # <<>>
  PROVE  Len(kept) \in 1..Len(kept) /\ kept[Len(kept)] \in Call /\ KeptName \in AnyName
<1>1. kept \in Seq(Call) /\ Len(kept) \in 1..Len(kept)
  BY DEF IInv, TypeOK
<1>2. kept[Len(kept)] \in Call
  BY <1>1
<1> QED BY <1>1, <1>2 DEF KeptName, Call

\* An event of a later call, or one of the latest call that is not its end.
LEMMA StepTold ==
  ASSUME IInv, NEW type \in {"Message", "Update", "Complete", "Call"}, NEW n \in Int,
         NEW name \in AnyName, Tell(type, n, name), feed # <<>> => Now <= n,
         UNCHANGED kept,
         type = "Complete" => \E j \in 1..Len(kept) : kept[j].n = n /\ kept[j].name = name
  PROVE  IsKept' /\ KeptInOrder' /\ ToldInOrder' /\ \A j \in 1..Len(kept') : kept'[j].n <= Now'
<1>1. /\ feed' \in Seq(Event) /\ feed' # <<>> /\ Now' = n /\ Len(feed') = Len(feed) + 1
      /\ \A i \in 1..Len(feed) : feed'[i] = feed[i]
      /\ feed'[Len(feed')] = [type |-> type, n |-> n, name |-> name]
      /\ ToldInOrder'
  BY TellKeepsOrder
<1>2. KeptInOrder'
  BY DEF IInv, KeptInOrder
<1>3. \A j \in 1..Len(kept') : kept'[j].n <= Now'
  <2> TAKE j \in 1..Len(kept')
  <2>1. feed # <<>> /\ kept[j].n <= Now /\ Now <= n /\ kept[j] \in Call
    BY DEF IInv, Latest, TypeOK
  <2>2. Now \in Int
    BY <2>1, NowIsInt
  <2> QED BY <1>1, <2>1, <2>2 DEF Call
<1>4. IsKept'
  <2> SUFFICES ASSUME NEW i \in 1..Len(feed'), feed'[i].type = "Complete"
               PROVE  \E j \in 1..Len(kept) : kept[j].n = feed'[i].n /\ kept[j].name = feed'[i].name
    BY DEF IsKept
  <2>1. CASE i = Len(feed')
    BY <2>1, <1>1
  <2>2. CASE i \in 1..Len(feed)
    BY <2>2, <1>1 DEF IInv, IsKept
  <2> QED BY <2>1, <2>2, <1>1 DEF IInv, TypeOK
<1> QED BY <1>1, <1>2, <1>3, <1>4
-----------------------------------------------------------------------------
(* One step.                                                               *)

LEMMA AnnounceStep == ASSUME IInv, Announce PROVE IInv'
<1>1. NextCall \in Int /\ (feed # <<>> => Now <= NextCall /\ Now < NextCall /\ Now \in Int)
  BY NowIsInt DEF NextCall
<1>2. /\ feed' \in Seq(Event) /\ feed' # <<>> /\ Now' = NextCall
      /\ \A i \in 1..Len(feed') : feed'[i].n <= NextCall
  BY <1>1, TellKeepsOrder DEF Announce, AnyName
<1>3. IsKept' /\ KeptInOrder' /\ ToldInOrder' /\ \A j \in 1..Len(kept') : kept'[j].n <= Now'
  BY <1>1, StepTold DEF Announce, AnyName
<1>4. \A j \in 1..Len(kept') : kept'[j].n < Now'
  <2> TAKE j \in 1..Len(kept')
  <2>1. kept' = kept /\ feed # <<>> /\ kept[j].n <= Now /\ kept[j] \in Call
    BY DEF IInv, Latest, TypeOK, Announce
  <2> QED BY <1>1, <1>2, <2>1 DEF Call
<1>5. TypeOK'
  BY <1>2 DEF IInv, TypeOK, Announce
<1>6. Latest'
  BY <1>2, <1>3, <1>4 DEF Latest, Announce
<1> QED BY <1>3, <1>5, <1>6 DEF IInv

LEMMA OutgoingStep == ASSUME IInv, Outgoing PROVE IInv'
<1>1. NextCall \in Int /\ (feed # <<>> => Now <= NextCall)
  BY NowIsInt DEF NextCall
<1>2. /\ feed' \in Seq(Event) /\ feed' # <<>> /\ Now' = NextCall
      /\ \A i \in 1..Len(feed') : feed'[i].n <= NextCall
  BY <1>1, TellKeepsOrder DEF Outgoing, AnyName
<1>3. IsKept' /\ KeptInOrder' /\ ToldInOrder' /\ \A j \in 1..Len(kept') : kept'[j].n <= Now'
  BY <1>1, StepTold DEF Outgoing, AnyName
<1>4. TypeOK'
  BY <1>2 DEF IInv, TypeOK, Outgoing
<1>5. Latest'
  BY <1>2, <1>3 DEF Latest, Outgoing
<1> QED BY <1>3, <1>4, <1>5 DEF IInv

\* The name that is told afterwards is the last one kept.
LEMMA CorrectStep == ASSUME IInv, Correct PROVE IInv'
<1>1. feed # <<>> /\ Now \in Int /\ Now <= Now /\ kept # <<>> /\ kept[Len(kept)].n = Now
  BY NowIsInt DEF Correct, IInv, TypeOK, Latest
<1>2. KeptName \in AnyName
  BY <1>1, NamesKept
<1>3. /\ feed' \in Seq(Event) /\ feed' # <<>> /\ Now' = Now
      /\ \A i \in 1..Len(feed') : feed'[i].n <= Now
  BY <1>1, <1>2, TellKeepsOrder DEF Correct
<1>4. IsKept' /\ KeptInOrder' /\ ToldInOrder' /\ \A j \in 1..Len(kept') : kept'[j].n <= Now'
  BY <1>1, <1>2, StepTold DEF Correct
<1>5. TypeOK'
  BY <1>3 DEF IInv, TypeOK, Correct
<1>6. Latest'
  BY <1>1, <1>3, <1>4 DEF Latest, Correct
<1> QED BY <1>4, <1>5, <1>6 DEF IInv

LEMMA FinishStep == ASSUME IInv, Finish PROVE IInv'
<1>1. feed # <<>> /\ Now \in Int /\ Now <= Now /\ kept # <<>> /\ kept[Len(kept)].n = Now
  BY NowIsInt DEF Finish, IInv, TypeOK, Latest
<1>2. Len(kept) \in 1..Len(kept) /\ KeptName \in AnyName /\ kept[Len(kept)].name = KeptName
  BY <1>1, NamesKept DEF KeptName
<1>3. /\ feed' \in Seq(Event) /\ feed' # <<>> /\ Now' = Now
      /\ \A i \in 1..Len(feed') : feed'[i].n <= Now
  BY <1>1, <1>2, TellKeepsOrder DEF Finish
<1>4. IsKept' /\ KeptInOrder' /\ ToldInOrder' /\ \A j \in 1..Len(kept') : kept'[j].n <= Now'
  BY <1>1, <1>2, StepTold DEF Finish
<1>5. TypeOK'
  BY <1>3 DEF IInv, TypeOK, Finish
<1>6. Latest'
  BY <1>1, <1>3, <1>4 DEF Latest, Finish
<1> QED BY <1>4, <1>5, <1>6 DEF IInv

\* What is added is of the latest call, and that has not been kept yet.
LEMMA KeepStep == ASSUME IInv, Keep PROVE IInv'
<1>1. feed # <<>> /\ Now \in Int /\ feed' = feed /\ Now' = Now /\ kept \in Seq(Call)
  BY NowIsInt DEF Keep, IInv, TypeOK, Now
<1>2. PICK name \in AnyName : kept' = Append(kept, [n |-> Now, name |-> name])
  BY DEF Keep, AnyName
<1> DEFINE c == [n |-> Now, name |-> name]
<1>0. c \in Call
  BY <1>1 DEF Call
<1> HIDE DEF c
<1>3. /\ kept' \in Seq(Call) /\ Len(kept') = Len(kept) + 1 /\ kept' # <<>>
      /\ \A j \in 1..Len(kept) : kept'[j] = kept[j] /\ kept[j] \in Call
      /\ kept'[Len(kept')] = c /\ Len(kept) \in Nat
  <2>1. kept' = Append(kept, c) /\ kept \in Seq(Call)
    BY <1>1, <1>2 DEF c
  <2> QED BY <2>1, <1>0
<1> USE DEF c
<1>4. \A j \in 1..Len(kept) : kept'[j].n < Now /\ kept'[j].n \in Int
  BY <1>3 DEF IInv, Latest, Keep, Call
<1>5. TypeOK'
  BY <1>1, <1>3 DEF IInv, TypeOK, Keep
<1>6. Latest'
  <2>1. \A j \in 1..Len(kept') : kept'[j].n <= Now'
    BY <1>1, <1>3, <1>4
  <2> QED BY <1>1, <1>3, <2>1 DEF IInv, Latest, Keep
<1>7. KeptInOrder'
  <2> SUFFICES ASSUME NEW j \in 1..Len(kept'), NEW k \in 1..Len(kept'), j < k
               PROVE  kept'[j].n < kept'[k].n
    BY DEF KeptInOrder
  <2>1. CASE k = Len(kept')
    BY <2>1, <1>3, <1>4
  <2>2. CASE k \in 1..Len(kept)
    BY <2>2, <1>3 DEF IInv, KeptInOrder
  <2> QED BY <2>1, <2>2, <1>3
<1>8. IsKept'
  <2> SUFFICES ASSUME NEW i \in 1..Len(feed), feed[i].type = "Complete"
               PROVE  \E j \in 1..Len(kept') : kept'[j].n = feed[i].n /\ kept'[j].name = feed[i].name
    BY <1>1 DEF IsKept
  <2>1. PICK j \in 1..Len(kept) : kept[j].n = feed[i].n /\ kept[j].name = feed[i].name
    BY DEF IInv, IsKept
  <2> QED BY <2>1, <1>3
<1>9. ToldInOrder'
  BY <1>1 DEF IInv, ToldInOrder
<1> QED BY <1>5, <1>6, <1>7, <1>8, <1>9 DEF IInv

LEMMA StepInv == IInv /\ [Next]_vars => IInv'
<1> SUFFICES ASSUME IInv, [Next]_vars PROVE IInv'
  OBVIOUS
<1>1. CASE Announce BY <1>1, AnnounceStep
<1>2. CASE Keep     BY <1>2, KeepStep
<1>3. CASE Correct  BY <1>3, CorrectStep
<1>4. CASE Finish   BY <1>4, FinishStep
<1>5. CASE Outgoing BY <1>5, OutgoingStep
<1>6. CASE UNCHANGED vars
  BY <1>6 DEF vars, IInv, TypeOK, Latest, IsKept, KeptInOrder, ToldInOrder, Now
<1> QED BY <1>1, <1>2, <1>3, <1>4, <1>5, <1>6 DEF Next

\* A call is kept once, since the calls kept are in order.
LEMMA KeptOnce == IInv => CompleteIsKept
<1> SUFFICES ASSUME IInv, NEW i \in 1..Len(feed), feed[i].type = "Complete"
             PROVE  \E j \in 1..Len(kept) :
                        /\ kept[j].n = feed[i].n /\ kept[j].name = feed[i].name
                        /\ \A k \in 1..Len(kept) : kept[k].n = feed[i].n => k = j
  BY DEF CompleteIsKept
<1>1. PICK j \in 1..Len(kept) : kept[j].n = feed[i].n /\ kept[j].name = feed[i].name
  BY DEF IInv, IsKept
<1>2. ASSUME NEW k \in 1..Len(kept), kept[k].n = feed[i].n PROVE k = j
  <2>0. kept \in Seq(Call)
    BY DEF IInv, TypeOK
  <2>1. kept[j] \in Call /\ Len(kept) \in Nat
    BY <2>0
  <2>3. kept[j].n \in Int
    BY <2>1 DEF Call
  <2>2. ~(k < j) /\ ~(j < k)
    BY <1>1, <1>2, <2>1, <2>3 DEF IInv, KeptInOrder
  <2> QED BY <2>1, <2>2
<1> QED BY <1>1, <1>2

-----------------------------------------------------------------------------

\* What a call is completed with is what has been kept of it, once
\* (handle_fritz_message stores before it broadcasts).
THEOREM CompleteKept == Spec => []CompleteIsKept
<1>1. IInv => CompleteIsKept
  BY KeptOnce
<1> QED BY <1>1, InitInv, StepInv, PTL DEF Spec

\* Table and queue together have the calls in the order of the notifications.
THEOREM KeptOrdered == Spec => []KeptInOrder
<1>1. IInv => KeptInOrder
  BY DEF IInv
<1> QED BY <1>1, InitInv, StepInv, PTL DEF Spec

\* Clients are told the calls in the same order, one after the other.
THEOREM ToldOrdered == Spec => []ToldInOrder
<1>1. IInv => ToldInOrder
  BY DEF IInv
<1> QED BY <1>1, InitInv, StepInv, PTL DEF Spec
=============================================================================
