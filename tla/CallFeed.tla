------------------------------ MODULE CallFeed ------------------------------
(***************************************************************************)
(* What handle_fritz_message of main.c promises to those who follow the    *)
(* broadcasts and to those who read the database later, without threads,   *)
(* failures, cache or queue: calls are told one after the other; a RING is *)
(* announced, kept under a name, corrected if that name was looked up, and *)
(* completed; a CALL is told once and not kept.  CallPipeline implements   *)
(* it, whatever fails on the way.                                          *)
(***************************************************************************)
EXTENDS Integers, Sequences

CONSTANTS Names, Blank, Area, MaxCalls

VARIABLES
    feed,   \* the events, in the order in which clients get them
    kept,   \* the calls kept, in the table or on the way to it
    stage   \* how far the last call is: "over", "announced", "known", "corrected"

vars == <<feed, kept, stage>>

Init == feed = <<>> /\ kept = <<>> /\ stage = "over"

Now  == feed[Len(feed)].n
NextCall == IF feed = <<>> THEN 1 ELSE Now + 1
Tell(type, n, name) == feed' = Append(feed, [type |-> type, n |-> n, name |-> name])
KeptName == kept[Len(kept)].name

\* A RING, with the area it comes from for a name.
Announce ==
    /\ stage = "over" /\ NextCall <= MaxCalls
    /\ Tell("Message", NextCall, Area) /\ stage' = "announced" /\ UNCHANGED kept

\* The name that was found, or the area.
Keep ==
    /\ stage = "announced" /\ stage' = "known" /\ UNCHANGED feed
    /\ \E name \in Names \cup {Blank, Area} : kept' = Append(kept, [n |-> Now, name |-> name])

\* Only a name that was found is told, and always.
Correct ==
    /\ stage = "known" /\ KeptName # Area
    /\ Tell("Update", Now, KeptName) /\ stage' = "corrected" /\ UNCHANGED kept

Finish ==
    /\ stage = "corrected" \/ (stage = "known" /\ KeptName = Area)
    /\ Tell("Complete", Now, KeptName) /\ stage' = "over" /\ UNCHANGED kept

\* A CALL that somebody in the house makes.
Outgoing ==
    /\ stage = "over" /\ NextCall <= MaxCalls
    /\ Tell("Call", NextCall, Blank) /\ UNCHANGED <<kept, stage>>

Next == Announce \/ Keep \/ Correct \/ Finish \/ Outgoing

Spec == Init /\ [][Next]_vars

-----------------------------------------------------------------------------
(* What follows from it, and so holds for handle_fritz_message as well.    *)

\* A call that clients have been told is complete is kept, once and under the
\* name they were told.
CompleteIsKept ==
    \A i \in 1..Len(feed) : feed[i].type = "Complete" =>
        \E j \in 1..Len(kept) :
            /\ kept[j].n = feed[i].n /\ kept[j].name = feed[i].name
            /\ \A k \in 1..Len(kept) : kept[k].n = feed[i].n => k = j

\* Calls are kept in the order in which they came.
KeptInOrder == \A i, j \in 1..Len(kept) : i < j => kept[i].n < kept[j].n

\* No event of a call comes after one of a later call.
ToldInOrder == \A i, j \in 1..Len(feed) : i <= j => feed[i].n <= feed[j].n

=============================================================================
