---------------------------- MODULE CallPipeline ----------------------------
(***************************************************************************)
(* What happens to a call: handle_fritz_message of main.c with the lookup, *)
(* the caller cache and the call database behind it, run by the listen     *)
(* thread of the link ("Fritz"), and the phone book requests of clients,   *)
(* run by the listen thread of the server ("Srv").  Both threads use one   *)
(* connection of sqlite; the order in which they do so is not guarded, only *)
(* a broadcast and a request exclude each other, by clist_lock.            *)
(***************************************************************************)
EXTENDS Integers, Sequences, FiniteSets, SequencesExt

CONSTANTS
    Numbers,    \* telephone numbers
    Names,      \* names the web, or a client, knows for them
    Blank,      \* the empty name
    Area,       \* the name a call has before the lookup: where it comes from
    MaxCalls,   \* bound: calls the box notifies of
    MaxAdds     \* bound: phone book requests

ASSUME PipelineAssumption ==
    Blank \notin Names /\ Area \notin Names /\ Area # Blank
    /\ MaxCalls \in Nat /\ MaxAdds \in Nat

VARIABLES
    pc,         \* where each thread is
    set,        \* the CIDataSet of handle_fritz_message: call, number, name
    found,      \* lookup_get_caller_data has found a name
    cache,      \* rows of callercache, for each number
    cidata,     \* the table of calls
    todo,       \* _db_data_todo
    backup,     \* the backup file
    changes,    \* sqlite3_changes of the connection
    book,       \* rows of cicaller, the phone book of a client, by row number
    req,        \* the request Srv works on
    rc,         \* what dbhandler_add_caller returns
    calls,      \* number of calls so far
    adds,       \* number of requests so far
    out,        \* what has been broadcast (history)
    raced       \* a call was stored while an addition waited for its count (history)

callVars == <<set, found, cache, cidata, todo, backup, calls, out>>
bookVars == <<book, req, rc, adds>>
vars == <<pc, callVars, bookVars, changes, raced>>

AnyName == Names \cup {Blank, Area}
Record  == [n : 1..MaxCalls, number : Numbers, name : AnyName]
Event   == [type : {"Message", "Update", "Complete", "Call"}, n : 1..MaxCalls, name : AnyName]
Entry   == [number : Numbers, name : Names]
Unused  == [number |-> Blank, name |-> Blank]
Table   == UNION {[rows -> Entry] : rows \in SUBSET (1..MaxAdds)}

Init ==
    /\ pc = [Fritz |-> "idle", Srv |-> "idle"]
    /\ set = [n |-> 0, number |-> Blank, name |-> Blank]
    /\ found = FALSE /\ cache = [x \in Numbers |-> <<>>]
    /\ cidata = <<>> /\ todo = <<>> /\ backup = <<>> /\ calls = 0 /\ out = <<>>
    /\ changes = 0 /\ book = <<>> /\ req = Unused /\ rc = 0 /\ adds = 0 /\ raced = FALSE

Goto(t, label) == pc' = [pc EXCEPT ![t] = label]
At(t, label)   == pc[t] = label

-----------------------------------------------------------------------------
(* handle_fritz_message.                                                   *)

\* A RING up to its first broadcast; the backup file may not be writable.
Ring(number) ==
    /\ At("Fritz", "idle") /\ calls < MaxCalls /\ calls' = calls + 1
    /\ set' = [n |-> calls + 1, number |-> number, name |-> Area]
    /\ backup' \in {backup, Append(backup, calls + 1)}
    /\ found' = FALSE /\ Goto("Fritz", "Message")
    /\ UNCHANGED <<cache, cidata, todo, out, bookVars, changes, raced>>

\* A CALL has no area and is not looked up.
Call(number) ==
    /\ At("Fritz", "idle") /\ calls < MaxCalls /\ calls' = calls + 1
    /\ set' = [n |-> calls + 1, number |-> number, name |-> Blank]
    /\ found' = FALSE /\ Goto("Fritz", "Call")
    /\ UNCHANGED <<cache, cidata, todo, backup, out, bookVars, changes, raced>>

\* cisrv_broadcast_message waits until Srv has finished the request it is at.
Broadcast(type, next) ==
    /\ At("Fritz", type) /\ At("Srv", "idle")
    /\ out' = Append(out, [type |-> type, n |-> set.n, name |-> set.name])
    /\ Goto("Fritz", next)
    /\ UNCHANGED <<set, found, cache, cidata, todo, backup, calls, bookVars, changes, raced>>

\* cidb_find_caller: the first row, unless the statement fails.
FindInCache ==
    /\ At("Fritz", "cache")
    /\ \/ /\ cache[set.number] # <<>> /\ Goto("Fritz", "store")
          /\ set' = [set EXCEPT !.name = Head(cache[set.number])] /\ found' = TRUE
       \/ Goto("Fritz", "web") /\ UNCHANGED <<set, found>>
    /\ UNCHANGED <<cache, cidata, todo, backup, calls, out, bookVars, changes, raced>>

\* cirlw_get_caller: a page that gives some field of the entry counts as found,
\* the name may be missing.  The name is cached if that works.
AskWeb ==
    /\ At("Fritz", "web") /\ Goto("Fritz", "store")
    /\ \/ UNCHANGED <<set, found, cache>>
       \/ \E name \in Names \cup {Blank} :
             /\ set' = [set EXCEPT !.name = name] /\ found' = TRUE
             /\ cache' \in {cache, [cache EXCEPT ![set.number] = Append(@, name)]}
    /\ UNCHANGED <<cidata, todo, backup, calls, out, bookVars, changes, raced>>

\* dbhandler_add_data: the connection counts one change, or none on a failure.
Insert   == cidata' = Append(cidata, set) /\ changes' = 1 /\ UNCHANGED todo
Postpone == todo' = Append(todo, set) /\ UNCHANGED cidata
InsertFails == Postpone /\ changes' \in {0, changes}

Stored ==
    /\ raced' = (raced \/ (todo = <<>> /\ pc["Srv"] \in {"count", "counted"}))
    /\ Goto("Fritz", "found")
    /\ UNCHANGED <<set, found, cache, backup, calls, out, bookVars>>

\* Fault: the database is tried although earlier calls wait.
StoreAtOnce == At("Fritz", "store") /\ Stored /\ (Insert \/ InsertFails)

\* Fault: a call the database has refused is not kept.
StoreOrDrop ==
    /\ At("Fritz", "store") /\ Stored
    /\ IF todo = <<>> THEN Insert \/ (UNCHANGED <<cidata, todo>> /\ changes' = 0)
       ELSE Postpone /\ UNCHANGED changes

\* Once a call waits in the queue all the following ones join it.
Store ==
    /\ At("Fritz", "store") /\ Stored
    /\ IF todo = <<>> THEN Insert \/ InsertFails ELSE Postpone /\ UNCHANGED changes

\* Fault: the name is told whether or not one was found.
UpdateAlways ==
    /\ At("Fritz", "found") /\ Goto("Fritz", "Update")
    /\ UNCHANGED <<callVars, bookVars, changes, raced>>

\* Update is only for a name that was found.
DecideUpdate ==
    /\ At("Fritz", "found") /\ Goto("Fritz", IF found THEN "Update" ELSE "Complete")
    /\ UNCHANGED <<callVars, bookVars, changes, raced>>

\* Fault: a call with a name is over with its Update.
SendUpdateLast == Broadcast("Update", "idle")

SendMessage == Broadcast("Message", "cache")
SendUpdate == Broadcast("Update", "Complete")
SendComplete == Broadcast("Complete", "idle")
SendCall     == Broadcast("Call", "idle")

Progress == SendMessage \/ FindInCache \/ AskWeb \/ Store \/ DecideUpdate \/ SendUpdate
            \/ SendComplete \/ SendCall

-----------------------------------------------------------------------------
(* dbhandler_add_caller and dbhandler_remove_caller, for a client.         *)

Rows(number) == {i \in DOMAIN book : book[i].number = number}

\* The update of the rows there are, unless the number is no number or sqlite fails.
UpdateCaller(entry) ==
    /\ At("Srv", "idle") /\ adds < MaxAdds /\ adds' = adds + 1 /\ req' = entry
    /\ \/ /\ book' = [i \in DOMAIN book |-> IF i \in Rows(entry.number) THEN entry ELSE book[i]]
          /\ changes' = Cardinality(Rows(entry.number)) /\ Goto("Srv", "count") /\ UNCHANGED rc
       \/ rc' = 1 /\ changes' \in {0, changes} /\ Goto("Srv", "reply") /\ UNCHANGED book
    /\ UNCHANGED <<callVars, raced>>

\* Fault: the number of changed rows is not looked at.
CountNothing ==
    /\ At("Srv", "count") /\ Goto("Srv", "reply") /\ rc' = 0
    /\ UNCHANGED <<callVars, book, req, adds, changes, raced>>

\* Fault: the entry is always inserted.
CountAsNone ==
    /\ At("Srv", "count") /\ Goto("Srv", "insert")
    /\ UNCHANGED <<callVars, bookVars, changes, raced>>

\* sqlite3_changes says what the last change of the connection was.
CountUpdated ==
    /\ At("Srv", "count")
    /\ IF changes = 0 THEN Goto("Srv", "insert") /\ UNCHANGED rc
       ELSE Goto("Srv", "reply") /\ rc' = 0
    /\ UNCHANGED <<callVars, book, req, adds, changes, raced>>

\* A row of its own: its number is that of the request.
InsertCaller ==
    /\ At("Srv", "insert")
    /\ \/ /\ book' = [i \in DOMAIN book \cup {adds} |-> IF i = adds THEN req ELSE book[i]]
          /\ changes' = 1 /\ Goto("Srv", "counted") /\ UNCHANGED rc
       \/ rc' = 1 /\ changes' = 0 /\ Goto("Srv", "reply") /\ UNCHANGED book
    /\ UNCHANGED <<callVars, req, adds, raced>>

CountInserted ==
    /\ At("Srv", "counted") /\ Goto("Srv", "reply") /\ rc' = IF changes > 0 THEN 0 ELSE 1
    /\ UNCHANGED <<callVars, book, req, adds, changes, raced>>

Equal(entry) == {i \in DOMAIN book : book[i] = entry}

\* Fault: the change counted with its sign, as a difference of table sizes.
RemoveMiscounts(entry) ==
    /\ At("Srv", "idle") /\ adds < MaxAdds /\ adds' = adds + 1
    /\ book' = Restrict(book, DOMAIN book \ Equal(entry))
    /\ changes' = 0 - Cardinality(Equal(entry)) /\ UNCHANGED <<pc, callVars, req, rc, raced>>

\* The rows with this number and this very name; the reply is the request.
RemoveCaller(entry) ==
    /\ At("Srv", "idle") /\ adds < MaxAdds /\ adds' = adds + 1
    /\ \/ /\ book' = Restrict(book, DOMAIN book \ Equal(entry))
          /\ changes' = Cardinality(Equal(entry))
       \/ changes' \in {0, changes} /\ UNCHANGED book
    /\ UNCHANGED <<pc, callVars, req, rc, raced>>

\* The reply repeats the request, whatever was returned.
Reply ==
    /\ At("Srv", "reply") /\ Goto("Srv", "idle") /\ req' = Unused /\ rc' = 0
    /\ UNCHANGED <<callVars, book, adds, changes, raced>>

Srv == CountUpdated \/ InsertCaller \/ CountInserted \/ Reply
Client == \E entry \in Entry : UpdateCaller(entry) \/ RemoveCaller(entry)

Next == Progress \/ Srv \/ Client \/ \E number \in Numbers : Ring(number) \/ Call(number)

Spec == Init /\ [][Next]_vars

\* Both threads go on; a request of a client and a page of the web end.
FairSpec == Spec /\ WF_vars(Progress) /\ WF_vars(Srv)

-----------------------------------------------------------------------------
(* Properties.                                                             *)

\* Type correctness of the call pipeline and the phone book.
TypeOK ==
    /\ pc["Fritz"] \in {"idle", "Message", "cache", "web", "store", "found", "Update",
                        "Complete", "Call"}
    /\ pc["Srv"] \in {"idle", "count", "insert", "counted", "reply"}
    /\ set.n \in 0..MaxCalls /\ set.number \in Numbers \cup {Blank} /\ set.name \in AnyName
    /\ found \in BOOLEAN /\ cache \in [Numbers -> Seq(Names \cup {Blank})]
    /\ cidata \in Seq(Record) /\ todo \in Seq(Record) /\ backup \in Seq(1..MaxCalls)
    /\ out \in Seq(Event) /\ calls \in 0..MaxCalls /\ adds \in 0..MaxAdds
    /\ changes \in Nat /\ book \in Table /\ req \in Entry \cup {Unused} /\ rc \in {0, 1}
    /\ raced \in BOOLEAN

Kept == cidata \o todo

\* An addition that dbhandler_add_caller reports as done is in the phone book,
\* unless a call was stored just then on the same connection.
AddedIsThere ==
    At("Srv", "reply") /\ rc = 0 /\ ~raced => req \in Range(book)

\* With the same exception a number has one entry, however often it is added.
OneEntry ==
    ~raced => \A i, j \in DOMAIN book : book[i].number = book[j].number => i = j

Told(type, n) == \E i \in 1..Len(out) : out[i].type = type /\ out[i].n = n

-----------------------------------------------------------------------------
(* The promise of CallFeed.  The number of the caller, and whether a call   *)
(* is in the table or in the queue, do not show; the steps between two      *)
(* broadcasts, the failures and the phone book stutter.                     *)

FeedStage ==
    CASE pc["Fritz"] \in {"cache", "web", "store"} -> "announced"
      [] pc["Fritz"] \in {"found", "Update"} -> "known"
      [] pc["Fritz"] = "Complete" -> IF found THEN "corrected" ELSE "known"
      [] OTHER -> "over"

FeedKept == [i \in 1..Len(Kept) |-> [n |-> Kept[i].n, name |-> Kept[i].name]]

Feed == INSTANCE CallFeed WITH feed <- out, kept <- FeedKept, stage <- FeedStage

\* Whatever fails, clients see a call announced, corrected with the name it is
\* kept under exactly if one was found, and completed, one call after the other.
ImplementsFeed == Feed!Spec

\* Every call that has been announced is completed, with or without a name.
CallCompletes == \A n \in 1..MaxCalls : Told("Message", n) ~> Told("Complete", n)

=============================================================================
