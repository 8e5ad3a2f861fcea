----------------------------- MODULE LifeCycle -----------------------------
(***************************************************************************)
(* The life of the daemon: main and _shutdown of main.c bring its parts up *)
(* and down, with the two listen threads ("Fritz", "Srv") running from     *)
(* before the area codes are read until after their file name is released. *)
(* Of what the threads do, the uses of the parts are modelled, the search  *)
(* of an area code step by step.                                           *)
(***************************************************************************)
EXTENDS AreaCodes

CONSTANTS
    Files,      \* files of area codes
    Numbers,    \* numbers that call, or are in the database
    MaxUses     \* bound: calls and requests of each thread

ASSUME LifeCycleAssumption ==
    /\ \A file \in Files : file \in Seq(Seq(Digit)) /\ IsCodeFile(file)
    /\ \A number \in Numbers : number \in Seq(Digit)
    /\ MaxUses \in Nat

VARIABLES
    main,       \* where the main thread is
    pc,         \* where each listen thread is
    up,         \* the parts that are in use
    released,   \* the parts that have been released
    listening,  \* CIFritzServerStateListening
    told,       \* the threads with "disconnect" in their pipe
    name,       \* _ciac_filename
    file, line, \* the file of area codes, how many lines of it are indexed
    index,      \* _ciac_indizes
    number,     \* what each thread searches for
    result,     \* and what it has found
    known,      \* the index had the group when the search began (history)
    unjoined,   \* the thread of the link runs and is not waited for (history)
    uses        \* calls and requests so far

mainVars == <<main, up, released, name, file, line, index, unjoined>>
threadVars == <<number, result, known, uses>>
vars == <<mainVars, pc, listening, told, threadVars>>

Threads == {"Fritz", "Srv"}
Parts   == {"config", "queue", "link", "lock", "db", "cache", "web", "aliases"}

Init ==
    /\ main = "fritz_init" /\ pc = [t \in Threads |-> "none"]
    /\ up = {"config", "queue"} /\ released = {} /\ listening = FALSE /\ told = {}
    /\ name = "NULL" /\ file \in Files /\ line = 0 /\ index = NoIndex
    /\ number = [t \in Threads |-> <<>>] /\ result = [t \in Threads |-> Unknown]
    /\ known = [t \in Threads |-> FALSE] /\ unjoined = FALSE /\ uses = [t \in Threads |-> 0]

-----------------------------------------------------------------------------
(* main up to the loop.                                                    *)

Starting == UNCHANGED <<released, listening, told, name, file, line, index, unjoined, threadVars>>

\* One initialisation: it succeeds, or main goes on at another place.
StartParts(here, parts, there, onFailure) ==
    /\ main = here /\ Starting /\ UNCHANGED pc
    /\ \/ main' = there /\ up' = up \cup parts
       \/ main' = onFailure /\ UNCHANGED up

FritzInit     == StartParts("fritz_init", {"link"}, "cisrv_init", "ci_free_area_codes")
CisrvInit     == StartParts("cisrv_init", {"lock"}, "dbhandler_init", "ci_free_area_codes")
\* Without a database, and without aliases, the daemon goes on.
DbhandlerInit == StartParts("dbhandler_init", {"db"}, "lookup_init", "lookup_init")
LookupInit    == StartParts("lookup_init", {"cache", "web"}, "msnl_read_file", "ci_free_area_codes")
MsnlReadFile  == StartParts("msnl_read_file", {"aliases"}, "cisrv_run", "cisrv_run")

CisrvRun ==
    /\ main = "cisrv_run" /\ Starting /\ UNCHANGED up
    /\ \/ main' = "fritz_startup" /\ pc' = [pc EXCEPT !["Srv"] = "born"]
       \/ main' = "ci_free_area_codes" /\ UNCHANGED pc

FritzStartup ==
    /\ main = "fritz_startup" /\ main' = "ci_init_area_codes" /\ Starting
    /\ pc' = [pc EXCEPT !["Fritz"] = "born"] /\ UNCHANGED up

Reading == UNCHANGED <<pc, up, released, listening, told, file, unjoined, threadVars>>

CiInitAreaCodes ==
    /\ main = "ci_init_area_codes" /\ main' = "area_name" /\ Reading
    /\ index' = NoIndex /\ name' = "NULL" /\ UNCHANGED line

\* The name is there before the file has been opened.
NameAreaCodes ==
    /\ main = "area_name" /\ main' = "area_open" /\ Reading
    /\ name' = "set" /\ UNCHANGED <<index, line>>

OpenAreaCodes ==
    /\ main = "area_open" /\ main' \in {"area_read", "ci_free_area_codes"} /\ Reading
    /\ UNCHANGED <<name, index, line>>

ReadLine ==
    /\ main = "area_read" /\ line < Len(file) /\ line' = line + 1 /\ Reading
    /\ index' = IndexLine(index, file, line) /\ UNCHANGED <<main, name>>

ReadEnd ==
    /\ main = "area_read" /\ line = Len(file) /\ main' = "sigaction" /\ Reading
    /\ UNCHANGED <<name, index, line>>

Sigaction ==
    /\ main = "sigaction" /\ main' = "loop" /\ Reading /\ UNCHANGED <<name, index, line>>

\* A signal ends the loop; one that comes before the loop runs has no effect.
Signal ==
    /\ main = "loop" /\ main' = "ci_free_area_codes" /\ Reading
    /\ UNCHANGED <<name, index, line>>

Startup ==
    \/ FritzInit \/ CisrvInit \/ DbhandlerInit \/ LookupInit \/ MsnlReadFile \/ CisrvRun
    \/ FritzStartup \/ CiInitAreaCodes \/ NameAreaCodes \/ OpenAreaCodes \/ ReadLine
    \/ ReadEnd \/ Sigaction \/ Signal

-----------------------------------------------------------------------------
(* _shutdown.                                                              *)

Stopping == UNCHANGED <<file, line, index, threadVars>>

\* The name is released but kept.
CiFreeAreaCodes ==
    /\ main = "ci_free_area_codes" /\ main' = "fritz_shutdown" /\ Stopping
    /\ name' = IF name = "set" THEN "freed" ELSE name
    /\ UNCHANGED <<pc, up, released, listening, told, unjoined>>

\* Fault: the thread is told to end and not waited for.
FritzShutdownAsync(here, join, there) ==
    /\ main = here /\ main' = there /\ Stopping
    /\ told' = IF listening THEN told \cup {"Fritz"} ELSE told
    /\ unjoined' = (pc["Fritz"] = "born" /\ ~listening)
    /\ UNCHANGED <<pc, up, released, listening, name>>

\* fritz_shutdown waits for the thread if it has begun to listen; it is called
\* by _shutdown and again by fritz_cleanup.
FritzShutdown(here, join, there) ==
    /\ main = here /\ Stopping
    /\ IF listening THEN main' = join /\ told' = told \cup {"Fritz"} /\ UNCHANGED unjoined
       ELSE main' = there /\ unjoined' = (pc["Fritz"] = "born") /\ UNCHANGED told
    /\ UNCHANGED <<pc, up, released, listening, name>>

FritzJoin(here, there) ==
    /\ main = here /\ pc["Fritz"] = "ended" /\ main' = there /\ Stopping
    /\ listening' = FALSE /\ unjoined' = FALSE /\ UNCHANGED <<pc, up, released, told, name>>

CisrvDisconnect ==
    /\ main = "cisrv_disconnect" /\ Stopping
    /\ IF pc["Srv"] = "none" THEN main' = "msnl_cleanup" /\ UNCHANGED told
       ELSE main' = "cisrv_join" /\ told' = told \cup {"Srv"}
    /\ UNCHANGED <<pc, up, released, listening, name, unjoined>>

CisrvJoin ==
    /\ main = "cisrv_join" /\ pc["Srv"] = "ended" /\ main' = "msnl_cleanup" /\ Stopping
    /\ UNCHANGED <<pc, up, released, listening, told, name, unjoined>>

Release(here, part, there) ==
    /\ main = here /\ main' = there /\ Stopping
    /\ up' = up \ {part} /\ released' = released \cup (up \cap {part})
    /\ UNCHANGED <<pc, listening, told, name, unjoined>>

MsnlCleanup      == Release("msnl_cleanup", "aliases", "fritz_cleanup")
FritzClose       == Release("fritz_close", "link", "dbhandler_cleanup")
DbhandlerCleanup == Release("dbhandler_cleanup", "db", "cisrv_cleanup")
CisrvCleanup     == Release("cisrv_cleanup", "lock", "cidb_cleanup")
CidbCleanup      == Release("cidb_cleanup", "cache", "cirlw_cleanup")
CirlwCleanup     == Release("cirlw_cleanup", "web", "g_queue_free")
QueueFree        == Release("g_queue_free", "queue", "config_free")
ConfigFree       == Release("config_free", "config", "done")

Shutdown ==
    \/ CiFreeAreaCodes
    \/ FritzShutdown("fritz_shutdown", "fritz_join", "cisrv_disconnect")
    \/ FritzJoin("fritz_join", "cisrv_disconnect")
    \/ CisrvDisconnect \/ CisrvJoin \/ MsnlCleanup
    \/ FritzShutdown("fritz_cleanup", "fritz_cleanup_join", "fritz_close")
    \/ FritzJoin("fritz_cleanup_join", "fritz_close")
    \/ FritzClose \/ DbhandlerCleanup \/ CisrvCleanup \/ CidbCleanup \/ CirlwCleanup
    \/ QueueFree \/ ConfigFree

-----------------------------------------------------------------------------
(* The listen threads, until the process ends.                             *)

\* The name, the place in the index and the file are looked at one by one.
Searching == {"name", "group", "open", "scan"}

Step(t, here, there) ==
    /\ main # "done" /\ pc[t] = here /\ pc' = [pc EXCEPT ![t] = there]
    /\ UNCHANGED <<mainVars, told>>

Begin(t) ==
    /\ Step(t, "born", "idle") /\ listening' = (listening \/ t = "Fritz")
    /\ UNCHANGED threadVars

\* select() or bind() fails.
Fail(t) ==
    /\ Step(t, "idle", "ended") /\ UNCHANGED <<listening, threadVars>>

End(t) ==
    /\ t \in told /\ Step(t, "idle", "ended")
    /\ listening' = (listening /\ t # "Fritz") /\ UNCHANGED threadVars

Work(t, here, there) == Step(t, here, there) /\ UNCHANGED <<listening, threadVars>>

\* The variables of the search are gone.
Leave(t, here, there) ==
    /\ Step(t, here, there) /\ known' = [known EXCEPT ![t] = FALSE]
    /\ number' = [number EXCEPT ![t] = <<>>] /\ result' = [result EXCEPT ![t] = Unknown]
    /\ UNCHANGED <<listening, uses>>

Use(t) == uses[t] < MaxUses /\ uses' = [uses EXCEPT ![t] = @ + 1]

Search(t, here, n) ==
    /\ Step(t, here, "name") /\ UNCHANGED listening /\ Use(t)
    /\ number' = [number EXCEPT ![t] = n] /\ result' = [result EXCEPT ![t] = Unknown]
    /\ known' = [known EXCEPT ![t] = FALSE]

\* Where a thread goes on after ci_get_area_code.
Found(t) == IF t = "Fritz" THEN "alias" ELSE "query"
Group(t) == GroupOfNumber(number[t])
Indexed(t) == index[Group(t)] # 0 \/ line = Len(file)

CheckName(t) ==
    /\ Step(t, "name", IF name = "NULL" \/ number[t] = <<>> THEN Found(t) ELSE "group")
    /\ known' = [known EXCEPT ![t] = name # "NULL" /\ Indexed(t)]
    /\ UNCHANGED <<listening, number, result, uses>>

CheckGroup(t) ==
    Work(t, "group", IF Group(t) > 0 /\ index[Group(t)] = 0 THEN Found(t) ELSE "open")

\* A released name may still be readable; the file may not be, in any case.
OpenFile(t) ==
    \/ Work(t, "open", "scan")
    \/ /\ Step(t, "open", Found(t)) /\ result' = [result EXCEPT ![t] = Unopened]
       /\ UNCHANGED <<listening, number, known, uses>>

ScanFile(t) ==
    /\ Step(t, "scan", Found(t))
    /\ result' = [result EXCEPT ![t] = Scan(file, index[Group(t)], number[t])]
    /\ UNCHANGED <<listening, number, known, uses>>

Thread(t) ==
    Begin(t) \/ Fail(t) \/ End(t) \/ CheckName(t) \/ CheckGroup(t) \/ OpenFile(t) \/ ScanFile(t)

\* A RING, with its broadcasts before and after the lookup, and a CALL.
Fritz ==
    \/ \E n \in Numbers : Search("Fritz", "idle", n)
    \/ Leave("Fritz", "alias", "announce") \/ Work("Fritz", "announce", "lookup")
    \/ Work("Fritz", "lookup", "store")   \/ Work("Fritz", "store", "complete")
    \/ Work("Fritz", "complete", "idle")
    \/ /\ Step("Fritz", "idle", "call_alias") /\ Use("Fritz")
       /\ UNCHANGED <<listening, number, result, known>>
    \/ Work("Fritz", "call_alias", "complete")

\* A request; the one for the calls searches the area code of each.
Srv ==
    \/ Step("Srv", "idle", "query") /\ Use("Srv") /\ UNCHANGED <<listening, number, result, known>>
    \/ \E n \in Numbers \ {<<>>} : Search("Srv", "query", n)
    \/ Leave("Srv", "query", "idle")

Next == Startup \/ Shutdown \/ Fritz \/ Srv \/ \E t \in Threads : Thread(t)

Spec == Init /\ [][Next]_vars

-----------------------------------------------------------------------------
(* Properties.                                                             *)

\* Type correctness of the life cycle; a place in the index is a line.
TypeOK ==
    /\ pc \in [Threads -> Searching \cup {"none", "born", "idle", "ended", "alias", "announce",
                        "lookup", "store", "complete", "call_alias", "query"}]
    /\ up \subseteq Parts /\ released \subseteq Parts /\ told \subseteq Threads
    /\ listening \in BOOLEAN /\ unjoined \in BOOLEAN /\ known \in [Threads -> BOOLEAN]
    /\ name \in {"NULL", "set", "freed"} /\ file \in Files /\ line \in 0..Len(file)
    /\ index \in [Groups -> 0..(Len(file) - 1)] /\ number \in [Threads -> Seq(Digit)]
    /\ result \in [Threads -> Unopened..Len(file)] /\ uses \in [Threads -> 0..MaxUses]

\* An area code that is found is one of the number, with the index complete or
\* not, and during a shutdown too.
FoundIsListed == \A t \in Threads : result[t] > 0 => result[t] \in Listed(file, number[t])

\* A number whose area code is listed is found from the moment on at which the
\* index knows its group, although the rest is still being read, if only the
\* file can be opened.
FoundOnceIndexed ==
    \A t \in Threads :
        known[t] /\ pc[t] \notin Searching /\ Listed(file, number[t]) # {}
        => result[t] \in Listed(file, number[t]) \cup {Unopened}

\* What a thread works with where it is.
UsedBy(t) ==
    CASE pc[t] = "idle" -> IF t = "Fritz" THEN {"link"} ELSE {"lock"}
      [] pc[t] \in {"alias", "call_alias"} -> {"aliases", "config"}
      [] pc[t] \in {"announce", "complete"} -> {"lock"}
      [] pc[t] = "lookup" -> {"cache", "web", "config"}
      [] pc[t] = "store"  -> {"queue", "db"}
      [] pc[t] = "query"  -> {"lock", "db"}
      [] OTHER -> {}

\* Nothing is released while a thread works with it, but for the thread of the
\* link if it did not listen yet when the shutdown looked, and for the name of
\* the file of area codes while the shutdown waits for the threads.
InUseIsUp ==
    \A t \in Threads : ~(t = "Fritz" /\ unjoined) =>
        /\ UsedBy(t) \cap released = {}
        /\ pc[t] = "open" /\ name = "freed" =>
              main \in {"fritz_shutdown", "fritz_join", "cisrv_disconnect", "cisrv_join"}

=============================================================================
