--------------------------- MODULE ReverseLookup ---------------------------
(***************************************************************************)
(* The reverse lookup in the web: what cirlw_get_caller of lookup.c does   *)
(* for a number that the cache does not know, run by the listen thread of  *)
(* the link, one lookup after the other.  The sources come from an XML     *)
(* file.  A lookup measures its url, writes it, collects the page in       *)
(* _cirlw_memory, which all lookups share, and takes the fields of the     *)
(* entry from the lines of the page.                                       *)
(***************************************************************************)
EXTENDS Integers, Sequences, FiniteSets, SequencesExt

CONSTANTS
    Documents,  \* what the source file may hold
    Numbers,    \* the numbers that call, as sequences of digits
    Pages,      \* what a server may answer, as sequences of lines
    SourceId,   \* lookup_source_id of the configuration
    MaxLookups  \* bound: lookups

Digits == {"0", "1", "2"}
Chars  == {"a", "u", "U", "%", "_", "N", "X"} \cup Digits

ASSUME LookupAssumption ==
    /\ MaxLookups \in Nat /\ Numbers \subseteq Seq(Digits)
    /\ \A p \in Pages : p \in Seq({p[k] : k \in DOMAIN p})

VARIABLES
    pc,         \* where the thread is
    doc,        \* the source file
    sources,    \* _cirl_sources
    caller,     \* the CICaller: the number, and the fields that are filled in
    source,     \* what _cirlw_find_source has found, or NoSource
    i, diff,    \* of the two loops of _cirlw_prepare_url
    room,       \* the length of the memory allocated for the url
    out,        \* what has been written to it
    memory,     \* _cirlw_memory: the lines received
    page,       \* the lines of the page that have not been received
    line, j,    \* of the loops of _cirlw_match_patterns
    found,      \* the fields found
    charset,    \* a charset has been found
    err,        \* the result of cirlw_get_caller
    served,     \* the page of the present lookup (history)
    lookups     \* number of lookups so far

urlVars   == <<i, diff, room, out>>
pageVars  == <<memory, page, served>>
matchVars == <<line, j, found, charset>>
vars == <<pc, doc, sources, caller, source, urlVars, pageVars, matchVars, err, lookups>>

(* A text is a sequence of characters, spelled piece by piece.  "%" opens    *)
(* and closes a placeholder unless a digit follows; "N" stands for the word  *)
(* NUMBER and "X" for any other one, "u" for an umlaut in the charset of the *)
(* page and "U" for the same in UTF-8, "_" for a blank.                      *)
Spelling == [text |-> <<"a">>, umlaut |-> <<"u">>, percent |-> <<"%">>,
             space |-> <<"%", "2", "0">>, number |-> <<"%", "N", "%">>,
             unknown |-> <<"%", "X", "%">>]
Spelled(pieces) == FlattenSeq([k \in 1..Len(pieces) |-> Spelling[pieces[k]]])
Fields == {"Name", "PostalCode", "City", "Street"}
Nobody == [number |-> <<>>, field |-> [f \in Fields |-> <<>>]]
NoSource == [id |-> 0, query |-> <<>>, split_lines |-> FALSE, patterns |-> <<>>]

Init ==
    /\ pc = "load" /\ doc \in Documents /\ sources = <<>>
    /\ caller = Nobody /\ source = NoSource
    /\ i = 1 /\ diff = 0 /\ room = 0 /\ out = <<>>
    /\ memory = <<>> /\ page = <<>> /\ served = <<>>
    /\ line = 1 /\ j = 1 /\ found = {} /\ charset = FALSE
    /\ err = 0 /\ lookups = 0

-----------------------------------------------------------------------------
(* cirlw_load_sources_from_file.                                           *)

\* Of several queries the last one counts; it is split unless it says nosplit.
SourceOf(element) ==
    [id |-> element.id, query |-> Spelled(Last(element.queries).template),
     split_lines |-> Last(element.queries).linehandling # "nosplit",
     patterns |-> element.patterns]

Elements(d) == SelectSeq(d.elements, LAMBDA e : e.tag = "source")
SourcesOf(d) == [k \in 1..Len(Elements(d)) |-> SourceOf(Elements(d)[k])]

\* A placeholder begins at k; the next "%" closes it.
Opens(text, k) == text[k] = "%" /\ (k = Len(text) \/ text[k + 1] \notin Digits)
Closes(text, k, c) == text[c] = "%" /\ \A b \in k + 1 .. c - 1 : text[b] # "%"
CloseOf(text, k) == CHOOSE c \in k + 1 .. Len(text) : Closes(text, k, c)

\* A way through the text from placeholder to placeholder, each of them closed.
IsWalk(walk, text) ==
    /\ walk \subseteq 1..Len(text) + 1 /\ 1 \in walk
    /\ \A k \in walk \ {Len(text) + 1} :
          IF Opens(text, k) THEN \E c \in k + 1 .. Len(text) : Closes(text, k, c) /\ c + 1 \in walk
          ELSE k + 1 \in walk
AllClosed(text) == \E walk \in SUBSET (1..Len(text) + 1) : IsWalk(walk, text)

\* The loops over a template do not look for its end behind an opening "%".
ASSUME TemplateAssumption ==
    \A d \in Documents : \A k \in DOMAIN SourcesOf(d) :
        /\ Last(Elements(d)[k].queries).template \in Seq(DOMAIN Spelling)
        /\ AllClosed(SourcesOf(d)[k].query)

\* Fault: the list stays in the order it has been built in, the last one first.
LoadReversed ==
    /\ pc = "load" /\ pc' = IF doc.valid THEN "idle" ELSE "failed"
    /\ sources' = IF doc.valid THEN Reverse(SourcesOf(doc)) ELSE sources
    /\ UNCHANGED <<doc, caller, source, urlVars, pageVars, matchVars, err, lookups>>

\* A file that cannot be parsed, or is none of sources, ends the program.
Load ==
    /\ pc = "load" /\ pc' = IF doc.valid THEN "idle" ELSE "failed"
    /\ sources' = IF doc.valid THEN SourcesOf(doc) ELSE sources
    /\ UNCHANGED <<doc, caller, source, urlVars, pageVars, matchVars, err, lookups>>

-----------------------------------------------------------------------------
(* cirlw_get_caller and _cirlw_find_source.                                *)

Return(e) == pc' = "idle" /\ err' = e

GetCaller(number) ==
    /\ pc = "idle" /\ lookups < MaxLookups /\ lookups' = lookups + 1
    /\ caller' = [Nobody EXCEPT !.number = number]
    /\ \/ /\ \A k \in DOMAIN sources : sources[k].id # SourceId
          /\ Return(1) /\ source' = NoSource
       \/ \E k \in DOMAIN sources :
             /\ sources[k].id = SourceId
             /\ \A k2 \in DOMAIN sources : k2 < k => sources[k2].id # SourceId
             /\ pc' = "measure" /\ source' = sources[k] /\ UNCHANGED err
    /\ i' = 1 /\ diff' = 0 /\ room' = 0 /\ out' = <<>> /\ found' = {}
    /\ line' = 1 /\ j' = 1 /\ charset' = FALSE /\ served' = <<>> /\ page' = <<>>
    /\ UNCHANGED <<doc, sources, memory>>

-----------------------------------------------------------------------------
(* _cirlw_prepare_url.                                                     *)

url == source.query
Closing(k) == CloseOf(url, k)
Pattern(k) == SubSeq(url, k + 1, Closing(k) - 1)

\* _getsubstitutediff: by how much the substitute is longer, 0 if there is none.
SubstituteDiff(k) ==
    IF Pattern(k) = <<"N">> THEN Len(caller.number) - Len(Pattern(k)) - 2 ELSE 0

\* Fault: only the last placeholder counts.
MeasureLast ==
    /\ pc = "measure" /\ i <= Len(url)
    /\ IF Opens(url, i) THEN i' = Closing(i) + 1 /\ diff' = SubstituteDiff(i)
       ELSE i' = i + 1 /\ UNCHANGED diff
    /\ UNCHANGED <<pc, doc, sources, caller, source, room, out, pageVars, matchVars, err, lookups>>

\* The first loop adds the differences up.
Measure ==
    /\ pc = "measure" /\ i <= Len(url)
    /\ IF Opens(url, i) THEN i' = Closing(i) + 1 /\ diff' = diff + SubstituteDiff(i)
       ELSE i' = i + 1 /\ UNCHANGED diff
    /\ UNCHANGED <<pc, doc, sources, caller, source, room, out, pageVars, matchVars, err, lookups>>

Allocate ==
    /\ pc = "measure" /\ i > Len(url)
    /\ \/ pc' = "fill" /\ room' = Len(url) + 1 + diff /\ i' = 1 /\ UNCHANGED err
       \/ Return(1) /\ UNCHANGED <<room, i>>
    /\ UNCHANGED <<doc, sources, caller, source, diff, out, pageVars, matchVars, lookups>>

\* Fault: the closing "%" is copied as well.
FillShort ==
    /\ pc = "fill" /\ i <= Len(url)
    /\ IF ~Opens(url, i) THEN out' = Append(out, url[i]) /\ i' = i + 1
       ELSE /\ Pattern(i) = <<"N">>
            /\ out' = Append(out \o caller.number, "%") /\ i' = Closing(i) + 1
    /\ UNCHANGED <<pc, doc, sources, caller, source, diff, room, pageVars, matchVars, err, lookups>>

\* The second loop writes; at a placeholder it does not know it turns for ever.
Fill ==
    /\ pc = "fill" /\ i <= Len(url)
    /\ IF ~Opens(url, i) THEN out' = Append(out, url[i]) /\ i' = i + 1
       ELSE /\ Pattern(i) = <<"N">>
            /\ out' = out \o caller.number /\ i' = Closing(i) + 1
    /\ UNCHANGED <<pc, doc, sources, caller, source, diff, room, pageVars, matchVars, err, lookups>>

-----------------------------------------------------------------------------
(* curl_easy_perform with _cirlw_read_data.  The handle of curl is there:   *)
(* the program does not start without it.                                    *)

\* Fault: what an earlier lookup has received is kept.
PerformOver ==
    /\ pc = "fill" /\ i > Len(url) /\ pc' = "perform" /\ UNCHANGED memory
    /\ served' \in Pages /\ page' = served'
    /\ UNCHANGED <<doc, sources, caller, source, urlVars, matchVars, err, lookups>>

Perform ==
    /\ pc = "fill" /\ i > Len(url) /\ pc' = "perform" /\ memory' = <<>>
    /\ served' \in Pages /\ page' = served'
    /\ UNCHANGED <<doc, sources, caller, source, urlVars, matchVars, err, lookups>>

\* The next part of the page arrives.
ReadData ==
    /\ pc = "perform" /\ page # <<>>
    /\ \E n \in 1..Len(page) :
          /\ memory' = memory \o SubSeq(page, 1, n)
          /\ page' = SubSeq(page, n + 1, Len(page))
    /\ UNCHANGED <<pc, doc, sources, caller, source, urlVars, served, matchVars, err, lookups>>

\* The server, the line or g_try_realloc fails; the memory is released.
PerformFails ==
    /\ pc = "perform" /\ Return(1)
    /\ UNCHANGED <<doc, sources, caller, source, urlVars, pageVars, matchVars, lookups>>

\* The page is complete.  Without patterns, lines or memory nothing is matched.
PerformEnds ==
    /\ pc = "perform" /\ page = <<>>
    /\ \/ /\ source.patterns # <<>> /\ source.split_lines /\ memory # <<>>
          /\ pc' = "match" /\ UNCHANGED err
       \/ Return(4)
    /\ UNCHANGED <<doc, sources, caller, source, urlVars, pageVars, matchVars, lookups>>

-----------------------------------------------------------------------------
(* _cirlw_match_patterns: every line with every pattern, and with the one    *)
(* for the charset after them.                                               *)

\* The fields of a pattern, each from its group of the expression.
FieldsOf(pattern) == {pattern[k].field : k \in 1..Len(pattern)}
GroupOf(pattern, f) ==
    LET last == CHOOSE k \in 1..Len(pattern) :
                  /\ pattern[k].field = f
                  /\ \A k2 \in k + 1 .. Len(pattern) : pattern[k2].field # f
    IN pattern[last].pos

\* A line that a pattern matches has the groups that its fields name: what is
\* fetched is copied without looking whether there is any.
ASSUME PatternAssumption ==
    \A d \in Documents : \A k \in DOMAIN SourcesOf(d) :
        LET patterns == SourcesOf(d)[k].patterns IN
        /\ patterns \in Seq(Seq([pos : Nat, field : Fields]))
        /\ \A answer \in Pages : \A n \in DOMAIN answer :
              /\ answer[n].charset \in BOOLEAN
              /\ \A p \in answer[n].hits \cap DOMAIN patterns : \A f \in FieldsOf(patterns[p]) :
                    answer[n].groups[GroupOf(patterns[p], f)] \in Seq(DOMAIN Spelling)

Fetched(pattern, groups) ==
    [caller EXCEPT !.field = [f \in Fields |->
        IF f \in FieldsOf(pattern) THEN Spelled(groups[GroupOf(pattern, f)]) ELSE @[f]]]

Patterns == source.patterns
Advance == IF j <= Len(Patterns) THEN j' = j + 1 /\ UNCHANGED line ELSE j' = 1 /\ line' = line + 1

InLine == pc = "match" /\ line <= Len(memory)
Hit    == j <= Len(Patterns) /\ j \in memory[line].hits
TakeFields ==
    IF Hit THEN /\ caller' = Fetched(Patterns[j], memory[line].groups)
                /\ found' = found \cup FieldsOf(Patterns[j])
    ELSE UNCHANGED <<caller, found>>
NoteCharset == charset' = (charset \/ (j > Len(Patterns) /\ memory[line].charset))
StillMatching == UNCHANGED <<pc, doc, sources, source, urlVars, pageVars, err, lookups>>

\* Fault: a pattern that matches keeps its earlier fields.
MatchFirst ==
    /\ InLine /\ NoteCharset /\ Advance /\ StillMatching
    /\ IF Hit /\ FieldsOf(Patterns[j]) \cap found # {} THEN UNCHANGED <<caller, found>>
       ELSE TakeFields

\* Fault: a line that gives nothing is not passed.
MatchStays ==
    /\ InLine /\ TakeFields /\ NoteCharset /\ StillMatching
    /\ IF memory[line].hits = {} THEN UNCHANGED <<line, j>> ELSE Advance

\* Fault: the loop over the patterns does not start again.
MatchOn ==
    /\ InLine /\ TakeFields /\ NoteCharset /\ StillMatching
    /\ j' = j + 1 /\ line' = IF j <= Len(Patterns) THEN line ELSE line + 1

Match == InLine /\ TakeFields /\ NoteCharset /\ Advance /\ StillMatching

\* g_convert to UTF-8, if it succeeds.
Converted(text) == ReplaceAll(text, "u", "U")

\* _cirlw_remove_escapes moves the text forward in place: what it has written
\* always ends before what it has not read.
IsSpace(str, k) == str[k] = "%" /\ k + 2 <= Len(str) /\ str[k + 1] = "2" /\ str[k + 2] = "0"

\* One turn of the loop.
Moved(str, s) ==
    IF s.read > Len(str) THEN s
    ELSE IF IsSpace(str, s.read)
         THEN [written |-> Append(s.written, "_"), read |-> s.read + 3]
         ELSE [written |-> Append(s.written, str[s.read]), read |-> s.read + 1]

RemoveEscapes(str) ==
    LET after[n \in 0..Len(str)] ==
            IF n = 0 THEN [written |-> <<>>, read |-> 1] ELSE Moved(str, after[n - 1])
    IN after[Len(str)].written

\* All lines are done: with a charset the fields are converted, if that works,
\* and their escapes removed.
Decode ==
    /\ pc = "match" /\ line > Len(memory)
    /\ IF ~charset THEN UNCHANGED caller
       ELSE \E converts \in SUBSET (found \ {"PostalCode"}) :
              caller' = [caller EXCEPT !.field = [f \in Fields |->
                  IF f \notin found THEN @[f]
                  ELSE RemoveEscapes(IF f \in converts THEN Converted(@[f]) ELSE @[f])]]
    /\ Return(IF found = {} THEN 4 ELSE 0)
    /\ UNCHANGED <<doc, sources, source, urlVars, pageVars, matchVars, lookups>>

-----------------------------------------------------------------------------
Lookup == Measure \/ Allocate \/ Fill \/ Perform \/ PerformEnds \/ Match \/ Decode
Web    == ReadData \/ PerformFails

Next == Load \/ (\E number \in Numbers : GetCaller(number)) \/ Lookup \/ Web

Spec == Init /\ [][Next]_vars

\* The thread runs, and curl gets the page or an error.
FairSpec == Spec /\ WF_vars(Lookup) /\ WF_vars(Web)

-----------------------------------------------------------------------------
(* Properties.                                                             *)

\* Type correctness of the sources, of a lookup and of the loops in it.
TypeOK ==
    /\ pc \in {"load", "failed", "idle", "measure", "fill", "perform", "match"}
    /\ doc \in Documents
    /\ \A k \in DOMAIN sources : \E k2 \in DOMAIN SourcesOf(doc) : sources[k] = SourcesOf(doc)[k2]
    /\ caller.number \in Numbers \cup {<<>>}
    /\ \A f \in Fields : caller.field[f] \in Seq(Chars)
    /\ i \in 1..Len(url) + 1 /\ diff \in Int /\ room \in Nat /\ out \in Seq(Chars)
    /\ served \in Pages \cup {<<>>}
    /\ \E m \in 0..Len(served) : page = SubSeq(served, m + 1, Len(served))
    /\ pc = "match" => line \in 1..Len(memory) + 1 /\ j \in 1..Len(Patterns) + 1
    /\ found \subseteq Fields /\ charset \in BOOLEAN /\ err \in {0, 1, 4}
    /\ lookups \in 0..MaxLookups

\* The loop that writes the url stays within what the loop that measured it
\* has asked for, its final NUL included: both take the same characters for
\* placeholders, for numbers longer and shorter than the placeholder.
UrlFits == room > 0 => Len(out) < room

\* The first source of the file with the configured id, and its template.
Template ==
    LET first == CHOOSE k \in 1..Len(Elements(doc)) :
                    /\ Elements(doc)[k].id = SourceId
                    /\ \A k2 \in 1..k - 1 : Elements(doc)[k2].id # SourceId
    IN Last(Elements(doc)[first].queries).template
Expanded(pieces, number) ==
    FlattenSeq([k \in 1..Len(pieces) |->
                  IF pieces[k] = "number" THEN number ELSE Spelling[pieces[k]]])

\* The server is asked for the template of the configured source with the
\* number of this call, and nothing else changed in it.
UrlAsked == pc = "perform" => out = Expanded(Template, caller.number)

\* The group that the page gives for a field last: of its last line that a
\* pattern with this field matches, by the last of these patterns.
Giving(k, p, f) == p \in served[k].hits /\ p \in 1..Len(Patterns) /\ f \in FieldsOf(Patterns[p])
LastGiven(f) ==
    LET k == CHOOSE k \in 1..Len(served) :
               /\ \E p \in served[k].hits : Giving(k, p, f)
               /\ \A k2 \in k + 1 .. Len(served) : \A p \in served[k2].hits : ~Giving(k2, p, f)
        p == CHOOSE p \in served[k].hits :
               Giving(k, p, f) /\ \A p2 \in served[k].hits : Giving(k, p2, f) => p2 <= p
    IN served[k].groups[GroupOf(Patterns[p], f)]
Given(f) == \E k \in 1..Len(served) : \E p \in served[k].hits : Giving(k, p, f)
Decoded(pieces, umlaut) ==
    FlattenSeq([k \in 1..Len(pieces) |->
                  CASE pieces[k] = "space"  -> <<"_">>
                    [] pieces[k] = "umlaut" -> umlaut
                    [] OTHER -> Spelling[pieces[k]]])
InCharset == \E k \in 1..Len(served) : served[k].charset

\* When cirlw_get_caller returns 0, every field is what this page, and no
\* earlier one, gives for it last, decoded if the page names its charset
\* anywhere, and empty if the page does not give it; one field is given.
AnswerFromPage ==
    pc = "idle" /\ lookups > 0 /\ err = 0 =>
        /\ \E f \in Fields : Given(f)
        /\ \A f \in Fields :
              LET text == caller.field[f] IN
              IF ~Given(f) THEN text = <<>>
              ELSE IF InCharset THEN \E umlaut \in {<<"u">>, <<"U">>} :
                                       text = Decoded(LastGiven(f), umlaut)
              ELSE text = Spelled(LastGiven(f))

\* A lookup comes to an end, whatever the number and the page, unless the
\* template has a placeholder that is not known.
LookupEnds ==
    pc = "measure" /\ "unknown" \notin {Template[k] : k \in 1..Len(Template)} ~> pc = "idle"

=============================================================================
