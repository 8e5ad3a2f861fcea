--------------------------- MODULE MCReverseLookup ---------------------------
(* ReverseLookup for TLC: one document for each template of up to three      *)
(* pieces, and a few with other elements, another id, a second query or no    *)
(* line handling; pages of up to two lines.                                   *)
EXTENDS ReverseLookup

Two   == << <<[pos |-> 1, field |-> "Name"]>>,
            <<[pos |-> 1, field |-> "City"], [pos |-> 2, field |-> "Name"]>> >>
Other == << <<[pos |-> 1, field |-> "PostalCode"]>> >>

Query(template, split) == [template |-> template, linehandling |-> split]
Source(id, queries, patterns) ==
    [tag |-> "source", id |-> id, queries |-> queries, patterns |-> patterns]
Comment == [tag |-> "comment", id |-> 1, queries |-> <<>>, patterns |-> <<>>]
File(elements) == [valid |-> TRUE, elements |-> elements]

Simple == Query(<<"text", "number">>, "split")
MCDocuments ==
    {File(<<Source(1, <<Query(t, "split")>>, Two)>>) :
        t \in UNION {[1..n -> {"text", "space", "number", "unknown"}] : n \in 0..3}}
    \cup {[valid |-> FALSE, elements |-> <<>>],
          File(<<Source(2, <<Simple>>, Two)>>),
          File(<<Comment, Source(2, <<Simple>>, Two), Source(1, <<Query(<<"text">>, "split"), Simple>>, Other),
                 Source(1, <<Query(<<"number">>, "split")>>, Two)>>),
          File(<<Source(1, <<Simple>>, <<>>)>>),
          File(<<Source(1, <<Query(<<"number">>, "nosplit")>>, Two)>>)}

MCNumbers == {<<>>, <<"1", "2">>, <<"1", "0", "2", "0">>}

Line(hits, groups, says) == [hits |-> hits, groups |-> groups, charset |-> says]
MCLines == {Line({}, <<>>, FALSE), Line({}, <<>>, TRUE),
            Line({1}, << <<"umlaut", "space", "text">> >>, FALSE),
            Line({1, 2}, << <<"percent", "space">>, <<"space", "umlaut", "percent">> >>, TRUE)}
MCPages == UNION {[1..n -> MCLines] : n \in 0..2}
=============================================================================
