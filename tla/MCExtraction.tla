---------------------------- MODULE MCExtraction ----------------------------
(***************************************************************************)
(* Extraction for TLC: every text of up to four characters, every path     *)
(* that can be spelled from up to three constructs, and rules with forEach *)
(* and expandLabels, over a few values.                                    *)
(***************************************************************************)
EXTENDS Extraction

ASCII == <<" ", "\"", "$", "'", "*", "-", ".", "/", "0", "1", "[", "]", "_", "a", "b", "{", "}">>
ab    == {"a", "b"}

\* Rules of one label.
LabelRule(path, meant) ==
    [forEach |-> <<>>, expands |-> <<>>, meant |-> meant,
     labels |-> [value |-> [extracts |-> <<[source |-> "anchor", path |-> path]>>,
                            onMissing |-> "none"]]]

Texts == UNION {[1..n -> {".", "[", "]", "*", "\"", "a", "0", "-", " "}] : n \in 1..4}
            \cup {<<"{">> \o t \o <<"}">> : t \in UNION {[1..n -> {".", "$", "a", " "}] : n \in 0..3}}
            \cup {<<"[", "1", "1", "]">>, <<"[", "-", "1", "]">>}    \* more than MaxInt, negative

Constructs ==
    {[form |-> "dot", text |-> <<"a">>],
     [form |-> "dot", text |-> <<"b", "-", "0">>],
     [form |-> "quoted", quote |-> "\"", text |-> <<"b", ".", "/">>],
     [form |-> "quoted", quote |-> "'", text |-> <<"b">>],
     [form |-> "index", index |-> 0, text |-> <<"0">>],
     [form |-> "index", index |-> 1, text |-> <<"1">>],
     [form |-> "index", index |-> 10, text |-> <<"1", "0">>],
     [form |-> "wildcard", text |-> <<"*">>]}

SpelledPaths ==
    UNION {UNION {{LabelRule(path, constructs) : path \in Spellings(constructs)} :
                      constructs \in [1..n -> Constructs]} : n \in 1..3}

\* Rules with forEach and expandLabels.
x == Scalar("x")
y == Scalar("y")

Expand(source, path) ==
    [source |-> source, path |-> path, prefix |-> <<"b", "_">>, allow |-> {}, deny |-> {},
     maxKeys |-> 0]

ItemRule(forEach, itemPath) ==
    [LabelRule(itemPath, <<>>) EXCEPT
        !.forEach = forEach,
        !.labels = [value |-> [extracts |-> <<[source |-> "item", path |-> itemPath],
                                              [source |-> Empty, path |-> <<"b">>]>>,
                               onMissing |-> "none"]],
        !.expands = <<Expand("item", <<"a">>),
                      [Expand("anchor", <<"a">>) EXCEPT !.maxKeys = 3, !.deny = {<<"a">>}],
                      [Expand(Empty, <<"a">>) EXCEPT !.allow = {<<"a">>, <<"b", "/">>}]>>]

RichRules ==
    {ItemRule(forEach, itemPath) :
        forEach \in {<<"a">>, <<"a", "[", "*", "]">>, <<"[", "*", "]">>, <<"b", "[">>},
        itemPath \in {<<"_">>, <<"a">>, <<"[", "*", "]">>}}

OneObject == Map((<<"a">> :> List(<<x, Nil, Map((<<"a">> :> y))>>)) @@ (<<"b">> :> y))
Labelled  == Map((<<"a">> :> Map((<<"a">> :> x) @@ (<<"b", "/">> :> y) @@ (<<"b", ".">> :> x)
                                 @@ (<<"b", "0">> :> Scalar("")) @@ (<<"b", "b">> :> y)))
                 @@ (<<"b">> :> Nil))
Nested    == Map((<<"a">> :> Map((<<"a">> :> List(<<y, x>>)) @@ (<<"b">> :> Map((<<"a">> :> x)))))
                 @@ (<<"b", "-", "0">> :> List(<<List(<<x, y>>), List(<<y>>)>>))
                 @@ (<<"b", ".", "/">> :> x))

Keys == {<<"a">>, <<"b", "/">>, <<"b", ".">>, <<"b", "0">>, <<"b", "b">>, <<"b">>,
         <<"b", "-", "0">>, <<"b", ".", "/">>}

Rules  == {LabelRule(t, <<>>) : t \in Texts} \cup SpelledPaths \cup RichRules
Anchors == {OneObject, Labelled, Nested}

\* The anchors with their parts, and the parts of those.
WithParts(values) ==
    values \cup UNION {CASE v.type = "list" -> ToSet(v.elems)
                         [] v.type = "map"  -> Range(v.entries)
                         [] OTHER           -> {} : v \in values}
AllParts == WithParts(WithParts(WithParts(WithParts(Anchors))))
=============================================================================
