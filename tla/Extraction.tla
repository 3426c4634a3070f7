----------------------------- MODULE Extraction -----------------------------
(***************************************************************************)
(* From the text of a rule and the decoded JSON of an anchor to series:    *)
(* Compile, and what one scrape evaluates.  The Evaluator module takes the *)
(* value at the end of a path for granted; here every path is parsed and   *)
(* walked, and a map is turned into labels key by key.                     *)
(***************************************************************************)
EXTENDS PathExpr, Evaluator

CONSTANTS
    \* The rules; meant is auxiliary: the constructs that the rule's paths were
    \* spelled from, or <<>>.
    RuleTexts,
    Documents,   \* the anchors, as decoded JSON
    Values,      \* the anchors and all their parts
    MapKeys,     \* every key of an object among the values, and of an allow list
    ByteOrder,   \* the characters in the order of their bytes
    Absent       \* no such source, or no series yet

\* The texts of a rule, and of its expandLabels.  A label's extracts are the primary
\* one and its fallbacks; <<>> is an omitted text, "" an omitted source or onMissing.
RuleTextType(r) ==
    /\ DOMAIN r = {"forEach", "labels", "expands", "meant"}
    /\ r.forEach \in Seq(STRING)
    /\ \A l \in DOMAIN r.labels :
          /\ DOMAIN r.labels[l] = {"extracts", "onMissing"}
          /\ Len(r.labels[l].extracts) > 0
          /\ \A i \in DOMAIN r.labels[l].extracts :
                /\ DOMAIN r.labels[l].extracts[i] = {"source", "path"}
                /\ r.labels[l].extracts[i].path \in Seq(STRING)

ExpandTextType(e) ==
    /\ DOMAIN e = {"source", "path", "prefix", "allow", "deny", "maxKeys"}
    /\ e.path \in Seq(STRING)
    /\ e.maxKeys \in Nat

ASSUME RuleTextsAssumption ==
    \A r \in RuleTexts :
        RuleTextType(r) /\ \A i \in DOMAIN r.expands : ExpandTextType(r.expands[i])

ASSUME ValuesAssumption == Documents \subseteq Values /\ DecodedValues(Values)

\* Keys are texts of ordered characters.
ASSUME KeysAssumption ==
    /\ IsFiniteSet(MapKeys)
    /\ MapKeys \subseteq Seq(Range(ByteOrder))
    /\ ByteOrder \in Seq(STRING)
    /\ \A i, j \in DOMAIN ByteOrder : ByteOrder[i] = ByteOrder[j] => i = j
    /\ \A v \in Values : v.type = "map" => DOMAIN v.entries \subseteq MapKeys
    /\ \A r \in RuleTexts : \A i \in DOMAIN r.expands : r.expands[i].allow \subseteq MapKeys

VARIABLES
    rule,        \* the rule's text
    anchor,      \* the anchor in the cache
    stage,       \* "text", "refused" or "compiled"
    series       \* what the last scrape made of the anchor

vars == <<rule, anchor, stage, series>>

-----------------------------------------------------------------------------
(* Compile *)

\* The texts that compileExtract and compileExpand parse, and the rule's own.
LabelPaths(r) ==
    {r.expands[i].path : i \in DOMAIN r.expands}
    \cup UNION {{r.labels[l].extracts[i].path : i \in DOMAIN r.labels[l].extracts} :
                   l \in DOMAIN r.labels}

PathsOf(r) == LabelPaths(r) \cup ({r.forEach} \ {<<>>})

Compiles(r) == \A path \in PathsOf(r) : parsePath(path) # {}

\* The results that a compiled path may give.
Results(path, input) == UNION {evaluate(segments, input) : segments \in parsePath(path)}

-----------------------------------------------------------------------------
(* Values and labels *)

\* stringifyValue.  The text of a scalar is its own; %v of a list or an object
\* is some text.
stringifyValue(v) ==
    CASE v.type = "scalar" -> v.text
      [] v.type = "nil"    -> Empty
      [] OTHER             -> "composite"

\* What tryExtract makes of the results: the first that is not empty.
FirstText(results) ==
    LET texts == SelectSeq([i \in DOMAIN results |-> stringifyValue(results[i])],
                           LAMBDA text : text # Empty)
    IN  IF texts = <<>> THEN Empty ELSE Head(texts)

\* Mutant: the first result alone.
MutantItemsOf(results) ==
    [i \in DOMAIN results \cap {1} |->
        IF results[i].type = "map" THEN results[i] ELSE Map([key \in {<<"_">>} |-> results[i]])]

\* EvaluateForEach: an item that is not an object is wrapped in one.
ItemsOf(results) ==
    [i \in DOMAIN results |->
        IF results[i].type = "map" THEN results[i] ELSE Map([key \in {<<"_">>} |-> results[i]])]

\* sort.Strings and a key's place in it.
Before(s, t) ==
    LET rank(c) == CHOOSE i \in DOMAIN ByteOrder : ByteOrder[i] = c
    IN  \E n \in 0..Len(s) :
            /\ n < Len(t)
            /\ SubSeq(s, 1, n) = SubSeq(t, 1, n)
            /\ n = Len(s) \/ rank(s[n + 1]) < rank(t[n + 1])

\* The elements of a set in the order of lt.
InOrder(set, lt(_, _)) ==
    [i \in 1..Cardinality(set) |->
        CHOOSE x \in set : Cardinality({y \in set : lt(y, x)}) = i - 1]

SortedKeys  == InOrder(MapKeys, Before)
Ranks(keys) == {k \in DOMAIN SortedKeys : SortedKeys[k] \in keys}

sanitizeLabelKey(key) ==
    IF key = <<>> THEN <<"_">>
    ELSE [i \in DOMAIN key |-> IF key[i] \in Letters \cup Digits THEN key[i] ELSE "_"]

\* EvaluateExpand looks at the first result, if it is an object.
MapOf(results) ==
    IF results = <<>> \/ Head(results).type # "map" THEN <<>>
    ELSE LET entries == Head(results).entries
         IN  [k \in Ranks(DOMAIN entries) |-> stringifyValue(entries[SortedKeys[k]])]

\* A source that is left out is the anchor.
EffectiveSource(e) == IF e.source = Empty THEN "anchor" ELSE e.source

\* The rule as Evaluator has it: extracts and expands are their own paths.
CompiledExtract(e, path) == [source |-> EffectiveSource(e), path |-> path]

CompiledExpand(e, path) ==
    [source |-> EffectiveSource(e), path |-> path,
     labelName |-> [k \in DOMAIN SortedKeys |-> e.prefix \o sanitizeLabelKey(SortedKeys[k])],
     allow |-> Ranks(e.allow), deny |-> Ranks(e.deny), maxKeys |-> e.maxKeys]

Compiled(r) ==
    [labels |-> [l \in DOMAIN r.labels |->
        [extracts |-> [i \in DOMAIN r.labels[l].extracts |->
                         CompiledExtract(r.labels[l].extracts[i], <<l, i>>)],
         onMissing |-> r.labels[l].onMissing]],
     expands |-> [i \in DOMAIN r.expands |-> CompiledExpand(r.expands[i], i)]]

\* One of the options for each of the indices.
OneOfEach(indices, options(_)) ==
    LET of == [x \in indices |-> options(x)]
    IN  {f \in [indices -> UNION Range(of)] : \A x \in indices : f[x] \in of[x]}

\* What a source may look like to the extracts and expands of one series.
Views(r, input) ==
    LET extracts == UNION {{<<l, i>> : i \in DOMAIN r.labels[l].extracts} : l \in DOMAIN r.labels}
        text(e)  == r.labels[e[1]].extracts[e[2]].path
        first(e) == {FirstText(results) : results \in Results(text(e), input)}
        map(i)   == {MapOf(results) : results \in Results(r.expands[i].path, input)}
    IN  IF input = Absent THEN {Absent}
        ELSE {[data |-> d, maps |-> m] : d \in OneOfEach(extracts, first),
                                         m \in OneOfEach(DOMAIN r.expands, map)}

SeriesOf(r, input, item) ==
    {EvaluateOneSeries(Compiled(r), [anchor |-> a, item |-> i], Absent) :
        a \in Views(r, input), i \in Views(r, item)}

\* The items that a scrape may find, in its order.
ForEach(r, input) ==
    IF r.forEach = <<>> THEN {<<Absent>>}
    ELSE {ItemsOf(results) : results \in Results(r.forEach, input)}

-----------------------------------------------------------------------------
Init ==
    /\ rule \in RuleTexts
    /\ anchor \in Documents
    /\ stage = "text"
    /\ series = Absent

\* collector.New compiles the rule; a path that does not parse ends the process.
Compile ==
    /\ stage = "text"
    /\ stage' = IF Compiles(rule) THEN "compiled" ELSE "refused"
    /\ UNCHANGED <<rule, anchor, series>>

\* A scrape materialises the anchor, which is the same every time.
Scrape ==
    /\ stage = "compiled"
    /\ \E items \in ForEach(rule, anchor) :
          series' \in OneOfEach(DOMAIN items, LAMBDA i : SeriesOf(rule, anchor, items[i]))
    /\ UNCHANGED <<rule, anchor, stage>>

Next == Compile \/ Scrape

Spec == Init /\ [][Next]_vars

-----------------------------------------------------------------------------
(* Properties *)

(***************************************************************************)
(* The grammar of parsePath, without its loop: cut the bare text into      *)
(* dots, identifiers that go on as far as they can, and subscripts that    *)
(* end at the first "]"; no dot comes first or after another.              *)
(***************************************************************************)
IsToken(p, i, j) ==
    \/ p[i] = "." /\ j = i
    \/ p[i] = "[" /\ p[j] = "]" /\ \A k \in i..(j - 1) : p[k] # "]"
    \/ /\ isIdentStart(p[i])
       /\ \A k \in i..j : isIdentPart(p[k])
       /\ j = Len(p) \/ ~isIdentPart(p[j + 1])

Meaning(token) ==
    CASE token[1] = "." -> {<<>>}
      [] token[1] = "[" -> {<<seg>> : seg \in parseSubscript(Trim(SubSeq(token, 2, Len(token) - 1)))}
      [] OTHER          -> {<<Field(token)>>}

\* The text cut after the places of ends, which follow each other: where the
\* tokens start, and whether they are tokens.
StartOf(ends, n) == IF n = 1 THEN 1 ELSE ends[n - 1] + 1

IsCut(p, ends) ==
    \A n \in DOMAIN ends :
        /\ IsToken(p, StartOf(ends, n), ends[n])
        /\ p[StartOf(ends, n)] = "." => n > 1 /\ p[StartOf(ends, n - 1)] # "."

\* What the text means if it is cut after the places in cuts.
MeaningOfCut(p, cuts) ==
    LET ends  == InOrder(cuts, <)
        token(n) == SubSeq(p, StartOf(ends, n), ends[n])
        last[n \in 0..Len(ends)] ==     \* what the last n tokens mean
            IF n = 0 THEN {<<>>}
            ELSE {new \o rest : new \in Meaning(token(Len(ends) - n + 1)), rest \in last[n - 1]}
    IN  IF IsCut(p, ends) THEN last[Len(ends)] ELSE {}

\* A token ends at a dot or a closing bracket, or before a dot or an opening one.
Grammar(expr) ==
    LET p == Bare(expr)
        ends == {i \in 1..(Len(p) - 1) : p[i] \in {".", "]"} \/ p[i + 1] \in {".", "["}}
    IN  UNION {MeaningOfCut(p, cuts \cup {Len(p)}) : cuts \in {c \in SUBSET ends : p # <<>>}}

(***************************************************************************)
(* A rule starts if and only if each of its texts is in the grammar, and   *)
(* then a text means what the grammar says (evaluator.go:63: path errors   *)
(* end the process at startup, and no scrape parses).                      *)
(***************************************************************************)
StartsIfInTheGrammar ==
    /\ stage = "refused" => \E path \in PathsOf(rule) : Grammar(path) = {}
    /\ stage = "compiled" => \A path \in PathsOf(rule) : parsePath(path) = Grammar(path)

(***************************************************************************)
(* A path spelled from the constructs of docs/CONFIG.md:301 (field, index, *)
(* wildcard, quoted key, outer braces), with or without the first dot,     *)
(* compiles to those constructs.                                           *)
(***************************************************************************)
IsIdentifier(name) ==
    /\ name # <<>>
    /\ name[1] \in Letters \cup {"_"}
    /\ \A k \in DOMAIN name : name[k] \in Letters \cup Digits \cup {"_", "-"}

\* The digits of a number: left[k] is what the first k of them say.
IsDecimal(text, number) ==
    /\ text # <<>>
    /\ \E left \in [0..Len(text) -> 0..number] :
          /\ left[0] = 0 /\ left[Len(text)] = number
          /\ \A k \in DOMAIN text : /\ left[k - 1] = left[k] \div 10
                                    /\ text[k] = Digit[(left[k] % 10) + 1]

\* quote and index are only for the constructs that have one.
IsConstruct(c) ==
    /\ c.text \in Seq(STRING)
    /\ \/ c.form = "dot" /\ IsIdentifier(c.text)
       \/ c.form = "quoted" /\ c.quote \in {"\"", "'"} /\ \A k \in DOMAIN c.text : c.text[k] # "]"
       \/ c.form = "index" /\ c.index \in 0..MaxInt /\ IsDecimal(c.text, c.index)
       \/ c.form = "wildcard" /\ c.text = <<"*">>

Subscript(c) == IF c.form = "quoted" THEN <<c.quote>> \o c.text \o <<c.quote>> ELSE c.text

Written(c) ==
    IF c.form = "dot" THEN <<".">> \o c.text ELSE <<"[">> \o Subscript(c) \o <<"]">>

SegmentOf(c) ==
    CASE c.form \in {"dot", "quoted"} -> Field(c.text)
      [] c.form = "index"             -> Index(c.index)
      [] c.form = "wildcard"          -> Wildcard

Spellings(constructs) ==
    LET text[n \in 0..Len(constructs)] ==    \* the last n constructs
            IF n = 0 THEN <<>>
            ELSE Written(constructs[Len(constructs) - n + 1]) \o text[n - 1]
        whole == text[Len(constructs)]
        short == IF whole[1] = "." THEN SubSeq(whole, 2, Len(whole)) ELSE whole
    IN  {whole, short, <<"{">> \o whole \o <<"}">>, <<"{">> \o short \o <<"}">>}

ASSUME MeantAssumption ==
    \A r \in RuleTexts :
        /\ r.meant \in Seq({c \in Range(r.meant) : IsConstruct(c)})
        /\ r.meant # <<>> => PathsOf(r) \subseteq Spellings(r.meant)

SpelledPathCompiles ==
    rule.meant # <<>> =>
        /\ stage # "refused"
        /\ stage = "compiled" =>
              \A path \in PathsOf(rule) :
                  parsePath(path) = {[n \in DOMAIN rule.meant |-> SegmentOf(rule.meant[n])]}

(***************************************************************************)
(* The nodes of a value, each <<address, value>>, by depth; an address     *)
(* is the steps from the root, [index, name] with -1 or <<>> for the one   *)
(* that it is not.                                                         *)
(***************************************************************************)
ChildrenOf(node) ==
    CASE node[2].type = "list" ->
            {<<Append(node[1], [index |-> i - 1, name |-> <<>>]), node[2].elems[i]>> :
                i \in DOMAIN node[2].elems}
      [] node[2].type = "map" ->
            {<<Append(node[1], [index |-> -1, name |-> key]), node[2].entries[key]>> :
                key \in DOMAIN node[2].entries}
      [] OTHER -> {}

NodesAt(input, depth) ==
    LET at[n \in 0..depth] ==
            IF n = 0 THEN {<<<<>>, input>>} ELSE UNION {ChildrenOf(node) : node \in at[n - 1]}
    IN  at[depth]

MatchesStep(seg, step) ==
    \/ seg.kind = "wildcard"
    \/ seg.kind = "index" /\ step.index >= 0 /\ seg.index = step.index
    \/ seg.kind = "field" /\ step.index < 0 /\ seg.name = step.name

\* The nodes that a path names: those whose address matches, step by step.
NamedBy(segments, input) ==
    {node \in NodesAt(input, Len(segments)) :
        /\ \A n \in DOMAIN segments : MatchesStep(segments[n], node[1][n])
        /\ segments[Len(segments)].kind = "field" => node[2] # Nil}

\* A wildcard of the path meets an object.
RangesOverMap(segments, input) ==
    \E n \in DOMAIN segments :
        /\ segments[n].kind = "wildcard"
        /\ \E node \in NodesAt(input, n - 1) :
              /\ node[2].type = "map"
              /\ \A k \in 1..(n - 1) : MatchesStep(segments[k], node[1][k])

SameBag(s, t) ==
    \A x \in ToSet(s) \cup ToSet(t) :
        Cardinality({i \in DOMAIN s : s[i] = x}) = Cardinality({i \in DOMAIN t : t[i] = x})

(***************************************************************************)
(* evaluate returns the value of each node that the path names, once, and  *)
(* nothing else; in the order of the lists, unless a wildcard ranges over  *)
(* an object.                                                              *)
(***************************************************************************)
InListOrder(a, b) ==
    \E n \in DOMAIN a[1] : /\ a[1][n].index < b[1][n].index
                           /\ \A k \in 1..(n - 1) : a[1][k] = b[1][k]

ResultsAreTheNamedNodes ==
    stage = "compiled" =>
        \A path \in PathsOf(rule) : \A segments \in parsePath(path) :
            LET nodes  == NamedBy(segments, anchor)
                sorted == InOrder(nodes, InListOrder)
                values == [i \in DOMAIN sorted |-> sorted[i][2]]
            IN  IF RangesOverMap(segments, anchor)
                THEN \A results \in evaluate(segments, anchor) :
                        /\ Len(results) = Cardinality(nodes)
                        /\ \A i \in DOMAIN results :
                              Cardinality({j \in DOMAIN results : results[j] = results[i]})
                              = Cardinality({node \in nodes : node[2] = results[i]})
                ELSE evaluate(segments, anchor) = {values}

(***************************************************************************)
(* Two scrapes of the same object make the same series of it, whatever     *)
(* order Go gives its maps: the forEach of the rule may range over an      *)
(* object, the paths of its labels may not.                                *)
(***************************************************************************)
LabelsRangeOverMap ==
    \E path \in LabelPaths(rule) : \E segments \in parsePath(path) :
        \/ RangesOverMap(segments, anchor)
        \/ \E items \in ForEach(rule, anchor) : \E i \in DOMAIN items :
              items[i] # Absent /\ RangesOverMap(segments, items[i])

SameObjectSameSeries ==
    [][series # Absent /\ ~LabelsRangeOverMap => SameBag(series, series')]_vars

(***************************************************************************)
(* The dynamic labels are those of the loop over the sorted keys           *)
(* (docs/CONFIG.md:263): deny before allow, the first maxKeys, and of two  *)
(* keys that sanitise to one label the value of the later one.             *)
(***************************************************************************)
NoLabels == [label \in {} |-> Empty]

LoopOverKeys(expand, entries) ==
    LET kept == InOrder({key \in DOMAIN entries :
                                /\ key \notin expand.deny
                                /\ expand.allow = {} \/ key \in expand.allow}, Before)
        rounds  == IF expand.maxKeys = 0 THEN Len(kept) ELSE Min({expand.maxKeys, Len(kept)})
        name(n) == expand.prefix \o sanitizeLabelKey(kept[n])
        text(n) == stringifyValue(entries[kept[n]])
        out[n \in 0..rounds] ==
            IF n = 0 THEN NoLabels
            ELSE IF text(n) = Empty THEN out[n - 1]
            ELSE [label \in DOMAIN out[n - 1] \cup {name(n)} |->
                     IF label = name(n) THEN text(n) ELSE out[n - 1][label]]
    IN  out[rounds]

ExpandsInKeyOrder ==
    stage = "compiled" =>
        \A i \in DOMAIN rule.expands :
            EffectiveSource(rule.expands[i]) = "anchor" =>
                \A results \in Results(rule.expands[i].path, anchor) :
                    EvaluateExpand(Compiled(rule).expands[i],
                                   [anchor |-> [maps |-> [n \in {i} |-> MapOf(results)]]], Nil)
                    = IF results = <<>> \/ Head(results).type # "map" THEN NoLabels
                      ELSE LoopOverKeys(rule.expands[i], Head(results).entries)
=============================================================================
