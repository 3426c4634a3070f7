------------------------------ MODULE PathExpr ------------------------------
(***************************************************************************)
(* collector.parsePath and parsedPath.evaluate.  A text is a sequence of   *)
(* one-character strings.  Parsing gives the set of what the text compiles *)
(* to: {} when the code returns an error, {segments} otherwise.            *)
(* Evaluation gives the set of the results it may return: a wildcard over  *)
(* an object ranges over a Go map, in an order of its own each time.       *)
(***************************************************************************)
EXTENDS Integers, SequencesExt, FiniteSetsExt

CONSTANTS
    Letters,     \* the letters among the characters in use, which are ASCII characters
    MaxInt       \* the greatest int

\* A letter is not a space or a mark of the syntax.
ASSUME LettersAssumption == Letters \cap {" ", "$", ".", "[", "]", "{", "}"} = {}

ASSUME MaxIntAssumption == MaxInt \in Nat

Digit == <<"0", "1", "2", "3", "4", "5", "6", "7", "8", "9">>
Digits == {Digit[d] : d \in 1..10}

isIdentStart(c) == c = "_" \/ c \in Letters

\* Mutant: the identifiers of the comment, without "-".
MutantIsIdentPart(c) == c = "_" \/ c \in Letters \cup Digits

isIdentPart(c) == c = "_" \/ c = "-" \/ c \in Letters \cup Digits

\* strings.TrimSpace and strings.TrimPrefix.
Trim(s) ==
    LET solid == {i \in DOMAIN s : s[i] # " "}
    IN  IF solid = {} THEN <<>> ELSE SubSeq(s, Min(solid), Max(solid))

WithoutPrefix(prefix, s) ==
    IF IsPrefix(prefix, s) THEN SubSeq(s, Len(prefix) + 1, Len(s)) ELSE s

\* The text that is parsed: without the outer braces and the leading "." or "$.".
Bare(expr) ==
    LET p == Trim(expr)
        unwrapped == IF IsPrefix(<<"{">>, p) /\ IsSuffix(<<"}">>, p)
                     THEN Trim(SubSeq(p, 2, Len(p) - 1)) ELSE p
    IN  WithoutPrefix(<<"$", ".">>, WithoutPrefix(<<".">>, unwrapped))

Field(name) == [kind |-> "field", name |-> name, index |-> 0]
Index(n)    == [kind |-> "index", name |-> <<>>, index |-> n]
Wildcard    == [kind |-> "wildcard", name |-> <<>>, index |-> 0]

\* The end of the longest run of these characters from place i on.
RunEnd(s, i, chars) == Max({j \in (i - 1)..Len(s) : \A k \in i..j : s[k] \in chars})

\* fmt.Sscanf with "%d": a sign and digits, whatever comes after them; it fails if
\* the number is no int.
Scanned(token) ==
    LET signed == token # <<>> /\ token[1] \in {"+", "-"}
        from   == IF signed THEN 2 ELSE 1
        run    == SubSeq(token, from, RunEnd(token, from, Digits))
        digit(c) == (CHOOSE d \in 1..10 : Digit[d] = c) - 1
        value[n \in 0..Len(run)] == IF n = 0 THEN 0 ELSE 10 * value[n - 1] + digit(run[n])
        number == IF signed /\ token[1] = "-" THEN -value[Len(run)] ELSE value[Len(run)]
    IN  {n \in {number} : run # <<>> /\ n \in (-MaxInt - 1)..MaxInt}

Quoted(token) ==
    /\ Len(token) >= 2
    /\ token[1] \in {"\"", "'"}
    /\ Last(token) = token[1]

parseSubscript(token) ==
    CASE token = <<"*">> -> {Wildcard}
      [] Quoted(token)   -> {Field(SubSeq(token, 2, Len(token) - 1))}
      [] OTHER           -> {Index(n) : n \in Scanned(token)}

\* Mutant: the last "]" of the text.
MutantClosing(p, i) ==
    LET brackets == {j \in i..Len(p) : p[j] = "]"}
    IN  {j \in brackets : \A k \in brackets : k <= j}

\* strings.IndexByte: the first "]" from place i on, if there is one.
Closing(p, i) ==
    LET brackets == {j \in i..Len(p) : p[j] = "]"}
    IN  {j \in brackets : \A k \in brackets : j <= k}

Then(seg, rest) == {<<seg>> \o segs : segs \in rest}

\* A round of the loop of parsePath at place i: what the text compiles to from
\* there on, when a field or a subscript must come next (expecting) or may, given
\* what it compiles to from later places.
Round(p, from, i, expecting) ==
    IF i > Len(p) THEN {<<>>}
    ELSE IF p[i] = "." THEN IF expecting THEN {} ELSE from[<<i + 1, TRUE>>]
    ELSE IF p[i] = "[" THEN
        UNION {UNION {Then(seg, from[<<end + 1, FALSE>>]) :
                         seg \in parseSubscript(Trim(SubSeq(p, i + 1, end - 1)))} :
                  end \in Closing(p, i)}
    ELSE IF isIdentStart(p[i]) THEN
        LET end == RunEnd(p, i, {c \in ToSet(p) : isIdentPart(c)})
        IN  Then(Field(SubSeq(p, i, end)), from[<<end + 1, FALSE>>])
    ELSE {}

Segments(p) ==
    LET from[place \in (1..(Len(p) + 1)) \X BOOLEAN] == Round(p, from, place[1], place[2])
    IN  from[<<1, TRUE>>]

parsePath(expr) == Segments(Bare(expr)) \ {<<>>}

-----------------------------------------------------------------------------
(* Values as encoding/json decodes them, and evaluate *)

Nil           == [type |-> "nil"]
Scalar(text)  == [type |-> "scalar", text |-> text]
List(elems)   == [type |-> "list", elems |-> elems]
Map(entries)  == [type |-> "map", entries |-> entries]

\* Decoded values with all their parts: lists and objects are finite.
DecodedValues(values) ==
    \A v \in values :
        \/ v.type \in {"nil", "scalar"}
        \/ v.type = "list" /\ v.elems \in Seq(values)
        \/ /\ v.type = "map"
           /\ IsFiniteSet(DOMAIN v.entries)
           /\ \A key \in DOMAIN v.entries : v.entries[key] \in values

\* Mutant: the index counts from one.
MutantElementAt(elems, index) == IF index \in 1..Len(elems) THEN <<elems[index]>> ELSE <<>>

elementAt(elems, index) ==
    IF index \in 0..(Len(elems) - 1) THEN <<elems[index + 1]>> ELSE <<>>

applySegment(cur, seg) ==
    CASE seg.kind = "field" /\ cur.type = "map" ->
            IF seg.name \in DOMAIN cur.entries /\ cur.entries[seg.name] # Nil
            THEN {<<cur.entries[seg.name]>>} ELSE {<<>>}
      [] seg.kind = "index" /\ cur.type = "list"    -> {elementAt(cur.elems, seg.index)}
      [] seg.kind = "wildcard" /\ cur.type = "list" -> {cur.elems}
      [] seg.kind = "wildcard" /\ cur.type = "map"  ->
            {[i \in DOMAIN keys |-> cur.entries[keys[i]]] : keys \in SetToSeqs(DOMAIN cur.entries)}
      [] OTHER -> {<<>>}

\* What a frontier may become: the values that applySegment gives, in its order.
NextFrontiers(frontier, seg) ==
    LET made[n \in 0..Len(frontier)] ==
            IF n = 0 THEN {<<>>}
            ELSE {done \o new : done \in made[n - 1], new \in applySegment(frontier[n], seg)}
    IN  made[Len(frontier)]

evaluate(segments, input) ==
    LET after[n \in 0..Len(segments)] ==
            IF n = 0 THEN {<<input>>}
            ELSE UNION {NextFrontiers(frontier, segments[n]) : frontier \in after[n - 1]}
    IN  after[Len(segments)]
=============================================================================
