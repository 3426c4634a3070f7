-------------------------- MODULE ExtractionProofs --------------------------
(***************************************************************************)
(* Theorems about Extraction, for every set of rules and of documents.     *)
(* The loops of the code are recursive functions in the model; what they   *)
(* compute is shown here by induction on the number of their rounds.       *)
(***************************************************************************)
EXTENDS Extraction, TLAPS, SequenceTheorems, FiniteSetTheorems, FunctionTheorems,
        NaturalsInduction

-----------------------------------------------------------------------------
(* Numbers, recursion, sequences *)

\* A set of numbers that is not empty has a least element.
LEMMA LeastNumber ==
    ASSUME NEW T \in SUBSET Nat, T # {}
    PROVE  \E m \in T : \A k \in T : ~(k < m)
<1> DEFINE Less == {ss \in Nat \X Nat : ss[1] < ss[2]}
<1>1. IsWellFoundedOn(Less, Nat)
  BY NatLessThanWellFounded DEF OpToRel
<1>2. PICK m \in T : \A k \in T : <<k, m>> \notin Less
  <2> HIDE DEF Less
  <2> QED
    BY <1>1, WFMin
<1> QED
  BY <1>2

\* Induction on a set of numbers, up to a bound.
LEMMA UpTo ==
    ASSUME NEW d \in Nat, NEW Good,
           0 \in Good,
           \A n \in 1..d : n - 1 \in Good => n \in Good
    PROVE  \A n \in 0..d : n \in Good
<1> DEFINE Bad == {n \in 0..d : n \notin Good}
<1>1. SUFFICES ASSUME Bad # {} PROVE FALSE
  OBVIOUS
<1>2. Bad \in SUBSET Nat
  OBVIOUS
<1>3. PICK m \in Bad : \A k \in Bad : ~(k < m)
  <2> HIDE DEF Bad
  <2> QED
    BY <1>1, <1>2, LeastNumber
<1>4. m # 0
  OBVIOUS
<1>5. m - 1 \in 0..d /\ m - 1 \notin Bad
  BY <1>3, <1>4
<1> QED
  BY <1>4, <1>5

\* A recursive function over 0..d exists, if its steps stay in some set.
Repeats(f, a, step, d) == f[0] = a /\ \A n \in 1..d : f[n] = step[<<n, f[n - 1]>>]

LEMMA Recursion ==
    ASSUME NEW S, NEW a \in S, NEW d \in Nat, NEW step \in [(1..d) \X S -> S]
    PROVE  \E f \in [0..d -> S] : Repeats(f, a, step, d)
<1> DEFINE Is(f, m) ==
              /\ f \in [0..m -> S]
              /\ f = [n \in 0..m |-> IF n = 0 THEN a ELSE step[<<n, f[n - 1]>>]]
           Good == {m \in 0..d : \E f : Is(f, m)}
<1>1. 0 \in Good
  <2>1. Is([n \in 0..0 |-> a], 0) /\ 0 \in 0..d
    OBVIOUS
  <2> HIDE DEF Is
  <2> QED
    BY <2>1
<1>2. ASSUME NEW m \in 1..d, m - 1 \in Good
      PROVE  m \in Good
  <2>1. PICK f : Is(f, m - 1)
    BY <1>2
  <2> DEFINE g == [n \in 0..m |-> IF n = 0 THEN a ELSE step[<<n, f[n - 1]>>]]
  <2>2. \A n \in 0..m : n # 0 => n \in 1..d /\ n - 1 \in 0..(m - 1) /\ n - 1 \in 0..m
    OBVIOUS
  <2>3. \A n \in 0..(m - 1) : f[n] \in S
    BY <2>1
  <2>4. g \in [0..m -> S]
    BY <2>2, <2>3
  <2>5. \A n \in 0..(m - 1) : n \in 0..m /\ g[n] = f[n]
    BY <2>1
  <2>6. \A n \in 0..m : g[n] = IF n = 0 THEN a ELSE step[<<n, g[n - 1]>>]
    BY <2>2, <2>5
  <2> HIDE DEF g
  <2>7. Is(g, m)
    BY <2>4, <2>6
  <2>8. m \in 0..d
    OBVIOUS
  <2> HIDE DEF Is
  <2> QED
    BY <2>7, <2>8
<1>3. d \in Good
  <2> HIDE DEF Good
  <2> QED
    BY <1>1, <1>2, UpTo
<1>4. PICK f : Is(f, d)
  BY <1>3
<1>5. f \in [0..d -> S] /\ \A n \in 0..d : f[n] = IF n = 0 THEN a ELSE step[<<n, f[n - 1]>>]
  BY <1>4
<1>6. 0 \in 0..d /\ \A n \in 1..d : n \in 0..d /\ n # 0
  OBVIOUS
<1> QED
  BY <1>5, <1>6 DEF Repeats

\* A sequence has every element of a set, once, and nothing else.
Enumerates(s, S) ==
    /\ s \in Seq(S)
    /\ \A i, j \in DOMAIN s : s[i] = s[j] => i = j
    /\ \A x \in S : \E i \in DOMAIN s : s[i] = x

\* The sequence that follows the order of InListOrder.
Ordered(s) == \A i, j \in DOMAIN s : i < j => InListOrder(s[i], s[j])

\* The values of a sequence of nodes.
ValuesOf(s) == [i \in DOMAIN s |-> s[i][2]]

\* u is s and then t.
IsConcat(u, s, t) ==
    /\ DOMAIN s = 1..Len(s) /\ Len(s) \in Nat
    /\ DOMAIN t = 1..Len(t) /\ Len(t) \in Nat
    /\ DOMAIN u = 1..(Len(s) + Len(t))
    /\ \A i \in DOMAIN s : i \in DOMAIN u /\ u[i] = s[i]
    /\ \A i \in DOMAIN t : Len(s) + i \in DOMAIN u /\ u[Len(s) + i] = t[i]
    /\ \A i \in DOMAIN u : \/ i \in DOMAIN s /\ u[i] = s[i]
                           \/ i > Len(s) /\ i - Len(s) \in DOMAIN t /\ u[i] = t[i - Len(s)]

Apart(S, T) == \A x \in S : x \notin T

\* Where the elements of a concatenation come from.
LEMMA ConcatPlaces ==
    ASSUME NEW S, NEW s \in Seq(S), NEW t \in Seq(S)
    PROVE  s \o t \in Seq(S) /\ IsConcat(s \o t, s, t)
<1>1. Len(s) \in Nat /\ Len(t) \in Nat /\ DOMAIN s = 1..Len(s) /\ DOMAIN t = 1..Len(t)
  OBVIOUS
<1> QED
  BY <1>1, ConcatProperties DEF IsConcat

\* Two enumerations one after the other.
Joined(s, t, S, T) ==
    /\ Enumerates(s \o t, S \cup T)
    /\ ValuesOf(s \o t) = ValuesOf(s) \o ValuesOf(t)

LEMMA EnumeratesConcat ==
    ASSUME NEW S, NEW T, Apart(S, T),
           NEW s, Enumerates(s, S), NEW t, Enumerates(t, T)
    PROVE  Joined(s, t, S, T)
<1> DEFINE u == s \o t
<1>1. s \in Seq(S \cup T) /\ t \in Seq(S \cup T) /\ s \in Seq(S) /\ t \in Seq(T)
  BY DEF Enumerates
<1>2. u \in Seq(S \cup T) /\ IsConcat(u, s, t)
  <2> QED
    BY <1>1, ConcatPlaces
<1>3. (\A i \in DOMAIN s : s[i] \in S) /\ (\A i \in DOMAIN t : t[i] \in T)
  BY <1>1
<1>4. Enumerates(u, S \cup T)
  <2> HIDE DEF u
  <2>1. ASSUME NEW i \in DOMAIN u, NEW j \in DOMAIN u, u[i] = u[j]
        PROVE  i = j
    <3>1. CASE i \in DOMAIN s /\ u[i] = s[i]
      <4>1. j \in DOMAIN s /\ u[j] = s[j]
        BY <1>2, <1>3, <2>1, <3>1 DEF IsConcat, Apart
      <4> QED
        BY <2>1, <3>1, <4>1 DEF Enumerates
    <3>2. CASE i > Len(s) /\ i - Len(s) \in DOMAIN t /\ u[i] = t[i - Len(s)]
      <4>1. j > Len(s) /\ j - Len(s) \in DOMAIN t /\ u[j] = t[j - Len(s)]
        BY <1>2, <1>3, <2>1, <3>2 DEF IsConcat, Apart
      <4>2. i - Len(s) = j - Len(s)
        BY <2>1, <3>2, <4>1 DEF Enumerates
      <4>3. i \in Int /\ j \in Int
        BY <1>2 DEF IsConcat
      <4> QED
        BY <1>2, <4>2, <4>3 DEF IsConcat
    <3> QED
      BY <1>2, <3>1, <3>2 DEF IsConcat
  <2>2. ASSUME NEW x \in S \cup T
        PROVE  \E i \in DOMAIN u : u[i] = x
    <3>1. CASE x \in S
      BY <1>2, <3>1 DEF Enumerates, IsConcat
    <3>2. CASE x \in T
      BY <1>2, <3>2 DEF Enumerates, IsConcat
    <3> QED
      BY <3>1, <3>2
  <2> QED
    BY <1>2, <2>1, <2>2 DEF Enumerates
<1>5. ValuesOf(u) = ValuesOf(s) \o ValuesOf(t)
  <2> DEFINE V == {s[i][2] : i \in DOMAIN s} \cup {t[i][2] : i \in DOMAIN t}
             v == ValuesOf(s) \o ValuesOf(t)
  <2>1. /\ ValuesOf(s) \in Seq(V) /\ Len(ValuesOf(s)) = Len(s) /\ DOMAIN ValuesOf(s) = DOMAIN s
        /\ ValuesOf(t) \in Seq(V) /\ Len(ValuesOf(t)) = Len(t) /\ DOMAIN ValuesOf(t) = DOMAIN t
    BY <1>2 DEF ValuesOf, IsConcat
  <2> HIDE DEF V
  <2>2. v \in Seq(V) /\ IsConcat(v, ValuesOf(s), ValuesOf(t))
    BY <2>1, ConcatPlaces
  <2> HIDE DEF u, v
  <2>3. DOMAIN v = DOMAIN u
    BY <1>2, <2>1, <2>2 DEF IsConcat
  <2>4. ASSUME NEW i \in DOMAIN u PROVE v[i] = u[i][2]
    <3>1. CASE i \in DOMAIN s /\ u[i] = s[i]
      <4>1. v[i] = ValuesOf(s)[i]
        BY <2>1, <2>2, <3>1 DEF IsConcat
      <4> QED
        BY <3>1, <4>1 DEF ValuesOf
    <3>2. CASE i > Len(s) /\ i - Len(s) \in DOMAIN t /\ u[i] = t[i - Len(s)]
      <4>1. v[Len(s) + (i - Len(s))] = ValuesOf(t)[i - Len(s)]
        BY <2>1, <2>2, <3>2 DEF IsConcat
      <4>2. Len(s) + (i - Len(s)) = i
        BY <1>2 DEF IsConcat
      <4> QED
        BY <3>2, <4>1, <4>2 DEF ValuesOf
    <3> QED
      BY <1>2, <3>1, <3>2 DEF IsConcat
  <2>5. v = [i \in DOMAIN v |-> v[i]]
    BY <2>2
  <2>6. v = ValuesOf(u)
    BY <2>3, <2>4, <2>5 DEF ValuesOf
  <2> QED
    BY <2>6 DEF v
<1> QED
  BY <1>4, <1>5 DEF Joined

\* They stay in order if everything in the first set comes before the second.
LEMMA OrderedConcat ==
    ASSUME NEW S, NEW T, NEW s \in Seq(S), NEW t \in Seq(T), Ordered(s), Ordered(t),
           \A x \in S, y \in T : InListOrder(x, y)
    PROVE  Ordered(s \o t)
<1> DEFINE u == s \o t
<1>1. IsConcat(u, s, t)
  <2>1. s \in Seq(S \cup T) /\ t \in Seq(S \cup T)
    OBVIOUS
  <2> QED
    BY <2>1, ConcatPlaces
<1>2. (\A i \in DOMAIN s : s[i] \in S) /\ (\A i \in DOMAIN t : t[i] \in T)
  OBVIOUS
<1> HIDE DEF u
<1>3. ASSUME NEW i \in DOMAIN u, NEW j \in DOMAIN u, i < j
      PROVE  InListOrder(u[i], u[j])
  <2>1. i \in Int /\ j \in Int
    BY <1>1 DEF IsConcat
  <2>2. CASE i \in DOMAIN s /\ u[i] = s[i]
    <3>1. CASE j \in DOMAIN s /\ u[j] = s[j]
      BY <1>3, <2>2, <3>1 DEF Ordered
    <3>2. CASE j - Len(s) \in DOMAIN t /\ u[j] = t[j - Len(s)]
      BY <1>2, <2>2, <3>2
    <3> QED
      BY <1>1, <3>1, <3>2 DEF IsConcat
  <2>3. CASE i > Len(s) /\ i - Len(s) \in DOMAIN t /\ u[i] = t[i - Len(s)]
    <3>1. j - Len(s) \in DOMAIN t /\ u[j] = t[j - Len(s)]
      BY <1>1, <1>3, <2>1, <2>3 DEF IsConcat
    <3>2. i - Len(s) < j - Len(s)
      BY <1>1, <1>3, <2>1 DEF IsConcat
    <3> QED
      BY <2>3, <3>1, <3>2 DEF Ordered
  <2> QED
    BY <1>1, <2>2, <2>3 DEF IsConcat
<1>4. Ordered(u)
  BY <1>3 DEF Ordered
<1> QED
  BY <1>4 DEF u

-----------------------------------------------------------------------------
(* One segment: the children that it selects, and what applySegment returns *)

StepsOf(V) ==
    [index : Int,
     name  : {<<>>} \cup UNION {DOMAIN v.entries : v \in {w \in V : w.type = "map"}}]

\* The nodes of the values in V.
NodesOf(V) == Seq(StepsOf(V)) \X V

ListChild(node, i)   == <<Append(node[1], [index |-> i - 1, name |-> <<>>]), node[2].elems[i]>>
MapChild(node, key)  == <<Append(node[1], [index |-> -1, name |-> key]), node[2].entries[key]>>

\* The children that a segment selects.
Selected(seg, node) ==
    {child \in ChildrenOf(node) :
        /\ MatchesStep(seg, child[1][Len(node[1]) + 1])
        /\ seg.kind = "field" => child[2] # Nil}

\* The value of a node, by its type.
LEMMA ValueTypes ==
    ASSUME NEW V, DecodedValues(V), NEW v \in V
    PROVE  /\ v.type = "list" => /\ v.elems \in Seq(V) /\ DOMAIN v.elems = 1..Len(v.elems)
                                 /\ Len(v.elems) \in Nat
                                 /\ \A i \in DOMAIN v.elems : v.elems[i] \in V
           /\ v.type = "map" => /\ IsFiniteSet(DOMAIN v.entries)
                                /\ \A key \in DOMAIN v.entries : v.entries[key] \in V
           /\ v.type \in {"nil", "scalar", "list", "map"}
  BY DEF DecodedValues

\* Each child has its own last step, after the address of its parent.
LEMMA ListChildren ==
    ASSUME NEW V, DecodedValues(V), NEW node \in NodesOf(V), node[2].type = "list"
    PROVE  /\ ChildrenOf(node) = {ListChild(node, i) : i \in DOMAIN node[2].elems}
           /\ \A i \in DOMAIN node[2].elems :
                 LET child == ListChild(node, i)
                     step  == [index |-> i - 1, name |-> <<>>]
                 IN  /\ child \in NodesOf(V)
                     /\ step \in StepsOf(V)
                     /\ child[1] = Append(node[1], step)
                     /\ child[1][Len(node[1]) + 1] = step
                     /\ child[2] = node[2].elems[i]
<1>1. ChildrenOf(node) = {ListChild(node, i) : i \in DOMAIN node[2].elems}
  BY DEF ChildrenOf, ListChild
<1>2. node[1] \in Seq(StepsOf(V)) /\ node[2] \in V
  BY DEF NodesOf
<1>3. ASSUME NEW i \in DOMAIN node[2].elems
      PROVE  /\ ListChild(node, i) \in NodesOf(V)
             /\ [index |-> i - 1, name |-> <<>>] \in StepsOf(V)
             /\ ListChild(node, i)[1] = Append(node[1], [index |-> i - 1, name |-> <<>>])
             /\ ListChild(node, i)[1][Len(node[1]) + 1] = [index |-> i - 1, name |-> <<>>]
             /\ ListChild(node, i)[2] = node[2].elems[i]
  <2> DEFINE step == [index |-> i - 1, name |-> <<>>]
  <2>1. i - 1 \in Int /\ node[2].elems[i] \in V
    BY <1>2, ValueTypes
  <2>2. step \in StepsOf(V)
    BY <2>1 DEF StepsOf
  <2> HIDE DEF step
  <2>3. Append(node[1], step) \in Seq(StepsOf(V)) /\ Append(node[1], step)[Len(node[1]) + 1] = step
    BY <1>2, <2>2
  <2> QED
    BY <2>1, <2>2, <2>3 DEF ListChild, NodesOf, step
<1> QED
  BY <1>1, <1>3

LEMMA MapChildren ==
    ASSUME NEW V, DecodedValues(V), NEW node \in NodesOf(V), node[2].type = "map"
    PROVE  /\ ChildrenOf(node) = {MapChild(node, key) : key \in DOMAIN node[2].entries}
           /\ \A key \in DOMAIN node[2].entries :
                 LET child == MapChild(node, key)
                     step  == [index |-> -1, name |-> key]
                 IN  /\ child \in NodesOf(V)
                     /\ step \in StepsOf(V)
                     /\ child[1] = Append(node[1], step)
                     /\ child[1][Len(node[1]) + 1] = step
                     /\ child[2] = node[2].entries[key]
<1>1. ChildrenOf(node) = {MapChild(node, key) : key \in DOMAIN node[2].entries}
  BY DEF ChildrenOf, MapChild
<1>2. node[1] \in Seq(StepsOf(V)) /\ node[2] \in V
  BY DEF NodesOf
<1>3. ASSUME NEW key \in DOMAIN node[2].entries
      PROVE  /\ MapChild(node, key) \in NodesOf(V)
             /\ [index |-> -1, name |-> key] \in StepsOf(V)
             /\ MapChild(node, key)[1] = Append(node[1], [index |-> -1, name |-> key])
             /\ MapChild(node, key)[1][Len(node[1]) + 1] = [index |-> -1, name |-> key]
             /\ MapChild(node, key)[2] = node[2].entries[key]
  <2> DEFINE step == [index |-> -1, name |-> key]
  <2>1. node[2].entries[key] \in V
    BY <1>2, ValueTypes
  <2>2. step \in StepsOf(V)
    BY <1>2 DEF StepsOf
  <2> HIDE DEF step
  <2>3. Append(node[1], step) \in Seq(StepsOf(V)) /\ Append(node[1], step)[Len(node[1]) + 1] = step
    BY <1>2, <2>2
  <2> QED
    BY <2>1, <2>2, <2>3 DEF MapChild, NodesOf, step
<1> QED
  BY <1>1, <1>3

\* What has no children.
LEMMA NoChildren ==
    ASSUME NEW node, node[2].type \notin {"list", "map"}
    PROVE  ChildrenOf(node) = {}
  BY DEF ChildrenOf

\* As many different elements as a set has are all of them.
LEMMA InjectiveIsOnto ==
    ASSUME NEW T, IsFiniteSet(T), NEW f \in [1..Cardinality(T) -> T],
           \A i, j \in 1..Cardinality(T) : i # j => f[i] # f[j]
    PROVE  \A x \in T : \E i \in 1..Cardinality(T) : f[i] = x
<1>1. Cardinality(T) \in Nat
  BY FS_CardinalityType
<1>2. Cardinality(1..Cardinality(T)) = Cardinality(T)
  BY <1>1, FS_Interval
<1>3. f \in Injection(1..Cardinality(T), T)
  BY Fun_IsInj
<1>4. f \in Surjection(1..Cardinality(T), T)
  BY <1>2, <1>3, FS_Injection
<1> QED
  BY <1>4 DEF Surjection

\* A sequence and one element more.
LEMMA AppendPlaces ==
    ASSUME NEW S, NEW s \in Seq(S), NEW x \in S
    PROVE  /\ Len(s) \in Nat
           /\ Len(Append(s, x)) = Len(s) + 1
           /\ DOMAIN Append(s, x) = 1..(Len(s) + 1)
           /\ Append(s, x)[Len(s) + 1] = x
           /\ \A k \in 1..Len(s) : Append(s, x)[k] = s[k]
           /\ SubSeq(Append(s, x), 1, Len(s)) = s
<1>1. /\ Len(s) \in Nat
      /\ Len(Append(s, x)) = Len(s) + 1
      /\ DOMAIN Append(s, x) = 1..(Len(s) + 1)
      /\ Append(s, x)[Len(s) + 1] = x
      /\ \A k \in 1..Len(s) : Append(s, x)[k] = s[k]
  OBVIOUS
<1>2. SubSeq(Append(s, x), 1, Len(s)) = s
  OBVIOUS
<1> QED
  BY <1>1, <1>2

\* A child extends the address of its parent by one step.
LEMMA ChildExtends ==
    ASSUME NEW V, DecodedValues(V), NEW node \in NodesOf(V), NEW child \in ChildrenOf(node)
    PROVE  /\ child \in NodesOf(V)
           /\ Len(node[1]) \in Nat
           /\ Len(child[1]) = Len(node[1]) + 1
           /\ DOMAIN child[1] = 1..(Len(node[1]) + 1)
           /\ \A k \in 1..Len(node[1]) : child[1][k] = node[1][k]
           /\ child[1][Len(node[1]) + 1] \in StepsOf(V)
           /\ node[1] = SubSeq(child[1], 1, Len(node[1]))
<1>1. node[1] \in Seq(StepsOf(V)) /\ node[2] \in V
  BY DEF NodesOf
<1>2. child \in NodesOf(V) /\ \E step \in StepsOf(V) : child[1] = Append(node[1], step)
  <2>1. CASE node[2].type = "list"
    <3>1. PICK i \in DOMAIN node[2].elems : child = ListChild(node, i)
      BY <2>1, ListChildren
    <3> DEFINE step == [index |-> i - 1, name |-> <<>>]
    <3>2. child \in NodesOf(V) /\ step \in StepsOf(V) /\ child[1] = Append(node[1], step)
      BY <2>1, <3>1, ListChildren
    <3> HIDE DEF step
    <3> QED
      BY <3>2
  <2>2. CASE node[2].type = "map"
    <3>1. PICK key \in DOMAIN node[2].entries : child = MapChild(node, key)
      BY <2>2, MapChildren
    <3> DEFINE step == [index |-> -1, name |-> key]
    <3>2. child \in NodesOf(V) /\ step \in StepsOf(V) /\ child[1] = Append(node[1], step)
      BY <2>2, <3>1, MapChildren
    <3> QED
      BY <3>2
  <2> QED
    BY <2>1, <2>2, NoChildren
<1>3. PICK step \in StepsOf(V) : child[1] = Append(node[1], step)
  BY <1>2
<1>4. LET a == Append(node[1], step)
      IN  /\ Len(node[1]) \in Nat
          /\ Len(a) = Len(node[1]) + 1
          /\ DOMAIN a = 1..(Len(node[1]) + 1)
          /\ a[Len(node[1]) + 1] = step
          /\ \A k \in 1..Len(node[1]) : a[k] = node[1][k]
          /\ SubSeq(a, 1, Len(node[1])) = node[1]
  BY <1>1, AppendPlaces
<1> QED
  BY <1>2, <1>3, <1>4

LEMMA EmptyEnumerates == Enumerates(<<>>, {}) /\ Ordered(<<>>) /\ ValuesOf(<<>>) = <<>>
  BY DEF Enumerates, Ordered, ValuesOf

LEMMA OneEnumerates ==
    ASSUME NEW c
    PROVE  Enumerates(<<c>>, {c}) /\ Ordered(<<c>>) /\ ValuesOf(<<c>>) = <<c[2]>>
<1>1. <<c>> \in Seq({c}) /\ DOMAIN <<c>> = {1} /\ <<c>>[1] = c
  OBVIOUS
<1>2. ValuesOf(<<c>>) = <<c[2]>>
  BY DEF ValuesOf
<1> QED
  BY <1>1, <1>2 DEF Enumerates, Ordered

\* What each kind of segment selects of each kind of value.
LEMMA SelectsField ==
    ASSUME NEW V, DecodedValues(V), NEW node \in NodesOf(V), NEW seg,
           seg.kind = "field", node[2].type = "map"
    PROVE  Selected(seg, node) =
              IF seg.name \in DOMAIN node[2].entries /\ node[2].entries[seg.name] # Nil
              THEN {MapChild(node, seg.name)} ELSE {}
<1>1. \A key \in DOMAIN node[2].entries :
          /\ MatchesStep(seg, MapChild(node, key)[1][Len(node[1]) + 1]) <=> seg.name = key
          /\ MapChild(node, key)[2] = node[2].entries[key]
  <2> TAKE key \in DOMAIN node[2].entries
  <2> DEFINE step == [index |-> -1, name |-> key]
  <2>1. /\ MapChild(node, key)[1][Len(node[1]) + 1] = step
        /\ MapChild(node, key)[2] = node[2].entries[key]
    BY MapChildren
  <2>2. step.index = -1 /\ step.name = key
    OBVIOUS
  <2> HIDE DEF step
  <2> QED
    BY <2>1, <2>2 DEF MatchesStep
<1> QED
  BY <1>1, MapChildren DEF Selected

LEMMA SelectsIndex ==
    ASSUME NEW V, DecodedValues(V), NEW node \in NodesOf(V), NEW seg,
           seg.kind = "index", node[2].type = "list"
    PROVE  Selected(seg, node) = IF seg.index \in 0..(Len(node[2].elems) - 1)
                                 THEN {ListChild(node, seg.index + 1)} ELSE {}
<1>1. node[2] \in V
  BY DEF NodesOf
<1>2. DOMAIN node[2].elems = 1..Len(node[2].elems) /\ Len(node[2].elems) \in Nat
  BY <1>1, ValueTypes
<1>3. \A i \in DOMAIN node[2].elems :
          MatchesStep(seg, ListChild(node, i)[1][Len(node[1]) + 1]) <=> seg.index = i - 1
  <2> TAKE i \in DOMAIN node[2].elems
  <2> DEFINE step == [index |-> i - 1, name |-> <<>>]
  <2>1. ListChild(node, i)[1][Len(node[1]) + 1] = step
    BY ListChildren
  <2>2. step.index = i - 1 /\ i - 1 >= 0
    BY <1>2
  <2> HIDE DEF step
  <2> QED
    BY <2>1, <2>2 DEF MatchesStep
<1>4. Selected(seg, node) = {ListChild(node, i) : i \in {k \in DOMAIN node[2].elems : seg.index = k - 1}}
  BY <1>3, ListChildren DEF Selected
<1>5. {k \in DOMAIN node[2].elems : seg.index = k - 1} =
         IF seg.index \in 0..(Len(node[2].elems) - 1) THEN {seg.index + 1} ELSE {}
  BY <1>2
<1> QED
  BY <1>4, <1>5

LEMMA SelectsAll ==
    ASSUME NEW seg, NEW node, seg.kind = "wildcard"
    PROVE  Selected(seg, node) = ChildrenOf(node)
  BY DEF Selected, MatchesStep

LEMMA SelectsNothing ==
    ASSUME NEW V, DecodedValues(V), NEW node \in NodesOf(V), NEW seg,
           ~(seg.kind = "field" /\ node[2].type = "map"),
           ~(seg.kind = "index" /\ node[2].type = "list"),
           ~(seg.kind = "wildcard" /\ node[2].type \in {"list", "map"})
    PROVE  Selected(seg, node) = {}
<1>1. CASE node[2].type = "list"
  <2>1. ASSUME NEW i \in DOMAIN node[2].elems
        PROVE  ~MatchesStep(seg, ListChild(node, i)[1][Len(node[1]) + 1])
    <3> DEFINE step == [index |-> i - 1, name |-> <<>>]
    <3>1. ListChild(node, i)[1][Len(node[1]) + 1] = step
      BY <1>1, ListChildren
    <3>2. step.index >= 0
      BY <1>1, ValueTypes DEF NodesOf
    <3>3. step.index \in Int
      BY <1>1, ValueTypes DEF NodesOf
    <3> HIDE DEF step
    <3> QED
      BY <1>1, <3>1, <3>2, <3>3 DEF MatchesStep
  <2> QED
    BY <1>1, <2>1, ListChildren DEF Selected
<1>2. CASE node[2].type = "map"
  <2>1. ASSUME NEW key \in DOMAIN node[2].entries
        PROVE  ~MatchesStep(seg, MapChild(node, key)[1][Len(node[1]) + 1])
    <3> DEFINE step == [index |-> -1, name |-> key]
    <3>1. MapChild(node, key)[1][Len(node[1]) + 1] = step
      BY <1>2, MapChildren
    <3>2. step.index = -1
      OBVIOUS
    <3> HIDE DEF step
    <3> QED
      BY <1>2, <3>1, <3>2 DEF MatchesStep
  <2> QED
    BY <1>2, <2>1, MapChildren DEF Selected
<1>3. CASE node[2].type \notin {"list", "map"}
  BY <1>3, NoChildren DEF Selected
<1> QED
  BY <1>1, <1>2, <1>3

\* A wildcard over an object.
OverMap(seg, node) == seg.kind = "wildcard" /\ node[2].type = "map"

\* The children of a list come in its order.
LEMMA ListInOrder ==
    ASSUME NEW V, DecodedValues(V), NEW node \in NodesOf(V), node[2].type = "list"
    PROVE  \E cs : Enumerates(cs, ChildrenOf(node)) /\ Ordered(cs) /\ ValuesOf(cs) = node[2].elems
<1> DEFINE cs == [i \in DOMAIN node[2].elems |-> ListChild(node, i)]
<1>1. node[1] \in Seq(StepsOf(V)) /\ node[2] \in V
  BY DEF NodesOf
<1>2. /\ DOMAIN node[2].elems = 1..Len(node[2].elems) /\ Len(node[2].elems) \in Nat
      /\ node[2].elems \in Seq(V)
  BY <1>1, ValueTypes
<1>3. \A i \in DOMAIN node[2].elems :
          /\ ListChild(node, i) \in ChildrenOf(node)
          /\ ListChild(node, i)[2] = node[2].elems[i]
          /\ ListChild(node, i)[1][Len(node[1]) + 1].index = i - 1
          /\ DOMAIN ListChild(node, i)[1] = 1..(Len(node[1]) + 1)
          /\ \A k \in 1..Len(node[1]) : ListChild(node, i)[1][k] = node[1][k]
  <2> TAKE i \in DOMAIN node[2].elems
  <2>1. ListChild(node, i) \in ChildrenOf(node)
    BY ListChildren
  <2>2. /\ DOMAIN ListChild(node, i)[1] = 1..(Len(node[1]) + 1)
        /\ \A k \in 1..Len(node[1]) : ListChild(node, i)[1][k] = node[1][k]
    BY <2>1, ChildExtends
  <2> DEFINE step == [index |-> i - 1, name |-> <<>>]
  <2>3. ListChild(node, i)[2] = node[2].elems[i] /\ ListChild(node, i)[1][Len(node[1]) + 1] = step
    BY ListChildren
  <2>4. step.index = i - 1
    OBVIOUS
  <2> HIDE DEF step
  <2> QED
    BY <2>1, <2>2, <2>3, <2>4
<1>4. \A i, j \in DOMAIN node[2].elems : ListChild(node, i) = ListChild(node, j) => i = j
  <2> TAKE i, j \in DOMAIN node[2].elems
  <2>1. i \in Int /\ j \in Int
    BY <1>2
  <2> QED
    BY <1>3, <2>1
<1>5. Enumerates(cs, ChildrenOf(node))
  <2>1. cs \in Seq(ChildrenOf(node))
    BY <1>2, <1>3
  <2>2. \A c \in ChildrenOf(node) : \E i \in DOMAIN node[2].elems : c = ListChild(node, i)
    BY ListChildren
  <2> QED
    BY <1>4, <2>1, <2>2 DEF Enumerates
<1>6. Ordered(cs)
  <2> SUFFICES ASSUME NEW i \in DOMAIN node[2].elems, NEW j \in DOMAIN node[2].elems, i < j
               PROVE  InListOrder(ListChild(node, i), ListChild(node, j))
    BY DEF Ordered
  <2>1. i \in Int /\ j \in Int /\ Len(node[1]) \in Nat
    BY <1>1, <1>2
  <2> DEFINE n == Len(node[1]) + 1
             a == ListChild(node, i)
             b == ListChild(node, j)
  <2>2. n \in DOMAIN a[1] /\ a[1][n].index < b[1][n].index
    BY <1>3, <2>1
  <2>3. \A k \in 1..(n - 1) : a[1][k] = b[1][k]
    <3> TAKE k \in 1..(n - 1)
    <3>1. k \in 1..Len(node[1])
      BY <2>1
    <3> QED
      BY <1>3, <3>1
  <2> HIDE DEF n, a, b
  <2>4. InListOrder(a, b)
    BY <2>2, <2>3 DEF InListOrder
  <2> QED
    BY <2>4 DEF a, b
<1>7. ValuesOf(cs) = node[2].elems
  <2>1. node[2].elems = [i \in DOMAIN node[2].elems |-> node[2].elems[i]]
    BY <1>2
  <2> QED
    BY <1>3, <2>1 DEF ValuesOf
<1> QED
  BY <1>5, <1>6, <1>7

\* Without a wildcard over an object there is one result, in order.
LEMMA SelectedInOrder ==
    ASSUME NEW V, DecodedValues(V), NEW node \in NodesOf(V), NEW seg, ~OverMap(seg, node)
    PROVE  \E cs : /\ Enumerates(cs, Selected(seg, node))
                   /\ Ordered(cs)
                   /\ applySegment(node[2], seg) = {ValuesOf(cs)}
<1>1. CASE seg.kind = "field" /\ node[2].type = "map"
  <2> DEFINE has == seg.name \in DOMAIN node[2].entries /\ node[2].entries[seg.name] # Nil
  <2>1. CASE has
    <3>1. applySegment(node[2], seg) = {<<node[2].entries[seg.name]>>}
      BY <1>1, <2>1 DEF applySegment
    <3>2. Selected(seg, node) = {MapChild(node, seg.name)}
      BY <1>1, <2>1, SelectsField
    <3>3. MapChild(node, seg.name)[2] = node[2].entries[seg.name]
      BY DEF MapChild
    <3> QED
      BY <3>1, <3>2, <3>3, OneEnumerates
  <2>2. CASE ~has
    <3>1. applySegment(node[2], seg) = {<<>>}
      BY <1>1, <2>2 DEF applySegment
    <3>2. Selected(seg, node) = {}
      BY <1>1, <2>2, SelectsField
    <3> QED
      BY <3>1, <3>2, EmptyEnumerates
  <2> QED
    BY <2>1, <2>2
<1>2. CASE seg.kind = "index" /\ node[2].type = "list"
  <2>1. applySegment(node[2], seg) = {elementAt(node[2].elems, seg.index)}
    BY <1>2 DEF applySegment
  <2>2. CASE seg.index \in 0..(Len(node[2].elems) - 1)
    <3>1. applySegment(node[2], seg) = {<<node[2].elems[seg.index + 1]>>}
      BY <2>1, <2>2 DEF elementAt
    <3>2. Selected(seg, node) = {ListChild(node, seg.index + 1)}
      BY <1>2, <2>2, SelectsIndex
    <3>3. ListChild(node, seg.index + 1)[2] = node[2].elems[seg.index + 1]
      BY DEF ListChild
    <3> QED
      BY <3>1, <3>2, <3>3, OneEnumerates
  <2>3. CASE seg.index \notin 0..(Len(node[2].elems) - 1)
    <3>1. applySegment(node[2], seg) = {<<>>}
      BY <2>1, <2>3 DEF elementAt
    <3>2. Selected(seg, node) = {}
      BY <1>2, <2>3, SelectsIndex
    <3> QED
      BY <3>1, <3>2, EmptyEnumerates
  <2> QED
    BY <2>2, <2>3
<1>3. CASE seg.kind = "wildcard" /\ node[2].type = "list"
  <2>1. applySegment(node[2], seg) = {node[2].elems}
    BY <1>3 DEF applySegment
  <2> QED
    BY <1>3, <2>1, ListInOrder, SelectsAll
<1>4. CASE /\ ~(seg.kind = "field" /\ node[2].type = "map")
           /\ ~(seg.kind = "index" /\ node[2].type = "list")
           /\ ~(seg.kind = "wildcard" /\ node[2].type \in {"list", "map"})
  <2>1. applySegment(node[2], seg) = {<<>>}
    BY <1>4 DEF applySegment
  <2>2. Selected(seg, node) = {}
    BY <1>4, SelectsNothing
  <2> QED
    BY <2>1, <2>2, EmptyEnumerates
<1> QED
  BY <1>1, <1>2, <1>3, <1>4 DEF OverMap

\* With one there are the children, in some order.
LEMMA SelectedInSomeOrder ==
    ASSUME NEW V, DecodedValues(V), NEW node \in NodesOf(V), NEW seg, OverMap(seg, node),
           NEW new \in applySegment(node[2], seg)
    PROVE  \E cs : Enumerates(cs, Selected(seg, node)) /\ ValuesOf(cs) = new
<1>1. seg.kind = "wildcard" /\ node[2].type = "map" /\ node[2] \in V
  BY DEF OverMap, NodesOf
<1> DEFINE K == DOMAIN node[2].entries
<1>2. applySegment(node[2], seg) =
          {[i \in DOMAIN keys |-> node[2].entries[keys[i]]] : keys \in SetToSeqs(K)}
  BY <1>1 DEF applySegment
<1>3. PICK keys \in SetToSeqs(K) : new = [i \in DOMAIN keys |-> node[2].entries[keys[i]]]
  BY <1>2
<1>4. IsFiniteSet(K) /\ Cardinality(K) \in Nat
  BY <1>1, ValueTypes, FS_CardinalityType
<1>5. /\ keys \in [1..Cardinality(K) -> K]
      /\ \A i, j \in 1..Cardinality(K) : i # j => keys[i] # keys[j]
  BY DEF SetToSeqs
<1>6. \A key \in K : \E i \in 1..Cardinality(K) : keys[i] = key
  BY <1>4, <1>5, InjectiveIsOnto
<1> DEFINE cs == [i \in DOMAIN keys |-> MapChild(node, keys[i])]
<1>7. \A key \in K : /\ MapChild(node, key) \in ChildrenOf(node)
                     /\ MapChild(node, key)[2] = node[2].entries[key]
                     /\ MapChild(node, key)[1][Len(node[1]) + 1].name = key
  <2> TAKE key \in K
  <2> DEFINE step == [index |-> -1, name |-> key]
  <2>1. MapChild(node, key)[1][Len(node[1]) + 1] = step
    BY <1>1, MapChildren
  <2> QED
    BY <1>1, <2>1, MapChildren
<1>8. Enumerates(cs, ChildrenOf(node))
  <2>1. cs \in Seq(ChildrenOf(node))
    BY <1>4, <1>5, <1>7
  <2>2. \A i, j \in DOMAIN cs : cs[i] = cs[j] => i = j
    BY <1>5, <1>7
  <2>3. \A c \in ChildrenOf(node) : \E key \in K : c = MapChild(node, key)
    BY <1>1, MapChildren
  <2>4. \A c \in ChildrenOf(node) : \E i \in DOMAIN cs : cs[i] = c
    BY <1>5, <1>6, <2>3
  <2> HIDE DEF cs
  <2> QED
    BY <2>1, <2>2, <2>4 DEF Enumerates
<1>9. ValuesOf(cs) = new
  BY <1>3, <1>5, <1>7 DEF ValuesOf
<1> QED
  BY <1>1, <1>8, <1>9, SelectsAll

-----------------------------------------------------------------------------
(* The loop over a frontier *)

\* Values of nodes are values.
LEMMA ValuesTyped ==
    ASSUME NEW V, NEW S, S \subseteq NodesOf(V), NEW cs \in Seq(S)
    PROVE  /\ ValuesOf(cs) \in Seq(V)
           /\ DOMAIN ValuesOf(cs) = DOMAIN cs
           /\ Len(ValuesOf(cs)) = Len(cs)
<1>1. DOMAIN cs = 1..Len(cs) /\ Len(cs) \in Nat /\ \A i \in DOMAIN cs : cs[i][2] \in V
  BY DEF NodesOf
<1> QED
  BY <1>1 DEF ValuesOf

LEMMA SelectedTyped ==
    ASSUME NEW V, DecodedValues(V), NEW node \in NodesOf(V), NEW seg
    PROVE  Selected(seg, node) \subseteq NodesOf(V)
  BY ChildExtends DEF Selected

LEMMA ApplyTyped ==
    ASSUME NEW V, DecodedValues(V), NEW v \in V, NEW seg
    PROVE  applySegment(v, seg) \subseteq Seq(V)
<1> DEFINE node == <<<<>>, v>>
<1>1. node \in NodesOf(V) /\ node[2] = v
  <2>1. <<>> \in Seq(StepsOf(V))
    OBVIOUS
  <2> QED
    BY <2>1 DEF NodesOf
<1> HIDE DEF node
<1> SUFFICES ASSUME NEW new \in applySegment(node[2], seg) PROVE new \in Seq(V)
  BY <1>1
<1>2. \E cs : Enumerates(cs, Selected(seg, node)) /\ ValuesOf(cs) = new
  <2>1. CASE OverMap(seg, node)
    BY <1>1, <2>1, SelectedInSomeOrder
  <2>2. CASE ~OverMap(seg, node)
    BY <1>1, <2>2, SelectedInOrder
  <2> QED
    BY <2>1, <2>2
<1> QED
  BY <1>1, <1>2, SelectedTyped, ValuesTyped DEF Enumerates

\* Everything of the first set, and then everything of the second.
Appended(made, options) == {done \o new : done \in made, new \in options}

LEMMA AppendedTyped ==
    ASSUME NEW V, NEW made \in SUBSET Seq(V), NEW options \in SUBSET Seq(V)
    PROVE  Appended(made, options) \in SUBSET Seq(V)
<1>1. ASSUME NEW done \in made, NEW new \in options PROVE done \o new \in Seq(V)
  <2>1. done \in Seq(V) /\ new \in Seq(V)
    OBVIOUS
  <2> QED
    BY <2>1, ConcatProperties
<1>2. ASSUME NEW u \in Appended(made, options) PROVE u \in Seq(V)
  <2>1. PICK done \in made, new \in options : u = done \o new
    BY DEF Appended
  <2> QED
    BY <1>1, <2>1
<1> QED
  BY <1>2

\* NextFrontiers appends what each value gives, value by value.
IsMade(made, frontier, seg) ==
    made = [n \in 0..Len(frontier) |->
              IF n = 0 THEN {<<>>}
              ELSE Appended(made[n - 1], applySegment(frontier[n], seg))]

LEMMA MadeExists ==
    ASSUME NEW V, DecodedValues(V), NEW frontier \in Seq(V), NEW seg
    PROVE  \E made : IsMade(made, frontier, seg)
<1> DEFINE d == Len(frontier)
           S == SUBSET Seq(V)
           step == [x \in (1..d) \X S |-> Appended(x[2], applySegment(frontier[x[1]], seg))]
<1>1. d \in Nat /\ \A n \in 1..d : frontier[n] \in V
  OBVIOUS
<1>2. step \in [(1..d) \X S -> S]
  <2>1. ASSUME NEW x \in (1..d) \X S
        PROVE  Appended(x[2], applySegment(frontier[x[1]], seg)) \in S
    <3>1. applySegment(frontier[x[1]], seg) \in SUBSET Seq(V)
      BY <1>1, ApplyTyped
    <3> QED
      BY <3>1, AppendedTyped
  <2> HIDE DEF S
  <2> QED
    BY <2>1
<1> DEFINE start == {<<>>}
<1>3. start \in S
  OBVIOUS
<1>4. PICK f \in [0..d -> S] : Repeats(f, start, step, d)
  <2> HIDE DEF step, S, d, start
  <2> QED
    BY <1>1, <1>2, <1>3, Recursion, Zenon
<1>5. \A n \in 0..d :
         f[n] = IF n = 0 THEN start ELSE Appended(f[n - 1], applySegment(frontier[n], seg))
  <2> TAKE n \in 0..d
  <2>1. CASE n = 0
    BY <1>4, <2>1 DEF Repeats
  <2>2. CASE n # 0
    <3>1. n \in 1..d /\ n - 1 \in 0..d
      BY <1>1, <2>2
    <3> HIDE DEF S
    <3>2. <<n, f[n - 1]>> \in (1..d) \X S
      BY <3>1
    <3> QED
      BY <1>4, <2>2, <3>1, <3>2 DEF Repeats
  <2> QED
    BY <2>1, <2>2
<1>6. f = [n \in 0..d |-> f[n]]
  OBVIOUS
<1>7. IsMade(f, frontier, seg)
  <2> HIDE DEF step
  <2> QED
    BY <1>5, <1>6 DEF IsMade
<1> QED
  BY <1>7

LEMMA MadeTyped ==
    ASSUME NEW V, DecodedValues(V), NEW frontier \in Seq(V), NEW seg,
           NEW made, IsMade(made, frontier, seg)
    PROVE  /\ made \in [0..Len(frontier) -> SUBSET Seq(V)]
           /\ made[0] = {<<>>}
           /\ \A n \in 1..Len(frontier) :
                 made[n] = Appended(made[n - 1], applySegment(frontier[n], seg))
<1> DEFINE d == Len(frontier)
           Good == {n \in 0..d : made[n] \in SUBSET Seq(V)}
<1>1. d \in Nat /\ \A n \in 1..d : frontier[n] \in V
  OBVIOUS
<1>2. made[0] = {<<>>}
  BY <1>1 DEF IsMade
<1>3. \A n \in 1..d : made[n] = Appended(made[n - 1], applySegment(frontier[n], seg))
  <2> TAKE n \in 1..d
  <2>1. n \in 0..d /\ n # 0
    BY <1>1
  <2> QED
    BY <2>1 DEF IsMade
<1>4. 0 \in Good
  <2>1. {<<>>} \in SUBSET Seq(V) /\ 0 \in 0..d
    BY <1>1
  <2> QED
    BY <1>2, <2>1
<1>5. ASSUME NEW n \in 1..d, n - 1 \in Good PROVE n \in Good
  <2>1. applySegment(frontier[n], seg) \in SUBSET Seq(V)
    BY <1>1, ApplyTyped
  <2>2. made[n] \in SUBSET Seq(V)
    BY <1>3, <1>5, <2>1, AppendedTyped
  <2> QED
    BY <2>2
<1>6. \A n \in 0..d : n \in Good
  <2> HIDE DEF Good, d
  <2> QED
    BY <1>1, <1>4, <1>5, UpTo
<1>7. made \in [0..d -> SUBSET Seq(V)]
  BY <1>6 DEF IsMade
<1> QED
  BY <1>2, <1>3, <1>7

LEMMA NextFrontiersSteps ==
    ASSUME NEW V, DecodedValues(V), NEW frontier \in Seq(V), NEW seg
    PROVE  \E made : /\ IsMade(made, frontier, seg)
                     /\ NextFrontiers(frontier, seg) = made[Len(frontier)]
<1> DEFINE made == CHOOSE g : IsMade(g, frontier, seg)
<1>1. IsMade(made, frontier, seg)
  BY MadeExists
<1>2. NextFrontiers(frontier, seg) = made[Len(frontier)]
  BY DEF NextFrontiers, IsMade, Appended
<1> HIDE DEF made
<1> QED
  BY <1>1, <1>2

\* What a segment selects below the first m of some nodes.
SelectedBelow(seg, ns, m) == UNION {Selected(seg, ns[i]) : i \in 1..m}

\* Nodes of one depth with addresses of their own.
DistinctNodes(V, ns, n) ==
    /\ ns \in Seq(NodesOf(V))
    /\ \A i \in DOMAIN ns : Len(ns[i][1]) = n
    /\ \A i, j \in DOMAIN ns : ns[i][1] = ns[j][1] => i = j

LEMMA SelectedBelowNone ==
    ASSUME NEW seg, NEW ns
    PROVE  SelectedBelow(seg, ns, 0) = {}
<1>1. 1..0 = {}
  OBVIOUS
<1> QED
  BY <1>1 DEF SelectedBelow

\* No child has two of the nodes for a parent.
LEMMA ChildrenApart ==
    ASSUME NEW V, DecodedValues(V), NEW n \in Nat, NEW ns, DistinctNodes(V, ns, n),
           NEW seg, NEW m \in DOMAIN ns
    PROVE  Apart(SelectedBelow(seg, ns, m - 1), Selected(seg, ns[m]))
<1>1. DOMAIN ns = 1..Len(ns) /\ Len(ns) \in Nat /\ \A i \in DOMAIN ns : ns[i] \in NodesOf(V)
  BY DEF DistinctNodes
<1>2. SUFFICES ASSUME NEW i \in 1..(m - 1), NEW child \in Selected(seg, ns[i]),
                      child \in Selected(seg, ns[m])
               PROVE  FALSE
  BY DEF SelectedBelow, Apart
<1>3. i \in DOMAIN ns /\ i # m
  BY <1>1
<1>4. ns[i][1] = SubSeq(child[1], 1, n) /\ ns[m][1] = SubSeq(child[1], 1, n)
  BY <1>1, <1>2, <1>3, ChildExtends DEF Selected, DistinctNodes
<1> QED
  BY <1>3, <1>4 DEF DistinctNodes

\* The order of the parents is that of the children.
LEMMA ChildrenInOrder ==
    ASSUME NEW V, DecodedValues(V), NEW a \in NodesOf(V), NEW b \in NodesOf(V),
           Len(a[1]) = Len(b[1]), InListOrder(a, b),
           NEW x \in ChildrenOf(a), NEW y \in ChildrenOf(b)
    PROVE  InListOrder(x, y)
<1>1. a[1] \in Seq(StepsOf(V)) /\ DOMAIN a[1] = 1..Len(a[1]) /\ Len(a[1]) \in Nat
  BY DEF NodesOf
<1>2. PICK n \in DOMAIN a[1] : /\ a[1][n].index < b[1][n].index
                               /\ \A k \in 1..(n - 1) : a[1][k] = b[1][k]
  BY DEF InListOrder
<1>3. \A k \in 1..Len(a[1]) : x[1][k] = a[1][k] /\ y[1][k] = b[1][k]
  BY ChildExtends
<1>4. \A k \in 1..(n - 1) : k \in 1..Len(a[1])
  BY <1>1
<1>5. n \in DOMAIN x[1]
  BY <1>1, ChildExtends
<1> QED
  BY <1>1, <1>2, <1>3, <1>4, <1>5 DEF InListOrder

\* The next frontier has the selected children, each once ...
LEMMA NextFrontierInSomeOrder ==
    ASSUME NEW V, DecodedValues(V), NEW n \in Nat, NEW ns, DistinctNodes(V, ns, n), NEW seg
    PROVE  \A frontier \in NextFrontiers(ValuesOf(ns), seg) :
              \E cs : /\ Enumerates(cs, SelectedBelow(seg, ns, Len(ns)))
                      /\ ValuesOf(cs) = frontier
<1> DEFINE d == Len(ns)
<1>1. /\ DOMAIN ns = 1..d /\ d \in Nat /\ \A i \in DOMAIN ns : ns[i] \in NodesOf(V)
      /\ ns \in Seq(NodesOf(V))
  BY DEF DistinctNodes
<1>2. /\ ValuesOf(ns) \in Seq(V) /\ Len(ValuesOf(ns)) = d
      /\ \A i \in DOMAIN ns : ValuesOf(ns)[i] = ns[i][2]
  BY <1>1, ValuesTyped DEF ValuesOf
<1>3. PICK made : /\ made[0] = {<<>>}
                  /\ \A m \in 1..d : made[m] = Appended(made[m - 1], applySegment(ns[m][2], seg))
                  /\ NextFrontiers(ValuesOf(ns), seg) = made[d]
  <2> DEFINE frontier == ValuesOf(ns)
  <2>1. frontier \in Seq(V) /\ Len(frontier) = d /\ \A m \in 1..d : frontier[m] = ns[m][2]
    BY <1>1, <1>2
  <2> HIDE DEF frontier, d
  <2>2. PICK made : IsMade(made, frontier, seg) /\ NextFrontiers(frontier, seg) = made[d]
    BY <2>1, NextFrontiersSteps
  <2>3. /\ made[0] = {<<>>}
        /\ \A m \in 1..d : made[m] = Appended(made[m - 1], applySegment(frontier[m], seg))
    <3>1. /\ made[0] = {<<>>}
          /\ \A m \in 1..Len(frontier) :
                made[m] = Appended(made[m - 1], applySegment(frontier[m], seg))
      BY <2>1, <2>2, MadeTyped
    <3> QED
      BY <2>1, <3>1
  <2>4. \A m \in 1..d : made[m] = Appended(made[m - 1], applySegment(ns[m][2], seg))
    BY <2>1, <2>3
  <2> QED
    BY <2>2, <2>3, <2>4 DEF frontier
<1> DEFINE Made(m) == \A frontier \in made[m] :
                         \E cs : /\ Enumerates(cs, SelectedBelow(seg, ns, m))
                                 /\ ValuesOf(cs) = frontier
           Good == {m \in 0..d : Made(m)}
<1>4. 0 \in Good
  <2>1. Made(0)
    BY <1>3, EmptyEnumerates, SelectedBelowNone
  <2> QED
    BY <1>1, <2>1
<1>5. ASSUME NEW m \in 1..d, m - 1 \in Good PROVE m \in Good
  <2>1. Made(m - 1)
    BY <1>5
  <2>2. ASSUME NEW frontier \in made[m]
        PROVE  \E cs : Enumerates(cs, SelectedBelow(seg, ns, m)) /\ ValuesOf(cs) = frontier
    <3>1. PICK done \in made[m - 1], new \in applySegment(ns[m][2], seg) : frontier = done \o new
      <4>1. frontier \in Appended(made[m - 1], applySegment(ns[m][2], seg))
        BY <1>3, <2>2
      <4> QED
        BY <4>1, SMTT(30) DEF Appended
    <3>2. PICK cs : Enumerates(cs, SelectedBelow(seg, ns, m - 1)) /\ ValuesOf(cs) = done
      BY <2>1
    <3>3. m \in DOMAIN ns /\ ns[m] \in NodesOf(V)
      BY <1>1
    <3>4. PICK ds : Enumerates(ds, Selected(seg, ns[m])) /\ ValuesOf(ds) = new
      <4>1. CASE OverMap(seg, ns[m])
        BY <3>3, <4>1, SelectedInSomeOrder
      <4>2. CASE ~OverMap(seg, ns[m])
        BY <3>3, <4>2, SelectedInOrder
      <4> QED
        BY <4>1, <4>2
    <3>5. /\ Enumerates(cs \o ds, SelectedBelow(seg, ns, m - 1) \cup Selected(seg, ns[m]))
          /\ ValuesOf(cs \o ds) = done \o new
      <4>1. Apart(SelectedBelow(seg, ns, m - 1), Selected(seg, ns[m]))
        BY <3>3, ChildrenApart
      <4> QED
        <5> DEFINE Above1 == SelectedBelow(seg, ns, m - 1)
                   Here == Selected(seg, ns[m])
        <5>1. /\ Apart(Above1, Here)
              /\ Enumerates(cs, Above1) /\ Enumerates(ds, Here)
          BY <3>2, <3>4, <4>1
        <5> HIDE DEF Above1, Here
        <5>2. Joined(cs, ds, Above1, Here)
          BY <5>1, EnumeratesConcat
        <5> QED
          BY <3>2, <3>4, <5>2 DEF Above1, Here, Joined
    <3>6. SelectedBelow(seg, ns, m) = SelectedBelow(seg, ns, m - 1) \cup Selected(seg, ns[m])
      <4>1. 1..m = (1..(m - 1)) \cup {m}
        BY <1>1
      <4> QED
        BY <4>1 DEF SelectedBelow
    <3> QED
      BY <3>1, <3>5, <3>6
  <2>3. m \in 0..d
    BY <1>1
  <2> QED
    BY <2>2, <2>3
<1>6. d \in Good
  <2>1. d \in Nat /\ d \in 0..d
    BY <1>1
  <2> HIDE DEF Good, d
  <2>2. \A m \in 0..d : m \in Good
    BY <1>4, <1>5, <2>1, UpTo
  <2> QED
    BY <2>1, <2>2
<1> QED
  BY <1>3, <1>6

\* ... and in order, without a wildcard over an object.
LEMMA NextFrontierInOrder ==
    ASSUME NEW V, DecodedValues(V), NEW n \in Nat, NEW ns, DistinctNodes(V, ns, n), NEW seg,
           Ordered(ns), \A i \in DOMAIN ns : ~OverMap(seg, ns[i])
    PROVE  \E cs : /\ Enumerates(cs, SelectedBelow(seg, ns, Len(ns)))
                   /\ Ordered(cs)
                   /\ NextFrontiers(ValuesOf(ns), seg) = {ValuesOf(cs)}
<1> DEFINE d == Len(ns)
<1>1. /\ DOMAIN ns = 1..d /\ d \in Nat /\ \A i \in DOMAIN ns : ns[i] \in NodesOf(V)
      /\ ns \in Seq(NodesOf(V))
  BY DEF DistinctNodes
<1>2. /\ ValuesOf(ns) \in Seq(V) /\ Len(ValuesOf(ns)) = d
      /\ \A i \in DOMAIN ns : ValuesOf(ns)[i] = ns[i][2]
  BY <1>1, ValuesTyped DEF ValuesOf
<1>3. PICK made : /\ made[0] = {<<>>}
                  /\ \A m \in 1..d : made[m] = Appended(made[m - 1], applySegment(ns[m][2], seg))
                  /\ NextFrontiers(ValuesOf(ns), seg) = made[d]
  <2> DEFINE frontier == ValuesOf(ns)
  <2>1. frontier \in Seq(V) /\ Len(frontier) = d /\ \A m \in 1..d : frontier[m] = ns[m][2]
    BY <1>1, <1>2
  <2> HIDE DEF frontier, d
  <2>2. PICK made : IsMade(made, frontier, seg) /\ NextFrontiers(frontier, seg) = made[d]
    BY <2>1, NextFrontiersSteps
  <2>3. /\ made[0] = {<<>>}
        /\ \A m \in 1..d : made[m] = Appended(made[m - 1], applySegment(frontier[m], seg))
    <3>1. /\ made[0] = {<<>>}
          /\ \A m \in 1..Len(frontier) :
                made[m] = Appended(made[m - 1], applySegment(frontier[m], seg))
      BY <2>1, <2>2, MadeTyped
    <3> QED
      BY <2>1, <3>1
  <2>4. \A m \in 1..d : made[m] = Appended(made[m - 1], applySegment(ns[m][2], seg))
    BY <2>1, <2>3
  <2> QED
    BY <2>2, <2>3, <2>4 DEF frontier
<1> DEFINE Made(m) == \E cs : /\ Enumerates(cs, SelectedBelow(seg, ns, m))
                              /\ Ordered(cs)
                              /\ made[m] = {ValuesOf(cs)}
           Good == {m \in 0..d : Made(m)}
<1>4. 0 \in Good
  <2>1. Made(0)
    BY <1>3, EmptyEnumerates, SelectedBelowNone
  <2> QED
    BY <1>1, <2>1
<1>5. ASSUME NEW m \in 1..d, m - 1 \in Good PROVE m \in Good
  <2>1. PICK cs : /\ Enumerates(cs, SelectedBelow(seg, ns, m - 1))
                  /\ Ordered(cs)
                  /\ made[m - 1] = {ValuesOf(cs)}
    BY <1>5
  <2>2. m \in DOMAIN ns /\ ns[m] \in NodesOf(V) /\ m \in 0..d
    BY <1>1
  <2>3. PICK ds : /\ Enumerates(ds, Selected(seg, ns[m]))
                  /\ Ordered(ds)
                  /\ applySegment(ns[m][2], seg) = {ValuesOf(ds)}
    BY <2>2, SelectedInOrder
  <2>4. /\ Enumerates(cs \o ds, SelectedBelow(seg, ns, m - 1) \cup Selected(seg, ns[m]))
        /\ ValuesOf(cs \o ds) = ValuesOf(cs) \o ValuesOf(ds)
    <3>1. Apart(SelectedBelow(seg, ns, m - 1), Selected(seg, ns[m]))
      BY <2>2, ChildrenApart
    <3> QED
      <4> DEFINE Above1 == SelectedBelow(seg, ns, m - 1)
                 Here == Selected(seg, ns[m])
      <4>1. /\ Apart(Above1, Here)
            /\ Enumerates(cs, Above1) /\ Enumerates(ds, Here)
        BY <2>1, <2>3, <3>1
      <4> HIDE DEF Above1, Here
      <4>2. Joined(cs, ds, Above1, Here)
        BY <4>1, EnumeratesConcat
      <4> QED
        BY <4>2 DEF Above1, Here, Joined
  <2>5. Ordered(cs \o ds)
    <3>1. \A x \in SelectedBelow(seg, ns, m - 1), y \in Selected(seg, ns[m]) : InListOrder(x, y)
      <4> SUFFICES ASSUME NEW i \in 1..(m - 1), NEW x \in Selected(seg, ns[i]),
                          NEW y \in Selected(seg, ns[m])
                   PROVE  InListOrder(x, y)
        BY DEF SelectedBelow
      <4>1. i \in DOMAIN ns /\ i < m
        BY <1>1
      <4>2. InListOrder(ns[i], ns[m]) /\ Len(ns[i][1]) = Len(ns[m][1])
        BY <2>2, <4>1 DEF Ordered, DistinctNodes
      <4> QED
        BY <1>1, <2>2, <4>1, <4>2, ChildrenInOrder DEF Selected
    <3> QED
      BY <2>1, <2>3, <3>1, OrderedConcat DEF Enumerates
  <2>6. made[m] = {ValuesOf(cs \o ds)}
    <3>1. made[m] = Appended({ValuesOf(cs)}, {ValuesOf(ds)})
      BY <1>3, <1>5, <2>1, <2>3
    <3>2. Appended({ValuesOf(cs)}, {ValuesOf(ds)}) = {ValuesOf(cs) \o ValuesOf(ds)}
      BY DEF Appended
    <3> QED
      BY <2>4, <3>1, <3>2
  <2>7. Made(m)
    <3>1. SelectedBelow(seg, ns, m) = SelectedBelow(seg, ns, m - 1) \cup Selected(seg, ns[m])
      <4>1. 1..m = (1..(m - 1)) \cup {m}
        BY <1>1
      <4> QED
        BY <4>1 DEF SelectedBelow
    <3> QED
      BY <2>4, <2>5, <2>6, <3>1
  <2> QED
    BY <2>2, <2>7
<1>6. d \in Good
  <2>1. d \in Nat /\ d \in 0..d
    BY <1>1
  <2> HIDE DEF Good, d
  <2>2. \A m \in 0..d : m \in Good
    BY <1>4, <1>5, <2>1, UpTo
  <2> QED
    BY <2>1, <2>2
<1> QED
  BY <1>3, <1>6

-----------------------------------------------------------------------------
(* The nodes by depth *)

Below(nodes) == UNION {ChildrenOf(node) : node \in nodes}

\* The function that NodesAt defines.
IsAt(at, input, d) ==
    at = [n \in 0..d |-> IF n = 0 THEN {<<<<>>, input>>} ELSE Below(at[n - 1])]

LEMMA BelowTyped ==
    ASSUME NEW V, DecodedValues(V), NEW nodes \in SUBSET NodesOf(V)
    PROVE  Below(nodes) \in SUBSET NodesOf(V)
<1> SUFFICES ASSUME NEW node \in nodes, NEW child \in ChildrenOf(node)
             PROVE  child \in NodesOf(V)
  BY DEF Below
<1> QED
  BY ChildExtends

LEMMA RootTyped ==
    ASSUME NEW V, NEW input \in V
    PROVE  {<<<<>>, input>>} \in SUBSET NodesOf(V)
<1> DEFINE root == <<>>
<1>1. root \in Seq(StepsOf(V))
  OBVIOUS
<1> HIDE DEF root
<1>2. <<root, input>> \in NodesOf(V)
  BY <1>1 DEF NodesOf
<1> QED
  BY <1>2 DEF root

LEMMA AtExists ==
    ASSUME NEW V, DecodedValues(V), NEW input \in V, NEW d \in Nat
    PROVE  \E at : IsAt(at, input, d)
<1> DEFINE S == SUBSET NodesOf(V)
           step == [x \in (1..d) \X S |-> Below(x[2])]
           start == {<<<<>>, input>>}
<1>1. step \in [(1..d) \X S -> S]
  <2>1. ASSUME NEW x \in (1..d) \X S PROVE Below(x[2]) \in S
    BY BelowTyped
  <2> HIDE DEF S
  <2> QED
    BY <2>1
<1>2. start \in S
  BY RootTyped
<1>3. PICK f \in [0..d -> S] : Repeats(f, start, step, d)
  <2> HIDE DEF step, S, start
  <2> QED
    BY <1>1, <1>2, Recursion, Zenon
<1>4. \A n \in 0..d : f[n] = IF n = 0 THEN start ELSE Below(f[n - 1])
  <2> TAKE n \in 0..d
  <2>1. CASE n = 0
    BY <1>3, <2>1 DEF Repeats
  <2>2. CASE n # 0
    <3>1. n \in 1..d /\ n - 1 \in 0..d
      BY <2>2
    <3> HIDE DEF S
    <3>2. <<n, f[n - 1]>> \in (1..d) \X S
      BY <3>1
    <3> QED
      BY <1>3, <2>2, <3>1, <3>2 DEF Repeats
  <2> QED
    BY <2>1, <2>2
<1>5. f = [n \in 0..d |-> f[n]]
  OBVIOUS
<1>6. IsAt(f, input, d)
  <2> HIDE DEF step
  <2> QED
    BY <1>4, <1>5 DEF IsAt
<1> QED
  BY <1>6

\* Two of these functions agree where both are defined.
LEMMA AtAgree ==
    ASSUME NEW input, NEW d \in Nat, NEW e \in Nat, d <= e,
           NEW f, IsAt(f, input, d), NEW g, IsAt(g, input, e)
    PROVE  f[d] = g[d]
<1> DEFINE Good == {n \in 0..d : f[n] = g[n]}
<1>1. 0 \in Good
  BY DEF IsAt
<1>2. ASSUME NEW n \in 1..d, n - 1 \in Good PROVE n \in Good
  <2>1. n \in 0..d /\ n \in 0..e /\ n # 0 /\ f[n - 1] = g[n - 1]
    BY <1>2
  <2> QED
    BY <2>1 DEF IsAt
<1>3. \A n \in 0..d : n \in Good
  <2> HIDE DEF Good
  <2> QED
    BY <1>1, <1>2, UpTo
<1> QED
  BY <1>3

LEMMA NodesAtIs ==
    ASSUME NEW V, DecodedValues(V), NEW input \in V, NEW d \in Nat
    PROVE  \E at : IsAt(at, input, d) /\ NodesAt(input, d) = at[d]
<1> DEFINE at == CHOOSE f : IsAt(f, input, d)
<1>1. IsAt(at, input, d)
  BY AtExists
<1>2. NodesAt(input, d) = at[d]
  BY DEF NodesAt, IsAt, Below
<1> HIDE DEF at
<1> QED
  BY <1>1, <1>2

\* Each depth has the children of the one before.
LEMMA RootDepth ==
    ASSUME NEW V, DecodedValues(V), NEW input \in V
    PROVE  NodesAt(input, 0) = {<<<<>>, input>>}
<1>1. PICK at : IsAt(at, input, 0) /\ NodesAt(input, 0) = at[0]
  BY NodesAtIs
<1> QED
  BY <1>1 DEF IsAt

LEMMA NextDepth ==
    ASSUME NEW V, DecodedValues(V), NEW input \in V, NEW n \in Nat \ {0}
    PROVE  NodesAt(input, n) = Below(NodesAt(input, n - 1))
<1>1. n \in Nat /\ n - 1 \in Nat /\ n - 1 <= n /\ n \in 0..n /\ n # 0
  OBVIOUS
<1> DEFINE m == n - 1
<1>2. m \in Nat /\ m <= n
  BY <1>1
<1> HIDE DEF m
<1>3. PICK f : IsAt(f, input, m) /\ NodesAt(input, m) = f[m]
  BY <1>2, NodesAtIs
<1>4. PICK g : IsAt(g, input, n) /\ NodesAt(input, n) = g[n]
  BY <1>1, NodesAtIs
<1>5. f[m] = g[m]
  BY <1>1, <1>2, <1>3, <1>4, AtAgree
<1>6. g[n] = Below(g[n - 1])
  BY <1>1, <1>4 DEF IsAt
<1> QED
  BY <1>3, <1>4, <1>5, <1>6 DEF m

\* A node's address has its depth for a length, and no other node has it.
DepthOf(V, nodes, n) ==
    /\ nodes \in SUBSET NodesOf(V)
    /\ \A a \in nodes : Len(a[1]) = n
    /\ \A a, b \in nodes : a[1] = b[1] => a = b

\* A list has one child at a place, an object one under a key.
LEMMA ChildrenDiffer ==
    ASSUME NEW V, DecodedValues(V), NEW node \in NodesOf(V),
           NEW x \in ChildrenOf(node), NEW y \in ChildrenOf(node), x[1] = y[1]
    PROVE  x = y
<1>1. CASE node[2].type = "list"
  <2>1. PICK i \in DOMAIN node[2].elems : x = ListChild(node, i)
    BY <1>1, ListChildren
  <2>2. PICK j \in DOMAIN node[2].elems : y = ListChild(node, j)
    BY <1>1, ListChildren
  <2>3. [index |-> i - 1, name |-> <<>>] = [index |-> j - 1, name |-> <<>>]
    BY <1>1, <2>1, <2>2, ListChildren
  <2>4. i \in Int /\ j \in Int
    BY <1>1, ValueTypes DEF NodesOf
  <2>5. i - 1 = j - 1
    BY <2>3
  <2> QED
    BY <2>1, <2>2, <2>4, <2>5
<1>2. CASE node[2].type = "map"
  <2>1. PICK k \in DOMAIN node[2].entries : x = MapChild(node, k)
    BY <1>2, MapChildren
  <2>2. PICK l \in DOMAIN node[2].entries : y = MapChild(node, l)
    BY <1>2, MapChildren
  <2>3. [index |-> -1, name |-> k] = [index |-> -1, name |-> l]
    BY <1>2, <2>1, <2>2, MapChildren
  <2>4. k = l
    BY <2>3
  <2> QED
    BY <2>1, <2>2, <2>4
<1> QED
  BY <1>1, <1>2, NoChildren

LEMMA BelowDepth ==
    ASSUME NEW V, DecodedValues(V), NEW n \in Nat, NEW nodes, DepthOf(V, nodes, n)
    PROVE  DepthOf(V, Below(nodes), n + 1)
<1>1. nodes \in SUBSET NodesOf(V) /\ Below(nodes) \in SUBSET NodesOf(V)
  BY BelowTyped DEF DepthOf
<1>2. ASSUME NEW a \in nodes, NEW x \in ChildrenOf(a)
      PROVE  Len(x[1]) = n + 1 /\ a[1] = SubSeq(x[1], 1, n)
  <2>1. a \in NodesOf(V) /\ Len(a[1]) = n
    BY DEF DepthOf
  <2> QED
    BY <2>1, ChildExtends
<1>3. ASSUME NEW a \in nodes, NEW x \in ChildrenOf(a), NEW b \in nodes, NEW y \in ChildrenOf(b),
             x[1] = y[1]
      PROVE  x = y
  <2>1. a[1] = b[1]
    BY <1>2, <1>3
  <2>2. a = b /\ a \in NodesOf(V)
    BY <2>1 DEF DepthOf
  <2> QED
    BY <1>3, <2>2, ChildrenDiffer
<1>4. \A x \in Below(nodes) : \E a \in nodes : x \in ChildrenOf(a)
  BY DEF Below
<1>5. \A x \in Below(nodes) : Len(x[1]) = n + 1
  BY <1>2, <1>4
<1>6. \A x, y \in Below(nodes) : x[1] = y[1] => x = y
  BY <1>3, <1>4
<1> QED
  BY <1>1, <1>5, <1>6 DEF DepthOf

LEMMA NodesHaveDepth ==
    ASSUME NEW V, DecodedValues(V), NEW input \in V, NEW d \in Nat
    PROVE  DepthOf(V, NodesAt(input, d), d)
<1> DEFINE Good == {n \in 0..d : DepthOf(V, NodesAt(input, n), n)}
<1>1. 0 \in Good
  <2>1. NodesAt(input, 0) = {<<<<>>, input>>} /\ NodesAt(input, 0) \in SUBSET NodesOf(V)
    BY RootDepth, RootTyped
  <2>2. DepthOf(V, NodesAt(input, 0), 0)
    BY <2>1 DEF DepthOf
  <2> QED
    BY <2>2
<1>2. ASSUME NEW n \in 1..d, n - 1 \in Good PROVE n \in Good
  <2> DEFINE m == n - 1
  <2>1. m \in Nat /\ n \in Nat \ {0} /\ n = m + 1 /\ n \in 0..d /\ m = n - 1
    OBVIOUS
  <2>2. DepthOf(V, NodesAt(input, m), m)
    BY <1>2
  <2>3. NodesAt(input, n) = Below(NodesAt(input, m))
    BY <2>1, NextDepth
  <2> HIDE DEF m
  <2>4. DepthOf(V, NodesAt(input, n), n)
    <3> DEFINE nodes == NodesAt(input, m)
    <3>1. DepthOf(V, nodes, m)
      BY <2>2
    <3> HIDE DEF nodes
    <3>2. DepthOf(V, Below(nodes), m + 1)
      BY <2>1, <3>1, BelowDepth
    <3> QED
      BY <2>1, <2>3, <3>2 DEF nodes
  <2> QED
    BY <2>1, <2>4
<1>3. \A n \in 0..d : n \in Good
  <2> HIDE DEF Good
  <2> QED
    BY <1>1, <1>2, UpTo
<1> QED
  BY <1>3

-----------------------------------------------------------------------------
(* evaluate, segment by segment *)

\* The nodes that the first n segments name.
Named(segments, input, n) ==
    {node \in NodesAt(input, n) :
        /\ \A k \in 1..n : MatchesStep(segments[k], node[1][k])
        /\ n > 0 /\ segments[n].kind = "field" => node[2] # Nil}

LEMMA NamedStep ==
    ASSUME NEW V, DecodedValues(V), NEW input \in V, NEW segments, NEW n \in Nat \ {0}
    PROVE  Named(segments, input, n) =
              UNION {Selected(segments[n], node) : node \in Named(segments, input, n - 1)}
<1> DEFINE m == n - 1
           Parents == Named(segments, input, m)
<1>1. m \in Nat /\ n = m + 1 /\ n > 0
  OBVIOUS
<1>2. NodesAt(input, n) = Below(NodesAt(input, m)) /\ DepthOf(V, NodesAt(input, m), m)
  BY <1>1, NextDepth, NodesHaveDepth
<1>3. ASSUME NEW node \in NodesAt(input, m), NEW child \in ChildrenOf(node)
      PROVE  /\ node \in NodesOf(V) /\ Len(node[1]) = m
             /\ \A k \in 1..m : child[1][k] = node[1][k]
             /\ child \in NodesAt(input, n)
             /\ node[2] # Nil
  <2>1. node \in NodesOf(V) /\ Len(node[1]) = m
    BY <1>2 DEF DepthOf
  <2>2. \A k \in 1..m : child[1][k] = node[1][k]
    BY <2>1, ChildExtends
  <2>3. child \in NodesAt(input, n)
    BY <1>2 DEF Below
  <2>4. node[2] # Nil
    BY NoChildren DEF Nil
  <2> QED
    BY <2>1, <2>2, <2>3, <2>4
<1>4. ASSUME NEW child \in Named(segments, input, n)
      PROVE  \E node \in Parents : child \in Selected(segments[n], node)
  <2>1. child \in NodesAt(input, n)
    BY DEF Named
  <2>2. PICK node \in NodesAt(input, m) : child \in ChildrenOf(node)
    BY <1>2, <2>1 DEF Below
  <2>3. \A k \in 1..n : MatchesStep(segments[k], child[1][k])
    BY DEF Named
  <2>4. node \in Parents
    <3>1. \A k \in 1..m : k \in 1..n
      BY <1>1
    <3>2. \A k \in 1..m : MatchesStep(segments[k], node[1][k])
      BY <1>3, <2>2, <2>3, <3>1
    <3> QED
      BY <1>3, <2>2, <3>2 DEF Named
  <2>5. child \in Selected(segments[n], node)
    <3>1. Len(node[1]) + 1 = n /\ n \in 1..n
      BY <1>1, <1>3, <2>2
    <3>2. segments[n].kind = "field" => child[2] # Nil
      BY <1>1 DEF Named
    <3> QED
      BY <2>2, <2>3, <3>1, <3>2 DEF Selected
  <2> QED
    BY <2>4, <2>5
<1>5. ASSUME NEW node \in Parents, NEW child \in Selected(segments[n], node)
      PROVE  child \in Named(segments, input, n)
  <2>1. node \in NodesAt(input, m) /\ \A k \in 1..m : MatchesStep(segments[k], node[1][k])
    BY DEF Named
  <2>2. /\ child \in ChildrenOf(node)
        /\ MatchesStep(segments[n], child[1][Len(node[1]) + 1])
        /\ segments[n].kind = "field" => child[2] # Nil
    BY DEF Selected
  <2>3. \A k \in 1..n : MatchesStep(segments[k], child[1][k])
    <3> TAKE k \in 1..n
    <3>1. CASE k \in 1..m
      BY <1>3, <2>1, <2>2, <3>1
    <3>2. CASE k = n
      BY <1>1, <1>3, <2>1, <2>2, <3>2
    <3> QED
      BY <1>1, <3>1, <3>2
  <2>4. child \in NodesAt(input, n)
    BY <1>3, <2>1, <2>2
  <2> QED
    BY <2>2, <2>3, <2>4 DEF Named
<1> HIDE DEF m, Parents
<1>6. \A child : child \in Named(segments, input, n) <=>
         \E node \in Parents : child \in Selected(segments[n], node)
  BY <1>4, <1>5
<1>7. Named(segments, input, n) = UNION {Selected(segments[n], node) : node \in Parents}
  BY <1>6
<1> QED
  BY <1>7 DEF m, Parents

LEMMA NamedRoot ==
    ASSUME NEW V, DecodedValues(V), NEW input \in V, NEW segments
    PROVE  Named(segments, input, 0) = {<<<<>>, input>>}
  BY RootDepth DEF Named

\* Together, the nodes of an enumeration select what their set does.
LEMMA SelectedByAll ==
    ASSUME NEW V, DecodedValues(V), NEW input \in V, NEW segments, NEW n \in Nat \ {0},
           NEW ns, Enumerates(ns, Named(segments, input, n - 1))
    PROVE  /\ SelectedBelow(segments[n], ns, Len(ns)) = Named(segments, input, n)
           /\ DistinctNodes(V, ns, n - 1)
<1> DEFINE m == n - 1
           Parents == Named(segments, input, m)
<1>1. m \in Nat /\ Enumerates(ns, Parents)
  OBVIOUS
<1>2. Parents \subseteq NodesAt(input, m) /\ DepthOf(V, NodesAt(input, m), m)
  BY <1>1, NodesHaveDepth DEF Named
<1>3. Named(segments, input, n) = UNION {Selected(segments[n], node) : node \in Parents}
  BY NamedStep
<1> HIDE DEF m, Parents
<1>4. ns \in Seq(Parents) /\ DOMAIN ns = 1..Len(ns)
  BY <1>1 DEF Enumerates
<1>5. \A i \in DOMAIN ns : ns[i] \in Parents
  BY <1>4
<1>6. \A node \in Parents : \E i \in 1..Len(ns) : ns[i] = node
  BY <1>1, <1>4 DEF Enumerates
<1>7. SelectedBelow(segments[n], ns, Len(ns)) = Named(segments, input, n)
  BY <1>3, <1>4, <1>5, <1>6 DEF SelectedBelow
<1>8. Parents \subseteq NodesOf(V)
  BY <1>2 DEF DepthOf
<1>9. ns \in Seq(NodesOf(V))
  BY <1>4, <1>8
<1>10. DistinctNodes(V, ns, m)
  <2>1. \A i \in DOMAIN ns : Len(ns[i][1]) = m
    BY <1>2, <1>5 DEF DepthOf
  <2>2. ASSUME NEW i \in DOMAIN ns, NEW j \in DOMAIN ns, ns[i][1] = ns[j][1]
        PROVE  i = j
    <3>1. ns[i] = ns[j]
      BY <1>2, <1>5, <2>2 DEF DepthOf
    <3> QED
      BY <1>1, <3>1 DEF Enumerates
  <2> QED
    BY <1>9, <2>1, <2>2 DEF DistinctNodes
<1> QED
  BY <1>7, <1>10 DEF m

\* What one segment makes of the results so far.
Evaluated(results, seg) == UNION {NextFrontiers(frontier, seg) : frontier \in results}

\* The function that evaluate defines.
IsAfter(after, segments, input) ==
    after = [n \in 0..Len(segments) |->
                IF n = 0 THEN {<<input>>} ELSE Evaluated(after[n - 1], segments[n])]

LEMMA NextFrontiersTyped ==
    ASSUME NEW V, DecodedValues(V), NEW frontier \in Seq(V), NEW seg
    PROVE  NextFrontiers(frontier, seg) \subseteq Seq(V)
<1>1. PICK made : IsMade(made, frontier, seg) /\ NextFrontiers(frontier, seg) = made[Len(frontier)]
  BY NextFrontiersSteps
<1>2. made \in [0..Len(frontier) -> SUBSET Seq(V)]
  BY <1>1, MadeTyped
<1>3. Len(frontier) \in 0..Len(frontier)
  OBVIOUS
<1> QED
  BY <1>1, <1>2, <1>3

LEMMA EvaluatedTyped ==
    ASSUME NEW V, DecodedValues(V), NEW results \in SUBSET Seq(V), NEW seg
    PROVE  Evaluated(results, seg) \in SUBSET Seq(V)
<1>1. \A frontier \in results : NextFrontiers(frontier, seg) \subseteq Seq(V)
  BY NextFrontiersTyped
<1> QED
  BY <1>1 DEF Evaluated

LEMMA AfterExists ==
    ASSUME NEW V, DecodedValues(V), NEW input \in V, NEW A, NEW segments \in Seq(A)
    PROVE  \E after : IsAfter(after, segments, input)
<1> DEFINE d == Len(segments)
           S == SUBSET Seq(V)
           step == [x \in (1..d) \X S |-> Evaluated(x[2], segments[x[1]])]
           start == {<<input>>}
<1>1. d \in Nat
  OBVIOUS
<1>2. step \in [(1..d) \X S -> S]
  <2>1. ASSUME NEW x \in (1..d) \X S PROVE Evaluated(x[2], segments[x[1]]) \in S
    BY EvaluatedTyped
  <2> HIDE DEF S
  <2> QED
    BY <2>1
<1>3. start \in S
  OBVIOUS
<1>4. PICK f \in [0..d -> S] : Repeats(f, start, step, d)
  <2> HIDE DEF step, S, d, start
  <2> QED
    BY <1>1, <1>2, <1>3, Recursion, Zenon
<1>5. \A n \in 0..d : f[n] = IF n = 0 THEN start ELSE Evaluated(f[n - 1], segments[n])
  <2> TAKE n \in 0..d
  <2>1. CASE n = 0
    BY <1>4, <2>1 DEF Repeats
  <2>2. CASE n # 0
    <3>1. n \in 1..d /\ n - 1 \in 0..d
      BY <1>1, <2>2
    <3> HIDE DEF S
    <3>2. <<n, f[n - 1]>> \in (1..d) \X S
      BY <3>1
    <3> QED
      BY <1>4, <2>2, <3>1, <3>2 DEF Repeats
  <2> QED
    BY <2>1, <2>2
<1>6. f = [n \in 0..d |-> f[n]]
  OBVIOUS
<1>7. IsAfter(f, segments, input)
  <2> HIDE DEF step
  <2> QED
    BY <1>5, <1>6 DEF IsAfter
<1> QED
  BY <1>7

LEMMA EvaluateSteps ==
    ASSUME NEW V, DecodedValues(V), NEW input \in V, NEW A, NEW segments \in Seq(A)
    PROVE  \E after : /\ after[0] = {<<input>>}
                      /\ \A n \in 1..Len(segments) :
                            after[n] = Evaluated(after[n - 1], segments[n])
                      /\ evaluate(segments, input) = after[Len(segments)]
<1> DEFINE after == CHOOSE f : IsAfter(f, segments, input)
<1>1. IsAfter(after, segments, input)
  BY AfterExists
<1>2. evaluate(segments, input) = after[Len(segments)]
  BY DEF evaluate, IsAfter, Evaluated
<1> HIDE DEF after
<1>3. Len(segments) \in Nat
  OBVIOUS
<1>4. after[0] = {<<input>>}
  BY <1>1, <1>3 DEF IsAfter
<1>5. \A n \in 1..Len(segments) : after[n] = Evaluated(after[n - 1], segments[n])
  <2> TAKE n \in 1..Len(segments)
  <2>1. n \in 0..Len(segments) /\ n # 0
    BY <1>3
  <2> QED
    BY <1>1, <2>1 DEF IsAfter
<1> QED
  BY <1>2, <1>4, <1>5

\* Whatever order the maps take, the results are the values of the named nodes ...
LEMMA EvaluatesInSomeOrder ==
    ASSUME NEW V, DecodedValues(V), NEW input \in V, NEW A, NEW segments \in Seq(A)
    PROVE  \A results \in evaluate(segments, input) :
              \E ns : /\ Enumerates(ns, Named(segments, input, Len(segments)))
                      /\ ValuesOf(ns) = results
<1> DEFINE d == Len(segments)
<1>1. d \in Nat
  OBVIOUS
<1>2. PICK after : /\ after[0] = {<<input>>}
                   /\ \A n \in 1..d : after[n] = Evaluated(after[n - 1], segments[n])
                   /\ evaluate(segments, input) = after[d]
  BY EvaluateSteps
<1> DEFINE After(n) == \A results \in after[n] :
                          \E ns : /\ Enumerates(ns, Named(segments, input, n))
                                  /\ ValuesOf(ns) = results
           Good == {n \in 0..d : After(n)}
<1>3. 0 \in Good
  <2>1. Named(segments, input, 0) = {<<<<>>, input>>}
    BY NamedRoot
  <2>2. Enumerates(<<<<<<>>, input>>>>, {<<<<>>, input>>}) /\ ValuesOf(<<<<<<>>, input>>>>) = <<input>>
    <3> DEFINE root == <<<<>>, input>>
    <3>1. root[2] = input
      OBVIOUS
    <3> HIDE DEF root
    <3>2. Enumerates(<<root>>, {root}) /\ ValuesOf(<<root>>) = <<root[2]>>
      BY OneEnumerates
    <3> QED
      BY <3>1, <3>2 DEF root
  <2>3. After(0)
    BY <1>2, <2>1, <2>2
  <2> QED
    BY <1>1, <2>3
<1>4. ASSUME NEW n \in 1..d, n - 1 \in Good PROVE n \in Good
  <2>1. After(n - 1) /\ n \in Nat \ {0} /\ n - 1 \in Nat
    BY <1>1, <1>4
  <2>2. ASSUME NEW results \in after[n]
        PROVE  \E ns : Enumerates(ns, Named(segments, input, n)) /\ ValuesOf(ns) = results
    <3>1. PICK frontier \in after[n - 1] : results \in NextFrontiers(frontier, segments[n])
      BY <1>2, <2>2 DEF Evaluated
    <3>2. PICK ns : Enumerates(ns, Named(segments, input, n - 1)) /\ ValuesOf(ns) = frontier
      BY <2>1
    <3>3. /\ SelectedBelow(segments[n], ns, Len(ns)) = Named(segments, input, n)
          /\ DistinctNodes(V, ns, n - 1)
      <4> HIDE DEF d, Good
      <4> QED
        BY <2>1, <3>2, SelectedByAll
    <3>4. PICK cs : /\ Enumerates(cs, SelectedBelow(segments[n], ns, Len(ns)))
                    /\ ValuesOf(cs) = results
      <4> DEFINE m == n - 1
                 seg == segments[n]
      <4>1. m \in Nat /\ DistinctNodes(V, ns, m) /\ results \in NextFrontiers(ValuesOf(ns), seg)
        BY <2>1, <3>1, <3>2, <3>3
      <4> HIDE DEF m, seg, d, Good
      <4>2. \A f \in NextFrontiers(ValuesOf(ns), seg) :
               \E cs : /\ Enumerates(cs, SelectedBelow(seg, ns, Len(ns)))
                       /\ ValuesOf(cs) = f
        BY <4>1, NextFrontierInSomeOrder
      <4> QED
        BY <4>1, <4>2 DEF seg
    <3> QED
      BY <3>3, <3>4
  <2>3. n \in 0..d
    BY <1>1
  <2> QED
    BY <2>2, <2>3
<1>5. \A n \in 0..d : n \in Good
  <2> HIDE DEF Good, d
  <2> QED
    BY <1>1, <1>3, <1>4, UpTo
<1>6. d \in 0..d
  BY <1>1
<1> QED
  BY <1>2, <1>5, <1>6

\* ... and the one result is in the order of the lists, if no wildcard ranges over a map.
LEMMA EvaluatesInOrder ==
    ASSUME NEW V, DecodedValues(V), NEW input \in V, NEW A, NEW segments \in Seq(A),
           ~RangesOverMap(segments, input)
    PROVE  \E ns : /\ Enumerates(ns, Named(segments, input, Len(segments)))
                   /\ Ordered(ns)
                   /\ evaluate(segments, input) = {ValuesOf(ns)}
<1> DEFINE d == Len(segments)
<1>1. d \in Nat /\ DOMAIN segments = 1..d
  OBVIOUS
<1>2. PICK after : /\ after[0] = {<<input>>}
                   /\ \A n \in 1..d : after[n] = Evaluated(after[n - 1], segments[n])
                   /\ evaluate(segments, input) = after[d]
  BY EvaluateSteps
<1> DEFINE After(n) == \E ns : /\ Enumerates(ns, Named(segments, input, n))
                               /\ Ordered(ns)
                               /\ after[n] = {ValuesOf(ns)}
           Good == {n \in 0..d : After(n)}
<1>3. 0 \in Good
  <2>1. Named(segments, input, 0) = {<<<<>>, input>>}
    BY NamedRoot
  <2>2. /\ Enumerates(<<<<<<>>, input>>>>, {<<<<>>, input>>})
        /\ Ordered(<<<<<<>>, input>>>>)
        /\ ValuesOf(<<<<<<>>, input>>>>) = <<input>>
    <3> DEFINE root == <<<<>>, input>>
    <3>1. root[2] = input
      OBVIOUS
    <3> HIDE DEF root
    <3>2. Enumerates(<<root>>, {root}) /\ Ordered(<<root>>) /\ ValuesOf(<<root>>) = <<root[2]>>
      BY OneEnumerates
    <3> QED
      BY <3>1, <3>2 DEF root
  <2>3. After(0)
    BY <1>2, <2>1, <2>2
  <2> QED
    BY <1>1, <2>3
<1>4. ASSUME NEW n \in 1..d, n - 1 \in Good PROVE n \in Good
  <2>1. After(n - 1) /\ n \in Nat \ {0} /\ n - 1 \in Nat /\ n \in 0..d
    BY <1>1, <1>4
  <2>2. PICK ns : /\ Enumerates(ns, Named(segments, input, n - 1))
                  /\ Ordered(ns)
                  /\ after[n - 1] = {ValuesOf(ns)}
    BY <2>1
  <2>3. /\ SelectedBelow(segments[n], ns, Len(ns)) = Named(segments, input, n)
        /\ DistinctNodes(V, ns, n - 1)
    <3> HIDE DEF d, Good
    <3> QED
      BY <2>1, <2>2, SelectedByAll
  <2>4. \A i \in DOMAIN ns : ~OverMap(segments[n], ns[i])
    <3> SUFFICES ASSUME NEW i \in DOMAIN ns, OverMap(segments[n], ns[i]) PROVE FALSE
      OBVIOUS
    <3>1. ns[i] \in Named(segments, input, n - 1)
      BY <2>2 DEF Enumerates
    <3>2. n \in DOMAIN segments
      BY <1>1
    <3> QED
      BY <3>1, <3>2 DEF Named, OverMap, RangesOverMap
  <2>5. PICK cs : /\ Enumerates(cs, SelectedBelow(segments[n], ns, Len(ns)))
                  /\ Ordered(cs)
                  /\ NextFrontiers(ValuesOf(ns), segments[n]) = {ValuesOf(cs)}
    <3> DEFINE m == n - 1
               seg == segments[n]
    <3>1. m \in Nat /\ DistinctNodes(V, ns, m) /\ \A i \in DOMAIN ns : ~OverMap(seg, ns[i])
      BY <2>1, <2>3, <2>4
    <3> HIDE DEF m, seg, d, Good
    <3>2. \E cs : /\ Enumerates(cs, SelectedBelow(seg, ns, Len(ns)))
                  /\ Ordered(cs)
                  /\ NextFrontiers(ValuesOf(ns), seg) = {ValuesOf(cs)}
      BY <2>2, <3>1, NextFrontierInOrder
    <3> QED
      BY <3>2 DEF seg
  <2>6. after[n] = {ValuesOf(cs)}
    <3>1. after[n] = Evaluated({ValuesOf(ns)}, segments[n])
      BY <1>2, <2>2
    <3> QED
      BY <2>5, <3>1 DEF Evaluated
  <2>7. After(n)
    BY <2>3, <2>5, <2>6
  <2> QED
    BY <2>1, <2>7
<1>5. \A n \in 0..d : n \in Good
  <2> HIDE DEF Good, d
  <2> QED
    BY <1>1, <1>3, <1>4, UpTo
<1>6. d \in 0..d
  BY <1>1
<1> QED
  BY <1>2, <1>5, <1>6

-----------------------------------------------------------------------------
(* Counting, and the order of InOrder *)

\* As many as there are.
LEMMA SameSize ==
    ASSUME NEW S, NEW T, IsFiniteSet(S), NEW f \in [S -> T],
           \A a, b \in S : f[a] = f[b] => a = b,
           \A t \in T : \E a \in S : f[a] = t
    PROVE  IsFiniteSet(T) /\ Cardinality(T) = Cardinality(S)
<1>1. f \in Bijection(S, T)
  BY Fun_IsBij
<1>2. ExistsBijection(S, T)
  BY <1>1 DEF ExistsBijection
<1> QED
  BY <1>2, FS_Bijection

LEMMA EnumeratedSize ==
    ASSUME NEW S, NEW s, Enumerates(s, S)
    PROVE  IsFiniteSet(S) /\ Cardinality(S) = Len(s)
<1>1. s \in [1..Len(s) -> S] /\ Len(s) \in Nat /\ DOMAIN s = 1..Len(s)
  BY DEF Enumerates
<1>2. IsFiniteSet(1..Len(s)) /\ Cardinality(1..Len(s)) = Len(s)
  <2> DEFINE m == Len(s)
  <2>1. m \in Nat /\ m \in Int /\ 1 \in Int
    BY <1>1
  <2> HIDE DEF m
  <2>2. IsFiniteSet(1..m) /\ Cardinality(1..m) = IF 1 > m THEN 0 ELSE m - 1 + 1
    BY <2>1, FS_Interval
  <2> QED
    BY <2>1, <2>2 DEF m
<1> DEFINE D == 1..Len(s)
<1>3. /\ s \in [D -> S] /\ IsFiniteSet(D)
      /\ \A a, b \in D : s[a] = s[b] => a = b
      /\ \A t \in S : \E a \in D : s[a] = t
  BY <1>1, <1>2 DEF Enumerates
<1> HIDE DEF D
<1>4. IsFiniteSet(S) /\ Cardinality(S) = Cardinality(D)
  BY <1>3, SameSize
<1> QED
  BY <1>2, <1>4 DEF D

\* The place of an element in an order is the number of those below it.
LEMMA OnlyPlace ==
    ASSUME NEW S, NEW s, Enumerates(s, S), NEW R,
           \A i, j \in DOMAIN s : <<s[i], s[j]>> \in R <=> i < j
    PROVE  \A i \in DOMAIN s, x \in S :
              Cardinality({y \in S : <<y, x>> \in R}) = i - 1 <=> x = s[i]
<1>1. s \in [1..Len(s) -> S] /\ Len(s) \in Nat /\ DOMAIN s = 1..Len(s) /\ s \in Seq(S)
  BY DEF Enumerates
<1> DEFINE Lower(x) == {y \in S : <<y, x>> \in R}
<1>3. ASSUME NEW i \in DOMAIN s
      PROVE  Cardinality(Lower(s[i])) = i - 1
  <2> DEFINE D == 1..(i - 1)
             f == [k \in D |-> s[k]]
             T == Lower(s[i])
  <2>1. i \in Nat /\ i - 1 \in Nat /\ \A k \in D : k \in DOMAIN s /\ k < i
    BY <1>1
  <2>2. IsFiniteSet(D) /\ Cardinality(D) = i - 1
    BY <2>1, FS_Interval
  <2>3. \A k \in D : s[k] \in T
    BY <1>1, <2>1
  <2>4. \A t \in T : \E k \in D : f[k] = t
    <3> TAKE t \in T
    <3>1. PICK k \in DOMAIN s : s[k] = t
      BY DEF Enumerates
    <3>2. k < i
      BY <3>1
    <3>3. k \in D
      BY <1>1, <3>2
    <3> QED
      BY <3>1, <3>3
  <2>5. \A a, b \in D : f[a] = f[b] => a = b
    BY <2>1 DEF Enumerates
  <2>6. f \in [D -> T]
    BY <2>3
  <2> HIDE DEF D, f, T
  <2>7. Cardinality(T) = Cardinality(D)
    BY <2>2, <2>4, <2>5, <2>6, SameSize
  <2> QED
    BY <2>2, <2>7 DEF T
<1> HIDE DEF Lower
<1>4. ASSUME NEW i \in DOMAIN s, NEW x \in S
      PROVE  Cardinality(Lower(x)) = i - 1 <=> x = s[i]
  <2>1. Cardinality(Lower(s[i])) = i - 1
    BY <1>3
  <2>2. ASSUME Cardinality(Lower(x)) = i - 1 PROVE x = s[i]
    <3>1. PICK j \in DOMAIN s : s[j] = x
      BY DEF Enumerates
    <3>2. Cardinality(Lower(x)) = j - 1
      BY <1>3, <3>1
    <3>3. i = j
      <4>1. j - 1 = i - 1 /\ i \in Int /\ j \in Int
        BY <1>1, <2>2, <3>2
      <4> QED
        BY <4>1
    <3> QED
      BY <3>1, <3>3
  <2> QED
    BY <2>1, <2>2
<1> QED
  BY <1>4 DEF Lower

\* Nodes of one depth: none comes both before and after another.
LEMMA InListOrderIsStrict ==
    ASSUME NEW V, NEW a \in NodesOf(V), NEW b \in NodesOf(V), Len(a[1]) = Len(b[1]),
           InListOrder(a, b)
    PROVE  ~InListOrder(b, a)
<1>1. /\ a[1] \in Seq(StepsOf(V)) /\ b[1] \in Seq(StepsOf(V))
      /\ DOMAIN a[1] = 1..Len(a[1]) /\ DOMAIN b[1] = 1..Len(a[1]) /\ Len(a[1]) \in Nat
  BY DEF NodesOf
<1>2. \A n \in 1..Len(a[1]) : a[1][n].index \in Int /\ b[1][n].index \in Int
  <2> TAKE n \in 1..Len(a[1])
  <2>1. a[1][n] \in StepsOf(V) /\ b[1][n] \in StepsOf(V)
    BY <1>1
  <2> QED
    BY <2>1 DEF StepsOf
<1>3. PICK n \in DOMAIN a[1] : /\ a[1][n].index < b[1][n].index
                               /\ \A k \in 1..(n - 1) : a[1][k] = b[1][k]
  BY DEF InListOrder
<1>4. SUFFICES ASSUME NEW m \in DOMAIN b[1], b[1][m].index < a[1][m].index,
                      \A k \in 1..(m - 1) : b[1][k] = a[1][k]
               PROVE  FALSE
  BY DEF InListOrder
<1>5. m \in Nat /\ n \in Nat /\ m > 0 /\ n > 0
  BY <1>1
<1>6. CASE m = n
  BY <1>1, <1>2, <1>3, <1>4, <1>6
<1>7. CASE m < n
  <2>1. m \in 1..(n - 1)
    BY <1>5, <1>7
  <2> QED
    BY <1>1, <1>2, <1>3, <1>4, <2>1
<1>8. CASE n < m
  <2>1. n \in 1..(m - 1)
    BY <1>5, <1>8
  <2> QED
    BY <1>1, <1>2, <1>3, <1>4, <2>1
<1> QED
  BY <1>5, <1>6, <1>7, <1>8

LEMMA OrderedIsInOrder ==
    ASSUME NEW V, NEW n, NEW nodes, DepthOf(V, nodes, n), NEW S \in SUBSET nodes,
           NEW ns, Enumerates(ns, S), Ordered(ns)
    PROVE  InOrder(S, InListOrder) = ns
<1> DEFINE R == {p \in S \X S : InListOrder(p[1], p[2])}
<1>1. \A x, y \in S : <<x, y>> \in R <=> InListOrder(x, y)
  OBVIOUS
<1>3. \A i \in DOMAIN ns : ns[i] \in S
  BY DEF Enumerates
<1>4. \A x \in S : x \in NodesOf(V) /\ Len(x[1]) = n
  BY DEF DepthOf
<1>5. ASSUME NEW i \in DOMAIN ns, NEW j \in DOMAIN ns
      PROVE  <<ns[i], ns[j]>> \in R <=> i < j
  <2>1. <<ns[i], ns[j]>> \in R <=> InListOrder(ns[i], ns[j])
    BY <1>1, <1>3
  <2>2. i \in Int /\ j \in Int
    BY DEF Enumerates
  <2>3. CASE i < j
    BY <2>1, <2>3 DEF Ordered
  <2>4. CASE j < i
    <3>1. InListOrder(ns[j], ns[i])
      BY <2>4 DEF Ordered
    <3>2. ~InListOrder(ns[i], ns[j])
      BY <1>3, <1>4, <3>1, InListOrderIsStrict
    <3> QED
      BY <2>1, <2>2, <2>4, <3>2
  <2>5. CASE i = j
    <3>1. ~InListOrder(ns[i], ns[i])
      BY <1>3, <1>4, InListOrderIsStrict
    <3> QED
      BY <2>1, <2>2, <2>5, <3>1
  <2> QED
    BY <2>2, <2>3, <2>4, <2>5
<1> HIDE DEF R
<1>6. \A i \in DOMAIN ns, x \in S :
         Cardinality({y \in S : InListOrder(y, x)}) = i - 1 <=> x = ns[i]
  <2> TAKE i \in DOMAIN ns, x \in S
  <2>1. {y \in S : InListOrder(y, x)} = {y \in S : <<y, x>> \in R}
    BY <1>1
  <2>2. \A k \in DOMAIN ns, z \in S :
           Cardinality({y \in S : <<y, z>> \in R}) = k - 1 <=> z = ns[k]
    BY <1>5, OnlyPlace, SMTT(30)
  <2> QED
    BY <2>1, <2>2
<1>7. DOMAIN ns = 1..Cardinality(S) /\ ns = [i \in DOMAIN ns |-> ns[i]]
  BY EnumeratedSize DEF Enumerates
<1>8. \A i \in 1..Cardinality(S) :
         (CHOOSE x \in S : Cardinality({y \in S : InListOrder(y, x)}) = i - 1) = ns[i]
  BY <1>3, <1>6, <1>7
<1> QED
  BY <1>7, <1>8 DEF InOrder

-----------------------------------------------------------------------------
(* parsePath: what a text compiles to, and that it is one thing at most *)

AtMostOne(S) == \A x, y \in S : x = y

\* The greatest and the least of some places.
LEMMA GreatestPlace ==
    ASSUME NEW d \in Nat, NEW T \in SUBSET (0..d), T # {}
    PROVE  Max(T) \in T /\ \A k \in T : k <= Max(T)
<1> DEFINE U == {d - k : k \in T}
<1>1. U \in SUBSET Nat /\ U # {}
  <2>1. \A k \in T : d - k \in Nat
    OBVIOUS
  <2> QED
    BY <2>1
<1>2. PICK u \in U : \A k \in U : ~(k < u)
  <2> HIDE DEF U
  <2> QED
    BY <1>1, LeastNumber
<1>3. PICK m \in T : u = d - m
  BY <1>2
<1>4. \A k \in T : m >= k
  <2> TAKE k \in T
  <2>1. d - k \in U
    OBVIOUS
  <2>2. ~(d - k < d - m)
    BY <1>2, <1>3, <2>1
  <2> QED
    BY <2>2
<1>5. Max(T) \in T /\ \A k \in T : Max(T) >= k
  BY <1>4 DEF Max
<1>6. \A k \in T : k \in Int
  OBVIOUS
<1> QED
  BY <1>5, <1>6

LEMMA LeastPlace ==
    ASSUME NEW d \in Nat, NEW T \in SUBSET (0..d), T # {}
    PROVE  Min(T) \in T /\ \A k \in T : Min(T) <= k
<1>1. PICK m \in T : \A k \in T : ~(k < m)
  <2>1. T \in SUBSET Nat
    OBVIOUS
  <2> QED
    BY <2>1, LeastNumber
<1>2. \A k \in T : m <= k
  <2> TAKE k \in T
  <2>1. k \in Int /\ m \in Int /\ ~(k < m)
    BY <1>1
  <2> QED
    BY <2>1
<1> QED
  BY <1>2 DEF Min

\* A run that has begun ends at its first place or later.
LEMMA RunEndPlace ==
    ASSUME NEW A, NEW p \in Seq(A), NEW i \in 1..Len(p), isIdentStart(p[i])
    PROVE  RunEnd(p, i, {c \in ToSet(p) : isIdentPart(c)}) \in i..Len(p)
<1> DEFINE chars == {c \in ToSet(p) : isIdentPart(c)}
           T == {j \in (i - 1)..Len(p) : \A k \in i..j : p[k] \in chars}
           d == Len(p)
<1>1. d \in Nat /\ i \in Nat /\ i >= 1 /\ i <= d /\ i \in DOMAIN p
  OBVIOUS
<1>2. p[i] \in chars
  BY <1>1 DEF ToSet, isIdentStart, isIdentPart
<1>3. i \in T
  <2>1. \A k \in i..i : k = i
    BY <1>1
  <2> HIDE DEF chars
  <2> QED
    BY <1>1, <1>2, <2>1
<1>4. T \in SUBSET (0..d) /\ \A j \in T : j \in (i - 1)..d
  BY <1>1
<1>5. RunEnd(p, i, chars) = Max(T)
  BY DEF RunEnd
<1> HIDE DEF T, d, chars
<1>6. Max(T) \in T /\ \A k \in T : k <= Max(T)
  BY <1>1, <1>3, <1>4, GreatestPlace
<1>7. Max(T) \in (i - 1)..d /\ i <= Max(T)
  BY <1>3, <1>4, <1>6
<1> QED
  BY <1>1, <1>5, <1>7 DEF d, chars

\* What a text can have for segments.
Tokens(p) ==
    {Field(SubSeq(p, ij[1], ij[2])) : ij \in Nat \X Nat}
    \cup UNION {parseSubscript(Trim(SubSeq(p, ij[1], ij[2]))) : ij \in Nat \X Int}

\* The function that Segments defines.
Places(p) == (1..(Len(p) + 1)) \X BOOLEAN

IsFrom(from, p) == from = [place \in Places(p) |-> Round(p, from, place[1], place[2])]

\* The places after i.
Later(p, i) == (((i + 1)..(Len(p) + 1)) \X BOOLEAN)

LEMMA LaterPlace ==
    ASSUME NEW A, NEW p \in Seq(A), NEW i \in 1..Len(p), NEW j \in i..Len(p), NEW b \in BOOLEAN
    PROVE  <<j + 1, b>> \in Later(p, i)
<1>1. j + 1 \in (i + 1)..(Len(p) + 1)
  OBVIOUS
<1> QED
  BY <1>1 DEF Later

\* One thing at most.
Parses(p) == {S \in SUBSET Seq(Tokens(p)) : AtMostOne(S)}

LEMMA ThenTyped ==
    ASSUME NEW X, NEW seg \in X, NEW rest \in SUBSET Seq(X), AtMostOne(rest)
    PROVE  Then(seg, rest) \in SUBSET Seq(X) /\ AtMostOne(Then(seg, rest))
<1>1. \A segs \in rest : <<seg>> \o segs \in Seq(X)
  OBVIOUS
<1>2. Then(seg, rest) \in SUBSET Seq(X)
  BY <1>1 DEF Then
<1>3. AtMostOne(Then(seg, rest))
  BY DEF Then, AtMostOne
<1> QED
  BY <1>2, <1>3

LEMMA ClosingPlace ==
    ASSUME NEW A, NEW p \in Seq(A), NEW i \in 1..Len(p)
    PROVE  AtMostOne(Closing(p, i)) /\ Closing(p, i) \subseteq i..Len(p)
<1>1. \A end \in Closing(p, i) : end \in i..Len(p) /\ \A k \in Closing(p, i) : end <= k
  BY DEF Closing
<1>2. \A x, y \in Closing(p, i) : x <= y /\ y <= x /\ x \in Int /\ y \in Int
  BY <1>1
<1> QED
  BY <1>1, <1>2 DEF AtMostOne

LEMMA OneSubscript ==
    ASSUME NEW token
    PROVE  AtMostOne(parseSubscript(token))
<1>1. AtMostOne(Scanned(token))
  BY DEF AtMostOne, Scanned
<1>2. CASE token = <<"*">>
  BY <1>2 DEF parseSubscript, AtMostOne
<1>3. CASE token # <<"*">> /\ Quoted(token)
  BY <1>3 DEF parseSubscript, AtMostOne
<1>4. CASE token # <<"*">> /\ ~Quoted(token)
  <2>1. parseSubscript(token) = {Index(n) : n \in Scanned(token)}
    BY <1>4 DEF parseSubscript
  <2> QED
    BY <1>1, <2>1 DEF AtMostOne
<1> QED
  BY <1>2, <1>3, <1>4

\* A round looks at later places only, and keeps to one thing at most.
LEMMA RoundParses ==
    ASSUME NEW A, NEW p \in Seq(A), NEW from, NEW i \in 1..(Len(p) + 1), NEW expecting \in BOOLEAN,
           \A place \in Later(p, i) : from[place] \in Parses(p)
    PROVE  Round(p, from, i, expecting) \in Parses(p)
<1>1. Len(p) \in Nat /\ i \in Nat /\ i + 1 \in Nat
  OBVIOUS
<1>2. CASE i > Len(p)
  <2>1. Round(p, from, i, expecting) = {<<>>}
    BY <1>2 DEF Round
  <2>2. {<<>>} \in SUBSET Seq(Tokens(p)) /\ AtMostOne({<<>>})
    BY DEF AtMostOne
  <2> QED
    BY <2>1, <2>2 DEF Parses
<1>3. {} \in Parses(p)
  BY DEF Parses, AtMostOne
<1>4. CASE ~(i > Len(p)) /\ p[i] = "."
  <2>1. <<i + 1, TRUE>> \in Later(p, i)
    <3>1. i \in 1..Len(p) /\ i \in i..Len(p) /\ TRUE \in BOOLEAN
      BY <1>1, <1>4
    <3> QED
      BY <3>1, LaterPlace
  <2> QED
    BY <1>3, <1>4, <2>1 DEF Round
<1>5. CASE ~(i > Len(p)) /\ p[i] # "." /\ p[i] = "["
  <2>1. i \in 1..Len(p)
    BY <1>1, <1>5
  <2>2. Round(p, from, i, expecting) =
           UNION {UNION {Then(seg, from[<<end + 1, FALSE>>]) :
                            seg \in parseSubscript(Trim(SubSeq(p, i + 1, end - 1)))} :
                     end \in Closing(p, i)}
    BY <1>5 DEF Round
  <2>3. ASSUME NEW end \in Closing(p, i),
               NEW seg \in parseSubscript(Trim(SubSeq(p, i + 1, end - 1)))
        PROVE  Then(seg, from[<<end + 1, FALSE>>]) \in Parses(p)
    <3>1. end \in i..Len(p)
      <4>1. \A e \in Closing(p, i) : e \in i..Len(p)
        BY <2>1, ClosingPlace
      <4> QED
        BY <4>1
    <3>2. <<end + 1, FALSE>> \in Later(p, i)
      BY <2>1, <3>1, LaterPlace
    <3>3. <<i + 1, end - 1>> \in Nat \X Int
      BY <1>1, <3>1
    <3>4. seg \in Tokens(p)
      <4> DEFINE ij == <<i + 1, end - 1>>
      <4>1. ij \in Nat \X Int /\ seg \in parseSubscript(Trim(SubSeq(p, ij[1], ij[2])))
        BY <3>3
      <4> HIDE DEF ij
      <4> QED
        BY <4>1 DEF Tokens
    <3>5. from[<<end + 1, FALSE>>] \in Parses(p)
      BY <3>2
    <3> QED
      BY <3>4, <3>5, ThenTyped DEF Parses
  <2>4. AtMostOne(Closing(p, i))
    BY <2>1, ClosingPlace
  <2> DEFINE SegmentsIn(end) == parseSubscript(Trim(SubSeq(p, i + 1, end - 1)))
             Made(end) == UNION {Then(seg, from[<<end + 1, FALSE>>]) : seg \in SegmentsIn(end)}
  <2>5. Round(p, from, i, expecting) \in SUBSET Seq(Tokens(p))
    <3>1. Round(p, from, i, expecting) = UNION {Made(end) : end \in Closing(p, i)}
      BY <2>2
    <3>2. \A end \in Closing(p, i) : Made(end) \subseteq Seq(Tokens(p))
      BY <2>3 DEF Parses
    <3> HIDE DEF Made
    <3> QED
      BY <3>1, <3>2
  <2>6. AtMostOne(Round(p, from, i, expecting))
    <3> SUFFICES ASSUME NEW s \in Round(p, from, i, expecting),
                        NEW t \in Round(p, from, i, expecting)
                 PROVE  s = t
      BY DEF AtMostOne
    <3>1. Round(p, from, i, expecting) = UNION {Made(end) : end \in Closing(p, i)}
      BY <2>2
    <3> HIDE DEF Made
    <3>2. PICK e \in Closing(p, i) : s \in Made(e)
      BY <3>1
    <3>3. PICK f \in Closing(p, i) : t \in Made(f)
      BY <3>1
    <3>4. e = f
      BY <2>4 DEF AtMostOne
    <3> HIDE DEF SegmentsIn
    <3>5. PICK x \in SegmentsIn(e) : s \in Then(x, from[<<e + 1, FALSE>>])
      BY <3>2 DEF Made
    <3>6. PICK y \in SegmentsIn(f) : t \in Then(y, from[<<f + 1, FALSE>>])
      BY <3>3 DEF Made
    <3>7. AtMostOne(SegmentsIn(e))
      BY OneSubscript DEF SegmentsIn
    <3>8. x = y
      BY <3>4, <3>7 DEF AtMostOne
    <3>9. AtMostOne(Then(x, from[<<e + 1, FALSE>>]))
      BY <2>3 DEF Parses, SegmentsIn
    <3> QED
      BY <3>4, <3>5, <3>6, <3>8, <3>9 DEF AtMostOne
  <2> QED
    BY <2>5, <2>6 DEF Parses
<1>6. CASE ~(i > Len(p)) /\ p[i] # "." /\ p[i] # "[" /\ isIdentStart(p[i])
  <2> DEFINE end == RunEnd(p, i, {c \in ToSet(p) : isIdentPart(c)})
             seg == Field(SubSeq(p, i, end))
  <2>1. i \in 1..Len(p)
    BY <1>1, <1>6
  <2>2. Round(p, from, i, expecting) = Then(seg, from[<<end + 1, FALSE>>])
    BY <1>6 DEF Round
  <2>3. end \in i..Len(p)
    BY <1>6, <2>1, RunEndPlace
  <2>4. <<i, end>> \in Nat \X Nat
    BY <1>1, <2>3
  <2> HIDE DEF end
  <2>5. seg \in Tokens(p)
    <3> DEFINE ij == <<i, end>>
    <3>1. ij \in Nat \X Nat /\ seg = Field(SubSeq(p, ij[1], ij[2]))
      BY <2>4
    <3> HIDE DEF ij, seg
    <3> QED
      BY <3>1 DEF Tokens
  <2>6. <<end + 1, FALSE>> \in Later(p, i)
    BY <2>1, <2>3, LaterPlace
  <2> HIDE DEF seg
  <2> QED
    BY <2>2, <2>5, <2>6, ThenTyped DEF Parses
<1>7. CASE ~(i > Len(p)) /\ p[i] # "." /\ p[i] # "[" /\ ~isIdentStart(p[i])
  BY <1>3, <1>7 DEF Round
<1> QED
  BY <1>2, <1>4, <1>5, <1>6, <1>7

LEMMA RoundLooksAhead ==
    ASSUME NEW A, NEW p \in Seq(A), NEW f, NEW g, NEW i \in 1..(Len(p) + 1), NEW expecting \in BOOLEAN,
           \A place \in Later(p, i) : f[place] = g[place]
    PROVE  Round(p, f, i, expecting) = Round(p, g, i, expecting)
<1>1. Len(p) \in Nat /\ i \in Nat /\ i + 1 \in Nat
  OBVIOUS
<1>2. CASE i > Len(p)
  BY <1>2 DEF Round
<1>3. CASE ~(i > Len(p)) /\ p[i] = "."
  <2>1. <<i + 1, TRUE>> \in Later(p, i)
    <3>1. i \in 1..Len(p) /\ i \in i..Len(p) /\ TRUE \in BOOLEAN
      BY <1>1, <1>3
    <3> QED
      BY <3>1, LaterPlace
  <2> QED
    BY <1>3, <2>1 DEF Round
<1>4. CASE ~(i > Len(p)) /\ p[i] # "." /\ p[i] = "["
  <2>1. i \in 1..Len(p)
    BY <1>1, <1>4
  <2>2. \A end \in Closing(p, i) : f[<<end + 1, FALSE>>] = g[<<end + 1, FALSE>>]
    <3> TAKE end \in Closing(p, i)
    <3>1. end \in i..Len(p)
      <4>1. \A e \in Closing(p, i) : e \in i..Len(p)
        BY <2>1, ClosingPlace
      <4> QED
        BY <4>1
    <3>2. <<end + 1, FALSE>> \in Later(p, i)
      BY <2>1, <3>1, LaterPlace
    <3> QED
      BY <3>2
  <2> DEFINE SegmentsIn(end) == parseSubscript(Trim(SubSeq(p, i + 1, end - 1)))
             Made(h, end) == UNION {Then(seg, h[<<end + 1, FALSE>>]) : seg \in SegmentsIn(end)}
  <2>3. /\ Round(p, f, i, expecting) = UNION {Made(f, end) : end \in Closing(p, i)}
        /\ Round(p, g, i, expecting) = UNION {Made(g, end) : end \in Closing(p, i)}
    BY <1>4 DEF Round
  <2>4. \A end \in Closing(p, i) : Made(f, end) = Made(g, end)
    <3> HIDE DEF SegmentsIn
    <3> QED
      BY <2>2
  <2> HIDE DEF Made
  <2> QED
    BY <2>3, <2>4
<1>5. CASE ~(i > Len(p)) /\ p[i] # "." /\ p[i] # "[" /\ isIdentStart(p[i])
  <2> DEFINE end == RunEnd(p, i, {c \in ToSet(p) : isIdentPart(c)})
             seg == Field(SubSeq(p, i, end))
  <2>1. i \in 1..Len(p)
    BY <1>1, <1>5
  <2>2. /\ Round(p, f, i, expecting) = Then(seg, f[<<end + 1, FALSE>>])
        /\ Round(p, g, i, expecting) = Then(seg, g[<<end + 1, FALSE>>])
    BY <1>5 DEF Round
  <2>3. end \in i..Len(p)
    BY <1>5, <2>1, RunEndPlace
  <2> HIDE DEF end, seg
  <2>4. <<end + 1, FALSE>> \in Later(p, i)
    BY <2>1, <2>3, LaterPlace
  <2> QED
    BY <2>2, <2>4
<1>6. CASE ~(i > Len(p)) /\ p[i] # "." /\ p[i] # "[" /\ ~isIdentStart(p[i])
  BY <1>6 DEF Round
<1> QED
  BY <1>2, <1>3, <1>4, <1>5, <1>6

\* As many rounds as there are places settle every place.
LEMMA FromExists ==
    ASSUME NEW A, NEW p \in Seq(A)
    PROVE  \E from : IsFrom(from, p)
<1> DEFINE d == Len(p) + 1
           S == [Places(p) -> Parses(p)]
           Next1(f) == [place \in Places(p) |-> Round(p, f, place[1], place[2])]
           step == [x \in (1..d) \X S |-> Next1(x[2])]
           none == [place \in Places(p) |-> {}]
<1>1. d \in Nat /\ d = Len(p) + 1
  OBVIOUS
<1>2. \A f \in S : Next1(f) \in S
  <2> TAKE f \in S
  <2>1. ASSUME NEW place \in Places(p)
        PROVE  Round(p, f, place[1], place[2]) \in Parses(p)
    <3>1. place[1] \in 1..(Len(p) + 1) /\ place[2] \in BOOLEAN
      BY DEF Places
    <3>2. Later(p, place[1]) \subseteq Places(p)
      <4>1. ((place[1] + 1)..(Len(p) + 1)) \subseteq 1..(Len(p) + 1)
        BY <3>1
      <4> QED
        BY <4>1 DEF Later, Places
    <3>3. \A q \in Later(p, place[1]) : f[q] \in Parses(p)
      BY <3>2
    <3> QED
      BY <3>1, <3>3, RoundParses
  <2> QED
    BY <2>1
<1>3. step \in [(1..d) \X S -> S]
  <2>1. \A x \in (1..d) \X S : Next1(x[2]) \in S
    BY <1>2
  <2> HIDE DEF S, Next1
  <2> QED
    BY <2>1
<1>4. none \in S
  <2>1. {} \in Parses(p)
    BY DEF Parses, AtMostOne
  <2> QED
    BY <2>1
<1>5. PICK f \in [0..d -> S] : Repeats(f, none, step, d)
  <2> HIDE DEF step, S, d, none
  <2> QED
    BY <1>1, <1>3, <1>4, Recursion, Zenon
<1>6. \A n \in 1..d : f[n] = Next1(f[n - 1]) /\ f[n] \in S
  <2> TAKE n \in 1..d
  <2> HIDE DEF S
  <2>1. n - 1 \in 0..d /\ n \in 0..d
    BY <1>1
  <2>2. <<n, f[n - 1]>> \in (1..d) \X S
    BY <2>1
  <2>3. f[n] = step[<<n, f[n - 1]>>]
    BY <1>5 DEF Repeats
  <2> HIDE DEF Next1
  <2> QED
    BY <2>1, <2>2, <2>3
\* After n rounds, the last n places are settled.
<1> DEFINE Settled(n) == \A place \in Places(p) :
              place[1] > d - n => f[n][place] = Round(p, f[n], place[1], place[2])
           Good == {n \in 0..d : Settled(n)}
<1>7. 0 \in Good
  <2>1. \A place \in Places(p) : ~(place[1] > d - 0)
    <3> TAKE place \in Places(p)
    <3>1. place[1] \in 1..d
      BY DEF Places
    <3> QED
      BY <1>1, <3>1
  <2> QED
    BY <1>1, <2>1
<1>8. ASSUME NEW n \in 1..d, n - 1 \in Good PROVE n \in Good
  <2>1. Settled(n - 1)
    BY <1>8
  <2>2. ASSUME NEW place \in Places(p), place[1] > d - n
        PROVE  f[n][place] = Round(p, f[n], place[1], place[2])
    <3> DEFINE i == place[1]
    <3>1. i \in 1..(Len(p) + 1) /\ place[2] \in BOOLEAN /\ i > d - n
      BY <2>2 DEF Places
    <3>2. f[n][place] = Round(p, f[n - 1], i, place[2])
      BY <1>6
    <3>3. \A q \in Later(p, i) : f[n - 1][q] = f[n][q]
      <4> TAKE q \in Later(p, i)
      <4>1. q[1] \in (i + 1)..(Len(p) + 1)
        BY DEF Later
      <4>2. q[1] > d - (n - 1)
        <5> HIDE DEF i, d
        <5> QED
          BY <1>1, <3>1, <4>1
      <4>3. q \in Places(p)
        <5>1. ((i + 1)..(Len(p) + 1)) \subseteq 1..(Len(p) + 1)
          <6> HIDE DEF i
          <6> QED
            BY <3>1
        <5> QED
          BY <5>1 DEF Later, Places
      <4>4. f[n - 1][q] = Round(p, f[n - 1], q[1], q[2])
        BY <2>1, <4>2, <4>3
      <4>5. f[n][q] = Round(p, f[n - 1], q[1], q[2])
        BY <1>6, <4>3
      <4> QED
        BY <4>4, <4>5
    <3> HIDE DEF i
    <3>4. Round(p, f[n - 1], i, place[2]) = Round(p, f[n], i, place[2])
      <4> DEFINE g == f[n - 1]
                 h == f[n]
      <4>1. \A q \in Later(p, i) : g[q] = h[q]
        BY <3>3
      <4> HIDE DEF g, h
      <4>2. Round(p, g, i, place[2]) = Round(p, h, i, place[2])
        BY <3>1, <4>1, RoundLooksAhead
      <4> QED
        BY <4>2 DEF g, h
    <3> QED
      BY <3>2, <3>4 DEF i
  <2>3. n \in 0..d
    BY <1>1
  <2> QED
    BY <2>2, <2>3
<1>9. \A n \in 0..d : n \in Good
  <2> HIDE DEF Good, d
  <2> QED
    BY <1>1, <1>7, <1>8, UpTo
<1>10. Settled(d)
  BY <1>1, <1>9
<1> DEFINE from == f[d]
<1>11. from \in S
  BY <1>1, <1>6
<1>12. \A place \in Places(p) : from[place] = Round(p, from, place[1], place[2])
  <2> TAKE place \in Places(p)
  <2>1. place[1] > d - d
    <3>1. place[1] \in 1..d
      BY DEF Places
    <3> QED
      BY <1>1, <3>1
  <2> QED
    BY <1>10, <2>1
<1> HIDE DEF from
<1>13. from = [place \in Places(p) |-> from[place]]
  BY <1>11
<1>14. IsFrom(from, p)
  BY <1>12, <1>13 DEF IsFrom
<1> QED
  BY <1>14

\* What the text compiles to from each of its places on.
RoundByRound(from, p) ==
    \A i \in 1..(Len(p) + 1), expecting \in BOOLEAN :
        from[<<i, expecting>>] = Round(p, from, i, expecting)

\* What parsePath computes, from the end of the text to its start.
LEMMA SegmentsRounds ==
    ASSUME NEW A, NEW p \in Seq(A)
    PROVE  \E from : RoundByRound(from, p) /\ Segments(p) = from[<<1, TRUE>>]
<1> DEFINE from == CHOOSE f : IsFrom(f, p)
<1>1. IsFrom(from, p)
  BY FromExists
<1>2. Segments(p) = from[<<1, TRUE>>]
  BY DEF Segments, IsFrom, Places
<1> HIDE DEF from
<1>3. RoundByRound(from, p)
  BY <1>1 DEF IsFrom, Places, RoundByRound
<1> QED
  BY <1>2, <1>3

\* Induction from the end of the text.
LEMMA FromTheEnd ==
    ASSUME NEW A, NEW p \in Seq(A), NEW Fine,
           \A place \in Places(p) :
               (\A q \in Places(p) : q[1] > place[1] => q \in Fine) => place \in Fine
    PROVE  \A place \in Places(p) : place \in Fine
<1> DEFINE d == Len(p) + 1
           Good == {n \in 0..d : \A place \in Places(p) : place[1] > d - n => place \in Fine}
<1>1. d \in Nat
  OBVIOUS
<1>2. \A place \in Places(p) : place[1] \in 1..d
  BY DEF Places
<1>3. 0 \in Good
  <2>1. \A place \in Places(p) : ~(place[1] > d - 0)
    BY <1>1, <1>2
  <2> QED
    BY <1>1, <2>1
<1>4. ASSUME NEW n \in 1..d, n - 1 \in Good PROVE n \in Good
  <2>1. ASSUME NEW place \in Places(p), place[1] > d - n PROVE place \in Fine
    <3>1. \A q \in Places(p) : q[1] > place[1] => q[1] > d - (n - 1)
      BY <1>1, <1>2, <2>1
    <3>2. \A q \in Places(p) : q[1] > d - (n - 1) => q \in Fine
      BY <1>4
    <3> QED
      BY <3>1, <3>2
  <2>2. n \in 0..d
    BY <1>1
  <2> QED
    BY <2>1, <2>2
<1>5. \A n \in 0..d : n \in Good
  <2> HIDE DEF Good, d
  <2> QED
    BY <1>1, <1>3, <1>4, UpTo
<1>6. d \in Good
  BY <1>1, <1>5
<1>7. \A place \in Places(p) : place[1] > d - d
  BY <1>1, <1>2
<1> QED
  BY <1>6, <1>7

LEMMA PlacesParse ==
    ASSUME NEW A, NEW p \in Seq(A), NEW from, RoundByRound(from, p)
    PROVE  \A place \in Places(p) : from[place] \in Parses(p)
<1> DEFINE Fine == {place \in Places(p) : from[place] \in Parses(p)}
<1>1. ASSUME NEW place \in Places(p),
             \A q \in Places(p) : q[1] > place[1] => q \in Fine
      PROVE  from[place] \in Parses(p)
  <2>1. /\ place = <<place[1], place[2]>>
        /\ place[1] \in 1..(Len(p) + 1) /\ place[2] \in BOOLEAN
    BY DEF Places
  <2>2. \A q \in Later(p, place[1]) : q \in Places(p) /\ q[1] > place[1]
    <3> TAKE q \in Later(p, place[1])
    <3>1. q[1] \in (place[1] + 1)..(Len(p) + 1)
      BY DEF Later
    <3>2. q[1] > place[1] /\ q[1] \in 1..(Len(p) + 1)
      BY <2>1, <3>1
    <3> QED
      BY <3>2 DEF Later, Places
  <2>3. from[place] = Round(p, from, place[1], place[2])
    BY <2>1 DEF RoundByRound
  <2>4. \A q \in Later(p, place[1]) : from[q] \in Parses(p)
    BY <1>1, <2>2
  <2> QED
    BY <2>1, <2>3, <2>4, RoundParses
<1>2. \A place \in Places(p) : place \in Fine
  <2>1. \A place \in Places(p) :
           (\A q \in Places(p) : q[1] > place[1] => q \in Fine) => place \in Fine
    BY <1>1
  <2> HIDE DEF Fine
  <2> QED
    BY <2>1, FromTheEnd
<1> QED
  BY <1>2

LEMMA SegmentsParse ==
    ASSUME NEW A, NEW p \in Seq(A)
    PROVE  Segments(p) \in Parses(p)
<1>1. PICK from : RoundByRound(from, p) /\ Segments(p) = from[<<1, TRUE>>]
  BY SegmentsRounds
<1>2. 1 \in 1..(Len(p) + 1) /\ TRUE \in BOOLEAN
  OBVIOUS
<1>3. <<1, TRUE>> \in Places(p)
  BY <1>2 DEF Places
<1> QED
  BY <1>1, <1>3, PlacesParse

\* A part of a text is a text.
LEMMA PartTyped ==
    ASSUME NEW A, NEW s \in Seq(A), NEW m \in Int, NEW n \in Int, m >= 1, n <= Len(s)
    PROVE  SubSeq(s, m, n) \in Seq(A)
<1>1. \A i \in m..n : s[i] \in A
  <2> TAKE i \in m..n
  <2>1. Len(s) \in Nat /\ DOMAIN s = 1..Len(s)
    OBVIOUS
  <2>2. i \in 1..Len(s)
    BY <2>1
  <2> QED
    BY <2>2
<1> QED
  BY <1>1, SubSeqProperties

LEMMA TrimTyped ==
    ASSUME NEW A, NEW s \in Seq(A)
    PROVE  Trim(s) \in Seq(A)
<1> DEFINE solid == {i \in DOMAIN s : s[i] # " "}
           d == Len(s)
<1>1. d \in Nat /\ DOMAIN s = 1..d /\ solid \in SUBSET (0..d) /\ solid \subseteq 1..d
  <2>1. d \in Nat /\ DOMAIN s = 1..d
    OBVIOUS
  <2>2. solid \subseteq 1..d
    BY <2>1
  <2>3. 1..d \subseteq 0..d
    BY <2>1
  <2> HIDE DEF solid, d
  <2> QED
    BY <2>1, <2>2, <2>3
<1>2. CASE solid = {}
  <2>1. Trim(s) = <<>>
    BY <1>2 DEF Trim
  <2> QED
    BY <2>1
<1>3. CASE solid # {}
  <2>1. Trim(s) = SubSeq(s, Min(solid), Max(solid))
    BY <1>3 DEF Trim
  <2> HIDE DEF solid, d
  <2>2. Min(solid) \in 1..d /\ Max(solid) \in 1..d
    BY <1>1, <1>3, LeastPlace, GreatestPlace
  <2>3. Min(solid) \in Int /\ Max(solid) \in Int /\ Min(solid) >= 1 /\ Max(solid) <= Len(s)
    BY <1>1, <2>2 DEF d
  <2> QED
    BY <2>1, <2>3, PartTyped
<1> QED
  BY <1>2, <1>3

LEMMA WithoutPrefixTyped ==
    ASSUME NEW A, NEW s \in Seq(A), NEW prefix, Len(prefix) \in Nat
    PROVE  WithoutPrefix(prefix, s) \in Seq(A)
<1>1. CASE IsPrefix(prefix, s)
  <2>1. WithoutPrefix(prefix, s) = SubSeq(s, Len(prefix) + 1, Len(s))
    BY <1>1 DEF WithoutPrefix
  <2>2. Len(prefix) + 1 \in Int /\ Len(prefix) + 1 >= 1 /\ Len(s) \in Int /\ Len(s) <= Len(s)
    <3>1. Len(s) \in Nat
      OBVIOUS
    <3> QED
      BY <3>1
  <2> QED
    BY <2>1, <2>2, PartTyped
<1>2. CASE ~IsPrefix(prefix, s)
  BY <1>2 DEF WithoutPrefix
<1> QED
  BY <1>1, <1>2

LEMMA BareTyped ==
    ASSUME NEW A, NEW expr \in Seq(A)
    PROVE  Bare(expr) \in Seq(A)
<1> DEFINE p == Trim(expr)
           inner == SubSeq(p, 2, Len(p) - 1)
           unwrapped == IF IsPrefix(<<"{">>, p) /\ IsSuffix(<<"}">>, p) THEN Trim(inner) ELSE p
<1>1. p \in Seq(A)
  BY TrimTyped
<1>2. inner \in Seq(A)
  <2> HIDE DEF p
  <2>1. 2 \in Int /\ 2 >= 1 /\ Len(p) - 1 \in Int /\ Len(p) - 1 <= Len(p)
    BY <1>1
  <2> QED
    BY <1>1, <2>1, PartTyped
<1>3. unwrapped \in Seq(A)
  <2> HIDE DEF inner, p
  <2>1. Trim(inner) \in Seq(A)
    BY <1>2, TrimTyped
  <2> QED
    BY <1>1, <2>1
<1>4. Bare(expr) = WithoutPrefix(<<"$", ".">>, WithoutPrefix(<<".">>, unwrapped))
  BY DEF Bare
<1> HIDE DEF unwrapped
<1>5. WithoutPrefix(<<".">>, unwrapped) \in Seq(A)
  <2>1. Len(<<".">>) \in Nat
    OBVIOUS
  <2> QED
    BY <1>3, <2>1, WithoutPrefixTyped
<1>6. Len(<<"$", ".">>) \in Nat
  OBVIOUS
<1> QED
  BY <1>4, <1>5, <1>6, WithoutPrefixTyped

LEMMA ParsedPath ==
    ASSUME NEW A, NEW path \in Seq(A)
    PROVE  /\ AtMostOne(parsePath(path))
           /\ \A segments \in parsePath(path) :
                 segments \in Seq(Tokens(Bare(path))) /\ segments # <<>>
<1>1. Segments(Bare(path)) \in Parses(Bare(path))
  BY BareTyped, SegmentsParse
<1> QED
  BY <1>1 DEF parsePath, Parses, AtMostOne

-----------------------------------------------------------------------------
(* evaluate returns the nodes that the path names *)

\* Node by node: an occurrence among the results is a node with that value.
LEMMA OccurrencesAreNodes ==
    ASSUME NEW S, NEW ns, Enumerates(ns, S), NEW x
    PROVE  Cardinality({j \in DOMAIN ValuesOf(ns) : ValuesOf(ns)[j] = x})
           = Cardinality({node \in S : node[2] = x})
<1> DEFINE D == {j \in DOMAIN ns : ns[j][2] = x}
           T == {node \in S : node[2] = x}
           f == [j \in D |-> ns[j]]
<1>1. {j \in DOMAIN ValuesOf(ns) : ValuesOf(ns)[j] = x} = D
  BY DEF ValuesOf
<1>2. IsFiniteSet(D)
  <2>1. DOMAIN ns = 1..Len(ns) /\ Len(ns) \in Nat /\ 1 \in Int /\ Len(ns) \in Int
    BY DEF Enumerates
  <2>2. IsFiniteSet(DOMAIN ns)
    BY <2>1, FS_Interval
  <2> QED
    BY <2>2, FS_Subset
<1>3. f \in [D -> T]
  BY DEF Enumerates
<1>4. \A a, b \in D : f[a] = f[b] => a = b
  BY DEF Enumerates
<1>5. \A t \in T : \E a \in D : f[a] = t
  BY DEF Enumerates
<1>6. Cardinality(T) = Cardinality(D)
  <2> HIDE DEF D, T, f
  <2> QED
    BY <1>2, <1>3, <1>4, <1>5, SameSize
<1> QED
  BY <1>1, <1>6

\* The path of a whole text names the same nodes, counted to its end.
LEMMA NamedByAll ==
    ASSUME NEW A, NEW segments \in Seq(A), segments # <<>>, NEW input
    PROVE  Named(segments, input, Len(segments)) = NamedBy(segments, input)
<1>1. Len(segments) > 0 /\ DOMAIN segments = 1..Len(segments)
  OBVIOUS
<1> QED
  BY <1>1 DEF Named, NamedBy

\* The results of a path are the named nodes (evaluator.go, evaluate and applySegment).
LEMMA EvaluatesNamedNodes ==
    ASSUME NEW V, DecodedValues(V), NEW input \in V, NEW A, NEW segments \in Seq(A),
           segments # <<>>
    PROVE  /\ \A results \in evaluate(segments, input) :
                 \E ns : Enumerates(ns, NamedBy(segments, input)) /\ ValuesOf(ns) = results
           /\ ~RangesOverMap(segments, input) =>
                 \E ns : /\ Enumerates(ns, NamedBy(segments, input))
                         /\ InOrder(NamedBy(segments, input), InListOrder) = ns
                         /\ evaluate(segments, input) = {ValuesOf(ns)}
<1> DEFINE S == Named(segments, input, Len(segments))
<1>1. S = NamedBy(segments, input)
  BY NamedByAll
<1>2. \A results \in evaluate(segments, input) :
         \E ns : Enumerates(ns, S) /\ ValuesOf(ns) = results
  BY EvaluatesInSomeOrder
<1>3. ASSUME ~RangesOverMap(segments, input)
      PROVE  \E ns : /\ Enumerates(ns, S)
                     /\ InOrder(S, InListOrder) = ns
                     /\ evaluate(segments, input) = {ValuesOf(ns)}
  <2>1. PICK ns : /\ Enumerates(ns, S)
                  /\ Ordered(ns)
                  /\ evaluate(segments, input) = {ValuesOf(ns)}
    BY <1>3, EvaluatesInOrder
  <2>2. Len(segments) \in Nat
    OBVIOUS
  <2> DEFINE d == Len(segments)
             nodes == NodesAt(input, d)
  <2>3. DepthOf(V, nodes, d) /\ S \in SUBSET nodes
    BY <2>2, NodesHaveDepth DEF Named
  <2> HIDE DEF S, nodes, d
  <2>4. InOrder(S, InListOrder) = ns
    BY <2>1, <2>3, OrderedIsInOrder
  <2> QED
    BY <2>1, <2>4
<1> HIDE DEF S
<1> QED
  BY <1>1, <1>2, <1>3

-----------------------------------------------------------------------------
(* The state: a rule and an anchor that the constants allow *)

TypeInv ==
    /\ rule \in RuleTexts
    /\ anchor \in Documents

LEMMA TypeInit == Init => TypeInv
  BY DEF Init, TypeInv

LEMMA TypeStep == TypeInv /\ [Next]_vars => TypeInv'
<1> SUFFICES ASSUME TypeInv, [Next]_vars PROVE TypeInv'
  OBVIOUS
<1>1. CASE Compile
  BY <1>1 DEF TypeInv, Compile
<1>2. CASE Scrape
  BY <1>2 DEF TypeInv, Scrape
<1>3. CASE UNCHANGED vars
  BY <1>3 DEF TypeInv, vars
<1> QED
  BY <1>1, <1>2, <1>3 DEF Next

LEMMA TypeAlways == Spec => []TypeInv
  BY TypeInit, TypeStep, PTL DEF Spec

LEMMA AnchorIsValue == TypeInv => anchor \in Values /\ DecodedValues(Values)
  BY ValuesAssumption DEF TypeInv

LEMMA PathsTyped ==
    ASSUME NEW r \in RuleTexts
    PROVE  PathsOf(r) \subseteq Seq(STRING)
<1> USE RuleTextsAssumption
<1>1. RuleTextType(r) /\ \A i \in DOMAIN r.expands : ExpandTextType(r.expands[i])
  OBVIOUS
<1>2. ASSUME NEW l \in DOMAIN r.labels, NEW i \in DOMAIN r.labels[l].extracts
      PROVE  r.labels[l].extracts[i].path \in Seq(STRING)
  BY <1>1 DEF RuleTextType
<1>3. ASSUME NEW i \in DOMAIN r.expands
      PROVE  r.expands[i].path \in Seq(STRING)
  BY <1>1 DEF ExpandTextType
<1>4. r.forEach \in Seq(STRING)
  BY <1>1 DEF RuleTextType
<1>5. LabelPaths(r) \subseteq Seq(STRING)
  BY <1>2, <1>3 DEF LabelPaths
<1> QED
  BY <1>4, <1>5 DEF PathsOf

(***************************************************************************)
(* For every set of rules and documents, the results of each path of a     *)
(* compiled rule are the values of the nodes that the path names: each as  *)
(* often as a node has it and, unless a wildcard ranges over an object, in *)
(* the order of the lists (evaluate and applySegment).                     *)
(***************************************************************************)
THEOREM ResultsAlwaysAreTheNamedNodes == Spec => []ResultsAreTheNamedNodes
<1>1. TypeInv => ResultsAreTheNamedNodes
  <2> SUFFICES ASSUME TypeInv, NEW path \in PathsOf(rule), NEW segments \in parsePath(path)
               PROVE  IF RangesOverMap(segments, anchor)
                      THEN \A results \in evaluate(segments, anchor) :
                              /\ Len(results) = Cardinality(NamedBy(segments, anchor))
                              /\ \A i \in DOMAIN results :
                                    Cardinality({j \in DOMAIN results : results[j] = results[i]})
                                    = Cardinality({node \in NamedBy(segments, anchor) :
                                                      node[2] = results[i]})
                      ELSE evaluate(segments, anchor) =
                              {[i \in DOMAIN InOrder(NamedBy(segments, anchor), InListOrder) |->
                                  InOrder(NamedBy(segments, anchor), InListOrder)[i][2]]}
    BY DEF ResultsAreTheNamedNodes
  <2> DEFINE S == NamedBy(segments, anchor)
  <2>1. anchor \in Values /\ DecodedValues(Values)
    BY AnchorIsValue
  <2>2. path \in Seq(STRING)
    BY PathsTyped DEF TypeInv
  <2>3. segments \in Seq(Tokens(Bare(path))) /\ segments # <<>>
    BY <2>2, ParsedPath
  <2>4. /\ \A results \in evaluate(segments, anchor) :
              \E ns : Enumerates(ns, S) /\ ValuesOf(ns) = results
        /\ ~RangesOverMap(segments, anchor) =>
              \E ns : /\ Enumerates(ns, S)
                      /\ InOrder(S, InListOrder) = ns
                      /\ evaluate(segments, anchor) = {ValuesOf(ns)}
    BY <2>1, <2>3, EvaluatesNamedNodes
  <2>5. ASSUME NEW results \in evaluate(segments, anchor)
        PROVE  /\ Len(results) = Cardinality(S)
               /\ \A i \in DOMAIN results :
                     Cardinality({j \in DOMAIN results : results[j] = results[i]})
                     = Cardinality({node \in S : node[2] = results[i]})
    <3> HIDE DEF S
    <3>1. PICK ns : Enumerates(ns, S) /\ ValuesOf(ns) = results
      BY <2>4
    <3>2. Len(results) = Len(ns)
      BY <3>1 DEF ValuesOf, Enumerates
    <3>3. Cardinality(S) = Len(ns)
      BY <3>1, EnumeratedSize
    <3>4. \A x : Cardinality({j \in DOMAIN results : results[j] = x})
                 = Cardinality({node \in S : node[2] = x})
      BY <3>1, OccurrencesAreNodes
    <3> QED
      BY <3>2, <3>3, <3>4
  <2>6. ASSUME ~RangesOverMap(segments, anchor)
        PROVE  evaluate(segments, anchor) =
                  {[i \in DOMAIN InOrder(S, InListOrder) |-> InOrder(S, InListOrder)[i][2]]}
    <3> HIDE DEF S
    <3>1. PICK ns : /\ InOrder(S, InListOrder) = ns
                    /\ evaluate(segments, anchor) = {ValuesOf(ns)}
      BY <2>4, <2>6
    <3>2. ValuesOf(ns) = [i \in DOMAIN ns |-> ns[i][2]]
      BY DEF ValuesOf
    <3> QED
      BY <3>1, <3>2
  <2> QED
    BY <2>5, <2>6
<1> QED
  BY <1>1, TypeAlways, PTL

-----------------------------------------------------------------------------
(* Two scrapes of the same object *)

\* The values of V and the objects that wrap an item.
Wrapped(V) == V \cup {Map([key \in {<<"_">>} |-> v]) : v \in V}

LEMMA WrapsDecoded ==
    ASSUME NEW V, DecodedValues(V)
    PROVE  DecodedValues(Wrapped(V))
<1>1. ASSUME NEW v \in V
      PROVE  \/ v.type \in {"nil", "scalar"}
             \/ v.type = "list" /\ v.elems \in Seq(Wrapped(V))
             \/ /\ v.type = "map"
                /\ IsFiniteSet(DOMAIN v.entries)
                /\ \A key \in DOMAIN v.entries : v.entries[key] \in Wrapped(V)
  <2>1. V \subseteq Wrapped(V)
    BY DEF Wrapped
  <2>2. \A s \in Seq(V) : s \in Seq(Wrapped(V))
    BY <2>1
  <2> QED
    BY <2>1, <2>2 DEF DecodedValues
<1>2. ASSUME NEW v \in V
      PROVE  LET w == Map([key \in {<<"_">>} |-> v])
             IN  /\ w.type = "map"
                 /\ IsFiniteSet(DOMAIN w.entries)
                 /\ \A key \in DOMAIN w.entries : w.entries[key] \in Wrapped(V)
  <2> DEFINE entries == [key \in {<<"_">>} |-> v]
  <2>1. DOMAIN entries = {<<"_">>} /\ \A key \in DOMAIN entries : entries[key] = v
    OBVIOUS
  <2>2. IsFiniteSet(DOMAIN entries)
    BY <2>1, FS_Singleton
  <2> HIDE DEF entries
  <2>3. Map(entries).type = "map" /\ Map(entries).entries = entries
    BY DEF Map
  <2>4. v \in Wrapped(V)
    BY DEF Wrapped
  <2> QED
    BY <2>1, <2>2, <2>3, <2>4 DEF entries
<1> QED
  BY <1>1, <1>2 DEF DecodedValues, Wrapped

\* What the results of a path are made of.
LEMMA ResultsTyped ==
    ASSUME NEW V, DecodedValues(V), NEW input \in V, NEW A, NEW path \in Seq(A),
           NEW segments \in parsePath(path), NEW results \in evaluate(segments, input)
    PROVE  \E ns : /\ Enumerates(ns, NamedBy(segments, input))
                   /\ ValuesOf(ns) = results
                   /\ \A i \in DOMAIN ns : ns[i][2] \in V
<1>1. segments \in Seq(Tokens(Bare(path))) /\ segments # <<>>
  BY ParsedPath
<1>2. PICK ns : Enumerates(ns, NamedBy(segments, input)) /\ ValuesOf(ns) = results
  BY <1>1, EvaluatesNamedNodes
<1>3. \A node \in NamedBy(segments, input) : node[2] \in V
  <2> DEFINE d == Len(segments)
  <2>1. d \in Nat
    BY <1>1
  <2> HIDE DEF d
  <2>2. NodesAt(input, d) \in SUBSET NodesOf(V)
    BY <2>1, NodesHaveDepth DEF DepthOf
  <2> QED
    BY <2>2 DEF NamedBy, NodesOf, d
<1>4. \A i \in DOMAIN ns : ns[i] \in NamedBy(segments, input)
  BY <1>2 DEF Enumerates
<1> QED
  BY <1>2, <1>3, <1>4

\* A path that ranges over no object has one result.
LEMMA OneResult ==
    ASSUME NEW V, DecodedValues(V), NEW input \in V, NEW A, NEW path \in Seq(A),
           \A segments \in parsePath(path) : ~RangesOverMap(segments, input)
    PROVE  AtMostOne(Results(path, input))
<1> SUFFICES ASSUME NEW x \in Results(path, input), NEW y \in Results(path, input)
             PROVE  x = y
  BY DEF AtMostOne
<1>1. PICK s \in parsePath(path) : x \in evaluate(s, input)
  BY DEF Results
<1>2. PICK t \in parsePath(path) : y \in evaluate(t, input)
  BY DEF Results
<1>3. s = t
  BY ParsedPath DEF AtMostOne
<1>4. s \in Seq(Tokens(Bare(path))) /\ s # <<>>
  BY ParsedPath
<1>5. \E ns : evaluate(s, input) = {ValuesOf(ns)}
  BY <1>4, EvaluatesNamedNodes
<1> QED
  BY <1>1, <1>2, <1>3, <1>5

LEMMA OneChoice ==
    ASSUME NEW indices, NEW of, \A x \in indices : AtMostOne(of[x])
    PROVE  AtMostOne({f \in [indices -> UNION Range(of)] : \A x \in indices : f[x] \in of[x]})
  BY DEF AtMostOne

\* Then the source has one view ...
LEMMA OneView ==
    ASSUME NEW V, DecodedValues(V), NEW r \in RuleTexts, NEW input,
           input # Absent => input \in V,
           input # Absent => \A path \in LabelPaths(r) : \A segments \in parsePath(path) :
                                ~RangesOverMap(segments, input)
    PROVE  AtMostOne(Views(r, input))
<1>1. CASE input = Absent
  <2>1. Views(r, input) = {Absent}
    BY <1>1 DEF Views, OneOfEach
  <2> QED
    BY <2>1 DEF AtMostOne
<1>2. CASE input # Absent
  <2>1. \A path \in LabelPaths(r) : AtMostOne(Results(path, input))
    <3> TAKE path \in LabelPaths(r)
    <3>1. path \in Seq(STRING)
      BY PathsTyped DEF PathsOf
    <3> QED
      BY <1>2, <3>1, OneResult
  <2> DEFINE extracts == UNION {{<<l, i>> : i \in DOMAIN r.labels[l].extracts} : l \in DOMAIN r.labels}
             text(e)  == r.labels[e[1]].extracts[e[2]].path
             first(e) == {FirstText(results) : results \in Results(text(e), input)}
             map(i)   == {MapOf(results) : results \in Results(r.expands[i].path, input)}
             firsts   == [e \in extracts |-> first(e)]
             maps     == [i \in DOMAIN r.expands |-> map(i)]
             Datas    == {f \in [extracts -> UNION Range(firsts)] :
                             \A x \in extracts : f[x] \in firsts[x]}
             Maps     == {f \in [DOMAIN r.expands -> UNION Range(maps)] :
                             \A x \in DOMAIN r.expands : f[x] \in maps[x]}
  <2>2. \A e \in extracts : AtMostOne(firsts[e])
    <3> TAKE e \in extracts
    <3>1. text(e) \in LabelPaths(r)
      <4>1. PICK l \in DOMAIN r.labels : e \in {<<l, i>> : i \in DOMAIN r.labels[l].extracts}
        OBVIOUS
      <4>2. PICK i \in DOMAIN r.labels[l].extracts : e = <<l, i>>
        BY <4>1
      <4>3. text(e) = r.labels[l].extracts[i].path
        BY <4>2
      <4> HIDE DEF text
      <4> QED
        BY <4>3 DEF LabelPaths
    <3>2. AtMostOne(Results(text(e), input))
      BY <2>1, <3>1
    <3> HIDE DEF text
    <3>3. AtMostOne(first(e))
      BY <3>2 DEF AtMostOne
    <3> HIDE DEF first, extracts
    <3> QED
      BY <3>3
  <2>3. \A i \in DOMAIN r.expands : AtMostOne(maps[i])
    <3> TAKE i \in DOMAIN r.expands
    <3>1. r.expands[i].path \in LabelPaths(r)
      BY DEF LabelPaths
    <3>2. AtMostOne(map(i))
      BY <2>1, <3>1 DEF AtMostOne
    <3> HIDE DEF map
    <3> QED
      BY <3>2
  <2>4. AtMostOne(Datas) /\ AtMostOne(Maps)
    <3> HIDE DEF firsts, maps, extracts
    <3> QED
      BY <2>2, <2>3, OneChoice
  <2>5. Views(r, input) = {[data |-> d, maps |-> m] : d \in Datas, m \in Maps}
    BY <1>2 DEF Views, OneOfEach
  <2> HIDE DEF Datas, Maps
  <2> QED
    BY <2>4, <2>5 DEF AtMostOne
<1> QED
  BY <1>1, <1>2

\* ... and an item has one series.
LEMMA OneSeries ==
    ASSUME NEW r, NEW input, NEW item, AtMostOne(Views(r, input)), AtMostOne(Views(r, item))
    PROVE  AtMostOne(SeriesOf(r, input, item))
<1> SUFFICES ASSUME NEW s \in SeriesOf(r, input, item), NEW t \in SeriesOf(r, input, item)
             PROVE  s = t
  BY DEF AtMostOne
<1> DEFINE Made(a, i) == EvaluateOneSeries(Compiled(r), [anchor |-> a, item |-> i], Absent)
<1>1. SeriesOf(r, input, item) = {Made(a, i) : a \in Views(r, input), i \in Views(r, item)}
  BY DEF SeriesOf
<1> HIDE DEF Made
<1>2. PICK a \in Views(r, input), i \in Views(r, item) : s = Made(a, i)
  BY <1>1
<1>3. PICK b \in Views(r, input), j \in Views(r, item) : t = Made(b, j)
  BY <1>1
<1>4. a = b /\ i = j
  BY DEF AtMostOne
<1> QED
  BY <1>2, <1>3, <1>4

\* As often as a value is made of a result, it is made of a node.
Counted(s, S, h) ==
    \A x : Cardinality({j \in DOMAIN s : s[j] = x}) = Cardinality({node \in S : h[node] = x})

LEMMA MadeOfNodes ==
    ASSUME NEW S, NEW ns, Enumerates(ns, S), NEW s, DOMAIN s = DOMAIN ns,
           NEW h, \A i \in DOMAIN ns : s[i] = h[ns[i]]
    PROVE  Counted(s, S, h)
<1> SUFFICES ASSUME NEW x
             PROVE  Cardinality({j \in DOMAIN s : s[j] = x})
                    = Cardinality({node \in S : h[node] = x})
  BY DEF Counted
<1> DEFINE D == {j \in DOMAIN s : s[j] = x}
           T == {node \in S : h[node] = x}
           f == [j \in D |-> ns[j]]
<1>1. IsFiniteSet(D)
  <2>1. DOMAIN ns = 1..Len(ns) /\ Len(ns) \in Nat /\ 1 \in Int /\ Len(ns) \in Int
    BY DEF Enumerates
  <2>2. IsFiniteSet(DOMAIN ns)
    BY <2>1, FS_Interval
  <2> QED
    BY <2>2, FS_Subset
<1>2. f \in [D -> T]
  BY DEF Enumerates
<1>3. \A a, b \in D : f[a] = f[b] => a = b
  BY DEF Enumerates
<1>4. \A t \in T : \E a \in D : f[a] = t
  BY DEF Enumerates
<1> HIDE DEF D, T, f
<1>5. Cardinality(T) = Cardinality(D)
  BY <1>1, <1>2, <1>3, <1>4, SameSize
<1> QED
  BY <1>5 DEF D, T

\* A scrape may make these series of the items.
MadeOfItems(r, input, items, s) ==
    s \in OneOfEach(DOMAIN items, LAMBDA i : SeriesOf(r, input, items[i]))

\* A scrape may make these series of the anchor.
MadeOf(r, input, s) ==
    \E items \in ForEach(r, input) : MadeOfItems(r, input, items, s)

\* No label of the rule ranges over an object, in the anchor or in an item.
LabelsAreFixed(r, input) ==
    \A path \in LabelPaths(r) : \A segments \in parsePath(path) :
        /\ ~RangesOverMap(segments, input)
        /\ \A items \in ForEach(r, input) : \A i \in DOMAIN items :
              items[i] # Absent => ~RangesOverMap(segments, items[i])

LEMMA MadeItemByItem ==
    ASSUME NEW r, NEW input, NEW items,
           NEW s, MadeOfItems(r, input, items, s)
    PROVE  /\ s = [i \in DOMAIN items |-> s[i]]
           /\ \A i \in DOMAIN items : s[i] \in SeriesOf(r, input, items[i])
<1> DEFINE of == [i \in DOMAIN items |-> SeriesOf(r, input, items[i])]
<1>1. s \in {f \in [DOMAIN items -> UNION Range(of)] : \A i \in DOMAIN items : f[i] \in of[i]}
  BY DEF OneOfEach, MadeOfItems
<1> QED
  BY <1>1

ItemOf(v) == IF v.type = "map" THEN v ELSE Map([key \in {<<"_">>} |-> v])

SeriesByNode(r, input, segments) ==
    [node \in NamedBy(segments, input) |->
        CHOOSE z : z \in SeriesOf(r, input, ItemOf(node[2]))]

\* The series of a scrape are those of the named nodes.
LEMMA SeriesOfNodes ==
    ASSUME NEW V, DecodedValues(V), NEW r \in RuleTexts, NEW input \in V, LabelsAreFixed(r, input),
           r.forEach # <<>>, NEW segments \in parsePath(r.forEach),
           NEW results \in evaluate(segments, input),
           NEW s, MadeOfItems(r, input, ItemsOf(results), s)
    PROVE  Counted(s, NamedBy(segments, input), SeriesByNode(r, input, segments))
<1> DEFINE items == ItemsOf(results)
           S == NamedBy(segments, input)
           h == SeriesByNode(r, input, segments)
<1>1. r.forEach \in Seq(STRING)
  <2>1. r.forEach \in PathsOf(r)
    BY DEF PathsOf
  <2> QED
    BY <2>1, PathsTyped
<1>2. PICK ns : /\ Enumerates(ns, S)
                /\ ValuesOf(ns) = results
                /\ \A i \in DOMAIN ns : ns[i][2] \in V
  BY <1>1, ResultsTyped
<1>3. items \in ForEach(r, input)
  BY DEF ForEach, Results
<1>4. DOMAIN items = DOMAIN ns /\ \A i \in DOMAIN ns : items[i] = ItemOf(ns[i][2])
  BY <1>2 DEF ValuesOf, ItemsOf, ItemOf
<1>5. s = [i \in DOMAIN items |-> s[i]] /\ \A i \in DOMAIN items : s[i] \in SeriesOf(r, input, items[i])
  BY MadeItemByItem
<1>6. AtMostOne(Views(r, input))
  BY OneView DEF LabelsAreFixed
<1>7. ASSUME NEW i \in DOMAIN ns
      PROVE  s[i] = h[ns[i]]
  <2>1. items[i] \in Wrapped(V)
    <3>1. ns[i][2] \in V
      BY <1>2
    <3> QED
      BY <1>4, <3>1 DEF ItemOf, Wrapped
  <2>2. items[i] # Absent => \A path \in LabelPaths(r) : \A segs \in parsePath(path) :
                                ~RangesOverMap(segs, items[i])
    BY <1>3, <1>4 DEF LabelsAreFixed
  <2>3. AtMostOne(Views(r, items[i]))
    <3> DEFINE item == items[i]
               W == Wrapped(V)
    <3>1. DecodedValues(W) /\ item \in W
      BY <2>1, WrapsDecoded
    <3>2. item # Absent => \A path \in LabelPaths(r) : \A segs \in parsePath(path) :
                              ~RangesOverMap(segs, item)
      BY <2>2
    <3> HIDE DEF item, W
    <3>3. AtMostOne(Views(r, item))
      BY <3>1, <3>2, OneView
    <3> QED
      BY <3>3 DEF item
  <2>4. AtMostOne(SeriesOf(r, input, items[i])) /\ s[i] \in SeriesOf(r, input, items[i])
    BY <1>4, <1>5, <1>6, <2>3, OneSeries
  <2>5. (CHOOSE z : z \in SeriesOf(r, input, items[i])) = s[i]
    BY <2>4 DEF AtMostOne
  <2>6. ns[i] \in S
    BY <1>2 DEF Enumerates
  <2>7. h[ns[i]] = CHOOSE z : z \in SeriesOf(r, input, ItemOf(ns[i][2]))
    BY <2>6 DEF SeriesByNode
  <2> HIDE DEF items, S, h
  <2> QED
    BY <1>4, <2>5, <2>7
<1>8. DOMAIN s = DOMAIN ns
  BY <1>4, <1>5
<1> HIDE DEF S, h, items
<1>9. Counted(s, S, h)
  BY <1>2, <1>7, <1>8, MadeOfNodes
<1> QED
  BY <1>9 DEF S, h

LEMMA SameObject ==
    ASSUME NEW V, DecodedValues(V), NEW r \in RuleTexts, NEW input \in V, LabelsAreFixed(r, input),
           NEW s, MadeOf(r, input, s), NEW t, MadeOf(r, input, t)
    PROVE  SameBag(s, t)
<1>1. PICK items \in ForEach(r, input) :
         MadeOfItems(r, input, items, s)
  BY DEF MadeOf
<1>2. PICK others \in ForEach(r, input) :
         MadeOfItems(r, input, others, t)
  BY DEF MadeOf
<1>3. CASE r.forEach = <<>>
  <2>1. items = <<Absent>> /\ others = <<Absent>>
    BY <1>3 DEF ForEach
  <2>2. /\ s = [i \in DOMAIN items |-> s[i]]
        /\ \A i \in DOMAIN items : s[i] \in SeriesOf(r, input, items[i])
    BY <1>1, MadeItemByItem
  <2>3. /\ t = [i \in DOMAIN items |-> t[i]]
        /\ \A i \in DOMAIN items : t[i] \in SeriesOf(r, input, items[i])
    <3>1. /\ t = [i \in DOMAIN others |-> t[i]]
          /\ \A i \in DOMAIN others : t[i] \in SeriesOf(r, input, others[i])
      BY <1>2, MadeItemByItem
    <3> QED
      BY <2>1, <3>1
  <2>4. AtMostOne(Views(r, input)) /\ AtMostOne(Views(r, Absent))
    BY OneView DEF LabelsAreFixed
  <2>5. AtMostOne(SeriesOf(r, input, Absent))
    BY <2>4, OneSeries
  <2>6. \A i \in DOMAIN items : items[i] = Absent
    BY <2>1
  <2>7. \A i \in DOMAIN items : s[i] = t[i]
    BY <2>2, <2>3, <2>5, <2>6 DEF AtMostOne
  <2>8. s = t
    <3>1. [i \in DOMAIN items |-> s[i]] = [i \in DOMAIN items |-> t[i]]
      BY <2>7
    <3> QED
      BY <2>2, <2>3, <3>1
  <2> QED
    BY <2>8 DEF SameBag
<1>4. CASE r.forEach # <<>>
  <2>1. PICK x \in Results(r.forEach, input) : items = ItemsOf(x)
    BY <1>4 DEF ForEach
  <2>2. PICK y \in Results(r.forEach, input) : others = ItemsOf(y)
    BY <1>4 DEF ForEach
  <2>3. PICK p \in parsePath(r.forEach) : x \in evaluate(p, input)
    BY <2>1 DEF Results
  <2>4. PICK q \in parsePath(r.forEach) : y \in evaluate(q, input)
    BY <2>2 DEF Results
  <2>5. p = q
    <3>1. r.forEach \in Seq(STRING)
      <4>1. r.forEach \in PathsOf(r)
        BY <1>4 DEF PathsOf
      <4> QED
        BY <4>1, PathsTyped
    <3> QED
      BY <3>1, ParsedPath DEF AtMostOne
  <2>6. /\ MadeOfItems(r, input, ItemsOf(x), s)
        /\ MadeOfItems(r, input, ItemsOf(y), t)
    BY <1>1, <1>2, <2>1, <2>2
  <2> DEFINE S == NamedBy(p, input)
             h == SeriesByNode(r, input, p)
  <2>7. Counted(s, S, h)
    BY <1>4, <2>3, <2>6, SeriesOfNodes
  <2>8. Counted(t, S, h)
    BY <1>4, <2>3, <2>4, <2>5, <2>6, SeriesOfNodes
  <2> QED
    BY <2>7, <2>8 DEF SameBag, Counted
<1> QED
  BY <1>3, <1>4

\* The series are those of the anchor, made by a scrape after the rule compiled.
SeriesInv ==
    /\ stage # "compiled" => series = Absent
    /\ series # Absent => MadeOf(rule, anchor, series)

LEMMA SeriesInit == Init => SeriesInv
  BY DEF Init, SeriesInv

LEMMA ScrapeMakes == Scrape => MadeOf(rule, anchor, series')
<1> SUFFICES ASSUME Scrape PROVE MadeOf(rule, anchor, series')
  OBVIOUS
<1>1. PICK items \in ForEach(rule, anchor) :
         series' \in OneOfEach(DOMAIN items, LAMBDA i : SeriesOf(rule, anchor, items[i]))
  BY DEF Scrape
<1>2. MadeOfItems(rule, anchor, items, series')
  BY <1>1 DEF MadeOfItems
<1> QED
  BY <1>2 DEF MadeOf

LEMMA SeriesStep == SeriesInv /\ [Next]_vars => SeriesInv'
<1> SUFFICES ASSUME SeriesInv, [Next]_vars PROVE SeriesInv'
  OBVIOUS
<1>1. CASE Compile
  BY <1>1 DEF SeriesInv, Compile
<1>2. CASE Scrape
  <2>1. rule' = rule /\ anchor' = anchor /\ stage' = stage /\ stage = "compiled"
    BY <1>2 DEF Scrape
  <2>2. MadeOf(rule, anchor, series')
    BY <1>2, ScrapeMakes
  <2>3. MadeOf(rule', anchor', series')
    BY <2>1, <2>2
  <2> QED
    BY <2>1, <2>3 DEF SeriesInv
<1>3. CASE UNCHANGED vars
  BY <1>3 DEF SeriesInv, vars
<1> QED
  BY <1>1, <1>2, <1>3 DEF Next

LEMMA SeriesAlways == Spec => []SeriesInv
  BY SeriesInit, SeriesStep, PTL DEF Spec

(***************************************************************************)
(* For every set of rules and documents, two scrapes of the same object    *)
(* make the same series of it, each as often, whatever order Go gives its  *)
(* maps, if the paths of the labels range over no object (EvaluateForEach  *)
(* and EvaluateOneSeries).                                                 *)
(***************************************************************************)
THEOREM SameObjectAlwaysSameSeries == Spec => SameObjectSameSeries
<1>1. ASSUME TypeInv, SeriesInv, [Next]_vars
      PROVE  [series # Absent /\ ~LabelsRangeOverMap => SameBag(series, series')]_vars
  <2> SUFFICES ASSUME Next, series # Absent, ~LabelsRangeOverMap
               PROVE  SameBag(series, series')
    BY <1>1
  <2>1. MadeOf(rule, anchor, series) /\ stage = "compiled"
    BY <1>1 DEF SeriesInv
  <2>2. Scrape
    BY <2>1 DEF Next, Compile
  <2>3. MadeOf(rule, anchor, series')
    BY <2>2, ScrapeMakes
  <2>4. anchor \in Values /\ DecodedValues(Values) /\ rule \in RuleTexts
    BY <1>1, AnchorIsValue DEF TypeInv
  <2>5. LabelsAreFixed(rule, anchor)
    BY DEF LabelsRangeOverMap, LabelsAreFixed
  <2> QED
    BY <2>1, <2>3, <2>4, <2>5, SameObject
<1> QED
  BY <1>1, TypeAlways, SeriesAlways, PTL DEF Spec, SameObjectSameSeries

-----------------------------------------------------------------------------
(* A finite set in a strict order *)

StrictOrder(S, R) ==
    /\ \A x \in S : <<x, x>> \notin R
    /\ \A x, y, z \in S : <<x, y>> \in R /\ <<y, z>> \in R => <<x, z>> \in R
    /\ \A x, y \in S : x = y \/ <<x, y>> \in R \/ <<y, x>> \in R

\* s has the elements of S in the order of R.
Sorts(s, S, R) ==
    /\ Enumerates(s, S)
    /\ \A i, j \in DOMAIN s : <<s[i], s[j]>> \in R <=> i < j

LEMMA SortExists ==
    ASSUME NEW S, IsFiniteSet(S), NEW R, StrictOrder(S, R)
    PROVE  \E s : Sorts(s, S, R)
<1> DEFINE n == Cardinality(S)
           Lower(x) == {y \in S : <<y, x>> \in R}
           T == 0..(n - 1)
           count == [x \in S |-> Cardinality(Lower(x))]
<1>1. n \in Nat
  BY FS_CardinalityType
<1>2. ASSUME NEW x \in S
      PROVE  /\ IsFiniteSet(Lower(x)) /\ Cardinality(Lower(x)) \in Nat
             /\ Cardinality(Lower(x)) < n
  <2>1. Lower(x) \in SUBSET S /\ Lower(x) # S
    BY DEF StrictOrder
  <2> HIDE DEF Lower
  <2>2. IsFiniteSet(Lower(x)) /\ Cardinality(Lower(x)) <= n /\ Cardinality(Lower(x)) # n
    BY <2>1, FS_Subset
  <2>3. Cardinality(Lower(x)) \in Nat
    BY <2>2, FS_CardinalityType
  <2> QED
    BY <1>1, <2>2, <2>3
<1>3. ASSUME NEW x \in S, NEW y \in S, <<x, y>> \in R
      PROVE  Cardinality(Lower(x)) < Cardinality(Lower(y))
  <2>1. Lower(x) \in SUBSET Lower(y) /\ x \in Lower(y) /\ x \notin Lower(x)
    BY <1>3 DEF StrictOrder
  <2>2. IsFiniteSet(Lower(y)) /\ Cardinality(Lower(x)) \in Nat /\ Cardinality(Lower(y)) \in Nat
    BY <1>2
  <2> HIDE DEF Lower
  <2>3. Cardinality(Lower(x)) <= Cardinality(Lower(y)) /\ Cardinality(Lower(x)) # Cardinality(Lower(y))
    BY <2>1, <2>2, FS_Subset
  <2> QED
    BY <2>2, <2>3
<1>4. count \in [S -> T]
  <2> HIDE DEF Lower
  <2>1. \A x \in S : Cardinality(Lower(x)) \in T
    BY <1>1, <1>2
  <2> QED
    BY <2>1
<1>5. \A x, y \in S : count[x] = count[y] => x = y
  <2> SUFFICES ASSUME NEW x \in S, NEW y \in S, count[x] = count[y], x # y PROVE FALSE
    OBVIOUS
  <2>1. <<x, y>> \in R \/ <<y, x>> \in R
    BY DEF StrictOrder
  <2>2. count[x] < count[y] \/ count[y] < count[x]
    BY <1>3, <2>1
  <2>3. count[x] \in Int
    BY <1>2
  <2> QED
    BY <2>2, <2>3
<1>6. IsFiniteSet(T) /\ Cardinality(T) = n
  <2>1. 0 \in Int /\ n - 1 \in Int
    BY <1>1
  <2>2. IsFiniteSet(0..(n - 1)) /\ Cardinality(0..(n - 1)) = IF 0 > n - 1 THEN 0 ELSE (n - 1) - 0 + 1
    <3> DEFINE m == n - 1
    <3>1. m \in Int
      BY <2>1
    <3> HIDE DEF m
    <3>2. IsFiniteSet(0..m) /\ Cardinality(0..m) = IF 0 > m THEN 0 ELSE m - 0 + 1
      BY <3>1, FS_Interval
    <3> QED
      BY <3>2 DEF m
  <2> QED
    BY <1>1, <2>2
<1>7. \A k \in T : \E x \in S : count[x] = k
  <2> HIDE DEF T, count
  <2>1. count \in Injection(S, T)
    BY <1>4, <1>5, Fun_IsInj
  <2>2. count \in Surjection(S, T)
    BY <1>6, <2>1, FS_Injection DEF n
  <2> QED
    BY <2>2, Fun_SurjectionProperties
<1> DEFINE s == [i \in 1..n |-> CHOOSE x \in S : count[x] = i - 1]
<1>8. ASSUME NEW i \in 1..n
      PROVE  s[i] \in S /\ count[s[i]] = i - 1
  <2>1. i - 1 \in T
    BY <1>1
  <2> HIDE DEF T, count
  <2>2. \E x \in S : count[x] = i - 1
    BY <1>7, <2>1
  <2> QED
    BY <2>2
<1>9. s \in Seq(S) /\ DOMAIN s = 1..n
  <2>1. DOMAIN s = 1..n
    OBVIOUS
  <2>2. s \in [1..n -> S]
    <3> HIDE DEF count
    <3> QED
      BY <1>8
  <2> HIDE DEF s, count
  <2> QED
    BY <1>1, <2>1, <2>2
<1> HIDE DEF s
<1>10. \A x \in S : \E i \in 1..n : s[i] = x
  <2> TAKE x \in S
  <2> DEFINE i == count[x] + 1
  <2>1. i \in 1..n /\ i - 1 = count[x]
    <3>1. count[x] \in 0..(n - 1)
      BY <1>4
    <3> HIDE DEF count
    <3> QED
      BY <1>1, <3>1
  <2> HIDE DEF i, count
  <2>2. count[s[i]] = count[x] /\ s[i] \in S
    BY <1>8, <2>1
  <2> QED
    BY <1>5, <2>1, <2>2
<1>11. ASSUME NEW i \in 1..n, NEW j \in 1..n
       PROVE  /\ s[i] = s[j] => i = j
              /\ <<s[i], s[j]>> \in R <=> i < j
  <2>1. /\ s[i] \in S /\ count[s[i]] = i - 1
        /\ s[j] \in S /\ count[s[j]] = j - 1
        /\ i \in Int /\ j \in Int
    BY <1>8
  <2>2. s[i] = s[j] => i = j
    <3> HIDE DEF count
    <3>1. s[i] = s[j] => i - 1 = j - 1
      BY <2>1
    <3> QED
      BY <2>1, <3>1
  <2>3. <<s[i], s[j]>> \in R => i < j
    <3>1. <<s[i], s[j]>> \in R => count[s[i]] < count[s[j]]
      BY <1>3, <2>1
    <3> HIDE DEF count
    <3> QED
      BY <2>1, <3>1
  <2>4. i < j => <<s[i], s[j]>> \in R
    <3>1. <<s[j], s[i]>> \in R => count[s[j]] < count[s[i]]
      BY <1>3, <2>1
    <3>2. i < j => ~(<<s[j], s[i]>> \in R) /\ s[i] # s[j]
      <4> HIDE DEF count
      <4> QED
        BY <2>1, <3>1
    <3> QED
      BY <2>1, <3>2 DEF StrictOrder
  <2> QED
    BY <2>2, <2>3, <2>4
<1> QED
  BY <1>9, <1>10, <1>11 DEF Sorts, Enumerates

-----------------------------------------------------------------------------
(* The loop of parsePath reads the tokens of the grammar *)

\* What comes after the token at place i: after a dot, a field or a subscript must.
Dotted(p, i) == IF p[i] = "." THEN TRUE ELSE FALSE

LEMMA DottedType == \A p, i : Dotted(p, i) \in BOOLEAN
BY DEF Dotted

\* A token begins with one thing alone.
LEMMA TokenKinds ==
    ASSUME NEW p, NEW i
    PROVE  isIdentStart(p[i]) => p[i] # "." /\ p[i] # "[" /\ isIdentPart(p[i])
BY LettersAssumption DEF isIdentStart, isIdentPart

LEMMA ClosingIs ==
    ASSUME NEW A, NEW p \in Seq(A), NEW i \in 1..Len(p), NEW j \in i..Len(p),
           p[j] = "]", \A k \in i..(j - 1) : p[k] # "]"
    PROVE  Closing(p, i) = {j}
<1> DEFINE brackets == {k \in i..Len(p) : p[k] = "]"}
<1>1. Len(p) \in Nat /\ i \in Nat /\ j \in Nat
  OBVIOUS
<1>2. j \in brackets
  OBVIOUS
<1>3. \A k \in brackets : j <= k
  <2> TAKE k \in brackets
  <2>1. k \in i..Len(p) /\ k \notin i..(j - 1)
    OBVIOUS
  <2> QED
    BY <1>1, <2>1
<1>4. \A k \in brackets : k \in Nat
  BY <1>1
<1>5. Closing(p, i) = {k \in brackets : \A l \in brackets : k <= l}
  BY DEF Closing
<1> HIDE DEF brackets
<1>6. \A k \in brackets : (\A l \in brackets : k <= l) <=> k = j
  BY <1>1, <1>2, <1>3, <1>4
<1> QED
  BY <1>2, <1>5, <1>6

LEMMA RunEndIs ==
    ASSUME NEW A, NEW p \in Seq(A), NEW i \in 1..Len(p), NEW j \in i..Len(p),
           isIdentStart(p[i]), \A k \in i..j : isIdentPart(p[k]),
           j = Len(p) \/ ~isIdentPart(p[j + 1])
    PROVE  RunEnd(p, i, {c \in ToSet(p) : isIdentPart(c)}) = j
<1> DEFINE chars == {c \in ToSet(p) : isIdentPart(c)}
           T == {k \in (i - 1)..Len(p) : \A l \in i..k : p[l] \in chars}
           d == Len(p)
<1>1. d \in Nat /\ i \in Nat /\ i >= 1 /\ i <= d /\ j \in Nat /\ j >= i /\ j <= d
  OBVIOUS
<1>2. \A k \in 1..d : p[k] \in chars <=> isIdentPart(p[k])
  BY DEF ToSet
<1>3. j \in T
  <2>1. j \in (i - 1)..Len(p)
    BY <1>1
  <2>2. \A k \in i..j : k \in 1..d
    BY <1>1
  <2> HIDE DEF chars
  <2> QED
    BY <1>2, <2>1, <2>2
<1>4. \A k \in T : k <= j
  <2> SUFFICES ASSUME NEW k \in T, ~(k <= j) PROVE FALSE
    OBVIOUS
  <2>1. k \in (i - 1)..d
    OBVIOUS
  <2>2. j + 1 \in i..k /\ j + 1 \in 1..d /\ j # d
    <3> HIDE DEF d, T
    <3> QED
      BY <1>1, <2>1
  <2>3. p[j + 1] \in chars
    <3> HIDE DEF chars
    <3> QED
      BY <2>2
  <2> QED
    BY <1>2, <2>2, <2>3
<1>5. T \in SUBSET (0..d) /\ \A k \in T : k \in Nat
  BY <1>1
<1>6. RunEnd(p, i, chars) = Max(T)
  BY DEF RunEnd
<1> HIDE DEF T, d, chars
<1>7. Max(T) \in T /\ \A k \in T : k <= Max(T)
  BY <1>1, <1>3, <1>5, GreatestPlace
<1>8. Max(T) <= j /\ j <= Max(T) /\ Max(T) \in Nat
  BY <1>3, <1>4, <1>5, <1>7
<1>9. Max(T) = j
  BY <1>1, <1>8
<1> QED
  BY <1>6, <1>9 DEF chars

\* The text of a token.
LEMMA TokenText ==
    ASSUME NEW A, NEW p \in Seq(A), NEW i \in 1..Len(p), NEW j \in i..Len(p)
    PROVE  /\ SubSeq(p, i, j) \in Seq(A) /\ Len(SubSeq(p, i, j)) = j - i + 1
           /\ SubSeq(p, i, j)[1] = p[i]
<1>1. Len(p) \in Nat /\ i \in Int /\ j \in Int /\ i <= j /\ \A k \in i..j : p[k] \in A
  <2>1. \A k \in i..j : k \in 1..Len(p)
    OBVIOUS
  <2> QED
    BY <2>1
<1>2. /\ SubSeq(p, i, j) \in Seq(A)
      /\ Len(SubSeq(p, i, j)) = IF i <= j THEN j - i + 1 ELSE 0
      /\ \A k \in 1..(j - i + 1) : SubSeq(p, i, j)[k] = p[i + k - 1]
  BY <1>1, SubSeqProperties
<1>3. 1 \in 1..(j - i + 1) /\ i + 1 - 1 = i
  BY <1>1
<1> QED
  BY <1>1, <1>2, <1>3

LEMMA SubscriptText ==
    ASSUME NEW A, NEW p \in Seq(A), NEW i \in 1..Len(p), NEW j \in i..Len(p), i # j
    PROVE  SubSeq(SubSeq(p, i, j), 2, Len(SubSeq(p, i, j)) - 1) = SubSeq(p, i + 1, j - 1)
<1>1. Len(SubSeq(p, i, j)) - 1 = j - i
  <2>1. Len(SubSeq(p, i, j)) = j - i + 1
    BY TokenText
  <2> QED
    BY <2>1
<1> DEFINE m == 2
           n == j - i
<1>2. /\ j \in 1..Len(p) /\ m \in 1..(j - i + 1) /\ n \in 1..(j - i + 1)
      /\ i + m - 1 = i + 1 /\ i + n - 1 = j - 1
  OBVIOUS
<1> HIDE DEF m, n
<1>3. SubSeq(SubSeq(p, i, j), m, n) = SubSeq(p, i + m - 1, i + n - 1)
  BY <1>2, SubSeqOfSubSeq
<1> QED
  BY <1>1, <1>2, <1>3 DEF m, n

\* Segments one by one.
LEMMA AppendedOnes ==
    \A segs, rest : Appended({<<seg>> : seg \in segs}, rest)
                    = UNION {Then(seg, rest) : seg \in segs}
<1> TAKE segs, rest
<1> DEFINE ones == {<<seg>> : seg \in segs}
           Made(seg) == Then(seg, rest)
<1>1. ASSUME NEW x
      PROVE  x \in Appended(ones, rest) <=> \E seg \in segs : x \in Made(seg)
  <2>1. x \in Appended(ones, rest) <=> \E one \in ones : \E more \in rest : x = one \o more
    <3> HIDE DEF ones
    <3> QED
      BY DEF Appended
  <2>2. \A seg : x \in Made(seg) <=> \E more \in rest : x = <<seg>> \o more
    BY DEF Then
  <2> HIDE DEF Made
  <2> QED
    BY <2>1, <2>2
<1> HIDE DEF ones, Made
<1>2. Appended(ones, rest) = UNION {Made(seg) : seg \in segs}
  BY <1>1
<1> QED
  BY <1>2 DEF ones, Made

\* A round that meets a token appends what it means to what follows.
LEMMA TokenRound ==
    ASSUME NEW A, NEW p \in Seq(A), NEW from, RoundByRound(from, p),
           NEW i \in 1..Len(p), NEW j \in i..Len(p), IsToken(p, i, j),
           NEW expecting \in BOOLEAN, p[i] = "." => ~expecting
    PROVE  from[<<i, expecting>>]
           = Appended(Meaning(SubSeq(p, i, j)), from[<<j + 1, Dotted(p, i)>>])
<1> DEFINE token == SubSeq(p, i, j)
           next == <<j + 1, Dotted(p, i)>>
<1>1. Len(p) \in Nat /\ i \in Nat /\ j \in Nat /\ i >= 1 /\ i <= j /\ j <= Len(p)
  OBVIOUS
<1>2. from[<<i, expecting>>] = Round(p, from, i, expecting) /\ ~(i > Len(p))
  BY <1>1 DEF RoundByRound
<1>3. from[next] \in SUBSET Seq(Tokens(p))
  <2>1. j + 1 \in 1..(Len(p) + 1)
    BY <1>1
  <2>2. next \in Places(p)
    BY <2>1, DottedType DEF Places
  <2> QED
    BY <2>2, PlacesParse DEF Parses
<1>4. token[1] = p[i]
  BY TokenText
<1>5. CASE p[i] = "."
  <2>1. j = i
    BY <1>5, TokenKinds DEF IsToken
  <2>2. Meaning(token) = {<<>>}
    BY <1>4, <1>5 DEF Meaning
  <2>3. from[<<i, expecting>>] = from[<<i + 1, TRUE>>]
    BY <1>2, <1>5 DEF Round
  <2>4. next = <<i + 1, TRUE>>
    BY <1>5, <2>1 DEF Dotted
  <2> HIDE DEF next, token
  <2>5. Appended({<<>>}, from[next]) = from[next]
    <3>1. \A segs \in from[next] : <<>> \o segs = segs
      BY <1>3
    <3> QED
      BY <3>1 DEF Appended
  <2> QED
    BY <2>2, <2>3, <2>4, <2>5 DEF token, next
<1>6. CASE p[i] = "["
  <2>1. p[j] = "]" /\ \A k \in i..(j - 1) : p[k] # "]"
    BY <1>6, TokenKinds DEF IsToken
  <2>2. Closing(p, i) = {j} /\ i # j
    BY <1>6, <2>1, ClosingIs
  <2> DEFINE SegmentsIn == parseSubscript(Trim(SubSeq(p, i + 1, j - 1)))
             Made(end) == UNION {Then(seg, from[<<end + 1, FALSE>>]) :
                                    seg \in parseSubscript(Trim(SubSeq(p, i + 1, end - 1)))}
  <2>3. from[<<i, expecting>>] = UNION {Made(end) : end \in Closing(p, i)}
    BY <1>2, <1>6 DEF Round
  <2>4. next = <<j + 1, FALSE>>
    BY <1>6 DEF Dotted
  <2>5. Made(j) = UNION {Then(seg, from[next]) : seg \in SegmentsIn}
    BY <2>4
  <2>6. UNION {Made(end) : end \in Closing(p, i)} = Made(j)
    <3> HIDE DEF Made
    <3> QED
      BY <2>2
  <2>7. Meaning(token) = {<<seg>> : seg \in SegmentsIn}
    <3>1. Meaning(token)
          = {<<seg>> : seg \in parseSubscript(Trim(SubSeq(token, 2, Len(token) - 1)))}
      BY <1>4, <1>6 DEF Meaning
    <3>2. SubSeq(token, 2, Len(token) - 1) = SubSeq(p, i + 1, j - 1)
      BY <2>2, SubscriptText
    <3> HIDE DEF token
    <3> QED
      BY <3>1, <3>2
  <2> HIDE DEF Made, SegmentsIn, token, next
  <2>8. Appended({<<seg>> : seg \in SegmentsIn}, from[next])
        = UNION {Then(seg, from[next]) : seg \in SegmentsIn}
    BY AppendedOnes
  <2> QED
    BY <2>3, <2>5, <2>6, <2>7, <2>8 DEF token, next
<1>7. CASE p[i] # "." /\ p[i] # "["
  <2>1. /\ isIdentStart(p[i]) /\ \A k \in i..j : isIdentPart(p[k])
        /\ j = Len(p) \/ ~isIdentPart(p[j + 1])
    BY <1>7 DEF IsToken
  <2> DEFINE end == RunEnd(p, i, {c \in ToSet(p) : isIdentPart(c)})
  <2>2. from[<<i, expecting>>] = Then(Field(SubSeq(p, i, end)), from[<<end + 1, FALSE>>])
    BY <1>2, <1>7, <2>1 DEF Round
  <2>3. end = j
    BY <2>1, RunEndIs
  <2> HIDE DEF end
  <2>4. next = <<j + 1, FALSE>>
    BY <1>7 DEF Dotted
  <2>5. Meaning(token) = {<<Field(token)>>}
    BY <1>4, <1>7 DEF Meaning
  <2> DEFINE seg == Field(token)
             rest == from[next]
  <2>6. from[<<i, expecting>>] = Then(seg, rest)
    BY <2>2, <2>3, <2>4
  <2>7. Meaning(token) = {<<seg>>}
    BY <2>5
  <2> HIDE DEF seg, rest, token, next
  <2>8. Appended({<<seg>>}, rest) = Then(seg, rest)
    BY DEF Appended, Then
  <2> QED
    BY <2>6, <2>7, <2>8 DEF token, next, rest
<1> QED
  BY <1>5, <1>6, <1>7

\* Where the loop does not fail there is a token.
LEMMA SomeToken ==
    ASSUME NEW A, NEW p \in Seq(A), NEW from, NEW i \in 1..Len(p), NEW expecting \in BOOLEAN,
           Round(p, from, i, expecting) # {}
    PROVE  /\ \E j \in i..Len(p) : IsToken(p, i, j)
           /\ p[i] = "." => ~expecting
<1>1. Len(p) \in Nat /\ i \in Nat /\ ~(i > Len(p)) /\ i \in i..Len(p)
  OBVIOUS
<1>2. CASE p[i] = "."
  <2>1. ~expecting
    BY <1>1, <1>2 DEF Round
  <2>2. IsToken(p, i, i)
    BY <1>2 DEF IsToken
  <2> QED
    BY <1>1, <2>1, <2>2
<1>3. CASE p[i] = "["
  <2>1. PICK j \in Closing(p, i) : TRUE
    <3> DEFINE Made(end) == UNION {Then(seg, from[<<end + 1, FALSE>>]) :
                                    seg \in parseSubscript(Trim(SubSeq(p, i + 1, end - 1)))}
    <3>1. Round(p, from, i, expecting) = UNION {Made(end) : end \in Closing(p, i)}
      BY <1>1, <1>3 DEF Round
    <3> HIDE DEF Made
    <3> QED
      BY <3>1
  <2>2. /\ j \in i..Len(p) /\ p[j] = "]"
        /\ \A k \in i..Len(p) : p[k] = "]" => j <= k
    BY DEF Closing
  <2>3. \A k \in i..(j - 1) : p[k] # "]"
    <3> SUFFICES ASSUME NEW k \in i..(j - 1), p[k] = "]" PROVE FALSE
      OBVIOUS
    <3>1. k \in i..Len(p) /\ ~(j <= k)
      BY <1>1, <2>2
    <3> QED
      BY <2>2, <3>1
  <2>4. IsToken(p, i, j)
    BY <1>3, <2>2, <2>3 DEF IsToken
  <2> QED
    BY <1>3, <2>2, <2>4
<1>4. CASE p[i] # "." /\ p[i] # "["
  <2>1. isIdentStart(p[i])
    BY <1>1, <1>4 DEF Round
  <2> DEFINE chars == {c \in ToSet(p) : isIdentPart(c)}
             T == {j \in (i - 1)..Len(p) : \A k \in i..j : p[k] \in chars}
             d == Len(p)
             j == Max(T)
  <2>2. RunEnd(p, i, chars) = j
    BY DEF RunEnd
  <2>3. j \in i..d
    BY <2>1, <2>2, RunEndPlace
  <2>4. T \in SUBSET (0..d)
    BY <1>1
  <2>5. j \in T /\ \A k \in T : k <= j
    <3>1. T # {}
      <4>1. i - 1 \in T
        <5>1. i - 1 \in (i - 1)..Len(p) /\ \A k \in i..(i - 1) : FALSE
          BY <1>1
        <5> HIDE DEF chars
        <5> QED
          BY <5>1
      <4> QED
        BY <4>1
    <3>2. d \in Nat
      BY <1>1
    <3> HIDE DEF T, d
    <3> QED
      BY <2>4, <3>1, <3>2, GreatestPlace
  <2>6. \A k \in 1..d : p[k] \in chars <=> isIdentPart(p[k])
    BY DEF ToSet
  <2>7. \A k \in i..j : p[k] \in chars
    BY <2>5
  <2>8. \A k \in i..j : isIdentPart(p[k])
    <3> HIDE DEF chars, T, j
    <3>1. \A k \in i..j : k \in 1..d
      BY <1>1, <2>3
    <3> QED
      BY <2>6, <2>7, <3>1
  <2>9. j = d \/ ~isIdentPart(p[j + 1])
    <3> SUFFICES ASSUME j # d, isIdentPart(p[j + 1]) PROVE FALSE
      OBVIOUS
    <3> HIDE DEF j
    <3>1. j + 1 \in 1..d /\ j + 1 \in (i - 1)..d /\ j \in Nat
      BY <1>1, <2>3
    <3>2. \A k \in i..(j + 1) : k \in i..j \/ k = j + 1
      BY <1>1, <2>3
    <3>3. \A k \in i..(j + 1) : p[k] \in chars
      BY <2>6, <2>7, <3>1, <3>2
    <3>4. j + 1 \in T
      <4> HIDE DEF chars
      <4> QED
        BY <3>1, <3>3
    <3> HIDE DEF T
    <3> QED
      BY <2>5, <3>1, <3>4
  <2> HIDE DEF j
  <2>10. IsToken(p, i, j)
    BY <2>1, <2>8, <2>9 DEF IsToken
  <2> QED
    BY <1>4, <2>3, <2>10
<1> QED
  BY <1>2, <1>3, <1>4

\* Numbers in their order.
LEMMA NumbersInOrder ==
    ASSUME NEW S \in SUBSET Int, NEW s, Enumerates(s, S),
           \A a, b \in DOMAIN s : a < b => s[a] < s[b]
    PROVE  InOrder(S, <) = s
<1> DEFINE R == {x \in S \X S : x[1] < x[2]}
<1>1. \A x, y \in S : <<x, y>> \in R <=> x < y
  OBVIOUS
<1>2. \A i \in DOMAIN s : s[i] \in S /\ i \in Int /\ s[i] \in Int
  <2>1. s \in [1..Len(s) -> S] /\ Len(s) \in Nat /\ DOMAIN s = 1..Len(s)
    BY DEF Enumerates
  <2> HIDE DEF R
  <2>2. \A i \in DOMAIN s : s[i] \in S /\ i \in Int
    BY <2>1
  <2> QED
    BY <2>2
<1>3. \A i, j \in DOMAIN s : <<s[i], s[j]>> \in R <=> i < j
  <2> TAKE i, j \in DOMAIN s
  <2>1. <<s[i], s[j]>> \in R <=> s[i] < s[j]
    BY <1>1, <1>2
  <2> QED
    BY <1>2, <2>1
<1> HIDE DEF R
<1>4. \A i \in DOMAIN s, x \in S :
         Cardinality({y \in S : y < x}) = i - 1 <=> x = s[i]
  <2> TAKE i \in DOMAIN s, x \in S
  <2>1. {y \in S : y < x} = {y \in S : <<y, x>> \in R}
    BY <1>1
  <2>2. \A k \in DOMAIN s, z \in S :
           Cardinality({y \in S : <<y, z>> \in R}) = k - 1 <=> z = s[k]
    BY <1>3, OnlyPlace, SMTT(30)
  <2> QED
    BY <2>1, <2>2
<1>5. DOMAIN s = 1..Cardinality(S) /\ s = [i \in DOMAIN s |-> s[i]]
  BY EnumeratedSize DEF Enumerates
<1>6. \A i \in 1..Cardinality(S) :
         (CHOOSE x \in S : Cardinality({y \in S : y < x}) = i - 1) = s[i]
  BY <1>2, <1>4, <1>5
<1> QED
  BY <1>5, <1>6 DEF InOrder

\* The ends of the tokens from place i on: they rise, up to the end of the text.
Rises(ends, i, d) ==
    /\ ends \in Seq(i..d)
    /\ ends # <<>> /\ ends[Len(ends)] = d
    /\ \A a, b \in DOMAIN ends : a < b => ends[a] < ends[b]

LEMMA CutInOrder ==
    ASSUME NEW d \in Nat, NEW C \in SUBSET (1..d), d \in C
    PROVE  Rises(InOrder(C, <), 1, d)
<1> DEFINE R == {x \in C \X C : x[1] < x[2]}
<1>1. IsFiniteSet(C)
  <2>1. IsFiniteSet(1..d)
    BY FS_Interval
  <2> QED
    BY <2>1, FS_Subset
<1>2. \A x, y \in C : x \in Nat /\ (<<x, y>> \in R <=> x < y)
  OBVIOUS
<1>3. StrictOrder(C, R)
  <2> HIDE DEF R
  <2> QED
    BY <1>2 DEF StrictOrder
<1> HIDE DEF R
<1>4. PICK s : Sorts(s, C, R)
  BY <1>1, <1>3, SortExists
<1>5. Enumerates(s, C) /\ \A i, j \in DOMAIN s : s[i] \in C /\ (i < j => s[i] < s[j])
  <2>1. Enumerates(s, C) /\ \A i, j \in DOMAIN s : <<s[i], s[j]>> \in R <=> i < j
    BY <1>4 DEF Sorts
  <2>2. \A i \in DOMAIN s : s[i] \in C
    BY <2>1 DEF Enumerates
  <2> QED
    BY <1>2, <2>1, <2>2
<1>6. InOrder(C, <) = s
  <2>1. C \in SUBSET Int
    OBVIOUS
  <2> QED
    BY <1>5, <2>1, NumbersInOrder
<1>7. s \in Seq(1..d) /\ DOMAIN s = 1..Len(s) /\ Len(s) \in Nat
  <2>1. s \in [1..Len(s) -> C] /\ DOMAIN s = 1..Len(s) /\ Len(s) \in Nat
    BY <1>5 DEF Enumerates
  <2>2. s \in [1..Len(s) -> 1..d]
    BY <2>1
  <2> QED
    BY <2>1, <2>2
<1>8. PICK i \in DOMAIN s : s[i] = d
  BY <1>5 DEF Enumerates
<1>9. s # <<>> /\ Len(s) \in DOMAIN s /\ i <= Len(s)
  BY <1>7, <1>8
<1>10. s[Len(s)] = d
  <2>1. s[Len(s)] \in 1..d
    BY <1>5, <1>9
  <2>2. i < Len(s) => d < s[Len(s)]
    BY <1>5, <1>8, <1>9
  <2> QED
    BY <1>7, <1>8, <1>9, <2>1, <2>2
<1>11. Rises(s, 1, d)
  BY <1>5, <1>7, <1>9, <1>10 DEF Rises
<1> QED
  BY <1>6, <1>11

LEMMA RisingInOrder ==
    ASSUME NEW d \in Nat, NEW ends, Rises(ends, 1, d)
    PROVE  InOrder(ToSet(ends), <) = ends
<1> DEFINE C == ToSet(ends)
<1>1. /\ ends \in Seq(1..d) /\ DOMAIN ends = 1..Len(ends) /\ Len(ends) \in Nat
      /\ \A a, b \in DOMAIN ends : a < b => ends[a] < ends[b]
  BY DEF Rises
<1>2. C = {ends[n] : n \in DOMAIN ends}
  BY DEF ToSet
<1>3. \A a \in DOMAIN ends : ends[a] \in 1..d /\ a \in Int
  BY <1>1
<1>4. \A a, b \in DOMAIN ends : ends[a] = ends[b] => a = b
  <2> SUFFICES ASSUME NEW a \in DOMAIN ends, NEW b \in DOMAIN ends, ends[a] = ends[b], a # b
               PROVE  FALSE
    OBVIOUS
  <2>1. a \in Int /\ b \in Int /\ ends[a] \in Int /\ ends[b] \in Int
    BY <1>3
  <2>2. a < b \/ b < a
    BY <2>1
  <2>3. ends[a] < ends[b] \/ ends[b] < ends[a]
    BY <1>1, <2>2
  <2> QED
    BY <2>1, <2>3
<1>5. ends \in Seq(C)
  <2>1. ends \in [1..Len(ends) -> C]
    BY <1>1, <1>2
  <2> HIDE DEF C
  <2> QED
    BY <1>1, <2>1
<1>6. Enumerates(ends, C) /\ C \in SUBSET Int
  BY <1>2, <1>3, <1>4, <1>5 DEF Enumerates
<1> HIDE DEF C
<1>7. InOrder(C, <) = ends
  BY <1>1, <1>6, NumbersInOrder
<1> QED
  BY <1>7 DEF C

-----------------------------------------------------------------------------
(* A cut into tokens means what the loop reads *)

\* Whether a field or a subscript must come next when the n-th token starts.
Expecting(p, ends, n) == IF n = 1 THEN TRUE ELSE Dotted(p, StartOf(ends, n - 1))

TokenAt(p, ends, n) == SubSeq(p, StartOf(ends, n), ends[n])

\* The function that MeaningOfCut defines.
IsLast(last, p, ends) ==
    last = [n \in 0..Len(ends) |->
              IF n = 0 THEN {<<>>}
              ELSE Appended(Meaning(TokenAt(p, ends, Len(ends) - n + 1)), last[n - 1])]

\* Where tokens start.
LEMMA Starts ==
    ASSUME NEW d \in Nat, NEW ends, Rises(ends, 1, d), NEW n \in DOMAIN ends
    PROVE  /\ StartOf(ends, n) \in 1..d /\ ends[n] \in StartOf(ends, n)..d
           /\ StartOf(ends, n + 1) = ends[n] + 1
<1>1. /\ ends \in Seq(1..d) /\ DOMAIN ends = 1..Len(ends) /\ Len(ends) \in Nat
      /\ \A a, b \in DOMAIN ends : a < b => ends[a] < ends[b]
  BY DEF Rises
<1>2. ends[n] \in 1..d /\ n \in Nat /\ n >= 1
  BY <1>1
<1>3. StartOf(ends, n + 1) = ends[n] + 1
  <2>1. n + 1 # 1 /\ (n + 1) - 1 = n
    BY <1>2
  <2> QED
    BY <2>1 DEF StartOf
<1>4. CASE n = 1
  BY <1>2, <1>3, <1>4 DEF StartOf
<1>5. CASE n # 1
  <2>1. n - 1 \in DOMAIN ends /\ n - 1 < n
    BY <1>1, <1>2, <1>5
  <2>2. ends[n - 1] \in 1..d /\ ends[n - 1] < ends[n]
    BY <1>1, <2>1
  <2>3. StartOf(ends, n) = ends[n - 1] + 1
    BY <1>5 DEF StartOf
  <2> QED
    BY <1>2, <1>3, <2>2, <2>3
<1> QED
  BY <1>4, <1>5

LEMMA CutRound ==
    ASSUME NEW A, NEW p \in Seq(A), NEW from, RoundByRound(from, p),
           NEW ends, Rises(ends, 1, Len(p)), IsCut(p, ends), NEW n \in DOMAIN ends
    PROVE  from[<<StartOf(ends, n), Expecting(p, ends, n)>>]
           = Appended(Meaning(TokenAt(p, ends, n)),
                      from[<<StartOf(ends, n + 1), Expecting(p, ends, n + 1)>>])
<1> DEFINE i == StartOf(ends, n)
           j == ends[n]
           e == Expecting(p, ends, n)
<1>1. Len(p) \in Nat /\ n \in Nat /\ n >= 1
  <2>1. DOMAIN ends = 1..Len(ends)
    BY DEF Rises
  <2> QED
    BY <2>1
<1>2. i \in 1..Len(p) /\ j \in i..Len(p) /\ StartOf(ends, n + 1) = j + 1
  BY <1>1, Starts
<1>3. IsToken(p, i, j)
  BY DEF IsCut
<1>4. e \in BOOLEAN
  BY DottedType DEF Expecting
<1>5. p[i] = "." => ~e
  <2>1. p[i] = "." => n > 1 /\ p[StartOf(ends, n - 1)] # "."
    BY DEF IsCut
  <2> QED
    BY <1>1, <2>1 DEF Expecting, Dotted
<1>6. Expecting(p, ends, n + 1) = Dotted(p, i)
  <2>1. n + 1 # 1 /\ (n + 1) - 1 = n
    BY <1>1
  <2> QED
    BY <2>1 DEF Expecting
<1> HIDE DEF i, j, e
<1>7. from[<<i, e>>] = Appended(Meaning(SubSeq(p, i, j)), from[<<j + 1, Dotted(p, i)>>])
  BY <1>2, <1>3, <1>4, <1>5, TokenRound
<1> QED
  BY <1>2, <1>6, <1>7 DEF i, j, e, TokenAt

LEMMA CutEnd ==
    ASSUME NEW A, NEW p \in Seq(A), NEW from, RoundByRound(from, p),
           NEW ends, Rises(ends, 1, Len(p)), NEW e \in BOOLEAN
    PROVE  from[<<StartOf(ends, Len(ends) + 1), e>>] = {<<>>}
<1>1. Len(ends) \in DOMAIN ends /\ ends[Len(ends)] = Len(p) /\ Len(p) \in Nat
  BY DEF Rises
<1>2. StartOf(ends, Len(ends) + 1) = Len(p) + 1
  BY <1>1, Starts
<1>3. Len(p) + 1 \in 1..(Len(p) + 1) /\ Len(p) + 1 > Len(p)
  BY <1>1
<1>4. from[<<Len(p) + 1, e>>] = Round(p, from, Len(p) + 1, e)
  BY <1>3 DEF RoundByRound
<1> QED
  BY <1>2, <1>3, <1>4 DEF Round

LEMMA LastMeans ==
    ASSUME NEW A, NEW p \in Seq(A), NEW from, RoundByRound(from, p),
           NEW ends, Rises(ends, 1, Len(p)), IsCut(p, ends)
    PROVE  /\ \E last : IsLast(last, p, ends)
           /\ \A last : IsLast(last, p, ends) => last[Len(ends)] = from[<<1, TRUE>>]
<1> DEFINE m == Len(ends)
           Rest(n) == from[<<StartOf(ends, m - n + 1), Expecting(p, ends, m - n + 1)>>]
           g == [n \in 0..m |-> Rest(n)]
<1> HIDE DEF Rest, g
<1>2. m \in Nat /\ m >= 1 /\ DOMAIN ends = 1..m
  <2>1. ends \in Seq(1..Len(p)) /\ ends # <<>>
    BY DEF Rises
  <2> QED
    BY <2>1
<1>3. Len(p) \in Nat
  OBVIOUS
<1>4. Rest(0) = {<<>>}
  <2>1. Expecting(p, ends, m + 1) \in BOOLEAN
    BY DottedType DEF Expecting
  <2>2. from[<<StartOf(ends, m + 1), Expecting(p, ends, m + 1)>>] = {<<>>}
    BY <2>1, CutEnd
  <2> HIDE DEF m
  <2>3. m - 0 + 1 = m + 1
    BY <1>2
  <2> QED
    BY <2>2, <2>3 DEF Rest
<1>5. \A n \in 1..m : Rest(n) = Appended(Meaning(TokenAt(p, ends, m - n + 1)), Rest(n - 1))
  <2> TAKE n \in 1..m
  <2> DEFINE k == m - n + 1
  <2>1. k \in DOMAIN ends /\ k + 1 = m - (n - 1) + 1
    BY <1>2
  <2> HIDE DEF m, k
  <2>2. from[<<StartOf(ends, k), Expecting(p, ends, k)>>]
        = Appended(Meaning(TokenAt(p, ends, k)),
                   from[<<StartOf(ends, k + 1), Expecting(p, ends, k + 1)>>])
    BY <2>1, CutRound
  <2> QED
    BY <2>1, <2>2 DEF k, Rest
<1>6. IsLast(g, p, ends)
  <2>1. \A n \in 0..m :
           g[n] = IF n = 0 THEN {<<>>}
                  ELSE Appended(Meaning(TokenAt(p, ends, m - n + 1)), g[n - 1])
    <3> TAKE n \in 0..m
    <3> HIDE DEF m
    <3>1. n # 0 => n - 1 \in 0..m /\ n \in 1..m
      BY <1>2
    <3>2. g[n] = Rest(n) /\ (n # 0 => g[n - 1] = Rest(n - 1))
      BY <3>1 DEF g
    <3> QED
      BY <1>4, <1>5, <3>1, <3>2
  <2>2. g = [n \in 0..m |-> g[n]]
    BY DEF g
  <2> QED
    BY <2>1, <2>2 DEF IsLast
<1>7. SUFFICES ASSUME NEW last, IsLast(last, p, ends)
               PROVE  last[m] = from[<<1, TRUE>>]
  BY <1>6
<1>9. /\ last[0] = {<<>>}
      /\ \A n \in 1..m : last[n] = Appended(Meaning(TokenAt(p, ends, m - n + 1)), last[n - 1])
  <2>1. \A n \in 0..m : last[n] = IF n = 0 THEN {<<>>}
                  ELSE Appended(Meaning(TokenAt(p, ends, m - n + 1)), last[n - 1])
    BY <1>7 DEF IsLast
  <2> HIDE DEF m
  <2>2. 0 \in 0..m /\ \A n \in 1..m : n \in 0..m /\ n # 0
    BY <1>2
  <2> QED
    BY <2>1, <2>2
<1> HIDE DEF m
<1> DEFINE Good == {n \in 0..m : last[n] = Rest(n)}
<1>10. 0 \in Good
  <2>1. 0 \in 0..m
    BY <1>2
  <2>2. last[0] = Rest(0)
    BY <1>4, <1>9
  <2> QED
    BY <2>1, <2>2
<1>11. ASSUME NEW n \in 1..m, n - 1 \in Good PROVE n \in Good
  <2>1. last[n - 1] = Rest(n - 1) /\ n \in 0..m
    BY <1>2, <1>11
  <2> QED
    BY <1>5, <1>9, <2>1
<1>12. \A n \in 0..m : n \in Good
  <2> HIDE DEF Good
  <2> QED
    BY <1>2, <1>10, <1>11, UpTo
<1>13. Rest(m) = from[<<1, TRUE>>]
  <2>1. m - m + 1 = 1
    BY <1>2
  <2> QED
    BY <2>1 DEF Rest, StartOf, Expecting
<1>14. m \in 0..m
  BY <1>2
<1> QED
  BY <1>12, <1>13, <1>14

OrderedCut(C) == InOrder(C, <)

\* The body of MeaningOfCut, for the ends in their order.
MeaningOfEnds(p, ends) ==
    LET token(n) == SubSeq(p, StartOf(ends, n), ends[n])
        last[n \in 0..Len(ends)] ==
            IF n = 0 THEN {<<>>}
            ELSE {new \o rest : new \in Meaning(token(Len(ends) - n + 1)), rest \in last[n - 1]}
    IN  IF IsCut(p, ends) THEN last[Len(ends)] ELSE {}

LEMMA MeaningIs == \A p, C : MeaningOfCut(p, C) = MeaningOfEnds(p, OrderedCut(C))
BY DEF MeaningOfCut, MeaningOfEnds, OrderedCut, InOrder

LEMMA NoMeaning == \A p, ends : ~IsCut(p, ends) => MeaningOfEnds(p, ends) = {}
BY DEF MeaningOfEnds

LEMMA CutMeans ==
    ASSUME NEW A, NEW p \in Seq(A), NEW from, RoundByRound(from, p),
           NEW C \in SUBSET (1..Len(p)), Len(p) \in C, IsCut(p, OrderedCut(C))
    PROVE  MeaningOfCut(p, C) = from[<<1, TRUE>>]
<1> DEFINE ends == OrderedCut(C)
           last == CHOOSE f : IsLast(f, p, ends)
<1>1. Rises(ends, 1, Len(p))
  <2> DEFINE d == Len(p)
  <2>1. d \in Nat
    OBVIOUS
  <2>2. C \in SUBSET (1..d) /\ d \in C
    OBVIOUS
  <2> HIDE DEF d
  <2>3. Rises(InOrder(C, <), 1, d)
    BY <2>1, <2>2, CutInOrder
  <2> QED
    BY <2>3 DEF d, OrderedCut
<1>2. MeaningOfCut(p, C) = MeaningOfEnds(p, ends)
  BY MeaningIs
<1>3. IsCut(p, ends)
  OBVIOUS
<1> HIDE DEF ends
<1>4. MeaningOfEnds(p, ends) = last[Len(ends)]
  BY <1>3 DEF MeaningOfEnds, IsLast, Appended, TokenAt
<1>5. /\ \E f : IsLast(f, p, ends)
      /\ \A f : IsLast(f, p, ends) => f[Len(ends)] = from[<<1, TRUE>>]
  BY <1>1, LastMeans DEF ends
<1>6. IsLast(last, p, ends)
  BY <1>5
<1> HIDE DEF last
<1> QED
  BY <1>2, <1>4, <1>5, <1>6

-----------------------------------------------------------------------------
(* A text that compiles has a cut *)

StartAt(i, ends, n) == IF n = 1 THEN i ELSE ends[n - 1] + 1

\* The text from place i on is cut into tokens.
CutFrom(p, ends, i, expecting) ==
    /\ Rises(ends, i, Len(p))
    /\ \A n \in DOMAIN ends :
          /\ IsToken(p, StartAt(i, ends, n), ends[n])
          /\ p[StartAt(i, ends, n)] = "." =>
                IF n = 1 THEN ~expecting ELSE p[StartAt(i, ends, n - 1)] # "."

LEMMA OneTokenCut ==
    ASSUME NEW A, NEW p \in Seq(A), NEW i \in 1..Len(p), IsToken(p, i, Len(p)),
           NEW expecting \in BOOLEAN, p[i] = "." => ~expecting
    PROVE  CutFrom(p, <<Len(p)>>, i, expecting)
<1> DEFINE ends == <<Len(p)>>
<1>1. Len(p) \in Nat /\ i \in Nat /\ i <= Len(p) /\ Len(p) \in i..Len(p)
  OBVIOUS
<1>2. DOMAIN ends = {1} /\ ends[1] = Len(p) /\ Len(ends) = 1 /\ ends \in Seq(i..Len(p))
  BY <1>1
<1>3. Rises(ends, i, Len(p))
  <2>1. ends # <<>>
    OBVIOUS
  <2>2. \A a, b \in DOMAIN ends : ~(a < b)
    BY <1>2
  <2> HIDE DEF ends
  <2> QED
    BY <1>2, <2>1, <2>2 DEF Rises
<1> HIDE DEF ends
<1>4. StartAt(i, ends, 1) = i
  BY DEF StartAt
<1>5. CutFrom(p, ends, i, expecting)
  BY <1>2, <1>3, <1>4 DEF CutFrom
<1> QED
  BY <1>5 DEF ends

\* A function on the first numbers is a sequence.
LEMMA FunctionIsSeq ==
    ASSUME NEW S, NEW n \in Nat, NEW f \in [1..n -> S]
    PROVE  f \in Seq(S)
  OBVIOUS

\* One element more, before a sequence.
Prepends(u, x, t, S) ==
    /\ Len(u) = Len(t) + 1 /\ DOMAIN u = 1..(Len(t) + 1)
    /\ u[1] = x /\ \A n \in DOMAIN t : u[n + 1] = t[n]
    /\ u \in [1..(Len(t) + 1) -> S]

LEMMA PrependedPlaces ==
    ASSUME NEW S, NEW x \in S, NEW t \in Seq(S)
    PROVE  Prepends(<<x>> \o t, x, t, S)
<1> DEFINE one == <<x>>
<1>1. one \in Seq(S) /\ Len(one) = 1 /\ one[1] = x
  OBVIOUS
<1> HIDE DEF one
<1>2. one \o t \in Seq(S) /\ IsConcat(one \o t, one, t)
  BY <1>1, ConcatPlaces
<1> DEFINE u == one \o t
<1> HIDE DEF u
<1>3. u \in Seq(S) /\ IsConcat(u, one, t)
  BY <1>2 DEF u
<1>4. /\ Len(t) \in Nat /\ DOMAIN t = 1..Len(t)
      /\ DOMAIN u = 1..(1 + Len(t))
      /\ u[1] = x
      /\ \A n \in DOMAIN t : u[1 + n] = t[n]
  BY <1>1, <1>3 DEF IsConcat
<1>5. u \in [1..Len(u) -> S] /\ Len(u) \in Nat /\ DOMAIN u = 1..Len(u)
  BY <1>3
<1>6. Len(u) = Len(t) + 1
  BY <1>4, <1>5
<1>7. \A n \in DOMAIN t : 1 + n = n + 1
  BY <1>4
<1> QED
  <2>1. Prepends(u, x, t, S)
    BY <1>4, <1>5, <1>6, <1>7 DEF Prepends
  <2> QED
    BY <2>1 DEF u, one

LEMMA TokenBeforeCut ==
    ASSUME NEW A, NEW p \in Seq(A), NEW i \in 1..Len(p), NEW j \in i..Len(p), IsToken(p, i, j),
           NEW expecting \in BOOLEAN, p[i] = "." => ~expecting,
           NEW rest, CutFrom(p, rest, j + 1, Dotted(p, i))
    PROVE  CutFrom(p, <<j>> \o rest, i, expecting)
<1> DEFINE ends == <<j>> \o rest
           d == Len(p)
<1>1. d \in Nat /\ i \in Nat /\ j \in Nat /\ i >= 1 /\ i <= j /\ j <= d
  OBVIOUS
<1>2. /\ rest \in Seq((j + 1)..d) /\ rest # <<>> /\ rest[Len(rest)] = d
      /\ DOMAIN rest = 1..Len(rest) /\ Len(rest) \in Nat /\ Len(rest) >= 1
      /\ \A a, b \in DOMAIN rest : a < b => rest[a] < rest[b]
      /\ \A a \in DOMAIN rest : rest[a] \in (j + 1)..d
  BY DEF CutFrom, Rises
<1>3. /\ Len(ends) = Len(rest) + 1 /\ DOMAIN ends = 1..(Len(rest) + 1)
      /\ ends[1] = j /\ \A n \in DOMAIN rest : ends[n + 1] = rest[n]
      /\ ends \in [1..(Len(rest) + 1) -> Int]
  <2>1. rest \in Seq(Int) /\ j \in Int
    BY <1>1, <1>2
  <2> HIDE DEF d
  <2>2. Prepends(ends, j, rest, Int)
    BY <2>1, PrependedPlaces
  <2> HIDE DEF ends
  <2> QED
    BY <2>2 DEF Prepends
<1>4. \A n \in DOMAIN ends : n = 1 \/ n - 1 \in DOMAIN rest
  BY <1>2, <1>3
<1>5. \A n \in DOMAIN rest : ends[n + 1] = rest[n]
  BY <1>3
<1>6. \A n \in DOMAIN ends : n # 1 => ends[n] = rest[n - 1]
  <2> TAKE n \in DOMAIN ends
  <2>1. n \in Int
    BY <1>2, <1>3
  <2>2. n # 1 => n - 1 \in DOMAIN rest /\ (n - 1) + 1 = n
    BY <1>4, <2>1
  <2> HIDE DEF ends
  <2> QED
    BY <1>5, <2>2
<1>7. ends \in Seq(i..d)
  <2>1. \A n \in DOMAIN ends : ends[n] \in i..d
    <3> TAKE n \in DOMAIN ends
    <3>1. CASE n = 1
      BY <1>1, <1>3, <3>1
    <3>2. CASE n # 1
      <4>1. ends[n] \in (j + 1)..d
        BY <1>2, <1>4, <1>6, <3>2
      <4> QED
        BY <1>1, <4>1
    <3> QED
      BY <3>1, <3>2
  <2> HIDE DEF ends
  <2>2. ends \in [1..(Len(rest) + 1) -> i..d]
    BY <1>3, <2>1
  <2>3. Len(rest) + 1 \in Nat
    BY <1>2
  <2> HIDE DEF d
  <2> QED
    BY <2>2, <2>3, FunctionIsSeq
<1> HIDE DEF ends
<1>8. Rises(ends, i, d)
  <2>1. ASSUME NEW a \in DOMAIN ends, NEW b \in DOMAIN ends, a < b
        PROVE  ends[a] < ends[b]
    <3>1. a \in Int /\ b \in Int /\ a >= 1 /\ b # 1 /\ b - 1 \in DOMAIN rest
      BY <1>2, <1>3, <1>4, <2>1
    <3>2. ends[b] = rest[b - 1] /\ rest[b - 1] \in (j + 1)..d
      BY <1>2, <1>6, <3>1
    <3>3. CASE a = 1
      BY <1>1, <1>3, <3>2, <3>3
    <3>4. CASE a # 1
      <4>1. a - 1 \in DOMAIN rest /\ a - 1 < b - 1 /\ ends[a] = rest[a - 1]
        BY <1>4, <1>6, <2>1, <3>1, <3>4
      <4> QED
        BY <1>2, <3>1, <3>2, <4>1
    <3> QED
      BY <3>3, <3>4
  <2>2. ends # <<>> /\ ends[Len(ends)] = d
    <3>1. Len(rest) + 1 \in DOMAIN ends /\ Len(rest) + 1 # 1 /\ (Len(rest) + 1) - 1 = Len(rest)
      BY <1>2, <1>3
    <3>2. ends[Len(rest) + 1] = rest[Len(rest)]
      BY <1>6, <3>1
    <3> QED
      BY <1>2, <1>3, <3>1, <3>2
  <2> QED
    BY <1>7, <2>1, <2>2 DEF Rises
<1>9. StartAt(i, ends, 1) = i
  BY DEF StartAt
<1>10. \A n \in DOMAIN ends : n # 1 => StartAt(i, ends, n) = StartAt(j + 1, rest, n - 1)
  <2> SUFFICES ASSUME NEW n \in DOMAIN ends, n # 1
               PROVE  StartAt(i, ends, n) = StartAt(j + 1, rest, n - 1)
    OBVIOUS
  <2>1. n \in Int /\ n >= 2 /\ n - 1 \in DOMAIN ends
    BY <1>2, <1>3
  <2>2. StartAt(i, ends, n) = ends[n - 1] + 1
    BY DEF StartAt
  <2>3. CASE n = 2
    BY <1>3, <2>2, <2>3 DEF StartAt
  <2>4. CASE n # 2
    <3>1. n - 1 # 1
      BY <2>1, <2>4
    <3>2. StartAt(j + 1, rest, n - 1) = rest[(n - 1) - 1] + 1
      BY <3>1 DEF StartAt
    <3>3. ends[n - 1] = rest[(n - 1) - 1]
      BY <1>6, <2>1, <3>1
    <3> QED
      BY <2>2, <3>2, <3>3
  <2> QED
    BY <2>3, <2>4
<1>11. ASSUME NEW n \in DOMAIN ends
       PROVE  /\ IsToken(p, StartAt(i, ends, n), ends[n])
              /\ p[StartAt(i, ends, n)] = "." =>
                    IF n = 1 THEN ~expecting ELSE p[StartAt(i, ends, n - 1)] # "."
  <2>1. CASE n = 1
    BY <1>3, <1>9, <2>1
  <2>2. CASE n # 1
    <3> DEFINE k == n - 1
               start == StartAt(j + 1, rest, k)
    <3>1. k \in DOMAIN rest /\ k \in DOMAIN ends /\ k \in Int
      BY <1>2, <1>3, <1>4, <2>2
    <3>2. StartAt(i, ends, n) = start /\ ends[n] = rest[k]
      BY <1>6, <1>10, <2>2
    <3>3. /\ IsToken(p, start, rest[k])
          /\ p[start] = "." =>
                IF k = 1 THEN ~Dotted(p, i) ELSE p[StartAt(j + 1, rest, k - 1)] # "."
      BY <3>1 DEF CutFrom
    <3>4. CASE k = 1
      <4>1. StartAt(i, ends, k) = i
        BY <1>9, <3>4
      <4> HIDE DEF k, start
      <4>2. p[start] = "." => p[i] # "."
        BY <3>3, <3>4 DEF Dotted
      <4> QED
        BY <2>2, <3>2, <3>3, <4>1, <4>2 DEF k
    <3>5. CASE k # 1
      <4>1. StartAt(i, ends, k) = StartAt(j + 1, rest, k - 1)
        BY <1>10, <3>1, <3>5
      <4> HIDE DEF k, start
      <4> QED
        BY <2>2, <3>2, <3>3, <3>5, <4>1 DEF k
    <3> QED
      BY <3>4, <3>5
  <2> QED
    BY <2>1, <2>2
<1>12. CutFrom(p, ends, i, expecting)
  BY <1>8, <1>11 DEF CutFrom
<1> QED
  BY <1>12 DEF ends

LEMMA CutExists ==
    ASSUME NEW A, NEW p \in Seq(A), NEW from, RoundByRound(from, p), p # <<>>,
           from[<<1, TRUE>>] # {}
    PROVE  \E ends : CutFrom(p, ends, 1, TRUE)
<1> DEFINE Cuts(i, e) == \E ends : CutFrom(p, ends, i, e)
           Fine == {place \in Places(p) :
                      place[1] <= Len(p) /\ from[place] # {} => Cuts(place[1], place[2])}
<1>1. ASSUME NEW place \in Places(p),
             \A q \in Places(p) : q[1] > place[1] => q \in Fine
      PROVE  place \in Fine
  <2> DEFINE i == place[1]
             e == place[2]
  <2>1. SUFFICES ASSUME i <= Len(p), from[place] # {} PROVE Cuts(i, e)
    OBVIOUS
  <2>2. place = <<i, e>> /\ i \in 1..(Len(p) + 1) /\ e \in BOOLEAN
    BY DEF Places
  <2> HIDE DEF i, e, Cuts
  <2>3. Len(p) \in Nat /\ i \in 1..Len(p)
    BY <2>1, <2>2
  <2>4. from[<<i, e>>] = Round(p, from, i, e) /\ from[<<i, e>>] # {}
    BY <2>1, <2>2 DEF RoundByRound
  <2>5. /\ \E j \in i..Len(p) : IsToken(p, i, j)
        /\ p[i] = "." => ~e
    BY <2>2, <2>3, <2>4, SomeToken
  <2>6. PICK j \in i..Len(p) : IsToken(p, i, j)
    BY <2>5
  <2>7. from[<<i, e>>] = Appended(Meaning(SubSeq(p, i, j)), from[<<j + 1, Dotted(p, i)>>])
    BY <2>2, <2>3, <2>5, <2>6, TokenRound
  <2> DEFINE next == <<j + 1, Dotted(p, i)>>
  <2>8. from[next] # {}
    <3> DEFINE new == Meaning(SubSeq(p, i, j))
               rest == from[next]
    <3>1. Appended(new, rest) # {}
      BY <2>4, <2>7
    <3> HIDE DEF new, rest
    <3>2. rest # {}
      BY <3>1 DEF Appended
    <3> QED
      BY <3>2 DEF rest
  <2>9. CASE j = Len(p)
    <3>1. CutFrom(p, <<Len(p)>>, i, e)
      BY <2>2, <2>3, <2>5, <2>6, <2>9, OneTokenCut
    <3> QED
      BY <3>1 DEF Cuts
  <2>10. CASE j # Len(p)
    <3>1. j + 1 \in 1..(Len(p) + 1) /\ j + 1 <= Len(p) /\ j + 1 > i /\ Dotted(p, i) \in BOOLEAN
      BY <2>3, <2>10, DottedType
    <3>2. next \in Places(p) /\ next[1] = j + 1 /\ next[2] = Dotted(p, i)
      BY <3>1 DEF Places
    <3> HIDE DEF next
    <3>3. next \in Fine
      BY <1>1, <3>1, <3>2 DEF i
    <3>4. Cuts(j + 1, Dotted(p, i))
      BY <2>8, <3>1, <3>2, <3>3
    <3>5. PICK rest : CutFrom(p, rest, j + 1, Dotted(p, i))
      BY <3>4 DEF Cuts
    <3>6. CutFrom(p, <<j>> \o rest, i, e)
      BY <2>2, <2>3, <2>5, <2>6, <3>5, TokenBeforeCut
    <3> QED
      BY <3>6 DEF Cuts
  <2> QED
    BY <2>9, <2>10
<1>2. \A place \in Places(p) : place \in Fine
  <2> HIDE DEF Fine
  <2> QED
    BY <1>1, FromTheEnd
<1>3. Len(p) \in Nat /\ 1 \in 1..(Len(p) + 1) /\ 1 <= Len(p) /\ TRUE \in BOOLEAN
  OBVIOUS
<1> DEFINE first == <<1, TRUE>>
<1>4. first \in Places(p) /\ first[1] = 1 /\ first[2] = TRUE
  BY <1>3 DEF Places
<1> HIDE DEF first, Cuts
<1>5. Cuts(1, TRUE)
  <2>1. first \in Fine /\ from[first] # {}
    BY <1>2, <1>4 DEF first
  <2> QED
    BY <1>3, <1>4, <2>1
<1> QED
  BY <1>5 DEF Cuts

-----------------------------------------------------------------------------
(* parsePath accepts what the grammar means *)

\* Where a token may end before the end of the text.
MayEnd(p, n) == p[n] \in {".", "]"} \/ p[n + 1] \in {".", "["}

\* Where one token ends before another, one of them is not an identifier.
LEMMA TokensMeet ==
    ASSUME NEW A, NEW p \in Seq(A), NEW i \in 1..Len(p), NEW j \in i..Len(p), NEW k,
           j # Len(p), IsToken(p, i, j), IsToken(p, j + 1, k)
    PROVE  MayEnd(p, j)
<1>1. CASE p[i] = "."
  <2>1. j = i
    BY <1>1, TokenKinds DEF IsToken
  <2> QED
    BY <1>1, <2>1 DEF MayEnd
<1>2. CASE p[i] = "["
  BY <1>2, TokenKinds DEF IsToken, MayEnd
<1>3. CASE p[i] # "." /\ p[i] # "["
  <2>1. ~isIdentPart(p[j + 1])
    BY <1>3 DEF IsToken
  <2>2. ~isIdentStart(p[j + 1])
    BY <2>1, TokenKinds
  <2> QED
    BY <2>2 DEF IsToken, MayEnd
<1> QED
  BY <1>1, <1>2, <1>3

LEMMA StartsAgree == \A ends, n : StartAt(1, ends, n) = StartOf(ends, n)
BY DEF StartAt, StartOf

LEMMA CutFromIsCut ==
    ASSUME NEW A, NEW p \in Seq(A), NEW ends, CutFrom(p, ends, 1, TRUE)
    PROVE  /\ IsCut(p, ends)
           /\ \A n \in DOMAIN ends : n # Len(ends) =>
                 ends[n] \in 1..(Len(p) - 1) /\ MayEnd(p, ends[n])
<1>1. /\ ends \in Seq(1..Len(p)) /\ DOMAIN ends = 1..Len(ends) /\ Len(ends) \in Nat
      /\ ends[Len(ends)] = Len(p) /\ Len(p) \in Nat /\ Rises(ends, 1, Len(p))
      /\ \A a, b \in DOMAIN ends : a < b => ends[a] < ends[b]
  BY DEF CutFrom, Rises
<1>2. \A n \in DOMAIN ends :
         /\ IsToken(p, StartOf(ends, n), ends[n])
         /\ p[StartOf(ends, n)] = "." => n # 1 /\ p[StartOf(ends, n - 1)] # "."
  BY StartsAgree DEF CutFrom
<1>3. IsCut(p, ends)
  <2>1. \A n \in DOMAIN ends : n # 1 => n > 1
    BY <1>1
  <2> QED
    BY <1>2, <2>1 DEF IsCut
<1>4. ASSUME NEW n \in DOMAIN ends, n # Len(ends)
      PROVE  ends[n] \in 1..(Len(p) - 1) /\ MayEnd(p, ends[n])
  <2> DEFINE i == StartOf(ends, n)
             j == ends[n]
  <2>1. n \in Nat /\ n + 1 \in DOMAIN ends /\ n < Len(ends) /\ Len(ends) \in DOMAIN ends
    BY <1>1, <1>4
  <2>2. j \in 1..Len(p) /\ j < Len(p)
    BY <1>1, <2>1
  <2>3. i \in 1..Len(p) /\ j \in i..Len(p) /\ StartOf(ends, n + 1) = j + 1
    BY <1>1, Starts
  <2>4. IsToken(p, i, j) /\ IsToken(p, j + 1, ends[n + 1])
    BY <1>2, <2>1, <2>3
  <2> HIDE DEF i, j
  <2>5. j # Len(p) /\ j \in 1..(Len(p) - 1)
    BY <1>1, <2>2
  <2>6. MayEnd(p, j)
    BY <2>3, <2>4, <2>5, TokensMeet
  <2> QED
    BY <2>5, <2>6 DEF j
<1> QED
  BY <1>3, <1>4

\* A text that is not empty compiles to a segment at least.
LEMMA SegmentsNotEmpty ==
    ASSUME NEW A, NEW p \in Seq(A), NEW from, RoundByRound(from, p), p # <<>>
    PROVE  from[<<1, TRUE>>] \ {<<>>} = from[<<1, TRUE>>]
<1>1. Len(p) \in Nat /\ 1 \in 1..(Len(p) + 1) /\ ~(1 > Len(p)) /\ TRUE \in BOOLEAN /\ 1 \in 1..Len(p)
  OBVIOUS
<1>2. from[<<1, TRUE>>] = Round(p, from, 1, TRUE)
  BY <1>1 DEF RoundByRound
<1>3. SUFFICES ASSUME <<>> \in Round(p, from, 1, TRUE) PROVE FALSE
  BY <1>2
<1>4. \A place \in Places(p) : from[place] \in SUBSET Seq(Tokens(p))
  BY PlacesParse DEF Parses
<1>5. \A seg, rest : rest \in SUBSET Seq(Tokens(p)) => <<>> \notin Then(seg, rest)
  <2> TAKE seg, rest
  <2>1. \A segs \in Seq(Tokens(p)) : <<seg>> \o segs # <<>>
    <3> TAKE segs \in Seq(Tokens(p))
    <3> DEFINE X == Tokens(p) \cup {seg}
    <3>1. segs \in Seq(X) /\ <<seg>> \in Seq(X)
      OBVIOUS
    <3> HIDE DEF X
    <3>2. Len(<<seg>> \o segs) = 1 + Len(segs) /\ Len(segs) \in Nat
      BY <3>1
    <3> QED
      BY <3>2
  <2> QED
    BY <2>1 DEF Then
<1>6. CASE p[1] = "."
  BY <1>1, <1>3, <1>6 DEF Round
<1>7. CASE p[1] = "["
  <2> DEFINE SegmentsIn(end) == parseSubscript(Trim(SubSeq(p, 1 + 1, end - 1)))
             Made(end) == UNION {Then(seg, from[<<end + 1, FALSE>>]) : seg \in SegmentsIn(end)}
  <2>1. Round(p, from, 1, TRUE) = UNION {Made(end) : end \in Closing(p, 1)}
    BY <1>1, <1>7 DEF Round
  <2>2. PICK end \in Closing(p, 1) : <<>> \in Made(end)
    <3> HIDE DEF Made
    <3> QED
      BY <1>3, <2>1
  <2>3. end \in 1..Len(p)
    BY DEF Closing
  <2>4. end + 1 \in 1..(Len(p) + 1) /\ FALSE \in BOOLEAN
    BY <1>1, <2>3
  <2>5. from[<<end + 1, FALSE>>] \in SUBSET Seq(Tokens(p))
    BY <1>4, <2>4 DEF Places
  <2> HIDE DEF SegmentsIn
  <2>6. PICK seg \in SegmentsIn(end) : <<>> \in Then(seg, from[<<end + 1, FALSE>>])
    BY <2>2
  <2> QED
    BY <1>5, <2>5, <2>6
<1>8. CASE p[1] # "." /\ p[1] # "["
  <2>1. isIdentStart(p[1])
    BY <1>1, <1>3, <1>8 DEF Round
  <2> DEFINE end == RunEnd(p, 1, {c \in ToSet(p) : isIdentPart(c)})
             seg == Field(SubSeq(p, 1, end))
  <2>2. Round(p, from, 1, TRUE) = Then(seg, from[<<end + 1, FALSE>>])
    BY <1>1, <1>8, <2>1 DEF Round
  <2>3. end \in 1..Len(p)
    BY <1>1, <2>1, RunEndPlace
  <2> HIDE DEF end, seg
  <2>4. end + 1 \in 1..(Len(p) + 1) /\ FALSE \in BOOLEAN
    BY <1>1, <2>3
  <2>5. from[<<end + 1, FALSE>>] \in SUBSET Seq(Tokens(p))
    BY <1>4, <2>4 DEF Places
  <2> QED
    BY <1>3, <1>5, <2>2, <2>5
<1> QED
  BY <1>6, <1>7, <1>8

LEMMA SomeCutMeans ==
    ASSUME NEW A, NEW p \in Seq(A), NEW from, RoundByRound(from, p), p # <<>>,
           from[<<1, TRUE>>] # {}
    PROVE  \E cuts \in SUBSET {i \in 1..(Len(p) - 1) : MayEnd(p, i)} :
               MeaningOfCut(p, cuts \cup {Len(p)}) = from[<<1, TRUE>>]
<1>1. PICK ends : CutFrom(p, ends, 1, TRUE)
  BY CutExists
<1> DEFINE m == Len(ends)
           cuts == {ends[n] : n \in {k \in DOMAIN ends : k # m}}
           C == ToSet(ends)
<1>2. /\ Rises(ends, 1, Len(p)) /\ Len(p) \in Nat /\ ends \in Seq(1..Len(p))
      /\ m \in DOMAIN ends /\ ends[m] = Len(p)
  BY <1>1 DEF CutFrom, Rises
<1>3. /\ IsCut(p, ends)
      /\ \A n \in DOMAIN ends : n # m => ends[n] \in 1..(Len(p) - 1) /\ MayEnd(p, ends[n])
  BY <1>1, CutFromIsCut
<1>4. cuts \in SUBSET {i \in 1..(Len(p) - 1) : MayEnd(p, i)}
  BY <1>3
<1>5. C = {ends[n] : n \in DOMAIN ends}
  BY DEF ToSet
<1> HIDE DEF m
<1>6. C = cuts \cup {Len(p)}
  BY <1>2, <1>5
<1>7. C \in SUBSET (1..Len(p)) /\ Len(p) \in C
  <2>1. \A n \in DOMAIN ends : ends[n] \in 1..Len(p)
    BY <1>2
  <2> QED
    BY <1>2, <1>5, <2>1
<1> HIDE DEF C, cuts
<1>8. OrderedCut(C) = ends
  <2>1. InOrder(ToSet(ends), <) = ends
    BY <1>2, RisingInOrder
  <2> QED
    BY <2>1 DEF OrderedCut, C
<1>9. MeaningOfCut(p, C) = from[<<1, TRUE>>]
  BY <1>3, <1>7, <1>8, CutMeans
<1> QED
  BY <1>4, <1>6, <1>9

\* On every text, the loop of parsePath and the grammar agree.
LEMMA ParsesTheGrammar ==
    ASSUME NEW A, NEW expr \in Seq(A)
    PROVE  parsePath(expr) = Grammar(expr)
<1> DEFINE p == Bare(expr)
           ends == {i \in 1..(Len(p) - 1) : MayEnd(p, i)}
           tried == {c \in SUBSET ends : p # <<>>}
           Meant(c) == MeaningOfCut(p, c \cup {Len(p)})
<1>1. p \in Seq(A)
  BY BareTyped
<1>2. parsePath(expr) = Segments(p) \ {<<>>} /\ Grammar(expr) = UNION {Meant(c) : c \in tried}
  BY DEF parsePath, Grammar, MayEnd
<1> HIDE DEF p, Meant
<1>3. PICK from : RoundByRound(from, p) /\ Segments(p) = from[<<1, TRUE>>]
  BY <1>1, SegmentsRounds
<1>4. CASE p = <<>>
  <2>1. Len(p) = 0 /\ 1 \in 1..(Len(p) + 1) /\ 1 > Len(p) /\ TRUE \in BOOLEAN
    BY <1>4
  <2>2. from[<<1, TRUE>>] = Round(p, from, 1, TRUE)
    BY <1>3, <2>1 DEF RoundByRound
  <2>3. from[<<1, TRUE>>] = {<<>>}
    BY <2>1, <2>2 DEF Round
  <2>4. tried = {}
    BY <1>4
  <2>5. parsePath(expr) = {}
    BY <1>2, <1>3, <2>3
  <2> HIDE DEF tried
  <2>6. UNION {Meant(c) : c \in tried} = {}
    BY <2>4
  <2> QED
    BY <1>2, <2>5, <2>6
<1>5. CASE p # <<>>
  <2> DEFINE meaning == from[<<1, TRUE>>]
  <2>1. parsePath(expr) = meaning
    BY <1>1, <1>2, <1>3, <1>5, SegmentsNotEmpty
  <2>2. ASSUME NEW c \in tried
        PROVE  Meant(c) \in {meaning, {}}
    <3> DEFINE C == c \cup {Len(p)}
    <3>1. C \in SUBSET (1..Len(p)) /\ Len(p) \in C
      <4>1. Len(p) \in Nat /\ Len(p) >= 1
        BY <1>1, <1>5
      <4>2. ends \in SUBSET (1..Len(p))
        BY <4>1
      <4>3. c \in SUBSET ends
        OBVIOUS
      <4> HIDE DEF ends, tried
      <4>4. c \in SUBSET (1..Len(p)) /\ Len(p) \in 1..Len(p)
        BY <4>1, <4>2, <4>3
      <4> QED
        BY <4>4
    <3>2. Meant(c) = MeaningOfCut(p, C)
      BY DEF Meant
    <3> HIDE DEF C
    <3>3. CASE IsCut(p, OrderedCut(C))
      <4>1. MeaningOfCut(p, C) = meaning
        BY <1>1, <1>3, <3>1, <3>3, CutMeans
      <4> QED
        BY <3>2, <4>1
    <3>4. CASE ~IsCut(p, OrderedCut(C))
      <4>1. MeaningOfEnds(p, OrderedCut(C)) = {}
        BY <3>4, NoMeaning
      <4> QED
        BY <3>2, <4>1, MeaningIs
    <3> QED
      BY <3>3, <3>4
  <2>3. meaning # {} => \E c \in tried : Meant(c) = meaning
    <3> SUFFICES ASSUME meaning # {} PROVE \E c \in tried : Meant(c) = meaning
      OBVIOUS
    <3>1. \E c \in SUBSET ends : MeaningOfCut(p, c \cup {Len(p)}) = meaning
      BY <1>1, <1>3, <1>5, SomeCutMeans
    <3> QED
      BY <1>5, <3>1 DEF Meant
  <2> HIDE DEF tried, meaning
  <2>4. UNION {Meant(c) : c \in tried} = meaning
    BY <2>2, <2>3
  <2> QED
    BY <1>2, <2>1, <2>4
<1> QED
  BY <1>4, <1>5

\* A rule is refused for a text that does not compile, and for nothing else.
RefusedInv == stage = "refused" => ~Compiles(rule)

LEMMA RefusedStep == RefusedInv /\ [Next]_vars => RefusedInv'
<1> SUFFICES ASSUME RefusedInv, [Next]_vars PROVE RefusedInv'
  OBVIOUS
<1>1. CASE Compile
  <2>1. rule' = rule /\ stage' = IF Compiles(rule) THEN "compiled" ELSE "refused"
    BY <1>1 DEF Compile
  <2>2. Compiles(rule)' <=> Compiles(rule)
    BY <2>1 DEF Compiles, PathsOf, LabelPaths
  <2> QED
    BY <2>1, <2>2 DEF RefusedInv
<1>2. CASE Scrape
  <2>1. rule' = rule /\ stage' = stage
    BY <1>2 DEF Scrape
  <2>2. Compiles(rule)' <=> Compiles(rule)
    BY <2>1 DEF Compiles, PathsOf, LabelPaths
  <2> QED
    BY <2>1, <2>2 DEF RefusedInv
<1>3. CASE UNCHANGED vars
  <2>1. rule' = rule /\ stage' = stage
    BY <1>3 DEF vars
  <2>2. Compiles(rule)' <=> Compiles(rule)
    BY <2>1 DEF Compiles, PathsOf, LabelPaths
  <2> QED
    BY <2>1, <2>2 DEF RefusedInv
<1> QED
  BY <1>1, <1>2, <1>3 DEF Next

(***************************************************************************)
(* A rule starts if and only if each of its texts is in the grammar, and   *)
(* then each text means what the grammar says it means (Compile: parsePath *)
(* of every path when the collector is created).                           *)
(***************************************************************************)
THEOREM RulesAlwaysStartIfInTheGrammar == Spec => []StartsIfInTheGrammar
<1>1. Init => RefusedInv
  BY DEF Init, RefusedInv
<1>2. ASSUME TypeInv, RefusedInv PROVE StartsIfInTheGrammar
  <2>1. \A path \in PathsOf(rule) : parsePath(path) = Grammar(path)
    <3> TAKE path \in PathsOf(rule)
    <3>1. path \in Seq(STRING)
      <4>1. rule \in RuleTexts
        BY <1>2 DEF TypeInv
      <4> QED
        BY <4>1, PathsTyped
    <3> QED
      BY <3>1, ParsesTheGrammar
  <2>2. stage = "refused" => \E path \in PathsOf(rule) : parsePath(path) = {}
    BY <1>2 DEF RefusedInv, Compiles
  <2> QED
    BY <2>1, <2>2 DEF StartsIfInTheGrammar
<1> QED
  BY <1>1, <1>2, RefusedStep, TypeAlways, PTL DEF Spec

-----------------------------------------------------------------------------
(* sort.Strings: the order of the keys *)

Rank(c) == CHOOSE i \in DOMAIN ByteOrder : ByteOrder[i] = c

\* s and t are the same up to place n, where s ends or has the smaller character.
SmallerAt(s, t, n) ==
    /\ n <= Len(s) /\ n < Len(t)
    /\ \A k \in 1..n : s[k] = t[k]
    /\ n = Len(s) \/ Rank(s[n + 1]) < Rank(t[n + 1])

LEMMA RankTyped ==
    /\ \A c \in Range(ByteOrder) : Rank(c) \in Nat
    /\ \A b, c \in Range(ByteOrder) : Rank(b) = Rank(c) => b = c
<1>1. DOMAIN ByteOrder = 1..Len(ByteOrder) /\ Len(ByteOrder) \in Nat
  BY KeysAssumption
<1>2. \A c \in Range(ByteOrder) : Rank(c) \in DOMAIN ByteOrder /\ ByteOrder[Rank(c)] = c
  <2> TAKE c \in Range(ByteOrder)
  <2>1. \E i \in DOMAIN ByteOrder : ByteOrder[i] = c
    BY DEF Range
  <2> QED
    BY <2>1 DEF Rank
<1>3. \A i \in DOMAIN ByteOrder : i \in Nat
  BY <1>1
<1> QED
  BY <1>2, <1>3

LEMMA SamePart ==
    ASSUME NEW A, NEW s \in Seq(A), NEW t \in Seq(A),
           NEW n \in Nat, n <= Len(s), n <= Len(t)
    PROVE  SubSeq(s, 1, n) = SubSeq(t, 1, n) <=> \A k \in 1..n : s[k] = t[k]
<1>1. Len(s) \in Nat /\ Len(t) \in Nat /\ 1 \in Int /\ n \in Int
  OBVIOUS
<1>2. \A k \in 1..n : s[k] \in A /\ t[k] \in A
  <2>1. \A k \in 1..n : k \in 1..Len(s) /\ k \in 1..Len(t)
    BY <1>1
  <2> QED
    BY <2>1
<1> DEFINE a == SubSeq(s, 1, n)
           b == SubSeq(t, 1, n)
<1>3. n - 1 + 1 = n /\ \A k \in 1..n : 1 + k - 1 = k
  BY <1>1
<1>4. /\ a \in Seq(A) /\ Len(a) = IF 1 <= n THEN n - 1 + 1 ELSE 0
      /\ \A k \in 1..(n - 1 + 1) : a[k] = s[1 + k - 1]
  BY <1>1, <1>2, SubSeqProperties
<1>5. /\ b \in Seq(A) /\ Len(b) = IF 1 <= n THEN n - 1 + 1 ELSE 0
      /\ \A k \in 1..(n - 1 + 1) : b[k] = t[1 + k - 1]
  BY <1>1, <1>2, SubSeqProperties
<1> HIDE DEF a, b
<1>6. Len(a) = n /\ Len(b) = n
  BY <1>1, <1>4, <1>5
<1>7. \A k \in 1..n : a[k] = s[k] /\ b[k] = t[k]
  BY <1>3, <1>4, <1>5
<1>8. (\A k \in 1..n : a[k] = b[k]) => a = b
  BY <1>4, <1>5, <1>6
<1>9. a = b <=> \A k \in 1..n : s[k] = t[k]
  BY <1>7, <1>8
<1> QED
  BY <1>9 DEF a, b

LEMMA BeforeAt ==
    ASSUME NEW s \in Seq(Range(ByteOrder)), NEW t \in Seq(Range(ByteOrder))
    PROVE  Before(s, t) <=> \E n \in Nat : SmallerAt(s, t, n)
<1>1. Len(s) \in Nat /\ Len(t) \in Nat
  OBVIOUS
<1>2. Before(s, t) <=>
         \E n \in 0..Len(s) : /\ n < Len(t)
                              /\ SubSeq(s, 1, n) = SubSeq(t, 1, n)
                              /\ n = Len(s) \/ Rank(s[n + 1]) < Rank(t[n + 1])
  BY DEF Before, Rank
<1>3. ASSUME NEW n \in Nat, n <= Len(s), n < Len(t)
      PROVE  SubSeq(s, 1, n) = SubSeq(t, 1, n) <=> \A k \in 1..n : s[k] = t[k]
  <2>1. n <= Len(t)
    BY <1>1, <1>3
  <2> QED
    BY <1>3, <2>1, SamePart
<1>4. \A n : n \in 0..Len(s) <=> n \in Nat /\ n <= Len(s)
  BY <1>1
<1> QED
  BY <1>2, <1>3, <1>4 DEF SmallerAt

LEMMA BeforeIsStrict ==
    ASSUME NEW s \in Seq(Range(ByteOrder))
    PROVE  ~Before(s, s)
<1>1. SUFFICES ASSUME NEW n \in Nat, SmallerAt(s, s, n) PROVE FALSE
  BY BeforeAt
<1>2. Len(s) \in Nat /\ n < Len(s) /\ n + 1 \in DOMAIN s
  BY <1>1 DEF SmallerAt
<1>3. s[n + 1] \in Range(ByteOrder)
  BY <1>2
<1>4. Rank(s[n + 1]) \in Nat
  BY <1>3, RankTyped
<1> QED
  BY <1>1, <1>2, <1>4 DEF SmallerAt

LEMMA BeforeIsTransitive ==
    ASSUME NEW s \in Seq(Range(ByteOrder)), NEW t \in Seq(Range(ByteOrder)),
           NEW u \in Seq(Range(ByteOrder)), Before(s, t), Before(t, u)
    PROVE  Before(s, u)
<1>1. PICK n \in Nat : SmallerAt(s, t, n)
  BY BeforeAt
<1>2. PICK m \in Nat : SmallerAt(t, u, m)
  BY BeforeAt
<1>3. Len(s) \in Nat /\ Len(t) \in Nat /\ Len(u) \in Nat
  OBVIOUS
<1>4. /\ n <= Len(s) /\ n < Len(t) /\ m <= Len(t) /\ m < Len(u)
      /\ \A k \in 1..n : s[k] = t[k]
      /\ \A k \in 1..m : t[k] = u[k]
      /\ n = Len(s) \/ Rank(s[n + 1]) < Rank(t[n + 1])
      /\ m = Len(t) \/ Rank(t[m + 1]) < Rank(u[m + 1])
  BY <1>1, <1>2 DEF SmallerAt
<1>5. SUFFICES \E l \in Nat : SmallerAt(s, u, l)
  BY BeforeAt
<1>6. CASE n < m
  <2>1. n < Len(u) /\ n + 1 \in 1..m /\ \A k \in 1..n : k \in 1..m
    BY <1>3, <1>4, <1>6
  <2>2. SmallerAt(s, u, n)
    BY <1>4, <2>1 DEF SmallerAt
  <2> QED
    BY <2>2
<1>7. CASE m < n
  <2>1. m <= Len(s) /\ m < Len(t) /\ m + 1 \in 1..n /\ \A k \in 1..m : k \in 1..n
    BY <1>3, <1>4, <1>7
  <2>2. Rank(t[m + 1]) < Rank(u[m + 1]) /\ s[m + 1] = t[m + 1]
    BY <1>3, <1>4, <2>1
  <2>3. SmallerAt(s, u, m)
    BY <1>4, <2>1, <2>2 DEF SmallerAt
  <2> QED
    BY <2>3
<1>8. CASE m = n
  <2>1. m < Len(t) /\ Rank(t[n + 1]) < Rank(u[n + 1])
    BY <1>3, <1>4, <1>8
  <2>2. n = Len(s) \/ Rank(s[n + 1]) < Rank(u[n + 1])
    <3>1. SUFFICES ASSUME n # Len(s) PROVE Rank(s[n + 1]) < Rank(u[n + 1])
      OBVIOUS
    <3>2. n + 1 \in DOMAIN s /\ n + 1 \in DOMAIN t /\ n + 1 \in DOMAIN u
      BY <1>3, <1>4, <1>8, <3>1
    <3>3. /\ s[n + 1] \in Range(ByteOrder) /\ t[n + 1] \in Range(ByteOrder)
          /\ u[n + 1] \in Range(ByteOrder)
      BY <3>2
    <3>4. Rank(s[n + 1]) \in Nat /\ Rank(t[n + 1]) \in Nat /\ Rank(u[n + 1]) \in Nat
      BY <3>3, RankTyped
    <3> QED
      BY <1>4, <2>1, <3>1, <3>4
  <2>3. SmallerAt(s, u, n)
    BY <1>4, <1>8, <2>2 DEF SmallerAt
  <2> QED
    BY <2>3
<1> QED
  BY <1>6, <1>7, <1>8

LEMMA BeforeIsTotal ==
    ASSUME NEW s \in Seq(Range(ByteOrder)), NEW t \in Seq(Range(ByteOrder)), s # t
    PROVE  Before(s, t) \/ Before(t, s)
<1>1. Len(s) \in Nat /\ Len(t) \in Nat
  OBVIOUS
<1> DEFINE Differ == {k \in Nat : k >= 1 /\ k <= Len(s) /\ k <= Len(t) /\ s[k] # t[k]}
<1>2. CASE Differ = {}
  <2>1. \A k \in Nat : k >= 1 /\ k <= Len(s) /\ k <= Len(t) => s[k] = t[k]
    BY <1>2
  <2>2. CASE Len(s) < Len(t)
    <3>1. \A k \in 1..Len(s) : s[k] = t[k]
      BY <1>1, <2>1, <2>2
    <3>2. SmallerAt(s, t, Len(s))
      BY <1>1, <2>2, <3>1 DEF SmallerAt
    <3> QED
      BY <1>1, <3>2, BeforeAt
  <2>3. CASE Len(t) < Len(s)
    <3>1. \A k \in 1..Len(t) : t[k] = s[k]
      BY <1>1, <2>1, <2>3
    <3>2. SmallerAt(t, s, Len(t))
      BY <1>1, <2>3, <3>1 DEF SmallerAt
    <3> QED
      BY <1>1, <3>2, BeforeAt
  <2>4. CASE Len(s) = Len(t)
    <3>1. \A k \in 1..Len(s) : s[k] = t[k]
      BY <1>1, <2>1, <2>4
    <3>2. s = t
      BY <2>4, <3>1
    <3> QED
      BY <3>2
  <2> QED
    BY <1>1, <2>2, <2>3, <2>4
<1>3. CASE Differ # {}
  <2>1. PICK k \in Differ : \A l \in Differ : ~(l < k)
    <3>1. Differ \in SUBSET Nat
      OBVIOUS
    <3> HIDE DEF Differ
    <3> QED
      BY <1>3, <3>1, LeastNumber
  <2> DEFINE n == k - 1
  <2>2. /\ n \in Nat /\ n + 1 = k /\ n < Len(s) /\ n < Len(t) /\ s[k] # t[k]
        /\ k \in DOMAIN s /\ k \in DOMAIN t
    BY <1>1, <2>1
  <2>3. \A l \in 1..n : s[l] = t[l]
    <3> SUFFICES ASSUME NEW l \in 1..n, s[l] # t[l] PROVE FALSE
      OBVIOUS
    <3>1. l \in Differ /\ l < k
      BY <1>1, <2>2
    <3> QED
      BY <2>1, <3>1
  <2>4. s[k] \in Range(ByteOrder) /\ t[k] \in Range(ByteOrder)
    BY <2>2
  <2>5. Rank(s[k]) \in Nat /\ Rank(t[k]) \in Nat /\ Rank(s[k]) # Rank(t[k])
    BY <2>2, <2>4, RankTyped
  <2>6. Rank(s[k]) < Rank(t[k]) \/ Rank(t[k]) < Rank(s[k])
    BY <2>5
  <2> HIDE DEF n, Differ
  <2>7. SmallerAt(s, t, n) \/ SmallerAt(t, s, n)
    BY <1>1, <2>2, <2>3, <2>6 DEF SmallerAt
  <2> QED
    BY <2>2, <2>7, BeforeAt
<1> QED
  BY <1>2, <1>3

KeyOrder == {x \in MapKeys \X MapKeys : Before(x[1], x[2])}

KeysOf(S) == InOrder(S, Before)

LEMMA KeyOrderIsStrict ==
    ASSUME NEW S \in SUBSET MapKeys
    PROVE  StrictOrder(S, KeyOrder)
<1>1. MapKeys \in SUBSET Seq(Range(ByteOrder))
  BY KeysAssumption
<1>2. \A x, y \in S : <<x, y>> \in KeyOrder <=> Before(x, y)
  BY DEF KeyOrder
<1>3. \A x \in S : x \in Seq(Range(ByteOrder))
  BY <1>1
<1>4. \A x \in S : ~Before(x, x)
  BY <1>3, BeforeIsStrict
<1>5. \A x, y, z \in S : Before(x, y) /\ Before(y, z) => Before(x, z)
  BY <1>3, BeforeIsTransitive
<1>6. \A x, y \in S : x = y \/ Before(x, y) \/ Before(y, x)
  BY <1>3, BeforeIsTotal
<1> QED
  BY <1>2, <1>4, <1>5, <1>6 DEF StrictOrder

LEMMA KeysInOrder ==
    ASSUME NEW S \in SUBSET MapKeys
    PROVE  Sorts(KeysOf(S), S, KeyOrder)
<1>1. IsFiniteSet(S)
  BY KeysAssumption, FS_Subset
<1>2. PICK s : Sorts(s, S, KeyOrder)
  BY <1>1, KeyOrderIsStrict, SortExists
<1>3. Enumerates(s, S) /\ \A i, j \in DOMAIN s : <<s[i], s[j]>> \in KeyOrder <=> i < j
  BY <1>2 DEF Sorts
<1>4. \A i \in DOMAIN s : s[i] \in S
  <2>1. s \in [1..Len(s) -> S] /\ DOMAIN s = 1..Len(s)
    BY <1>3 DEF Enumerates
  <2> QED
    BY <2>1
<1>5. \A i \in DOMAIN s, x \in S :
         Cardinality({y \in S : Before(y, x)}) = i - 1 <=> x = s[i]
  <2> TAKE i \in DOMAIN s, x \in S
  <2>1. {y \in S : Before(y, x)} = {y \in S : <<y, x>> \in KeyOrder}
    BY DEF KeyOrder
  <2>2. \A k \in DOMAIN s, z \in S :
           Cardinality({y \in S : <<y, z>> \in KeyOrder}) = k - 1 <=> z = s[k]
    BY <1>3, OnlyPlace, SMTT(30)
  <2> QED
    BY <2>1, <2>2
<1>6. DOMAIN s = 1..Cardinality(S) /\ s = [i \in DOMAIN s |-> s[i]]
  BY <1>3, EnumeratedSize DEF Enumerates
<1>7. \A i \in 1..Cardinality(S) :
         (CHOOSE x \in S : Cardinality({y \in S : Before(y, x)}) = i - 1) = s[i]
  BY <1>4, <1>5, <1>6
<1>8. KeysOf(S) = s
  BY <1>6, <1>7 DEF KeysOf, InOrder
<1> QED
  BY <1>2, <1>8

\* What the order of some keys means.
LEMMA KeysOfTyped ==
    ASSUME NEW S \in SUBSET MapKeys, NEW s, s = KeysOf(S)
    PROVE  /\ DOMAIN s = 1..Len(s) /\ Len(s) \in Nat
           /\ \A n \in DOMAIN s : s[n] \in S
           /\ \A x \in S : \E n \in DOMAIN s : s[n] = x
           /\ \A a, b \in DOMAIN s : s[a] = s[b] => a = b
           /\ \A a, b \in DOMAIN s : <<s[a], s[b]>> \in KeyOrder <=> a < b
<1>1. Enumerates(s, S) /\ \A a, b \in DOMAIN s : <<s[a], s[b]>> \in KeyOrder <=> a < b
  BY KeysInOrder DEF Sorts
<1>2. s \in [1..Len(s) -> S] /\ DOMAIN s = 1..Len(s) /\ Len(s) \in Nat
  BY <1>1 DEF Enumerates
<1> QED
  BY <1>1, <1>2 DEF Enumerates

\* The ranks of some keys, in the order of the keys.
RanksOf(ranks, S) ==
    /\ DOMAIN ranks = 1..Len(KeysOf(S)) /\ Enumerates(ranks, Ranks(S))
    /\ \A n \in DOMAIN ranks : /\ ranks[n] \in Nat /\ ranks[n] \in DOMAIN SortedKeys
                               /\ SortedKeys[ranks[n]] = KeysOf(S)[n]
    /\ \A a, b \in DOMAIN ranks : a < b <=> ranks[a] < ranks[b]

LEMMA RanksInOrder ==
    ASSUME NEW S \in SUBSET MapKeys
    PROVE  \E ranks : RanksOf(ranks, S)
<1> DEFINE s == KeysOf(S)
           all == SortedKeys
           ranks == [n \in 1..Len(s) |-> CHOOSE k \in DOMAIN all : all[k] = s[n]]
<1>1. /\ DOMAIN s = 1..Len(s) /\ Len(s) \in Nat
      /\ \A n \in DOMAIN s : s[n] \in S
      /\ \A x \in S : \E n \in DOMAIN s : s[n] = x
      /\ \A a, b \in DOMAIN s : s[a] = s[b] => a = b
      /\ \A a, b \in DOMAIN s : <<s[a], s[b]>> \in KeyOrder <=> a < b
  BY KeysOfTyped
<1>2. /\ DOMAIN all = 1..Len(all) /\ Len(all) \in Nat
      /\ \A x \in MapKeys : \E n \in DOMAIN all : all[n] = x
      /\ \A a, b \in DOMAIN all : all[a] = all[b] => a = b
      /\ \A a, b \in DOMAIN all : <<all[a], all[b]>> \in KeyOrder <=> a < b
  <2>1. all = KeysOf(MapKeys) /\ MapKeys \in SUBSET MapKeys
    BY DEF SortedKeys, KeysOf
  <2> HIDE DEF all
  <2> QED
    BY <2>1, KeysOfTyped
<1>3. Ranks(S) = {k \in DOMAIN all : all[k] \in S}
  BY DEF Ranks
<1> HIDE DEF s, all
<1>4. ASSUME NEW n \in 1..Len(s)
      PROVE  ranks[n] \in DOMAIN all /\ all[ranks[n]] = s[n]
  <2>1. \E k \in DOMAIN all : all[k] = s[n]
    BY <1>1, <1>2
  <2> QED
    BY <2>1
<1>5. DOMAIN ranks = 1..Len(s)
  OBVIOUS
<1> HIDE DEF ranks
<1>6. \A n \in DOMAIN ranks : /\ ranks[n] \in Nat /\ ranks[n] \in Ranks(S)
                              /\ ranks[n] \in DOMAIN all /\ all[ranks[n]] = s[n]
  BY <1>1, <1>2, <1>3, <1>4, <1>5
<1>7. \A a, b \in DOMAIN ranks : a < b <=> ranks[a] < ranks[b]
  <2> TAKE a, b \in DOMAIN ranks
  <2>1. a < b <=> <<s[a], s[b]>> \in KeyOrder
    BY <1>1, <1>5
  <2>2. ranks[a] < ranks[b] <=> <<all[ranks[a]], all[ranks[b]]>> \in KeyOrder
    BY <1>2, <1>6
  <2> QED
    BY <1>6, <2>1, <2>2
<1>8. Enumerates(ranks, Ranks(S))
  <2>1. ranks \in Seq(Ranks(S))
    <3>1. ranks = [n \in 1..Len(s) |-> ranks[n]]
      BY <1>5 DEF ranks
    <3>2. ranks \in [1..Len(s) -> Ranks(S)]
      BY <1>5, <1>6, <3>1
    <3> QED
      BY <1>1, <3>2
  <2>2. \A a, b \in DOMAIN ranks : ranks[a] = ranks[b] => a = b
    BY <1>1, <1>5, <1>6
  <2>3. \A k \in Ranks(S) : \E n \in DOMAIN ranks : ranks[n] = k
    <3> TAKE k \in Ranks(S)
    <3>1. k \in DOMAIN all /\ all[k] \in S
      BY <1>3
    <3>2. PICK n \in DOMAIN s : s[n] = all[k]
      BY <1>1, <3>1
    <3>3. n \in DOMAIN ranks
      BY <1>1, <1>5
    <3>4. ranks[n] = k
      BY <1>2, <1>6, <3>1, <3>2, <3>3
    <3> QED
      BY <3>3, <3>4
  <2> QED
    BY <2>1, <2>2, <2>3 DEF Enumerates
<1>9. RanksOf(ranks, S)
  BY <1>5, <1>6, <1>7, <1>8 DEF RanksOf, s, all
<1> QED
  BY <1>9

\* The first keys are those of the first ranks.
Rounds(maxKeys, n) == IF maxKeys = 0 THEN n ELSE Min({maxKeys, n})

LEMMA RoundsTyped ==
    ASSUME NEW maxKeys \in Nat, NEW n \in Nat
    PROVE  /\ Rounds(maxKeys, n) \in 0..n
           /\ \A k \in 1..n : k <= Rounds(maxKeys, n) <=> maxKeys = 0 \/ k - 1 < maxKeys
<1>1. CASE maxKeys = 0
  BY <1>1 DEF Rounds
<1>2. CASE maxKeys # 0
  <2> DEFINE T == {maxKeys, n}
             d == maxKeys + n
  <2>1. T \in SUBSET (0..d) /\ T # {} /\ d \in Nat
    OBVIOUS
  <2> HIDE DEF d, T
  <2>2. Min(T) \in T /\ \A k \in T : Min(T) <= k
    BY <2>1, LeastPlace
  <2>3. Rounds(maxKeys, n) = Min(T)
    BY <1>2 DEF Rounds, T
  <2>4. Min(T) = maxKeys \/ Min(T) = n
    BY <2>2 DEF T
  <2>5. Min(T) <= maxKeys /\ Min(T) <= n
    BY <2>2 DEF T
  <2> QED
    BY <1>2, <2>3, <2>4, <2>5
<1> QED
  BY <1>1, <1>2

LEMMA FirstRanks ==
    ASSUME NEW S \in SUBSET MapKeys, NEW ranks, RanksOf(ranks, S), NEW maxKeys \in Nat
    PROVE  FirstKeys(Ranks(S), maxKeys)
           = {ranks[n] : n \in 1..Rounds(maxKeys, Len(KeysOf(S)))}
<1> DEFINE K == Ranks(S)
           m == Len(KeysOf(S))
           R == {x \in K \X K : x[1] < x[2]}
           first == 1..Rounds(maxKeys, m)
<1>1. /\ DOMAIN ranks = 1..m /\ Enumerates(ranks, K)
      /\ \A a, b \in DOMAIN ranks : a < b <=> ranks[a] < ranks[b]
      /\ \A n \in DOMAIN ranks : ranks[n] \in K /\ ranks[n] \in Nat
  <2>1. DOMAIN ranks = 1..m /\ Enumerates(ranks, K)
    BY DEF RanksOf
  <2>2. \A a, b \in DOMAIN ranks : a < b <=> ranks[a] < ranks[b]
    BY DEF RanksOf
  <2>3. \A n \in DOMAIN ranks : ranks[n] \in Nat
    BY DEF RanksOf
  <2>4. ranks \in [1..Len(ranks) -> K] /\ DOMAIN ranks = 1..Len(ranks)
    BY <2>1 DEF Enumerates
  <2> HIDE DEF K, m
  <2> QED
    BY <2>1, <2>2, <2>3, <2>4
<1>2. m \in Nat
  BY KeysOfTyped
<1> HIDE DEF K, m
<1>3. \A n \in DOMAIN ranks : Cardinality({j \in K : j < ranks[n]}) = n - 1
  <2>1. \A a, b \in DOMAIN ranks : <<ranks[a], ranks[b]>> \in R <=> a < b
    BY <1>1
  <2>2. Enumerates(ranks, K)
    BY <1>1
  <2> TAKE n \in DOMAIN ranks
  <2>3. {j \in K : j < ranks[n]} = {y \in K : <<y, ranks[n]>> \in R}
    BY <1>1
  <2> HIDE DEF R
  <2>4. Cardinality({y \in K : <<y, ranks[n]>> \in R}) = n - 1
    <3>1. \A k \in DOMAIN ranks, z \in K :
             Cardinality({y \in K : <<y, z>> \in R}) = k - 1 <=> z = ranks[k]
      BY <2>1, <2>2, OnlyPlace, SMTT(30)
    <3> QED
      BY <1>1, <3>1
  <2> QED
    BY <2>3, <2>4
<1>4. /\ Rounds(maxKeys, m) \in 0..m
      /\ \A k \in 1..m : k <= Rounds(maxKeys, m) <=> maxKeys = 0 \/ k - 1 < maxKeys
  BY <1>2, RoundsTyped
<1>5. \A n \in 1..m : n \in first <=> maxKeys = 0 \/ n - 1 < maxKeys
  BY <1>2, <1>4
<1>6. first \subseteq 1..m
  BY <1>2, <1>4
<1> HIDE DEF first
<1>7. \A k \in K : (maxKeys = 0 \/ Cardinality({j \in K : j < k}) < maxKeys)
                     <=> \E n \in first : k = ranks[n]
  <2> TAKE k \in K
  <2>1. PICK n \in DOMAIN ranks : ranks[n] = k
    BY <1>1 DEF Enumerates
  <2>2. Cardinality({j \in K : j < k}) = n - 1
    BY <1>3, <2>1
  <2>3. (maxKeys = 0 \/ Cardinality({j \in K : j < k}) < maxKeys) <=> n \in first
    BY <1>1, <1>5, <2>1, <2>2
  <2>4. \A l \in first : ranks[l] = k => l = n
    BY <1>1, <1>6, <2>1 DEF Enumerates
  <2> QED
    BY <2>1, <2>3, <2>4
<1>8. \A n \in first : ranks[n] \in K
  BY <1>1, <1>6
<1>9. FirstKeys(K, maxKeys) = {ranks[n] : n \in first}
  BY <1>7, <1>8 DEF FirstKeys
<1> QED
  BY <1>9 DEF K, m, first

-----------------------------------------------------------------------------
(* The loop over the keys, and what it leaves *)

NameAt(e, kept, n) == e.prefix \o sanitizeLabelKey(kept[n])

TextAt(entries, kept, n) == stringifyValue(entries[kept[n]])

OneMore(old, name, text) ==
    IF text = Empty THEN old
    ELSE [label \in DOMAIN old \cup {name} |-> IF label = name THEN text ELSE old[label]]

\* The function that LoopOverKeys defines.
IsOut(out, e, entries, kept, d) ==
    out = [n \in 0..d |->
             IF n = 0 THEN NoLabels
             ELSE OneMore(out[n - 1], NameAt(e, kept, n), TextAt(entries, kept, n))]

\* The rounds that give a label, and what they leave after round n.
Giving(entries, kept, n) == {k \in 1..n : TextAt(entries, kept, k) # Empty}

Naming(e, entries, kept, n, label) ==
    {k \in Giving(entries, kept, n) : NameAt(e, kept, k) = label}

Left(e, entries, kept, n) ==
    [label \in {NameAt(e, kept, k) : k \in Giving(entries, kept, n)} |->
        TextAt(entries, kept, Max(Naming(e, entries, kept, n, label)))]

LEMMA LeftStep ==
    ASSUME NEW e, NEW entries, NEW kept, NEW n \in Nat, n >= 1
    PROVE  Left(e, entries, kept, n)
           = OneMore(Left(e, entries, kept, n - 1), NameAt(e, kept, n), TextAt(entries, kept, n))
<1> DEFINE name == NameAt(e, kept, n)
           text == TextAt(entries, kept, n)
           old == Left(e, entries, kept, n - 1)
           G(m) == Giving(entries, kept, m)
           N(m, label) == Naming(e, entries, kept, m, label)
<1>1. \A k : k \in 1..n <=> k \in 1..(n - 1) \/ k = n
  OBVIOUS
<1>2. CASE text = Empty
  <2>1. G(n) = G(n - 1)
    BY <1>1, <1>2 DEF Giving
  <2>2. \A label : N(n, label) = N(n - 1, label)
    BY <2>1 DEF Naming
  <2> HIDE DEF G, N
  <2>3. Left(e, entries, kept, n) = [label \in {NameAt(e, kept, k) : k \in G(n)} |->
                                       TextAt(entries, kept, Max(N(n, label)))]
    BY DEF Left, G, N
  <2>4. old = [label \in {NameAt(e, kept, k) : k \in G(n - 1)} |->
                 TextAt(entries, kept, Max(N(n - 1, label)))]
    BY DEF Left, G, N
  <2>5. Left(e, entries, kept, n) = old
    BY <2>1, <2>2, <2>3, <2>4
  <2> QED
    BY <1>2, <2>5 DEF OneMore
<1>3. CASE text # Empty
  <2> DEFINE new == [label \in DOMAIN old \cup {name} |->
                       IF label = name THEN text ELSE old[label]]
             Names(m) == {NameAt(e, kept, k) : k \in G(m)}
             Last1(m, label) == TextAt(entries, kept, Max(N(m, label)))
  <2>1. G(n) = G(n - 1) \cup {n}
    BY <1>1, <1>3 DEF Giving
  <2>2. Names(n) = Names(n - 1) \cup {name}
    <3> HIDE DEF G
    <3> QED
      BY <2>1
  <2>3. \A label : label # name => N(n, label) = N(n - 1, label)
    BY <2>1 DEF Naming
  <2>4. Max(N(n, name)) = n
    <3> DEFINE T == N(n, name)
    <3>1. T \in SUBSET (0..n) /\ n \in T /\ \A k \in T : k <= n
      <4>1. G(n) \in SUBSET (1..n)
        BY DEF Giving
      <4>2. T \in SUBSET G(n) /\ n \in T
        BY <2>1 DEF Naming
      <4> HIDE DEF T, G
      <4>3. T \in SUBSET (1..n)
        BY <4>1, <4>2
      <4> QED
        BY <4>2, <4>3
    <3> HIDE DEF T
    <3>2. Max(T) \in T /\ \A k \in T : k <= Max(T)
      BY <3>1, GreatestPlace
    <3> HIDE DEF name, text, old, new
    <3>3. Max(T) <= n /\ n <= Max(T)
      BY <3>1, <3>2
    <3>4. \A k \in T : k \in Int
      BY <3>1
    <3>5. Max(T) = n
      BY <3>2, <3>3, <3>4
    <3> QED
      BY <3>5 DEF T
  <2>5. Left(e, entries, kept, n) = [label \in Names(n) |-> Last1(n, label)]
    BY DEF Left
  <2>6. old = [label \in Names(n - 1) |-> Last1(n - 1, label)]
    BY DEF Left
  <2>7. /\ \A label : label # name => Last1(n, label) = Last1(n - 1, label)
        /\ Last1(n, name) = text
    BY <2>3, <2>4
  <2> HIDE DEF Names, Last1, old, name, text
  <2>8. DOMAIN old = Names(n - 1) /\ \A label \in Names(n - 1) : old[label] = Last1(n - 1, label)
    BY <2>6
  <2>9. Left(e, entries, kept, n) = new
    <3>1. \A label \in Names(n) :
             Last1(n, label) = IF label = name THEN text ELSE old[label]
      BY <2>2, <2>7, <2>8
    <3> QED
      BY <2>2, <2>5, <2>8, <3>1
  <2>10. OneMore(old, name, text) = new
    BY <1>3 DEF OneMore
  <2> QED
    BY <2>9, <2>10 DEF old, name, text
<1> QED
  BY <1>2, <1>3

LEMMA LeftNothing == \A e, entries, kept : Left(e, entries, kept, 0) = NoLabels
<1> TAKE e, entries, kept
<1>1. Giving(entries, kept, 0) = {}
  BY DEF Giving
<1>2. {NameAt(e, kept, k) : k \in Giving(entries, kept, 0)} = {}
  BY <1>1
<1> QED
  BY <1>2 DEF Left, NoLabels

LEMMA OutLeaves ==
    ASSUME NEW e, NEW entries, NEW kept, NEW d \in Nat
    PROVE  /\ \E out : IsOut(out, e, entries, kept, d)
           /\ \A out : IsOut(out, e, entries, kept, d) => out[d] = Left(e, entries, kept, d)
<1> DEFINE Is(out, n) ==
              out[n] = IF n = 0 THEN NoLabels
                       ELSE OneMore(out[n - 1], NameAt(e, kept, n), TextAt(entries, kept, n))
           g == [n \in 0..d |-> Left(e, entries, kept, n)]
<1>1. \A n \in 0..d : n # 0 => n - 1 \in 0..d /\ n \in Nat /\ n >= 1 /\ n \in 1..d
  OBVIOUS
<1>2. IsOut(g, e, entries, kept, d)
  <2>1. \A n \in 0..d : Is(g, n)
    <3> TAKE n \in 0..d
    <3>1. g[n] = Left(e, entries, kept, n)
      OBVIOUS
    <3>2. n # 0 => g[n - 1] = Left(e, entries, kept, n - 1)
      BY <1>1
    <3> HIDE DEF g
    <3>3. n # 0 => Left(e, entries, kept, n) = OneMore(Left(e, entries, kept, n - 1),
                                                 NameAt(e, kept, n), TextAt(entries, kept, n))
      BY <1>1, LeftStep
    <3> QED
      BY <3>1, <3>2, <3>3, LeftNothing
  <2>2. g = [n \in 0..d |-> g[n]]
    OBVIOUS
  <2> HIDE DEF g
  <2> QED
    BY <2>1, <2>2 DEF IsOut
<1>3. ASSUME NEW out, IsOut(out, e, entries, kept, d)
      PROVE  out[d] = Left(e, entries, kept, d)
  <2> DEFINE Good == {n \in 0..d : out[n] = Left(e, entries, kept, n)}
  <2>1. \A n \in 0..d : Is(out, n)
    BY <1>3 DEF IsOut
  <2>2. 0 \in Good
    BY <2>1, LeftNothing
  <2>3. ASSUME NEW n \in 1..d, n - 1 \in Good PROVE n \in Good
    <3>1. n \in 0..d /\ n # 0 /\ n \in Nat /\ n >= 1
      OBVIOUS
    <3>2. out[n] = OneMore(out[n - 1], NameAt(e, kept, n), TextAt(entries, kept, n))
      BY <2>1, <3>1
    <3>3. out[n - 1] = Left(e, entries, kept, n - 1)
      BY <2>3
    <3> QED
      BY <3>1, <3>2, <3>3, LeftStep
  <2>4. \A n \in 0..d : n \in Good
    <3> HIDE DEF Good
    <3> QED
      BY <2>2, <2>3, UpTo
  <2>5. d \in 0..d
    OBVIOUS
  <2> QED
    BY <2>4, <2>5
<1> QED
  BY <1>2, <1>3

\* The body of LoopOverKeys, for the keys in their order.
LoopOverKept(expand, entries, kept) ==
    LET rounds  == IF expand.maxKeys = 0 THEN Len(kept) ELSE Min({expand.maxKeys, Len(kept)})
        name(n) == expand.prefix \o sanitizeLabelKey(kept[n])
        text(n) == stringifyValue(entries[kept[n]])
        out[n \in 0..rounds] ==
            IF n = 0 THEN NoLabels
            ELSE IF text(n) = Empty THEN out[n - 1]
            ELSE [label \in DOMAIN out[n - 1] \cup {name(n)} |->
                     IF label = name(n) THEN text(n) ELSE out[n - 1][label]]
    IN  out[rounds]

\* The keys that the lists let through.
LetThrough(e, entries) ==
    {key \in DOMAIN entries : /\ key \notin e.deny
                              /\ e.allow = {} \/ key \in e.allow}

LEMMA LoopIs ==
    \A e, entries : LoopOverKeys(e, entries)
                    = LoopOverKept(e, entries, KeysOf(LetThrough(e, entries)))
BY DEF LoopOverKeys, LoopOverKept, KeysOf, LetThrough, InOrder

LEMMA LoopLeaves ==
    ASSUME NEW e, NEW entries, NEW kept, e.maxKeys \in Nat, Len(kept) \in Nat
    PROVE  LoopOverKept(e, entries, kept)
           = Left(e, entries, kept, Rounds(e.maxKeys, Len(kept)))
<1> DEFINE d == Rounds(e.maxKeys, Len(kept))
           out == CHOOSE f : IsOut(f, e, entries, kept, d)
<1>1. LoopOverKept(e, entries, kept) = out[d]
  BY DEF LoopOverKept, IsOut, OneMore, NameAt, TextAt, Rounds
<1>2. d \in Nat
  <2> DEFINE n == Len(kept)
  <2> HIDE DEF n
  <2>1. Rounds(e.maxKeys, n) \in 0..n
    BY RoundsTyped DEF n
  <2> QED
    BY <2>1 DEF n
<1> HIDE DEF d
<1>3. /\ \E f : IsOut(f, e, entries, kept, d)
      /\ \A f : IsOut(f, e, entries, kept, d) => f[d] = Left(e, entries, kept, d)
  BY <1>2, OutLeaves
<1>4. IsOut(out, e, entries, kept, d)
  BY <1>3
<1> HIDE DEF out
<1> QED
  BY <1>1, <1>3, <1>4 DEF d

-----------------------------------------------------------------------------
(* EvaluateExpand and the loop leave the same labels *)

\* MapOf of an object, and EvaluateExpand of a map.
TextsOf(entries) == [k \in Ranks(DOMAIN entries) |-> stringifyValue(entries[SortedKeys[k]])]

ValuedKeys(expand, map) == {k \in ExpandKeys(expand, map) : map[k] # Empty}

Expanded(expand, map) ==
    [label \in {expand.labelName[k] : k \in ValuedKeys(expand, map)} |->
        map[Max({k \in ValuedKeys(expand, map) : expand.labelName[k] = label})]]

\* A number that is not below any other.
LEMMA MaxIs ==
    ASSUME NEW W \in SUBSET Nat, NEW m \in W, \A k \in W : k <= m
    PROVE  Max(W) = m
<1>1. \A k \in W : m >= k
  OBVIOUS
<1>2. Max(W) \in W /\ \A k \in W : Max(W) >= k
  BY <1>1 DEF Max
<1>3. Max(W) >= m /\ Max(W) <= m /\ Max(W) \in Nat /\ m \in Nat
  BY <1>2
<1> QED
  BY <1>3

RanksThrough(expand, map) ==
    {k \in DOMAIN map : /\ k \notin expand.deny
                        /\ expand.allow = {} \/ k \in expand.allow}

LEMMA ExpandKeysIs ==
    \A expand, map : ExpandKeys(expand, map) = FirstKeys(RanksThrough(expand, map), expand.maxKeys)
BY DEF ExpandKeys, RanksThrough

\* The lists let through the ranks of the keys that they let through.
LEMMA RanksLetThrough ==
    ASSUME NEW e, NEW i, NEW entries, DOMAIN entries \subseteq MapKeys, e.allow \subseteq MapKeys,
           NEW x, x = CompiledExpand(e, i)
    PROVE  RanksThrough(x, TextsOf(entries)) = Ranks(LetThrough(e, entries))
<1> DEFINE all == SortedKeys
<1>1. \A key \in MapKeys : \E k \in DOMAIN all : all[k] = key
  <2>1. all = KeysOf(MapKeys) /\ MapKeys \in SUBSET MapKeys
    BY DEF SortedKeys, KeysOf
  <2> HIDE DEF all
  <2> QED
    BY <2>1, KeysOfTyped
<1>2. x.deny = Ranks(e.deny) /\ x.allow = Ranks(e.allow)
  BY DEF CompiledExpand
<1>3. DOMAIN TextsOf(entries) = Ranks(DOMAIN entries)
  BY DEF TextsOf
<1>4. \A T : Ranks(T) = {k \in DOMAIN all : all[k] \in T}
  BY DEF Ranks
<1> HIDE DEF all
<1>5. x.allow = {} <=> e.allow = {}
  BY <1>1, <1>2, <1>4
<1> QED
  BY <1>2, <1>3, <1>4, <1>5 DEF LetThrough, RanksThrough

LEMMA ExpandIsLoop ==
    ASSUME NEW e, NEW i, NEW entries, DOMAIN entries \subseteq MapKeys, e.allow \subseteq MapKeys,
           e.maxKeys \in Nat, NEW x, x = CompiledExpand(e, i)
    PROVE  Expanded(x, TextsOf(entries)) = LoopOverKeys(e, entries)
<1> DEFINE S == LetThrough(e, entries)
           kept == KeysOf(S)
           map == TextsOf(entries)
           d == Rounds(e.maxKeys, Len(kept))
           G == Giving(entries, kept, d)
           N(label) == Naming(e, entries, kept, d, label)
           V == ValuedKeys(x, map)
<1>1. S \in SUBSET MapKeys /\ S \subseteq DOMAIN entries
  BY DEF LetThrough
<1>2. PICK ranks : RanksOf(ranks, S)
  BY <1>1, RanksInOrder
<1>3. /\ DOMAIN kept = 1..Len(kept) /\ Len(kept) \in Nat
      /\ \A n \in DOMAIN kept : kept[n] \in S
  <2> HIDE DEF S
  <2> QED
    BY <1>1, KeysOfTyped
<1>4. d \in 0..Len(kept)
  <2> HIDE DEF kept
  <2> QED
    BY <1>3, RoundsTyped
<1>5. ExpandKeys(x, map) = {ranks[n] : n \in 1..d}
  <2>1. x.maxKeys = e.maxKeys
    BY DEF CompiledExpand
  <2>2. RanksThrough(x, map) = Ranks(S)
    BY RanksLetThrough
  <2>3. ExpandKeys(x, map) = FirstKeys(Ranks(S), e.maxKeys)
    BY <2>1, <2>2, ExpandKeysIs
  <2> HIDE DEF S
  <2>4. FirstKeys(Ranks(S), e.maxKeys) = {ranks[n] : n \in 1..Rounds(e.maxKeys, Len(KeysOf(S)))}
    BY <1>1, <1>2, FirstRanks
  <2> QED
    BY <2>3, <2>4
<1>6. \A n \in 1..d : /\ n \in DOMAIN kept /\ n \in DOMAIN ranks
                      /\ ranks[n] \in Nat /\ ranks[n] \in DOMAIN SortedKeys
                      /\ SortedKeys[ranks[n]] = kept[n]
  <2>1. DOMAIN ranks = 1..Len(kept)
    BY <1>2 DEF RanksOf
  <2>2. \A n \in 1..d : n \in DOMAIN kept /\ n \in DOMAIN ranks
    <3> HIDE DEF d, kept
    <3> QED
      BY <1>3, <1>4, <2>1
  <2>3. \A n \in DOMAIN ranks : /\ ranks[n] \in Nat /\ ranks[n] \in DOMAIN SortedKeys
                                /\ SortedKeys[ranks[n]] = kept[n]
    BY <1>2 DEF RanksOf
  <2> HIDE DEF d, kept
  <2> QED
    BY <2>2, <2>3
<1>7. \A a, b \in 1..d : a < b <=> ranks[a] < ranks[b]
  <2>1. \A a, b \in DOMAIN ranks : a < b <=> ranks[a] < ranks[b]
    BY <1>2 DEF RanksOf
  <2> HIDE DEF d, kept
  <2> QED
    BY <1>6, <2>1
<1> HIDE DEF d, kept, S
<1>8. ASSUME NEW n \in 1..d
      PROVE  map[ranks[n]] = TextAt(entries, kept, n) /\ x.labelName[ranks[n]] = NameAt(e, kept, n)
  <2>1. kept[n] \in DOMAIN entries /\ ranks[n] \in DOMAIN SortedKeys /\ SortedKeys[ranks[n]] = kept[n]
    BY <1>1, <1>3, <1>6
  <2>2. ranks[n] \in Ranks(DOMAIN entries)
    BY <2>1 DEF Ranks
  <2>3. map[ranks[n]] = stringifyValue(entries[kept[n]])
    BY <2>1, <2>2 DEF TextsOf
  <2>4. x.labelName = [k \in DOMAIN SortedKeys |-> e.prefix \o sanitizeLabelKey(SortedKeys[k])]
    BY DEF CompiledExpand
  <2>5. x.labelName[ranks[n]] = e.prefix \o sanitizeLabelKey(kept[n])
    BY <2>1, <2>4
  <2> QED
    BY <2>3, <2>5 DEF TextAt, NameAt
<1> HIDE DEF map
<1>9. V = {ranks[n] : n \in G}
  <2>1. V = {k \in ExpandKeys(x, map) : map[k] # Empty}
    BY DEF ValuedKeys
  <2>2. G = {n \in 1..d : TextAt(entries, kept, n) # Empty}
    BY DEF Giving
  <2> HIDE DEF V, G
  <2> QED
    BY <1>5, <1>8, <2>1, <2>2
<1>10. G \subseteq 1..d
  BY DEF Giving
<1> HIDE DEF V, G
<1> DEFINE Labels == {x.labelName[k] : k \in V}
           Names == {NameAt(e, kept, n) : n \in G}
<1>11. Labels = Names
  BY <1>8, <1>9, <1>10
<1>12. ASSUME NEW label \in Names
       PROVE  map[Max({k \in V : x.labelName[k] = label})] = TextAt(entries, kept, Max(N(label)))
  <2> DEFINE W == {k \in V : x.labelName[k] = label}
             T == N(label)
  <2>1. T = {n \in G : NameAt(e, kept, n) = label}
    BY DEF Naming, G
  <2> HIDE DEF T
  <2>2. T # {} /\ T \subseteq 1..d
    BY <1>10, <2>1
  <2>3. W = {ranks[n] : n \in T}
    BY <1>8, <1>9, <1>10, <2>1
  <2> HIDE DEF W
  <2>4. d \in Nat /\ T \in SUBSET (0..d)
    <3>1. d \in Nat
      BY <1>3, <1>4
    <3>2. 1..d \subseteq 0..d
      BY <3>1
    <3> QED
      BY <2>2, <3>1, <3>2
  <2> DEFINE m == Max(T)
  <2>5. m \in T /\ \A n \in T : n <= m
    BY <2>2, <2>4, GreatestPlace
  <2> HIDE DEF m
  <2>6. m \in 1..d
    BY <2>2, <2>5
  <2>7. W \in SUBSET Nat /\ ranks[m] \in W
    BY <1>6, <2>2, <2>3, <2>5
  <2>8. \A k \in W : k <= ranks[m]
    <3> TAKE k \in W
    <3>1. PICK n \in T : k = ranks[n]
      BY <2>3
    <3>2. n \in 1..d /\ n <= m /\ ranks[n] \in Nat /\ ranks[m] \in Nat
      BY <1>6, <2>2, <2>5, <2>6
    <3>3. ~(ranks[m] < ranks[n])
      BY <1>7, <2>4, <2>6, <3>2
    <3> QED
      BY <3>1, <3>2, <3>3
  <2>9. Max(W) = ranks[m]
    BY <2>7, <2>8, MaxIs
  <2>10. map[ranks[m]] = TextAt(entries, kept, m)
    BY <1>8, <2>6
  <2> QED
    BY <2>9, <2>10 DEF W, m, T
<1>13. Expanded(x, map) = Left(e, entries, kept, d)
  <2>1. Expanded(x, map) = [label \in Labels |-> map[Max({k \in V : x.labelName[k] = label})]]
    BY DEF Expanded, V
  <2>2. Left(e, entries, kept, d) = [label \in Names |-> TextAt(entries, kept, Max(N(label)))]
    BY DEF Left, G
  <2> HIDE DEF Labels, Names, N
  <2> QED
    BY <1>11, <1>12, <2>1, <2>2
<1>14. LoopOverKept(e, entries, kept) = Left(e, entries, kept, d)
  <2>1. Len(kept) \in Nat
    BY <1>3
  <2> QED
    BY <2>1, LoopLeaves DEF d
<1>15. LoopOverKeys(e, entries) = LoopOverKept(e, entries, kept)
  BY LoopIs DEF kept, S
<1> QED
  BY <1>13, <1>14, <1>15 DEF map

(***************************************************************************)
(* The dynamic labels of an object are those of the loop over its keys in  *)
(* their order, whatever the keys, the lists and the limit                 *)
(* (docs/CONFIG.md:263, EvaluateExpand).                                   *)
(***************************************************************************)
THEOREM AlwaysExpandsInKeyOrder == Spec => []ExpandsInKeyOrder
<1>1. ASSUME TypeInv PROVE ExpandsInKeyOrder
  <2> SUFFICES ASSUME NEW i \in DOMAIN rule.expands,
                      EffectiveSource(rule.expands[i]) = "anchor",
                      NEW results \in Results(rule.expands[i].path, anchor)
               PROVE  EvaluateExpand(Compiled(rule).expands[i],
                                     [anchor |-> [maps |-> [n \in {i} |-> MapOf(results)]]], Nil)
                      = IF results = <<>> \/ Head(results).type # "map" THEN NoLabels
                        ELSE LoopOverKeys(rule.expands[i], Head(results).entries)
    BY DEF ExpandsInKeyOrder
  <2> DEFINE e == rule.expands[i]
             x == CompiledExpand(e, i)
             map == MapOf(results)
             maps == [n \in {i} |-> map]
             input == [anchor |-> [maps |-> maps]]
  <2>1. rule \in RuleTexts
    BY <1>1 DEF TypeInv
  <2>2. e.path \in Seq(STRING) /\ e.maxKeys \in Nat /\ e.allow \subseteq MapKeys
    <3>1. ExpandTextType(e)
      BY <2>1, RuleTextsAssumption
    <3>2. e.allow \subseteq MapKeys
      BY <2>1, KeysAssumption
    <3> QED
      BY <3>1, <3>2 DEF ExpandTextType
  <2>3. Compiled(rule).expands[i] = x
    BY DEF Compiled
  <2>4. x.source = "anchor" /\ x.path = i
    BY DEF CompiledExpand
  <2>5. EvaluateExpand(x, input, Nil) = Expanded(x, map)
    <3>1. input["anchor"] # Nil
      BY DEF Nil
    <3>2. input["anchor"].maps[i] = map
      OBVIOUS
    <3> HIDE DEF input, map, x
    <3>3. EvaluateExpand(x, input, Nil)
          = [label \in {x.labelName[k] : k \in ValuedKeys(x, map)} |->
                map[Max({k \in ValuedKeys(x, map) : x.labelName[k] = label})]]
      BY <2>4, <3>1, <3>2 DEF EvaluateExpand, ValuedKeys
    <3> QED
      BY <3>3 DEF Expanded
  <2>6. CASE results = <<>> \/ Head(results).type # "map"
    <3>1. map = <<>>
      BY <2>6 DEF MapOf
    <3>2. DOMAIN map = {}
      BY <3>1
    <3> HIDE DEF map, x
    <3>3. RanksThrough(x, map) = {}
      BY <3>2 DEF RanksThrough
    <3>4. ValuedKeys(x, map) = {}
      BY <3>3, ExpandKeysIs DEF ValuedKeys, FirstKeys
    <3>5. {x.labelName[k] : k \in ValuedKeys(x, map)} = {}
      BY <3>4
    <3>6. Expanded(x, map) = NoLabels
      BY <3>5 DEF Expanded, NoLabels
    <3> QED
      BY <2>3, <2>5, <2>6, <3>6 DEF x, map
  <2>7. CASE ~(results = <<>> \/ Head(results).type # "map")
    <3> DEFINE entries == Head(results).entries
    <3>1. Head(results) \in Values
      <4>1. anchor \in Values /\ DecodedValues(Values)
        BY <1>1, AnchorIsValue
      <4>2. PICK segments \in parsePath(e.path) : results \in evaluate(segments, anchor)
        BY DEF Results
      <4>3. PICK ns : /\ Enumerates(ns, NamedBy(segments, anchor))
                      /\ ValuesOf(ns) = results
                      /\ \A n \in DOMAIN ns : ns[n][2] \in Values
        <5> HIDE DEF e
        <5> QED
          BY <2>2, <4>1, <4>2, ResultsTyped
      <4>4. DOMAIN ns = 1..Len(ns) /\ Len(ns) \in Nat
        BY <4>3 DEF Enumerates
      <4>5. results = [n \in 1..Len(ns) |-> ns[n][2]]
        BY <4>3, <4>4 DEF ValuesOf
      <4>6. results \in Seq(Values)
        BY <4>3, <4>4, <4>5
      <4> QED
        BY <2>7, <4>6
    <3>2. DOMAIN entries \subseteq MapKeys
      BY <2>7, <3>1, KeysAssumption
    <3>3. map = TextsOf(entries)
      BY <2>7 DEF MapOf, TextsOf
    <3> HIDE DEF entries, x, e, map
    <3>4. Expanded(x, TextsOf(entries)) = LoopOverKeys(e, entries)
      BY <2>2, <3>2, ExpandIsLoop DEF x
    <3> QED
      BY <2>3, <2>5, <2>7, <3>3, <3>4 DEF entries, e, map
  <2> QED
    BY <2>6, <2>7
<1> QED
  BY <1>1, TypeAlways, PTL

-----------------------------------------------------------------------------
(* A text that is written from a construct on *)

\* p has the text s from place i on.
ReadsAt(p, i, s) ==
    /\ i \in Nat /\ i >= 1
    /\ i - 1 + Len(s) <= Len(p)
    /\ \A k \in 1..Len(s) : p[i - 1 + k] = s[k]

LEMMA ReadsPart ==
    ASSUME NEW A, NEW p \in Seq(A), NEW B, NEW s \in Seq(B), NEW t \in Seq(B), NEW i,
           ReadsAt(p, i, s \o t)
    PROVE  ReadsAt(p, i, s) /\ ReadsAt(p, i + Len(s), t)
<1>1. IsConcat(s \o t, s, t) /\ Len(s) \in Nat /\ Len(t) \in Nat /\ Len(p) \in Nat
      /\ Len(s \o t) = Len(s) + Len(t)
  BY ConcatPlaces, ConcatProperties
<1> DEFINE u == s \o t
<1>2. IsConcat(u, s, t) /\ Len(u) = Len(s) + Len(t) /\ ReadsAt(p, i, u)
  BY <1>1
<1> HIDE DEF u
<1>3. i \in Nat /\ i >= 1 /\ i - 1 + (Len(s) + Len(t)) <= Len(p)
  BY <1>2 DEF ReadsAt
<1>4. \A k \in 1..(Len(s) + Len(t)) : p[i - 1 + k] = u[k]
  BY <1>2 DEF ReadsAt
<1>5. ReadsAt(p, i, s)
  <2>1. \A k \in 1..Len(s) : k \in 1..(Len(s) + Len(t)) /\ u[k] = s[k]
    BY <1>1, <1>2 DEF IsConcat
  <2> QED
    BY <1>1, <1>3, <1>4, <2>1 DEF ReadsAt
<1>6. ReadsAt(p, i + Len(s), t)
  <2>1. ASSUME NEW k \in 1..Len(t) PROVE p[i + Len(s) - 1 + k] = t[k]
    <3>1. Len(s) + k \in 1..(Len(s) + Len(t)) /\ i - 1 + (Len(s) + k) = i + Len(s) - 1 + k
      BY <1>1, <1>3
    <3>2. u[Len(s) + k] = t[k]
      BY <1>2 DEF IsConcat
    <3> QED
      BY <1>4, <3>1, <3>2
  <2>2. i + Len(s) \in Nat /\ i + Len(s) >= 1 /\ i + Len(s) - 1 + Len(t) <= Len(p)
    BY <1>1, <1>3
  <2> QED
    BY <2>1, <2>2 DEF ReadsAt
<1> QED
  BY <1>5, <1>6

LEMMA ReadsIs ==
    ASSUME NEW A, NEW p \in Seq(A), NEW B, NEW s \in Seq(B), NEW i, ReadsAt(p, i, s)
    PROVE  SubSeq(p, i, i + Len(s) - 1) = s
<1> DEFINE j == i + Len(s) - 1
           u == SubSeq(p, i, j)
<1>1. i \in Nat /\ i >= 1 /\ Len(s) \in Nat /\ Len(p) \in Nat /\ j \in Int /\ j <= Len(p)
      /\ j - i + 1 = Len(s)
  BY DEF ReadsAt
<1>2. \A k \in i..j : k - i + 1 \in 1..Len(s) /\ p[k] = s[k - i + 1]
  <2> TAKE k \in i..j
  <2>1. k - i + 1 \in 1..Len(s) /\ i - 1 + (k - i + 1) = k
    BY <1>1
  <2> QED
    BY <2>1 DEF ReadsAt
<1>3. \A k \in i..j : p[k] \in B
  BY <1>2
<1> HIDE DEF j
<1>4. /\ u \in Seq(B) /\ Len(u) = (IF i <= j THEN j - i + 1 ELSE 0)
      /\ \A k \in 1..(j - i + 1) : u[k] = p[i + k - 1]
  BY <1>1, <1>3, SubSeqProperties
<1> HIDE DEF u
<1>5. Len(u) = Len(s)
  BY <1>1, <1>4
<1>6. \A k \in 1..Len(s) : u[k] = s[k]
  <2> TAKE k \in 1..Len(s)
  <2>1. k \in 1..(j - i + 1) /\ i + k - 1 = i - 1 + k
    BY <1>1
  <2>2. p[i - 1 + k] = s[k]
    BY DEF ReadsAt
  <2> QED
    BY <1>4, <2>1, <2>2
<1>7. u = s
  BY <1>4, <1>5, <1>6, SeqEqual
<1> QED
  BY <1>7 DEF u, j

\* Whether a field or a subscript must come next, as expecting has it.
Optional == FALSE
Required == TRUE

\* What the text compiles to from place i on.
At(from, i, expecting) == from[<<i, expecting>>]

LEMMA Expectations == Optional \in BOOLEAN /\ Required \in BOOLEAN
BY DEF Optional, Required

\* A text goes on with a dot or a bracket, or ends.
GoesOn(p, next) == next > Len(p) \/ p[next] \in {".", "["}

\* from is what the text p compiles to from each of its places on.
IsText(s) == \E A : s \in Seq(A)

Reading(from, p) == IsText(p) /\ RoundByRound(from, p)

\* A field goes on up to the end of the text, a dot or a bracket.
FieldAt(p, i, name) ==
    /\ IsText(name) /\ IsIdentifier(name)
    /\ ReadsAt(p, i, name) /\ GoesOn(p, i + Len(name))

LEMMA FieldRound ==
    ASSUME NEW p, NEW from, Reading(from, p), NEW i \in Nat, NEW name, FieldAt(p, i, name),
           NEW expecting \in BOOLEAN
    PROVE  At(from, i, expecting) = Then(Field(name), At(from, i + Len(name), Optional))
<1>0. /\ IsIdentifier(name) /\ ReadsAt(p, i, name) /\ GoesOn(p, i + Len(name))
      /\ RoundByRound(from, p)
  BY DEF FieldAt, Reading
<1>a. PICK A : p \in Seq(A)
  BY DEF Reading, IsText
<1>b. PICK B : name \in Seq(B)
  BY DEF FieldAt, IsText
<1> USE <1>0, <1>a, <1>b
<1> DEFINE j == i + Len(name) - 1
<1>1. Len(name) \in Nat /\ Len(name) >= 1 /\ DOMAIN name = 1..Len(name) /\ Len(p) \in Nat
  <2>1. name # <<>>
    BY DEF IsIdentifier
  <2>2. Len(name) \in Nat \ {0}
    BY <2>1, EmptySeq
  <2> QED
    BY <2>2
<1>2. /\ i \in Nat /\ i >= 1 /\ i <= j /\ j <= Len(p) /\ j \in Nat
      /\ j + 1 = i + Len(name)
  BY <1>1 DEF ReadsAt
<1>3. \A k \in i..j : k - i + 1 \in 1..Len(name) /\ p[k] = name[k - i + 1]
  <2> TAKE k \in i..j
  <2>1. k - i + 1 \in 1..Len(name) /\ i - 1 + (k - i + 1) = k
    BY <1>1, <1>2
  <2> QED
    BY <2>1 DEF ReadsAt
<1> HIDE DEF j
<1>4. isIdentStart(p[i])
  <2>1. i - i + 1 = 1 /\ i \in i..j
    BY <1>2
  <2>2. p[i] = name[1]
    BY <1>3, <2>1
  <2> QED
    BY <2>2 DEF IsIdentifier, isIdentStart
<1>5. \A k \in i..j : isIdentPart(p[k])
  BY <1>1, <1>3 DEF IsIdentifier, isIdentPart
<1>6. j = Len(p) \/ ~isIdentPart(p[j + 1])
  <2>1. CASE i + Len(name) > Len(p)
    BY <1>2, <2>1
  <2>2. CASE p[i + Len(name)] \in {".", "["}
    <3>1. p[j + 1] \in {".", "["}
      BY <1>2, <2>2
    <3>2. \A c \in Digits : c # "." /\ c # "["
      BY DEF Digits, Digit
    <3> QED
      BY <3>1, <3>2, LettersAssumption DEF isIdentPart
  <2> QED
    BY <2>1, <2>2 DEF GoesOn
<1>7. i \in 1..Len(p) /\ j \in i..Len(p) /\ ~(i > Len(p)) /\ i \in 1..(Len(p) + 1)
  BY <1>1, <1>2
<1> DEFINE end == RunEnd(p, i, {c \in ToSet(p) : isIdentPart(c)})
<1>8. end = j
  BY <1>4, <1>5, <1>6, <1>7, RunEndIs
<1>9. from[<<i, expecting>>] = Round(p, from, i, expecting)
  BY <1>7 DEF RoundByRound
<1>10. Round(p, from, i, expecting) = Then(Field(SubSeq(p, i, end)), from[<<end + 1, FALSE>>])
  BY <1>4, <1>7, TokenKinds DEF Round
<1> HIDE DEF end
<1>11. SubSeq(p, i, j) = name
  BY ReadsIs DEF j
<1> QED
  BY <1>2, <1>8, <1>9, <1>10, <1>11 DEF Optional, At

\* A dot after a segment.
LEMMA DotRound ==
    ASSUME NEW p, NEW from, Reading(from, p), NEW i \in 1..Len(p), p[i] = "."
    PROVE  At(from, i, Optional) = At(from, i + 1, Required)
<1>0. RoundByRound(from, p)
  BY DEF Reading
<1>a. PICK A : p \in Seq(A)
  BY DEF Reading, IsText
<1> USE <1>0, <1>a
<1>1. i \in 1..(Len(p) + 1) /\ ~(i > Len(p)) /\ FALSE \in BOOLEAN
  OBVIOUS
<1>2. from[<<i, FALSE>>] = Round(p, from, i, FALSE)
  BY <1>1 DEF RoundByRound
<1> QED
  BY <1>1, <1>2 DEF Round, Optional, Required, At

\* A subscript, up to the first bracket.
SubscriptAt(p, i, token) ==
    /\ IsText(token) /\ i \in 1..Len(p) /\ p[i] = "["
    /\ ReadsAt(p, i + 1, token) /\ i + Len(token) < Len(p) /\ p[i + Len(token) + 1] = "]"
    /\ \A k \in 1..Len(token) : token[k] # "]"

MeansSegment(token, seg) == Trim(token) = token /\ parseSubscript(token) = {seg}

LEMMA SubscriptRound ==
    ASSUME NEW p, NEW from, Reading(from, p), NEW i \in Nat, NEW token, SubscriptAt(p, i, token),
           NEW seg, MeansSegment(token, seg), NEW expecting \in BOOLEAN
    PROVE  At(from, i, expecting) = Then(seg, At(from, i + Len(token) + 2, Optional))
<1>0. /\ i \in 1..Len(p) /\ p[i] = "["
      /\ ReadsAt(p, i + 1, token) /\ i + Len(token) < Len(p) /\ p[i + Len(token) + 1] = "]"
      /\ \A k \in 1..Len(token) : token[k] # "]"
      /\ Trim(token) = token /\ parseSubscript(token) = {seg}
      /\ RoundByRound(from, p)
  BY DEF SubscriptAt, MeansSegment, Reading
<1>a. PICK A : p \in Seq(A)
  BY DEF Reading, IsText
<1>b. PICK B : token \in Seq(B)
  BY DEF SubscriptAt, IsText
<1> USE <1>0, <1>a, <1>b
<1> DEFINE j == i + Len(token) + 1
<1>1. /\ Len(token) \in Nat /\ Len(p) \in Nat /\ i \in Nat /\ i >= 1 /\ j \in Nat /\ j <= Len(p)
      /\ i < j /\ j + 1 = i + Len(token) + 2 /\ j - 1 = (i + 1) + Len(token) - 1
  OBVIOUS
<1>2. p[j] = "]"
  OBVIOUS
<1>3. \A k \in i..(j - 1) : p[k] # "]"
  <2> TAKE k \in i..(j - 1)
  <2>1. CASE k = i
    BY <2>1
  <2>2. CASE k # i
    <3>1. k - i \in 1..Len(token) /\ (i + 1) - 1 + (k - i) = k
      BY <1>1, <2>2
    <3>2. p[(i + 1) - 1 + (k - i)] = token[k - i]
      BY <3>1 DEF ReadsAt
    <3> QED
      BY <3>1, <3>2
  <2> QED
    BY <2>1, <2>2
<1>4. SubSeq(p, i + 1, j - 1) = token
  <2>1. SubSeq(p, i + 1, (i + 1) + Len(token) - 1) = token
    BY ReadsIs
  <2> QED
    BY <1>1, <2>1
<1> HIDE DEF j
<1>5. i \in 1..Len(p) /\ j \in i..Len(p) /\ ~(i > Len(p)) /\ i \in 1..(Len(p) + 1)
  BY <1>1
<1>6. Closing(p, i) = {j}
  BY <1>2, <1>3, <1>5, ClosingIs
<1>7. from[<<i, expecting>>] = Round(p, from, i, expecting)
  BY <1>5 DEF RoundByRound
<1> DEFINE Made(end) == UNION {Then(x, from[<<end + 1, FALSE>>]) :
                                  x \in parseSubscript(Trim(SubSeq(p, i + 1, end - 1)))}
<1>8. Round(p, from, i, expecting) = UNION {Made(end) : end \in Closing(p, i)}
  BY <1>5 DEF Round
<1>9. Made(j) = UNION {Then(x, from[<<j + 1, FALSE>>]) : x \in {seg}}
  BY <1>4
<1>10. UNION {Then(x, from[<<j + 1, FALSE>>]) : x \in {seg}} = Then(seg, from[<<j + 1, FALSE>>])
  OBVIOUS
<1>11. UNION {Made(end) : end \in Closing(p, i)} = Made(j)
  <2> HIDE DEF Made
  <2> QED
    BY <1>6
<1> HIDE DEF Made
<1> QED
  BY <1>1, <1>7, <1>8, <1>9, <1>10, <1>11 DEF Optional, At

-----------------------------------------------------------------------------
(* Spaces, braces and the first dot *)

\* A text with something else than spaces at both ends.
Solid(s) == s # <<>> /\ s[1] # " " /\ s[Len(s)] # " "

LEMMA SolidPlaces ==
    ASSUME NEW s, NEW space, NEW d \in Nat, d >= 1, DOMAIN s = 1..d, s[1] # space, s[d] # space
    PROVE  LET solid == {i \in DOMAIN s : s[i] # space}
           IN  solid # {} /\ Min(solid) = 1 /\ Max(solid) = d
<1> DEFINE solid == {i \in DOMAIN s : s[i] # space}
<1>1. 1 \in solid /\ d \in solid
  OBVIOUS
<1>2. solid \in SUBSET (0..d) /\ solid \subseteq 1..d
  OBVIOUS
<1> HIDE DEF solid
<1>3. /\ Min(solid) \in solid /\ \A k \in solid : Min(solid) <= k
      /\ Max(solid) \in solid /\ \A k \in solid : k <= Max(solid)
  BY <1>1, <1>2, LeastPlace, GreatestPlace
<1>4. Min(solid) \in 1..d /\ Min(solid) <= 1 /\ Max(solid) \in 1..d /\ d <= Max(solid)
  BY <1>1, <1>2, <1>3
<1>5. Min(solid) = 1 /\ Max(solid) = d
  BY <1>4
<1> QED
  BY <1>1, <1>5 DEF solid

LEMMA WholeText ==
    ASSUME NEW A, NEW s \in Seq(A)
    PROVE  SubSeq(s, 1, Len(s)) = s
<1>1. ReadsAt(s, 1, s)
  <2>1. Len(s) \in Nat /\ \A k \in 1..Len(s) : 1 - 1 + k = k
    OBVIOUS
  <2> QED
    BY <2>1 DEF ReadsAt
<1>2. 1 + Len(s) - 1 = Len(s)
  OBVIOUS
<1> QED
  BY <1>1, <1>2, ReadsIs

LEMMA TrimKeeps ==
    ASSUME NEW A, NEW s \in Seq(A), Solid(s)
    PROVE  Trim(s) = s
<1>1. s # <<>>
  BY Zenon DEF Solid
<1>2. Len(s) \in Nat \ {0}
  BY <1>1, EmptySeq
<1>3. DOMAIN s = 1..Len(s)
  BY LenProperties
<1>4. Len(s) \in Nat /\ Len(s) >= 1
  BY <1>2
<1>5. /\ {i \in DOMAIN s : s[i] # " "} # {}
      /\ Min({i \in DOMAIN s : s[i] # " "}) = 1
      /\ Max({i \in DOMAIN s : s[i] # " "}) = Len(s)
  BY <1>3, <1>4, SolidPlaces, ZenonT(30) DEF Solid
<1>6. Trim(s) = SubSeq(s, 1, Len(s))
  BY <1>5, Zenon DEF Trim
<1> QED
  BY <1>6, WholeText

\* A prefix begins with its first character.
LEMMA NoPrefix ==
    ASSUME NEW A, NEW s \in Seq(A), NEW prefix, Len(prefix) \in Nat, Len(prefix) >= 1,
           s = <<>> \/ s[1] # prefix[1]
    PROVE  ~IsPrefix(prefix, s)
<1> SUFFICES ASSUME IsPrefix(prefix, s) PROVE FALSE
  OBVIOUS
<1> DEFINE n == Len(prefix)
<1>1. n <= Len(s) /\ SubSeq(prefix, 1, n) = SubSeq(s, 1, n) /\ n \in Nat /\ n >= 1
  BY DEF IsPrefix
<1>2. s[1] # prefix[1]
  <2>1. s # <<>>
    BY <1>1
  <2> QED
    BY <2>1
<1> HIDE DEF n
<1> DEFINE B == {prefix[k] : k \in 1..n}
<1>3. /\ \A k \in 1..n : prefix[k] \in B
      /\ \A k \in 1..n : s[k] \in A
  <2>1. \A k \in 1..n : k \in 1..Len(s)
    BY <1>1
  <2> QED
    BY <2>1
<1>4. 1 \in 1..(n - 1 + 1) /\ 1 + 1 - 1 = 1
  BY <1>1
<1> HIDE DEF B
<1>5. \A k \in 1..(n - 1 + 1) : SubSeq(prefix, 1, n)[k] = prefix[1 + k - 1]
  BY <1>1, <1>3, SubSeqProperties
<1>6. \A k \in 1..(n - 1 + 1) : SubSeq(s, 1, n)[k] = s[1 + k - 1]
  BY <1>1, <1>3, SubSeqProperties
<1>7. SubSeq(prefix, 1, n)[1] = prefix[1] /\ SubSeq(s, 1, n)[1] = s[1]
  BY <1>4, <1>5, <1>6
<1> QED
  BY <1>1, <1>2, <1>7

\* A prefix of one character.
LEMMA OnePrefix ==
    ASSUME NEW A, NEW c, NEW s \in Seq(A), s # <<>>, s[1] = c
    PROVE  IsPrefix(<<c>>, s)
<1> DEFINE one == <<c>>
<1>1. Len(s) \in Nat \ {0}
  BY EmptySeq
<1>2. one \in Seq({c}) /\ Len(one) = 1 /\ one[1] = c
  OBVIOUS
<1> HIDE DEF one
<1>3. s[1] \in {c} /\ \A k \in 1..1 : k = 1
  OBVIOUS
<1>4. \A k \in 1..1 : s[k] \in {c} /\ one[k] \in {c}
  BY <1>2, <1>3
<1>5. /\ SubSeq(one, 1, 1) \in Seq({c}) /\ Len(SubSeq(one, 1, 1)) = 1
      /\ \A k \in 1..(1 - 1 + 1) : SubSeq(one, 1, 1)[k] = one[1 + k - 1]
  BY <1>4, SubSeqProperties
<1>6. /\ SubSeq(s, 1, 1) \in Seq({c}) /\ Len(SubSeq(s, 1, 1)) = 1
      /\ \A k \in 1..(1 - 1 + 1) : SubSeq(s, 1, 1)[k] = s[1 + k - 1]
  BY <1>4, SubSeqProperties
<1>7. SubSeq(one, 1, 1)[1] = c /\ SubSeq(s, 1, 1)[1] = c
  BY <1>2, <1>5, <1>6
<1>8. \A k \in 1..Len(SubSeq(one, 1, 1)) : SubSeq(one, 1, 1)[k] = SubSeq(s, 1, 1)[k]
  BY <1>5, <1>7
<1>9. SubSeq(one, 1, 1) = SubSeq(s, 1, 1)
  BY <1>5, <1>6, <1>8, SeqEqual
<1>10. IsPrefix(one, s)
  BY <1>1, <1>2, <1>9 DEF IsPrefix
<1> QED
  BY <1>10 DEF one

\* The text after one character.
LEMMA AfterOne ==
    ASSUME NEW A, NEW c \in A, NEW t \in Seq(A)
    PROVE  /\ <<c>> \o t \in Seq(A) /\ Len(<<c>> \o t) = Len(t) + 1 /\ (<<c>> \o t)[1] = c
           /\ <<c>> \o t # <<>>
           /\ SubSeq(<<c>> \o t, 2, Len(<<c>> \o t)) = t
<1> DEFINE one == <<c>>
<1>1. one \in Seq(A) /\ Len(one) = 1 /\ one[1] = c
  OBVIOUS
<1> HIDE DEF one
<1> DEFINE s == one \o t
<1>2. s \in Seq(A) /\ Len(s) = Len(one) + Len(t) /\ IsConcat(s, one, t)
  BY <1>1, ConcatPlaces, ConcatProperties
<1>3. ReadsAt(s, 1, s)
  <2> HIDE DEF s
  <2>1. Len(s) \in Nat /\ \A k \in 1..Len(s) : 1 - 1 + k = k
    BY <1>2
  <2> QED
    BY <2>1 DEF ReadsAt
<1>4. ReadsAt(s, 1 + Len(one), t)
  BY <1>1, <1>2, <1>3, ReadsPart
<1> HIDE DEF s
<1>5. Len(t) \in Nat /\ Len(s) = Len(t) + 1
  BY <1>1, <1>2
<1>6. 1 + Len(one) = 2 /\ 2 + Len(t) - 1 = Len(s)
  BY <1>1, <1>5
<1>7. SubSeq(s, 2, Len(s)) = t
  <2>1. ReadsAt(s, 2, t)
    BY <1>4, <1>6
  <2>2. SubSeq(s, 2, 2 + Len(t) - 1) = t
    BY <1>2, <2>1, ReadsIs
  <2> QED
    BY <1>6, <2>2
<1>8. s[1] = c
  <2>1. 1 \in DOMAIN one
    BY <1>1
  <2> QED
    BY <1>1, <1>2, <2>1 DEF IsConcat
<1>9. s # <<>>
  BY <1>5
<1> QED
  BY <1>2, <1>5, <1>7, <1>8, <1>9 DEF s, one

LEMMA DropsOne ==
    ASSUME NEW A, NEW c \in A, NEW t \in Seq(A)
    PROVE  WithoutPrefix(<<c>>, <<c>> \o t) = t
<1> DEFINE s == <<c>> \o t
<1>1. s \in Seq(A) /\ s # <<>> /\ s[1] = c /\ SubSeq(s, 2, Len(s)) = t
  BY AfterOne
<1> HIDE DEF s
<1>2. IsPrefix(<<c>>, s)
  BY <1>1, OnePrefix
<1>3. Len(<<c>>) + 1 = 2
  OBVIOUS
<1>4. WithoutPrefix(<<c>>, s) = SubSeq(s, 2, Len(s))
  BY <1>2, <1>3 DEF WithoutPrefix
<1> QED
  BY <1>1, <1>4 DEF s

\* A text between an opening and a closing character.
Enclosed(s, t, o, c, A) ==
    /\ s \in Seq(A) /\ s[1] = o /\ s[Len(s)] = c /\ s # <<>>
    /\ Len(s) = Len(t) + 2 /\ ReadsAt(s, 2, t)
    /\ SubSeq(s, 2, Len(s) - 1) = t
    /\ IsPrefix(<<o>>, s) /\ IsSuffix(<<c>>, s)

LEMMA Wraps ==
    ASSUME NEW A, NEW t \in Seq(A), NEW o \in A, NEW c \in A
    PROVE  Enclosed(<<o>> \o t \o <<c>>, t, o, c, A)
<1> DEFINE front == <<o>> \o t
           last == <<c>>
           s == front \o last
<1>1. /\ front \in Seq(A) /\ Len(front) = Len(t) + 1 /\ front[1] = o
      /\ SubSeq(front, 2, Len(front)) = t
  BY AfterOne
<1>2. last \in Seq(A) /\ Len(last) = 1 /\ last[1] = c
  OBVIOUS
<1>3. s = front \o last /\ s = <<o>> \o t \o <<c>>
  OBVIOUS
<1>4. ReadsAt(front, 2, t)
  <2> DEFINE one == <<o>>
  <2>1. one \in Seq(A) /\ Len(one) = 1 /\ front = one \o t
    OBVIOUS
  <2> HIDE DEF one, front
  <2>2. ReadsAt(front, 1, front)
    <3>1. Len(front) \in Nat /\ \A k \in 1..Len(front) : 1 - 1 + k = k
      BY <1>1
    <3> QED
      BY <3>1 DEF ReadsAt
  <2>3. ReadsAt(front, 1, one \o t)
    BY <2>1, <2>2
  <2>4. ReadsAt(front, 1 + Len(one), t)
    BY <1>1, <2>1, <2>3, ReadsPart
  <2>5. 1 + Len(one) = 2
    BY <2>1
  <2> QED
    BY <2>4, <2>5
<1> HIDE DEF s, front, last
<1>5. s \in Seq(A) /\ Len(s) = Len(front) + Len(last) /\ IsConcat(s, front, last)
  <2>1. s \in Seq(A) /\ IsConcat(s, front, last)
    BY <1>1, <1>2, <1>3, ConcatPlaces
  <2>2. Len(s) = Len(front) + Len(last)
    BY <1>1, <1>2, <1>3, ConcatProperties
  <2> QED
    BY <2>1, <2>2
<1>6. Len(t) \in Nat /\ Len(s) = Len(t) + 2 /\ Len(front) = Len(t) + 1
  BY <1>1, <1>2, <1>5
<1>7. s[1] = o
  <2>1. 1 \in DOMAIN front
    BY <1>1, <1>6
  <2> QED
    BY <1>1, <1>5, <2>1 DEF IsConcat
<1>8. s[Len(s)] = c
  <2>1. 1 \in DOMAIN last /\ Len(front) + 1 = Len(s)
    BY <1>2, <1>6
  <2> QED
    BY <1>2, <1>5, <2>1 DEF IsConcat
<1>9. ReadsAt(s, 2, t)
  <2>1. \A k \in 1..Len(t) : 2 - 1 + k \in DOMAIN front /\ front[2 - 1 + k] = t[k]
    BY <1>1, <1>4, <1>6 DEF ReadsAt
  <2>2. \A k \in 1..Len(t) : s[2 - 1 + k] = t[k]
    BY <1>5, <2>1 DEF IsConcat
  <2> QED
    BY <1>6, <2>2 DEF ReadsAt
<1>10. SubSeq(s, 2, Len(s) - 1) = t
  <2>1. 2 + Len(t) - 1 = Len(s) - 1
    BY <1>6
  <2>2. SubSeq(s, 2, 2 + Len(t) - 1) = t
    BY <1>5, <1>9, ReadsIs
  <2> QED
    BY <2>1, <2>2
<1>11. s # <<>>
  BY <1>6
<1>12. IsPrefix(<<o>>, s)
  BY <1>5, <1>7, <1>11, OnePrefix
<1>13. IsSuffix(<<c>>, s)
  <2> DEFINE r == Reverse(s)
  <2>1. r \in Seq(A) /\ r # <<>> /\ r[1] = c
    <3>1. Len(s) \in Nat /\ DOMAIN s = 1..Len(s) /\ Len(s) >= 1
      BY <1>5, <1>6
    <3>2. r = [i \in 1..Len(s) |-> s[(Len(s) - i) + 1]]
      BY DEF Reverse
    <3>3. \A i \in 1..Len(s) : (Len(s) - i) + 1 \in 1..Len(s)
      BY <3>1
    <3>4. \A i \in 1..Len(s) : s[(Len(s) - i) + 1] \in A
      BY <1>5, <3>3, ElementOfSeq
    <3> HIDE DEF r
    <3>5. r \in [1..Len(s) -> A]
      BY <3>2, <3>4
    <3>6. r \in Seq(A)
      BY <3>1, <3>5, FunctionIsSeq
    <3>7. 1 \in 1..Len(s) /\ (Len(s) - 1) + 1 = Len(s)
      BY <3>1
    <3>8. r[1] = c
      BY <1>8, <3>2, <3>7
    <3>9. r # <<>>
      BY <3>2, <3>7
    <3> QED
      BY <3>6, <3>8, <3>9
  <2> HIDE DEF r
  <2>2. IsPrefix(<<c>>, r)
    BY <2>1, OnePrefix
  <2>3. Reverse(<<c>>) = <<c>>
    <3> DEFINE one == <<c>>
               back == Reverse(one)
    <3>1. one \in Seq(A) /\ Len(one) = 1 /\ one[1] = c
      OBVIOUS
    <3> HIDE DEF one
    <3>2. back = [i \in 1..1 |-> one[(1 - i) + 1]]
      BY <3>1 DEF Reverse
    <3>3. \A i \in 1..1 : i = 1 /\ (1 - i) + 1 = 1
      OBVIOUS
    <3>4. back \in [1..1 -> A] /\ back[1] = c
      BY <3>1, <3>2, <3>3
    <3> HIDE DEF back
    <3>5. back \in Seq(A)
      BY <3>4, FunctionIsSeq
    <3>6. Len(back) = Len(one) /\ \A i \in 1..Len(back) : back[i] = one[i]
      BY <3>1, <3>3, <3>4, <3>5
    <3>7. back = one
      BY <3>1, <3>5, <3>6, SeqEqual
    <3> QED
      BY <3>7 DEF back, one
  <2> QED
    BY <2>2, <2>3 DEF IsSuffix, r
<1>14. Enclosed(s, t, o, c, A)
  BY <1>5, <1>6, <1>7, <1>8, <1>9, <1>10, <1>11, <1>12, <1>13 DEF Enclosed
<1> QED
  BY <1>3, <1>14

LEMMA MoreCharacters ==
    ASSUME NEW A, NEW x, NEW y, NEW t \in Seq(A)
    PROVE  t \in Seq(A \cup {x, y}) /\ x \in A \cup {x, y} /\ y \in A \cup {x, y}
  OBVIOUS

LEMMA NotOnePrefix ==
    ASSUME NEW A, NEW s \in Seq(A), NEW c, s[1] # c
    PROVE  ~IsPrefix(<<c>>, s)
<1> DEFINE one == <<c>>
<1>1. Len(one) = 1 /\ one[1] = c
  OBVIOUS
<1> HIDE DEF one
<1>2. Len(one) \in Nat /\ Len(one) >= 1 /\ s[1] # one[1]
  BY <1>1
<1>3. ~IsPrefix(one, s)
  BY <1>2, NoPrefix
<1> QED
  BY <1>3 DEF one

\* The braces are taken off, and spaces are not looked for.
LEMMA BareOf ==
    ASSUME NEW B, NEW t \in Seq(B), Solid(t), t[1] # "{",
           NEW path, path = t \/ path = <<"{">> \o t \o <<"}">>
    PROVE  Bare(path) = WithoutPrefix(<<"$", ".">>, WithoutPrefix(<<".">>, t))
<1> DEFINE A == B \cup {"{", "}"}
<1>3. t \in Seq(A) /\ "{" \in A /\ "}" \in A
  BY MoreCharacters, Zenon
<1> HIDE DEF A
<1>1. CASE path = t
  <2>1. Trim(path) = path
    BY <1>1, TrimKeeps, Zenon
  <2>2. ~IsPrefix(<<"{">>, path)
    BY <1>1, NotOnePrefix, Zenon
  <2> QED
    BY <1>1, <2>1, <2>2, Zenon DEF Bare
<1>2. CASE path = <<"{">> \o t \o <<"}">>
  <2>1. Enclosed(<<"{">> \o t \o <<"}">>, t, "{", "}", A)
    BY <1>3, Wraps, Zenon
  <2>2. Enclosed(path, t, "{", "}", A)
    BY <1>2, <2>1, Zenon
  <2>3. /\ path \in Seq(A) /\ path # <<>> /\ path[1] = "{" /\ path[Len(path)] = "}"
        /\ SubSeq(path, 2, Len(path) - 1) = t
        /\ IsPrefix(<<"{">>, path) /\ IsSuffix(<<"}">>, path)
    BY <2>2, Zenon DEF Enclosed
  <2>4. Solid(path)
    BY <2>3, Zenon DEF Solid
  <2>5. Trim(path) = path
    BY <2>3, <2>4, TrimKeeps, Zenon
  <2>6. Trim(t) = t
    BY TrimKeeps, Zenon
  <2> QED
    BY <2>3, <2>5, <2>6, Zenon DEF Bare
<1> QED
  BY <1>1, <1>2, Zenon

-----------------------------------------------------------------------------
(* The constructs *)

LEMMA DigitTexts == Digits = {"0", "1", "2", "3", "4", "5", "6", "7", "8", "9"}
<1>1. \A d \in 1..10 : \/ d = 1 \/ d = 2 \/ d = 3 \/ d = 4 \/ d = 5
                       \/ d = 6 \/ d = 7 \/ d = 8 \/ d = 9 \/ d = 10
  OBVIOUS
<1>2. /\ Digit[1] = "0" /\ Digit[2] = "1" /\ Digit[3] = "2" /\ Digit[4] = "3" /\ Digit[5] = "4"
      /\ Digit[6] = "5" /\ Digit[7] = "6" /\ Digit[8] = "7" /\ Digit[9] = "8" /\ Digit[10] = "9"
  BY DEF Digit
<1>3. /\ 1 \in 1..10 /\ 2 \in 1..10 /\ 3 \in 1..10 /\ 4 \in 1..10 /\ 5 \in 1..10
      /\ 6 \in 1..10 /\ 7 \in 1..10 /\ 8 \in 1..10 /\ 9 \in 1..10 /\ 10 \in 1..10
  OBVIOUS
<1>4. ASSUME NEW c \in Digits
      PROVE  c \in {"0", "1", "2", "3", "4", "5", "6", "7", "8", "9"}
  BY <1>1, <1>2, SMTT(30) DEF Digits
<1>5. ASSUME NEW c \in {"0", "1", "2", "3", "4", "5", "6", "7", "8", "9"} PROVE c \in Digits
  BY <1>2, <1>3, SMTT(30) DEF Digits
<1> QED
  BY <1>4, <1>5

LEMMA DigitsDiffer == \A d, e \in 1..10 : Digit[d] = Digit[e] => d = e
BY SMTT(60) DEF Digit

\* A digit is no mark of the syntax.
LEMMA DigitMarks ==
    ASSUME NEW c \in Digits
    PROVE  /\ c # " " /\ c # "]" /\ c # "." /\ c # "[" /\ c # "*" /\ c # "+" /\ c # "-"
           /\ c # "\"" /\ c # "'" /\ c # "{" /\ c # "$"
BY DigitTexts, ZenonT(40)

\* An identifier does not begin with a mark of the syntax.
LEMMA NameMarks ==
    ASSUME NEW c \in Letters \cup {"_"}
    PROVE  c # " " /\ c # "." /\ c # "[" /\ c # "{" /\ c # "$"
BY LettersAssumption, ZenonT(40)

\* An identifier does not end with a space.
LEMMA NamePartMarks ==
    ASSUME NEW c \in Letters \cup Digits \cup {"_", "-"}
    PROVE  c # " "
BY LettersAssumption, DigitMarks, ZenonT(40)

\* Characters of the written constructs.
Characters == STRING \cup {"[", "]", ".", "*", "\"", "'"}

LEMMA CharactersOf ==
    /\ "[" \in Characters /\ "]" \in Characters /\ "." \in Characters /\ "*" \in Characters
    /\ "\"" \in Characters /\ "'" \in Characters
    /\ STRING \subseteq Characters
BY ZenonT(30) DEF Characters

LEMMA MoreTexts == \A A, B : A \subseteq B => Seq(A) \subseteq Seq(B)
  OBVIOUS

LEMMA StringTexts == Seq(STRING) \subseteq Seq(Characters)
BY CharactersOf, MoreTexts, Zenon

\* What there must be between the brackets for a subscript to mean seg.
Subscribes(token, seg) ==
    /\ token \in Seq(Characters)
    /\ \A k \in 1..Len(token) : token[k] # "]"
    /\ Trim(token) = token
    /\ parseSubscript(token) = {seg}

OneCharacter(t, c) == t # <<>> /\ Len(t) = 1 /\ t[1] = c /\ \A k \in 1..Len(t) : t[k] = c

LEMMA OneCharacterText ==
    ASSUME NEW A, NEW c \in A
    PROVE  <<c>> \in Seq(A) /\ OneCharacter(<<c>>, c)
BY DEF OneCharacter

Between(s, t, o, c) ==
    Len(s) >= 2 /\ \A k \in 1..Len(s) : s[k] \in {o, c} \cup {t[n] : n \in DOMAIN t}

LEMMA EnclosedPlaces ==
    ASSUME NEW A, NEW t \in Seq(A), NEW o, NEW c, NEW s, Enclosed(s, t, o, c, A)
    PROVE  Between(s, t, o, c)
<1>1. /\ s \in Seq(A) /\ s[1] = o /\ s[Len(s)] = c /\ Len(s) = Len(t) + 2
      /\ ReadsAt(s, 2, t)
  BY DEF Enclosed
<1>2. Len(t) \in Nat /\ Len(s) \in Nat /\ Len(s) >= 2 /\ DOMAIN t = 1..Len(t)
  BY <1>1
<1>3. \A k \in 1..Len(t) : s[2 - 1 + k] = t[k]
  BY <1>1 DEF ReadsAt
<1>4. ASSUME NEW k \in 1..Len(s), k # 1, k # Len(s)
      PROVE  s[k] \in {t[n] : n \in DOMAIN t}
  <2>1. k - 1 \in 1..Len(t) /\ 2 - 1 + (k - 1) = k
    BY <1>1, <1>2, <1>4
  <2>2. s[2 - 1 + (k - 1)] = t[k - 1]
    BY <1>3, <2>1
  <2> QED
    BY <1>2, <2>1, <2>2
<1>5. \A k \in 1..Len(s) : s[k] \in {o, c} \cup {t[n] : n \in DOMAIN t}
  BY <1>1, <1>4
<1> QED
  BY <1>2, <1>5 DEF Between

LEMMA NotQuoted ==
    ASSUME NEW t, NEW c, OneCharacter(t, c)
    PROVE  ~Quoted(t)
<1>1. ~(Len(t) >= 2)
  BY DEF OneCharacter
<1> QED
  BY <1>1, Zenon DEF Quoted

\* parseSubscript looks at the wildcard first, then at the quotes.
LEMMA WildcardToken == Subscribes(<<"*">>, Wildcard)
<1>1. <<"*">> \in Seq(Characters) /\ OneCharacter(<<"*">>, "*")
  BY CharactersOf, OneCharacterText, Zenon
<1>2. Solid(<<"*">>) /\ \A k \in 1..Len(<<"*">>) : <<"*">>[k] # "]"
  BY <1>1, Zenon DEF Solid, OneCharacter
<1>3. Trim(<<"*">>) = <<"*">>
  BY <1>1, <1>2, TrimKeeps, Zenon
<1>4. parseSubscript(<<"*">>) = {Wildcard}
  BY <1>1, NotQuoted, Zenon DEF parseSubscript
<1> QED
  BY <1>1, <1>2, <1>3, <1>4, Zenon DEF Subscribes

LEMMA QuotedToken ==
    ASSUME NEW text \in Seq(STRING), NEW quote \in {"\"", "'"},
           \A k \in DOMAIN text : text[k] # "]"
    PROVE  Subscribes(<<quote>> \o text \o <<quote>>, Field(text))
<1> DEFINE token == <<quote>> \o text \o <<quote>>
<1>1. quote \in Characters /\ text \in Seq(Characters)
  <2>1. quote \in Characters
    BY CharactersOf, Zenon
  <2> QED
    BY <2>1, StringTexts, Zenon
<1>2. Enclosed(token, text, quote, quote, Characters)
  BY <1>1, Wraps, Zenon
<1> HIDE DEF token
<1>3. quote # "*" /\ quote # " " /\ quote # "]"
  BY Zenon
<1>4. /\ token \in Seq(Characters) /\ token[1] = quote /\ token[Len(token)] = quote
      /\ token # <<>> /\ Len(token) = Len(text) + 2 /\ ReadsAt(token, 2, text)
      /\ SubSeq(token, 2, Len(token) - 1) = text
  BY <1>2, Zenon DEF Enclosed
<1>5. Solid(token)
  BY <1>3, <1>4, Zenon DEF Solid
<1>6. Trim(token) = token
  BY <1>4, <1>5, TrimKeeps, Zenon
<1>7. token # <<"*">>
  BY <1>3, <1>4, OneCharacterText, ZenonT(40) DEF OneCharacter
<1>8. Between(token, text, quote, quote)
  BY <1>1, <1>2, EnclosedPlaces, Zenon
<1>9. Quoted(token)
  BY <1>4, <1>8, Zenon DEF Quoted, Last, Between
<1>10. parseSubscript(token) = {Field(text)}
  BY <1>4, <1>7, <1>9, Zenon DEF parseSubscript
<1>14. ASSUME NEW k \in 1..Len(token) PROVE token[k] # "]"
  BY <1>3, <1>8, Zenon DEF Between
<1>15. Subscribes(token, Field(text))
  BY <1>4, <1>6, <1>10, <1>14, Zenon DEF Subscribes
<1> QED
  BY <1>15 DEF token

LEMMA LastDigit == \A n \in Nat : /\ n % 10 \in 0..9 /\ (n % 10) + 1 \in 1..10
                                  /\ n \div 10 \in Nat /\ n = 10 * (n \div 10) + (n % 10)
  OBVIOUS

DigitOf(c) == (CHOOSE d \in 1..10 : Digit[d] = c) - 1

\* What Scanned computes: the value of the first n characters.
IsValue(value, run) ==
    value = [n \in 0..Len(run) |-> IF n = 0 THEN 0 ELSE 10 * value[n - 1] + DigitOf(run[n])]

LEMMA DigitValue ==
    ASSUME NEW d \in 1..10
    PROVE  DigitOf(Digit[d]) = d - 1
<1> DEFINE e == CHOOSE x \in 1..10 : Digit[x] = Digit[d]
<1>1. e \in 1..10 /\ Digit[e] = Digit[d]
  OBVIOUS
<1> HIDE DEF e
<1>2. e = d
  BY <1>1, DigitsDiffer
<1> QED
  BY <1>2 DEF e, DigitOf

LEMMA ValueExists ==
    ASSUME NEW A, NEW run \in Seq(A), \A k \in DOMAIN run : run[k] \in Digits
    PROVE  \E value : IsValue(value, run)
<1> DEFINE d == Len(run)
           step == [x \in (1..d) \X Int |-> 10 * x[2] + DigitOf(run[x[1]])]
<1>1. d \in Nat /\ DOMAIN run = 1..d
  OBVIOUS
<1>2. \A k \in 1..d : DigitOf(run[k]) \in Int
  <2> TAKE k \in 1..d
  <2>1. PICK e \in 1..10 : run[k] = Digit[e]
    BY <1>1 DEF Digits
  <2>2. DigitOf(run[k]) = e - 1
    BY <2>1, DigitValue
  <2> QED
    BY <2>2
<1>3. step \in [(1..d) \X Int -> Int]
  <2> SUFFICES ASSUME NEW x \in (1..d) \X Int PROVE 10 * x[2] + DigitOf(run[x[1]]) \in Int
    OBVIOUS
  <2>1. x[2] \in Int /\ DigitOf(run[x[1]]) \in Int
    BY <1>2
  <2> QED
    BY <2>1
<1>4. PICK f \in [0..d -> Int] : Repeats(f, 0, step, d)
  <2>1. 0 \in Int
    OBVIOUS
  <2> HIDE DEF step, d
  <2> QED
    BY <1>1, <1>3, <2>1, Recursion, Zenon
<1>5. \A n \in 0..d : f[n] = IF n = 0 THEN 0 ELSE 10 * f[n - 1] + DigitOf(run[n])
  <2> TAKE n \in 0..d
  <2>1. CASE n = 0
    BY <1>4, <2>1 DEF Repeats
  <2>2. CASE n # 0
    <3>1. n \in 1..d /\ n - 1 \in 0..d
      BY <1>1, <2>2
    <3>2. <<n, f[n - 1]>> \in (1..d) \X Int
      BY <3>1
    <3>3. f[n] = step[<<n, f[n - 1]>>]
      BY <1>4, <3>1 DEF Repeats
    <3>4. step[<<n, f[n - 1]>>] = 10 * f[n - 1] + DigitOf(run[n])
      BY <3>2
    <3> QED
      BY <2>2, <3>3, <3>4
  <2> QED
    BY <2>1, <2>2
<1>6. f = [n \in 0..d |-> f[n]]
  OBVIOUS
<1>7. IsValue(f, run)
  <2> HIDE DEF step
  <2> QED
    BY <1>5, <1>6 DEF IsValue
<1> QED
  BY <1>7

\* left[k] is what the first k digits of a number say.
Counts(left, text, number) ==
    /\ left \in [0..Len(text) -> 0..number] /\ left[0] = 0 /\ left[Len(text)] = number
    /\ \A k \in DOMAIN text : left[k - 1] = left[k] \div 10 /\ text[k] = Digit[(left[k] % 10) + 1]

\* The value of the digits of a number is the number.
LEMMA ValueOfDecimal ==
    ASSUME NEW text \in Seq(STRING), NEW number \in Nat, NEW value, IsValue(value, text),
           NEW left, Counts(left, text, number)
    PROVE  \A n \in 0..Len(text) : value[n] = left[n]
<1>0. /\ left \in [0..Len(text) -> 0..number] /\ left[0] = 0
      /\ \A k \in DOMAIN text : left[k - 1] = left[k] \div 10 /\ text[k] = Digit[(left[k] % 10) + 1]
  BY DEF Counts
<1> DEFINE d == Len(text)
           Good == {n \in 0..d : value[n] = left[n]}
<1>1. d \in Nat /\ DOMAIN text = 1..d
  OBVIOUS
<1>2. 0 \in Good
  <2>1. 0 \in 0..d
    BY <1>1
  <2> QED
    BY <1>0, <2>1 DEF IsValue
<1>3. ASSUME NEW n \in 1..d, n - 1 \in Good PROVE n \in Good
  <2>1. n \in 0..d /\ n # 0 /\ n - 1 \in 0..d
    BY <1>1
  <2>2. left[n] \in Nat
    BY <1>0, <2>1
  <2>3. (left[n] % 10) + 1 \in 1..10 /\ left[n] = 10 * (left[n] \div 10) + (left[n] % 10)
        /\ left[n] % 10 \in 0..9
    BY <2>2, LastDigit
  <2>4. DigitOf(text[n]) = left[n] % 10
    <3>1. text[n] = Digit[(left[n] % 10) + 1]
      BY <1>0, <1>1
    <3>2. DigitOf(text[n]) = ((left[n] % 10) + 1) - 1
      BY <2>3, <3>1, DigitValue
    <3> QED
      BY <2>3, <3>2
  <2>5. value[n] = 10 * value[n - 1] + DigitOf(text[n])
    BY <2>1 DEF IsValue
  <2>6. value[n - 1] = left[n] \div 10
    BY <1>0, <1>1, <1>3
  <2>7. value[n] = left[n]
    BY <2>3, <2>4, <2>5, <2>6
  <2> QED
    BY <2>1, <2>7
<1>4. \A n \in 0..d : n \in Good
  <2> HIDE DEF Good, d
  <2> QED
    BY <1>1, <1>2, <1>3, UpTo
<1> QED
  BY <1>4

\* All of the text is the run of digits.
LEMMA RunOfDigits ==
    ASSUME NEW text \in Seq(STRING), \A k \in DOMAIN text : text[k] \in Digits
    PROVE  RunEnd(text, 1, Digits) = Len(text)
<1> DEFINE d == Len(text)
           T == {j \in (1 - 1)..d : \A k \in 1..j : text[k] \in Digits}
<1>1. d \in Nat /\ DOMAIN text = 1..d
  OBVIOUS
<1>2. d \in T /\ T \in SUBSET (0..d)
  BY <1>1
<1>3. RunEnd(text, 1, Digits) = Max(T)
  BY DEF RunEnd
<1> HIDE DEF T, d
<1>4. Max(T) \in T /\ \A k \in T : k <= Max(T)
  BY <1>1, <1>2, GreatestPlace
<1>5. Max(T) \in 0..d /\ d <= Max(T)
  BY <1>2, <1>4
<1> QED
  BY <1>1, <1>3, <1>5 DEF d

\* A number without a sign.
LEMMA UnsignedScanned ==
    ASSUME NEW text, ~(text[1] \in {"+", "-"}), NEW run, run = SubSeq(text, 1, RunEnd(text, 1, Digits)),
           NEW value, value = CHOOSE v : IsValue(v, run)
    PROVE  Scanned(text) = {n \in {value[Len(run)]} : run # <<>> /\ n \in (-MaxInt - 1)..MaxInt}
<1> DEFINE signed == text # <<>> /\ text[1] \in {"+", "-"}
           start == IF signed THEN 2 ELSE 1
           part == SubSeq(text, start, RunEnd(text, start, Digits))
           v == CHOOSE f : IsValue(f, part)
           number == IF signed /\ text[1] = "-" THEN -v[Len(part)] ELSE v[Len(part)]
<1>1. Scanned(text) = {n \in {number} : part # <<>> /\ n \in (-MaxInt - 1)..MaxInt}
  BY DEF Scanned, IsValue, DigitOf
<1>2. signed = FALSE
  OBVIOUS
<1> HIDE DEF signed
<1>3. start = 1
  BY <1>2
<1> HIDE DEF start
<1>4. part = run
  BY <1>3
<1> HIDE DEF part
<1>5. v = value
  BY <1>4
<1> HIDE DEF v
<1>6. number = value[Len(run)]
  BY <1>2, <1>4, <1>5
<1> HIDE DEF number
<1> QED
  BY <1>1, <1>4, <1>6

\* fmt.Sscanf finds the number that was written.
LEMMA ScannedNumber ==
    ASSUME NEW text \in Seq(STRING), NEW number \in 0..MaxInt, IsDecimal(text, number)
    PROVE  Scanned(text) = {number}
<1>1. PICK left \in [0..Len(text) -> 0..number] :
         /\ left[0] = 0 /\ left[Len(text)] = number
         /\ \A k \in DOMAIN text : left[k - 1] = left[k] \div 10 /\ text[k] = Digit[(left[k] % 10) + 1]
  BY DEF IsDecimal
<1>2. number \in Nat /\ number \in (-MaxInt - 1)..MaxInt
  BY MaxIntAssumption
<1>3. text # <<>> /\ Len(text) \in Nat /\ DOMAIN text = 1..Len(text) /\ 1 \in DOMAIN text
  <2>1. text # <<>>
    BY DEF IsDecimal
  <2>2. Len(text) \in Nat \ {0}
    BY <2>1, EmptySeq
  <2> QED
    BY <2>1, <2>2
<1>4. \A k \in DOMAIN text : text[k] \in Digits
  <2> TAKE k \in DOMAIN text
  <2>1. left[k] \in Nat
    BY <1>2, <1>3
  <2>2. (left[k] % 10) + 1 \in 1..10
    BY <2>1, LastDigit
  <2> QED
    BY <1>1, <2>2 DEF Digits
<1>5. ~(text[1] \in {"+", "-"})
  BY <1>3, <1>4, DigitMarks, Zenon
<1>6. SubSeq(text, 1, RunEnd(text, 1, Digits)) = text
  BY <1>4, RunOfDigits, WholeText
<1> DEFINE value == CHOOSE v : IsValue(v, text)
<1>7. IsValue(value, text)
  BY <1>4, ValueExists
<1>8. Scanned(text) = {n \in {value[Len(text)]} : text # <<>> /\ n \in (-MaxInt - 1)..MaxInt}
  BY <1>5, <1>6, UnsignedScanned
<1> HIDE DEF value
<1>9. value[Len(text)] = number
  <2>1. Len(text) \in 0..Len(text)
    BY <1>3
  <2>2. \A n \in 0..Len(text) : value[n] = left[n]
    <3>1. Counts(left, text, number)
      BY <1>1, Zenon DEF Counts
    <3> QED
      BY <1>2, <1>7, <3>1, ValueOfDecimal, SMTT(30)
  <2> QED
    BY <1>1, <2>1, <2>2, Zenon
<1>10. number \in (-MaxInt - 1)..MaxInt
  BY <1>2, MaxIntAssumption
<1> QED
  BY <1>3, <1>8, <1>9, <1>10, Zenon

LEMMA DecimalDigits ==
    ASSUME NEW text \in Seq(STRING), NEW number \in 0..MaxInt, IsDecimal(text, number)
    PROVE  text # <<>> /\ \A k \in 1..Len(text) : text[k] \in Digits
<1>1. PICK left \in [0..Len(text) -> 0..number] :
         \A k \in DOMAIN text : text[k] = Digit[(left[k] % 10) + 1]
  BY DEF IsDecimal
<1>2. number \in Nat /\ DOMAIN text = 1..Len(text) /\ Len(text) \in Nat
  BY MaxIntAssumption
<1>3. ASSUME NEW k \in 1..Len(text) PROVE text[k] \in Digits
  <2>1. left[k] \in Nat
    BY <1>2
  <2>2. (left[k] % 10) + 1 \in 1..10
    BY <2>1, LastDigit
  <2> QED
    BY <1>1, <1>2, <2>2 DEF Digits
<1> QED
  BY <1>3 DEF IsDecimal

LEMMA IndexToken ==
    ASSUME NEW text \in Seq(STRING), NEW number \in 0..MaxInt, IsDecimal(text, number)
    PROVE  Subscribes(text, Index(number))
<1>1. text # <<>> /\ \A k \in 1..Len(text) : text[k] \in Digits
  BY DecimalDigits
<1>2. Len(text) \in Nat \ {0}
  BY <1>1, EmptySeq
<1>3. 1 \in 1..Len(text) /\ Len(text) \in 1..Len(text)
  BY <1>2
<1>4. text[1] \in Digits /\ text[Len(text)] \in Digits
  BY <1>1, <1>3
<1>5. text \in Seq(Characters)
  BY StringTexts
<1>6. Solid(text)
  BY <1>1, <1>4, DigitMarks, Zenon DEF Solid
<1>7. Trim(text) = text
  BY <1>6, TrimKeeps, Zenon
<1>8. \A k \in 1..Len(text) : text[k] # "]"
  BY <1>1, DigitMarks, Zenon
<1>9. text # <<"*">>
  <2>1. text[1] # "*"
    BY <1>4, DigitMarks, Zenon
  <2>2. <<"*">>[1] = "*"
    OBVIOUS
  <2> QED
    BY <2>1, <2>2, Zenon
<1>10. ~Quoted(text)
  BY <1>4, DigitMarks, Zenon DEF Quoted
<1>11. parseSubscript(text) = {Index(n) : n \in Scanned(text)}
  BY <1>9, <1>10, Zenon DEF parseSubscript
<1>12. {Index(n) : n \in Scanned(text)} = {Index(number)}
  BY ScannedNumber
<1>13. parseSubscript(text) = {Index(number)}
  BY <1>11, <1>12
<1> QED
  BY <1>5, <1>7, <1>8, <1>13, Zenon DEF Subscribes

\* What parseSubscript makes of a construct.
LEMMA ConstructToken ==
    ASSUME NEW c, IsConstruct(c), c.form # "dot"
    PROVE  Subscribes(Subscript(c), SegmentOf(c))
<1>1. CASE c.form = "quoted"
  <2>1. /\ c.text \in Seq(STRING) /\ c.quote \in {"\"", "'"}
        /\ \A k \in DOMAIN c.text : c.text[k] # "]"
    BY <1>1, Zenon DEF IsConstruct
  <2>2. Subscribes(<<c.quote>> \o c.text \o <<c.quote>>, Field(c.text))
    BY <2>1, QuotedToken, Zenon
  <2>3. Subscript(c) = <<c.quote>> \o c.text \o <<c.quote>>
    BY <1>1, Zenon DEF Subscript
  <2>4. SegmentOf(c) = Field(c.text)
    BY <1>1, Zenon DEF SegmentOf
  <2> QED
    BY <2>2, <2>3, <2>4, Zenon
<1>2. CASE c.form = "index"
  <2>1. c.text \in Seq(STRING) /\ c.index \in 0..MaxInt /\ IsDecimal(c.text, c.index)
    BY <1>2, Zenon DEF IsConstruct
  <2>2. Subscribes(c.text, Index(c.index))
    BY <2>1, IndexToken, Zenon
  <2>3. Subscript(c) = c.text /\ SegmentOf(c) = Index(c.index)
    BY <1>2, Zenon DEF Subscript, SegmentOf
  <2> QED
    BY <2>2, <2>3, Zenon
<1>3. CASE c.form = "wildcard"
  <2>1. c.text = <<"*">>
    BY <1>3, Zenon DEF IsConstruct
  <2>2. Subscript(c) = c.text /\ SegmentOf(c) = Wildcard
    BY <1>3, Zenon DEF Subscript, SegmentOf
  <2> QED
    BY <2>1, <2>2, WildcardToken, Zenon
<1> QED
  BY <1>1, <1>2, <1>3, Zenon DEF IsConstruct

AfterDot(c) == c.form = "dot"

\* A text begins with a dot or a bracket, and ends with neither a space.
LEMMA WrittenDot ==
    ASSUME NEW c, IsConstruct(c), AfterDot(c)
    PROVE  /\ c.text \in Seq(Characters) /\ IsIdentifier(c.text) /\ SegmentOf(c) = Field(c.text)
           /\ Written(c) = <<".">> \o c.text
           /\ Prepends(Written(c), ".", c.text, Characters)
<1>1. /\ c.text \in Seq(STRING) /\ IsIdentifier(c.text) /\ SegmentOf(c) = Field(c.text)
      /\ Written(c) = <<".">> \o c.text
  BY Zenon DEF IsConstruct, SegmentOf, Written, AfterDot
<1>2. c.text \in Seq(Characters) /\ "." \in Characters
  BY <1>1, StringTexts, CharactersOf, Zenon
<1>3. Prepends(<<".">> \o c.text, ".", c.text, Characters)
  BY <1>2, PrependedPlaces, Zenon
<1>4. Prepends(Written(c), ".", c.text, Characters)
  BY <1>1, <1>3, Zenon
<1> QED
  BY <1>1, <1>2, <1>4, Zenon

LEMMA ReadsPrepended ==
    ASSUME NEW p, NEW t, IsText(p), IsText(t), NEW s, NEW x, NEW S, Prepends(s, x, t, S),
           NEW i \in Nat, ReadsAt(p, i, s)
    PROVE  i \in 1..Len(p) /\ p[i] = x /\ ReadsAt(p, i + 1, t) /\ Len(s) = Len(t) + 1
<1>1. Len(t) \in Nat /\ DOMAIN t = 1..Len(t) /\ Len(p) \in Nat
  BY DEF IsText
<1>2. Len(s) = Len(t) + 1 /\ s[1] = x /\ \A n \in 1..Len(t) : s[n + 1] = t[n]
  BY <1>1 DEF Prepends
<1>3. i >= 1 /\ i - 1 + Len(s) <= Len(p) /\ \A k \in 1..Len(s) : p[i - 1 + k] = s[k]
  BY DEF ReadsAt
<1>4. 1 \in 1..Len(s) /\ i - 1 + 1 = i /\ i \in 1..Len(p)
  BY <1>1, <1>2, <1>3
<1>5. p[i] = x
  BY <1>2, <1>3, <1>4
<1>6. ReadsAt(p, i + 1, t)
  <2>1. ASSUME NEW k \in 1..Len(t) PROVE p[i + 1 - 1 + k] = t[k]
    <3>1. k + 1 \in 1..Len(s) /\ i - 1 + (k + 1) = i + 1 - 1 + k
      BY <1>1, <1>2
    <3>2. p[i - 1 + (k + 1)] = s[k + 1] /\ s[k + 1] = t[k]
      BY <1>2, <1>3, <3>1
    <3> QED
      BY <3>1, <3>2
  <2>2. i + 1 \in Nat /\ i + 1 >= 1 /\ i + 1 - 1 + Len(t) <= Len(p)
    BY <1>1, <1>2, <1>3
  <2> QED
    BY <2>1, <2>2 DEF ReadsAt
<1> QED
  BY <1>2, <1>4, <1>5, <1>6

LEMMA WrittenSubscript ==
    ASSUME NEW c, IsConstruct(c), ~AfterDot(c)
    PROVE  /\ Subscript(c) \in Seq(Characters)
           /\ Enclosed(Written(c), Subscript(c), "[", "]", Characters)
<1>1. Subscript(c) \in Seq(Characters)
  BY ConstructToken, Zenon DEF Subscribes, AfterDot
<1>2. "[" \in Characters /\ "]" \in Characters
  BY CharactersOf, Zenon
<1>3. Written(c) = <<"[">> \o Subscript(c) \o <<"]">>
  BY Zenon DEF Written, AfterDot
<1>4. Enclosed(<<"[">> \o Subscript(c) \o <<"]">>, Subscript(c), "[", "]", Characters)
  BY <1>1, <1>2, Wraps, Zenon
<1> QED
  BY <1>1, <1>3, <1>4, Zenon

LEMMA ReadsEnclosed ==
    ASSUME NEW A, NEW p \in Seq(A), NEW B, NEW t \in Seq(B), NEW s, NEW o, NEW c,
           Enclosed(s, t, o, c, B), NEW i, ReadsAt(p, i, s)
    PROVE  /\ i \in 1..Len(p) /\ p[i] = o /\ ReadsAt(p, i + 1, t) /\ i + Len(t) < Len(p)
           /\ p[i + Len(t) + 1] = c /\ Len(s) = Len(t) + 2
<1>1. /\ s \in Seq(B) /\ s[1] = o /\ s[Len(s)] = c /\ Len(s) = Len(t) + 2
      /\ ReadsAt(s, 2, t)
  BY DEF Enclosed
<1>2. Len(t) \in Nat /\ Len(s) \in Nat /\ Len(p) \in Nat
  BY <1>1
<1>3. i \in Nat /\ i >= 1 /\ i - 1 + Len(s) <= Len(p)
  BY DEF ReadsAt
<1>4. \A k \in 1..Len(s) : p[i - 1 + k] = s[k]
  BY DEF ReadsAt
<1>5. i \in 1..Len(p) /\ i + Len(t) < Len(p)
  BY <1>1, <1>2, <1>3
<1>6. p[i] = o
  <2>1. 1 \in 1..Len(s) /\ i - 1 + 1 = i
    BY <1>1, <1>2, <1>3
  <2> QED
    BY <1>1, <1>4, <2>1
<1>7. p[i + Len(t) + 1] = c
  <2>1. Len(s) \in 1..Len(s) /\ i - 1 + Len(s) = i + Len(t) + 1
    BY <1>1, <1>2, <1>3
  <2> QED
    BY <1>1, <1>4, <2>1
<1>8. ReadsAt(p, i + 1, t)
  <2>1. ASSUME NEW k \in 1..Len(t) PROVE p[i + 1 - 1 + k] = t[k]
    <3>1. k + 1 \in 1..Len(s) /\ i - 1 + (k + 1) = i + 1 - 1 + k /\ 2 - 1 + k = k + 1
      BY <1>1, <1>2, <1>3
    <3>2. s[2 - 1 + k] = t[k]
      BY <1>1 DEF ReadsAt
    <3> QED
      BY <1>4, <3>1, <3>2
  <2>2. i + 1 \in Nat /\ i + 1 >= 1 /\ i + 1 - 1 + Len(t) <= Len(p)
    BY <1>2, <1>3, <1>5
  <2> QED
    BY <2>1, <2>2 DEF ReadsAt
<1> QED
  BY <1>1, <1>5, <1>6, <1>7, <1>8

\* parsePath reads a subscript, whether one must come next or not.
LEMMA SubscriptRead ==
    ASSUME NEW p, NEW from, Reading(from, p), NEW c, IsConstruct(c), ~AfterDot(c),
           NEW i \in Nat, ReadsAt(p, i, Written(c)), NEW expecting \in BOOLEAN
    PROVE  At(from, i, expecting) = Then(SegmentOf(c), At(from, i + Len(Written(c)), Optional))
<1> DEFINE token == Subscript(c)
<1>1. token \in Seq(Characters) /\ Enclosed(Written(c), token, "[", "]", Characters)
  BY WrittenSubscript
<1>2. Subscribes(token, SegmentOf(c))
  BY ConstructToken, Zenon DEF AfterDot
<1> HIDE DEF token
<1>3. MeansSegment(token, SegmentOf(c)) /\ \A k \in 1..Len(token) : token[k] # "]"
  BY <1>2, Zenon DEF Subscribes, MeansSegment
<1>4. PICK A : p \in Seq(A)
  BY DEF Reading, IsText
<1>5. /\ i \in 1..Len(p) /\ p[i] = "[" /\ ReadsAt(p, i + 1, token) /\ i + Len(token) < Len(p)
      /\ p[i + Len(token) + 1] = "]" /\ Len(Written(c)) = Len(token) + 2
  BY <1>1, <1>4, ReadsEnclosed
<1>6. SubscriptAt(p, i, token)
  <2>1. IsText(token)
    BY <1>1, Zenon DEF IsText
  <2> QED
    BY <1>3, <1>5, <2>1, Zenon DEF SubscriptAt
<1>7. At(from, i, expecting) = Then(SegmentOf(c), At(from, i + Len(token) + 2, Optional))
  BY <1>3, <1>6, SubscriptRound
<1>8. i + Len(token) + 2 = i + Len(Written(c))
  BY <1>1, <1>5
<1> QED
  BY <1>7, <1>8

\* parsePath reads a dot and the field after it.
LEMMA DotRead ==
    ASSUME NEW p, NEW from, Reading(from, p), NEW c, IsConstruct(c), AfterDot(c),
           NEW i \in Nat, ReadsAt(p, i, Written(c)), GoesOn(p, i + Len(Written(c)))
    PROVE  At(from, i, Optional) = Then(SegmentOf(c), At(from, i + Len(Written(c)), Optional))
<1> DEFINE name == c.text
<1>1. /\ name \in Seq(Characters) /\ IsIdentifier(name) /\ SegmentOf(c) = Field(name)
      /\ Prepends(Written(c), ".", name, Characters)
  BY WrittenDot
<1> HIDE DEF name
<1>2. IsText(p) /\ IsText(name)
  BY <1>1, Zenon DEF Reading, IsText
<1>3. i \in 1..Len(p) /\ p[i] = "." /\ ReadsAt(p, i + 1, name) /\ Len(Written(c)) = Len(name) + 1
  BY <1>1, <1>2, ReadsPrepended
<1>4. i + 1 \in Nat /\ i + 1 + Len(name) = i + Len(Written(c))
  BY <1>1, <1>3
<1>5. At(from, i, Optional) = At(from, i + 1, Required)
  BY <1>3, DotRound
<1>6. FieldAt(p, i + 1, name)
  BY <1>1, <1>2, <1>3, <1>4 DEF FieldAt
<1>7. At(from, i + 1, Required) = Then(Field(name), At(from, i + 1 + Len(name), Optional))
  BY <1>4, <1>6, Expectations, FieldRound
<1> QED
  BY <1>1, <1>4, <1>5, <1>7

LEMMA ConstructRead ==
    ASSUME NEW p, NEW from, Reading(from, p), NEW c, IsConstruct(c),
           NEW i \in Nat, ReadsAt(p, i, Written(c)), GoesOn(p, i + Len(Written(c)))
    PROVE  At(from, i, Optional) = Then(SegmentOf(c), At(from, i + Len(Written(c)), Optional))
<1>1. CASE AfterDot(c)
  BY <1>1, DotRead
<1>2. CASE ~AfterDot(c)
  BY <1>2, Expectations, SubscriptRead
<1> QED
  BY <1>1, <1>2

-----------------------------------------------------------------------------
(* The constructs one after the other *)

\* The text of the last n constructs, for each n.
LastTexts(text, cs) ==
    text = [n \in 0..Len(cs) |->
              IF n = 0 THEN <<>> ELSE Written(cs[Len(cs) - n + 1]) \o text[n - 1]]

AllConstructs(cs) == Len(cs) \in Nat /\ \A k \in 1..Len(cs) : IsConstruct(cs[k])

LEMMA WrittenTyped ==
    ASSUME NEW c, IsConstruct(c)
    PROVE  Written(c) \in Seq(Characters)
<1>1. CASE AfterDot(c)
  <2>1. c.text \in Seq(Characters) /\ Written(c) = <<".">> \o c.text /\ "." \in Characters
    BY <1>1, WrittenDot, CharactersOf, Zenon
  <2>2. <<".">> \o c.text \in Seq(Characters)
    BY <2>1, AfterOne, Zenon
  <2> QED
    BY <2>1, <2>2, Zenon
<1>2. CASE ~AfterDot(c)
  BY <1>2, WrittenSubscript, Zenon DEF Enclosed
<1> QED
  BY <1>1, <1>2, Zenon

LEMMA LastTextsExist ==
    ASSUME NEW cs, AllConstructs(cs)
    PROVE  \E text : LastTexts(text, cs)
<1> DEFINE d == Len(cs)
           S == Seq(Characters)
           step == [x \in (1..d) \X S |-> Written(cs[d - x[1] + 1]) \o x[2]]
<1>1. d \in Nat /\ \A k \in 1..d : IsConstruct(cs[k])
  BY DEF AllConstructs
<1>2. step \in [(1..d) \X S -> S]
  <2> SUFFICES ASSUME NEW x \in (1..d) \X S PROVE Written(cs[d - x[1] + 1]) \o x[2] \in S
    OBVIOUS
  <2>1. x[1] \in 1..d /\ x[2] \in S
    OBVIOUS
  <2>2. d - x[1] + 1 \in 1..d
    BY <1>1, <2>1
  <2>3. Written(cs[d - x[1] + 1]) \in S
    BY <1>1, <2>2, WrittenTyped
  <2> QED
    BY <2>1, <2>3, ConcatPlaces
<1> DEFINE none == <<>>
<1>3. none \in S
  OBVIOUS
<1>4. PICK f \in [0..d -> S] : Repeats(f, none, step, d)
  <2> HIDE DEF step, d, S, none
  <2> QED
    BY <1>1, <1>2, <1>3, Recursion, Zenon
<1>5. \A n \in 0..d : f[n] = IF n = 0 THEN none ELSE Written(cs[d - n + 1]) \o f[n - 1]
  <2> TAKE n \in 0..d
  <2>1. CASE n = 0
    BY <1>4, <2>1 DEF Repeats
  <2>2. CASE n # 0
    <3>1. n \in 1..d /\ n - 1 \in 0..d
      BY <1>1, <2>2
    <3> HIDE DEF S
    <3>2. <<n, f[n - 1]>> \in (1..d) \X S
      BY <3>1
    <3>3. f[n] = step[<<n, f[n - 1]>>]
      BY <1>4, <3>1 DEF Repeats
    <3>4. step[<<n, f[n - 1]>>] = Written(cs[d - n + 1]) \o f[n - 1]
      BY <3>2
    <3> QED
      BY <2>2, <3>3, <3>4
  <2> QED
    BY <2>1, <2>2
<1>6. f = [n \in 0..d |-> f[n]]
  OBVIOUS
<1>7. LastTexts(f, cs)
  <2> HIDE DEF step
  <2> QED
    BY <1>5, <1>6 DEF LastTexts
<1> QED
  BY <1>7

\* The construct that the last n begin with, and the text that it begins.
FromLast(cs, n) == cs[Len(cs) - n + 1]

Begins(text, cs, n) ==
    /\ IsConstruct(FromLast(cs, n))
    /\ text[n] = Written(FromLast(cs, n)) \o text[n - 1]

LEMMA LastTextsSteps ==
    ASSUME NEW cs, AllConstructs(cs), NEW text, LastTexts(text, cs)
    PROVE  /\ text[0] = <<>>
           /\ \A n \in 1..Len(cs) : Begins(text, cs, n)
           /\ \A n \in 0..Len(cs) : text[n] \in Seq(Characters)
<1> DEFINE d == Len(cs)
           Good == {n \in 0..d : text[n] \in Seq(Characters)}
<1>1. d \in Nat /\ \A k \in 1..d : IsConstruct(cs[k])
  BY DEF AllConstructs
<1>2. text[0] = <<>>
  <2>1. 0 \in 0..d
    BY <1>1
  <2> QED
    BY <2>1 DEF LastTexts
<1>3. \A n \in 1..d : text[n] = Written(cs[d - n + 1]) \o text[n - 1]
  <2> TAKE n \in 1..d
  <2>1. n \in 0..d /\ n # 0
    BY <1>1
  <2> QED
    BY <2>1 DEF LastTexts
<1>4. \A n \in 1..d : d - n + 1 \in 1..d
  BY <1>1
<1>5. 0 \in Good
  <2>1. 0 \in 0..d /\ <<>> \in Seq(Characters)
    BY <1>1
  <2> QED
    BY <1>2, <2>1
<1>6. ASSUME NEW n \in 1..d, n - 1 \in Good PROVE n \in Good
  <2>1. Written(cs[d - n + 1]) \in Seq(Characters)
    BY <1>1, <1>4, WrittenTyped
  <2>2. text[n - 1] \in Seq(Characters)
    BY <1>6
  <2>3. text[n] \in Seq(Characters)
    BY <1>3, <2>1, <2>2, ConcatPlaces
  <2>4. n \in 0..d
    BY <1>1
  <2> QED
    BY <2>3, <2>4
<1>7. \A n \in 0..d : n \in Good
  <2> HIDE DEF Good, d
  <2> QED
    BY <1>1, <1>5, <1>6, UpTo
<1>8. ASSUME NEW n \in 1..d PROVE Begins(text, cs, n)
  <2>1. text[n] = Written(cs[d - n + 1]) \o text[n - 1]
    BY <1>3, Zenon
  <2>2. IsConstruct(cs[d - n + 1])
    BY <1>1, <1>4
  <2> QED
    BY <2>1, <2>2, Zenon DEF Begins, FromLast
<1> QED
  BY <1>2, <1>7, <1>8

\* The ends of two texts, one after the other.
Ends(s, first, last) == s # <<>> /\ s[1] = first /\ s[Len(s)] = last

LEMMA ConcatEnds ==
    ASSUME NEW A, NEW s \in Seq(A), NEW t \in Seq(A), s # <<>>
    PROVE  Ends(s \o t, s[1], IF t = <<>> THEN s[Len(s)] ELSE t[Len(t)])
<1> DEFINE u == s \o t
<1>1. u \in Seq(A) /\ IsConcat(u, s, t) /\ Len(u) = Len(s) + Len(t)
  BY ConcatPlaces, ConcatProperties
<1> HIDE DEF u
<1>2. Len(s) \in Nat /\ Len(s) >= 1 /\ Len(t) \in Nat /\ DOMAIN s = 1..Len(s) /\ DOMAIN t = 1..Len(t)
  <2>1. Len(s) \in Nat \ {0}
    BY EmptySeq
  <2> QED
    BY <2>1
<1>3. u # <<>>
  BY <1>1, <1>2
<1>4. u[1] = s[1]
  <2>1. 1 \in DOMAIN s
    BY <1>2
  <2> QED
    BY <1>1, <2>1 DEF IsConcat
<1>5. CASE t = <<>>
  <2>1. Len(t) = 0 /\ Len(u) = Len(s) /\ Len(s) \in DOMAIN s
    BY <1>1, <1>2, <1>5
  <2>2. u[Len(u)] = s[Len(s)]
    BY <1>1, <2>1 DEF IsConcat
  <2> QED
    BY <1>3, <1>4, <1>5, <2>2 DEF Ends, u
<1>6. CASE t # <<>>
  <2>1. Len(t) \in Nat \ {0}
    BY <1>6, EmptySeq
  <2>2. Len(t) \in DOMAIN t /\ Len(s) + Len(t) = Len(u)
    BY <1>1, <1>2, <2>1
  <2>3. u[Len(s) + Len(t)] = t[Len(t)]
    BY <1>1, <2>2 DEF IsConcat
  <2>4. u[Len(u)] = t[Len(t)]
    BY <2>2, <2>3
  <2> QED
    BY <1>3, <1>4, <1>6, <2>4 DEF Ends, u
<1> QED
  BY <1>5, <1>6

\* A text of constructs begins with a dot or a bracket, and does not end with a space.
Marked(s) == s # <<>> /\ s[1] \in {".", "["} /\ s[Len(s)] # " "

LEMMA NameEnds ==
    ASSUME NEW name \in Seq(Characters), IsIdentifier(name)
    PROVE  /\ name # <<>> /\ name[1] \in Letters \cup {"_"} /\ name[Len(name)] # " "
<1>1. name # <<>>
  BY DEF IsIdentifier
<1>2. Len(name) \in Nat \ {0}
  BY <1>1, EmptySeq
<1>3. Len(name) \in DOMAIN name
  BY <1>2
<1>4. name[Len(name)] \in Letters \cup Digits \cup {"_", "-"}
  BY <1>3 DEF IsIdentifier
<1>5. name[1] \in Letters \cup {"_"}
  BY DEF IsIdentifier
<1> QED
  BY <1>1, <1>4, <1>5, NamePartMarks, Zenon

LEMMA WrittenMarked ==
    ASSUME NEW c, IsConstruct(c)
    PROVE  Marked(Written(c))
<1>1. CASE AfterDot(c)
  <2> DEFINE name == c.text
  <2>1. name \in Seq(Characters) /\ IsIdentifier(name) /\ Prepends(Written(c), ".", name, Characters)
    BY <1>1, WrittenDot, Zenon
  <2> HIDE DEF name
  <2>2. name # <<>> /\ name[Len(name)] # " "
    BY <2>1, NameEnds, Zenon
  <2>3. Ends(Written(c), ".", name[Len(name)])
    <3>1. Len(name) \in Nat \ {0}
      BY <2>1, <2>2, EmptySeq, Zenon
    <3>2. /\ Len(Written(c)) = Len(name) + 1 /\ Written(c)[1] = "."
          /\ \A n \in DOMAIN name : Written(c)[n + 1] = name[n]
      BY <2>1, Zenon DEF Prepends
    <3>3. name \in Seq(Characters)
      BY <2>1, Zenon
    <3> QED
      BY <3>1, <3>2, <3>3 DEF Ends
  <2> QED
    BY <2>2, <2>3, Zenon DEF Ends, Marked
<1>2. CASE ~AfterDot(c)
  <2>1. Ends(Written(c), "[", "]")
    BY <1>2, WrittenSubscript, Zenon DEF Enclosed, Ends
  <2> QED
    BY <2>1, Zenon DEF Ends, Marked
<1> QED
  BY <1>1, <1>2, Zenon

LEMMA ConcatMarked ==
    ASSUME NEW s \in Seq(Characters), NEW t \in Seq(Characters), Marked(s), t = <<>> \/ Marked(t)
    PROVE  Marked(s \o t)
<1>1. s # <<>>
  BY Zenon DEF Marked
<1>2. Ends(s \o t, s[1], IF t = <<>> THEN s[Len(s)] ELSE t[Len(t)])
  BY <1>1, ConcatEnds, Zenon
<1>3. CASE t = <<>>
  BY <1>2, <1>3, Zenon DEF Ends, Marked
<1>4. CASE t # <<>>
  <2>1. Marked(t)
    BY <1>4
  <2> QED
    BY <1>2, <1>4, <2>1, Zenon DEF Ends, Marked
<1> QED
  BY <1>3, <1>4, Zenon

LEMMA LastTextsMarked ==
    ASSUME NEW cs, AllConstructs(cs), NEW text, LastTexts(text, cs)
    PROVE  \A n \in 1..Len(cs) : Marked(text[n])
<1> DEFINE d == Len(cs)
           Good == {n \in 0..d : n = 0 \/ Marked(text[n])}
<1>1. /\ text[0] = <<>>
      /\ \A n \in 1..d : Begins(text, cs, n)
      /\ \A n \in 0..d : text[n] \in Seq(Characters)
  BY LastTextsSteps
<1>2. d \in Nat
  BY DEF AllConstructs
<1>3. 0 \in Good
  BY <1>2
<1>4. ASSUME NEW n \in 1..d, n - 1 \in Good PROVE n \in Good
  <2>1. n - 1 \in 0..d /\ n \in 0..d
    BY <1>2
  <2>2. text[n - 1] = <<>> \/ Marked(text[n - 1])
    BY <1>1, <1>4
  <2> DEFINE w == Written(FromLast(cs, n))
  <2>3. IsConstruct(FromLast(cs, n)) /\ text[n] = w \o text[n - 1]
    BY <1>1, Zenon DEF Begins
  <2>4. Marked(w) /\ w \in Seq(Characters)
    BY <2>3, WrittenMarked, WrittenTyped, Zenon
  <2>5. text[n - 1] \in Seq(Characters)
    BY <1>1, <2>1
  <2> HIDE DEF w
  <2>6. Marked(w \o text[n - 1])
    BY <2>2, <2>4, <2>5, ConcatMarked, Zenon
  <2>7. Marked(text[n])
    BY <2>3, <2>6, Zenon
  <2> QED
    BY <2>1, <2>7
<1>5. \A n \in 0..d : n \in Good
  <2> HIDE DEF Good, d
  <2> QED
    BY <1>2, <1>3, <1>4, UpTo
<1>6. \A n \in 1..d : n \in 0..d /\ n # 0
  BY <1>2
<1> QED
  BY <1>5, <1>6

LEMMA RestMarked ==
    ASSUME NEW cs, AllConstructs(cs), NEW text, LastTexts(text, cs), NEW n \in 1..Len(cs)
    PROVE  text[n - 1] = <<>> \/ Marked(text[n - 1])
<1>1. Len(cs) \in Nat
  BY DEF AllConstructs
<1>2. CASE n = 1
  <2>1. n - 1 = 0
    BY <1>2
  <2> QED
    BY <2>1, LastTextsSteps
<1>3. CASE n # 1
  <2>1. n - 1 \in 1..Len(cs)
    BY <1>1, <1>3
  <2> QED
    BY <2>1, LastTextsMarked
<1> QED
  BY <1>2, <1>3

LEMMA GoesOnWithRest ==
    ASSUME NEW A, NEW p \in Seq(A), NEW rest \in Seq(Characters), rest = <<>> \/ Marked(rest),
           NEW i \in Nat, ReadsAt(p, i, rest), i + Len(rest) = Len(p) + 1
    PROVE  GoesOn(p, i)
<1>1. Len(p) \in Nat
  OBVIOUS
<1>2. CASE rest = <<>>
  <2>1. Len(rest) = 0
    BY <1>2
  <2> QED
    BY <1>1, <2>1 DEF GoesOn
<1>3. CASE Marked(rest)
  <2>1. rest # <<>> /\ rest[1] \in {".", "["}
    BY <1>3, Zenon DEF Marked
  <2>2. Len(rest) \in Nat \ {0}
    BY <2>1, EmptySeq
  <2>3. 1 \in 1..Len(rest) /\ i - 1 + 1 = i
    BY <2>2
  <2>4. p[i - 1 + 1] = rest[1]
    BY <2>3 DEF ReadsAt
  <2> QED
    BY <2>1, <2>3, <2>4 DEF GoesOn
<1> QED
  BY <1>2, <1>3

\* The segments of the last n constructs.
LastSegments(cs, n) == [k \in 1..n |-> SegmentOf(cs[Len(cs) - n + k])]

LEMMA AtTheEnd ==
    ASSUME NEW p, NEW from, Reading(from, p), NEW i, i = Len(p) + 1
    PROVE  At(from, i, Optional) = {<<>>}
<1>1. PICK A : p \in Seq(A)
  BY DEF Reading, IsText
<1>2. Len(p) \in Nat
  BY <1>1
<1>3. i \in 1..(Len(p) + 1) /\ i > Len(p)
  BY <1>2
<1>4. At(from, i, Optional) = Round(p, from, i, FALSE)
  BY <1>3 DEF Reading, RoundByRound, At, Optional
<1> QED
  BY <1>3, <1>4 DEF Round

LEMMA NoSegments ==
    ASSUME NEW cs
    PROVE  LastSegments(cs, 0) = <<>>
BY DEF LastSegments

LEMMA OneSegmentMore ==
    ASSUME NEW cs, AllConstructs(cs), NEW n \in 1..Len(cs)
    PROVE  Then(SegmentOf(FromLast(cs, n)), {LastSegments(cs, n - 1)}) = {LastSegments(cs, n)}
<1> DEFINE d == Len(cs)
           S == {SegmentOf(cs[k]) : k \in 1..d}
           rest == LastSegments(cs, n - 1)
           seg == SegmentOf(FromLast(cs, n))
           all == LastSegments(cs, n)
           made == <<seg>> \o rest
<1>1. d \in Nat /\ n - 1 \in Nat /\ n \in Nat
  BY DEF AllConstructs
<1>2. \A k \in 1..(n - 1) : d - (n - 1) + k \in 1..d
  BY <1>1
<1>3. \A k \in 1..n : d - n + k \in 1..d
  BY <1>1
<1>4. rest \in [1..(n - 1) -> S] /\ all \in [1..n -> S]
  BY <1>2, <1>3 DEF LastSegments
<1>5. rest \in Seq(S) /\ all \in Seq(S)
  <2> HIDE DEF S, rest, all
  <2> QED
    BY <1>1, <1>4, FunctionIsSeq
<1>6. seg \in S
  <2>1. d - n + 1 \in 1..d
    BY <1>1
  <2> QED
    BY <2>1 DEF FromLast
<1>7. Prepends(made, seg, rest, S)
  <2> HIDE DEF S, seg, rest
  <2> QED
    BY <1>5, <1>6, PrependedPlaces
<1>8. Len(rest) = n - 1 /\ Len(all) = n
  <2> HIDE DEF S, rest, all
  <2> QED
    BY <1>1, <1>4, <1>5
<1>9. all[1] = seg
  <2>1. 1 \in 1..n
    BY <1>1
  <2> QED
    BY <2>1 DEF LastSegments, FromLast
<1>10. \A k \in 1..(n - 1) : all[k + 1] = rest[k]
  <2> TAKE k \in 1..(n - 1)
  <2>1. k + 1 \in 1..n /\ d - n + (k + 1) = d - (n - 1) + k
    BY <1>1
  <2> QED
    BY <2>1 DEF LastSegments
<1> HIDE DEF rest, seg, all, S, made
<1>11. made \in Seq(S) /\ Len(made) = n
  <2>1. made \in [1..n -> S]
    BY <1>1, <1>7, <1>8 DEF Prepends
  <2> QED
    BY <1>1, <2>1, FunctionIsSeq
<1>12. \A k \in 1..n : made[k] = all[k]
  <2> TAKE k \in 1..n
  <2>1. made[1] = seg /\ \A m \in 1..(n - 1) : made[m + 1] = rest[m]
    <3>1. DOMAIN rest = 1..(n - 1)
      BY <1>4
    <3> QED
      BY <1>7, <3>1 DEF Prepends
  <2>2. CASE k = 1
    BY <1>9, <2>1, <2>2
  <2>3. CASE k # 1
    <3>1. k - 1 \in 1..(n - 1) /\ (k - 1) + 1 = k
      BY <1>1, <2>3
    <3>2. made[(k - 1) + 1] = rest[k - 1] /\ all[(k - 1) + 1] = rest[k - 1]
      BY <1>10, <2>1, <3>1
    <3> QED
      BY <3>1, <3>2
  <2> QED
    BY <2>2, <2>3
<1>13. made = all
  BY <1>5, <1>8, <1>11, <1>12, SeqEqual
<1>14. Then(seg, {rest}) = {made}
  BY DEF Then, made
<1> QED
  BY <1>13, <1>14 DEF rest, seg, all

\* What parsePath makes of the constructs from place i on, when nothing follows them.
ReadFrom(p, from, text, cs, n) ==
    \A i \in Nat :
        ReadsAt(p, i, text[n]) /\ i + Len(text[n]) = Len(p) + 1
        => At(from, i, Optional) = {LastSegments(cs, n)}

LEMMA ReadsLast ==
    ASSUME NEW p, NEW from, Reading(from, p), NEW cs, AllConstructs(cs),
           NEW text, LastTexts(text, cs)
    PROVE  \A n \in 0..Len(cs) : ReadFrom(p, from, text, cs, n)
<1> DEFINE d == Len(cs)
           Good == {n \in 0..d : ReadFrom(p, from, text, cs, n)}
<1>1. d \in Nat
  BY DEF AllConstructs
<1>2. /\ text[0] = <<>>
      /\ \A n \in 1..d : Begins(text, cs, n)
      /\ \A n \in 0..d : text[n] \in Seq(Characters)
  BY LastTextsSteps
<1>4. PICK A : p \in Seq(A)
  BY DEF Reading, IsText
<1>5. 0 \in Good
  <2>1. ASSUME NEW i \in Nat, i + Len(text[0]) = Len(p) + 1
        PROVE  At(from, i, Optional) = {LastSegments(cs, 0)}
    <3>1. i = Len(p) + 1
      <4>1. Len(text[0]) = 0
        BY <1>2
      <4> QED
        BY <2>1, <4>1
    <3> QED
      BY <3>1, AtTheEnd, NoSegments
  <2>2. 0 \in 0..d
    BY <1>1
  <2> QED
    BY <2>1, <2>2 DEF ReadFrom
<1>6. ASSUME NEW n \in 1..d, n - 1 \in Good PROVE n \in Good
  <2> DEFINE c == FromLast(cs, n)
             w == Written(c)
             rest == text[n - 1]
  <2>1. n - 1 \in 0..d /\ n \in 0..d
    BY <1>1
  <2>2. IsConstruct(c) /\ text[n] = w \o rest
    BY <1>2, Zenon DEF Begins
  <2>3. w \in Seq(Characters) /\ rest \in Seq(Characters)
    BY <1>2, <2>1, <2>2, WrittenTyped, Zenon
  <2>4. rest = <<>> \/ Marked(rest)
    BY RestMarked, Zenon
  <2>5. ReadFrom(p, from, text, cs, n - 1)
    BY <1>6
  <2>6. ASSUME NEW i \in Nat, ReadsAt(p, i, text[n]), i + Len(text[n]) = Len(p) + 1
        PROVE  At(from, i, Optional) = {LastSegments(cs, n)}
    <3> HIDE DEF c, w, rest
    <3>1. ReadsAt(p, i, w \o rest)
      BY <2>2, <2>6, Zenon
    <3>2. ReadsAt(p, i, w) /\ ReadsAt(p, i + Len(w), rest)
      BY <1>4, <2>3, <3>1, ReadsPart, Zenon
    <3>3. Len(w \o rest) = Len(w) + Len(rest) /\ Len(w) \in Nat /\ Len(rest) \in Nat
      BY <2>3, ConcatProperties
    <3>4. Len(text[n]) = Len(w) + Len(rest)
      BY <2>2, <3>3, Zenon
    <3>5. i + Len(w) \in Nat /\ (i + Len(w)) + Len(rest) = Len(p) + 1 /\ Len(p) \in Nat
      BY <1>4, <2>6, <3>3, <3>4
    <3>6. At(from, i + Len(w), Optional) = {LastSegments(cs, n - 1)}
      BY <2>5, <3>2, <3>5 DEF ReadFrom, rest
    <3>7. GoesOn(p, i + Len(w))
      BY <1>4, <2>3, <2>4, <3>2, <3>5, GoesOnWithRest
    <3>8. At(from, i, Optional) = Then(SegmentOf(c), At(from, i + Len(w), Optional))
      BY <2>2, <3>2, <3>7, ConstructRead DEF w
    <3>9. Then(SegmentOf(c), {LastSegments(cs, n - 1)}) = {LastSegments(cs, n)}
      BY OneSegmentMore DEF c
    <3> QED
      BY <3>6, <3>8, <3>9
  <2>7. ReadFrom(p, from, text, cs, n)
    BY <2>6 DEF ReadFrom
  <2> QED
    BY <2>1, <2>7
<1>7. \A n \in 0..d : n \in Good
  <2> HIDE DEF Good, d
  <2> QED
    BY <1>1, <1>5, <1>6, UpTo
<1> QED
  BY <1>7

OneSegmentMoreAt(cs, n) ==
    Then(SegmentOf(FromLast(cs, n)), {LastSegments(cs, n - 1)}) = {LastSegments(cs, n)}

LEMMA SegmentsAt ==
    ASSUME NEW p, IsText(p)
    PROVE  \E from : Reading(from, p) /\ Segments(p) = At(from, 1, Required)
<1>1. PICK A : p \in Seq(A)
  BY DEF IsText
<1>2. PICK from : RoundByRound(from, p) /\ Segments(p) = from[<<1, TRUE>>]
  BY <1>1, SegmentsRounds, Zenon
<1>3. At(from, 1, Required) = from[<<1, TRUE>>]
  BY Zenon DEF At, Required
<1> QED
  BY <1>2, <1>3, Zenon DEF Reading

LEMMA ReadsItself ==
    ASSUME NEW A, NEW p \in Seq(A)
    PROVE  ReadsAt(p, 1, p)
<1>1. Len(p) \in Nat /\ \A k \in 1..Len(p) : 1 - 1 + k = k
  OBVIOUS
<1> QED
  BY <1>1 DEF ReadsAt

\* parsePath reads all the constructs, when a subscript comes first.
LEMMA SubscriptFirst ==
    ASSUME NEW cs, AllConstructs(cs), Len(cs) >= 1, NEW text, LastTexts(text, cs),
           ~AfterDot(FromLast(cs, Len(cs)))
    PROVE  Segments(text[Len(cs)]) = {LastSegments(cs, Len(cs))}
<1> DEFINE d == Len(cs)
           c == FromLast(cs, d)
           w == Written(c)
           rest == text[d - 1]
           p == text[d]
<1>1. d \in Nat /\ d \in 1..d /\ d \in 0..d /\ d - 1 \in 0..d
  BY DEF AllConstructs
<1>2. IsConstruct(c) /\ p = w \o rest /\ rest \in Seq(Characters) /\ p \in Seq(Characters)
  BY <1>1, LastTextsSteps, Zenon DEF Begins
<1>3. w \in Seq(Characters)
  BY <1>2, WrittenTyped, Zenon
<1>4. PICK from : Reading(from, p) /\ Segments(p) = At(from, 1, Required)
  <2>1. IsText(p)
    BY <1>2, Zenon DEF IsText
  <2> QED
    BY <2>1, SegmentsAt, Zenon
<1>5. ReadFrom(p, from, text, cs, d - 1)
  BY <1>1, <1>4, ReadsLast, Zenon
<1>6. ~AfterDot(c)
  OBVIOUS
<1>7. OneSegmentMoreAt(cs, d)
  BY <1>1, OneSegmentMore DEF OneSegmentMoreAt
<1> HIDE DEF c, w, rest, p, d
<1>8. ReadsAt(p, 1, w) /\ ReadsAt(p, 1 + Len(w), rest)
  <2>1. ReadsAt(p, 1, p)
    BY <1>2, ReadsItself, Zenon
  <2>2. ReadsAt(p, 1, w \o rest)
    BY <1>2, <2>1, Zenon
  <2> QED
    BY <1>2, <1>3, <2>2, ReadsPart, Zenon
<1>9. Len(p) = Len(w) + Len(rest) /\ Len(w) \in Nat /\ Len(rest) \in Nat
  <2>1. Len(w \o rest) = Len(w) + Len(rest) /\ Len(w) \in Nat /\ Len(rest) \in Nat
    BY <1>2, <1>3, ConcatProperties
  <2> QED
    BY <1>2, <2>1, Zenon
<1>10. 1 + Len(w) \in Nat /\ 1 + Len(w) + Len(rest) = Len(p) + 1 /\ 1 \in Nat
  BY <1>9
<1>11. At(from, 1, Required) = Then(SegmentOf(c), At(from, 1 + Len(w), Optional))
  BY <1>2, <1>4, <1>6, <1>8, <1>10, Expectations, SubscriptRead DEF w
<1>12. At(from, 1 + Len(w), Optional) = {LastSegments(cs, d - 1)}
  BY <1>5, <1>8, <1>10 DEF ReadFrom, rest
<1>13. Then(SegmentOf(c), {LastSegments(cs, d - 1)}) = {LastSegments(cs, d)}
  BY <1>7 DEF OneSegmentMoreAt, c
<1>14. Segments(p) = {LastSegments(cs, d)}
  BY <1>4, <1>11, <1>12, <1>13
<1> QED
  BY <1>14 DEF p, d

\* parsePath reads all the constructs, when a field without its dot comes first.
LEMMA FieldFirst ==
    ASSUME NEW cs, AllConstructs(cs), Len(cs) >= 1, NEW text, LastTexts(text, cs),
           AfterDot(FromLast(cs, Len(cs)))
    PROVE  Segments(FromLast(cs, Len(cs)).text \o text[Len(cs) - 1]) = {LastSegments(cs, Len(cs))}
<1> DEFINE d == Len(cs)
           c == FromLast(cs, d)
           name == c.text
           rest == text[d - 1]
           p == name \o rest
<1>1. d \in Nat /\ d \in 1..d /\ d \in 0..d /\ d - 1 \in 0..d
  BY DEF AllConstructs
<1>2. IsConstruct(c) /\ rest \in Seq(Characters)
  BY <1>1, LastTextsSteps, Zenon DEF Begins
<1>3. name \in Seq(Characters) /\ IsIdentifier(name) /\ SegmentOf(c) = Field(name)
  BY <1>2, WrittenDot, Zenon
<1>4. rest = <<>> \/ Marked(rest)
  BY <1>1, RestMarked, Zenon
<1>5. p \in Seq(Characters)
  BY <1>2, <1>3, ConcatPlaces, Zenon
<1>6. PICK from : Reading(from, p) /\ Segments(p) = At(from, 1, Required)
  <2>1. IsText(p)
    BY <1>5, Zenon DEF IsText
  <2> QED
    BY <2>1, SegmentsAt, Zenon
<1>7. ReadFrom(p, from, text, cs, d - 1)
  BY <1>1, <1>6, ReadsLast, Zenon
<1>8. OneSegmentMoreAt(cs, d)
  BY <1>1, OneSegmentMore DEF OneSegmentMoreAt
<1>9. Len(p) = Len(name) + Len(rest) /\ Len(name) \in Nat /\ Len(rest) \in Nat
  <2> HIDE DEF name, rest
  <2> QED
    BY <1>2, <1>3, ConcatProperties
<1>10. ReadsAt(p, 1, name) /\ ReadsAt(p, 1 + Len(name), rest)
  <2>1. ReadsAt(p, 1, name \o rest)
    BY <1>5, ReadsItself, Zenon
  <2> QED
    BY <1>2, <1>3, <1>5, <2>1, ReadsPart, Zenon
<1> HIDE DEF c, name, rest, p, d
<1>11. 1 + Len(name) \in Nat /\ 1 + Len(name) + Len(rest) = Len(p) + 1 /\ 1 \in Nat
  BY <1>9
<1>12. GoesOn(p, 1 + Len(name))
  BY <1>2, <1>4, <1>5, <1>10, <1>11, GoesOnWithRest
<1>13. FieldAt(p, 1, name)
  BY <1>3, <1>10, <1>12, Zenon DEF FieldAt, IsText
<1>14. At(from, 1, Required) = Then(Field(name), At(from, 1 + Len(name), Optional))
  BY <1>6, <1>11, <1>13, Expectations, FieldRound
<1>15. At(from, 1 + Len(name), Optional) = {LastSegments(cs, d - 1)}
  BY <1>7, <1>10, <1>11 DEF ReadFrom, rest
<1>16. Then(SegmentOf(c), {LastSegments(cs, d - 1)}) = {LastSegments(cs, d)}
  BY <1>8 DEF OneSegmentMoreAt, c
<1>17. Segments(p) = {LastSegments(cs, d)}
  BY <1>3, <1>6, <1>14, <1>15, <1>16
<1> QED
  BY <1>17 DEF p, name, c, rest, d

-----------------------------------------------------------------------------
(* The spellings of the constructs *)

LEMMA NothingBefore ==
    ASSUME NEW A, NEW s \in Seq(A), s[1] # ".", s[1] # "$"
    PROVE  WithoutPrefix(<<".">>, s) = s /\ WithoutPrefix(<<"$", ".">>, s) = s
<1>1. ~IsPrefix(<<".">>, s)
  BY NotOnePrefix, Zenon
<1>2. ~IsPrefix(<<"$", ".">>, s)
  <2> DEFINE prefix == <<"$", ".">>
  <2>1. Len(prefix) \in Nat /\ Len(prefix) >= 1 /\ prefix[1] = "$"
    OBVIOUS
  <2> HIDE DEF prefix
  <2>2. ~IsPrefix(prefix, s)
    BY <2>1, NoPrefix
  <2> QED
    BY <2>2 DEF prefix
<1> QED
  BY <1>1, <1>2, Zenon DEF WithoutPrefix

\* The texts with t and without the braces.
Braced(t) == {t, <<"{">> \o t \o <<"}">>}

LEMMA BareOfEither ==
    ASSUME NEW B, NEW t \in Seq(B), Solid(t), t[1] # "{", NEW path \in Braced(t)
    PROVE  Bare(path) = WithoutPrefix(<<"$", ".">>, WithoutPrefix(<<".">>, t))
<1>1. path = t \/ path = <<"{">> \o t \o <<"}">>
  BY Zenon DEF Braced
<1> QED
  BY <1>1, BareOf, Zenon

LEMMA BareSubscripts ==
    ASSUME NEW A, NEW t \in Seq(A), Marked(t), t[1] = "[", NEW path \in Braced(t)
    PROVE  Bare(path) = t
<1>1. Solid(t) /\ t[1] # "{" /\ t[1] # "." /\ t[1] # "$"
  BY Zenon DEF Marked, Solid
<1>2. WithoutPrefix(<<".">>, t) = t /\ WithoutPrefix(<<"$", ".">>, t) = t
  BY <1>1, NothingBefore, Zenon
<1>3. Bare(path) = WithoutPrefix(<<"$", ".">>, WithoutPrefix(<<".">>, t))
  BY <1>1, BareOfEither, Zenon
<1> QED
  BY <1>2, <1>3, Zenon

LEMMA BareFields ==
    ASSUME NEW u \in Seq(Characters), u # <<>>, u[1] \in Letters \cup {"_"}, u[Len(u)] # " ",
           NEW w, w = <<".">> \o u, Marked(w),
           NEW path \in Braced(w) \cup Braced(u)
    PROVE  Bare(path) = u
<1>1. u[1] # " " /\ u[1] # "." /\ u[1] # "{" /\ u[1] # "$"
  BY NameMarks, Zenon
<1>2. WithoutPrefix(<<".">>, u) = u /\ WithoutPrefix(<<"$", ".">>, u) = u
  BY <1>1, NothingBefore, Zenon
<1>3. CASE path \in Braced(u)
  <2>1. Solid(u)
    BY <1>1, Zenon DEF Solid
  <2>2. Bare(path) = WithoutPrefix(<<"$", ".">>, WithoutPrefix(<<".">>, u))
    BY <1>1, <1>3, <2>1, BareOfEither, Zenon
  <2> QED
    BY <1>2, <2>2, Zenon
<1>4. CASE path \in Braced(w)
  <2>1. "." \in Characters
    BY CharactersOf, Zenon
  <2>2. <<".">> \o u \in Seq(Characters) /\ (<<".">> \o u)[1] = "."
    BY <2>1, AfterOne, Zenon
  <2>3. w \in Seq(Characters) /\ w[1] = "."
    BY <2>2, Zenon
  <2>4. Solid(w) /\ w[1] # "{"
    BY <2>3, Zenon DEF Solid, Marked
  <2>5. WithoutPrefix(<<".">>, w) = u
    BY <2>1, DropsOne, Zenon
  <2>6. Bare(path) = WithoutPrefix(<<"$", ".">>, WithoutPrefix(<<".">>, w))
    BY <1>4, <2>3, <2>4, BareOfEither, Zenon
  <2> QED
    BY <1>2, <2>5, <2>6, Zenon
<1> QED
  BY <1>3, <1>4, Zenon

\* The spellings: all of the text, and without its first dot.
LEMMA SpellingsAre ==
    ASSUME NEW cs, AllConstructs(cs), NEW path \in Spellings(cs)
    PROVE  \E text : /\ LastTexts(text, cs)
                     /\ LET w == text[Len(cs)]
                        IN  \/ path \in Braced(w)
                            \/ w[1] = "." /\ path \in Braced(SubSeq(w, 2, Len(w)))
<1> DEFINE text == CHOOSE t : LastTexts(t, cs)
           w == text[Len(cs)]
           short == IF w[1] = "." THEN SubSeq(w, 2, Len(w)) ELSE w
<1>1. LastTexts(text, cs)
  BY LastTextsExist, Zenon
<1>2. path \in {w, short, <<"{">> \o w \o <<"}">>, <<"{">> \o short \o <<"}">>}
  BY Zenon DEF Spellings, LastTexts
<1> HIDE DEF text
<1>3. path \in Braced(w) \cup Braced(short)
  BY <1>2, Zenon DEF Braced
<1>4. \/ path \in Braced(w)
      \/ w[1] = "." /\ path \in Braced(SubSeq(w, 2, Len(w)))
  BY <1>3, Zenon
<1> QED
  BY <1>1, <1>4, Zenon

LEMMA FirstOfAll ==
    ASSUME NEW cs, AllConstructs(cs), Len(cs) >= 1, NEW text, LastTexts(text, cs)
    PROVE  /\ IsConstruct(FromLast(cs, Len(cs)))
           /\ text[Len(cs)] = Written(FromLast(cs, Len(cs))) \o text[Len(cs) - 1]
           /\ text[Len(cs) - 1] \in Seq(Characters) /\ text[Len(cs)] \in Seq(Characters)
           /\ Marked(text[Len(cs)])
           /\ text[Len(cs) - 1] = <<>> \/ Marked(text[Len(cs) - 1])
<1> DEFINE d == Len(cs)
<1>1. d \in Nat /\ d \in 1..d /\ d \in 0..d /\ d - 1 \in 0..d
  BY DEF AllConstructs
<1>2. Begins(text, cs, d) /\ text[d - 1] \in Seq(Characters) /\ text[d] \in Seq(Characters)
  BY <1>1, LastTextsSteps, Zenon
<1>3. Marked(text[d])
  BY <1>1, LastTextsMarked, Zenon
<1>4. text[d - 1] = <<>> \/ Marked(text[d - 1])
  BY <1>1, RestMarked, Zenon
<1> QED
  BY <1>2, <1>3, <1>4, Zenon DEF Begins

\* The order in which three texts are put together does not matter.
Reassociates(r, s, t) == (r \o s) \o t = r \o (s \o t)

LEMMA ThreeTexts ==
    ASSUME NEW A, NEW r \in Seq(A), NEW s \in Seq(A), NEW t \in Seq(A)
    PROVE  Reassociates(r, s, t)
BY ConcatAssociative DEF Reassociates

\* parsePath finds the constructs that a text is a spelling of.
LEMMA SpellingParses ==
    ASSUME NEW cs, AllConstructs(cs), Len(cs) >= 1, NEW path \in Spellings(cs)
    PROVE  Segments(Bare(path)) = {LastSegments(cs, Len(cs))}
<1> DEFINE d == Len(cs)
           c == FromLast(cs, d)
<1>1. PICK text : /\ LastTexts(text, cs)
                  /\ LET w == text[d]
                     IN  \/ path \in Braced(w)
                         \/ w[1] = "." /\ path \in Braced(SubSeq(w, 2, Len(w)))
  BY SpellingsAre, Zenon
<1> DEFINE w == text[d]
           rest == text[d - 1]
<1>2. /\ IsConstruct(c) /\ w = Written(c) \o rest
      /\ rest \in Seq(Characters) /\ w \in Seq(Characters) /\ Marked(w)
      /\ rest = <<>> \/ Marked(rest)
  BY <1>1, FirstOfAll, Zenon
<1>3. \/ path \in Braced(w)
      \/ w[1] = "." /\ path \in Braced(SubSeq(w, 2, Len(w)))
  BY <1>1, Zenon
<1>4. CASE ~AfterDot(c)
  <2>1. Segments(w) = {LastSegments(cs, d)}
    BY <1>1, <1>4, SubscriptFirst, Zenon
  <2> HIDE DEF d, c, w, rest
  <2>2. Written(c) \in Seq(Characters) /\ Written(c) # <<>> /\ Written(c)[1] = "["
    BY <1>2, <1>4, WrittenSubscript, Zenon DEF Enclosed
  <2>3. Ends(Written(c) \o rest, Written(c)[1],
             IF rest = <<>> THEN Written(c)[Len(Written(c))] ELSE rest[Len(rest)])
    BY <1>2, <2>2, ConcatEnds, Zenon
  <2>4. w[1] = "["
    BY <1>2, <2>2, <2>3, Zenon DEF Ends
  <2>5. path \in Braced(w)
    BY <1>3, <2>4, Zenon
  <2>6. Bare(path) = w
    BY <1>2, <2>4, <2>5, BareSubscripts, Zenon
  <2> QED
    BY <2>1, <2>6, Zenon DEF d
<1>5. CASE AfterDot(c)
  <2> DEFINE name == c.text
             u == name \o rest
  <2>1. Segments(u) = {LastSegments(cs, d)}
    BY <1>1, <1>5, FieldFirst, Zenon
  <2> HIDE DEF d, c, w, rest
  <2>2. name \in Seq(Characters) /\ IsIdentifier(name) /\ Written(c) = <<".">> \o name
    BY <1>2, <1>5, WrittenDot, Zenon
  <2> HIDE DEF name
  <2>3. u \in Seq(Characters)
    BY <1>2, <2>2, ConcatPlaces, Zenon
  <2>4. name # <<>> /\ name[1] \in Letters \cup {"_"} /\ name[Len(name)] # " "
    BY <2>2, NameEnds, Zenon
  <2>5. Ends(u, name[1], IF rest = <<>> THEN name[Len(name)] ELSE rest[Len(rest)])
    BY <1>2, <2>2, <2>4, ConcatEnds, Zenon
  <2>6. u # <<>> /\ u[1] \in Letters \cup {"_"} /\ u[Len(u)] # " "
    <3>1. CASE rest = <<>>
      BY <2>4, <2>5, <3>1, Zenon DEF Ends
    <3>2. CASE rest # <<>>
      BY <1>2, <2>4, <2>5, <3>2, Zenon DEF Ends, Marked
    <3> QED
      BY <3>1, <3>2, Zenon
  <2>7. w = <<".">> \o u
    <3>1. "." \in Characters
      BY CharactersOf, Zenon
    <3>2. <<".">> \in Seq(Characters)
      BY <3>1, OneCharacterText, Zenon
    <3>3. Reassociates(<<".">>, name, rest)
      BY <1>2, <2>2, <3>2, ThreeTexts, Zenon
    <3>4. w = (<<".">> \o name) \o rest
      BY <1>2, <2>2, Zenon
    <3> QED
      BY <3>3, <3>4, Zenon DEF Reassociates
  <2>8. SubSeq(w, 2, Len(w)) = u
    <3>1. "." \in Characters
      BY CharactersOf, Zenon
    <3>2. SubSeq(<<".">> \o u, 2, Len(<<".">> \o u)) = u
      BY <2>3, <3>1, AfterOne, Zenon
    <3> QED
      BY <2>7, <3>2, Zenon
  <2>9. path \in Braced(w) \cup Braced(u)
    BY <1>3, <2>8, Zenon
  <2>10. Bare(path) = u
    <3> HIDE DEF u
    <3> QED
      BY <1>2, <2>3, <2>6, <2>7, <2>9, BareFields, Zenon
  <2> QED
    BY <2>1, <2>10, Zenon DEF d
<1> QED
  BY <1>4, <1>5, Zenon

LEMMA LastSegmentsAre ==
    ASSUME NEW cs, Len(cs) \in Nat, Len(cs) >= 1, DOMAIN cs = 1..Len(cs)
    PROVE  /\ LastSegments(cs, Len(cs)) = [n \in DOMAIN cs |-> SegmentOf(cs[n])]
           /\ LastSegments(cs, Len(cs)) # <<>>
<1> DEFINE all == LastSegments(cs, Len(cs))
<1>1. \A k \in 1..Len(cs) : Len(cs) - Len(cs) + k = k
  OBVIOUS
<1>2. all = [n \in DOMAIN cs |-> SegmentOf(cs[n])]
  BY <1>1, Zenon DEF LastSegments
<1>3. DOMAIN all = 1..Len(cs)
  BY Zenon DEF LastSegments
<1>4. 1 \in DOMAIN all
  BY <1>3
<1> HIDE DEF all
<1>5. all # <<>>
  BY <1>4
<1> QED
  BY <1>2, <1>5, Zenon DEF all

LEMMA SpelledPathParses ==
    ASSUME NEW r \in RuleTexts, r.meant # <<>>, NEW path \in PathsOf(r)
    PROVE  parsePath(path) = {[n \in DOMAIN r.meant |-> SegmentOf(r.meant[n])]}
<1> DEFINE cs == r.meant
           meant == LastSegments(cs, Len(cs))
<1>1. cs \in Seq({c \in Range(cs) : IsConstruct(c)}) /\ PathsOf(r) \subseteq Spellings(cs)
  BY MeantAssumption
<1> HIDE DEF cs
<1>2. Len(cs) \in Nat /\ DOMAIN cs = 1..Len(cs)
  BY <1>1
<1>3. cs # <<>>
  BY Zenon DEF cs
<1>4. Len(cs) >= 1
  BY <1>1, <1>3
<1>5. \A k \in 1..Len(cs) : IsConstruct(cs[k])
  BY <1>1
<1>6. AllConstructs(cs)
  BY <1>2, <1>5, Zenon DEF AllConstructs
<1>7. path \in Spellings(cs)
  BY <1>1, Zenon DEF cs
<1>8. Segments(Bare(path)) = {meant}
  BY <1>4, <1>6, <1>7, SpellingParses, Zenon
<1>9. meant = [n \in DOMAIN cs |-> SegmentOf(cs[n])] /\ meant # <<>>
  BY <1>2, <1>4, LastSegmentsAre, Zenon
<1> HIDE DEF meant
<1>10. {meant} \ {<<>>} = {meant}
  BY <1>9, Zenon
<1>11. parsePath(path) = {meant}
  BY <1>8, <1>10, Zenon DEF parsePath
<1> QED
  BY <1>9, <1>11, Zenon DEF cs

(***************************************************************************)
(* A path spelled from the constructs of docs/CONFIG.md:301, with or       *)
(* without the first dot and the outer braces, compiles to those           *)
(* constructs and never ends the process (parsePath and its callers in     *)
(* Compile).                                                               *)
(***************************************************************************)
THEOREM SpelledPathsAlwaysCompile == Spec => []SpelledPathCompiles
<1>1. Init => RefusedInv
  BY DEF Init, RefusedInv
<1>2. ASSUME TypeInv, RefusedInv PROVE SpelledPathCompiles
  <2>1. rule \in RuleTexts
    BY <1>2 DEF TypeInv
  <2>2. ASSUME rule.meant # <<>>
        PROVE  \A path \in PathsOf(rule) :
                   parsePath(path) = {[n \in DOMAIN rule.meant |-> SegmentOf(rule.meant[n])]}
    BY <2>1, <2>2, SpelledPathParses, Zenon
  <2>3. ASSUME rule.meant # <<>> PROVE stage # "refused"
    <3> DEFINE meant == [n \in DOMAIN rule.meant |-> SegmentOf(rule.meant[n])]
    <3>1. \A path \in PathsOf(rule) : parsePath(path) = {meant}
      BY <2>2, <2>3, Zenon
    <3> HIDE DEF meant
    <3>2. Compiles(rule)
      BY <3>1, Zenon DEF Compiles
    <3> QED
      BY <1>2, <3>2, Zenon DEF RefusedInv
  <2> QED
    BY <2>2, <2>3, Zenon DEF SpelledPathCompiles
<1> QED
  BY <1>1, <1>2, RefusedStep, TypeAlways, PTL DEF Spec
=============================================================================
