---------------------------- MODULE ServiceProofs ----------------------------
(***************************************************************************)
(* Collector implements ScrapeService, for every watch list, every set of  *)
(* objects, every list of rules and every number of scrapers.  What the    *)
(* abstract Finish decides in one step the collector gathers read by read; *)
(* the invariant says, at each place of Collect, of which reads the        *)
(* anchors in hand, pending and sent are.                                  *)
(***************************************************************************)
EXTENDS CollectorProofs

\* What entry c = <<informer, key>> has shown after i deliveries.
ValueOf(c, i) ==
    IF i = 0 THEN Absent
    ELSE IF versions[c[2]][i] \in Selects(c[1].resource) THEN versions[c[2]][i] ELSE Absent

Held(s, c) == {ValueOf(c, i) : i \in begun[s][c[1]][c[2]]..pos[c[1]][c[2]]}

ReadIds(n)    == (1..n) \X Keys
Namespaces(r) == Len(ResourceNamespaces(AnchorOf(r)))

\* found is what the first n lists of the rule have read since the scrape began.
Read(s, r, n, found) ==
    \E value \in [ReadIds(n) -> Objects \cup {Absent}] :
        /\ \A x \in ReadIds(n) : value[x] \in Held(s, EntryRead(r, x))
        /\ found = {value[x] : x \in ReadIds(n)} \ {Absent}

Giving(r) == {o \in Objects : EvaluateForEach(Rules[r], o, Absent) # <<>>}

FromAnchors(q) == {q[i].from["anchor"] : i \in 1..Len(q)}
Objs(set)      == {a[2] : a \in set}
Left(s)        == Objs(anchors[s]) \cup ({obj[s]} \ {Absent})

Served(s, r) ==
    \/ Rules[r].expands # <<>> /\ AnchorsSent(s, r) = {}
    \/ \E found : /\ Read(s, r, Namespaces(r), found)
                  /\ AnchorsSent(s, r) = found \cap Giving(r)

\* The rules that this Collect is through with.
Done(s) ==
    IF pc[s] = "collected" THEN Len(Rules)
    ELSE IF InRule(s) /\ pc[s] \notin {"counting", "observing"} THEN rule[s] - 1 ELSE rule[s]

\* The rules that it is through with are served, and of the others nothing is sent.
PastServed(s) ==
    /\ InCollect(s) \/ pc[s] = "collected" =>
          \A r \in RuleIndex : r <= Done(s) => Served(s, r)
    /\ InCollect(s) =>
          \A r \in RuleIndex : r > Done(s) /\ (pc[s] = "emit" => r # rule[s]) =>
              AnchorsSent(s, r) = {}

ListServed(s) == pc[s] = "list" => Read(s, rule[s], listed[s], Objs(anchors[s]))

\* What was listed and gives series is still to be materialised or is pending.
PendingServed(s) ==
    pc[s] \in {"anchors", "walk", "materialised"} =>
        \E found : /\ Read(s, rule[s], Namespaces(rule[s]), found)
                   /\ found \cap Giving(rule[s]) =
                          (Left(s) \cap Giving(rule[s])) \cup FromAnchors(pending[s])

\* It is pending or sent, or the Desc is invalid and nothing is sent.
EmitServed(s) ==
    pc[s] = "emit" =>
        IF DescValid(rule[s], keys[s])
        THEN \E found : /\ Read(s, rule[s], Namespaces(rule[s]), found)
                        /\ found \cap Giving(rule[s]) =
                               FromAnchors(pending[s]) \cup AnchorsSent(s, rule[s])
        ELSE AnchorsSent(s, rule[s]) = {}

\* Only expandLabels give dynamic labels, and the walk leaves the anchor in its chain.
OwnRule(s) ==
    /\ keys[s] # {} => /\ InRule(s) /\ pc[s] \notin {"list", "counting", "observing"}
                      /\ Rules[rule[s]].expands # <<>>
    /\ pc[s] = "walk" => chain[s]["anchor"] = obj[s]

ServedScraper(s) ==
    PastServed(s) /\ ListServed(s) /\ PendingServed(s) /\ EmitServed(s) /\ OwnRule(s)

ServedInv == \A s \in Scrapers : ServedScraper(s)

-----------------------------------------------------------------------------
(* Reads *)

\* Every read of a rule is of an entry of some cache.
LEMMA EntryReadType ==
    ASSUME NEW r \in RuleIndex, NEW n \in Nat, n <= Namespaces(r), NEW x \in ReadIds(n)
    PROVE  EntryRead(r, x) \in Informers \X Keys
<1>1. AnchorOf(r) \in Names
  BY RulesAssumption, ResourceForName DEF AnchorOf
<1>2. x[1] \in 1..Len(ResourceNamespaces(AnchorOf(r))) /\ x[2] \in Keys
  BY <1>1, PlacesAreInformers DEF ReadIds, Namespaces
<1>3. [resource |-> AnchorOf(r), ns |-> ResourceNamespaces(AnchorOf(r))[x[1]]] \in Informers
  BY <1>1, <1>2, PlacesAreInformers
<1> QED
  BY <1>2, <1>3 DEF EntryRead

\* What an entry has shown since the scrape began stays so.
LEMMA HeldGrows ==
    ASSUME InformersTypeOK, InformersNext, NEW s, NEW c \in Informers \X Keys,
           begun[s] \in [Informers -> [Keys -> Nat]], begun'[s] = begun[s]
    PROVE  Held(s, c) \subseteq Held(s, c)'
<1>1. c[1] \in Informers /\ c[2] \in Keys
  OBVIOUS
<1>2. /\ pos[c[1]][c[2]] \in Nat /\ pos[c[1]][c[2]] <= Len(versions[c[2]])
      /\ Len(versions[c[2]]) \in Nat
      /\ begun[s][c[1]][c[2]] \in Nat
  BY <1>1 DEF InformersTypeOK
<1>3. pos'[c[1]][c[2]] \in Nat /\ pos[c[1]][c[2]] <= pos'[c[1]][c[2]]
  BY <1>1, HistoriesGrow, InformersNextType DEF InformersTypeOK
<1>4. ASSUME NEW i \in begun[s][c[1]][c[2]]..pos[c[1]][c[2]]
      PROVE  ValueOf(c, i) \in Held(s, c)'
  <2>1. i \in begun'[s][c[1]][c[2]]..pos'[c[1]][c[2]]
    BY <1>2, <1>3
  <2>2. i # 0 => i \in 1..Len(versions[c[2]])
    BY <1>2
  <2>3. ValueOf(c, i)' = ValueOf(c, i)
    BY <1>1, <2>2, HistoriesGrow DEF ValueOf
  <2> QED
    BY <2>1, <2>3 DEF Held
<1> QED
  BY <1>4 DEF Held

\* So what has been read stays read while the caches move.
LEMMA ReadStable ==
    ASSUME InformersTypeOK, InformersNext, NEW s, begun[s] \in [Informers -> [Keys -> Nat]],
           begun'[s] = begun[s], NEW r \in RuleIndex, NEW n \in Nat, n <= Namespaces(r),
           NEW found, Read(s, r, n, found)
    PROVE  Read(s, r, n, found)'
<1>1. PICK value \in [ReadIds(n) -> Objects \cup {Absent}] :
         /\ \A x \in ReadIds(n) : value[x] \in Held(s, EntryRead(r, x))
         /\ found = {value[x] : x \in ReadIds(n)} \ {Absent}
  BY DEF Read
<1>2. ASSUME NEW x \in ReadIds(n) PROVE value[x] \in Held(s, EntryRead(r, x))'
  <2>1. EntryRead(r, x) \in Informers \X Keys
    BY EntryReadType
  <2>2. Held(s, EntryRead(r, x)) \subseteq Held(s, EntryRead(r, x))'
    BY <2>1, HeldGrows
  <2> QED
    BY <1>1, <2>2
<1> QED
  BY <1>1, <1>2 DEF Read

\* A step that leaves the caches and begun alone leaves what has been read.
LEMMA ReadUnchanged ==
    ASSUME UNCHANGED <<versions, pos>>, NEW s, begun'[s] = begun[s], NEW r, NEW n, NEW found
    PROVE  Read(s, r, n, found)' <=> Read(s, r, n, found)
  BY DEF Read, Held, ValueOf

\* The present value of an entry is one that it has had since the scrape began.
LEMMA PresentIsHeld ==
    ASSUME TypeInv, FreshInv, NEW s \in Scrapers, NEW inf \in Informers, NEW k \in Keys
    PROVE  CacheEntry(inf, k) \in Held(s, <<inf, k>>)
<1>1. begun[s][inf][k] \in Nat /\ pos[inf][k] \in Nat /\ begun[s][inf][k] <= pos[inf][k]
  BY DEF TypeInv, ScraperInv, InformersTypeOK, FreshInv, FreshScraper
<1>2. pos[inf][k] \in begun[s][inf][k]..pos[inf][k]
  BY <1>1
<1>3. CacheEntry(inf, k) = ValueOf(<<inf, k>>, pos[inf][k])
  BY DEF CacheEntry, ValueOf
<1> QED
  BY <1>2, <1>3 DEF Held

\* One more list of the rule is read.
LEMMA ReadNext ==
    ASSUME TypeInv, FreshInv, NEW s \in Scrapers, pc[s] = "list",
           Read(s, rule[s], listed[s], Objs(anchors[s]))
    PROVE  /\ Read(s, rule[s], listed[s] + 1, Objs(ListedNext(s)))
           /\ listed[s] + 1 <= Namespaces(rule[s])
<1> DEFINE n == listed[s] + 1
           inf == [resource |-> AnchorOf(rule[s]), ns |-> Places(s)[n]]
<1>1. PICK value \in [ReadIds(listed[s]) -> Objects \cup {Absent}] :
         /\ \A x \in ReadIds(listed[s]) : value[x] \in Held(s, EntryRead(rule[s], x))
         /\ Objs(anchors[s]) = {value[x] : x \in ReadIds(listed[s])} \ {Absent}
  BY DEF Read
<1>2. /\ inf \in Informers /\ listed[s] \in Nat
      /\ Len(Places(s)) \in Nat /\ listed[s] < Len(Places(s))
  BY ListedFrom DEF TypeInv, ScraperInv
<1>3. n <= Namespaces(rule[s])
  BY <1>2 DEF Namespaces, Places
<1> DEFINE more == [x \in ReadIds(n) |-> IF x[1] = n THEN CacheEntry(inf, x[2]) ELSE value[x]]
<1>4. \A x \in ReadIds(n) : /\ x[1] # n => x \in ReadIds(listed[s])
                            /\ x[2] \in Keys
  BY <1>2 DEF ReadIds
<1>5. /\ \A x \in ReadIds(listed[s]) : x \in ReadIds(n) /\ x[1] # n
      /\ \A k \in Keys : <<n, k>> \in ReadIds(n)
  BY <1>2 DEF ReadIds
<1>6. \A k \in Keys : CacheEntry(inf, k) \in Objects \cup {Absent}
  BY <1>2, CacheEntryType DEF TypeInv
<1>7. more \in [ReadIds(n) -> Objects \cup {Absent}]
  BY <1>1, <1>4, <1>6
<1>8. ASSUME NEW x \in ReadIds(n) PROVE more[x] \in Held(s, EntryRead(rule[s], x))
  <2>1. CASE x[1] = n
    <3>1. EntryRead(rule[s], x) = <<inf, x[2]>>
      BY <2>1 DEF EntryRead, Places
    <3> QED
      BY <1>2, <1>4, <2>1, <3>1, PresentIsHeld
  <2>2. CASE x[1] # n
    BY <1>1, <1>4, <2>2
  <2> QED
    BY <2>1, <2>2
<1>9. Objs(ListedNext(s)) = Objs(anchors[s]) \cup Cache(inf)
  <2>1. ListedNext(s) = anchors[s] \cup ({n} \X Cache(inf))
    BY DEF ListedNext
  <2> HIDE DEF n, inf
  <2>2. Objs({n} \X Cache(inf)) = Cache(inf)
    <3>1. \A o \in Cache(inf) : <<n, o>> \in {n} \X Cache(inf) /\ <<n, o>>[2] = o
      OBVIOUS
    <3>2. Cache(inf) \subseteq Objs({n} \X Cache(inf))
      BY <3>1 DEF Objs
    <3>3. Objs({n} \X Cache(inf)) \subseteq Cache(inf)
      BY DEF Objs
    <3> QED
      BY <3>2, <3>3
  <2>3. \A A, B : Objs(A \cup B) = Objs(A) \cup Objs(B)
    BY DEF Objs
  <2> QED
    BY <2>1, <2>2, <2>3
<1>10. Cache(inf) = {CacheEntry(inf, k) : k \in Keys} \ {Absent}
  BY DEF Cache
<1> HIDE DEF n, inf
<1>11. {more[x] : x \in ReadIds(n)} =
          {value[x] : x \in ReadIds(listed[s])} \cup {CacheEntry(inf, k) : k \in Keys}
  <2>1. ASSUME NEW x \in ReadIds(n)
        PROVE  more[x] \in {value[y] : y \in ReadIds(listed[s])}
                               \cup {CacheEntry(inf, k) : k \in Keys}
    BY <1>4
  <2>2. ASSUME NEW x \in ReadIds(listed[s]) PROVE value[x] \in {more[y] : y \in ReadIds(n)}
    BY <1>5
  <2>3. ASSUME NEW k \in Keys PROVE CacheEntry(inf, k) \in {more[y] : y \in ReadIds(n)}
    <3>1. <<n, k>> \in ReadIds(n) /\ more[<<n, k>>] = CacheEntry(inf, k)
      BY <1>5
    <3> QED
      BY <3>1
  <2> QED
    BY <2>1, <2>2, <2>3
<1> HIDE DEF more
<1>12. Objs(ListedNext(s)) = {more[x] : x \in ReadIds(n)} \ {Absent}
  BY <1>1, <1>9, <1>10, <1>11
<1>13. Read(s, rule[s], n, Objs(ListedNext(s)))
  BY <1>7, <1>8, <1>12 DEF Read
<1> QED
  BY <1>3, <1>13 DEF n

-----------------------------------------------------------------------------
(* What a step leaves as it was *)

\* Initially nobody collects.
LEMMA ServedInvInit == Init => ServedInv
  BY DEF Init, ServedInv, ServedScraper, PastServed, ListServed, PendingServed, EmitServed,
         OwnRule, InRule, InCollect

\* The rule at hand is one of the rules.
LEMMA RuleAtHand ==
    ASSUME TypeInv, NEW s \in Scrapers, InRule(s)
    PROVE  rule[s] \in RuleIndex
  BY RulesAssumption DEF TypeInv, ScraperInv, RuleIndex

\* Every rule lists at least one namespace.
LEMMA NamespacesType == ASSUME NEW r \in RuleIndex PROVE Namespaces(r) \in Nat \ {0}
<1>1. AnchorOf(r) \in Names
  BY RulesAssumption, ResourceForName DEF AnchorOf
<1> QED
  BY <1>1, PlacesAreInformers DEF Namespaces

\* A scraper that does not move stays served as long as what is read stays read.
LEMMA ServedStable ==
    ASSUME TypeInv, NEW s \in Scrapers, ServedScraper(s),
           pc'[s] = pc[s], rule'[s] = rule[s], listed'[s] = listed[s],
           anchors'[s] = anchors[s], obj'[s] = obj[s], chain'[s] = chain[s],
           pending'[s] = pending[s], keys'[s] = keys[s], out'[s] = out[s],
           \A r \in RuleIndex, n \in Nat : \A found :
               n <= Namespaces(r) /\ Read(s, r, n, found) => Read(s, r, n, found)'
    PROVE  ServedScraper(s)'
<1>1. ASSUME NEW r \in RuleIndex, NEW found, Read(s, r, Namespaces(r), found)
      PROVE  Read(s, r, Namespaces(r), found)'
  <2>1. Namespaces(r) \in Nat /\ Namespaces(r) <= Namespaces(r)
    BY NamespacesType
  <2> QED
    BY <1>1, <2>1
<1>2. \A r : AnchorsSent(s, r)' = AnchorsSent(s, r)
  BY DEF AnchorsSent
<1>3. /\ InCollect(s)' = InCollect(s) /\ InRule(s)' = InRule(s) /\ Done(s)' = Done(s)
      /\ Left(s)' = Left(s)
      /\ DescValid(rule[s], keys[s])' = DescValid(rule[s], keys[s])
  BY DEF InCollect, InRule, Done, Left, Objs, DescValid
<1>4. ASSUME NEW r \in RuleIndex, Served(s, r) PROVE Served(s, r)'
  BY <1>1, <1>2, <1>4 DEF Served
<1>5. InRule(s) => rule[s] \in RuleIndex
  BY RuleAtHand
<1>6. PastServed(s)'
  BY <1>2, <1>3, <1>4 DEF ServedScraper, PastServed
<1>7. ListServed(s)'
  <2>1. pc[s] = "list" => /\ rule[s] \in RuleIndex
                          /\ listed[s] \in Nat /\ listed[s] <= Namespaces(rule[s])
    <3>1. pc[s] = "list" => rule[s] \in RuleIndex
      BY <1>5 DEF InRule, InCollect
    <3>2. pc[s] = "list" => /\ listed[s] \in Nat /\ listed[s] < Len(Places(s))
                            /\ Len(Places(s)) \in Nat
      BY ListedFrom DEF TypeInv, ScraperInv
    <3> QED
      BY <3>1, <3>2 DEF Places, Namespaces
  <2>2. Objs(anchors'[s]) = Objs(anchors[s])
    OBVIOUS
  <2> QED
    BY <2>1, <2>2 DEF ServedScraper, ListServed
<1>8. PendingServed(s)'
  BY <1>1, <1>3, <1>5 DEF ServedScraper, PendingServed, InRule, InCollect
<1>9. EmitServed(s)'
  BY <1>1, <1>2, <1>3, <1>5 DEF ServedScraper, EmitServed, InRule, InCollect
<1>10. OwnRule(s)'
  BY <1>3 DEF ServedScraper, OwnRule
<1> QED
  BY <1>6, <1>7, <1>8, <1>9, <1>10 DEF ServedScraper

\* Steps of the caches take nothing back.
LEMMA ServedInvEnvironment ==
    ASSUME TypeInv, ServedInv, Environment
    PROVE  ServedInv'
<1>1. InformersTypeOK /\ InformersNext
  BY DEF TypeInv, Environment
<1>2. /\ pc' = pc /\ rule' = rule /\ listed' = listed /\ anchors' = anchors /\ obj' = obj
      /\ chain' = chain /\ pending' = pending /\ keys' = keys /\ out' = out /\ begun' = begun
  BY DEF Environment, CollectVars, walkVars, seriesVars
<1>3. ASSUME NEW s \in Scrapers PROVE ServedScraper(s)'
  <2>1. begun[s] \in [Informers -> [Keys -> Nat]]
    BY DEF TypeInv, ScraperInv
  <2>2. \A r \in RuleIndex, n \in Nat : \A found :
           n <= Namespaces(r) /\ Read(s, r, n, found) => Read(s, r, n, found)'
    BY <1>1, <1>2, <2>1, ReadStable
  <2> QED
    BY <1>2, <2>2, ServedStable DEF ServedInv
<1> QED
  BY <1>3 DEF ServedInv

\* A step of another scraper changes nothing for this one.
LEMMA ServedFrame ==
    ASSUME TypeInv, ServedInv, NEW s \in Scrapers, OnlyOwn(s), UNCHANGED <<versions, pos>>
    PROVE  \A t \in Scrapers \ {s} : ServedScraper(t)'
<1>1. ASSUME NEW t \in Scrapers \ {s} PROVE ServedScraper(t)'
  <2>1. /\ pc'[t] = pc[t] /\ rule'[t] = rule[t] /\ listed'[t] = listed[t]
        /\ anchors'[t] = anchors[t] /\ obj'[t] = obj[t] /\ chain'[t] = chain[t]
        /\ pending'[t] = pending[t] /\ keys'[t] = keys[t] /\ out'[t] = out[t]
        /\ begun'[t] = begun[t]
    BY DEF TypeInv, Shape, OnlyOwn
  <2>2. \A r, n, found : Read(t, r, n, found)' <=> Read(t, r, n, found)
    BY <2>1, ReadUnchanged
  <2> QED
    BY <2>1, <2>2, ServedStable DEF ServedInv
<1> QED
  BY <1>1

-----------------------------------------------------------------------------
(* Steps of the collector *)

\* The anchors of concatenated series, of a series and those after it, and of
\* one more metric.
LEMMA FromConcat ==
    ASSUME NEW S, NEW q1 \in Seq(S), NEW q2 \in Seq(S)
    PROVE  FromAnchors(q1 \o q2) = FromAnchors(q1) \cup FromAnchors(q2)
<1>1. /\ Len(q1 \o q2) = Len(q1) + Len(q2) /\ Len(q1) \in Nat /\ Len(q2) \in Nat
      /\ \A i \in 1..(Len(q1) + Len(q2)) :
            (q1 \o q2)[i] = IF i <= Len(q1) THEN q1[i] ELSE q2[i - Len(q1)]
  BY ConcatProperties, LenProperties
<1> DEFINE q == q1 \o q2
<1> HIDE DEF q
<1>2. ASSUME NEW i \in 1..Len(q)
      PROVE  q[i].from["anchor"] \in FromAnchors(q1) \cup FromAnchors(q2)
  <2>1. CASE i <= Len(q1)
    <3>1. i \in 1..Len(q1) /\ q[i] = q1[i]
      BY <1>1, <2>1 DEF q
    <3> QED
      BY <3>1 DEF FromAnchors
  <2>2. CASE ~(i <= Len(q1))
    <3>1. i - Len(q1) \in 1..Len(q2) /\ q[i] = q2[i - Len(q1)]
      BY <1>1, <2>2 DEF q
    <3> QED
      BY <3>1 DEF FromAnchors
  <2> QED
    BY <2>1, <2>2
<1>3. ASSUME NEW i \in 1..Len(q1) PROVE q1[i].from["anchor"] \in FromAnchors(q)
  <2>1. i \in 1..Len(q) /\ q[i] = q1[i]
    BY <1>1 DEF q
  <2> QED
    BY <2>1 DEF FromAnchors
<1>4. ASSUME NEW i \in 1..Len(q2) PROVE q2[i].from["anchor"] \in FromAnchors(q)
  <2>1. i + Len(q1) \in 1..Len(q) /\ q[i + Len(q1)] = q2[i]
    BY <1>1 DEF q
  <2> QED
    BY <2>1 DEF FromAnchors
<1> QED
  BY <1>2, <1>3, <1>4 DEF FromAnchors, q

LEMMA FromHeadTail ==
    ASSUME NEW S, NEW q \in Seq(S), q # <<>>
    PROVE  FromAnchors(q) = {Head(q).from["anchor"]} \cup FromAnchors(Tail(q))
<1>1. /\ Len(Tail(q)) = Len(q) - 1 /\ Len(q) \in Nat /\ Head(q) = q[1] /\ 1 \in 1..Len(q)
      /\ \A i \in 1..Len(Tail(q)) : Tail(q)[i] = q[i + 1]
  BY HeadTailProperties, EmptySeq, LenProperties
<1> DEFINE rest == Tail(q)
<1> HIDE DEF rest
<1>2. ASSUME NEW i \in 1..Len(q), i # 1 PROVE q[i].from["anchor"] \in FromAnchors(rest)
  <2>1. i - 1 \in 1..Len(rest) /\ rest[i - 1] = q[i]
    BY <1>1, <1>2 DEF rest
  <2> QED
    BY <2>1 DEF FromAnchors
<1>3. ASSUME NEW i \in 1..Len(rest) PROVE rest[i].from["anchor"] \in FromAnchors(q)
  <2>1. i + 1 \in 1..Len(q) /\ rest[i] = q[i + 1]
    BY <1>1 DEF rest
  <2> QED
    BY <2>1 DEF FromAnchors
<1>4. Head(q).from["anchor"] \in FromAnchors(q)
  BY <1>1 DEF FromAnchors
<1>5. FromAnchors(q) \subseteq {Head(q).from["anchor"]} \cup FromAnchors(rest)
  BY <1>1, <1>2 DEF FromAnchors
<1> QED
  BY <1>3, <1>4, <1>5 DEF FromAnchors, rest

LEMMA SentOneMore ==
    ASSUME TypeInv, NEW s \in Scrapers, NEW m, out'[s] = Append(out[s], m), NEW r
    PROVE  AnchorsSent(s, r)' =
               AnchorsSent(s, r) \cup (IF m.rule = r THEN {m.from["anchor"]} ELSE {})
<1> DEFINE q == out[s]
           p == out'[s]
<1>1. PICK S : q \in Seq(S)
  BY DEF TypeInv, ScraperInv
<1>2. q \in Seq(S \cup {m}) /\ Len(q) \in Nat
  BY <1>1, SeqMonotonic, LenProperties
<1>3. /\ Len(p) = Len(q) + 1 /\ p[Len(q) + 1] = m
      /\ \A i \in 1..Len(q) : p[i] = q[i]
  BY <1>2, AppendProperties
<1>4. /\ AnchorsSent(s, r) = {q[i].from["anchor"] : i \in {j \in 1..Len(q) : q[j].rule = r}}
      /\ AnchorsSent(s, r)' = {p[i].from["anchor"] : i \in {j \in 1..Len(p) : p[j].rule = r}}
  BY DEF AnchorsSent
<1> HIDE DEF q, p
<1>5. \A i \in 1..Len(p) : i \in 1..Len(q) \/ i = Len(q) + 1
  BY <1>2, <1>3
<1>6. Len(q) + 1 \in 1..Len(p) /\ \A i \in 1..Len(q) : i \in 1..Len(p)
  BY <1>2, <1>3
<1>7. AnchorsSent(s, r)' \subseteq
          AnchorsSent(s, r) \cup (IF m.rule = r THEN {m.from["anchor"]} ELSE {})
  BY <1>3, <1>4, <1>5
<1>8. AnchorsSent(s, r) \subseteq AnchorsSent(s, r)'
  BY <1>3, <1>4, <1>6
<1>9. m.rule = r => m.from["anchor"] \in AnchorsSent(s, r)'
  BY <1>3, <1>4, <1>6
<1> QED
  BY <1>7, <1>8, <1>9

\* A rule of which nothing more is sent stays served.
LEMMA ServedKept ==
    ASSUME UNCHANGED <<versions, pos>>, NEW s, begun'[s] = begun[s], NEW r,
           AnchorsSent(s, r)' = AnchorsSent(s, r), Served(s, r)
    PROVE  Served(s, r)'
  BY ReadUnchanged DEF Served

\* The series of an anchor are from it, and it has one if and only if it is giving.
LEMMA SeriesGive ==
    ASSUME NEW r \in RuleIndex, NEW o \in Objects, NEW c \in Chains, c["anchor"] = o
    PROVE  /\ SeriesOf(r, o, c) \in Seq(SeriesOfRule(r))
           /\ FromAnchors(SeriesOf(r, o, c)) = {o} \cap Giving(r)
           /\ Rules[r].expands = <<>> =>
                 \A i \in 1..Len(SeriesOf(r, o, c)) : DOMAIN SeriesOf(r, o, c)[i].dynamic = {}
<1> DEFINE items == EvaluateForEach(Rules[r], o, Absent)
           new == SeriesOf(r, o, c)
<1>1. new \in Seq(SeriesOfRule(r))
  BY SeriesOfType
<1>2. items \in Seq(Items \cup {Absent})
  <2>1. o.items \in Seq(Items)
    BY ItemsAssumption
  <2>2. o.items \in Seq(Items \cup {Absent})
    BY <2>1, SeqMonotonic
  <2> QED
    BY <2>2 DEF EvaluateForEach
<1>3. new = [i \in 1..Len(items) |-> Series(r, Lookup(c, items[i]))]
  BY DEF SeriesOf
<1>4. Len(items) \in Nat /\ (items = <<>> <=> Len(items) = 0)
  BY <1>2, EmptySeq, LenProperties
<1>5. Giving(r) = {x \in Objects : EvaluateForEach(Rules[r], x, Absent) # <<>>}
  BY DEF Giving
<1>6. o \in Giving(r) <=> items # <<>>
  BY <1>5
<1> HIDE DEF new
<1>7. Len(new) = Len(items) /\ DOMAIN new = 1..Len(items)
  BY <1>1, <1>3, <1>4, LenProperties
<1>8. ASSUME NEW i \in 1..Len(new) PROVE new[i].from["anchor"] = o
  <2>1. new[i].from["anchor"] = c["anchor"]
    BY <1>4, SeriesOfHolds DEF new, Sources, Roles
  <2> QED
    BY <2>1
<1> HIDE DEF items
<1>9. FromAnchors(new) = {o} \cap Giving(r)
  BY <1>4, <1>6, <1>7, <1>8 DEF FromAnchors
<1>10. ASSUME Rules[r].expands = <<>>, NEW i \in 1..Len(new)
       PROVE  DOMAIN new[i].dynamic = {}
  <2>1. new[i] = Series(r, Lookup(c, items[i]))
    BY <1>3, <1>7
  <2>2. new[i].dynamic = EvaluateOneSeries(Rules[r], Lookup(c, items[i]), Absent).dynamic
    BY <2>1 DEF Series
  <2>3. 1..Len(Rules[r].expands) = {}
    BY <1>10
  <2> QED
    BY <2>2, <2>3 DEF EvaluateOneSeries
<1> QED
  BY <1>1, <1>9, <1>10 DEF new

\* No watched resource has the name of the role that the walk begins with.
AnchorIsARole == "anchor" \notin Names \cup Kinds

LEMMA WalkKeepsAnchor ==
    ASSUME AnchorIsARole, NEW c \in Chains, NEW n, NEW o, Parent(o) # Absent
    PROVE  ExtendChain(c, n, o, Parent(o))["anchor"] = c["anchor"]
<1> DEFINE info == OwnerResource(ControllerRef(o))
<1>1. OwnerResolves(ControllerRef(o))
  BY DEF Parent, HasFollowedOwner
<1>2. \A name \in Names : \E i \in WatchIndex : ByName(name) = Watch[i]
  BY DEF ByName, Names
<1>3. ASSUME NEW ref, Resolves(ref) PROVE \E i \in WatchIndex : ResourceFor(ref) = Watch[i]
  <2>1. CASE ref \in Names
    BY <1>2, <2>1 DEF ResourceFor
  <2>2. CASE ref \notin Names
    <3>1. NamesOfKind(ref) # {} /\ NamesOfKind(ref) \subseteq Names
      BY <1>3, <2>2 DEF Resolves, UniqueKind, NamesOfKind, Names
    <3> QED
      BY <1>2, <2>2, <3>1 DEF ResourceFor
  <2> QED
    BY <2>1, <2>2
<1>4. ASSUME NEW gvk, ResolvesGVK(gvk) PROVE \E i \in WatchIndex : ResourceForGVK(gvk) = Watch[i]
  BY <1>4 DEF ResolvesGVK, ResourceForGVK
<1>5. \E i \in WatchIndex : info = Watch[i]
  BY <1>1, <1>3, <1>4 DEF OwnerResolves, OwnerResource
<1>6. info.name \in Names /\ info.gvk.kind \in Kinds
  BY <1>5 DEF Names, Kinds
<1>7. "anchor" \notin SourcesOf(info)
  <2> HIDE DEF info
  <2> QED
    BY <1>6 DEF SourcesOf, AnchorIsARole
<1>8. /\ [c EXCEPT !["ownerController"] = Parent(o)]["anchor"] = c["anchor"]
      /\ \A d : AddChainObject(d, info, Parent(o)) =
              [source \in Sources |-> IF source \in SourcesOf(info) THEN Parent(o) ELSE d[source]]
  BY DEF Chains, Sources, Roles, AddChainObject
<1> QED
  BY <1>7, <1>8 DEF ExtendChain, Sources, Roles

\* A step outside of Collect, or into it: nothing is asked of the scraper.
LEMMA ServedAtTheEdges ==
    ASSUME TypeInv, MutexInv, FreshInv, ServedInv, NEW s \in Scrapers,
           Call(s) \/ AcquireLock(s) \/ Respond(s)
    PROVE  ServedScraper(s)'
<1>a. Shape /\ ScraperInv(s) /\ FreshScraper(s) /\ ServedScraper(s)
  BY DEF TypeInv, FreshInv, ServedInv
<1>b. /\ pc[s] \in {"idle", "waiting", "collected"} /\ rule'[s] = rule[s] /\ keys'[s] = keys[s]
      /\ pc'[s] \in {"idle", "waiting", "rules"}
      /\ pc'[s] = "rules" => pc[s] = "waiting" /\ out'[s] = out[s]
  BY <1>a DEF Call, AcquireLock, Respond, Shape, seriesVars
<1>1. keys'[s] = {}
  BY <1>a, <1>b DEF ServedScraper, OwnRule, InRule, InCollect
<1>2. CASE pc'[s] = "rules"
  <2>1. out'[s] = <<>> /\ rule'[s] = 0
    BY <1>a, <1>b, <1>2 DEF FreshScraper, MutexInv, HolderInCollect, InCollect
  <2>2. \A r : AnchorsSent(s, r)' = {}
    BY <2>1 DEF AnchorsSent
  <2>3. Done(s)' = 0 /\ \A r \in RuleIndex : ~(r <= 0)
    BY <1>2, <2>1, RulesAssumption DEF Done, InRule, InCollect, RuleIndex
  <2> QED
    BY <1>1, <1>2, <2>2, <2>3
       DEF ServedScraper, PastServed, ListServed, PendingServed, EmitServed, OwnRule
<1>3. CASE pc'[s] # "rules"
  BY <1>b, <1>1, <1>3
     DEF ServedScraper, PastServed, ListServed, PendingServed, EmitServed, OwnRule, InCollect
<1> QED
  BY <1>2, <1>3

\* Within a rule, up to the emission of its series, nothing is sent.
LEMMA PastKept ==
    ASSUME TypeInv, ServedInv, NEW s \in Scrapers, UNCHANGED <<versions, pos>>,
           begun'[s] = begun[s], out'[s] = out[s], Done(s)' = Done(s),
           InCollect(s), pc[s] # "emit"
    PROVE  PastServed(s)'
<1>1. \A r : AnchorsSent(s, r)' = AnchorsSent(s, r)
  BY DEF AnchorsSent
<1>2. \A r : Served(s, r) => Served(s, r)'
  BY <1>1, ServedKept
<1>3. PastServed(s)
  BY DEF ServedInv, ServedScraper
<1> QED
  BY <1>1, <1>2, <1>3 DEF PastServed

LEMMA ServedBeginRule ==
    ASSUME TypeInv, FreshInv, ServedInv, NEW s \in Scrapers, BeginRule(s)
    PROVE  ServedScraper(s)'
<1>a. Shape /\ ScraperInv(s) /\ FreshScraper(s) /\ ServedScraper(s)
  BY DEF TypeInv, FreshInv, ServedInv
<1>b. /\ pc[s] = "rules" /\ pc'[s] = "list" /\ rule'[s] = rule[s] + 1
      /\ UNCHANGED <<versions, pos, listed, anchors, keys, out, begun>>
  BY <1>a DEF BeginRule, Shape, seriesVars
<1>1. Done(s)' = Done(s) /\ InCollect(s)
  BY <1>a, <1>b, RulesAssumption DEF Done, InRule, InCollect, ScraperInv
<1>2. PastServed(s)'
  BY <1>b, <1>1, PastKept
<1>3. keys'[s] = {}
  BY <1>a, <1>b DEF ServedScraper, OwnRule, InRule
<1>4. listed'[s] = 0 /\ anchors'[s] = {}
  BY <1>a, <1>b DEF ScraperInv, FreshScraper
<1>5. PICK r : r = rule[s] + 1
  OBVIOUS
<1>6. Read(s, r, 0, {})
  <2> DEFINE value == [x \in ReadIds(0) |-> Absent]
  <2>1. ReadIds(0) = {}
    BY DEF ReadIds
  <2>2. value \in [ReadIds(0) -> Objects \cup {Absent}]
    OBVIOUS
  <2>3. {} = {value[x] : x \in ReadIds(0)} \ {Absent}
    BY <2>1
  <2> QED
    BY <2>1, <2>2, <2>3 DEF Read
<1>7. Read(s, r, 0, {})'
  BY <1>b, <1>6, ReadUnchanged
<1>8. ListServed(s)'
  <2>1. Objs(anchors'[s]) = {}
    BY <1>4 DEF Objs
  <2> QED
    BY <1>b, <1>4, <1>5, <1>7, <2>1 DEF ListServed
<1> QED
  BY <1>b, <1>2, <1>3, <1>8
     DEF ServedScraper, PendingServed, EmitServed, OwnRule

LEMMA ServedList ==
    ASSUME TypeInv, FreshInv, ServedInv, NEW s \in Scrapers,
           ListNamespace(s) \/ ListAnchors(s) \/ ListNothing(s)
    PROVE  ServedScraper(s)'
<1> DEFINE listing == ListedNext(s)
<1>a. Shape /\ ScraperInv(s) /\ FreshScraper(s) /\ ServedScraper(s)
  BY DEF TypeInv, FreshInv, ServedInv
<1>b. /\ pc[s] = "list" /\ UNCHANGED <<versions, pos, rule, obj, keys, pending, out, begun>>
  BY DEF ListNamespace, ListAnchors, ListNothing, walkVars, seriesVars
<1>c. keys'[s] = {} /\ InCollect(s) /\ InRule(s) /\ Done(s) = rule[s] - 1
  BY <1>a, <1>b DEF ServedScraper, OwnRule, InCollect, InRule, Done
<1>d. rule[s] \in RuleIndex
  BY <1>c, RuleAtHand
<1>e. /\ Read(s, rule[s], listed[s] + 1, Objs(listing))
      /\ listed[s] + 1 <= Namespaces(rule[s])
  BY <1>a, <1>b, ReadNext DEF ServedScraper, ListServed
<1>f. LastPlace(s) => listed[s] + 1 = Namespaces(rule[s])
  BY DEF LastPlace, Places, Namespaces
<1>g. /\ \A r, n, found : Read(s, r, n, found) => Read(s, r, n, found)'
      /\ \A r : AnchorsSent(s, r)' = AnchorsSent(s, r)
  BY <1>b, ReadUnchanged DEF AnchorsSent
<1>h. AnchorsSent(s, rule[s]) = {}
  <2>1. rule[s] > Done(s) /\ pc[s] # "emit"
    BY <1>b, <1>c, <1>d, RulesAssumption DEF RuleIndex
  <2> QED
    BY <1>a, <1>c, <1>d, <2>1 DEF ServedScraper, PastServed
<1> HIDE DEF listing
<1>i. PICK r0, n0, found0 :
         r0 = rule[s] /\ n0 = listed[s] + 1 /\ found0 = Objs(listing)
  OBVIOUS
<1>j. Read(s, r0, n0, found0)'
  BY <1>e, <1>g, <1>i
<1>1. CASE ListNamespace(s)
  <2>1. pc'[s] = "list" /\ anchors'[s] = listing /\ listed'[s] = listed[s] + 1
    BY <1>a, <1>b, <1>1 DEF ListNamespace, Shape, listing
  <2>2. Done(s)' = Done(s)
    BY <1>b, <2>1 DEF Done, InRule, InCollect
  <2>3. PastServed(s)'
    BY <1>b, <1>c, <2>2, PastKept
  <2>4. ListServed(s)'
    <3>1. rule'[s] = r0 /\ listed'[s] = n0 /\ Objs(anchors'[s]) = found0
      BY <1>b, <1>i, <2>1
    <3> QED
      BY <1>j, <3>1 DEF ListServed
  <2> QED
    BY <1>c, <2>1, <2>3, <2>4 DEF ServedScraper, PendingServed, EmitServed, OwnRule
<1>2. CASE ListAnchors(s)
  <2>1. pc'[s] = "anchors" /\ anchors'[s] = listing /\ LastPlace(s)
    BY <1>a, <1>b, <1>2 DEF ListAnchors, Shape, listing
  <2>2. Done(s)' = Done(s)
    BY <1>b, <2>1 DEF Done, InRule, InCollect
  <2>3. PastServed(s)'
    BY <1>b, <1>c, <2>2, PastKept
  <2>4. pending'[s] = <<>> /\ obj'[s] = Absent
    BY <1>a, <1>b DEF ScraperInv, FreshScraper
  <2>5. Left(s)' = found0 /\ FromAnchors(pending'[s]) = {}
    BY <1>i, <2>1, <2>4 DEF Left, Objs, FromAnchors
  <2>6. rule'[s] = r0 /\ Namespaces(r0) = n0
    BY <1>b, <1>f, <1>i, <2>1
  <2>7. PendingServed(s)'
    BY <1>j, <2>5, <2>6 DEF PendingServed
  <2> QED
    BY <1>c, <2>1, <2>3, <2>7 DEF ServedScraper, ListServed, EmitServed, OwnRule
<1>3. CASE ListNothing(s)
  <2>1. pc'[s] = "counting" /\ listing = {} /\ LastPlace(s)
    BY <1>a, <1>b, <1>3 DEF ListNothing, Shape, listing
  <2>2. Done(s)' = rule[s] /\ InCollect(s)'
    BY <1>b, <2>1 DEF Done, InRule, InCollect
  <2>3. found0 = {} /\ Namespaces(r0) = n0
    BY <1>f, <1>i, <2>1 DEF Objs
  <2>4. Served(s, r0)'
    <3>1. AnchorsSent(s, r0)' = {}
      BY <1>g, <1>h, <1>i
    <3> QED
      BY <1>j, <2>3, <3>1 DEF Served
  <2>5. ASSUME NEW r \in RuleIndex, r <= rule[s] PROVE Served(s, r)'
    <3>1. CASE r = r0
      BY <2>4, <3>1
    <3>2. CASE r # r0
      <4>1. r <= Done(s)
        BY <1>c, <1>d, <1>i, <2>5, <3>2, RulesAssumption DEF RuleIndex
      <4> QED
        BY <1>a, <1>b, <1>c, <1>g, <4>1, ServedKept DEF ServedScraper, PastServed
    <3> QED
      BY <3>1, <3>2
  <2>6. ASSUME NEW r \in RuleIndex, r > rule[s] PROVE AnchorsSent(s, r)' = {}
    <3>1. r > Done(s)
      BY <1>c, <1>d, <2>6, RulesAssumption DEF RuleIndex
    <3> QED
      BY <1>a, <1>b, <1>c, <1>g, <3>1 DEF ServedScraper, PastServed
  <2>7. PastServed(s)'
    BY <1>b, <2>2, <2>5, <2>6 DEF PastServed
  <2> QED
    BY <1>c, <2>1, <2>7 DEF ServedScraper, ListServed, PendingServed, EmitServed, OwnRule
<1> QED
  BY <1>1, <1>2, <1>3

\* A walk does not change which anchors are left or pending.
LEMMA ServedWalk ==
    ASSUME AnchorIsARole, TypeInv, FreshInv, ServedInv, NEW s \in Scrapers,
           TakeAnchor(s) \/ WalkOwner(s)
    PROVE  ServedScraper(s)'
<1>a. Shape /\ ScraperInv(s) /\ FreshScraper(s) /\ ServedScraper(s)
  BY DEF TypeInv, FreshInv, ServedInv
<1>b. /\ pc[s] \in {"anchors", "walk"} /\ pc'[s] = "walk"
      /\ UNCHANGED <<versions, pos, rule, keys, pending, out, begun>>
  BY <1>a DEF TakeAnchor, WalkOwner, Shape, seriesVars
<1>1. Done(s)' = Done(s) /\ InCollect(s)
  BY <1>b DEF Done, InRule, InCollect
<1>2. PastServed(s)'
  BY <1>b, <1>1, PastKept
<1>3. Left(s)' = Left(s) /\ chain'[s]["anchor"] = obj'[s]
  <2>1. CASE TakeAnchor(s)
    <3>1. PICK a \in anchors[s] :
             /\ anchors'[s] = anchors[s] \ {a} /\ obj'[s] = a[2]
             /\ chain'[s] = StartChain(a[2])
      BY <1>a, <2>1 DEF TakeAnchor, Shape
    <3>2. obj[s] = Absent /\ a[2] \in Objects /\ a[2] # Absent
      BY <1>a, <2>1, ObjectsAssumption DEF TakeAnchor, FreshScraper, ScraperInv
    <3>3. Objs(anchors[s] \ {a}) \cup {a[2]} = Objs(anchors[s])
      BY DEF Objs
    <3>4. Objs(anchors'[s]) = Objs(anchors[s] \ {a})
      BY <3>1
    <3>5. Left(s)' = Left(s)
      BY <3>1, <3>2, <3>3, <3>4 DEF Left
    <3>6. StartChain(a[2])["anchor"] = a[2]
      BY DEF StartChain, AddChainObject, Sources, Roles
    <3> QED
      BY <3>1, <3>5, <3>6
  <2>2. CASE WalkOwner(s)
    <3>1. /\ chain'[s] = ExtendChain(chain[s], depth[s], cur[s], Parent(cur[s]))
          /\ Parent(cur[s]) # Absent /\ pc[s] = "walk"
          /\ UNCHANGED <<anchors, obj>>
      BY <1>a, <2>2 DEF WalkOwner, WalkGoesOn, Shape
    <3>2. chain'[s]["anchor"] = chain[s]["anchor"]
      BY <1>a, <3>1, WalkKeepsAnchor DEF ScraperInv
    <3>3. chain[s]["anchor"] = obj[s]
      BY <1>a, <3>1 DEF ServedScraper, OwnRule
    <3> QED
      BY <3>1, <3>2, <3>3 DEF Left, Objs
  <2> QED
    BY <2>1, <2>2
<1>4. PendingServed(s)'
  <2>1. PICK found : /\ Read(s, rule[s], Namespaces(rule[s]), found)
                     /\ found \cap Giving(rule[s]) =
                            (Left(s) \cap Giving(rule[s])) \cup FromAnchors(pending[s])
    BY <1>a, <1>b DEF ServedScraper, PendingServed
  <2>2. PICK r, n : r = rule[s] /\ n = Namespaces(rule[s])
    OBVIOUS
  <2>3. Read(s, r, n, found)'
    BY <1>b, <2>1, <2>2, ReadUnchanged
  <2>4. rule'[s] = r /\ Namespaces(r) = n /\ pending'[s] = pending[s]
    BY <1>b, <2>2
  <2>5. found \cap Giving(r) = (Left(s)' \cap Giving(r)) \cup FromAnchors(pending'[s])
    BY <1>3, <2>1, <2>2, <2>4
  <2> QED
    BY <2>3, <2>4, <2>5 DEF PendingServed
<1>5. OwnRule(s)'
  BY <1>a, <1>b, <1>3 DEF ServedScraper, OwnRule, InRule, InCollect
<1> QED
  BY <1>b, <1>2, <1>4, <1>5 DEF ServedScraper, ListServed, EmitServed

\* The series of an anchor take its place.
LEMMA ServedEndWalk ==
    ASSUME TypeInv, FreshInv, ServedInv, NEW s \in Scrapers, EndWalk(s)
    PROVE  ServedScraper(s)'
<1> DEFINE new == SeriesOf(rule[s], obj[s], chain[s])
<1>a. Shape /\ ScraperInv(s) /\ FreshScraper(s) /\ ServedScraper(s)
  BY DEF TypeInv, FreshInv, ServedInv
<1>b. /\ pc[s] = "walk" /\ pc'[s] \in {"materialised", "anchors"}
      /\ UNCHANGED <<versions, pos, rule, anchors, out, begun>>
      /\ obj'[s] = Absent /\ pending'[s] = pending[s] \o new
      /\ keys'[s] = UnionKeys(keys[s], new)
  BY <1>a DEF EndWalk, Shape
<1>c. rule[s] \in RuleIndex /\ obj[s] \in Objects /\ chain[s] \in Chains
      /\ chain[s]["anchor"] = obj[s] /\ obj[s] # Absent
  BY <1>a, <1>b, RuleAtHand, ObjectsAssumption
     DEF ScraperInv, ServedScraper, OwnRule, InRule, InCollect
<1>1. Done(s)' = Done(s) /\ InCollect(s)
  BY <1>b DEF Done, InRule, InCollect
<1>2. PastServed(s)'
  BY <1>b, <1>1, PastKept
<1>3. /\ new \in Seq(SeriesOfRule(rule[s]))
      /\ FromAnchors(new) = {obj[s]} \cap Giving(rule[s])
      /\ Rules[rule[s]].expands = <<>> => \A i \in 1..Len(new) : DOMAIN new[i].dynamic = {}
  BY <1>c, SeriesGive
<1> HIDE DEF new
<1>4. FromAnchors(pending'[s]) = FromAnchors(pending[s]) \cup FromAnchors(new)
  BY <1>a, <1>b, <1>3, FromConcat DEF ScraperInv
<1>5. Left(s) = Objs(anchors[s]) \cup {obj[s]} /\ Left(s)' = Objs(anchors[s])
  BY <1>b, <1>c DEF Left, Objs
<1>6. PendingServed(s)'
  <2>1. PICK found : /\ Read(s, rule[s], Namespaces(rule[s]), found)
                     /\ found \cap Giving(rule[s]) =
                            (Left(s) \cap Giving(rule[s])) \cup FromAnchors(pending[s])
    BY <1>a, <1>b DEF ServedScraper, PendingServed
  <2>2. PICK r, n : r = rule[s] /\ n = Namespaces(rule[s])
    OBVIOUS
  <2>3. Read(s, r, n, found)'
    BY <1>b, <2>1, <2>2, ReadUnchanged
  <2>4. rule'[s] = r /\ Namespaces(r) = n
    BY <1>b, <2>2
  <2>5. found \cap Giving(r) = (Left(s)' \cap Giving(r)) \cup FromAnchors(pending'[s])
    BY <1>3, <1>4, <1>5, <2>1, <2>2
  <2> QED
    BY <2>3, <2>4, <2>5 DEF PendingServed
<1>7. OwnRule(s)'
  <2>1. InRule(s)' /\ pc'[s] # "list" /\ pc'[s] # "walk"
    BY <1>b DEF InRule, InCollect
  <2>2. Rules[rule[s]].expands = <<>> => keys[s] = {}
    BY <1>a DEF ServedScraper, OwnRule
  <2>3. Rules[rule[s]].expands = <<>> => keys'[s] = {}
    BY <1>b, <1>3, <2>2 DEF UnionKeys
  <2> QED
    BY <1>b, <2>1, <2>3 DEF OwnRule
<1> QED
  BY <1>b, <1>2, <1>6, <1>7 DEF ServedScraper, ListServed, EmitServed

LEMMA ServedBeginEmit ==
    ASSUME TypeInv, FreshInv, ServedInv, NEW s \in Scrapers, BeginEmit(s)
    PROVE  ServedScraper(s)'
<1>a. Shape /\ ScraperInv(s) /\ FreshScraper(s) /\ ServedScraper(s)
  BY DEF TypeInv, FreshInv, ServedInv
<1>b. /\ pc[s] = "materialised" /\ pc'[s] = "emit"
      /\ UNCHANGED <<versions, pos, rule, keys, pending, out, begun>>
  BY <1>a DEF BeginEmit, Shape
<1>1. Done(s)' = Done(s) /\ Done(s) = rule[s] - 1 /\ InCollect(s) /\ rule[s] \in RuleIndex
  BY <1>b, RuleAtHand DEF Done, InRule, InCollect
<1>2. PastServed(s)'
  BY <1>b, <1>1, PastKept
<1>3. Left(s) = {}
  BY <1>a, <1>b DEF FreshScraper, Left, Objs
<1>4. AnchorsSent(s, rule[s]) = {} /\ (\A r : AnchorsSent(s, r)' = AnchorsSent(s, r))
  <2>1. rule[s] > Done(s)
    BY <1>1, RulesAssumption DEF RuleIndex
  <2> QED
    BY <1>a, <1>b, <1>1, <2>1 DEF ServedScraper, PastServed, AnchorsSent
<1>5. EmitServed(s)'
  <2>1. PICK found : /\ Read(s, rule[s], Namespaces(rule[s]), found)
                     /\ found \cap Giving(rule[s]) =
                            (Left(s) \cap Giving(rule[s])) \cup FromAnchors(pending[s])
    BY <1>a, <1>b DEF ServedScraper, PendingServed
  <2>2. PICK r, n : r = rule[s] /\ n = Namespaces(rule[s])
    OBVIOUS
  <2>3. Read(s, r, n, found)'
    BY <1>b, <2>1, <2>2, ReadUnchanged
  <2>4. rule'[s] = r /\ Namespaces(r) = n /\ pending'[s] = pending[s]
    BY <1>b, <2>2
  <2>5. AnchorsSent(s, r)' = {}
    BY <1>4, <2>2
  <2>6. found \cap Giving(r) = FromAnchors(pending'[s]) \cup AnchorsSent(s, r)'
    BY <1>3, <2>1, <2>2, <2>4, <2>5
  <2> QED
    BY <2>3, <2>4, <2>5, <2>6 DEF EmitServed
<1>6. OwnRule(s)'
  BY <1>a, <1>b DEF ServedScraper, OwnRule, InRule, InCollect
<1> QED
  BY <1>b, <1>2, <1>5, <1>6 DEF ServedScraper, ListServed, PendingServed

LEMMA ServedEmitSeries ==
    ASSUME TypeInv, FreshInv, ServedInv, NEW s \in Scrapers, EmitSeries(s)
    PROVE  ServedScraper(s)'
<1> DEFINE x == Head(pending[s])
           m == Metric(rule[s], FillValues(values[s], x), x.from)
<1>a. Shape /\ ScraperInv(s) /\ ServedScraper(s)
  BY DEF TypeInv, ServedInv
<1>b. /\ pc[s] = "emit" /\ pc'[s] = "emit" /\ pending[s] # <<>> /\ pending'[s] = Tail(pending[s])
      /\ UNCHANGED <<versions, pos, rule, keys, begun>>
      /\ out'[s] = IF DescValid(rule[s], keys[s]) THEN Append(out[s], m) ELSE out[s]
  BY <1>a DEF EmitSeries, Shape
<1>c. m.rule = rule[s] /\ m.from = x.from
  BY DEF Metric
<1> HIDE DEF m
<1>1. /\ Done(s)' = Done(s) /\ Done(s) = rule[s] - 1
      /\ InCollect(s) /\ InCollect(s)' /\ rule[s] \in RuleIndex
  BY <1>b, RuleAtHand DEF Done, InRule, InCollect
<1>2. PICK r : r = rule[s]
  OBVIOUS
<1>3. ASSUME NEW q, q # r PROVE AnchorsSent(s, q)' = AnchorsSent(s, q)
  <2>1. CASE out'[s] = Append(out[s], m)
    <3>1. AnchorsSent(s, q)' =
              AnchorsSent(s, q) \cup (IF m.rule = q THEN {m.from["anchor"]} ELSE {})
      BY <2>1, SentOneMore
    <3>2. m.rule # q
      BY <1>2, <1>3, <1>c
    <3> QED
      BY <3>1, <3>2
  <2>2. CASE out'[s] = out[s]
    BY <2>2 DEF AnchorsSent
  <2> QED
    BY <1>b, <2>1, <2>2
<1>4. PastServed(s)'
  <2>1. \A q \in RuleIndex : q <= Done(s) => q # r
    BY <1>1, <1>2, RulesAssumption DEF RuleIndex
  <2>2. \A q \in RuleIndex : q <= Done(s) => Served(s, q)'
    BY <1>a, <1>b, <1>1, <1>3, <2>1, ServedKept DEF ServedScraper, PastServed
  <2>3. \A q \in RuleIndex : q > Done(s) /\ q # r => AnchorsSent(s, q)' = {}
    BY <1>a, <1>b, <1>1, <1>2, <1>3 DEF ServedScraper, PastServed
  <2> QED
    BY <1>b, <1>1, <1>2, <2>2, <2>3 DEF PastServed
<1>5. EmitServed(s)'
  <2>1. CASE DescValid(rule[s], keys[s])
    <3>1. PICK found : /\ Read(s, rule[s], Namespaces(rule[s]), found)
                       /\ found \cap Giving(rule[s]) =
                              FromAnchors(pending[s]) \cup AnchorsSent(s, rule[s])
      BY <1>a, <1>b, <2>1 DEF ServedScraper, EmitServed
    <3>2. PICK n : n = Namespaces(r)
      OBVIOUS
    <3>3. Read(s, r, n, found)'
      BY <1>2, <1>b, <3>1, <3>2, ReadUnchanged
    <3>4. AnchorsSent(s, r)' = AnchorsSent(s, r) \cup {x.from["anchor"]}
      BY <1>2, <1>b, <1>c, <2>1, SentOneMore
    <3>5. FromAnchors(pending[s]) = {x.from["anchor"]} \cup FromAnchors(pending'[s])
      BY <1>a, <1>b, FromHeadTail DEF ScraperInv
    <3> HIDE DEF x
    <3>6. found \cap Giving(r) = FromAnchors(pending'[s]) \cup AnchorsSent(s, r)'
      BY <1>2, <3>1, <3>4, <3>5
    <3>7. rule'[s] = r /\ DescValid(rule[s], keys[s])'
      BY <1>2, <1>b, <2>1 DEF DescValid
    <3> QED
      BY <3>2, <3>3, <3>6, <3>7 DEF EmitServed
  <2>2. CASE ~DescValid(rule[s], keys[s])
    <3>1. AnchorsSent(s, r)' = AnchorsSent(s, r)
      BY <1>b, <2>2 DEF AnchorsSent
    <3>2. AnchorsSent(s, r) = {}
      BY <1>2, <1>a, <1>b, <2>2 DEF ServedScraper, EmitServed
    <3>3. rule'[s] = r /\ ~DescValid(rule[s], keys[s])'
      BY <1>2, <1>b, <2>2 DEF DescValid
    <3> QED
      BY <3>1, <3>2, <3>3 DEF EmitServed
  <2> QED
    BY <2>1, <2>2
<1>6. OwnRule(s)'
  BY <1>a, <1>b DEF ServedScraper, OwnRule, InRule, InCollect
<1> QED
  BY <1>b, <1>4, <1>5, <1>6 DEF ServedScraper, ListServed, PendingServed

\* The end of a rule, and the end of the Collect.
LEMMA ServedEnd ==
    ASSUME TypeInv, FreshInv, ServedInv, NEW s \in Scrapers,
           EndRule(s) \/ IncCollect(s) \/ ObserveCollectDuration(s) \/ Unlock(s)
    PROVE  ServedScraper(s)'
<1>a. Shape /\ ScraperInv(s) /\ ServedScraper(s)
  BY DEF TypeInv, ServedInv
<1>b. UNCHANGED <<versions, pos, out, begun>>
  BY DEF EndRule, IncCollect, ObserveCollectDuration, Unlock
<1>c. \A r : AnchorsSent(s, r)' = AnchorsSent(s, r)
  BY <1>b DEF AnchorsSent
<1>d. \A r : Served(s, r) => Served(s, r)'
  BY <1>b, <1>c, ServedKept
<1>1. CASE EndRule(s)
  <2>1. /\ pc[s] = "emit" /\ pc'[s] = "counting" /\ pending[s] = <<>> /\ keys'[s] = {}
        /\ rule' = rule
    BY <1>a, <1>1 DEF EndRule, Shape
  <2>2. /\ Done(s)' = rule[s] /\ Done(s) = rule[s] - 1
        /\ InCollect(s) /\ InCollect(s)' /\ rule[s] \in RuleIndex
    BY <2>1, RuleAtHand DEF Done, InRule, InCollect
  <2>3. FromAnchors(pending[s]) = {}
    BY <2>1 DEF FromAnchors
  <2>4. Served(s, rule[s])
    <3>1. CASE DescValid(rule[s], keys[s])
      BY <1>a, <2>1, <2>3, <3>1 DEF ServedScraper, EmitServed, Served
    <3>2. CASE ~DescValid(rule[s], keys[s])
      <4>1. AnchorsSent(s, rule[s]) = {}
        BY <1>a, <2>1, <3>2 DEF ServedScraper, EmitServed
      <4>2. keys[s] # {}
        BY <3>2 DEF DescValid
      <4> QED
        BY <1>a, <4>1, <4>2 DEF ServedScraper, OwnRule, Served
    <3> QED
      BY <3>1, <3>2
  <2>5. \A r \in RuleIndex : (r <= rule[s] => r = rule[s] \/ r <= Done(s)) /\
                             (r > rule[s] => r > Done(s) /\ r # rule[s])
    BY <2>2, RulesAssumption DEF RuleIndex
  <2>6. PastServed(s)'
    BY <1>a, <1>c, <1>d, <2>1, <2>2, <2>4, <2>5 DEF ServedScraper, PastServed
  <2> QED
    BY <2>1, <2>6 DEF ServedScraper, ListServed, PendingServed, EmitServed, OwnRule
<1>2. CASE Unlock(s)
  <2>1. /\ pc[s] = "rules" /\ pc'[s] = "collected" /\ keys' = keys /\ rule[s] = Len(Rules)
    BY <1>a, <1>2 DEF Unlock, Shape, seriesVars
  <2>2. Done(s)' = Len(Rules) /\ Done(s) = Len(Rules) /\ InCollect(s) /\ ~InCollect(s)'
    BY <2>1 DEF Done, InRule, InCollect
  <2>3. PastServed(s)'
    BY <1>a, <1>d, <2>2 DEF ServedScraper, PastServed
  <2>4. OwnRule(s)'
    BY <1>a, <2>1 DEF ServedScraper, OwnRule, InRule
  <2> QED
    BY <2>1, <2>3, <2>4 DEF ServedScraper, ListServed, PendingServed, EmitServed
<1>3. CASE IncCollect(s) \/ ObserveCollectDuration(s)
  <2>1. /\ pc[s] \in {"counting", "observing"} /\ pc'[s] \in {"observing", "rules"}
        /\ rule' = rule /\ keys' = keys
    BY <1>a, <1>3 DEF IncCollect, ObserveCollectDuration, Shape, seriesVars
  <2>2. Done(s)' = Done(s) /\ InCollect(s)
    BY <2>1 DEF Done, InRule, InCollect
  <2>3. PastServed(s)'
    BY <1>b, <2>1, <2>2, PastKept
  <2>4. OwnRule(s)'
    BY <1>a, <2>1 DEF ServedScraper, OwnRule, InRule
  <2> QED
    BY <2>1, <2>3, <2>4 DEF ServedScraper, ListServed, PendingServed, EmitServed
<1> QED
  BY <1>1, <1>2, <1>3

\* Every step keeps what every scrape has in hand served.
LEMMA ServedInvNext ==
    ASSUME AnchorIsARole, TypeInv, MutexInv, FreshInv, ServedInv, [Next]_vars
    PROVE  ServedInv'
<1>1. CASE UNCHANGED vars
  <2>1. \A s, r, n, found : Read(s, r, n, found)' <=> Read(s, r, n, found)
    BY <1>1, ReadUnchanged DEF vars
  <2> QED
    BY <1>1, <2>1, ServedStable DEF vars, walkVars, seriesVars, ServedInv
<1>2. CASE Environment
  BY <1>2, ServedInvEnvironment
<1>3. ASSUME NEW s \in Scrapers, CollectStep(s) PROVE ServedInv'
  <2>1. OnlyOwn(s) /\ UNCHANGED <<versions, pos>>
    BY <1>3, StepIsOwn
       DEF TypeInv, CollectStep, Proceed, Call, AcquireLock, BeginRule, ListNamespace,
           ListAnchors, ListNothing, TakeAnchor, WalkOwner, EndWalk, BeginEmit, EmitSeries,
           EndRule, IncCollect, ObserveCollectDuration, Unlock, Respond
  <2>2. ServedScraper(s)'
    BY <1>3, ServedAtTheEdges, ServedBeginRule, ServedList, ServedWalk, ServedEndWalk,
       ServedBeginEmit, ServedEmitSeries, ServedEnd DEF CollectStep, Proceed
  <2> QED
    BY <2>1, <2>2, ServedFrame DEF ServedInv
<1> QED
  BY <1>1, <1>2, <1>3 DEF Next, CollectStep

-----------------------------------------------------------------------------
(* The steps of the service *)

\* A function on 1..n is a sequence of length n.
LEMMA LengthOf ==
    ASSUME NEW n \in Nat, NEW f, f = [i \in 1..n |-> f[i]]
    PROVE  Len(f) = n
<1>1. [i \in 1..n |-> f[i]] \in Seq({f[i] : i \in 1..n})
  BY IsASeq
<1>2. f \in Seq({f[i] : i \in 1..n}) /\ DOMAIN f = 1..n
  BY <1>1
<1> QED
  BY <1>2, LenProperties

\* An entry's history is as long as the number of its deliveries.
LEMMA HistoryLength ==
    ASSUME InformersTypeOK, NEW inf \in Informers, NEW k \in Keys
    PROVE  Len(History(inf, k)) = pos[inf][k]
<1>1. pos[inf][k] \in Nat
  BY DEF InformersTypeOK
<1>2. History(inf, k) = [i \in 1..pos[inf][k] |-> History(inf, k)[i]]
  BY DEF History
<1> QED
  BY <1>1, <1>2, LengthOf

\* The collector begins as the service does.
LEMMA ServiceInit == Init => Service!Init
<1> SUFFICES ASSUME Init PROVE Service!Init
  OBVIOUS
<1>1. /\ pos = [inf \in Informers |-> [k \in Keys |-> 0]] /\ scrapeMu = Free
      /\ pc = [s \in Scrapers |-> "idle"] /\ begun = [s \in Scrapers |-> pos]
  BY DEF Init, InformersInit
<1>2. ASSUME NEW inf \in Informers, NEW k \in Keys PROVE History(inf, k) = <<>>
  <2>1. 1..pos[inf][k] = {}
    BY <1>1
  <2> QED
    BY <2>1 DEF History
<1>3. [c \in Informers \X Keys |-> History(c[1], c[2])] = [c \in Informers \X Keys |-> <<>>]
  BY <1>2
<1>4. [s \in Scrapers |-> Phase(s)] = [s \in Scrapers |-> "idle"]
  BY <1>1 DEF Phase
<1>5. [s \in Scrapers |-> [c \in Informers \X Keys |-> begun[s][c[1]][c[2]]]]
      = [s \in Scrapers |-> [c \in Informers \X Keys |-> 0]]
  BY <1>1
<1>6. [s \in Scrapers |-> [r \in RuleIndex |->
          IF pc[s] = "collected" THEN AnchorsSent(s, r) ELSE {}]]
      = [s \in Scrapers |-> [r \in RuleIndex |-> {}]]
  BY <1>1
<1> QED
  BY <1>1, <1>3, <1>4, <1>5, <1>6 DEF Service!Init, Service!NoAnswer

\* Steps of the cluster and of the reflectors are moves of the caches.
LEMMA ServiceCachesMove ==
    ASSUME TypeInv, Environment
    PROVE  Service!CachesMove
<1>1. InformersTypeOK /\ InformersNext /\ InformersTypeOK'
  BY InformersNextType DEF TypeInv, Environment
<1>2. UNCHANGED <<scrapeMu, pc, out, begun>>
  BY DEF Environment, CollectVars
<1>3. ASSUME NEW c \in Informers \X Keys
      PROVE  /\ Len(History(c[1], c[2])) <= Len(History(c[1], c[2])')
             /\ \A i \in 1..Len(History(c[1], c[2])) :
                   History(c[1], c[2])'[i] = History(c[1], c[2])[i]
  <2>1. PICK inf \in Informers, k \in Keys : inf = c[1] /\ k = c[2]
    OBVIOUS
  <2>2. Len(History(inf, k)) = pos[inf][k]
    BY <1>1, HistoryLength
  <2>3. Len(History(inf, k)') = pos'[inf][k]
    <3>1. History(inf, k)' = [i \in 1..pos'[inf][k] |-> History(inf, k)'[i]]
      BY DEF History
    <3>2. pos'[inf][k] \in Nat
      BY <1>1 DEF InformersTypeOK
    <3> QED
      BY <3>1, <3>2, LengthOf
  <2>4. /\ pos[inf][k] \in Nat /\ pos'[inf][k] \in Nat /\ pos[inf][k] <= pos'[inf][k]
        /\ pos[inf][k] <= Len(versions[k]) /\ Len(versions[k]) \in Nat
    <3>1. /\ pos[inf][k] \in Nat
          /\ pos[inf][k] <= Len(versions[k])
      BY <1>1 DEF InformersTypeOK
    <3>2. pos'[inf][k] \in Nat
      BY <1>1 DEF InformersTypeOK
    <3>3. versions[k] \in Seq(Objects \cup {Absent})
      BY <1>1 DEF InformersTypeOK
    <3>4. pos[inf][k] <= pos'[inf][k]
      BY <1>1, HistoriesGrow
    <3> QED
      BY <3>1, <3>2, <3>3, <3>4
  <2>5. ASSUME NEW i \in 1..pos[inf][k] PROVE History(inf, k)'[i] = History(inf, k)[i]
    <3>1. i \in 1..pos'[inf][k] /\ i \in 1..Len(versions[k])
      BY <2>4
    <3>2. versions'[k][i] = versions[k][i]
      BY <1>1, <3>1, HistoriesGrow
    <3> QED
      BY <3>1, <3>2 DEF History
  <2> QED
    BY <2>1, <2>2, <2>3, <2>4, <2>5
<1>4. /\ \A s : Phase(s)' = Phase(s)
      /\ \A s, r : AnchorsSent(s, r)' = AnchorsSent(s, r)
  BY <1>2 DEF Phase, AnchorsSent
<1> QED
  BY <1>2, <1>3, <1>4 DEF Service!CachesMove

\* A served rule has an answer that the service may give.
LEMMA ServedMayAnswer ==
    ASSUME TypeInv, NEW s \in Scrapers, NEW r \in RuleIndex, Served(s, r)
    PROVE  Service!MayAnswer(s, r, AnchorsSent(s, r))
<1> DEFINE reads == (1..Len(ResourceNamespaces(AnchorOf(r)))) \X Keys
<1>1. reads = ReadIds(Namespaces(r))
  BY DEF ReadIds, Namespaces
<1>2. ASSUME NEW x \in reads PROVE EntryRead(r, x) \in Informers \X Keys
  <2>1. Namespaces(r) \in Nat /\ Namespaces(r) <= Namespaces(r)
    BY NamespacesType
  <2> QED
    BY <1>1, <1>2, <2>1, EntryReadType
<1>3. ASSUME NEW c \in Informers \X Keys PROVE Service!HeldSince(s, c) = Held(s, c)
  <2>1. PICK inf \in Informers, k \in Keys : c = <<inf, k>>
    OBVIOUS
  <2>2. Len(History(inf, k)) = pos[inf][k] /\ pos[inf][k] \in Nat /\ begun[s][inf][k] \in Nat
    BY HistoryLength, SMTT(30) DEF TypeInv, InformersTypeOK, ScraperInv
  <2>3. ASSUME NEW i \in begun[s][inf][k]..pos[inf][k]
        PROVE  ValueOf(c, i) = IF i = 0 THEN Absent ELSE History(inf, k)[i]
    <3>1. i # 0 => i \in 1..pos[inf][k]
      BY <2>2
    <3> QED
      BY <2>1, <3>1 DEF ValueOf, History
  <2>4. Service!HeldSince(s, c) =
           {IF i = 0 THEN Absent ELSE History(inf, k)[i] : i \in begun[s][inf][k]..pos[inf][k]}
    BY <2>1, <2>2 DEF Service!HeldSince, Service!ValueAt
  <2>5. Held(s, c) = {ValueOf(c, i) : i \in begun[s][inf][k]..pos[inf][k]}
    BY <2>1 DEF Held
  <2> QED
    BY <2>3, <2>4, <2>5
<1>4. CASE Rules[r].expands # <<>> /\ AnchorsSent(s, r) = {}
  BY <1>4 DEF Service!MayAnswer
<1>5. CASE \E found : /\ Read(s, r, Namespaces(r), found)
                      /\ AnchorsSent(s, r) = found \cap Giving(r)
  <2>1. PICK found : /\ Read(s, r, Namespaces(r), found)
                     /\ AnchorsSent(s, r) = found \cap Giving(r)
    BY <1>5
  <2>2. PICK value \in [reads -> Objects \cup {Absent}] :
           /\ \A x \in reads : value[x] \in Held(s, EntryRead(r, x))
           /\ found = {value[x] : x \in reads} \ {Absent}
    BY <1>1, <2>1 DEF Read
  <2> DEFINE listing == [x \in reads |-> EntryRead(r, x)]
  <2>3. \A x \in reads : listing[x] \in Informers \X Keys
    BY <1>2
  <2>4. \A x \in reads : value[x] \in Service!HeldSince(s, listing[x])
    BY <1>3, <2>2, <2>3
  <2>5. DOMAIN listing = reads
    OBVIOUS
  <2>6. AnchorsSent(s, r) = {value[x] : x \in reads} \cap Giving(r)
    BY <2>1, <2>2, ObjectsAssumption DEF Giving
  <2> HIDE DEF reads
  <2> DEFINE answers == AnchorsSent(s, r)
             at == [a \in answers |-> CHOOSE x \in reads : value[x] = a]
  <2>8. ASSUME NEW a \in answers PROVE at[a] \in reads /\ value[at[a]] = a
    <3>1. \E x \in reads : value[x] = a
      BY <2>6
    <3> QED
      BY <3>1
  <2> HIDE DEF at, listing, reads, answers
  <2>9. at \in [answers -> reads]
    BY <2>8 DEF at
  <2>10. \A a, b \in answers : at[a] = at[b] => a = b
    BY <2>8
  <2>11. \A a \in answers : a \in Service!HeldSince(s, listing[at[a]])
    BY <2>4, <2>8
  <2>12. \A x \in reads : /\ value[x] \in Service!HeldSince(s, listing[x])
                          /\ value[x] \in Giving(r) => value[x] \in answers
    BY <2>4, <2>6 DEF answers
  <2>13. answers \subseteq Giving(r)
    BY <2>6 DEF answers
  <2> DEFINE Readings == [q \in RuleIndex |->
                            [x \in (1..Len(ResourceNamespaces(AnchorOf(q)))) \X Keys |->
                               EntryRead(q, x)]]
             Givings  == [q \in RuleIndex |->
                            {o \in Objects : EvaluateForEach(Rules[q], o, Absent) # <<>>}]
  <2>14. Readings[r] = listing /\ Givings[r] = Giving(r)
    BY DEF listing, reads, Giving
  <2> HIDE DEF Readings, Givings
  <2>15. /\ answers \subseteq Givings[r]
         /\ at \in [answers -> DOMAIN Readings[r]]
         /\ \A a \in answers : a \in Service!HeldSince(s, Readings[r][at[a]])
         /\ \A x \in DOMAIN Readings[r] :
               (\A a \in answers : at[a] # x) =>
                  \E v \in Service!HeldSince(s, Readings[r][x]) :
                     v \in Givings[r] => v \in answers
    BY <2>5, <2>9, <2>11, <2>12, <2>13, <2>14
  <2> QED
    BY <2>10, <2>15, Zenon DEF Service!MayAnswer, Readings, Givings, answers
<1> QED
  BY <1>4, <1>5 DEF Served

\* A step of a scraper is the service's step for it, or none.
LEMMA ServiceStep ==
    ASSUME TypeInv, MutexInv, FreshInv, ServedInv, NEW s \in Scrapers, CollectStep(s)
    PROVE  [Service!Next]_(Service!vars)
<1> DEFINE histories == [c \in Informers \X Keys |-> History(c[1], c[2])]
           phases == [t \in Scrapers |-> Phase(t)]
           sinces == [t \in Scrapers |-> [c \in Informers \X Keys |-> begun[t][c[1]][c[2]]]]
           answers == [t \in Scrapers |-> [r \in RuleIndex |->
                          IF pc[t] = "collected" THEN AnchorsSent(t, r) ELSE {}]]
<1>a. Shape /\ ScraperInv(s) /\ OnlyOwn(s)
  BY StepIsOwn DEF TypeInv
<1>b. UNCHANGED <<versions, pos>>
  BY DEF CollectStep, Proceed, Call, AcquireLock, BeginRule, ListNamespace, ListAnchors,
         ListNothing, TakeAnchor, WalkOwner, EndWalk, BeginEmit, EmitSeries, EndRule,
         IncCollect, ObserveCollectDuration, Unlock, Respond
<1>c. \A c : History(c[1], c[2])' = History(c[1], c[2])
  BY <1>b DEF History
<1>d. ASSUME NEW t \in Scrapers \ {s}
      PROVE  /\ Phase(t)' = Phase(t) /\ begun'[t] = begun[t] /\ pc'[t] = pc[t]
             /\ \A r : AnchorsSent(t, r)' = AnchorsSent(t, r)
  <2>1. pc'[t] = pc[t] /\ out'[t] = out[t] /\ begun'[t] = begun[t]
    BY <1>a DEF Shape, OnlyOwn
  <2> QED
    BY <2>1 DEF Phase, AnchorsSent
<1>e. /\ phases' = [phases EXCEPT ![s] = Phase(s)']
      /\ sinces' = [sinces EXCEPT ![s] = [c \in Informers \X Keys |-> begun'[s][c[1]][c[2]]]]
      /\ answers' = [answers EXCEPT ![s] = [r \in RuleIndex |->
                         IF pc'[s] = "collected" THEN AnchorsSent(s, r)' ELSE {}]]
  BY <1>d
<1>f. \A c \in Informers \X Keys : Len(History(c[1], c[2])) = pos[c[1]][c[2]]
  BY HistoryLength DEF TypeInv
<1>1. CASE Call(s)
  <2>1. /\ pc[s] = "idle" /\ Phase(s) = "idle" /\ pc'[s] = "waiting" /\ Phase(s)' = "waiting"
        /\ UNCHANGED <<scrapeMu, begun>>
    BY <1>a, <1>1 DEF Call, Shape, Phase
  <2>2. phases[s] = "idle" /\ sinces' = sinces /\ answers' = answers
    BY <1>e, <2>1, ZenonT(40)
  <2>3. Service!Call(s)
    BY <1>c, <1>e, <2>1, <2>2 DEF Service!Call
  <2> QED
    BY <2>3 DEF Service!Next
<1>2. CASE AcquireLock(s)
  <2>1. /\ pc[s] = "waiting" /\ Phase(s) = "waiting" /\ pc'[s] = "rules"
        /\ Phase(s)' = "collecting" /\ scrapeMu = Free /\ scrapeMu' = s /\ begun'[s] = pos
    BY <1>a, <1>2 DEF AcquireLock, Shape, Phase
  <2>2. phases[s] = "waiting" /\ answers' = answers
    BY <1>e, <2>1
  <2>3. [c \in Informers \X Keys |-> begun'[s][c[1]][c[2]]]
        = [c \in Informers \X Keys |-> Len(histories[c])]
    BY <1>f, <2>1
  <2>4. sinces' = [sinces EXCEPT ![s] = [c \in Informers \X Keys |-> Len(histories[c])]]
    BY <1>e, <2>3
  <2>5. phases' = [phases EXCEPT ![s] = "collecting"] /\ histories' = histories
    BY <1>c, <1>e, <2>1
  <2>6. Service!Begin(s)
    BY <2>1, <2>2, <2>4, <2>5 DEF Service!Begin
  <2> QED
    BY <2>6 DEF Service!Next
<1>3. CASE Unlock(s)
  <2>1. /\ pc[s] = "rules" /\ Phase(s) = "collecting" /\ pc'[s] = "collected"
        /\ Phase(s)' = "collected" /\ scrapeMu' = Free /\ rule[s] = Len(Rules)
        /\ UNCHANGED <<out, begun>>
    BY <1>a, <1>3 DEF Unlock, Shape, Phase
  <2>2. scrapeMu = s /\ InCollect(s) /\ Done(s) = Len(Rules)
    BY <2>1 DEF MutexInv, HolderInCollect, InCollect, InRule, Done
  <2>3. \A r : AnchorsSent(s, r)' = AnchorsSent(s, r)
    BY <2>1 DEF AnchorsSent
  <2>4. \A r \in RuleIndex : Served(s, r)
    <3>1. \A r \in RuleIndex : r <= Done(s)
      BY <2>2, RulesAssumption DEF RuleIndex
    <3> QED
      BY <2>2, <3>1 DEF ServedInv, ServedScraper, PastServed
  <2>5. /\ phases[s] = "collecting" /\ sinces' = sinces
        /\ \A r \in RuleIndex : answers'[s][r] = AnchorsSent(s, r)
        /\ answers' = [answers EXCEPT ![s] = answers'[s]]
    <3> DEFINE sent == [r \in RuleIndex |-> AnchorsSent(s, r)]
    <3>1. phases[s] = "collecting" /\ sinces' = sinces
      BY <2>1
    <3>2. [r \in RuleIndex |-> IF pc'[s] = "collected" THEN AnchorsSent(s, r)' ELSE {}] = sent
      BY <2>1, <2>3
    <3>3. answers' = [answers EXCEPT ![s] = sent]
      BY <1>e, <3>2
    <3>4. answers'[s] = sent
      BY <3>3
    <3> QED
      BY <3>1, <3>3, <3>4
  <2>6. \A r \in RuleIndex : Service!MayAnswer(s, r, answers'[s][r])
    <3> HIDE DEF answers
    <3> QED
      BY <2>4, <2>5, ServedMayAnswer
  <2>7. Service!Finish(s)
    BY <1>c, <1>e, <2>1, <2>2, <2>5, <2>6 DEF Service!Finish
  <2> QED
    BY <2>7 DEF Service!Next
<1>4. CASE Respond(s)
  <2>1. /\ pc[s] = "collected" /\ Phase(s) = "collected" /\ pc'[s] = "idle"
        /\ Phase(s)' = "idle" /\ scrapeMu' = scrapeMu
        /\ begun'[s] = [inf \in Informers |-> [k \in Keys |-> 0]]
    BY <1>a, <1>4 DEF Respond, Shape, Phase
  <2>2. [c \in Informers \X Keys |-> begun'[s][c[1]][c[2]]] = [c \in Informers \X Keys |-> 0]
    BY <2>1
  <2>3. /\ phases[s] = "collected"
        /\ answers' = [answers EXCEPT ![s] = [r \in RuleIndex |-> {}]]
    BY <1>e, <2>1
  <2>4. Service!Respond(s)
    BY <1>c, <1>e, <2>1, <2>2, <2>3 DEF Service!Respond, Service!NoAnswer
  <2> QED
    BY <2>4 DEF Service!Next
<1>5. CASE ~(Call(s) \/ AcquireLock(s) \/ Unlock(s) \/ Respond(s))
  <2>1. /\ InCollect(s) /\ InCollect(s)' /\ UNCHANGED <<scrapeMu, begun>>
        /\ pc[s] \in PCs /\ pc'[s] \in PCs
    BY <1>a, <1>5
       DEF CollectStep, Proceed, BeginRule, ListNamespace, ListAnchors, ListNothing, TakeAnchor,
           WalkOwner, EndWalk, BeginEmit, EmitSeries, EndRule, IncCollect,
           ObserveCollectDuration, Shape, InCollect, ScraperInv, PCs
  <2>2. Phase(s) = "collecting" /\ Phase(s)' = "collecting"
    BY <2>1 DEF Phase, InCollect
  <2>3. pc[s] # "collected" /\ pc'[s] # "collected"
    BY <2>1 DEF InCollect
  <2>4. phases' = phases
    BY <1>d, <2>2
  <2>5. sinces' = sinces
    BY <2>1
  <2>6. answers' = answers
    BY <1>d, <2>3
  <2> QED
    BY <1>c, <2>1, <2>4, <2>5, <2>6 DEF Service!vars
<1> QED
  BY <1>1, <1>2, <1>3, <1>4, <1>5

\* So every step of the collector is a step of the service, or none.
LEMMA ServiceNext ==
    ASSUME TypeInv, MutexInv, FreshInv, ServedInv, [Next]_vars
    PROVE  [Service!Next]_(Service!vars)
<1>1. CASE UNCHANGED vars
  <2>1. /\ \A c : History(c[1], c[2])' = History(c[1], c[2])
        /\ \A s : Phase(s)' = Phase(s)
        /\ \A s, r : AnchorsSent(s, r)' = AnchorsSent(s, r)
        /\ UNCHANGED <<scrapeMu, pc, begun>>
    BY <1>1 DEF vars, History, Phase, AnchorsSent
  <2> QED
    BY <2>1 DEF Service!vars
<1>2. CASE Environment
  BY <1>2, ServiceCachesMove DEF Service!Next
<1>3. ASSUME NEW s \in Scrapers, CollectStep(s) PROVE [Service!Next]_(Service!vars)
  BY <1>3, ServiceStep
<1> QED
  BY <1>1, <1>2, <1>3 DEF Next, CollectStep

(***************************************************************************)
(* Collector implements ScrapeService, unless a watched resource is called *)
(* "anchor": whatever the caches do during a scrape, its answer is about   *)
(* what was read in every entry that the rules list, and nothing else.     *)
(***************************************************************************)
THEOREM CollectorServes == AnchorIsARole => (Spec => ScrapesAreServed)
<1> SUFFICES ASSUME AnchorIsARole PROVE Spec => ScrapesAreServed
  OBVIOUS
<1>1. Spec => [](TypeInv /\ MutexInv /\ FreshInv /\ ServedInv)
  BY TypeInvInit, TypeInvNext, MutexInvInit, MutexInvNext, FreshInvInit, FreshInvNext,
     ServedInvInit, ServedInvNext, PTL DEF Spec
<1> QED
  BY <1>1, ServiceInit, ServiceNext, PTL DEF Spec, ScrapesAreServed, Service!Spec
=============================================================================
