--------------------------- MODULE CollectorProofs ---------------------------
(***************************************************************************)
(* Theorems about Collector, for every watch list, every set of objects,   *)
(* every list of rules and every number of scrapers.                       *)
(***************************************************************************)
EXTENDS Collector, InformerProofs

(***************************************************************************)
(* Type correctness.  TypeOK is not inductive: that a rule is set, that    *)
(* the next namespace exists, that cur is an object and that the pending   *)
(* series are of the present rule depend on where the scraper is.          *)
(***************************************************************************)
SeriesOfRule(r) == {Series(r, input) : input \in Inputs}

ScraperInv(s) ==
    /\ pc[s] \in PCs
    /\ rule[s] \in 0..Len(Rules)
    /\ listed[s] \in Nat
    /\ anchors[s] \in SUBSET (Nat \X Objects)
    /\ IsFiniteSet(anchors[s])
    /\ obj[s] \in Objects \cup {Absent}
    /\ cur[s] \in Objects \cup {Absent}
    /\ depth[s] \in 0..MaxDepth
    /\ chain[s] \in Chains
    /\ pending[s] \in Seq(SeriesOfRule(rule[s]))
    /\ \E S : /\ out[s] \in Seq(S)
              /\ \A m \in S : m.rule \in RuleIndex /\ m.from \in Inputs
    /\ begun[s] \in [Informers -> [Keys -> Nat]]
    /\ InRule(s) => rule[s] # 0
    /\ IF pc[s] = "list" THEN listed[s] < Len(Places(s)) ELSE listed[s] = 0
    /\ pc[s] = "walk" => obj[s] \in Objects /\ cur[s] \in Objects
    /\ ~InRule(s) \/ pc[s] \in {"list", "counting", "observing"} => pending[s] = <<>>

\* Every scraper has its own value of each variable.
Shape ==
    /\ pc = [s \in Scrapers |-> pc[s]]
    /\ rule = [s \in Scrapers |-> rule[s]]
    /\ listed = [s \in Scrapers |-> listed[s]]
    /\ anchors = [s \in Scrapers |-> anchors[s]]
    /\ obj = [s \in Scrapers |-> obj[s]]
    /\ cur = [s \in Scrapers |-> cur[s]]
    /\ depth = [s \in Scrapers |-> depth[s]]
    /\ chain = [s \in Scrapers |-> chain[s]]
    /\ pending = [s \in Scrapers |-> pending[s]]
    /\ keys = [s \in Scrapers |-> keys[s]]
    /\ values = [s \in Scrapers |-> values[s]]
    /\ out = [s \in Scrapers |-> out[s]]
    /\ begun = [s \in Scrapers |-> begun[s]]

SelfTypes == [RuleIndex -> [ok : Nat, observed : Nat, anchorCount : Nat]]

TypeInv ==
    /\ InformersTypeOK
    /\ calls \in 0..MaxCollects
    /\ scrapeMu \in Scrapers \cup {Free}
    /\ self \in SelfTypes
    /\ Shape
    /\ \A s \in Scrapers : ScraperInv(s)

\* A series of a rule records the rule and what it was evaluated from.
LEMMA SeriesFrom ==
    ASSUME NEW r, NEW x \in SeriesOfRule(r)
    PROVE  x.from \in Inputs /\ x = Series(r, x.from)
  BY DEF SeriesOfRule, Series

\* The inductive invariant contains the checked one.
LEMMA TypeInvImpliesTypeOK == TypeInv => TypeOK
<1> SUFFICES ASSUME TypeInv PROVE TypeOK
  OBVIOUS
<1>1. /\ pc \in [Scrapers -> PCs]
      /\ rule \in [Scrapers -> 0..Len(Rules)]
      /\ listed \in [Scrapers -> Nat]
  BY DEF TypeInv, Shape, ScraperInv
<1>2. /\ anchors \in [Scrapers -> SUBSET (Nat \X Objects)]
      /\ obj \in [Scrapers -> Objects \cup {Absent}]
      /\ cur \in [Scrapers -> Objects \cup {Absent}]
  BY DEF TypeInv, Shape, ScraperInv
<1>3. /\ depth \in [Scrapers -> 0..MaxDepth]
      /\ chain \in [Scrapers -> Chains]
      /\ begun \in [Scrapers -> [Informers -> [Keys -> Nat]]]
  BY DEF TypeInv, Shape, ScraperInv
<1>4. ASSUME NEW s \in Scrapers, NEW i \in 1..Len(pending[s])
      PROVE  /\ pending[s][i].from \in Inputs
             /\ pending[s][i] = Series(rule[s], pending[s][i].from)
  <2>1. pending[s][i] \in SeriesOfRule(rule[s])
    BY ElementOfSeq DEF TypeInv, ScraperInv
  <2> QED
    BY <2>1, SeriesFrom
<1>5. ASSUME NEW s \in Scrapers, NEW i \in 1..Len(out[s])
      PROVE  out[s][i].rule \in RuleIndex /\ out[s][i].from \in Inputs
  <2>1. PICK S : /\ out[s] \in Seq(S)
                 /\ \A m \in S : m.rule \in RuleIndex /\ m.from \in Inputs
    BY DEF TypeInv, ScraperInv
  <2>2. out[s][i] \in S
    BY <2>1, ElementOfSeq
  <2> QED
    BY <2>1, <2>2
<1> QED
  BY <1>1, <1>2, <1>3, <1>4, <1>5 DEF TypeInv, TypeOK, SelfTypes

\* Initially nothing is listed, walked or pending.
LEMMA TypeInvInit == Init => TypeInv
<1> SUFFICES ASSUME Init PROVE TypeInv
  OBVIOUS
<1>1. InformersTypeOK
  BY InformersInitType DEF Init
<1>2. pos \in [Informers -> [Keys -> Nat]]
  BY <1>1 DEF InformersTypeOK
<1>3. ASSUME NEW s \in Scrapers PROVE ScraperInv(s)
  <2>1. pc[s] = "idle" /\ rule[s] = 0 /\ listed[s] = 0 /\ pending[s] = <<>> /\ out[s] = <<>>
    BY DEF Init
  <2>2. /\ anchors[s] = {} /\ IsFiniteSet(anchors[s])
        /\ obj[s] = Absent /\ cur[s] = Absent /\ depth[s] = 0
        /\ chain[s] \in Chains /\ begun[s] \in [Informers -> [Keys -> Nat]]
    BY <1>2, FS_EmptySet DEF Init, NoChain, Chains
  <2>3. \E S : /\ out[s] \in Seq(S)
               /\ \A m \in S : m.rule \in RuleIndex /\ m.from \in Inputs
    <3> WITNESS {}
    <3> QED
      BY <2>1
  <2>4. Len(Rules) \in Nat /\ MaxDepth \in Nat
    BY RulesAssumption, MaxDepthAssumption
  <2>5. pending[s] \in Seq(SeriesOfRule(rule[s]))
    BY <2>1, EmptySeq
  <2>6. /\ rule[s] \in 0..Len(Rules) /\ listed[s] \in Nat /\ depth[s] \in 0..MaxDepth
        /\ anchors[s] \in SUBSET (Nat \X Objects)
    BY <2>1, <2>2, <2>4
  <2> QED
    BY <2>1, <2>2, <2>3, <2>5, <2>6 DEF ScraperInv, InRule, InCollect, PCs
<1>4. Shape
  BY DEF Init, Shape
<1>5. self \in SelfTypes
  BY DEF Init, SelfTypes
<1>6. calls \in 0..MaxCollects /\ scrapeMu \in Scrapers \cup {Free}
  BY RulesAssumption DEF Init
<1> QED
  BY <1>1, <1>3, <1>4, <1>5, <1>6 DEF TypeInv

-----------------------------------------------------------------------------
\* A step of s changes no other scraper's share of the state.
OnlyOwn(s) ==
    /\ pc' = [pc EXCEPT ![s] = pc'[s]]
    /\ rule' = [rule EXCEPT ![s] = rule'[s]]
    /\ listed' = [listed EXCEPT ![s] = listed'[s]]
    /\ anchors' = [anchors EXCEPT ![s] = anchors'[s]]
    /\ obj' = [obj EXCEPT ![s] = obj'[s]]
    /\ cur' = [cur EXCEPT ![s] = cur'[s]]
    /\ depth' = [depth EXCEPT ![s] = depth'[s]]
    /\ chain' = [chain EXCEPT ![s] = chain'[s]]
    /\ pending' = [pending EXCEPT ![s] = pending'[s]]
    /\ keys' = [keys EXCEPT ![s] = keys'[s]]
    /\ values' = [values EXCEPT ![s] = values'[s]]
    /\ out' = [out EXCEPT ![s] = out'[s]]
    /\ begun' = [begun EXCEPT ![s] = begun'[s]]

CollectStep(s) == Call(s) \/ AcquireLock(s) \/ Proceed(s) \/ Respond(s)

\* A step of a scraper writes only its own share of the per-scraper state.
LEMMA StepIsOwn ==
    ASSUME Shape, NEW s \in Scrapers, CollectStep(s)
    PROVE  OnlyOwn(s)
<1>1. CASE Call(s) \/ AcquireLock(s)
  BY <1>1 DEF Call, AcquireLock, Shape, OnlyOwn, walkVars, seriesVars
<1>2. CASE BeginRule(s) \/ ListNamespace(s)
  BY <1>2 DEF BeginRule, ListNamespace, Shape, OnlyOwn, walkVars, seriesVars
<1>3. CASE ListAnchors(s) \/ ListNothing(s)
  BY <1>3 DEF ListAnchors, ListNothing, Shape, OnlyOwn, walkVars, seriesVars
<1>4. CASE TakeAnchor(s)
  BY <1>4 DEF TakeAnchor, Shape, OnlyOwn, seriesVars
<1>5. CASE WalkOwner(s)
  BY <1>5 DEF WalkOwner, Shape, OnlyOwn, seriesVars
<1>6. CASE EndWalk(s)
  BY <1>6 DEF EndWalk, Shape, OnlyOwn
<1>7. CASE BeginEmit(s)
  BY <1>7 DEF BeginEmit, Shape, OnlyOwn, walkVars
<1>8. CASE EmitSeries(s)
  BY <1>8 DEF EmitSeries, Shape, OnlyOwn, walkVars
<1>9. CASE EndRule(s)
  BY <1>9 DEF EndRule, Shape, OnlyOwn, walkVars
<1>10. CASE Unlock(s) \/ Respond(s)
  BY <1>10 DEF Unlock, Respond, Shape, OnlyOwn, walkVars, seriesVars
<1>11. CASE IncCollect(s) \/ ObserveCollectDuration(s)
  BY <1>11 DEF IncCollect, ObserveCollectDuration, Shape, OnlyOwn, walkVars, seriesVars
<1> QED
  BY <1>1, <1>2, <1>3, <1>4, <1>5, <1>6, <1>7, <1>8, <1>9, <1>10, <1>11
     DEF CollectStep, Proceed

\* The share of another scraper is left as it was.
LEMMA StepFrame ==
    ASSUME TypeInv, NEW s \in Scrapers, OnlyOwn(s)
    PROVE  /\ Shape'
           /\ \A t \in Scrapers \ {s} : ScraperInv(t)'
<1>1. Shape'
  BY DEF TypeInv, Shape, OnlyOwn
<1>2. ASSUME NEW t \in Scrapers \ {s} PROVE ScraperInv(t)'
  <2>1. /\ pc'[t] = pc[t] /\ rule'[t] = rule[t] /\ listed'[t] = listed[t]
        /\ anchors'[t] = anchors[t] /\ obj'[t] = obj[t] /\ cur'[t] = cur[t]
        /\ depth'[t] = depth[t] /\ chain'[t] = chain[t] /\ pending'[t] = pending[t]
        /\ out'[t] = out[t] /\ begun'[t] = begun[t]
    BY DEF TypeInv, Shape, OnlyOwn
  <2>2. ScraperInv(t)
    BY DEF TypeInv
  <2> QED
    BY <2>1, <2>2 DEF ScraperInv, InRule, InCollect, Places
<1> QED
  BY <1>1, <1>2

\* ListAll has a next namespace to read, and its informer is one of the informers.
LEMMA ListedFrom ==
    ASSUME TypeInv, NEW s \in Scrapers, pc[s] = "list"
    PROVE  /\ Len(Places(s)) \in Nat \ {0}
           /\ listed[s] \in Nat
           /\ [resource |-> AnchorOf(rule[s]), ns |-> Places(s)[listed[s] + 1]] \in Informers
<1>1. ScraperInv(s)
  BY DEF TypeInv
<1>2. rule[s] \in RuleIndex /\ listed[s] \in Nat /\ listed[s] < Len(Places(s))
  BY <1>1, RulesAssumption DEF ScraperInv, InRule, InCollect, RuleIndex
<1>3. AnchorOf(rule[s]) \in Names
  BY <1>2, RulesAssumption, ResourceForName DEF AnchorOf
<1>4. Len(Places(s)) \in Nat \ {0}
  BY <1>3, PlacesAreInformers DEF Places
<1>5. listed[s] + 1 \in 1..Len(Places(s))
  BY <1>2, <1>4
<1> QED
  BY <1>2, <1>3, <1>4, <1>5, PlacesAreInformers DEF Places

\* What one more namespace adds to the anchors.
LEMMA ListedNextType ==
    ASSUME TypeInv, NEW s \in Scrapers, pc[s] = "list"
    PROVE  /\ Len(Places(s)) \in Nat \ {0}
           /\ ListedNext(s) \in SUBSET (Nat \X Objects)
           /\ IsFiniteSet(ListedNext(s))
<1> DEFINE inf == [resource |-> AnchorOf(rule[s]), ns |-> Places(s)[listed[s] + 1]]
           new == {listed[s] + 1} \X Cache(inf)
<1>1. ScraperInv(s)
  BY DEF TypeInv
<1>2. Len(Places(s)) \in Nat \ {0} /\ listed[s] \in Nat
  BY ListedFrom
<1>5. inf \in Informers
  BY ListedFrom
<1>6. Cache(inf) \subseteq Objects /\ IsFiniteSet(Cache(inf))
  BY <1>5, CacheType DEF TypeInv
<1>7. IsFiniteSet({listed[s] + 1})
  BY FS_Singleton
<1>8. IsFiniteSet(new)
  BY <1>6, <1>7, FS_Product
<1>9. new \in SUBSET (Nat \X Objects)
  BY <1>2, <1>6
<1>10. anchors[s] \in SUBSET (Nat \X Objects) /\ IsFiniteSet(anchors[s])
  BY <1>1 DEF ScraperInv
<1>11. ListedNext(s) = anchors[s] \cup new
  BY DEF ListedNext
<1> HIDE DEF inf, new
<1>12. IsFiniteSet(anchors[s] \cup new)
  BY <1>8, <1>10, FS_Union
<1> QED
  BY <1>2, <1>9, <1>10, <1>11, <1>12

\* Materialising an anchor gives series of the rule, from that anchor.
LEMMA SeriesOfType ==
    ASSUME NEW r, NEW o \in Objects, NEW c \in Chains
    PROVE  SeriesOf(r, o, c) \in Seq(SeriesOfRule(r))
<1> DEFINE items == EvaluateForEach(Rules[r], o, Absent)
<1>1. items \in Seq(Items \cup {Absent})
  <2>1. o.items \in Seq(Items)
    BY ItemsAssumption
  <2>2. o.items \in Seq(Items \cup {Absent})
    BY <2>1, SeqMonotonic
  <2>3. <<Absent>> \in Seq(Items \cup {Absent})
    OBVIOUS
  <2> QED
    BY <2>2, <2>3 DEF EvaluateForEach
<1>2. ASSUME NEW i \in 1..Len(items)
      PROVE  Series(r, Lookup(c, items[i])) \in SeriesOfRule(r)
  <2>1. items[i] \in Items \cup {Absent}
    BY <1>1, ElementOfSeq
  <2>2. Lookup(c, items[i]) \in Inputs
    BY <2>1 DEF Lookup, Inputs, Chains
  <2> QED
    BY <2>2 DEF SeriesOfRule
<1> HIDE DEF items
<1>3. [i \in 1..Len(items) |-> Series(r, Lookup(c, items[i]))] \in Seq(SeriesOfRule(r))
  BY <1>1, <1>2, LenProperties, IsASeq
<1> QED
  BY <1>3 DEF SeriesOf, items

\* One step of the scraper, seen from its own share of the state.
LEMMA StepScraperInv ==
    ASSUME TypeInv, NEW s \in Scrapers, CollectStep(s)
    PROVE  ScraperInv(s)'
<1>0. ScraperInv(s) /\ Shape /\ InformersTypeOK
  BY DEF TypeInv
<1>a. Len(Rules) \in Nat \ {0} /\ MaxDepth \in Nat
  BY RulesAssumption, MaxDepthAssumption
<1>1. CASE Call(s)
  <2>1. pc'[s] = "waiting" /\ pc[s] = "idle" /\ OnlyOwn(s)
    BY <1>0, <1>1, StepIsOwn DEF Call, Shape, CollectStep
  <2> QED
    BY <1>0, <1>1, <2>1 DEF Call, ScraperInv, InRule, InCollect, PCs, walkVars, seriesVars
<1>2. CASE AcquireLock(s)
  <2>1. pc'[s] = "rules" /\ pc[s] = "waiting" /\ begun'[s] = pos
    BY <1>0, <1>2 DEF AcquireLock, Shape
  <2>2. pos \in [Informers -> [Keys -> Nat]]
    BY <1>0 DEF InformersTypeOK
  <2> QED
    BY <1>0, <1>2, <2>1, <2>2
       DEF AcquireLock, ScraperInv, InRule, InCollect, PCs, walkVars, seriesVars
<1>3. CASE BeginRule(s)
  <2>1. pc'[s] = "list" /\ pc[s] = "rules" /\ rule'[s] = rule[s] + 1
    BY <1>0, <1>3 DEF BeginRule, Shape
  <2>2. rule'[s] \in RuleIndex /\ rule'[s] \in 0..Len(Rules) /\ rule'[s] # 0
    BY <1>0, <1>a, <1>3, <2>1 DEF BeginRule, ScraperInv, RuleIndex
  <2>3. AnchorOf(rule'[s]) \in Names
    BY <2>2, RulesAssumption, ResourceForName DEF AnchorOf
  <2>4. listed'[s] < Len(Places(s)')
    BY <1>0, <1>3, <2>1, <2>3, PlacesAreInformers DEF BeginRule, ScraperInv, Places
  <2>5. pending'[s] = <<>> /\ pending'[s] \in Seq(SeriesOfRule(rule'[s]))
    BY <1>0, <1>3, <2>1, EmptySeq
       DEF BeginRule, ScraperInv, InRule, InCollect, seriesVars
  <2> QED
    BY <1>0, <1>3, <2>1, <2>2, <2>4, <2>5
       DEF BeginRule, ScraperInv, InRule, InCollect, PCs, walkVars
<1>4. CASE ListNamespace(s)
  <2>1. pc[s] = "list" /\ listed'[s] = listed[s] + 1 /\ anchors'[s] = ListedNext(s)
    BY <1>0, <1>4 DEF ListNamespace, Shape
  <2>2. /\ Len(Places(s)) \in Nat
        /\ ListedNext(s) \in SUBSET (Nat \X Objects) /\ IsFiniteSet(ListedNext(s))
    BY <2>1, ListedNextType
  <2>3. Places(s)' = Places(s) /\ listed'[s] < Len(Places(s))
    BY <1>0, <1>4, <2>1, <2>2 DEF ListNamespace, ScraperInv, LastPlace, Places
  <2> QED
    BY <1>0, <1>4, <2>1, <2>2, <2>3
       DEF ListNamespace, ScraperInv, InRule, InCollect, walkVars, seriesVars
<1>5. CASE ListAnchors(s)
  <2>1. /\ pc[s] = "list" /\ pc'[s] = "anchors"
        /\ listed'[s] = 0 /\ anchors'[s] = ListedNext(s)
    BY <1>0, <1>5 DEF ListAnchors, Shape
  <2>2. ListedNext(s) \in SUBSET (Nat \X Objects) /\ IsFiniteSet(ListedNext(s))
    BY <2>1, ListedNextType
  <2> QED
    BY <1>0, <1>5, <2>1, <2>2
       DEF ListAnchors, ScraperInv, InRule, InCollect, PCs, walkVars, seriesVars
<1>6. CASE ListNothing(s)
  <2>1. pc[s] = "list" /\ pc'[s] = "counting" /\ listed'[s] = 0
    BY <1>0, <1>6 DEF ListNothing, Shape
  <2> QED
    BY <1>0, <1>6, <2>1
       DEF ListNothing, ScraperInv, InRule, InCollect, PCs, walkVars, seriesVars
<1>7. CASE TakeAnchor(s)
  <2>1. PICK a \in anchors[s] :
           /\ anchors'[s] = anchors[s] \ {a}
           /\ obj'[s] = a[2] /\ cur'[s] = a[2]
           /\ chain'[s] = StartChain(a[2])
    BY <1>0, <1>7 DEF TakeAnchor, Shape
  <2>2. a[2] \in Objects /\ chain'[s] \in Chains
    BY <1>0, <2>1, StartChainType DEF ScraperInv
  <2>3. anchors'[s] \in SUBSET (Nat \X Objects) /\ IsFiniteSet(anchors'[s])
    <3>1. anchors[s] \in SUBSET (Nat \X Objects) /\ IsFiniteSet(anchors[s])
      BY <1>0 DEF ScraperInv
    <3>2. IsFiniteSet(anchors[s] \ {a})
      BY <3>1, FS_RemoveElement
    <3> QED
      BY <2>1, <3>1, <3>2
  <2>4. pc[s] = "anchors" /\ pc'[s] = "walk" /\ depth'[s] = 0
    BY <1>0, <1>7 DEF TakeAnchor, Shape
  <2> QED
    BY <1>0, <1>a, <1>7, <2>1, <2>2, <2>3, <2>4
       DEF TakeAnchor, ScraperInv, InRule, InCollect, PCs, seriesVars
<1>8. CASE WalkOwner(s)
  <2>1. /\ pc[s] = "walk" /\ cur'[s] = Parent(cur[s]) /\ depth'[s] = depth[s] + 1
        /\ chain'[s] = ExtendChain(chain[s], depth[s], cur[s], Parent(cur[s]))
    BY <1>0, <1>8 DEF WalkOwner, Shape
  <2>2. Parent(cur[s]) \in Objects
    BY <1>0, <1>8, ParentType DEF WalkOwner, WalkGoesOn
  <2>3. chain'[s] \in Chains
    BY <1>0, <2>1, <2>2, ExtendChainType DEF ScraperInv
  <2>4. depth'[s] \in 0..MaxDepth
    BY <1>0, <1>a, <1>8, <2>1 DEF WalkOwner, WalkGoesOn, ScraperInv
  <2> QED
    BY <1>0, <1>8, <2>1, <2>2, <2>3, <2>4
       DEF WalkOwner, ScraperInv, InRule, InCollect, seriesVars
<1>9. CASE EndWalk(s)
  <2>1. /\ pc[s] = "walk" /\ pc'[s] \in {"materialised", "anchors"}
        /\ obj'[s] = Absent /\ cur'[s] = Absent /\ depth'[s] = 0 /\ chain'[s] = NoChain
        /\ pending'[s] = pending[s] \o SeriesOf(rule[s], obj[s], chain[s])
    BY <1>0, <1>9 DEF EndWalk, Shape
  <2>2. SeriesOf(rule[s], obj[s], chain[s]) \in Seq(SeriesOfRule(rule[s]))
    BY <1>0, <2>1, SeriesOfType DEF ScraperInv
  <2>3. pending'[s] \in Seq(SeriesOfRule(rule[s]))
    BY <1>0, <2>1, <2>2, ConcatProperties DEF ScraperInv
  <2>4. chain'[s] \in Chains
    BY <2>1 DEF NoChain, Chains
  <2> QED
    BY <1>0, <1>a, <1>9, <2>1, <2>3, <2>4 DEF EndWalk, ScraperInv, InRule, InCollect, PCs
<1>10. CASE BeginEmit(s)
  <2>1. pc[s] = "materialised" /\ pc'[s] = "emit"
    BY <1>0, <1>10 DEF BeginEmit, Shape
  <2> QED
    BY <1>0, <1>10, <2>1 DEF BeginEmit, ScraperInv, InRule, InCollect, PCs, walkVars
<1>11. CASE EmitSeries(s)
  <2> DEFINE x == Head(pending[s])
             m == Metric(rule[s], FillValues(values[s], x), x.from)
  <2>1. pc[s] = "emit" /\ pending[s] # <<>> /\ pending'[s] = Tail(pending[s])
    BY <1>0, <1>11 DEF EmitSeries, Shape
  <2>2. out'[s] = out[s] \/ out'[s] = Append(out[s], m)
    BY <1>0, <1>11 DEF EmitSeries, Shape
  <2>3. x \in SeriesOfRule(rule[s]) /\ pending'[s] \in Seq(SeriesOfRule(rule[s]))
    BY <1>0, <2>1, HeadTailProperties DEF ScraperInv
  <2>4. m.rule \in RuleIndex /\ m.from \in Inputs
    BY <1>0, <1>a, <2>1, <2>3, SeriesFrom
       DEF Metric, ScraperInv, InRule, InCollect, RuleIndex
  <2>5. PICK S : /\ out[s] \in Seq(S)
                 /\ \A y \in S : y.rule \in RuleIndex /\ y.from \in Inputs
    BY <1>0 DEF ScraperInv
  <2> HIDE DEF m, x
  <2>6. \E T : /\ out'[s] \in Seq(T)
               /\ \A y \in T : y.rule \in RuleIndex /\ y.from \in Inputs
    <3>1. out[s] \in Seq(S \cup {m})
      BY <2>5, SeqMonotonic
    <3>2. Append(out[s], m) \in Seq(S \cup {m})
      BY <3>1, AppendProperties
    <3>3. out'[s] \in Seq(S \cup {m})
      BY <2>2, <3>1, <3>2
    <3>4. \A y \in S \cup {m} : y.rule \in RuleIndex /\ y.from \in Inputs
      BY <2>4, <2>5
    <3> QED
      BY <3>3, <3>4
  <2> QED
    BY <1>0, <1>11, <2>1, <2>3, <2>6
       DEF EmitSeries, ScraperInv, InRule, InCollect, walkVars
<1>12. CASE EndRule(s)
  <2>1. pc[s] = "emit" /\ pc'[s] = "counting" /\ pending'[s] = <<>>
    BY <1>0, <1>12 DEF EndRule, Shape
  <2> QED
    BY <1>0, <1>12, <2>1 DEF EndRule, ScraperInv, InRule, InCollect, PCs, walkVars
<1>13. CASE Unlock(s)
  <2>1. pc[s] = "rules" /\ pc'[s] = "collected" /\ rule'[s] = 0
    BY <1>0, <1>13 DEF Unlock, Shape
  <2>2. pending'[s] = <<>> /\ pending'[s] \in Seq(SeriesOfRule(rule'[s]))
    BY <1>0, <1>13, <2>1, EmptySeq
       DEF Unlock, ScraperInv, InRule, InCollect, seriesVars
  <2> QED
    BY <1>0, <1>a, <1>13, <2>1, <2>2
       DEF Unlock, ScraperInv, InRule, InCollect, PCs, walkVars
<1>14. CASE Respond(s)
  <2>1. pc[s] = "collected" /\ pc'[s] = "idle" /\ out'[s] = <<>>
        /\ begun'[s] \in [Informers -> [Keys -> Nat]]
    BY <1>0, <1>14 DEF Respond, Shape
  <2>2. \E S : /\ out'[s] \in Seq(S)
               /\ \A y \in S : y.rule \in RuleIndex /\ y.from \in Inputs
    <3> WITNESS {}
    <3> QED
      BY <2>1, EmptySeq
  <2> QED
    BY <1>0, <1>14, <2>1, <2>2
       DEF Respond, ScraperInv, InRule, InCollect, PCs, walkVars, seriesVars
<1>15. CASE IncCollect(s)
  <2>1. pc[s] = "counting" /\ pc'[s] = "observing"
    BY <1>0, <1>15 DEF IncCollect, Shape
  <2> QED
    BY <1>0, <1>15, <2>1
       DEF IncCollect, ScraperInv, InRule, InCollect, PCs, walkVars, seriesVars
<1>16. CASE ObserveCollectDuration(s)
  <2>1. pc[s] = "observing" /\ pc'[s] = "rules"
    BY <1>0, <1>16 DEF ObserveCollectDuration, Shape
  <2> QED
    BY <1>0, <1>16, <2>1
       DEF ObserveCollectDuration, ScraperInv, InRule, InCollect, PCs, walkVars, seriesVars
<1> QED
  BY <1>1, <1>2, <1>3, <1>4, <1>5, <1>6, <1>7, <1>8, <1>9, <1>10, <1>11, <1>12, <1>13, <1>14,
     <1>15, <1>16
     DEF CollectStep, Proceed

\* incCollect adds one to one rule's counter, and touches no other metric.
LEMMA IncCollectSelf ==
    ASSUME self \in SelfTypes, NEW s \in Scrapers, rule[s] \in RuleIndex, IncCollect(s)
    PROVE  /\ self' \in SelfTypes
           /\ \A q \in RuleIndex :
                 /\ self'[q].ok = self[q].ok + (IF q = rule[s] THEN 1 ELSE 0)
                 /\ self'[q].observed = self[q].observed
  BY DEF IncCollect, SelfTypes

\* observeCollectDuration adds one observation to one rule's histogram.
LEMMA ObserveSelf ==
    ASSUME self \in SelfTypes, NEW s \in Scrapers, rule[s] \in RuleIndex,
           ObserveCollectDuration(s)
    PROVE  /\ self' \in SelfTypes
           /\ \A q \in RuleIndex :
                 /\ self'[q].ok = self[q].ok
                 /\ self'[q].observed = self[q].observed + (IF q = rule[s] THEN 1 ELSE 0)
  BY DEF ObserveCollectDuration, SelfTypes

\* observeAnchorCount keeps the type of the self-metrics.
LEMMA CountedType ==
    ASSUME NEW metrics \in SelfTypes, NEW r \in RuleIndex, NEW n \in Nat
    PROVE  /\ Counted(metrics, r, n) \in SelfTypes
           /\ \A q \in RuleIndex :
                 /\ Counted(metrics, r, n)[q].ok = metrics[q].ok
                 /\ Counted(metrics, r, n)[q].observed = metrics[q].observed
  BY DEF Counted, SelfTypes

\* No step of Collect spoils the type of the self-metrics.
LEMMA StepSelf ==
    ASSUME TypeInv, NEW s \in Scrapers, CollectStep(s)
    PROVE  self' \in SelfTypes
<1>1. self \in SelfTypes /\ ScraperInv(s)
  BY DEF TypeInv
<1>2. CASE ListAnchors(s) \/ ListNothing(s)
  <2>1. pc[s] = "list"
    BY <1>2 DEF ListAnchors, ListNothing
  <2>2. rule[s] \in RuleIndex
    BY <1>1, <2>1, RulesAssumption DEF ScraperInv, InRule, InCollect, RuleIndex
  <2>3. Cardinality(ListedNext(s)) \in Nat
    BY <2>1, ListedNextType, FS_CardinalityType
  <2> QED
    BY <1>1, <1>2, <2>2, <2>3, CountedType DEF ListAnchors, ListNothing
<1>3. CASE IncCollect(s) \/ ObserveCollectDuration(s)
  <2>1. rule[s] \in RuleIndex
    BY <1>1, <1>3, RulesAssumption
       DEF IncCollect, ObserveCollectDuration, ScraperInv, InRule, InCollect, RuleIndex
  <2> QED
    BY <1>1, <1>3, <2>1, IncCollectSelf, ObserveSelf
<1>4. CASE UNCHANGED self
  BY <1>1, <1>4
<1> QED
  BY <1>2, <1>3, <1>4
     DEF CollectStep, Proceed, Call, AcquireLock, BeginRule, ListNamespace, TakeAnchor,
         WalkOwner, EndWalk, BeginEmit, EmitSeries, EndRule, Unlock, Respond

\* Every step, of a scraper or of the informers, keeps the invariant.
LEMMA TypeInvNext == TypeInv /\ [Next]_vars => TypeInv'
<1> SUFFICES ASSUME TypeInv, [Next]_vars PROVE TypeInv'
  OBVIOUS
<1>1. ASSUME InformersTypeOK', UNCHANGED CollectVars PROVE TypeInv'
  <2>1. Shape'
    BY <1>1 DEF CollectVars, walkVars, seriesVars, TypeInv, Shape
  <2>2. ASSUME NEW s \in Scrapers PROVE ScraperInv(s)'
    BY <1>1 DEF CollectVars, walkVars, seriesVars, TypeInv, ScraperInv, InRule, InCollect, Places
  <2> QED
    BY <1>1, <2>1, <2>2 DEF CollectVars, TypeInv
<1>2. CASE Environment
  <2>1. InformersTypeOK'
    BY <1>2, InformersNextType DEF Environment, TypeInv
  <2> QED
    BY <1>1, <1>2, <2>1 DEF Environment
<1>3. CASE UNCHANGED vars
  <2>1. InformersTypeOK'
    BY <1>3 DEF vars, TypeInv, InformersTypeOK
  <2> QED
    BY <1>1, <1>3, <2>1 DEF vars, CollectVars, walkVars, seriesVars
<1>4. ASSUME NEW s \in Scrapers, CollectStep(s) PROVE TypeInv'
  <2>1. UNCHANGED <<versions, pos>>
    BY <1>4 DEF CollectStep, Proceed, Call, AcquireLock, BeginRule, ListNamespace, ListAnchors,
                ListNothing, TakeAnchor, WalkOwner, EndWalk, BeginEmit, EmitSeries, EndRule,
                IncCollect, ObserveCollectDuration, Unlock, Respond
  <2>2. InformersTypeOK'
    BY <2>1 DEF TypeInv, InformersTypeOK
  <2>3. self' \in SelfTypes
    BY <1>4, StepSelf
  <2>4. ScraperInv(s)' /\ Shape' /\ \A t \in Scrapers \ {s} : ScraperInv(t)'
    BY <1>4, StepScraperInv, StepIsOwn, StepFrame DEF TypeInv
  <2>5. calls' \in 0..MaxCollects
    <3>1. calls' = calls \/ (calls < MaxCollects /\ calls' = calls + 1)
      BY <1>4
         DEF CollectStep, Proceed, Call, AcquireLock, BeginRule, ListNamespace, ListAnchors,
             ListNothing, TakeAnchor, WalkOwner, EndWalk, BeginEmit, EmitSeries, EndRule,
             IncCollect, ObserveCollectDuration, Unlock, Respond
    <3>2. calls \in 0..MaxCollects /\ MaxCollects \in Nat
      BY RulesAssumption DEF TypeInv
    <3> QED
      BY <3>1, <3>2
  <2>6. scrapeMu' \in Scrapers \cup {Free}
    BY <1>4
       DEF TypeInv, CollectStep, Proceed, Call, AcquireLock, BeginRule, ListNamespace,
           ListAnchors, ListNothing, TakeAnchor, WalkOwner, EndWalk, BeginEmit, EmitSeries,
           EndRule, IncCollect, ObserveCollectDuration, Unlock, Respond
  <2> QED
    BY <2>2, <2>3, <2>4, <2>5, <2>6 DEF TypeInv
<1> QED
  BY <1>2, <1>3, <1>4 DEF Next, CollectStep

(***************************************************************************)
(* Every variable of the collector keeps its type, and the series that     *)
(* materialiseSeries holds back are always those of the rule it is at.     *)
(***************************************************************************)
THEOREM TypeCorrect == Spec => []TypeOK
<1>1. Spec => []TypeInv
  BY TypeInvInit, TypeInvNext, PTL DEF Spec
<1> QED
  BY <1>1, TypeInvImpliesTypeOK, PTL

-----------------------------------------------------------------------------
(***************************************************************************)
(* scrapeMu and the self-metrics.  ChargedInLockstep is not inductive: the *)
(* counts alone do not say which rule may be counted or timed next.  The   *)
(* invariant ties them to the holder of the mutex: only the holder is      *)
(* inside Collect, and apart from the rules that the holder has counted,   *)
(* and those it has timed, in this Collect, all counts are the same.       *)
(***************************************************************************)

\* How many rules the Collect under way has counted, and how many it has timed.
CountedBy(s) == IF pc[s] \in {"observing", "rules"} THEN rule[s] ELSE rule[s] - 1
TimedBy(s)   == IF pc[s] = "rules" THEN rule[s] ELSE rule[s] - 1

Counts(r) == IF scrapeMu # Free /\ r <= CountedBy(scrapeMu) THEN 1 ELSE 0
Times(r)  == IF scrapeMu # Free /\ r <= TimedBy(scrapeMu) THEN 1 ELSE 0

\* Without what the Collect under way has added, each rule is counted and timed as often.
Balanced ==
    /\ \A q, r \in RuleIndex : self[q].ok - Counts(q) = self[r].ok - Counts(r)
    /\ \A r \in RuleIndex : self[r].observed - Times(r) = self[r].ok - Counts(r)

HolderInCollect ==
    /\ \A s \in Scrapers : InCollect(s) <=> scrapeMu = s
    /\ \A s \in Scrapers : ~InCollect(s) => rule[s] = 0

MutexInv == HolderInCollect /\ Balanced

\* Initially no scraper is in Collect and nothing is counted.
LEMMA MutexInvInit == Init => MutexInv
  BY RulesAssumption
     DEF Init, MutexInv, HolderInCollect, Balanced, InCollect, Counts, Times, RuleIndex

\* The rules counted are those timed or one more, each of them up to the present one.
LEMMA CountsAndTimes ==
    ASSUME TypeInv, NEW q \in RuleIndex, NEW r \in RuleIndex
    PROVE  /\ Counts(q) \in {0, 1} /\ Times(q) \in {0, 1}
           /\ q < r => Counts(q) >= Counts(r) /\ Times(q) >= Counts(r)
           /\ q <= r => Counts(q) >= Times(r)
           /\ scrapeMu = Free => Counts(q) = 0 /\ Times(q) = 0
<1>1. CASE scrapeMu = Free
  BY <1>1 DEF Counts, Times
<1>2. CASE scrapeMu \in Scrapers
  <2>1. /\ CountedBy(scrapeMu) \in Int /\ TimedBy(scrapeMu) \in Int
        /\ TimedBy(scrapeMu) <= CountedBy(scrapeMu)
        /\ CountedBy(scrapeMu) <= TimedBy(scrapeMu) + 1
    BY <1>2, RulesAssumption DEF TypeInv, ScraperInv, CountedBy, TimedBy
  <2>2. scrapeMu # Free
    BY <1>2, RulesAssumption
  <2> QED
    BY <2>1, <2>2, RulesAssumption DEF Counts, Times, RuleIndex
<1> QED
  BY <1>1, <1>2 DEF TypeInv

\* Two numbers that are level but for what was added to each differ by that.
LEMMA LevelNumbers ==
    ASSUME NEW a \in Nat, NEW b \in Nat, NEW c \in {0, 1}, NEW d \in {0, 1}, a - c = b - d
    PROVE  /\ c >= d => a - b \in {0, 1}
           /\ c = 0 /\ d = 0 => a = b
  OBVIOUS

\* Counts that follow the one collect under way are in lockstep.
LEMMA MutexInvImpliesLockstep == TypeInv /\ MutexInv => ChargedInLockstep
<1> SUFFICES ASSUME TypeInv, MutexInv PROVE ChargedInLockstep
  OBVIOUS
<1>1. \A r \in RuleIndex : self[r].ok \in Nat /\ self[r].observed \in Nat
  BY DEF TypeInv, SelfTypes
<1>2. ASSUME NEW q \in RuleIndex, NEW r \in RuleIndex
      PROVE  /\ q < r => self[q].ok - self[r].ok \in {0, 1}
             /\ q <= r => self[q].ok - self[r].observed \in {0, 1}
             /\ q < r => self[q].observed - self[r].ok \in {0, 1}
             /\ scrapeMu = Free => self[q].ok = self[r].ok /\ self[q].observed = self[r].ok
  <2>1. /\ self[q].ok \in Nat /\ self[q].observed \in Nat
        /\ self[r].ok \in Nat /\ self[r].observed \in Nat
    BY <1>1
  <2>2. /\ self[q].ok - Counts(q) = self[r].ok - Counts(r)
        /\ self[r].observed - Times(r) = self[r].ok - Counts(r)
        /\ self[q].observed - Times(q) = self[q].ok - Counts(q)
    BY DEF MutexInv, Balanced
  <2>3. /\ self[q].ok - Counts(q) = self[r].observed - Times(r)
        /\ self[q].observed - Times(q) = self[r].ok - Counts(r)
    BY <2>2
  <2>4. /\ Counts(r) \in {0, 1} /\ Times(r) \in {0, 1}
        /\ scrapeMu = Free => Counts(r) = 0 /\ Times(r) = 0
    BY CountsAndTimes
  <2>5. /\ Counts(q) \in {0, 1} /\ Times(q) \in {0, 1}
        /\ q < r => Counts(q) >= Counts(r) /\ Times(q) >= Counts(r)
        /\ q <= r => Counts(q) >= Times(r)
        /\ scrapeMu = Free => Counts(q) = 0 /\ Times(q) = 0
    BY CountsAndTimes
  <2>6. /\ Counts(q) >= Counts(r) => self[q].ok - self[r].ok \in {0, 1}
        /\ Counts(q) = 0 /\ Counts(r) = 0 => self[q].ok = self[r].ok
    BY <2>1, <2>2, <2>4, <2>5, LevelNumbers
  <2>7. Counts(q) >= Times(r) => self[q].ok - self[r].observed \in {0, 1}
    BY <2>1, <2>3, <2>4, <2>5, LevelNumbers
  <2>8. /\ Times(q) >= Counts(r) => self[q].observed - self[r].ok \in {0, 1}
        /\ Times(q) = 0 /\ Counts(r) = 0 => self[q].observed = self[r].ok
    BY <2>1, <2>3, <2>4, <2>5, LevelNumbers
  <2> QED
    BY <2>4, <2>5, <2>6, <2>7, <2>8
<1> QED
  BY <1>2 DEF ChargedInLockstep

\* What a step leaves alone: the metrics, and what the holder has counted and timed.
LEMMA BalancedStays ==
    ASSUME Balanced,
           \A r \in RuleIndex : self'[r].ok = self[r].ok /\ self'[r].observed = self[r].observed,
           \A r \in RuleIndex : Counts(r)' = Counts(r) /\ Times(r)' = Times(r)
    PROVE  Balanced'
  BY DEF Balanced

\* The steps of the holder inside a rule that leave the counts alone.
LEMMA MutexInvWithinRule ==
    ASSUME TypeInv, MutexInv, NEW s \in Scrapers, InRule(s), InRule(s)', OnlyOwn(s),
           pc[s] # "observing", pc'[s] # "observing", UNCHANGED <<scrapeMu, rule>>,
           \A r \in RuleIndex : self'[r].ok = self[r].ok /\ self'[r].observed = self[r].observed
    PROVE  MutexInv'
<1>1. \A t \in Scrapers \ {s} : pc'[t] = pc[t]
  BY DEF TypeInv, Shape, OnlyOwn
<1>2. scrapeMu = s
  BY DEF MutexInv, HolderInCollect, InRule
<1>3. \A r \in RuleIndex : Counts(r)' = Counts(r) /\ Times(r)' = Times(r)
  BY <1>2 DEF Counts, CountedBy, Times, TimedBy, InRule
<1>4. HolderInCollect'
  BY <1>1, <1>2 DEF MutexInv, HolderInCollect, InCollect, InRule
<1>5. Balanced'
  BY <1>3, BalancedStays DEF MutexInv
<1> QED
  BY <1>4, <1>5 DEF MutexInv

\* incCollect: the rule is counted, once, and the holder has counted it.
LEMMA MutexInvIncCollect ==
    ASSUME TypeInv, MutexInv, NEW s \in Scrapers, IncCollect(s), OnlyOwn(s)
    PROVE  MutexInv'
<1> DEFINE k == rule[s]
<1>1. /\ pc[s] = "counting" /\ pc'[s] = "observing" /\ UNCHANGED <<scrapeMu, rule>>
      /\ \A t \in Scrapers \ {s} : pc'[t] = pc[t]
  BY DEF IncCollect, TypeInv, Shape, OnlyOwn
<1>2. k \in RuleIndex /\ scrapeMu = s /\ s # Free
  BY <1>1, RulesAssumption
     DEF TypeInv, ScraperInv, MutexInv, HolderInCollect, InRule, InCollect, RuleIndex
<1>3. \A r \in RuleIndex : /\ self'[r].ok = self[r].ok + (IF r = k THEN 1 ELSE 0)
                           /\ self'[r].observed = self[r].observed
  BY <1>2, IncCollectSelf DEF TypeInv
<1>4. \A r \in RuleIndex : /\ Counts(r)' = Counts(r) + (IF r = k THEN 1 ELSE 0)
                           /\ Times(r)' = Times(r)
  BY <1>1, <1>2, RulesAssumption DEF Counts, CountedBy, Times, TimedBy, RuleIndex
<1>5. \A r \in RuleIndex : /\ self[r].ok \in Nat /\ self[r].observed \in Nat
                           /\ Counts(r) \in {0, 1} /\ Times(r) \in {0, 1}
  BY CountsAndTimes DEF TypeInv, SelfTypes
<1>6. \A r \in RuleIndex : self'[r].ok - Counts(r)' = self[r].ok - Counts(r)
  BY <1>3, <1>4, <1>5
<1>7. Balanced'
  BY <1>3, <1>4, <1>6 DEF MutexInv, Balanced
<1>8. HolderInCollect'
  BY <1>1, <1>2 DEF MutexInv, HolderInCollect, InCollect
<1> QED
  BY <1>7, <1>8 DEF MutexInv

\* observeCollectDuration: the rule is timed, once, and the holder is past it.
LEMMA MutexInvObserve ==
    ASSUME TypeInv, MutexInv, NEW s \in Scrapers, ObserveCollectDuration(s), OnlyOwn(s)
    PROVE  MutexInv'
<1> DEFINE k == rule[s]
<1>1. /\ pc[s] = "observing" /\ pc'[s] = "rules" /\ UNCHANGED <<scrapeMu, rule>>
      /\ \A t \in Scrapers \ {s} : pc'[t] = pc[t]
  BY DEF ObserveCollectDuration, TypeInv, Shape, OnlyOwn
<1>2. k \in RuleIndex /\ scrapeMu = s /\ s # Free
  BY <1>1, RulesAssumption
     DEF TypeInv, ScraperInv, MutexInv, HolderInCollect, InRule, InCollect, RuleIndex
<1>3. \A r \in RuleIndex : /\ self'[r].ok = self[r].ok
                           /\ self'[r].observed = self[r].observed + (IF r = k THEN 1 ELSE 0)
  BY <1>2, ObserveSelf DEF TypeInv
<1>4. \A r \in RuleIndex : /\ Counts(r)' = Counts(r)
                           /\ Times(r)' = Times(r) + (IF r = k THEN 1 ELSE 0)
  BY <1>1, <1>2, RulesAssumption DEF Counts, CountedBy, Times, TimedBy, RuleIndex
<1>5. \A r \in RuleIndex : /\ self[r].ok \in Nat /\ self[r].observed \in Nat
                           /\ Counts(r) \in {0, 1} /\ Times(r) \in {0, 1}
  BY CountsAndTimes DEF TypeInv, SelfTypes
<1>6. \A r \in RuleIndex : self'[r].observed - Times(r)' = self[r].observed - Times(r)
  BY <1>3, <1>4, <1>5
<1>7. Balanced'
  BY <1>3, <1>4, <1>6 DEF MutexInv, Balanced
<1>8. HolderInCollect'
  BY <1>1, <1>2 DEF MutexInv, HolderInCollect, InCollect
<1> QED
  BY <1>7, <1>8 DEF MutexInv

\* Every step keeps the mutual exclusion and the balance of the counts.
LEMMA MutexInvNext == TypeInv /\ MutexInv /\ [Next]_vars => MutexInv'
<1> SUFFICES ASSUME TypeInv, MutexInv, [Next]_vars PROVE MutexInv'
  OBVIOUS
<1>0. HolderInCollect /\ Balanced
  BY DEF MutexInv
<1>1. ASSUME UNCHANGED <<scrapeMu, pc, rule, self>> PROVE MutexInv'
  BY <1>1
     DEF MutexInv, HolderInCollect, Balanced, InCollect, Counts, CountedBy, Times, TimedBy
<1>2. CASE Environment \/ UNCHANGED vars
  BY <1>1, <1>2 DEF Environment, CollectVars, vars
<1>3. ASSUME NEW s \in Scrapers, CollectStep(s) PROVE MutexInv'
  <2>a. OnlyOwn(s) /\ ScraperInv(s)
    BY <1>3, StepIsOwn DEF TypeInv
  <2>b. /\ \A t \in Scrapers \ {s} : pc'[t] = pc[t] /\ rule'[t] = rule[t]
        /\ pc \in [Scrapers -> PCs]
    BY <2>a DEF TypeInv, Shape, OnlyOwn, ScraperInv
  <2>c. (\A t \in Scrapers : t # Free) /\ Len(Rules) \in Nat \ {0}
    BY RulesAssumption
  <2>1. CASE Call(s) \/ Respond(s)
    <3>1. /\ <<pc[s], pc'[s]>> \in {<<"idle", "waiting">>, <<"collected", "idle">>}
          /\ UNCHANGED <<scrapeMu, rule, self>>
      BY <2>1, <2>b DEF Call, Respond
    <3>2. scrapeMu # s
      BY <1>0, <3>1 DEF HolderInCollect, InCollect
    <3>3. \A r \in RuleIndex : Counts(r)' = Counts(r) /\ Times(r)' = Times(r)
      BY <2>b, <3>1, <3>2 DEF Counts, CountedBy, Times, TimedBy, TypeInv
    <3>4. Balanced'
      BY <1>0, <3>1, <3>3, BalancedStays
    <3>5. HolderInCollect'
      BY <1>0, <2>b, <3>1 DEF HolderInCollect, InCollect
    <3> QED
      BY <3>4, <3>5 DEF MutexInv
  <2>2. CASE AcquireLock(s)
    <3>1. /\ pc[s] = "waiting" /\ pc'[s] = "rules" /\ scrapeMu = Free /\ scrapeMu' = s
          /\ UNCHANGED <<rule, self>>
      BY <2>2, <2>b DEF AcquireLock
    <3>2. rule[s] = 0
      BY <1>0, <3>1 DEF HolderInCollect, InCollect
    <3>3. \A r \in RuleIndex : Counts(r)' = Counts(r) /\ Times(r)' = Times(r)
      BY <2>c, <3>1, <3>2 DEF Counts, CountedBy, Times, TimedBy, RuleIndex
    <3>4. HolderInCollect'
      BY <1>0, <2>b, <2>c, <3>1 DEF HolderInCollect, InCollect
    <3>5. Balanced'
      BY <1>0, <3>1, <3>3, BalancedStays
    <3> QED
      BY <3>4, <3>5 DEF MutexInv
  <2>3. CASE BeginRule(s)
    <3>1. /\ pc[s] = "rules" /\ pc'[s] = "list" /\ rule'[s] = rule[s] + 1
          /\ UNCHANGED <<scrapeMu, self>>
      BY <2>3, <2>a, <2>b DEF BeginRule, TypeInv, Shape
    <3>2. scrapeMu = s
      BY <1>0, <3>1 DEF HolderInCollect, InCollect
    <3>3. CountedBy(s)' = CountedBy(s) /\ TimedBy(s)' = TimedBy(s)
      BY <2>a, <2>c, <3>1 DEF CountedBy, TimedBy, ScraperInv
    <3>4. \A r \in RuleIndex : Counts(r)' = Counts(r) /\ Times(r)' = Times(r)
      BY <3>1, <3>2, <3>3 DEF Counts, Times
    <3>5. HolderInCollect'
      BY <1>0, <2>b, <3>1, <3>2 DEF HolderInCollect, InCollect
    <3>6. Balanced'
      BY <1>0, <3>1, <3>4, BalancedStays
    <3> QED
      BY <3>5, <3>6 DEF MutexInv
  <2>4. CASE \/ ListNamespace(s) \/ TakeAnchor(s) \/ WalkOwner(s) \/ EndWalk(s)
             \/ BeginEmit(s) \/ EmitSeries(s) \/ EndRule(s)
    <3>1. /\ InRule(s) /\ InRule(s)' /\ UNCHANGED <<scrapeMu, rule, self>>
          /\ pc[s] # "observing" /\ pc'[s] # "observing"
      BY <2>4, <2>b DEF ListNamespace, TakeAnchor, WalkOwner, EndWalk, BeginEmit, EmitSeries,
                        EndRule, InRule, InCollect
    <3> QED
      BY <2>a, <3>1, MutexInvWithinRule
  <2>5. CASE ListAnchors(s) \/ ListNothing(s)
    <3>1. /\ InRule(s) /\ InRule(s)' /\ pc[s] = "list" /\ pc'[s] # "observing"
          /\ UNCHANGED <<scrapeMu, rule>>
          /\ self' \in {Counted(self, rule[s], n) : n \in {0, Cardinality(ListedNext(s))}}
      BY <2>5, <2>b DEF ListAnchors, ListNothing, InRule, InCollect
    <3>2. Cardinality(ListedNext(s)) \in Nat
      BY <3>1, ListedNextType, FS_CardinalityType
    <3>3. rule[s] \in RuleIndex
      BY <2>a, <2>c, <3>1 DEF ScraperInv, RuleIndex
    <3>4. \A r \in RuleIndex : self'[r].ok = self[r].ok /\ self'[r].observed = self[r].observed
      BY <3>1, <3>2, <3>3, CountedType DEF TypeInv
    <3> QED
      BY <2>a, <3>1, <3>4, MutexInvWithinRule
  <2>6. CASE IncCollect(s)
    BY <2>a, <2>6, MutexInvIncCollect
  <2>7. CASE ObserveCollectDuration(s)
    BY <2>a, <2>7, MutexInvObserve
  <2>8. CASE Unlock(s)
    <3>1. /\ pc[s] = "rules" /\ pc'[s] = "collected" /\ scrapeMu' = Free
          /\ rule[s] = Len(Rules) /\ rule'[s] = 0 /\ UNCHANGED self
      BY <2>8, <2>a, <2>b DEF Unlock, TypeInv, Shape
    <3>2. scrapeMu = s
      BY <1>0, <3>1 DEF HolderInCollect, InCollect
    <3>3. \A r \in RuleIndex : /\ Counts(r) = 1 /\ Counts(r)' = 0
                               /\ Times(r) = 1 /\ Times(r)' = 0
      BY <2>c, <3>1, <3>2 DEF Counts, CountedBy, Times, TimedBy, RuleIndex
    <3>4. \A r \in RuleIndex : self[r].ok \in Nat /\ self[r].observed \in Nat
      BY DEF TypeInv, SelfTypes
    <3>5. Balanced'
      BY <1>0, <3>1, <3>3, <3>4 DEF Balanced
    <3>6. HolderInCollect'
      BY <1>0, <2>b, <2>c, <3>1, <3>2 DEF HolderInCollect, InCollect
    <3> QED
      BY <3>5, <3>6 DEF MutexInv
  <2> QED
    BY <1>3, <2>1, <2>2, <2>3, <2>4, <2>5, <2>6, <2>7, <2>8 DEF CollectStep, Proceed
<1> QED
  BY <1>2, <1>3 DEF Next, CollectStep

(***************************************************************************)
(* Concurrent scrapes never double-charge the self-metrics of Collect:     *)
(* only the one rule being done is ahead of the others, in its count or in *)
(* both count and timing, and between two Collects all are level.          *)
(***************************************************************************)
THEOREM LockstepCharges == Spec => []ChargedInLockstep
<1>1. Spec => [](TypeInv /\ MutexInv)
  BY TypeInvInit, TypeInvNext, MutexInvInit, MutexInvNext, PTL DEF Spec
<1> QED
  BY <1>1, MutexInvImpliesLockstep, PTL

\* The holder of the mutex, and no other scraper, is inside Collect.
MutualExclusion == \A s \in Scrapers : InCollect(s) <=> scrapeMu = s

(***************************************************************************)
(* scrapeMu excludes: two scrapes are never inside Collect at once, and    *)
(* exactly the holder is (Collector.Collect).                              *)
(***************************************************************************)
THEOREM CollectIsExclusive == Spec => []MutualExclusion
<1>1. Spec => [](TypeInv /\ MutexInv)
  BY TypeInvInit, TypeInvNext, MutexInvInit, MutexInvNext, PTL DEF Spec
<1>2. MutexInv => MutualExclusion
  BY DEF MutexInv, HolderInCollect, MutualExclusion
<1> QED
  BY <1>1, <1>2, PTL

-----------------------------------------------------------------------------
(***************************************************************************)
(* exporter_anchor_count.  The gauge is one for all scrapes, so the        *)
(* property needs the mutex: while a scraper materialises a rule no other  *)
(* one is inside Collect to set it.                                        *)
(***************************************************************************)
CountHolds(s) ==
    pc[s] \in {"anchors", "walk", "materialised"} /\ ~Rules[rule[s]].forEach =>
        self[rule[s]].anchorCount =
            Cardinality(anchors[s]) + Len(pending[s]) + (IF pc[s] = "walk" THEN 1 ELSE 0)

\* The gauge that ListAnchors sets is the size of the list it read.
LEMMA CountAfterListing ==
    ASSUME TypeInv, NEW s \in Scrapers, ListAnchors(s)
    PROVE  CountHolds(s)'
<1>1. Shape /\ ScraperInv(s) /\ self \in SelfTypes
  BY DEF TypeInv
<1>2. /\ pc[s] = "list" /\ pc'[s] = "anchors" /\ rule'[s] = rule[s]
      /\ anchors'[s] = ListedNext(s) /\ pending'[s] = <<>>
      /\ self' = Counted(self, rule[s], Cardinality(ListedNext(s)))
  BY <1>1 DEF ListAnchors, Shape, ScraperInv, seriesVars
<1>3. rule[s] \in RuleIndex
  BY <1>1, <1>2, RulesAssumption DEF ScraperInv, InRule, InCollect, RuleIndex
<1>4. Cardinality(ListedNext(s)) \in Nat
  BY <1>2, ListedNextType, FS_CardinalityType
<1>5. self'[rule[s]].anchorCount = Cardinality(ListedNext(s))
  BY <1>1, <1>2, <1>3 DEF Counted, SelfTypes
<1>6. Len(pending'[s]) = 0
  BY <1>2
<1> QED
  BY <1>2, <1>4, <1>5, <1>6 DEF CountHolds

\* The anchor that is taken is the one being walked.
LEMMA CountAfterTaking ==
    ASSUME TypeInv, NEW s \in Scrapers, CountHolds(s), TakeAnchor(s)
    PROVE  CountHolds(s)'
<1>1. Shape /\ ScraperInv(s) /\ self \in SelfTypes
  BY DEF TypeInv
<1>2. PICK a \in anchors[s] : anchors'[s] = anchors[s] \ {a}
  BY <1>1 DEF TakeAnchor, Shape
<1>3. /\ pc[s] = "anchors" /\ pc'[s] = "walk" /\ rule'[s] = rule[s]
      /\ pending'[s] = pending[s] /\ self' = self
  BY <1>1 DEF TakeAnchor, Shape, seriesVars
<1>4. IsFiniteSet(anchors[s]) /\ Len(pending[s]) \in Nat
  BY <1>1, LenProperties DEF ScraperInv
<1>5. /\ Cardinality(anchors'[s]) = Cardinality(anchors[s]) - 1
      /\ Cardinality(anchors[s]) \in Nat
  BY <1>2, <1>4, FS_RemoveElement, FS_CardinalityType
<1> QED
  BY <1>3, <1>4, <1>5 DEF CountHolds

\* The anchor whose walk ends is the one that becomes a series.
LEMMA CountAfterWalking ==
    ASSUME TypeInv, NEW s \in Scrapers, CountHolds(s), EndWalk(s)
    PROVE  CountHolds(s)'
<1> DEFINE new == SeriesOf(rule[s], obj[s], chain[s])
<1>1. Shape /\ ScraperInv(s)
  BY DEF TypeInv
<1>2. /\ pc[s] = "walk" /\ pc'[s] \in {"anchors", "materialised"} /\ rule'[s] = rule[s]
      /\ anchors'[s] = anchors[s] /\ pending'[s] = pending[s] \o new /\ self' = self
  BY <1>1 DEF EndWalk, Shape
<1>3. /\ pending[s] \in Seq(SeriesOfRule(rule[s])) /\ new \in Seq(SeriesOfRule(rule[s]))
      /\ Len(pending[s]) \in Nat /\ IsFiniteSet(anchors[s])
  BY <1>1, <1>2, SeriesOfType, LenProperties DEF ScraperInv
<1>4. Cardinality(anchors[s]) \in Nat
  BY <1>3, FS_CardinalityType
<1>5. ~Rules[rule[s]].forEach => Len(new) = 1
  BY DEF SeriesOf, EvaluateForEach
<1> HIDE DEF new
<1>6. Len(pending'[s]) = Len(pending[s]) + Len(new)
  BY <1>2, <1>3, ConcatProperties
<1>7. SUFFICES ASSUME ~Rules[rule[s]].forEach
               PROVE  self[rule[s]].anchorCount = Cardinality(anchors'[s]) + Len(pending'[s])
  BY <1>2, <1>3, <1>4, <1>5, <1>6 DEF CountHolds
<1>8. self[rule[s]].anchorCount = Cardinality(anchors[s]) + Len(pending[s]) + 1
  BY <1>2, <1>7 DEF CountHolds
<1>9. Len(pending'[s]) = Len(pending[s]) + 1
  BY <1>5, <1>6, <1>7
<1>10. Cardinality(anchors'[s]) = Cardinality(anchors[s])
  BY <1>2
<1>11. Len(pending[s]) \in Nat
  BY <1>3
<1> QED
  BY <1>4, <1>8, <1>9, <1>10, <1>11

\* Every step of any scraper keeps every scraper's count.
LEMMA CountStep ==
    ASSUME TypeInv, MutexInv, \A s \in Scrapers : CountHolds(s),
           NEW s \in Scrapers, CollectStep(s)
    PROVE  \A t \in Scrapers : CountHolds(t)'
<1>0. Shape /\ OnlyOwn(s)
  BY StepIsOwn DEF TypeInv
<1>1. ASSUME NEW t \in Scrapers \ {s} PROVE CountHolds(t)'
  <2>1. /\ pc'[t] = pc[t] /\ rule'[t] = rule[t] /\ anchors'[t] = anchors[t]
        /\ pending'[t] = pending[t]
    BY <1>0 DEF Shape, OnlyOwn
  <2>2. SUFFICES ASSUME pc[t] \in {"anchors", "walk", "materialised"} PROVE self' = self
    BY <2>1 DEF CountHolds
  <2>3. ~InCollect(s)
    BY <2>2 DEF MutexInv, HolderInCollect, InCollect
  <2> QED
    BY <2>3
       DEF InCollect, CollectStep, Proceed, Call, AcquireLock, BeginRule, ListNamespace,
           ListAnchors, ListNothing, TakeAnchor, WalkOwner, EndWalk, BeginEmit, EmitSeries,
           EndRule, IncCollect, ObserveCollectDuration, Unlock, Respond
<1>2. CountHolds(s)'
  <2>1. CASE ListAnchors(s)
    BY <2>1, CountAfterListing
  <2>2. CASE TakeAnchor(s)
    BY <2>2, CountAfterTaking
  <2>3. CASE EndWalk(s)
    BY <2>3, CountAfterWalking
  <2>4. CASE WalkOwner(s)
    <3>1. /\ pc[s] = "walk" /\ pc'[s] = pc[s]
          /\ UNCHANGED <<rule, anchors, pending, self>>
      BY <2>4 DEF WalkOwner, seriesVars
    <3> QED
      BY <3>1 DEF CountHolds
  <2>5. CASE \/ Call(s) \/ AcquireLock(s) \/ BeginRule(s) \/ ListNamespace(s) \/ ListNothing(s)
             \/ BeginEmit(s) \/ EmitSeries(s) \/ EndRule(s) \/ IncCollect(s)
             \/ ObserveCollectDuration(s) \/ Unlock(s) \/ Respond(s)
    <3>1. pc'[s] \in PCs \ {"anchors", "walk", "materialised"}
      BY <1>0, <2>5
         DEF Shape, PCs, Call, AcquireLock, BeginRule, ListNamespace, ListNothing, BeginEmit,
             EmitSeries, EndRule, IncCollect, ObserveCollectDuration, Unlock, Respond
    <3> QED
      BY <3>1 DEF CountHolds
  <2> QED
    BY <2>1, <2>2, <2>3, <2>4, <2>5 DEF CollectStep, Proceed
<1> QED
  BY <1>1, <1>2

\* Given the mutex, the count is inductive as it stands.
LEMMA CountNext ==
    TypeInv /\ MutexInv /\ AnchorCountIsOfThisCollect /\ [Next]_vars
        => AnchorCountIsOfThisCollect'
<1> SUFFICES ASSUME TypeInv, MutexInv, AnchorCountIsOfThisCollect, [Next]_vars
             PROVE  AnchorCountIsOfThisCollect'
  OBVIOUS
<1>1. \A s \in Scrapers : CountHolds(s)
  BY DEF AnchorCountIsOfThisCollect, CountHolds
<1>2. CASE Environment \/ UNCHANGED vars
  <2>1. UNCHANGED <<pc, rule, anchors, pending, self>>
    BY <1>2 DEF Environment, CollectVars, vars, seriesVars
  <2> QED
    BY <2>1 DEF AnchorCountIsOfThisCollect
<1>3. ASSUME NEW s \in Scrapers, CollectStep(s) PROVE AnchorCountIsOfThisCollect'
  <2>1. \A t \in Scrapers : CountHolds(t)'
    BY <1>1, <1>3, CountStep
  <2> QED
    BY <2>1 DEF AnchorCountIsOfThisCollect, CountHolds
<1> QED
  BY <1>2, <1>3 DEF Next, CollectStep

(***************************************************************************)
(* exporter_anchor_count is, while a rule is materialised, the number of   *)
(* anchors that this very Collect listed for it, whatever other scrapes    *)
(* do meanwhile (observeAnchorCount, metrics.go).                     *)
(***************************************************************************)
THEOREM AnchorCountIsOwn == Spec => []AnchorCountIsOfThisCollect
<1>1. Init => AnchorCountIsOfThisCollect
  BY DEF Init, AnchorCountIsOfThisCollect
<1>2. Spec => [](TypeInv /\ MutexInv)
  BY TypeInvInit, TypeInvNext, MutexInvInit, MutexInvNext, PTL DEF Spec
<1> QED
  BY <1>1, <1>2, CountNext, PTL DEF Spec

-----------------------------------------------------------------------------
(***************************************************************************)
(* The collector only reads the caches: seen from the API server and the   *)
(* informers, a behaviour of Collector is one of ScopedInformers, with     *)
(* steps in which nothing happens.  So what holds of the informers alone   *)
(* holds while they are scraped.                                           *)
(***************************************************************************)
THEOREM CollectOnlyReads == Spec => InformersSpec
<1>1. Init => InformersInit
  BY DEF Init
<1>2. [Next]_vars => [InformersNext]_informerVars
  <2>1. ASSUME NEW s \in Scrapers, CollectStep(s) PROVE UNCHANGED informerVars
    BY <2>1
       DEF CollectStep, Proceed, Call, AcquireLock, BeginRule, ListNamespace, ListAnchors,
           ListNothing, TakeAnchor, WalkOwner, EndWalk, BeginEmit, EmitSeries, EndRule,
           IncCollect, ObserveCollectDuration, Unlock, Respond, informerVars
  <2>2. Environment => InformersNext
    BY DEF Environment
  <2>3. UNCHANGED vars => UNCHANGED informerVars
    BY DEF vars, informerVars
  <2> QED
    BY <2>1, <2>2, <2>3 DEF Next, CollectStep
<1> QED
  BY <1>1, <1>2, PTL DEF Spec, InformersSpec

-----------------------------------------------------------------------------
(***************************************************************************)
(* NothingOlderThanTheScrape for every instance of Collector.  Alone it is *)
(* not inductive: when a scraper acquires scrapeMu its begun jumps to the  *)
(* present, so it must hold nothing then; and for what it reads from a     *)
(* cache to count, the cache entry must be a version of its own key, and   *)
(* begun must not be ahead of the caches.                                  *)
(***************************************************************************)

Fresh(s, o) == o \in Objects \cup {Absent} /\ CachedSinceBegun(s, o)

FreshScraper(s) ==
    /\ \A a \in anchors[s] : Fresh(s, a[2])
    /\ Fresh(s, obj[s])
    /\ Fresh(s, cur[s])
    /\ \A source \in Sources : Fresh(s, chain[s][source])
    /\ \A i \in 1..Len(pending[s]), source \in Sources \ {"item"} :
          Fresh(s, pending[s][i].from[source])
    /\ \A i \in 1..Len(out[s]), source \in Sources \ {"item"} :
          Fresh(s, out[s][i].from[source])
    /\ \A inf \in Informers, k \in Keys : begun[s][inf][k] <= pos[inf][k]
    /\ pc[s] # "walk" => obj[s] = Absent /\ cur[s] = Absent /\ chain[s] = NoChain
    /\ pc[s] \notin {"list", "anchors", "walk"} => anchors[s] = {}
    /\ pc[s] \in {"idle", "waiting"} => out[s] = <<>>

FreshInv == FiledByKey /\ \A s \in Scrapers : FreshScraper(s)

\* The inductive invariant contains the checked one.
LEMMA FreshInvImpliesNothingOlder == FreshInv => NothingOlderThanTheScrape
  BY DEF FreshInv, FreshScraper, Fresh, NothingOlderThanTheScrape

\* Nothing is older than the scrape if it is no object.
LEMMA AbsentIsFresh == ASSUME NEW s PROVE Fresh(s, Absent)
  BY DEF Fresh, CachedSinceBegun

\* Initially no scraper holds an object.
LEMMA FreshInvInit == Init => FreshInv
<1> SUFFICES ASSUME Init PROVE FreshInv
  OBVIOUS
<1>3. FiledByKey
  BY FiledByKeyInit DEF Init
<1>4. ASSUME NEW s \in Scrapers PROVE FreshScraper(s)
  <2>1. /\ anchors[s] = {} /\ obj[s] = Absent /\ cur[s] = Absent /\ chain[s] = NoChain
        /\ pending[s] = <<>> /\ out[s] = <<>> /\ begun[s] = pos
    BY DEF Init
  <2>2. \A inf \in Informers, k \in Keys : begun[s][inf][k] <= pos[inf][k]
    BY <2>1 DEF Init, InformersInit
  <2>3. \A source \in Sources : chain[s][source] = Absent
    BY <2>1 DEF NoChain
  <2> QED
    BY <2>1, <2>2, <2>3, AbsentIsFresh DEF FreshScraper
<1> QED
  BY <1>3, <1>4 DEF FreshInv

-----------------------------------------------------------------------------
(* Steps of the API server and the informers *)

\* Versions are only added, and caches only move forward.
LEMMA HistoriesGrow ==
    ASSUME InformersTypeOK, InformersNext
    PROVE  /\ \A k \in Keys : \A i \in 1..Len(versions[k]) :
                 i \in 1..Len(versions'[k]) /\ versions'[k][i] = versions[k][i]
           /\ \A inf \in Informers, k \in Keys : pos[inf][k] <= pos'[inf][k]
<1>0. /\ \A k \in Keys : versions[k] \in Seq(Objects \cup {Absent}) /\ Len(versions[k]) \in Nat
      /\ \A inf \in Informers, k \in Keys : pos[inf][k] \in Nat
  BY DEF InformersTypeOK
<1>1. ASSUME NEW k \in Keys, NEW o \in Objects \cup {Absent},
             versions' = [versions EXCEPT ![k] = Append(@, o)], UNCHANGED pos
      PROVE  /\ \A l \in Keys : \A i \in 1..Len(versions[l]) :
                   i \in 1..Len(versions'[l]) /\ versions'[l][i] = versions[l][i]
             /\ \A inf \in Informers, l \in Keys : pos[inf][l] <= pos'[inf][l]
  <2>1. /\ \A i \in 1..Len(versions[k]) : Append(versions[k], o)[i] = versions[k][i]
        /\ Len(Append(versions[k], o)) = Len(versions[k]) + 1
    BY <1>0, AppendProperties
  <2>2. \A l \in Keys : versions'[l] = IF l = k THEN Append(versions[k], o) ELSE versions[l]
    BY <1>1 DEF InformersTypeOK
  <2> QED
    BY <1>0, <1>1, <2>1, <2>2
<1>2. ASSUME NEW inf \in Informers, NEW k \in Keys, Deliver(inf, k)
      PROVE  /\ versions' = versions
             /\ \A other \in Informers, l \in Keys : pos[other][l] <= pos'[other][l]
  <2>1. PICK i \in (pos[inf][k] + 1)..Len(versions[k]) :
           pos' = [pos EXCEPT ![inf][k] = i]
    BY <1>2 DEF Deliver
  <2> QED
    BY <1>0, <1>2, <2>1 DEF Deliver, InformersTypeOK
<1>3. \A o \in Objects : Key(o) \in Keys
  BY DEF Keys
<1> QED
  BY <1>0, <1>1, <1>2, <1>3 DEF InformersNext, Write, Delete

\* What is fresh stays fresh while the caches move forward.
LEMMA FreshStable ==
    ASSUME InformersTypeOK, InformersNext, NEW s, NEW o, Fresh(s, o),
           begun[s] \in [Informers -> [Keys -> Nat]], begun'[s] = begun[s]
    PROVE  Fresh(s, o)'
<1>1. CASE o = Absent
  BY <1>1 DEF Fresh, CachedSinceBegun
<1>2. CASE o \in Objects
  <2> DEFINE k == Key(o)
  <2>1. k \in Keys /\ o # Absent
    BY <1>2, ObjectsAssumption DEF Keys
  <2>2. PICK inf \in Informers :
           /\ Watches(inf, k)
           /\ o \in Selects(inf.resource)
           /\ \E i \in begun[s][inf][k]..pos[inf][k] : i > 0 /\ versions[k][i] = o
    BY <2>1 DEF Fresh, CachedSinceBegun
  <2>3. PICK i \in begun[s][inf][k]..pos[inf][k] : i > 0 /\ versions[k][i] = o
    BY <2>2
  <2>4. /\ begun[s][inf][k] \in Nat /\ pos[inf][k] \in Nat /\ Len(versions[k]) \in Nat
        /\ pos[inf][k] <= Len(versions[k])
    BY <2>1 DEF InformersTypeOK
  <2>5. i \in 1..Len(versions[k])
    BY <2>3, <2>4
  <2>6. versions'[k][i] = o /\ pos[inf][k] <= pos'[inf][k]
    BY <2>1, <2>3, <2>5, HistoriesGrow
  <2>7. pos'[inf][k] \in Nat
    BY <2>1, InformersNextType DEF InformersTypeOK
  <2>8. i \in begun'[s][inf][k]..pos'[inf][k]
    BY <2>3, <2>4, <2>6, <2>7
  <2>9. CachedSinceBegun(s, o)'
    BY <2>2, <2>3, <2>6, <2>8 DEF CachedSinceBegun
  <2> QED
    BY <1>2, <2>9 DEF Fresh
<1> QED
  BY <1>1, <1>2 DEF Fresh

\* A step of the cluster or of a reflector makes nothing stale.
LEMMA FreshInvEnvironment ==
    ASSUME TypeInv, FreshInv, Environment
    PROVE  FreshInv'
<1>1. InformersTypeOK /\ InformersNext
  BY DEF TypeInv, Environment
<1>2. UNCHANGED <<pc, anchors, obj, cur, chain, pending, out, begun>>
  BY DEF Environment, CollectVars, walkVars, seriesVars
<1>3. FiledByKey'
  BY <1>1, FiledByKeyNext DEF FreshInv
<1>4. ASSUME NEW s \in Scrapers PROVE FreshScraper(s)'
  <2>1. FreshScraper(s) /\ begun[s] \in [Informers -> [Keys -> Nat]]
    BY DEF FreshInv, TypeInv, ScraperInv
  <2>2. \A o : Fresh(s, o) => Fresh(s, o)'
    BY <1>1, <1>2, <2>1, FreshStable
  <2>3. \A inf \in Informers, k \in Keys : begun'[s][inf][k] <= pos'[inf][k]
    <3>1. \A inf \in Informers, k \in Keys : pos[inf][k] <= pos'[inf][k]
      BY <1>1, HistoriesGrow
    <3>2. \A inf \in Informers, k \in Keys : pos[inf][k] \in Nat /\ pos'[inf][k] \in Nat
      BY <1>1, InformersNextType DEF InformersTypeOK
    <3> QED
      BY <1>2, <2>1, <3>1, <3>2 DEF FreshScraper
  <2> HIDE DEF Fresh
  <2> QED
    BY <1>2, <2>1, <2>2, <2>3 DEF FreshScraper
<1> QED
  BY <1>3, <1>4 DEF FreshInv

-----------------------------------------------------------------------------
(* Steps of the collector *)

\* What a cache has now is fresh.
LEMMA CachedIsFresh ==
    ASSUME TypeInv, FreshInv, NEW s \in Scrapers, NEW inf \in Informers, NEW k \in Keys
    PROVE  Fresh(s, CacheEntry(inf, k))
<1> DEFINE o == CacheEntry(inf, k)
<1>1. o \in Objects \cup {Absent}
  BY CacheEntryType DEF TypeInv
<1>2. CASE o = Absent
  BY <1>2, AbsentIsFresh
<1>3. CASE o # Absent
  <2>1. /\ pos[inf][k] # 0 /\ o = versions[k][pos[inf][k]] /\ o \in Selects(inf.resource)
    BY <1>3 DEF CacheEntry
  <2>2. /\ pos[inf][k] \in Nat /\ pos[inf][k] <= Len(versions[k]) /\ Len(versions[k]) \in Nat
    BY DEF TypeInv, InformersTypeOK
  <2>3. Key(o) = k /\ Watches(inf, k)
    BY <1>3, <2>1, <2>2 DEF FreshInv, FiledByKey
  <2>4. begun[s][inf][k] \in Nat /\ begun[s][inf][k] <= pos[inf][k]
    BY DEF TypeInv, ScraperInv, FreshInv, FreshScraper
  <2> HIDE DEF o
  <2>5. pos[inf][k] \in begun[s][inf][k]..pos[inf][k] /\ pos[inf][k] > 0
    BY <2>1, <2>2, <2>4
  <2>6. CachedSinceBegun(s, o)
    BY <2>1, <2>3, <2>5 DEF CachedSinceBegun
  <2> QED
    BY <1>1, <2>6 DEF Fresh, o
<1> QED
  BY <1>2, <1>3

\* What is listed is fresh.
LEMMA ListedIsFresh ==
    ASSUME TypeInv, FreshInv, NEW s \in Scrapers, NEW inf \in Informers, NEW o \in Cache(inf)
    PROVE  Fresh(s, o)
  BY CachedIsFresh DEF Cache

\* The owner that the walk finds is fresh.
LEMMA ParentIsFresh ==
    ASSUME TypeInv, FreshInv, NEW s \in Scrapers, NEW o
    PROVE  Fresh(s, Parent(o))
<1>1. \A ref, ns, name : Fresh(s, Get(ref, ns, name))
  BY CachedIsFresh, AbsentIsFresh DEF Get
<1> QED
  BY <1>1, AbsentIsFresh DEF Parent

\* The walk puts into the chain only what it was at or found.
LEMMA StartChainHolds ==
    ASSUME NEW o, NEW source \in Sources
    PROVE  StartChain(o)[source] \in {o, Absent}
  BY DEF StartChain, AddChainObject

\* The chain with one more owner holds only what it held, and the owner.
LEMMA ExtendChainHolds ==
    ASSUME NEW c \in Chains, NEW n, NEW o, NEW owner, NEW source \in Sources
    PROVE  ExtendChain(c, n, o, owner)[source] \in {c[source], owner}
<1>1. [c EXCEPT !["ownerController"] = owner][source] \in {c[source], owner}
  BY DEF Chains
<1> QED
  BY <1>1 DEF ExtendChain, AddChainObject

\* A series is from the anchor and the objects of its chain.
LEMMA SeriesOfHolds ==
    ASSUME NEW r, NEW o, NEW c, NEW i \in 1..Len(SeriesOf(r, o, c)),
           Len(EvaluateForEach(Rules[r], o, Absent)) \in Nat,
           NEW source \in Sources \ {"item"}
    PROVE  SeriesOf(r, o, c)[i].from[source] = c[source]
<1> DEFINE items == EvaluateForEach(Rules[r], o, Absent)
<1>1. SeriesOf(r, o, c) = [n \in 1..Len(items) |-> Series(r, Lookup(c, items[n]))]
  BY DEF SeriesOf
<1>2. i \in 1..Len(items)
  BY <1>1
<1>3. SeriesOf(r, o, c)[i].from = Lookup(c, items[i])
  BY <1>1, <1>2 DEF Series
<1> QED
  BY <1>3 DEF Lookup

\* What is fresh stays fresh while the informers and begun stand still.
LEMMA FreshUnchanged ==
    ASSUME UNCHANGED informerVars, NEW s, begun'[s] = begun[s]
    PROVE  \A o : Fresh(s, o)' <=> Fresh(s, o)
  BY DEF informerVars, Fresh, CachedSinceBegun

\* A step of another scraper leaves what is fresh for this one.
LEMMA FreshFrame ==
    ASSUME TypeInv, FreshInv, NEW s \in Scrapers, OnlyOwn(s), UNCHANGED informerVars
    PROVE  FiledByKey' /\ \A t \in Scrapers \ {s} : FreshScraper(t)'
<1>1. FiledByKey'
  BY DEF informerVars, FreshInv, FiledByKey
<1>2. ASSUME NEW t \in Scrapers \ {s} PROVE FreshScraper(t)'
  <2>1. /\ pc'[t] = pc[t] /\ anchors'[t] = anchors[t] /\ obj'[t] = obj[t] /\ cur'[t] = cur[t]
        /\ chain'[t] = chain[t] /\ pending'[t] = pending[t] /\ out'[t] = out[t]
        /\ begun'[t] = begun[t]
    BY DEF TypeInv, Shape, OnlyOwn
  <2>2. \A o : Fresh(t, o)' <=> Fresh(t, o)
    BY <2>1, FreshUnchanged
  <2>3. FreshScraper(t)
    BY DEF FreshInv
  <2> HIDE DEF Fresh
  <2> QED
    BY <2>1, <2>2, <2>3 DEF FreshScraper, informerVars
<1> QED
  BY <1>1, <1>2

\* A step of the scraper keeps what it holds fresh.
LEMMA FreshInvStep ==
    ASSUME TypeInv, FreshInv, NEW s \in Scrapers, CollectStep(s)
    PROVE  FreshInv'
<1>a. UNCHANGED informerVars
  BY DEF CollectStep, Proceed, Call, AcquireLock, BeginRule, ListNamespace, ListAnchors,
         ListNothing, TakeAnchor, WalkOwner, EndWalk, BeginEmit, EmitSeries, EndRule,
         IncCollect, ObserveCollectDuration, Unlock, Respond, informerVars
<1>b. Shape /\ ScraperInv(s) /\ FreshScraper(s) /\ OnlyOwn(s)
  BY StepIsOwn DEF TypeInv, FreshInv
<1>c. SUFFICES FreshScraper(s)'
  BY <1>a, <1>b, FreshFrame DEF FreshInv
<1>d. begun'[s] = begun[s] => \A o : Fresh(s, o)' <=> Fresh(s, o)
  BY <1>a, FreshUnchanged
<1>e. UNCHANGED <<versions, pos>>
  BY <1>a DEF informerVars
<1>1. CASE Call(s)
  <2>1. pc[s] = "idle" /\ pc'[s] = "waiting" /\ UNCHANGED <<anchors, obj, cur, chain, pending,
                                                          out, begun>>
    BY <1>b, <1>1 DEF Call, Shape, walkVars, seriesVars
  <2> QED
    BY <1>b, <1>d, <1>e, <2>1 DEF FreshScraper
<1>2. CASE AcquireLock(s)
  <2>1. /\ pc[s] = "waiting" /\ pc'[s] = "rules" /\ begun'[s] = pos
        /\ UNCHANGED <<anchors, obj, cur, chain, pending, out>>
    BY <1>b, <1>2 DEF AcquireLock, Shape, walkVars, seriesVars
  <2>2. /\ anchors[s] = {} /\ obj[s] = Absent /\ cur[s] = Absent /\ chain[s] = NoChain
        /\ pending[s] = <<>> /\ out[s] = <<>>
    BY <1>b, <2>1 DEF FreshScraper, ScraperInv, InRule, InCollect
  <2>3. Fresh(s, Absent)'
    BY DEF Fresh, CachedSinceBegun
  <2>4. \A source \in Sources : NoChain[source] = Absent
    BY DEF NoChain
  <2>5. \A inf \in Informers, k \in Keys : begun'[s][inf][k] <= pos'[inf][k]
    BY <1>e, <2>1 DEF TypeInv, InformersTypeOK
  <2> QED
    BY <2>1, <2>2, <2>3, <2>4, <2>5 DEF FreshScraper
<1>3. CASE BeginRule(s) \/ Unlock(s)
  <2>1. /\ pc[s] = "rules" /\ pc'[s] \in {"list", "collected"}
        /\ UNCHANGED <<anchors, obj, cur, chain, pending, out, begun>>
    BY <1>b, <1>3 DEF BeginRule, Unlock, Shape, walkVars, seriesVars
  <2> QED
    BY <1>b, <1>d, <1>e, <2>1 DEF FreshScraper
<1>4. CASE ListNamespace(s) \/ ListAnchors(s)
  <2> DEFINE inf == [resource |-> AnchorOf(rule[s]), ns |-> Places(s)[listed[s] + 1]]
  <2>1. /\ pc[s] = "list" /\ pc'[s] \in {"list", "anchors"} /\ anchors'[s] = ListedNext(s)
        /\ UNCHANGED <<obj, cur, chain, pending, out, begun>>
    BY <1>b, <1>4 DEF ListNamespace, ListAnchors, Shape, walkVars, seriesVars
  <2>2. inf \in Informers
    BY <2>1, ListedFrom
  <2>3. \A a \in ListedNext(s) : Fresh(s, a[2])
    <3>1. \A a \in anchors[s] : Fresh(s, a[2])
      BY <1>b DEF FreshScraper
    <3>2. \A a \in {listed[s] + 1} \X Cache(inf) : Fresh(s, a[2])
      BY <2>2, ListedIsFresh
    <3> QED
      BY <3>1, <3>2 DEF ListedNext
  <2> HIDE DEF inf
  <2> QED
    BY <1>b, <1>d, <1>e, <2>1, <2>3 DEF FreshScraper
<1>5. CASE ListNothing(s)
  <2>1. /\ pc[s] = "list" /\ pc'[s] = "counting" /\ ListedNext(s) = {}
        /\ UNCHANGED <<anchors, obj, cur, chain, pending, out, begun>>
    BY <1>b, <1>5 DEF ListNothing, Shape, walkVars, seriesVars
  <2>2. anchors[s] = {}
    BY <2>1 DEF ListedNext
  <2> QED
    BY <1>b, <1>d, <1>e, <2>1, <2>2 DEF FreshScraper
<1>6. CASE TakeAnchor(s)
  <2>1. PICK a \in anchors[s] :
           /\ anchors'[s] = anchors[s] \ {a}
           /\ obj'[s] = a[2] /\ cur'[s] = a[2]
           /\ chain'[s] = StartChain(a[2])
    BY <1>b, <1>6 DEF TakeAnchor, Shape
  <2>2. pc'[s] = "walk" /\ UNCHANGED <<pending, out, begun>>
    BY <1>b, <1>6 DEF TakeAnchor, Shape, seriesVars
  <2>3. Fresh(s, a[2])
    BY <1>b DEF FreshScraper
  <2>4. \A source \in Sources : Fresh(s, chain'[s][source])
    BY <2>1, <2>3, StartChainHolds, AbsentIsFresh
  <2> QED
    BY <1>b, <1>d, <1>e, <2>1, <2>2, <2>3, <2>4 DEF FreshScraper
<1>7. CASE WalkOwner(s)
  <2>1. /\ pc[s] = "walk" /\ pc'[s] = "walk" /\ cur'[s] = Parent(cur[s])
        /\ chain'[s] = ExtendChain(chain[s], depth[s], cur[s], Parent(cur[s]))
        /\ UNCHANGED <<anchors, obj, pending, out, begun>>
    BY <1>b, <1>7 DEF WalkOwner, Shape, seriesVars
  <2>2. Fresh(s, Parent(cur[s]))
    BY ParentIsFresh
  <2>3. \A source \in Sources : Fresh(s, chain'[s][source])
    <3>1. ASSUME NEW source \in Sources
          PROVE  chain'[s][source] \in {chain[s][source], Parent(cur[s])}
      BY <1>b, <2>1, ExtendChainHolds DEF ScraperInv
    <3> QED
      BY <1>b, <2>2, <3>1 DEF FreshScraper
  <2> QED
    BY <1>b, <1>d, <1>e, <2>1, <2>2, <2>3 DEF FreshScraper
<1>8. CASE EndWalk(s)
  <2> DEFINE new == SeriesOf(rule[s], obj[s], chain[s])
  <2>1. /\ pc[s] = "walk" /\ pending'[s] = pending[s] \o new
        /\ pc'[s] = IF anchors[s] = {} THEN "materialised" ELSE "anchors"
        /\ obj'[s] = Absent /\ cur'[s] = Absent /\ chain'[s] = NoChain
        /\ UNCHANGED <<anchors, out, begun>>
    BY <1>b, <1>8 DEF EndWalk, Shape
  <2>2. /\ pending[s] \in Seq(SeriesOfRule(rule[s])) /\ new \in Seq(SeriesOfRule(rule[s]))
        /\ Len(EvaluateForEach(Rules[rule[s]], obj[s], Absent)) \in Nat
    BY <1>b, <2>1, SeriesOfType, ItemsAssumption, LenProperties DEF ScraperInv, EvaluateForEach
  <2>3. ASSUME NEW i \in 1..Len(new), NEW source \in Sources \ {"item"}
        PROVE  Fresh(s, new[i].from[source])
    <3>1. new[i].from[source] = chain[s][source]
      BY <2>2, SeriesOfHolds
    <3> QED
      BY <1>b, <3>1 DEF FreshScraper
  <2>4. ASSUME NEW i \in 1..Len(pending'[s]), NEW source \in Sources \ {"item"}
        PROVE  Fresh(s, pending'[s][i].from[source])
    <3> HIDE DEF new
    <3>1. /\ Len(pending'[s]) = Len(pending[s]) + Len(new)
          /\ Len(pending[s]) \in Nat /\ Len(new) \in Nat
          /\ pending'[s][i] = IF i <= Len(pending[s]) THEN pending[s][i]
                              ELSE new[i - Len(pending[s])]
      BY <2>1, <2>2, ConcatProperties, LenProperties
    <3>2. CASE i <= Len(pending[s])
      BY <1>b, <3>1, <3>2 DEF FreshScraper
    <3>3. CASE ~(i <= Len(pending[s]))
      <4>1. i - Len(pending[s]) \in 1..Len(new)
        BY <3>1, <3>3
      <4> QED
        BY <2>3, <3>1, <3>3, <4>1
    <3> QED
      BY <3>2, <3>3
  <2>5. \A source \in Sources : chain'[s][source] = Absent
    BY <2>1 DEF NoChain
  <2> HIDE DEF new
  <2> QED
    BY <1>b, <1>d, <1>e, <2>1, <2>4, <2>5, AbsentIsFresh DEF FreshScraper
<1>9. CASE BeginEmit(s) \/ EndRule(s) \/ IncCollect(s) \/ ObserveCollectDuration(s)
  <2>1. /\ pc[s] \in {"materialised", "emit", "counting", "observing"}
        /\ pc'[s] \in {"emit", "counting", "observing", "rules"}
        /\ UNCHANGED <<anchors, obj, cur, chain, pending, out, begun>>
    BY <1>b, <1>9
       DEF BeginEmit, EndRule, IncCollect, ObserveCollectDuration, Shape, walkVars, seriesVars
  <2> QED
    BY <1>b, <1>d, <1>e, <2>1 DEF FreshScraper
<1>10. CASE EmitSeries(s)
  <2> DEFINE x == Head(pending[s])
             m == Metric(rule[s], FillValues(values[s], x), x.from)
  <2>1. /\ pc[s] = "emit" /\ pending[s] # <<>> /\ pending'[s] = Tail(pending[s])
        /\ out'[s] = out[s] \/ out'[s] = Append(out[s], m)
        /\ UNCHANGED <<pc, anchors, obj, cur, chain, begun>>
    BY <1>b, <1>10 DEF EmitSeries, Shape, walkVars
  <2>2. pending[s] \in Seq(SeriesOfRule(rule[s])) /\ Len(pending[s]) \in Nat
        /\ x = pending[s][1] /\ 1 \in 1..Len(pending[s])
    BY <1>b, <2>1, EmptySeq, LenProperties DEF ScraperInv
  <2>3. ASSUME NEW i \in 1..Len(pending'[s]), NEW source \in Sources \ {"item"}
        PROVE  Fresh(s, pending'[s][i].from[source])
    <3>1. i + 1 \in 1..Len(pending[s]) /\ pending'[s][i] = pending[s][i + 1]
      BY <2>1, <2>2, HeadTailProperties
    <3> QED
      BY <1>b, <3>1 DEF FreshScraper
  <2>4. ASSUME NEW source \in Sources \ {"item"} PROVE Fresh(s, m.from[source])
    BY <1>b, <2>2 DEF FreshScraper, Metric
  <2> HIDE DEF m, x
  <2>5. ASSUME NEW i \in 1..Len(out'[s]), NEW source \in Sources \ {"item"}
        PROVE  Fresh(s, out'[s][i].from[source])
    <3>1. PICK S : out[s] \in Seq(S)
      BY <1>b DEF ScraperInv
    <3>2. out[s] \in Seq(S \cup {m}) /\ Len(out[s]) \in Nat
      BY <3>1, SeqMonotonic, LenProperties
    <3>3. CASE i \in 1..Len(out[s])
      <4>1. out'[s][i] = out[s][i]
        BY <2>1, <3>2, <3>3, AppendProperties
      <4> QED
        BY <1>b, <3>3, <4>1 DEF FreshScraper
    <3>4. CASE i \notin 1..Len(out[s])
      <4>1. out'[s] = Append(out[s], m)
        BY <2>1, <3>4
      <4>2. /\ Len(out'[s]) = Len(out[s]) + 1
            /\ out'[s][Len(out[s]) + 1] = m
        BY <3>2, <4>1, AppendProperties
      <4>3. i = Len(out[s]) + 1
        BY <3>2, <3>4, <4>2
      <4> QED
        BY <2>4, <4>2, <4>3
    <3> QED
      BY <3>3, <3>4
  <2> QED
    BY <1>b, <1>d, <1>e, <2>1, <2>3, <2>5 DEF FreshScraper
<1>11. CASE Respond(s)
  <2>1. /\ pc[s] = "collected" /\ pc'[s] = "idle" /\ out'[s] = <<>>
        /\ begun'[s] = [inf \in Informers |-> [k \in Keys |-> 0]]
        /\ UNCHANGED <<anchors, obj, cur, chain, pending>>
    BY <1>b, <1>11 DEF Respond, Shape, walkVars, seriesVars
  <2>2. /\ anchors[s] = {} /\ obj[s] = Absent /\ cur[s] = Absent /\ chain[s] = NoChain
        /\ pending[s] = <<>>
    BY <1>b, <2>1 DEF FreshScraper, ScraperInv, InRule, InCollect
  <2>3. Fresh(s, Absent)'
    BY DEF Fresh, CachedSinceBegun
  <2>4. \A source \in Sources : NoChain[source] = Absent
    BY DEF NoChain
  <2>5. \A inf \in Informers, k \in Keys : begun'[s][inf][k] <= pos'[inf][k]
    BY <1>e, <2>1 DEF TypeInv, InformersTypeOK
  <2> QED
    BY <2>1, <2>2, <2>3, <2>4, <2>5 DEF FreshScraper
<1> QED
  BY <1>1, <1>2, <1>3, <1>4, <1>5, <1>6, <1>7, <1>8, <1>9, <1>10, <1>11
     DEF CollectStep, Proceed

\* Every step keeps everything that a scraper holds fresh.
LEMMA FreshInvNext == TypeInv /\ FreshInv /\ [Next]_vars => FreshInv'
<1> SUFFICES ASSUME TypeInv, FreshInv, [Next]_vars PROVE FreshInv'
  OBVIOUS
<1>1. CASE UNCHANGED vars
  <2>1. FiledByKey'
    BY <1>1 DEF vars, FreshInv, FiledByKey
  <2>2. ASSUME NEW s \in Scrapers PROVE FreshScraper(s)'
    <3>1. \A o : Fresh(s, o)' = Fresh(s, o)
      BY <1>1 DEF vars, Fresh, CachedSinceBegun
    <3>2. FreshScraper(s)
      BY DEF FreshInv
    <3> QED
      BY <1>1, <3>1, <3>2 DEF vars, walkVars, seriesVars, FreshScraper
  <2> QED
    BY <2>1, <2>2 DEF FreshInv
<1>2. CASE Environment
  BY <1>2, FreshInvEnvironment
<1>3. ASSUME NEW s \in Scrapers, CollectStep(s) PROVE FreshInv'
  BY <1>3, FreshInvStep
<1> QED
  BY <1>1, <1>2, <1>3 DEF Next, CollectStep

(***************************************************************************)
(* Every scrape is rebuilt from the informer caches: whatever a Collect    *)
(* holds, has evaluated or has sent was in some cache after the scrape     *)
(* acquired scrapeMu.  Nothing survives from an earlier scrape.            *)
(***************************************************************************)
THEOREM EveryScrapeIsFresh == Spec => []NothingOlderThanTheScrape
<1>1. Spec => [](TypeInv /\ FreshInv)
  BY TypeInvInit, TypeInvNext, FreshInvInit, FreshInvNext, PTL DEF Spec
<1> QED
  BY <1>1, FreshInvImpliesNothingOlder, PTL
=============================================================================
