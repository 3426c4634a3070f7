---------------------------- MODULE SeriesProofs ----------------------------
(***************************************************************************)
(* What a scrape sends, for every instance of Collector: the label names   *)
(* and values of its series, and, when no cache changes meanwhile, which   *)
(* series.                                                                 *)
(***************************************************************************)
EXTENDS CollectorProofs

(***************************************************************************)
(* One label set, own values.  The property is not inductive: that the     *)
(* next series will fit depends on the keys collected while the rule was   *)
(* materialised, on the buffer that BeginEmit has made for them, and on no *)
(* series of the present rule having been sent before.                     *)
(***************************************************************************)
OwnOf(m) == EvaluateOneSeries(Rules[m.rule], m.from, Absent)

OwnValue(own, label) ==
    CASE label \in DOMAIN own.fixed   -> own.fixed[label]
      [] label \in DOMAIN own.dynamic -> own.dynamic[label]
      [] OTHER                        -> Empty

HasOwnValues(m) ==
    /\ DOMAIN OwnOf(m).fixed \cup DOMAIN OwnOf(m).dynamic \subseteq DOMAIN m.labels
    /\ \A label \in DOMAIN m.labels : m.labels[label] = OwnValue(OwnOf(m), label)

FixedLabels(r) == DOMAIN Rules[r].labels

SeriesScraper(s) ==
    /\ \A i \in 1..Len(out[s]) : HasOwnValues(out[s][i])
    /\ \A i, j \in 1..Len(out[s]) :
          out[s][i].rule = out[s][j].rule => DOMAIN out[s][i].labels = DOMAIN out[s][j].labels
    /\ InCollect(s) => \A i \in 1..Len(out[s]) : out[s][i].rule <= rule[s]
    /\ pc[s] \in {"list", "anchors", "walk", "materialised"} =>
          \A i \in 1..Len(out[s]) : out[s][i].rule # rule[s]
    /\ pc[s] = "emit" =>
          /\ DOMAIN values[s].dynamic = keys[s]
          /\ \A i \in 1..Len(out[s]) :
                out[s][i].rule = rule[s] =>
                    DOMAIN out[s][i].labels = FixedLabels(rule[s]) \cup keys[s]
    /\ \A i \in 1..Len(pending[s]) : DOMAIN pending[s][i].dynamic \subseteq keys[s]

SeriesInv == \A s \in Scrapers : SeriesScraper(s)

\* The inductive invariant contains the checked one.
LEMMA SeriesInvImpliesOneLabelSet == SeriesInv => OneLabelSetOwnValues
<1> SUFFICES ASSUME SeriesInv, NEW s \in Scrapers, NEW i \in 1..Len(out[s])
             PROVE  LET m   == out[s][i]
                        own == EvaluateOneSeries(Rules[m.rule], m.from, Absent)
                    IN  /\ \A j \in 1..Len(out[s]) :
                              out[s][j].rule = m.rule => DOMAIN out[s][j].labels = DOMAIN m.labels
                        /\ DOMAIN own.fixed \cup DOMAIN own.dynamic \subseteq DOMAIN m.labels
                        /\ \A label \in DOMAIN m.labels :
                              m.labels[label] =
                                  CASE label \in DOMAIN own.fixed   -> own.fixed[label]
                                    [] label \in DOMAIN own.dynamic -> own.dynamic[label]
                                    [] OTHER                        -> Empty
  BY DEF OneLabelSetOwnValues
<1>1. HasOwnValues(out[s][i])
  BY DEF SeriesInv, SeriesScraper
<1>2. \A j \in 1..Len(out[s]) :
         out[s][j].rule = out[s][i].rule => DOMAIN out[s][j].labels = DOMAIN out[s][i].labels
  BY DEF SeriesInv, SeriesScraper
<1> QED
  BY <1>1, <1>2 DEF HasOwnValues, OwnOf, OwnValue

\* Initially nothing is pending or sent.
LEMMA SeriesInvInit == Init => SeriesInv
  BY DEF Init, SeriesInv, SeriesScraper, InCollect

\* A series of an accepted Desc is sent with all labels of the Desc and its own values.
LEMMA EmittedOwn ==
    ASSUME NEW r, NEW x \in SeriesOfRule(r), NEW buffer,
           DOMAIN x.dynamic \subseteq DOMAIN buffer.dynamic,
           DescValid(r, DOMAIN buffer.dynamic)
    PROVE  LET m == Metric(r, FillValues(buffer, x), x.from)
           IN  /\ m.rule = r
               /\ DOMAIN m.labels = FixedLabels(r) \cup DOMAIN buffer.dynamic
               /\ HasOwnValues(m)
<1> DEFINE own    == EvaluateOneSeries(Rules[r], x.from, Absent)
           filled == FillValues(buffer, x)
           m      == Metric(r, filled, x.from)
<1>1. x.fixed = own.fixed /\ x.dynamic = own.dynamic
  BY SeriesFrom DEF Series
<1>2. DOMAIN own.fixed = FixedLabels(r)
  BY DEF EvaluateOneSeries, FixedLabels
<1>3. /\ filled.fixed = own.fixed
      /\ DOMAIN filled.dynamic = DOMAIN buffer.dynamic
      /\ \A label \in DOMAIN buffer.dynamic :
            filled.dynamic[label] =
                IF label \in DOMAIN own.dynamic THEN own.dynamic[label] ELSE Empty
  BY <1>1 DEF FillValues
<1>4. m.rule = r /\ m.from = x.from
  BY DEF Metric
<1>5. OwnOf(m) = own
  BY <1>4 DEF OwnOf
<1> HIDE DEF own, filled
<1>6. /\ DOMAIN m.labels = FixedLabels(r) \cup DOMAIN buffer.dynamic
      /\ \A label \in DOMAIN m.labels :
            m.labels[label] = IF label \in FixedLabels(r) THEN own.fixed[label]
                              ELSE IF label \in DOMAIN own.dynamic THEN own.dynamic[label]
                              ELSE Empty
  BY <1>2, <1>3 DEF Metric
<1>7. DOMAIN own.dynamic \subseteq DOMAIN buffer.dynamic
  BY <1>1
<1>8. FixedLabels(r) \cap DOMAIN own.dynamic = {}
  BY <1>7 DEF DescValid, FixedLabels
<1> HIDE DEF m
<1>9. ASSUME NEW label \in DOMAIN m.labels PROVE m.labels[label] = OwnValue(own, label)
  BY <1>2, <1>6, <1>8 DEF OwnValue
<1>10. HasOwnValues(m)
  BY <1>2, <1>5, <1>6, <1>7, <1>9 DEF HasOwnValues
<1> QED
  BY <1>4, <1>6, <1>10 DEF m, filled

\* The series of another scraper are left as they were.
LEMMA SeriesFrame ==
    ASSUME TypeInv, SeriesInv, NEW s \in Scrapers, OnlyOwn(s)
    PROVE  \A t \in Scrapers \ {s} : SeriesScraper(t)'
<1> SUFFICES ASSUME NEW t \in Scrapers \ {s} PROVE SeriesScraper(t)'
  OBVIOUS
<1>1. /\ pc'[t] = pc[t] /\ rule'[t] = rule[t] /\ pending'[t] = pending[t]
      /\ keys'[t] = keys[t] /\ values'[t] = values[t] /\ out'[t] = out[t]
  BY DEF TypeInv, Shape, OnlyOwn
<1>2. SeriesScraper(t)
  BY DEF SeriesInv
<1> HIDE DEF HasOwnValues
<1> QED
  BY <1>1, <1>2 DEF SeriesScraper, InCollect

\* What materialiseSeries adds to the pending series it adds to the keys.
LEMMA KeysAfterWalking ==
    ASSUME TypeInv, NEW s \in Scrapers, SeriesScraper(s), EndWalk(s)
    PROVE  \A i \in 1..Len(pending'[s]) : DOMAIN pending'[s][i].dynamic \subseteq keys'[s]
<1> DEFINE new == SeriesOf(rule[s], obj[s], chain[s])
<1>1. Shape /\ ScraperInv(s)
  BY DEF TypeInv
<1>2. /\ pc[s] = "walk" /\ pending'[s] = pending[s] \o new
      /\ keys'[s] = UnionKeys(keys[s], new)
  BY <1>1 DEF EndWalk, Shape
<1>3. pending[s] \in Seq(SeriesOfRule(rule[s])) /\ new \in Seq(SeriesOfRule(rule[s]))
  BY <1>1, <1>2, SeriesOfType DEF ScraperInv
<1> HIDE DEF new
<1>4. \A i \in 1..Len(new) : DOMAIN new[i].dynamic \subseteq keys'[s]
  BY <1>2 DEF UnionKeys
<1>5. \A i \in 1..Len(pending[s]) : DOMAIN pending[s][i].dynamic \subseteq keys'[s]
  BY <1>2 DEF SeriesScraper, UnionKeys
<1>6. /\ Len(pending'[s]) = Len(pending[s]) + Len(new)
      /\ Len(pending[s]) \in Nat /\ Len(new) \in Nat
      /\ \A i \in 1..Len(pending'[s]) :
            pending'[s][i] = IF i <= Len(pending[s]) THEN pending[s][i]
                             ELSE new[i - Len(pending[s])]
  BY <1>2, <1>3, ConcatProperties, LenProperties
<1> SUFFICES ASSUME NEW i \in 1..Len(pending'[s])
             PROVE  DOMAIN pending'[s][i].dynamic \subseteq keys'[s]
  OBVIOUS
<1>7. CASE i <= Len(pending[s])
  <2>1. i \in 1..Len(pending[s])
    BY <1>6, <1>7
  <2>2. pending'[s][i] = pending[s][i]
    BY <1>6, <1>7
  <2> QED
    BY <1>5, <2>1, <2>2
<1>8. CASE ~(i <= Len(pending[s]))
  <2>1. i - Len(pending[s]) \in 1..Len(new)
    BY <1>6, <1>8
  <2>2. pending'[s][i] = new[i - Len(pending[s])]
    BY <1>6, <1>8
  <2> QED
    BY <1>4, <2>1, <2>2
<1> QED
  BY <1>7, <1>8

\* A step of the scraper keeps its series sound.
LEMMA SeriesInvStep ==
    ASSUME TypeInv, FreshInv, SeriesInv, NEW s \in Scrapers, CollectStep(s)
    PROVE  SeriesInv'
<1>a. Shape /\ ScraperInv(s) /\ FreshScraper(s) /\ SeriesScraper(s) /\ OnlyOwn(s)
  BY StepIsOwn DEF TypeInv, FreshInv, SeriesInv
<1>b. SUFFICES SeriesScraper(s)'
  BY <1>a, SeriesFrame DEF SeriesInv
<1>c. /\ rule[s] \in Nat /\ Len(out[s]) \in Nat /\ Len(pending[s]) \in Nat
      /\ \A i \in 1..Len(out[s]) : out[s][i].rule \in Nat
  <2>1. PICK S : /\ out[s] \in Seq(S)
                 /\ \A m \in S : m.rule \in RuleIndex /\ m.from \in Inputs
    BY <1>a DEF ScraperInv
  <2>2. \A i \in 1..Len(out[s]) : out[s][i] \in S
    BY <2>1, ElementOfSeq
  <2>3. rule[s] \in Nat /\ Len(out[s]) \in Nat /\ Len(pending[s]) \in Nat
    BY <1>a, <2>1, LenProperties, RulesAssumption DEF ScraperInv
  <2> QED
    BY <2>1, <2>2, <2>3, RulesAssumption DEF RuleIndex
<1> HIDE DEF HasOwnValues
<1>1. CASE Call(s) \/ AcquireLock(s)
  <2>1. /\ pc[s] \in {"idle", "waiting"} /\ pc'[s] \in {"waiting", "rules"}
        /\ UNCHANGED <<rule, pending, keys, values, out>>
    BY <1>a, <1>1 DEF Call, AcquireLock, Shape, walkVars, seriesVars
  <2>2. out[s] = <<>>
    BY <1>a, <2>1 DEF FreshScraper
  <2> QED
    BY <1>a, <2>1, <2>2 DEF SeriesScraper
<1>2. CASE BeginRule(s)
  <2>1. /\ pc[s] = "rules" /\ pc'[s] = "list" /\ rule'[s] = rule[s] + 1
        /\ UNCHANGED <<pending, keys, values, out>>
    BY <1>a, <1>2 DEF BeginRule, Shape, walkVars, seriesVars
  <2>2. \A i \in 1..Len(out[s]) : out[s][i].rule <= rule[s]
    BY <1>a, <2>1 DEF SeriesScraper, InCollect
  <2>3. \A i \in 1..Len(out[s]) : out[s][i].rule <= rule'[s] /\ out[s][i].rule # rule'[s]
    BY <1>c, <2>1, <2>2
  <2> QED
    BY <1>a, <2>1, <2>3 DEF SeriesScraper
<1>3. CASE ListNamespace(s) \/ ListAnchors(s) \/ TakeAnchor(s) \/ WalkOwner(s)
  <2>1. /\ pc[s] \in {"list", "anchors", "walk"} /\ pc'[s] \in {"list", "anchors", "walk"}
        /\ UNCHANGED <<rule, pending, keys, values, out>>
    BY <1>a, <1>3
       DEF ListNamespace, ListAnchors, TakeAnchor, WalkOwner, Shape, walkVars, seriesVars
  <2> QED
    BY <1>a, <2>1 DEF SeriesScraper, InCollect
<1>4. CASE ListNothing(s) \/ EndRule(s) \/ IncCollect(s) \/ ObserveCollectDuration(s)
  <2>1. /\ pc[s] \in {"list", "emit", "counting", "observing"}
        /\ pc'[s] \in {"counting", "observing", "rules"} /\ pending[s] = <<>>
        /\ UNCHANGED <<rule, pending, out>>
    BY <1>a, <1>4
       DEF ListNothing, EndRule, IncCollect, ObserveCollectDuration, Shape, ScraperInv,
           walkVars, seriesVars
  <2> QED
    BY <1>a, <2>1 DEF SeriesScraper, InCollect
<1>5. CASE EndWalk(s)
  <2>1. /\ pc[s] = "walk" /\ pc'[s] \in {"anchors", "materialised"}
        /\ UNCHANGED <<rule, values, out>>
    BY <1>a, <1>5 DEF EndWalk, Shape
  <2>2. \A i \in 1..Len(pending'[s]) : DOMAIN pending'[s][i].dynamic \subseteq keys'[s]
    BY <1>a, <1>5, KeysAfterWalking
  <2> QED
    BY <1>a, <2>1, <2>2 DEF SeriesScraper, InCollect
<1>6. CASE BeginEmit(s)
  <2>1. /\ pc[s] = "materialised" /\ pc'[s] = "emit"
        /\ UNCHANGED <<rule, pending, keys, out>>
    BY <1>a, <1>6 DEF BeginEmit, Shape, walkVars
  <2>2. DOMAIN values'[s].dynamic = keys[s]
    BY <1>a, <1>6 DEF BeginEmit, Shape
  <2> QED
    BY <1>a, <2>1, <2>2 DEF SeriesScraper, InCollect
<1>7. CASE EmitSeries(s)
  <2> DEFINE x == Head(pending[s])
             m == Metric(rule[s], FillValues(values[s], x), x.from)
  <2>1. /\ pc[s] = "emit" /\ pending[s] # <<>> /\ pending'[s] = Tail(pending[s])
        /\ values'[s] = FillValues(values[s], x)
        /\ out'[s] = IF DescValid(rule[s], keys[s]) THEN Append(out[s], m) ELSE out[s]
        /\ UNCHANGED <<pc, rule, keys>>
    BY <1>a, <1>7 DEF EmitSeries, Shape, walkVars
  <2>2. /\ pending[s] \in Seq(SeriesOfRule(rule[s]))
        /\ x = pending[s][1] /\ 1 \in 1..Len(pending[s])
    BY <1>a, <2>1, EmptySeq, LenProperties DEF ScraperInv
  <2>3. x \in SeriesOfRule(rule[s])
    BY <2>2, ElementOfSeq
  <2>4. DOMAIN x.dynamic \subseteq keys[s] /\ DOMAIN values[s].dynamic = keys[s]
    BY <1>a, <2>1, <2>2 DEF SeriesScraper
  <2>5. DOMAIN values'[s].dynamic = keys'[s]
    BY <2>1, <2>4 DEF FillValues
  <2>6. \A i \in 1..Len(pending'[s]) : DOMAIN pending'[s][i].dynamic \subseteq keys'[s]
    <3>1. ASSUME NEW i \in 1..Len(pending'[s])
          PROVE  i + 1 \in 1..Len(pending[s]) /\ pending'[s][i] = pending[s][i + 1]
      BY <2>1, <2>2, HeadTailProperties
    <3> QED
      BY <1>a, <2>1, <3>1 DEF SeriesScraper
  <2>7. CASE ~DescValid(rule[s], keys[s])
    <3>1. out'[s] = out[s]
      BY <2>1, <2>7
    <3> QED
      BY <1>a, <2>1, <2>5, <2>6, <3>1 DEF SeriesScraper, InCollect
  <2>8. CASE DescValid(rule[s], keys[s])
    <3>1. /\ m.rule = rule[s] /\ DOMAIN m.labels = FixedLabels(rule[s]) \cup keys[s]
          /\ HasOwnValues(m)
      BY <2>3, <2>4, <2>8, EmittedOwn
    <3> HIDE DEF m, x
    <3>2. /\ Len(out'[s]) = Len(out[s]) + 1
          /\ \A i \in 1..Len(out[s]) : out'[s][i] = out[s][i]
          /\ out'[s][Len(out[s]) + 1] = m
      <4>1. PICK S : out[s] \in Seq(S)
        BY <1>a DEF ScraperInv
      <4>2. out[s] \in Seq(S \cup {m})
        BY <4>1, SeqMonotonic
      <4> QED
        BY <2>1, <2>8, <4>2, AppendProperties
    <3>3. \A i \in 1..Len(out'[s]) : i \in 1..Len(out[s]) \/ i = Len(out[s]) + 1
      BY <1>c, <3>2
    <3>4. \A i \in 1..Len(out'[s]) :
             out'[s][i].rule = rule[s] =>
                 DOMAIN out'[s][i].labels = FixedLabels(rule[s]) \cup keys[s]
      BY <1>a, <2>1, <3>1, <3>2, <3>3 DEF SeriesScraper
    <3>5. \A i, j \in 1..Len(out'[s]) :
             out'[s][i].rule = out'[s][j].rule =>
                 DOMAIN out'[s][i].labels = DOMAIN out'[s][j].labels
      <4>1. SUFFICES ASSUME NEW i \in 1..Len(out'[s]), NEW j \in 1..Len(out'[s]),
                            out'[s][i].rule = out'[s][j].rule
                     PROVE  DOMAIN out'[s][i].labels = DOMAIN out'[s][j].labels
        OBVIOUS
      <4>2. CASE i \in 1..Len(out[s]) /\ j \in 1..Len(out[s])
        BY <1>a, <3>2, <4>1, <4>2 DEF SeriesScraper
      <4>3. CASE i = Len(out[s]) + 1 \/ j = Len(out[s]) + 1
        BY <3>1, <3>2, <3>4, <4>1, <4>3
      <4> QED
        BY <3>3, <4>2, <4>3
    <3>6. \A i \in 1..Len(out'[s]) : HasOwnValues(out'[s][i]) /\ out'[s][i].rule <= rule[s]
      BY <1>a, <1>c, <2>1, <3>1, <3>2, <3>3 DEF SeriesScraper, InCollect
    <3> QED
      BY <2>1, <2>5, <2>6, <3>4, <3>5, <3>6 DEF SeriesScraper
  <2> QED
    BY <2>7, <2>8
<1>8. CASE Unlock(s)
  <2>1. /\ pc'[s] = "collected" /\ UNCHANGED <<pending, keys, values, out>>
    BY <1>a, <1>8 DEF Unlock, Shape, walkVars, seriesVars
  <2> QED
    BY <1>a, <2>1 DEF SeriesScraper, InCollect
<1>9. CASE Respond(s)
  <2>1. /\ pc'[s] = "idle" /\ out'[s] = <<>> /\ UNCHANGED <<pending, keys, values>>
    BY <1>a, <1>9 DEF Respond, Shape, walkVars, seriesVars
  <2> QED
    BY <1>a, <2>1 DEF SeriesScraper, InCollect
<1> QED
  BY <1>1, <1>2, <1>3, <1>4, <1>5, <1>6, <1>7, <1>8, <1>9 DEF CollectStep, Proceed

\* Every step keeps the series sound.
LEMMA SeriesInvNext == TypeInv /\ FreshInv /\ SeriesInv /\ [Next]_vars => SeriesInv'
<1> SUFFICES ASSUME TypeInv, FreshInv, SeriesInv, [Next]_vars PROVE SeriesInv'
  OBVIOUS
<1>1. CASE Environment \/ UNCHANGED vars
  <2>1. UNCHANGED <<pc, rule, pending, keys, values, out>>
    BY <1>1 DEF Environment, CollectVars, vars, seriesVars
  <2> HIDE DEF HasOwnValues
  <2> QED
    BY <2>1 DEF SeriesInv, SeriesScraper, InCollect
<1>2. ASSUME NEW s \in Scrapers, CollectStep(s) PROVE SeriesInv'
  BY <1>2, SeriesInvStep
<1> QED
  BY <1>1, <1>2 DEF Next, CollectStep

(***************************************************************************)
(* All series of one metric in one scrape have one label name set that     *)
(* covers the dynamic labels of each, and each value is the series' own:   *)
(* nothing leaks through the shared values buffer (emitSeries), whatever   *)
(* the rules, the maps they expand and the order of the anchors.           *)
(***************************************************************************)
THEOREM LabelSetsAreSound == Spec => []OneLabelSetOwnValues
<1>1. Spec => [](TypeInv /\ FreshInv)
  BY TypeInvInit, TypeInvNext, FreshInvInit, FreshInvNext, PTL DEF Spec
<1>2. Spec => []SeriesInv
  BY <1>1, SeriesInvInit, SeriesInvNext, PTL DEF Spec
<1> QED
  BY <1>2, SeriesInvImpliesOneLabelSet, PTL

-----------------------------------------------------------------------------
(***************************************************************************)
(* A series depends on its objects only through the sources of its rule,   *)
(* which validateSource has checked.                                       *)
(***************************************************************************)

\* The first hit is a hit.
LEMMA MinIsIn ==
    ASSUME NEW S \in SUBSET Nat, S # {}
    PROVE  Min(S) \in S
<1>1. PICK m \in S : \A k \in S : ~(k < m)
  BY LeastNumber
<1>2. \A k \in S : m <= k
  BY <1>1
<1> QED
  BY <1>2 DEF Min

\* The last entry that gives a label is one that gives it.
LEMMA MaxIsIn ==
    ASSUME NEW n \in Nat, NEW S \in SUBSET (1..n), S # {}
    PROVE  Max(S) \in S
<1> DEFINE T == {m \in Nat : n - m \in S}
<1>1. T \in SUBSET Nat /\ T # {}
  <2>1. PICK x \in S : TRUE
    OBVIOUS
  <2>2. n - x \in Nat /\ n - (n - x) = x
    BY <2>1
  <2>3. n - x \in T
    BY <2>2
  <2> QED
    BY <2>3
<1>2. PICK m \in T : \A k \in T : ~(k < m)
  <2> HIDE DEF T
  <2> QED
    BY <1>1, LeastNumber
<1>3. n - m \in S /\ m \in Nat
  BY <1>2
<1>4. ASSUME NEW x \in S PROVE n - m >= x
  <2>1. x \in 1..n /\ n - x \in Nat /\ n - (n - x) = x
    OBVIOUS
  <2>2. n - x \in T
    BY <2>1
  <2>3. ~(n - x < m)
    BY <1>2, <2>2
  <2> QED
    BY <1>3, <2>1, <2>3
<1> QED
  BY <1>3, <1>4 DEF Max

SameSeries(x, y) == x.fixed = y.fixed /\ x.dynamic = y.dynamic

\* Two inputs with the same objects at all legal sources give the same labels.
LEMMA SameInputSameSeries ==
    ASSUME NEW r \in RuleIndex, NEW a, NEW b,
           \A source \in LegalSources : a[source] = b[source]
    PROVE  SameSeries(Series(r, a), Series(r, b))
<1> DEFINE rl == Rules[r]
           A  == EvaluateOneSeries(rl, a, Absent)
           B  == EvaluateOneSeries(rl, b, Absent)
<1>1. ASSUME NEW label \in DOMAIN rl.labels
      PROVE  EvaluateLabel(rl.labels[label], a, Absent) = EvaluateLabel(rl.labels[label], b, Absent)
  <2> DEFINE extracts == rl.labels[label].extracts
             hits(x) == {i \in 1..Len(extracts) : TryExtract(extracts[i], x, Absent) # Empty}
  <2>1. ASSUME NEW i \in 1..Len(extracts)
        PROVE  TryExtract(extracts[i], a, Absent) = TryExtract(extracts[i], b, Absent)
    BY SourcesAssumption DEF HasLegalSources, TryExtract
  <2>2. hits(a) = hits(b)
    BY <2>1
  <2>3. hits(a) # {} => Min(hits(a)) \in 1..Len(extracts)
    <3>1. hits(a) \in SUBSET Nat /\ hits(a) \subseteq 1..Len(extracts)
      BY SourcesAssumption DEF HasLegalSources
    <3> HIDE DEF hits
    <3> QED
      BY <3>1, MinIsIn
  <2>4. \A x : EvaluateLabel(rl.labels[label], x, Absent) =
                  IF hits(x) = {} THEN rl.labels[label].onMissing
                  ELSE TryExtract(extracts[Min(hits(x))], x, Absent)
    BY DEF EvaluateLabel
  <2> HIDE DEF hits, extracts
  <2> QED
    BY <2>1, <2>2, <2>3, <2>4
<1>2. A.fixed = B.fixed
  BY <1>1 DEF EvaluateOneSeries
<1> DEFINE part(x, i) == EvaluateExpand(rl.expands[i], x, Absent)
           giving(x, label) == {i \in 1..Len(rl.expands) : label \in DOMAIN part(x, i)}
           all(x) == UNION {DOMAIN part(x, i) : i \in 1..Len(rl.expands)}
<1>3. ASSUME NEW i \in 1..Len(rl.expands) PROVE part(a, i) = part(b, i)
  BY SourcesAssumption, ZenonT(40) DEF HasLegalSources, EvaluateExpand
<1>4. all(a) = all(b)
  <2> HIDE DEF part
  <2> QED
    BY <1>3
<1>5. \A label : giving(a, label) = giving(b, label)
  <2> HIDE DEF part
  <2> QED
    BY <1>3
<1>6. ASSUME NEW label \in all(a)
      PROVE  Max(giving(a, label)) \in 1..Len(rl.expands)
  <2>1. giving(a, label) \in SUBSET (1..Len(rl.expands)) /\ giving(a, label) # {}
    BY <1>6
  <2>2. Len(rl.expands) \in Nat
    BY SourcesAssumption DEF HasLegalSources
  <2> HIDE DEF giving, all
  <2> QED
    BY <2>1, <2>2, MaxIsIn
<1>7. \A x : EvaluateOneSeries(rl, x, Absent).dynamic =
                [label \in all(x) |-> part(x, Max(giving(x, label)))[label]]
  BY DEF EvaluateOneSeries
<1> HIDE DEF part, giving, all
<1>8. \A label \in all(a) :
         part(a, Max(giving(a, label)))[label] = part(b, Max(giving(b, label)))[label]
  BY <1>3, <1>5, <1>6
<1>9. A.dynamic = [label \in all(a) |-> part(a, Max(giving(a, label)))[label]]
  BY <1>7
<1>10. B.dynamic = [label \in all(b) |-> part(b, Max(giving(b, label)))[label]]
  BY <1>7
<1> HIDE DEF A, B
<1>11. A.dynamic = B.dynamic
  BY <1>4, <1>8, <1>9, <1>10
<1> QED
  BY <1>2, <1>11 DEF SameSeries, Series, A, B

\* So two chains that agree on the sources give an anchor the same series.
LEMMA SameChainSameSeries ==
    ASSUME NEW r \in RuleIndex, NEW o, NEW c, NEW d,
           \A source \in ChainSources : c[source] = d[source],
           NEW n \in 1..Len(EvaluateForEach(Rules[r], o, Absent))
    PROVE  SameSeries(SeriesOf(r, o, c)[n], SeriesOf(r, o, d)[n])
<1> DEFINE item == EvaluateForEach(Rules[r], o, Absent)[n]
<1>1. /\ SeriesOf(r, o, c)[n] = Series(r, Lookup(c, item))
      /\ SeriesOf(r, o, d)[n] = Series(r, Lookup(d, item))
  BY DEF SeriesOf
<1> HIDE DEF item
<1>2. \A source \in LegalSources : source \in Sources \cup {"item"}
  BY DEF LegalSources, Sources, ResourceSources
<1>3. \A source \in LegalSources : source # "item" => source \in ChainSources
  BY DEF LegalSources, ChainSources
<1>4. \A source \in LegalSources : Lookup(c, item)[source] = Lookup(d, item)[source]
  BY <1>2, <1>3 DEF Lookup
<1> QED
  BY <1>1, <1>4, SameInputSameSeries

-----------------------------------------------------------------------------
(***************************************************************************)
(* Which series are sent.  A reference is a function from the listed       *)
(* anchors to the series each is to have; what is sent and what is pending *)
(* is matched one to one with what is due for the anchors dealt with.      *)
(***************************************************************************)
Due(ref, D)   == UNION {{<<a, n>> : n \in 1..Len(ref[a])} : a \in D}
ItemAt(ref, x) == ref[x[1]][x[2]]
KeysOf(ref, D) == UNION {DOMAIN ItemAt(ref, x).dynamic : x \in Due(ref, D)}

\* The labels with which it is sent.
Row(ref, x) ==
    [label \in DOMAIN ItemAt(ref, x).fixed \cup KeysOf(ref, DOMAIN ref) |->
        OwnValue(ItemAt(ref, x), label)]

\* The metrics sent for the rule, and after the last metric a place for each pending series.
Slots(sent, m, p) == sent \cup (m + 1)..(m + p)

MatchedBy(g, ref, D, sent, metrics, queue) ==
    /\ g \in [Slots(sent, Len(metrics), Len(queue)) -> Due(ref, D)]
    /\ \A i, j \in Slots(sent, Len(metrics), Len(queue)) : g[i] = g[j] => i = j
    /\ \A x \in Due(ref, D) :
          \E i \in Slots(sent, Len(metrics), Len(queue)) : g[i] = x
    /\ \A i \in sent : metrics[i].labels = Row(ref, g[i])
    /\ \A i \in 1..Len(queue) : SameSeries(queue[i], ItemAt(ref, g[Len(metrics) + i]))

Matched(ref, D, sent, metrics, queue) ==
    \E g : MatchedBy(g, ref, D, sent, metrics, queue)

\* With no anchor dealt with, nothing is due and nothing is there.
LEMMA MatchedNone ==
    ASSUME NEW ref, NEW S, NEW metrics \in Seq(S)
    PROVE  Matched(ref, {}, {}, metrics, <<>>)
<1>1. Slots({}, Len(metrics), Len(<<>>)) = {} /\ Due(ref, {}) = {}
  <2>1. Len(metrics) \in Nat
    BY LenProperties
  <2> QED
    BY <2>1 DEF Slots, Due
<1>2. MatchedBy([i \in {} |-> i], ref, {}, {}, metrics, <<>>)
  BY <1>1 DEF MatchedBy
<1> QED
  BY <1>2 DEF Matched

\* The places of a queue, and of a longer one.
LEMMA SlotBounds ==
    ASSUME NEW m \in Nat, NEW p \in Nat, NEW sent \in SUBSET (1..m)
    PROVE  /\ \A i \in Slots(sent, m, p) : i \in Nat /\ i <= m + p
           /\ \A i \in 1..p : m + i \in Slots(sent, m, p)
<1>1. \A i \in sent : i \in Nat /\ i <= m + p
  OBVIOUS
<1>2. \A i \in (m + 1)..(m + p) : i \in Nat /\ i <= m + p
  OBVIOUS
<1>3. \A i \in 1..p : m + i \in (m + 1)..(m + p)
  OBVIOUS
<1> QED
  BY <1>1, <1>2, <1>3 DEF Slots

LEMMA NextInterval ==
    ASSUME NEW l \in Nat, NEW k \in Nat
    PROVE  /\ \A i \in (l + 1)..(l + k) : i \in Nat /\ i > l /\ i - l \in 1..k
           /\ \A n \in 1..k : l + n \in (l + 1)..(l + k) /\ l + n - l = n
  OBVIOUS

\* The series of one more anchor join the queue.
LEMMA MatchedMore ==
    ASSUME NEW ref, NEW D, NEW a, a \notin D,
           NEW S, NEW metrics \in Seq(S), NEW sent \in SUBSET (1..Len(metrics)),
           NEW T, NEW queue \in Seq(T), NEW new \in Seq(T),
           Len(new) = Len(ref[a]),
           \A n \in 1..Len(new) : SameSeries(new[n], ref[a][n]),
           Matched(ref, D, sent, metrics, queue)
    PROVE  Matched(ref, D \cup {a}, sent, metrics, queue \o new)
<1> DEFINE before == Slots(sent, Len(metrics), Len(queue))
           L      == Len(metrics) + Len(queue)
           fresh  == (L + 1)..(L + Len(new))
           all    == queue \o new
           after  == Slots(sent, Len(metrics), Len(all))
<1>1. PICK g : MatchedBy(g, ref, D, sent, metrics, queue)
  BY DEF Matched
<1>2. Len(metrics) \in Nat /\ Len(queue) \in Nat /\ Len(new) \in Nat
  BY LenProperties
<1>3. /\ Len(all) = Len(queue) + Len(new)
      /\ \A i \in 1..(Len(queue) + Len(new)) :
            all[i] = IF i <= Len(queue) THEN queue[i] ELSE new[i - Len(queue)]
  BY ConcatProperties
<1> HIDE DEF all
<1>4. \A i \in 1..Len(queue) : all[i] = queue[i]
  <2> SUFFICES ASSUME NEW i \in 1..Len(queue) PROVE all[i] = queue[i]
    OBVIOUS
  <2>1. i \in 1..(Len(queue) + Len(new))
    BY <1>2
  <2>2. i <= Len(queue)
    BY <1>2
  <2> QED
    BY <1>3, <2>1, <2>2
<1>5. /\ after = before \cup fresh
      /\ \A i \in before : i \in Nat /\ i <= L
      /\ \A i \in fresh : i \in Nat /\ i > L /\ i - L \in 1..Len(new)
      /\ \A n \in 1..Len(new) : L + n \in fresh /\ L + n - L = n
  <2> DEFINE m == Len(metrics)
             p == Len(queue)
             k == Len(new)
             q == Len(all)
  <2>1. m \in Nat /\ p \in Nat /\ k \in Nat /\ sent \in SUBSET (1..m) /\ q = p + k
    BY <1>2, <1>3
  <2> HIDE DEF m, p, k, q
  <2>2. Slots(sent, m, q) = Slots(sent, m, p) \cup (m + p + 1)..(m + p + k)
    <3>1. (m + 1)..(m + q) = (m + 1)..(m + p) \cup (m + p + 1)..(m + p + k)
      BY <2>1
    <3> QED
      BY <3>1 DEF Slots
  <2>3. \A i \in Slots(sent, m, p) : i \in Nat /\ i <= m + p
    BY <2>1, SlotBounds
  <2>4. m + p \in Nat
    BY <2>1
  <2>5. /\ \A i \in (m + p + 1)..(m + p + k) :
              i \in Nat /\ i > m + p /\ i - (m + p) \in 1..k
        /\ \A n \in 1..k : /\ m + p + n \in (m + p + 1)..(m + p + k)
                           /\ m + p + n - (m + p) = n
    BY <2>1, <2>4, NextInterval
  <2> QED
    BY <2>1, <2>2, <2>3, <2>4, <2>5 DEF m, p, k, q
<1> DEFINE h == [i \in after |-> IF i > L THEN <<a, i - L>> ELSE g[i]]
<1>6. /\ Due(ref, D \cup {a}) = Due(ref, D) \cup {<<a, n>> : n \in 1..Len(ref[a])}
      /\ \A x \in Due(ref, D) : x[1] # a
  BY DEF Due
<1>7. \A i \in before : i \in after /\ ~(i > L) /\ h[i] = g[i] /\ h[i] \in Due(ref, D)
  <2>0. L \in Nat
    BY <1>2
  <2>1. \A i \in before : i \in after /\ ~(i > L)
    <3> HIDE DEF before, after, fresh, L
    <3> QED
      BY <1>5, <2>0
  <2>2. \A i \in before : g[i] \in Due(ref, D)
    BY <1>1 DEF MatchedBy
  <2> QED
    BY <2>1, <2>2
<1>8. \A i \in fresh : i \in after /\ h[i] = <<a, i - L>> /\ h[i] \in Due(ref, D \cup {a})
  BY <1>5, <1>6
<1>9. h \in [after -> Due(ref, D \cup {a})]
  BY <1>5, <1>6, <1>7, <1>8
<1> HIDE DEF h, before, after, fresh
<1>10. ASSUME NEW i \in after, NEW j \in after, h[i] = h[j] PROVE i = j
  <2>1. CASE i \in before /\ j \in before
    BY <1>1, <1>7, <1>10, <2>1 DEF MatchedBy, before
  <2>2. CASE i \in fresh /\ j \in fresh
    <3>1. i - L = j - L
      BY <1>8, <1>10, <2>2
    <3> QED
      BY <1>2, <1>5, <2>2, <3>1
  <2>3. CASE i \in before /\ j \in fresh
    BY <1>6, <1>7, <1>8, <1>10, <2>3
  <2>4. CASE i \in fresh /\ j \in before
    BY <1>6, <1>7, <1>8, <1>10, <2>4
  <2> QED
    BY <1>5, <2>1, <2>2, <2>3, <2>4
<1>11. ASSUME NEW x \in Due(ref, D \cup {a}) PROVE \E i \in after : h[i] = x
  <2>1. CASE x \in Due(ref, D)
    <3>1. PICK i \in before : g[i] = x
      BY <1>1, <2>1 DEF MatchedBy, before
    <3> QED
      BY <1>7, <3>1
  <2>2. CASE x \notin Due(ref, D)
    <3>1. PICK n \in 1..Len(new) : x = <<a, n>>
      BY <1>6, <1>11, <2>2
    <3>2. h[L + n] = <<a, n>> /\ L + n \in after
      BY <1>5, <1>8
    <3> QED
      BY <3>1, <3>2
  <2> QED
    BY <2>1, <2>2
<1>12. ASSUME NEW i \in sent PROVE metrics[i].labels = Row(ref, h[i])
  <2>1. i \in before
    BY DEF before, Slots
  <2> QED
    BY <1>1, <1>7, <2>1 DEF MatchedBy
<1>13. ASSUME NEW i \in 1..Len(all)
       PROVE  SameSeries(all[i], ItemAt(ref, h[Len(metrics) + i]))
  <2>1. CASE i <= Len(queue)
    <3>1. i \in 1..Len(queue)
      BY <1>2, <1>3, <2>1
    <3>2. Len(metrics) + i \in before
      BY <1>2, <3>1, SlotBounds DEF before
    <3>3. SameSeries(queue[i], ItemAt(ref, g[Len(metrics) + i]))
      BY <1>1, <3>1 DEF MatchedBy
    <3>4. h[Len(metrics) + i] = g[Len(metrics) + i]
      BY <1>7, <3>2
    <3> QED
      BY <1>4, <3>1, <3>3, <3>4
  <2>2. CASE ~(i <= Len(queue))
    <3>1. i \in 1..(Len(queue) + Len(new))
      BY <1>3
    <3>2. PICK n \in 1..Len(new) : i = Len(queue) + n
      <4>1. i - Len(queue) \in 1..Len(new)
        BY <1>2, <2>2, <3>1
      <4>2. i = Len(queue) + (i - Len(queue))
        BY <1>2, <3>1
      <4> QED
        BY <4>1, <4>2
    <3>3. Len(metrics) + i = L + n
      BY <1>2, <3>2
    <3>4. h[L + n] = <<a, n>>
      BY <1>5, <1>8
    <3>5. all[i] = new[n]
      <4>1. i - Len(queue) = n
        BY <1>2, <3>2
      <4> QED
        BY <1>3, <2>2, <3>1, <4>1
    <3>6. ItemAt(ref, h[Len(metrics) + i]) = ref[a][n]
      BY <3>3, <3>4 DEF ItemAt
    <3> QED
      BY <3>5, <3>6
  <2> QED
    BY <2>1, <2>2
<1>14. MatchedBy(h, ref, D \cup {a}, sent, metrics, all)
  BY <1>9, <1>10, <1>11, <1>12, <1>13 DEF MatchedBy, after
<1> QED
  BY <1>14 DEF Matched, all

\* The first of the queue is sent: it keeps its place.
LEMMA MatchedSend ==
    ASSUME NEW ref, NEW D, NEW S, NEW metrics \in Seq(S),
           NEW sent \in SUBSET (1..Len(metrics)),
           NEW T, NEW queue \in Seq(T), queue # <<>>, NEW m,
           \A x \in Due(ref, D) : SameSeries(Head(queue), ItemAt(ref, x)) => m.labels = Row(ref, x),
           Matched(ref, D, sent, metrics, queue)
    PROVE  Matched(ref, D, sent \cup {Len(metrics) + 1}, Append(metrics, m), Tail(queue))
<1> DEFINE l     == Len(metrics)
           p     == Len(queue)
           after == Append(metrics, m)
           rest  == Tail(queue)
           places == Slots(sent \cup {l + 1}, Len(after), Len(rest))
<1>1. PICK g : MatchedBy(g, ref, D, sent, metrics, queue)
  BY DEF Matched
<1>2. l \in Nat /\ p \in Nat /\ p # 0 /\ Head(queue) = queue[1]
  BY EmptySeq, LenProperties
<1>3. /\ Len(after) = l + 1
      /\ \A i \in 1..l : after[i] = metrics[i]
      /\ after[l + 1] = m
  <2>1. metrics \in Seq(S \cup {m})
    BY SeqMonotonic
  <2> QED
    BY <2>1, AppendProperties
<1>4. /\ Len(rest) = p - 1
      /\ \A i \in 1..(p - 1) : rest[i] = queue[i + 1]
  BY HeadTailProperties
<1> HIDE DEF after, rest
<1>5. places = Slots(sent, l, p)
  <2>1. Len(after) + Len(rest) = l + p
    BY <1>2, <1>3, <1>4
  <2>2. Slots(sent \cup {l + 1}, Len(after), Len(rest)) = sent \cup {l + 1} \cup (l + 2)..(l + p)
    <3>1. Len(after) + 1 = l + 2
      BY <1>2, <1>3
    <3> QED
      BY <2>1, <3>1 DEF Slots
  <2>3. {l + 1} \cup (l + 2)..(l + p) = (l + 1)..(l + p)
    <3> HIDE DEF l, p
    <3> QED
      BY <1>2
  <2> QED
    BY <2>2, <2>3 DEF Slots
<1>6. l + 1 \in Slots(sent, l, p)
  <2> HIDE DEF l, p
  <2>1. l + 1 \in (l + 1)..(l + p)
    BY <1>2
  <2> QED
    BY <2>1 DEF Slots
<1>7. ASSUME NEW i \in sent \cup {l + 1} PROVE after[i].labels = Row(ref, g[i])
  <2>1. CASE i \in sent
    BY <1>1, <1>3, <2>1 DEF MatchedBy
  <2>2. CASE i = l + 1
    <3>1. g[l + 1] \in Due(ref, D)
      BY <1>1, <1>6 DEF MatchedBy
    <3>2. 1 \in 1..Len(queue)
      BY <1>2
    <3>3. SameSeries(queue[1], ItemAt(ref, g[l + 1]))
      BY <1>1, <3>2 DEF MatchedBy
    <3> QED
      BY <1>2, <1>3, <2>2, <3>1, <3>3
  <2> QED
    BY <2>1, <2>2
<1>8. ASSUME NEW i \in 1..Len(rest)
      PROVE  SameSeries(rest[i], ItemAt(ref, g[Len(after) + i]))
  <2>1. i \in 1..(p - 1)
    BY <1>4
  <2>2. i + 1 \in 1..Len(queue)
    BY <1>2, <2>1
  <2>3. Len(metrics) + (i + 1) = Len(after) + i
    BY <1>2, <1>3, <2>1
  <2>4. SameSeries(queue[i + 1], ItemAt(ref, g[Len(metrics) + (i + 1)]))
    BY <1>1, <2>2 DEF MatchedBy
  <2> QED
    BY <1>4, <2>1, <2>3, <2>4
<1> HIDE DEF places
<1>9. /\ g \in [places -> Due(ref, D)]
      /\ \A i, j \in places : g[i] = g[j] => i = j
      /\ \A x \in Due(ref, D) : \E i \in places : g[i] = x
  BY <1>1, <1>5 DEF MatchedBy
<1>10. MatchedBy(g, ref, D, sent \cup {l + 1}, after, rest)
  BY <1>7, <1>8, <1>9 DEF MatchedBy, places
<1> QED
  BY <1>10 DEF Matched, after, rest

\* With nothing pending, the places are those of the metrics.
LEMMA SlotsSent ==
    ASSUME NEW sent, NEW l \in Nat
    PROVE  Slots(sent, l, 0) = sent
<1>1. (l + 1)..(l + 0) = {}
  OBVIOUS
<1> QED
  BY <1>1 DEF Slots

\* Another rule's metric changes nothing for a rule that is done.
LEMMA MatchedKept ==
    ASSUME NEW ref, NEW D, NEW S, NEW metrics \in Seq(S),
           NEW sent \in SUBSET (1..Len(metrics)), NEW m,
           Matched(ref, D, sent, metrics, <<>>)
    PROVE  Matched(ref, D, sent, Append(metrics, m), <<>>)
<1> DEFINE after == Append(metrics, m)
<1>1. PICK g : MatchedBy(g, ref, D, sent, metrics, <<>>)
  BY DEF Matched
<1>2. Len(metrics) \in Nat
  BY LenProperties
<1>3. /\ Len(after) = Len(metrics) + 1
      /\ \A i \in 1..Len(metrics) : after[i] = metrics[i]
  <2>1. metrics \in Seq(S \cup {m})
    BY SeqMonotonic
  <2> QED
    BY <2>1, AppendProperties
<1>4. Slots(sent, Len(metrics), Len(<<>>)) = sent /\ Slots(sent, Len(after), Len(<<>>)) = sent
  <2> HIDE DEF after
  <2>1. Len(after) \in Nat /\ Len(<<>>) = 0
    BY <1>2, <1>3
  <2> QED
    BY <1>2, <2>1, SlotsSent
<1>5. \A i \in sent : after[i].labels = Row(ref, g[i])
  BY <1>1, <1>3 DEF MatchedBy
<1>6. \A i \in 1..Len(<<>>) : FALSE
  OBVIOUS
<1> HIDE DEF after
<1>7. MatchedBy(g, ref, D, sent, after, <<>>)
  BY <1>1, <1>4, <1>5, <1>6 DEF MatchedBy
<1> QED
  BY <1>7 DEF Matched, after

\* Sets that are matched one to one have as many elements.
LEMMA SameSize ==
    ASSUME NEW S, NEW T, IsFiniteSet(S), NEW h \in [S -> T],
           \A i, j \in S : h[i] = h[j] => i = j,
           \A x \in T : \E i \in S : h[i] = x
    PROVE  Cardinality(S) = Cardinality(T)
<1>1. h \in Bijection(S, T)
  BY Fun_IsBij
<1>2. ExistsBijection(S, T)
  BY <1>1 DEF ExistsBijection
<1> QED
  BY <1>2, FS_Bijection

Rows(ref) == {[of |-> x, labels |-> Row(ref, x)] : x \in Due(ref, DOMAIN ref)}

\* When all is due and nothing pending, the metrics are the rows of the reference.
LEMMA MatchedCount ==
    ASSUME NEW ref, NEW S, NEW metrics \in Seq(S), NEW sent \in SUBSET (1..Len(metrics)),
           Matched(ref, DOMAIN ref, sent, metrics, <<>>)
    PROVE  Matches(metrics, sent, Rows(ref))
<1> DEFINE due == Due(ref, DOMAIN ref)
<1>1. PICK g : MatchedBy(g, ref, DOMAIN ref, sent, metrics, <<>>)
  BY DEF Matched
<1>2. Slots(sent, Len(metrics), Len(<<>>)) = sent
  <2>1. Len(metrics) \in Nat /\ Len(<<>>) = 0
    BY LenProperties
  <2> QED
    BY <2>1, SlotsSent
<1>3. /\ g \in [sent -> due]
      /\ \A i, j \in sent : g[i] = g[j] => i = j
      /\ \A x \in due : \E i \in sent : g[i] = x
      /\ \A i \in sent : metrics[i].labels = Row(ref, g[i])
  BY <1>1, <1>2 DEF MatchedBy
<1>4. IsFiniteSet(sent)
  <2>1. IsFiniteSet(1..Len(metrics))
    BY LenProperties, FS_Interval
  <2> QED
    BY <2>1, FS_Subset
<1> DEFINE h == [i \in sent |-> [of |-> g[i], labels |-> Row(ref, g[i])]]
<1> HIDE DEF due
<1>5. Rows(ref) = {[of |-> x, labels |-> Row(ref, x)] : x \in due}
  BY DEF Rows, due
<1>6. /\ h \in [sent -> Rows(ref)]
      /\ \A i, j \in sent : h[i] = h[j] => i = j
      /\ \A e \in Rows(ref) : \E i \in sent : h[i] = e
      /\ \A i \in sent : h[i].labels = metrics[i].labels
  <2>1. \A i \in sent : h[i] \in Rows(ref) /\ h[i].of = g[i] /\ h[i].labels = Row(ref, g[i])
    BY <1>3, <1>5
  <2>2. \A i, j \in sent : h[i] = h[j] => i = j
    BY <1>3, <2>1
  <2>3. ASSUME NEW e \in Rows(ref) PROVE \E i \in sent : h[i] = e
    <3>1. PICK x \in due : e = [of |-> x, labels |-> Row(ref, x)]
      BY <1>5
    <3>2. PICK i \in sent : g[i] = x
      BY <1>3
    <3> QED
      BY <3>1, <3>2
  <2> QED
    BY <1>3, <2>1, <2>2, <2>3
<1> HIDE DEF h
<1>7. Cardinality(sent) = Cardinality(Rows(ref))
  BY <1>4, <1>6, SameSize
<1>8. ASSUME NEW e \in Rows(ref)
      PROVE  Cardinality({i \in sent : metrics[i].labels = e.labels})
             = Cardinality({f \in Rows(ref) : f.labels = e.labels})
  <2> DEFINE P == {i \in sent : metrics[i].labels = e.labels}
             Q == {f \in Rows(ref) : f.labels = e.labels}
             k == [i \in P |-> h[i]]
  <2>1. IsFiniteSet(P)
    BY <1>4, FS_Subset
  <2>2. k \in [P -> Q]
    BY <1>6
  <2>3. \A i, j \in P : k[i] = k[j] => i = j
    BY <1>6
  <2>4. \A f \in Q : \E i \in P : k[i] = f
    <3> SUFFICES ASSUME NEW f \in Q PROVE \E i \in P : k[i] = f
      OBVIOUS
    <3>1. PICK i \in sent : h[i] = f
      BY <1>6
    <3>2. i \in P
      BY <1>6, <3>1
    <3> QED
      BY <3>1, <3>2
  <2> HIDE DEF P, Q, k
  <2>5. Cardinality(P) = Cardinality(Q)
    BY <2>1, <2>2, <2>3, <2>4, SameSize
  <2> QED
    BY <2>5 DEF P, Q
<1> QED
  BY <1>7, <1>8 DEF Matches

-----------------------------------------------------------------------------
(* The reference in a state *)

\* The series each listed anchor is to have.
Reference(r) ==
    [a \in ListAll(AnchorOf(r)) |-> SeriesOf(r, a[2], ReferenceChain(Ancestor(a[2])))]

\* The ancestors link by link.
Linked(f, o) ==
    /\ f = [n \in 0..MaxDepth |-> f[n]]
    /\ f[0] = o
    /\ \A n \in 1..MaxDepth : \A p : f[n - 1] = p => f[n] = Above(p)

LEMMA AncestorIsLinked == \A o : Linked(Ancestor(o), o)
<1> SUFFICES ASSUME NEW o PROVE Linked(Ancestor(o), o)
  OBVIOUS
<1>1. Ancestor(o) = [n \in 0..MaxDepth |-> IF n = 0 THEN o ELSE Above(Ancestor(o)[n - 1])]
  BY AncestorIs DEF AncestryUpTo
<1>2. Ancestor(o) = [n \in 0..MaxDepth |-> Ancestor(o)[n]]
  <2> DEFINE up == Ancestor(o)
  <2>1. up = [n \in 0..MaxDepth |-> IF n = 0 THEN o ELSE Above(up[n - 1])]
    BY <1>1
  <2> HIDE DEF up
  <2>2. up = [n \in 0..MaxDepth |-> up[n]]
    BY <2>1
  <2> QED
    BY <2>2 DEF up
<1>3. Ancestor(o)[0] = o
  BY AncestorSteps
<1>4. \A n \in 1..MaxDepth : Ancestor(o)[n] = Above(Ancestor(o)[n - 1])
  BY AncestorSteps
<1> DEFINE up == Ancestor(o)
<1> HIDE DEF up
<1>5. Linked(up, o)
  BY <1>2, <1>3, <1>4 DEF Linked, up
<1> QED
  BY <1>5 DEF up

\* They are linked in the next state too.
LEMMA AncestorIsLinkedNext == (\A o : Linked(Ancestor(o), o))'
  BY AncestorIsLinked, PTL

\* What the caches hold decides the reference.
LEMMA CachesKept ==
    ASSUME \A inf \in Informers, k \in Keys : CacheEntry(inf, k)' = CacheEntry(inf, k)
    PROVE  /\ \A inf \in Informers : Cache(inf)' = Cache(inf)
           /\ \A o : Parent(o)' = Parent(o)
           /\ \A o : Ancestor(o)' = Ancestor(o)
           /\ \A r \in RuleIndex : Reference(r)' = Reference(r)
<1>1. \A inf \in Informers : Cache(inf)' = Cache(inf)
  BY DEF Cache
<1>2. \A ref, ns, name : Get(ref, ns, name)' = Get(ref, ns, name)
  BY ZenonT(40) DEF Get
<1>3. \A o : Parent(o)' = Parent(o)
  BY <1>2 DEF Parent
<1>4. ASSUME NEW o PROVE Ancestor(o)' = Ancestor(o)
  <2> DEFINE up == Ancestor(o)'
  <2>1. AncestryUpTo(Ancestor(o), o, MaxDepth)
    BY AncestorIs
  <2>3. /\ up = [n \in 0..MaxDepth |-> up[n]]
        /\ up[0] = o
        /\ \A n \in 1..MaxDepth : \A p : up[n - 1] = p => up[n] = Above(p)'
    BY AncestorIsLinkedNext DEF Linked
  <2>4. \A p : Above(p)' = Above(p)
    BY <1>3 DEF Above
  <2> HIDE DEF up
  <2>5. \A n \in 0..MaxDepth : up[n] = IF n = 0 THEN o ELSE Above(up[n - 1])
    BY <2>3, <2>4, MaxDepthAssumption
  <2>6. up = [n \in 0..MaxDepth |-> IF n = 0 THEN o ELSE Above(up[n - 1])]
    BY <2>3, <2>5
  <2>7. AncestryUpTo(up, o, MaxDepth)
    BY <2>6 DEF AncestryUpTo
  <2>8. up = Ancestor(o)
    BY <2>1, <2>7, AncestryUnique
  <2> QED
    BY <2>8 DEF up
<1>5. ASSUME NEW r \in RuleIndex PROVE Reference(r)' = Reference(r)
  <2> DEFINE name == AnchorOf(r)
             place(i) == [resource |-> name, ns |-> ResourceNamespaces(name)[i]]
  <2>1. name \in Names
    BY RulesAssumption, ResourceForName DEF AnchorOf
  <2>2. \A i \in 1..Len(ResourceNamespaces(name)) : Cache(place(i))' = Cache(place(i))
    BY <1>1, <2>1, PlacesAreInformers
  <2>3. ListAll(name)' = ListAll(name)
    BY <2>2 DEF ListAll
  <2> QED
    BY <1>4, <2>3 DEF Reference
<1> QED
  BY <1>1, <1>3, <1>4, <1>5

\* If no position moved since a scrape began, none does in a step after which this is so.
LEMMA PosKept ==
    ASSUME TypeInv, FreshInv, Environment, NEW s \in Scrapers, begun'[s] = pos'
    PROVE  /\ begun[s] = pos
           /\ \A inf \in Informers, k \in Keys : CacheEntry(inf, k)' = CacheEntry(inf, k)
<1>1. InformersTypeOK /\ InformersNext /\ InformersTypeOK'
  BY InformersNextType DEF TypeInv, Environment
<1>2. begun'[s] = begun[s]
  BY DEF Environment, CollectVars
<1>3. \A inf \in Informers, k \in Keys :
         /\ pos[inf][k] \in Nat /\ pos'[inf][k] \in Nat /\ begun[s][inf][k] = pos'[inf][k]
         /\ begun[s][inf][k] <= pos[inf][k] /\ pos[inf][k] <= pos'[inf][k]
  BY <1>1, <1>2, HistoriesGrow DEF InformersTypeOK, FreshInv, FreshScraper
<1>4. \A inf \in Informers, k \in Keys : pos[inf][k] = pos'[inf][k]
  BY <1>3
<1>5. pos = pos'
  BY <1>1, <1>4 DEF InformersTypeOK
<1>6. ASSUME NEW inf \in Informers, NEW k \in Keys
      PROVE  CacheEntry(inf, k)' = CacheEntry(inf, k)
  <2>1. CASE pos[inf][k] = 0
    BY <1>5, <2>1 DEF CacheEntry
  <2>2. CASE pos[inf][k] # 0
    <3>1. pos[inf][k] \in 1..Len(versions[k])
      <4>1. Len(versions[k]) \in Nat /\ pos[inf][k] <= Len(versions[k])
        BY <1>1 DEF InformersTypeOK
      <4> QED
        BY <1>3, <2>2, <4>1
    <3>2. versions'[k][pos[inf][k]] = versions[k][pos[inf][k]]
      BY <1>1, <3>1, HistoriesGrow
    <3> QED
      BY <1>5, <3>2 DEF CacheEntry
  <2> QED
    BY <2>1, <2>2
<1> QED
  BY <1>2, <1>5, <1>6

\* What is listed is of a watched resource.
LEMMA ListedIsWatched ==
    ASSUME InformersInv, NEW name \in Names, NEW a \in ListAll(name)
    PROVE  a[2] \in Objects /\ ResolvesGVK(a[2].gvk)
<1> DEFINE inf == [resource |-> name, ns |-> ResourceNamespaces(name)[a[1]]]
<1>1. inf \in Informers /\ a[2] \in Cache(inf)
  BY ListedFromPlace
<1>2. a[2] \in Objects /\ Watches(inf, Key(a[2]))
  BY <1>1, ListedByKey
<1>3. a[2].gvk = ByName(name).gvk
  BY <1>2 DEF Watches, Key
<1>4. \E i \in WatchIndex : ByName(name) = Watch[i]
  BY EntryOfName
<1> QED
  BY <1>2, <1>3, <1>4 DEF ResolvesGVK

\* One series for each item, whatever the chain.
LEMMA SeriesPerItem ==
    ASSUME NEW r, NEW o \in Objects, NEW c
    PROVE  /\ Len(EvaluateForEach(Rules[r], o, Absent)) \in Nat
           /\ Len(SeriesOf(r, o, c)) = Len(EvaluateForEach(Rules[r], o, Absent))
<1> DEFINE items == EvaluateForEach(Rules[r], o, Absent)
<1>1. Len(items) \in Nat
  BY ItemsAssumption, LenProperties DEF EvaluateForEach
<1> HIDE DEF items
<1>2. Len([i \in 1..Len(items) |-> Series(r, Lookup(c, items[i]))]) = Len(items)
  BY <1>1
<1> QED
  BY <1>1, <1>2 DEF SeriesOf, items

\* The expected series are the rows of the reference.
LEMMA ExpectedRows ==
    ASSUME InformersInv, NEW r \in RuleIndex
    PROVE  Labelled(ExpectedSeries(r)) = Rows(Reference(r))
<1> DEFINE name == AnchorOf(r)
           ref  == Reference(r)
           all  == ListAll(name)
           due  == Due(ref, DOMAIN ref)
           expected == {[of |-> x, series |-> ItemAt(ref, x)] : x \in due}
<1>1. name \in Names
  BY RulesAssumption, ResourceForName DEF AnchorOf
<1>2. /\ DOMAIN ref = all
      /\ \A a \in all : ref[a] = SeriesOf(r, a[2], ReferenceChain(Ancestor(a[2])))
  BY DEF Reference
<1>3. \A a \in all : Len(ref[a]) = Len(EvaluateForEach(Rules[r], a[2], Absent))
  BY <1>1, <1>2, ListedIsWatched, SeriesPerItem
<1>4. ExpectedSeries(r) =
         UNION {{[of |-> <<a, n>>, series |-> ref[a][n]] : n \in 1..Len(ref[a])} : a \in all}
  BY <1>2, <1>3 DEF ExpectedSeries
<1>5. ExpectedSeries(r) = expected
  <2> HIDE DEF ref, all
  <2>1. due = UNION {{<<a, n>> : n \in 1..Len(ref[a])} : a \in all}
    BY <1>2 DEF Due
  <2>2. \A a, n : ItemAt(ref, <<a, n>>) = ref[a][n]
    BY DEF ItemAt
  <2> HIDE DEF due
  <2>3. ASSUME NEW e \in ExpectedSeries(r) PROVE e \in expected
    <3>1. PICK a \in all : \E n \in 1..Len(ref[a]) :
             e = [of |-> <<a, n>>, series |-> ref[a][n]]
      BY <1>4
    <3>2. PICK n \in 1..Len(ref[a]) : e = [of |-> <<a, n>>, series |-> ref[a][n]]
      BY <3>1
    <3>3. <<a, n>> \in due
      BY <2>1
    <3> QED
      BY <2>2, <3>2, <3>3
  <2>4. ASSUME NEW e \in expected PROVE e \in ExpectedSeries(r)
    <3>1. PICK x \in due : e = [of |-> x, series |-> ItemAt(ref, x)]
      OBVIOUS
    <3>2. PICK a \in all : \E n \in 1..Len(ref[a]) : x = <<a, n>>
      BY <2>1
    <3> QED
      BY <1>4, <2>2, <3>1, <3>2
  <2> QED
    BY <2>3, <2>4
<1> HIDE DEF ref, due, expected
<1>6. /\ \A x \in due : \E e \in expected : e.of = x /\ e.series = ItemAt(ref, x)
      /\ \A e \in expected : e.of \in due /\ e.series = ItemAt(ref, e.of)
  <2> DEFINE entry(x) == [of |-> x, series |-> ItemAt(ref, x)]
  <2>1. expected = {entry(x) : x \in due}
    BY DEF expected
  <2>2. \A x : entry(x).of = x /\ entry(x).series = ItemAt(ref, x)
    OBVIOUS
  <2> HIDE DEF entry
  <2> QED
    BY <2>1, <2>2
<1>7. UNION {DOMAIN f.series.dynamic : f \in expected} = KeysOf(ref, DOMAIN ref)
  <2>1. KeysOf(ref, DOMAIN ref) = UNION {DOMAIN ItemAt(ref, x).dynamic : x \in due}
    BY DEF KeysOf, due
  <2>2. \A x \in due :
           DOMAIN ItemAt(ref, x).dynamic \in {DOMAIN f.series.dynamic : f \in expected}
    BY <1>6
  <2>3. \A f \in expected :
           DOMAIN f.series.dynamic \in {DOMAIN ItemAt(ref, x).dynamic : x \in due}
    BY <1>6
  <2>4. {DOMAIN f.series.dynamic : f \in expected} = {DOMAIN ItemAt(ref, x).dynamic : x \in due}
    BY <2>2, <2>3
  <2> QED
    BY <2>1, <2>4
<1> DEFINE labelsOf(series) ==
               [label \in DOMAIN series.fixed \cup KeysOf(ref, DOMAIN ref) |->
                   OwnValue(series, label)]
<1>8. Labelled(expected) = {[of |-> e.of, labels |-> labelsOf(e.series)] : e \in expected}
  <2> DEFINE raw(e) ==
                 [label \in DOMAIN e.series.fixed
                               \cup UNION {DOMAIN f.series.dynamic : f \in expected} |->
                     CASE label \in DOMAIN e.series.fixed   -> e.series.fixed[label]
                       [] label \in DOMAIN e.series.dynamic -> e.series.dynamic[label]
                       [] OTHER                             -> Empty]
  <2>1. Labelled(expected) = {[of |-> e.of, labels |-> raw(e)] : e \in expected}
    BY DEF Labelled
  <2>2. \A e : raw(e) = labelsOf(e.series)
    BY <1>7 DEF OwnValue
  <2> HIDE DEF raw, labelsOf
  <2> QED
    BY <2>1, <2>2
<1>9. \A x : labelsOf(ItemAt(ref, x)) = Row(ref, x)
  BY DEF Row
<1> HIDE DEF labelsOf
<1>10. Labelled(expected) = {[of |-> x, labels |-> Row(ref, x)] : x \in due}
  <2>1. ASSUME NEW e \in expected
        PROVE  /\ e.of \in due
               /\ [of |-> e.of, labels |-> labelsOf(e.series)]
                  = [of |-> e.of, labels |-> Row(ref, e.of)]
    BY <1>6, <1>9
  <2>2. ASSUME NEW x \in due
        PROVE  \E e \in expected : [of |-> e.of, labels |-> labelsOf(e.series)]
                                  = [of |-> x, labels |-> Row(ref, x)]
    <3>1. PICK e \in expected : e.of = x /\ e.series = ItemAt(ref, x)
      BY <1>6
    <3> QED
      BY <1>9, <3>1
  <2> QED
    BY <1>8, <2>1, <2>2, ZenonT(40)
<1> QED
  BY <1>5, <1>10 DEF Rows, ref, due

\* No label that a series expands is fixed or reserved.
LEMMA ExpandedAreFree ==
    ASSUME LabelsNeverCollide, NEW r \in RuleIndex, NEW x \in SeriesOfRule(r)
    PROVE  DOMAIN x.dynamic \cap (FixedLabels(r) \cup ReservedLabels) = {}
<1> DEFINE from == x.from
           part(i) == EvaluateExpand(Rules[r].expands[i], from, Absent)
<1>1. from \in Inputs /\ x.dynamic = EvaluateOneSeries(Rules[r], from, Absent).dynamic
  BY SeriesFrom DEF Series
<1> HIDE DEF from
<1>2. DOMAIN x.dynamic = UNION {DOMAIN part(i) : i \in 1..Len(Rules[r].expands)}
  BY <1>1 DEF EvaluateOneSeries
<1>3. ASSUME NEW i \in 1..Len(Rules[r].expands)
      PROVE  DOMAIN part(i) \cap (FixedLabels(r) \cup ReservedLabels) = {}
  <2> DEFINE expand == Rules[r].expands[i]
             given  == from[expand.source]
             map    == IF given = Absent THEN <<>> ELSE given.maps[expand.path]
  <2>1. expand.source \in Sources \cup {"item"}
    BY SourcesAssumption DEF HasLegalSources, LegalSources, Sources, ResourceSources
  <2>2. given \in Objects \cup Items \cup {Absent}
    BY <1>1, <2>1 DEF Inputs
  <2> HIDE DEF given
  <2>3. DOMAIN part(i) \subseteq {expand.labelName[k] : k \in ExpandKeys(expand, map)}
    BY DEF EvaluateExpand, given
  <2>4. CASE given = Absent
    <3>1. ExpandKeys(expand, <<>>) = {}
      BY DEF ExpandKeys, FirstKeys
    <3> QED
      BY <2>3, <2>4, <3>1
  <2>5. CASE given # Absent
    <3>1. given \in Objects \cup Items
      BY <2>2, <2>5
    <3>2. {expand.labelName[k] : k \in ExpandKeys(expand, given.maps[expand.path])}
             \cap (DOMAIN Rules[r].labels \cup ReservedLabels) = {}
      BY <3>1 DEF LabelsNeverCollide
    <3> QED
      BY <2>3, <2>5, <3>2 DEF FixedLabels
  <2> QED
    BY <2>4, <2>5
<1> HIDE DEF part
<1> QED
  BY <1>2, <1>3

-----------------------------------------------------------------------------
(***************************************************************************)
(* The labels collected for a rule are none of its fixed ones and none of  *)
(* the reserved ones, so every Desc is valid.                              *)
(***************************************************************************)
KeysScraper(s) ==
    IF pc[s] \in {"anchors", "walk", "materialised", "emit"}
    THEN keys[s] \cap (FixedLabels(rule[s]) \cup ReservedLabels) = {}
    ELSE keys[s] = {}

KeysInv == \A s \in Scrapers : KeysScraper(s)

\* A scraper inside a rule is at one of the rules.
LEMMA RuleIsOne ==
    ASSUME TypeInv, NEW s \in Scrapers,
           pc[s] \in {"list", "anchors", "walk", "materialised", "emit"}
    PROVE  rule[s] \in RuleIndex
<1>1. ScraperInv(s)
  BY DEF TypeInv
<1> QED
  BY <1>1, RulesAssumption DEF ScraperInv, InRule, InCollect, RuleIndex

\* What the series of an anchor add to the keys is free.
LEMMA KeysStayFree ==
    ASSUME LabelsNeverCollide, NEW r \in RuleIndex, NEW new \in Seq(SeriesOfRule(r)), NEW known,
           known \cap (FixedLabels(r) \cup ReservedLabels) = {}
    PROVE  UnionKeys(known, new) \cap (FixedLabels(r) \cup ReservedLabels) = {}
<1> DEFINE own == UNION {DOMAIN new[i].dynamic : i \in 1..Len(new)}
<1>1. ASSUME NEW i \in 1..Len(new)
      PROVE  DOMAIN new[i].dynamic \cap (FixedLabels(r) \cup ReservedLabels) = {}
  <2>1. new[i] \in SeriesOfRule(r)
    BY ElementOfSeq
  <2> QED
    BY <2>1, ExpandedAreFree
<1>2. own \cap (FixedLabels(r) \cup ReservedLabels) = {}
  BY <1>1
<1> HIDE DEF own
<1>3. UnionKeys(known, new) = known \cup own
  BY DEF UnionKeys, own
<1> QED
  BY <1>2, <1>3

\* Initially no label is collected.
LEMMA KeysInvInit == Init => KeysInv
  BY DEF Init, KeysInv, KeysScraper

\* A step of a scraper keeps its labels free.
LEMMA KeysInvStep ==
    ASSUME LabelsNeverCollide, TypeInv, KeysInv, NEW s \in Scrapers, CollectStep(s)
    PROVE  KeysInv'
<1>a. Shape /\ ScraperInv(s) /\ KeysScraper(s) /\ OnlyOwn(s)
  BY StepIsOwn DEF TypeInv, KeysInv
<1>b. ASSUME NEW t \in Scrapers \ {s} PROVE KeysScraper(t)'
  <2>1. pc'[t] = pc[t] /\ rule'[t] = rule[t] /\ keys'[t] = keys[t] /\ KeysScraper(t)
    BY <1>a DEF Shape, OnlyOwn, KeysInv
  <2> QED
    BY <2>1 DEF KeysScraper
<1>c. SUFFICES KeysScraper(s)'
  BY <1>b DEF KeysInv
<1>1. CASE \/ Call(s) \/ AcquireLock(s) \/ ListNamespace(s) \/ ListNothing(s)
           \/ IncCollect(s) \/ ObserveCollectDuration(s) \/ Respond(s)
  <2>1. /\ pc[s] \in {"idle", "waiting", "list", "counting", "observing", "collected"}
        /\ UNCHANGED <<rule, keys>>
    BY <1>a, <1>1
       DEF Call, AcquireLock, ListNamespace, ListNothing, IncCollect, ObserveCollectDuration,
           Respond, seriesVars
  <2> QED
    BY <1>a, <2>1 DEF KeysScraper
<1>2. CASE BeginRule(s) \/ Unlock(s)
  <2>1. pc[s] = "rules" /\ UNCHANGED keys
    BY <1>a, <1>2 DEF BeginRule, Unlock, seriesVars
  <2> QED
    BY <1>a, <2>1 DEF KeysScraper
<1>3. CASE \/ ListAnchors(s) \/ TakeAnchor(s) \/ WalkOwner(s) \/ BeginEmit(s) \/ EmitSeries(s)
  <2>1. /\ pc'[s] \in {"anchors", "walk", "emit"} /\ UNCHANGED <<rule, keys>>
    BY <1>a, <1>3
       DEF ListAnchors, TakeAnchor, WalkOwner, BeginEmit, EmitSeries, seriesVars, Shape
  <2> QED
    BY <1>a, <2>1 DEF KeysScraper
<1>4. CASE EndWalk(s)
  <2> DEFINE new == SeriesOf(rule[s], obj[s], chain[s])
  <2>1. /\ pc[s] = "walk" /\ pc'[s] \in {"anchors", "materialised"} /\ UNCHANGED rule
        /\ keys'[s] = UnionKeys(keys[s], new)
    BY <1>a, <1>4 DEF EndWalk, Shape
  <2>2. rule[s] \in RuleIndex
    BY <2>1, RuleIsOne
  <2>3. new \in Seq(SeriesOfRule(rule[s]))
    BY <1>a, <2>1, SeriesOfType DEF ScraperInv
  <2> HIDE DEF new
  <2>4. keys'[s] \cap (FixedLabels(rule[s]) \cup ReservedLabels) = {}
    BY <1>a, <2>1, <2>2, <2>3, KeysStayFree DEF KeysScraper
  <2> QED
    BY <2>1, <2>4 DEF KeysScraper
<1>5. CASE EndRule(s)
  <2>1. keys'[s] = {}
    BY <1>a, <1>5 DEF EndRule, Shape
  <2> QED
    BY <2>1 DEF KeysScraper
<1> QED
  BY <1>1, <1>2, <1>3, <1>4, <1>5 DEF CollectStep, Proceed

\* Every step keeps the labels free.
LEMMA KeysInvNext ==
    ASSUME LabelsNeverCollide
    PROVE  TypeInv /\ KeysInv /\ [Next]_vars => KeysInv'
<1> SUFFICES ASSUME TypeInv, KeysInv, [Next]_vars PROVE KeysInv'
  OBVIOUS
<1>1. CASE Environment \/ UNCHANGED vars
  <2>1. UNCHANGED <<pc, rule, keys>>
    BY <1>1 DEF Environment, CollectVars, vars, seriesVars
  <2> QED
    BY <2>1 DEF KeysInv, KeysScraper
<1>2. ASSUME NEW s \in Scrapers, CollectStep(s) PROVE KeysInv'
  BY <1>2, KeysInvStep
<1> QED
  BY <1>1, <1>2 DEF Next, CollectStep

-----------------------------------------------------------------------------
(***************************************************************************)
(* ExactWhenStable.  Since begun = pos says that the caches have stood     *)
(* still, the reference of each rule has too, and the invariant follows a  *)
(* scrape towards it: the anchors listed are the first of the reference's, *)
(* the chain is what the ancestors climbed so far leave, the series of the *)
(* anchors dealt with are sent or pending one for one, with their keys,    *)
(* and a rule that is done has nothing left.                               *)
(***************************************************************************)
References == [r \in RuleIndex |-> Reference(r)]
Ancestries == [o \in Objects |-> Ancestor(o)]

Listed(s) == DOMAIN References[rule[s]]

Dealt(s, D) ==
    /\ Matched(References[rule[s]], D, Sent(s, rule[s]), out[s], pending[s])
    /\ keys[s] = KeysOf(References[rule[s]], D)

Climbed(s) ==
    /\ \A n \in 0..depth[s] : Ancestries[obj[s]][n] # Absent
    /\ cur[s] = Ancestries[obj[s]][depth[s]]
    /\ \A source \in ChainSources :
          chain[s][source] = Filed(Ancestries[obj[s]], depth[s], source)

Finished(s, r) ==
    \/ pc[s] = "collected"
    \/ r < rule[s]
    \/ pc[s] \in {"counting", "observing", "rules"} /\ r = rule[s]

DoneWith(s, r) == Matched(References[r], DOMAIN References[r], Sent(s, r), out[s], <<>>)

StableRule(s) ==
    /\ pc[s] = "list" => anchors[s] = {a \in Listed(s) : a[1] <= listed[s]}
    /\ pc[s] \in {"anchors", "materialised", "emit"} =>
          anchors[s] \subseteq Listed(s) /\ Dealt(s, Listed(s) \ anchors[s])
    /\ pc[s] = "walk" =>
          \E a \in Listed(s) \ anchors[s] :
              /\ anchors[s] \subseteq Listed(s)
              /\ a[2] = obj[s]
              /\ Dealt(s, Listed(s) \ (anchors[s] \cup {a}))
              /\ Climbed(s)

StableScraper(s) ==
    /\ StableRule(s)
    /\ \A r \in RuleIndex : Finished(s, r) => DoneWith(s, r)

Quiet(s) == (InCollect(s) \/ pc[s] = "collected") /\ begun[s] = pos

ExactInv == \A s \in Scrapers : Quiet(s) => StableScraper(s)

\* Initially no scrape is under way.
LEMMA ExactInvInit == Init => ExactInv
  BY DEF Init, ExactInv, Quiet, InCollect

\* What the caches hold decides all references.
LEMMA ReferencesKept ==
    ASSUME \A inf \in Informers, k \in Keys : CacheEntry(inf, k)' = CacheEntry(inf, k)
    PROVE  References' = References /\ Ancestries' = Ancestries
<1>1. \A r \in RuleIndex : Reference(r)' = Reference(r)
  BY CachesKept
<1>2. \A o : Ancestor(o)' = Ancestor(o)
  BY CachesKept
<1> QED
  BY <1>1, <1>2 DEF References, Ancestries

\* A step of a scraper leaves the references as they are.
LEMMA StepKeepsReferences ==
    ASSUME NEW s \in Scrapers, CollectStep(s)
    PROVE  References' = References /\ Ancestries' = Ancestries /\ pos' = pos
<1>1. versions' = versions /\ pos' = pos
  BY DEF CollectStep, Proceed, Call, AcquireLock, BeginRule, ListNamespace, ListAnchors,
         ListNothing, TakeAnchor, WalkOwner, EndWalk, BeginEmit, EmitSeries, EndRule,
         IncCollect, ObserveCollectDuration, Unlock, Respond
<1>2. \A inf \in Informers, k \in Keys : CacheEntry(inf, k)' = CacheEntry(inf, k)
  BY <1>1 DEF CacheEntry
<1> QED
  BY <1>1, <1>2, ReferencesKept

\* A scraper whose share is as it was is as far as it was.
LEMMA StableFrame ==
    ASSUME NEW t \in Scrapers, References' = References, Ancestries' = Ancestries,
           pc'[t] = pc[t], rule'[t] = rule[t], listed'[t] = listed[t], anchors'[t] = anchors[t],
           obj'[t] = obj[t], cur'[t] = cur[t], depth'[t] = depth[t], chain'[t] = chain[t],
           pending'[t] = pending[t], keys'[t] = keys[t], out'[t] = out[t],
           StableScraper(t)
    PROVE  StableScraper(t)'
<1>1. Listed(t)' = Listed(t) /\ \A r : Sent(t, r)' = Sent(t, r)
  BY DEF Listed, Sent
<1>2. \A D : Dealt(t, D)' <=> Dealt(t, D)
  BY DEF Dealt, Sent
<1>3. Climbed(t)' <=> Climbed(t)
  BY DEF Climbed
<1>4. \A r : DoneWith(t, r)' <=> DoneWith(t, r)
  BY DEF DoneWith, Sent
<1>5. \A r : Finished(t, r)' <=> Finished(t, r)
  BY DEF Finished
<1>6. StableRule(t)'
  BY <1>1, <1>2, <1>3 DEF StableScraper, StableRule
<1> QED
  BY <1>4, <1>5, <1>6 DEF StableScraper

\* What is done with is kept by a step that sends nothing.
LEMMA DoneKept ==
    ASSUME NEW s, References' = References, out'[s] = out[s]
    PROVE  /\ \A r : DoneWith(s, r)' <=> DoneWith(s, r)
           /\ \A r : Sent(s, r)' = Sent(s, r)
  BY DEF DoneWith, Sent

\* The anchors of the reference are the listed objects, each in its place.
LEMMA ReferenceAnchors ==
    ASSUME TypeInv, FreshInv, NEW r \in RuleIndex, NEW a \in DOMAIN References[r]
    PROVE  /\ a[2] \in Objects /\ ResolvesGVK(a[2].gvk)
           /\ a[1] \in Nat /\ a[1] # 0
           /\ References[r][a] = SeriesOf(r, a[2], ReferenceChain(Ancestries[a[2]]))
<1> DEFINE name == AnchorOf(r)
<1>1. name \in Names
  BY RulesAssumption, ResourceForName DEF AnchorOf
<1>2. a \in ListAll(name)
  BY DEF References, Reference
<1>3. InformersInv
  BY DEF InformersInv, TypeInv, FreshInv
<1>4. a[2] \in Objects /\ ResolvesGVK(a[2].gvk)
  BY <1>1, <1>2, <1>3, ListedIsWatched
<1>5. Len(ResourceNamespaces(name)) \in Nat
  BY <1>1, PlacesAreInformers
<1>6. PICK i \in 1..Len(ResourceNamespaces(name)) :
         a \in {i} \X Cache([resource |-> name, ns |-> ResourceNamespaces(name)[i]])
  BY <1>2 DEF ListAll
<1>7. a[1] \in Nat /\ a[1] # 0
  BY <1>5, <1>6
<1>8. References[r][a] = SeriesOf(r, a[2], ReferenceChain(Ancestor(a[2])))
  BY <1>2 DEF References, Reference
<1> QED
  BY <1>4, <1>7, <1>8 DEF Ancestries

\* One more namespace lists the part of the reference that comes from it.
LEMMA ListedPart ==
    ASSUME TypeInv, NEW s \in Scrapers, pc[s] = "list",
           anchors[s] = {a \in Listed(s) : a[1] <= listed[s]}
    PROVE  /\ ListedNext(s) = {a \in Listed(s) : a[1] <= listed[s] + 1}
           /\ LastPlace(s) => ListedNext(s) = Listed(s)
<1> DEFINE place(i) == {i} \X Cache([resource |-> AnchorOf(rule[s]), ns |-> Places(s)[i]])
           n == Len(Places(s))
           l == listed[s]
<1>1. n \in Nat /\ l \in Nat /\ l < n
  <2>1. ScraperInv(s)
    BY DEF TypeInv
  <2> QED
    BY <2>1, ListedFrom DEF ScraperInv
<1>2. rule[s] \in RuleIndex
  BY RuleIsOne
<1>3. Listed(s) = UNION {place(i) : i \in 1..n}
  BY <1>2 DEF Listed, References, Reference, ListAll, Places
<1>4. ListedNext(s) = anchors[s] \cup place(l + 1)
  BY DEF ListedNext
<1>5. LastPlace(s) <=> l + 1 = n
  BY DEF LastPlace
<1>6. \A i : \A a \in place(i) : a[1] = i
  OBVIOUS
<1>7. anchors[s] = {a \in Listed(s) : a[1] <= l}
  OBVIOUS
<1> HIDE DEF place, n, l
<1>8. \A a \in Listed(s) : a[1] \in 1..n /\ a \in place(a[1])
  BY <1>3, <1>6
<1>9. \A a \in place(l + 1) : a \in Listed(s) /\ a[1] = l + 1
  <2>1. l + 1 \in 1..n
    BY <1>1
  <2> QED
    BY <1>3, <1>6, <2>1
<1>10. ASSUME NEW a \in Listed(s), a[1] <= l + 1 PROVE a \in ListedNext(s)
  <2>1. a[1] <= l \/ a[1] = l + 1
    BY <1>1, <1>8, <1>10
  <2> QED
    BY <1>4, <1>7, <1>8, <2>1
<1>11. ASSUME NEW a \in ListedNext(s) PROVE a \in Listed(s) /\ a[1] <= l + 1
  <2>1. CASE a \in anchors[s]
    BY <1>1, <1>7, <1>8, <2>1
  <2>2. CASE a \in place(l + 1)
    BY <1>1, <1>9, <2>2
  <2> QED
    BY <1>4, <2>1, <2>2
<1>12. ListedNext(s) = {a \in Listed(s) : a[1] <= l + 1}
  BY <1>10, <1>11
<1>13. LastPlace(s) => \A a \in Listed(s) : a[1] <= l + 1
  BY <1>1, <1>5, <1>8
<1> QED
  BY <1>12, <1>13 DEF l

\* With nothing dealt with there are no keys.
LEMMA NoKeysYet == \A x : KeysOf(x, {}) = {}
  BY DEF KeysOf, Due

\* Before a rule emits, it has sent nothing.
LEMMA NothingSentYet ==
    ASSUME SeriesInv, NEW s \in Scrapers, pc[s] \in {"list", "anchors", "walk", "materialised"}
    PROVE  Sent(s, rule[s]) = {}
  BY DEF SeriesInv, SeriesScraper, Sent

\* The metrics sent are a sequence.
LEMMA OutIsSeq ==
    ASSUME TypeInv, NEW s \in Scrapers
    PROVE  \E S : out[s] \in Seq(S)
  BY DEF TypeInv, ScraperInv

\* Nothing dealt with, nothing pending: matched.
LEMMA NothingDealt ==
    ASSUME TypeInv, SeriesInv, NEW s \in Scrapers, pc[s] = "list"
    PROVE  Matched(References[rule[s]], {}, Sent(s, rule[s]), out[s], <<>>)
<1>1. PICK S : out[s] \in Seq(S)
  BY OutIsSeq
<1>2. Sent(s, rule[s]) = {}
  BY NothingSentYet
<1> QED
  BY <1>1, <1>2, MatchedNone

\* A rule begins with nothing listed.
LEMMA ExactBegin ==
    ASSUME TypeInv, FreshInv, NEW s \in Scrapers, BeginRule(s), StableScraper(s)
    PROVE  StableScraper(s)'
<1>1. Shape /\ ScraperInv(s) /\ FreshScraper(s) /\ References' = References
  BY StepKeepsReferences DEF TypeInv, FreshInv, CollectStep, Proceed
<1>2. /\ pc[s] = "rules" /\ pc'[s] = "list" /\ rule'[s] = rule[s] + 1
      /\ out'[s] = out[s] /\ anchors'[s] = {} /\ listed'[s] = 0
  BY <1>1 DEF BeginRule, Shape, FreshScraper, ScraperInv, InRule, InCollect
<1>3. rule'[s] \in RuleIndex /\ rule[s] \in Nat
  BY <1>1, <1>2, RulesAssumption DEF BeginRule, ScraperInv, RuleIndex
<1>4. \A a \in Listed(s)' : a[1] \in Nat /\ a[1] # 0
  <2>1. \A a \in DOMAIN References'[rule'[s]] : a[1] \in Nat /\ a[1] # 0
    <3>1. ASSUME NEW a \in DOMAIN References[rule'[s]] PROVE a[1] \in Nat /\ a[1] # 0
      BY <1>3, ReferenceAnchors
    <3> QED
      BY <1>1, <3>1
  <2> QED
    BY <2>1 DEF Listed
<1>5. StableRule(s)'
  BY <1>2, <1>4 DEF StableRule
<1>6. ASSUME NEW r \in RuleIndex, Finished(s, r)' PROVE DoneWith(s, r)'
  <2>1. r < rule[s] + 1 /\ r \in Nat
    BY <1>2, <1>6, RulesAssumption DEF Finished, RuleIndex
  <2>2. Finished(s, r)
    BY <1>2, <1>3, <2>1 DEF Finished
  <2>3. DoneWith(s, r)
    BY <2>2 DEF StableScraper
  <2> QED
    BY <1>1, <1>2, <2>3, DoneKept
<1> QED
  BY <1>5, <1>6 DEF StableScraper

\* Listing gets to all anchors of the reference.
LEMMA ExactList ==
    ASSUME TypeInv, SeriesInv, KeysInv, NEW s \in Scrapers,
           ListNamespace(s) \/ ListAnchors(s) \/ ListNothing(s), StableScraper(s)
    PROVE  StableScraper(s)'
<1>1. Shape /\ ScraperInv(s) /\ References' = References /\ KeysScraper(s)
  BY StepKeepsReferences DEF TypeInv, KeysInv, CollectStep, Proceed
<1>2. /\ pc[s] = "list" /\ rule'[s] = rule[s] /\ out'[s] = out[s] /\ keys'[s] = {}
      /\ pending'[s] = <<>>
  BY <1>1
     DEF ListNamespace, ListAnchors, ListNothing, Shape, ScraperInv, KeysScraper, seriesVars
<1>3. /\ anchors[s] = {a \in Listed(s) : a[1] <= listed[s]}
      /\ Listed(s)' = Listed(s) /\ Sent(s, rule[s])' = Sent(s, rule[s])
  BY <1>1, <1>2 DEF StableScraper, StableRule, Listed, Sent
<1>4. /\ ListedNext(s) = {a \in Listed(s) : a[1] <= listed[s] + 1}
      /\ LastPlace(s) => ListedNext(s) = Listed(s)
  BY <1>2, <1>3, ListedPart
<1>5. Matched(References[rule[s]], {}, Sent(s, rule[s]), out[s], <<>>)
  BY <1>2, NothingDealt
<1>6. ASSUME NEW r \in RuleIndex, Finished(s, r) PROVE DoneWith(s, r)'
  BY <1>1, <1>2, <1>6, DoneKept DEF StableScraper
<1>7. rule[s] \in Nat
  BY <1>1, RulesAssumption DEF ScraperInv
<1>8. CASE ListNamespace(s)
  <2>1. pc'[s] = "list" /\ anchors'[s] = ListedNext(s) /\ listed'[s] = listed[s] + 1
    BY <1>1, <1>2, <1>8 DEF ListNamespace, Shape
  <2>2. StableRule(s)'
    BY <1>3, <1>4, <2>1 DEF StableRule
  <2>3. \A r : Finished(s, r)' => Finished(s, r)
    BY <1>2, <2>1 DEF Finished
  <2> QED
    BY <1>6, <2>2, <2>3 DEF StableScraper
<1>9. CASE ListAnchors(s)
  <2>1. pc'[s] = "anchors" /\ anchors'[s] = Listed(s)
    BY <1>1, <1>4, <1>9 DEF ListAnchors, Shape
  <2>2. Dealt(s, {})'
    BY <1>1, <1>2, <1>3, <1>5, NoKeysYet DEF Dealt, Sent
  <2>3. Listed(s)' \ anchors'[s] = {}
    BY <1>3, <2>1
  <2>4. StableRule(s)'
    BY <1>3, <2>1, <2>2, <2>3 DEF StableRule
  <2>5. \A r : Finished(s, r)' => Finished(s, r)
    BY <1>2, <2>1 DEF Finished
  <2> QED
    BY <1>6, <2>4, <2>5 DEF StableScraper
<1>10. CASE ListNothing(s)
  <2>1. pc'[s] = "counting" /\ Listed(s) = {}
    BY <1>1, <1>4, <1>10 DEF ListNothing, Shape
  <2>2. DoneWith(s, rule[s])'
    BY <1>1, <1>2, <1>3, <1>5, <2>1 DEF DoneWith, Listed, Sent
  <2>3. StableRule(s)'
    BY <2>1 DEF StableRule
  <2>4. \A r : Finished(s, r)' => Finished(s, r) \/ r = rule[s]
    BY <1>2, <2>1 DEF Finished
  <2> QED
    BY <1>2, <1>6, <2>2, <2>3, <2>4 DEF StableScraper
<1> QED
  BY <1>8, <1>9, <1>10

\* The walk of an anchor begins at its own distance 0.
LEMMA ExactTake ==
    ASSUME SourcesAreDistinct, TypeInv, FreshInv, NEW s \in Scrapers,
           TakeAnchor(s), StableScraper(s)
    PROVE  StableScraper(s)'
<1>1. /\ Shape /\ ScraperInv(s) /\ References' = References
      /\ Ancestries' = Ancestries
  BY StepKeepsReferences DEF TypeInv, CollectStep, Proceed
<1>2. PICK a \in anchors[s] :
         /\ anchors'[s] = anchors[s] \ {a}
         /\ obj'[s] = a[2] /\ cur'[s] = a[2]
         /\ chain'[s] = StartChain(a[2])
  BY <1>1 DEF TakeAnchor, Shape
<1>3. /\ pc[s] = "anchors" /\ pc'[s] = "walk" /\ depth'[s] = 0 /\ rule'[s] = rule[s]
      /\ pending'[s] = pending[s] /\ keys'[s] = keys[s] /\ out'[s] = out[s]
  BY <1>1 DEF TakeAnchor, Shape, seriesVars
<1>4. /\ anchors[s] \subseteq Listed(s) /\ Dealt(s, Listed(s) \ anchors[s])
      /\ Listed(s)' = Listed(s)
  BY <1>1, <1>3 DEF StableScraper, StableRule, Listed
<1>5. a[2] \in Objects /\ ResolvesGVK(a[2].gvk)
  <2>1. rule[s] \in RuleIndex
    BY <1>3, RuleIsOne
  <2> QED
    BY <1>2, <1>4, <2>1, ReferenceAnchors DEF Listed
<1>6. Climbed(s)'
  <2> DEFINE f == Ancestries[a[2]]
  <2>1. f[0] = a[2]
    BY <1>5, AncestorSteps DEF Ancestries
  <2>2. f[0] # Absent
    BY <1>5, <2>1, ObjectsAssumption
  <2> HIDE DEF f
  <2>3. \A source \in ChainSources : StartChain(a[2])[source] = Filed(f, 0, source)
    BY <1>5, <2>1, ChainStarts
  <2>4. 0..0 = {0}
    OBVIOUS
  <2>5. Ancestries'[obj'[s]] = f
    BY <1>1, <1>2 DEF f
  <2> QED
    BY <1>2, <1>3, <2>1, <2>2, <2>3, <2>4, <2>5 DEF Climbed
<1>7. \A D : Dealt(s, D) => Dealt(s, D)'
  BY <1>1, <1>3 DEF Dealt, Sent
<1>8. /\ a \in Listed(s)' \ anchors'[s] /\ anchors'[s] \subseteq Listed(s)'
      /\ Listed(s)' \ (anchors'[s] \cup {a}) = Listed(s) \ anchors[s]
  BY <1>2, <1>4
<1>9. StableRule(s)'
  <2>1. Dealt(s, Listed(s) \ (anchors[s] \cup {a}))'
    BY <1>4, <1>7, <1>8
  <2> QED
    BY <1>2, <1>3, <1>6, <1>8, <2>1 DEF StableRule
<1>10. \A r : Finished(s, r)' <=> Finished(s, r)
  BY <1>3 DEF Finished
<1> QED
  BY <1>1, <1>3, <1>9, <1>10, DoneKept DEF StableScraper

\* Each owner is the next ancestor.
LEMMA ExactOwner ==
    ASSUME SourcesAreDistinct, TypeInv, FreshInv, NEW s \in Scrapers,
           WalkOwner(s), StableScraper(s)
    PROVE  StableScraper(s)'
<1>1. /\ Shape /\ ScraperInv(s) /\ References' = References
      /\ Ancestries' = Ancestries /\ InformersInv
  BY StepKeepsReferences DEF TypeInv, FreshInv, CollectStep, Proceed, InformersInv
<1>2. /\ pc[s] = "walk" /\ pc'[s] = "walk" /\ rule'[s] = rule[s] /\ obj'[s] = obj[s]
      /\ anchors'[s] = anchors[s]
      /\ pending'[s] = pending[s] /\ keys'[s] = keys[s] /\ out'[s] = out[s]
      /\ depth'[s] = depth[s] + 1 /\ cur'[s] = Parent(cur[s])
      /\ chain'[s] = ExtendChain(chain[s], depth[s], cur[s], Parent(cur[s]))
      /\ depth[s] < MaxDepth /\ Parent(cur[s]) # Absent
  BY <1>1 DEF WalkOwner, WalkGoesOn, Shape, seriesVars
<1>3. PICK a \in Listed(s) \ anchors[s] :
         /\ anchors[s] \subseteq Listed(s)
         /\ a[2] = obj[s]
         /\ Dealt(s, Listed(s) \ (anchors[s] \cup {a}))
         /\ Climbed(s)
  BY <1>2 DEF StableScraper, StableRule
<1>4. Climbed(s)'
  <2> DEFINE f == Ancestries[obj[s]]
             d == depth[s]
  <2>1. /\ d \in Nat /\ MaxDepth \in Nat /\ d < MaxDepth /\ obj[s] \in Objects
        /\ cur[s] \in Objects /\ chain[s] \in Chains
    BY <1>1, <1>2, MaxDepthAssumption DEF ScraperInv
  <2>2. f = Ancestor(obj[s])
    BY <2>1 DEF Ancestries
  <2>3. /\ \A n \in 0..d : f[n] # Absent
        /\ cur[s] = f[d]
        /\ \A source \in ChainSources : chain[s][source] = Filed(f, d, source)
    BY <1>3 DEF Climbed
  <2>4. f[d + 1] = Parent(cur[s])
    <3>1. d + 1 \in 1..MaxDepth /\ d + 1 - 1 = d
      BY <2>1
    <3>2. \A n \in 1..MaxDepth : f[n] = Above(f[n - 1])
      BY <2>2, AncestorSteps
    <3>3. cur[s] # Absent
      BY <2>1, ObjectsAssumption
    <3> HIDE DEF f, d
    <3>4. \A n \in 1..MaxDepth : n = d + 1 => f[n] = Above(f[d])
      <4> SUFFICES ASSUME NEW n \in 1..MaxDepth, n = d + 1 PROVE f[n] = Above(f[d])
        OBVIOUS
      <4>1. n - 1 = d
        BY <2>1
      <4>2. f[n] = Above(f[n - 1])
        BY <3>2
      <4> QED
        BY <4>1, <4>2
    <3> QED
      BY <2>3, <3>1, <3>3, <3>4 DEF Above
  <2>5. /\ ResolvesGVK(f[d + 1].gvk)
        /\ ResourceForGVK(f[d + 1].gvk) = OwnerResource(ControllerRef(f[d]))
    BY <1>1, <1>2, <2>3, <2>4, ParentIsOfItsResource
  <2>6. Ancestries'[obj'[s]] = f
    BY <1>1, <1>2
  <2> HIDE DEF f, d
  <2>7. \A source \in ChainSources :
           ExtendChain(chain[s], d, f[d], f[d + 1])[source] = Filed(f, d + 1, source)
    BY <2>1, <2>3, <2>5, ChainExtends
  <2>8. chain'[s] = ExtendChain(chain[s], d, f[d], f[d + 1]) /\ cur'[s] = f[d + 1]
        /\ depth'[s] = d + 1
    BY <1>2, <2>3, <2>4 DEF d
  <2>9. \A n \in 0..(d + 1) : f[n] # Absent
    <3>1. \A n \in 0..(d + 1) : n \in 0..d \/ n = d + 1
      BY <2>1
    <3> QED
      BY <1>2, <2>3, <2>4, <3>1
  <2> QED
    BY <2>6, <2>7, <2>8, <2>9 DEF Climbed
<1>5. Dealt(s, Listed(s) \ (anchors[s] \cup {a}))' /\ Listed(s)' = Listed(s)
  <2>1. \A D : Dealt(s, D) => Dealt(s, D)'
    BY <1>1, <1>2 DEF Dealt, Sent
  <2>2. Listed(s)' = Listed(s)
    BY <1>1, <1>2 DEF Listed
  <2> QED
    BY <1>2, <1>3, <2>1, <2>2
<1>6. StableRule(s)'
  BY <1>2, <1>3, <1>4, <1>5 DEF StableRule
<1>7. \A r : Finished(s, r)' <=> Finished(s, r)
  BY <1>2 DEF Finished
<1> QED
  BY <1>1, <1>2, <1>6, <1>7, DoneKept DEF StableScraper

\* The series of an anchor have the labels the reference says.
AsIn(new, ref, a) ==
    /\ Len(new) = Len(ref[a])
    /\ \A n \in 1..Len(new) : SameSeries(new[n], ref[a][n])

\* The keys of one more anchor are those of its series.
LEMMA KeysMore ==
    ASSUME NEW ref, NEW D, NEW a, NEW new, AsIn(new, ref, a)
    PROVE  UnionKeys(KeysOf(ref, D), new) = KeysOf(ref, D \cup {a})
<1>1. Due(ref, D \cup {a}) = Due(ref, D) \cup {<<a, n>> : n \in 1..Len(new)}
  BY DEF Due, AsIn
<1>2. \A n \in 1..Len(new) : DOMAIN new[n].dynamic = DOMAIN ItemAt(ref, <<a, n>>).dynamic
  BY DEF SameSeries, ItemAt, AsIn
<1>3. ASSUME NEW label \in UnionKeys(KeysOf(ref, D), new)
      PROVE  label \in KeysOf(ref, D \cup {a})
  <2>1. CASE label \in KeysOf(ref, D)
    <3>1. PICK x \in Due(ref, D) : label \in DOMAIN ItemAt(ref, x).dynamic
      BY <2>1 DEF KeysOf
    <3> QED
      BY <1>1, <3>1 DEF KeysOf
  <2>2. CASE label \notin KeysOf(ref, D)
    <3>1. PICK n \in 1..Len(new) : label \in DOMAIN new[n].dynamic
      BY <1>3, <2>2 DEF UnionKeys
    <3>2. <<a, n>> \in Due(ref, D \cup {a})
      BY <1>1
    <3> QED
      BY <1>2, <3>1, <3>2 DEF KeysOf
  <2> QED
    BY <2>1, <2>2
<1>4. ASSUME NEW label \in KeysOf(ref, D \cup {a})
      PROVE  label \in UnionKeys(KeysOf(ref, D), new)
  <2>1. PICK x \in Due(ref, D \cup {a}) : label \in DOMAIN ItemAt(ref, x).dynamic
    BY DEF KeysOf
  <2>2. CASE x \in Due(ref, D)
    BY <2>1, <2>2 DEF KeysOf, UnionKeys
  <2>3. CASE x \notin Due(ref, D)
    <3>1. PICK n \in 1..Len(new) : x = <<a, n>>
      BY <1>1, <2>1, <2>3
    <3> QED
      BY <1>2, <2>1, <3>1 DEF UnionKeys
  <2> QED
    BY <2>2, <2>3
<1> QED
  BY <1>3, <1>4

\* When the walk ends the chain is that of the reference.
LEMMA ChainIsTheReference ==
    ASSUME SourcesAreDistinct, TypeInv, NEW s \in Scrapers,
           pc[s] = "walk", ~WalkGoesOn(s), Climbed(s)
    PROVE  \A source \in ChainSources :
              chain[s][source] = ReferenceChain(Ancestries[obj[s]])[source]
<1> DEFINE f == Ancestries[obj[s]]
           d == depth[s]
<1>1. ScraperInv(s)
  BY DEF TypeInv
<1>2. d \in 0..MaxDepth /\ obj[s] \in Objects /\ cur[s] \in Objects /\ MaxDepth \in Nat
  BY <1>1, MaxDepthAssumption DEF ScraperInv
<1>3. f = Ancestor(obj[s])
  BY <1>2 DEF Ancestries
<1>4. /\ \A n \in 0..d : f[n] # Absent
      /\ cur[s] = f[d]
      /\ \A source \in ChainSources : chain[s][source] = Filed(f, d, source)
  BY DEF Climbed
<1>5. d < MaxDepth => Above(f[d]) = Absent
  BY <1>4 DEF Above, WalkGoesOn
<1>6. \A n \in 0..MaxDepth : n > d => f[n] = Absent
  <2>1. d < MaxDepth => Above(Ancestor(obj[s])[d]) = Absent
    BY <1>3, <1>5
  <2> HIDE DEF d
  <2> QED
    BY <1>2, <1>3, <2>1, NothingAbove
<1> HIDE DEF f, d
<1>7. \A source \in ChainSources : Filed(f, d, source) = ReferenceChain(f)[source]
  BY <1>2, <1>4, <1>6, ChainEnds
<1> QED
  BY <1>4, <1>7 DEF f

\* The series of the anchor are those of the reference, and so are the keys.
LEMMA ExactWalk ==
    ASSUME SourcesAreDistinct, TypeInv, FreshInv, NEW s \in Scrapers,
           EndWalk(s), StableScraper(s)
    PROVE  StableScraper(s)'
<1> DEFINE new == SeriesOf(rule[s], obj[s], chain[s])
           ref == References[rule[s]]
<1>1. Shape /\ ScraperInv(s) /\ References' = References
  BY StepKeepsReferences DEF TypeInv, CollectStep, Proceed
<1>2. /\ pc[s] = "walk" /\ rule'[s] = rule[s] /\ anchors'[s] = anchors[s] /\ out'[s] = out[s]
      /\ pc'[s] \in {"materialised", "anchors"}
      /\ pending'[s] = pending[s] \o new /\ keys'[s] = UnionKeys(keys[s], new)
      /\ ~WalkGoesOn(s)
  BY <1>1 DEF EndWalk, Shape
<1>3. PICK a \in Listed(s) \ anchors[s] :
         /\ anchors[s] \subseteq Listed(s)
         /\ a[2] = obj[s]
         /\ Dealt(s, Listed(s) \ (anchors[s] \cup {a}))
         /\ Climbed(s)
  BY <1>2 DEF StableScraper, StableRule
<1> DEFINE D == Listed(s) \ (anchors[s] \cup {a})
<1>4. rule[s] \in RuleIndex /\ obj[s] \in Objects /\ chain[s] \in Chains
  BY <1>1, <1>2, RuleIsOne DEF ScraperInv
<1>5. ref[a] = SeriesOf(rule[s], obj[s], ReferenceChain(Ancestries[obj[s]]))
  BY <1>3, <1>4, ReferenceAnchors DEF Listed
<1>6. \A source \in ChainSources :
         chain[s][source] = ReferenceChain(Ancestries[obj[s]])[source]
  BY <1>2, <1>3, ChainIsTheReference
<1>7. /\ Len(new) = Len(EvaluateForEach(Rules[rule[s]], obj[s], Absent))
      /\ Len(ref[a]) = Len(new)
  BY <1>4, <1>5, SeriesPerItem
<1>8. \A n \in 1..Len(new) : SameSeries(new[n], ref[a][n])
  BY <1>4, <1>5, <1>6, <1>7, SameChainSameSeries
<1>9. /\ new \in Seq(SeriesOfRule(rule[s])) /\ pending[s] \in Seq(SeriesOfRule(rule[s]))
      /\ Sent(s, rule[s]) \in SUBSET (1..Len(out[s]))
  BY <1>1, <1>4, SeriesOfType DEF ScraperInv, Sent
<1>10. PICK S : out[s] \in Seq(S)
  BY OutIsSeq
<1>11. /\ a \notin D /\ D \cup {a} = Listed(s) \ anchors[s]
       /\ Matched(ref, D, Sent(s, rule[s]), out[s], pending[s])
       /\ keys[s] = KeysOf(ref, D)
  BY <1>3 DEF Dealt
<1> HIDE DEF new, ref, D
<1>12. Matched(ref, D \cup {a}, Sent(s, rule[s]), out[s], pending[s] \o new)
  BY <1>7, <1>8, <1>9, <1>10, <1>11, MatchedMore
<1>13. UnionKeys(keys[s], new) = KeysOf(ref, D \cup {a})
  <2>1. UnionKeys(KeysOf(ref, D), new) = KeysOf(ref, D \cup {a})
    <3>1. AsIn(new, ref, a)
      BY <1>7, <1>8 DEF AsIn
    <3> QED
      BY <3>1, KeysMore
  <2> QED
    BY <1>11, <2>1
<1>14. Sent(s, rule[s])' = Sent(s, rule[s]) /\ Listed(s)' = Listed(s)
  BY <1>1, <1>2 DEF Sent, Listed
<1>15. Dealt(s, Listed(s) \ anchors[s])'
  BY <1>1, <1>2, <1>11, <1>12, <1>13, <1>14 DEF Dealt, ref
<1>16. StableRule(s)'
  BY <1>2, <1>3, <1>14, <1>15 DEF StableRule
<1>17. \A r : Finished(s, r)' <=> Finished(s, r)
  BY <1>2 DEF Finished
<1> QED
  BY <1>1, <1>2, <1>16, <1>17, DoneKept DEF StableScraper

\* A series is sent with its row of the reference.
LEMMA EmittedRow ==
    ASSUME NEW r, NEW x \in SeriesOfRule(r), NEW buffer, NEW ref, NEW place,
           DOMAIN x.dynamic \subseteq DOMAIN buffer.dynamic,
           DescValid(r, DOMAIN buffer.dynamic),
           DOMAIN buffer.dynamic = KeysOf(ref, DOMAIN ref),
           SameSeries(x, ItemAt(ref, place))
    PROVE  Metric(r, FillValues(buffer, x), x.from).labels = Row(ref, place)
<1> DEFINE m   == Metric(r, FillValues(buffer, x), x.from)
           own == EvaluateOneSeries(Rules[r], x.from, Absent)
<1>1. /\ m.rule = r
      /\ DOMAIN m.labels = FixedLabels(r) \cup DOMAIN buffer.dynamic
      /\ HasOwnValues(m)
  BY EmittedOwn
<1>2. m.from = x.from /\ m.labels = [label \in DOMAIN m.labels |-> m.labels[label]]
  BY DEF Metric
<1>3. x.fixed = own.fixed /\ x.dynamic = own.dynamic /\ DOMAIN own.fixed = FixedLabels(r)
  <2>1. x.fixed = own.fixed /\ x.dynamic = own.dynamic
    BY SeriesFrom DEF Series
  <2>2. DOMAIN own.fixed = FixedLabels(r)
    BY DEF EvaluateOneSeries, FixedLabels
  <2> QED
    BY <2>1, <2>2
<1> HIDE DEF m
<1>4. OwnOf(m) = own
  BY <1>1, <1>2 DEF OwnOf
<1> HIDE DEF own
<1>5. /\ ItemAt(ref, place).fixed = own.fixed
      /\ ItemAt(ref, place).dynamic = own.dynamic
  BY <1>3 DEF SameSeries
<1>6. \A label : OwnValue(own, label) = OwnValue(ItemAt(ref, place), label)
  BY <1>5 DEF OwnValue
<1>7. \A label \in DOMAIN m.labels : m.labels[label] = OwnValue(ItemAt(ref, place), label)
  BY <1>1, <1>4, <1>6 DEF HasOwnValues
<1>8. DOMAIN m.labels = DOMAIN ItemAt(ref, place).fixed \cup KeysOf(ref, DOMAIN ref)
  BY <1>1, <1>3, <1>5
<1> QED
  BY <1>2, <1>7, <1>8 DEF Row, m

\* One series of the queue is sent; the other rules keep theirs.
LEMMA ExactEmit ==
    ASSUME TypeInv, FreshInv, SeriesInv, KeysInv, NEW s \in Scrapers,
           EmitSeries(s), StableScraper(s)
    PROVE  StableScraper(s)'
<1> DEFINE x   == Head(pending[s])
           m   == Metric(rule[s], FillValues(values[s], x), x.from)
           ref == References[rule[s]]
           l   == Len(out[s])
<1>1. /\ Shape /\ ScraperInv(s) /\ FreshScraper(s) /\ SeriesScraper(s) /\ KeysScraper(s)
      /\ References' = References
  BY StepKeepsReferences DEF TypeInv, FreshInv, SeriesInv, KeysInv, CollectStep, Proceed
<1>2. /\ pc[s] = "emit" /\ pc'[s] = "emit" /\ rule'[s] = rule[s] /\ anchors'[s] = anchors[s]
      /\ keys'[s] = keys[s] /\ pending[s] # <<>> /\ pending'[s] = Tail(pending[s])
      /\ out'[s] = IF DescValid(rule[s], keys[s]) THEN Append(out[s], m) ELSE out[s]
  BY <1>1 DEF EmitSeries, Shape, walkVars
<1>3. anchors[s] = {} /\ rule[s] \in RuleIndex
  BY <1>1, <1>2, RuleIsOne DEF FreshScraper
<1>4. DescValid(rule[s], keys[s])
  BY <1>1 DEF KeysScraper, DescValid, FixedLabels
<1>5. /\ Matched(ref, DOMAIN ref, Sent(s, rule[s]), out[s], pending[s])
      /\ keys[s] = KeysOf(ref, DOMAIN ref)
  <2>1. Dealt(s, Listed(s) \ anchors[s])
    BY <1>2 DEF StableScraper, StableRule
  <2>2. Listed(s) \ anchors[s] = DOMAIN ref
    BY <1>3 DEF Listed
  <2> QED
    BY <2>1, <2>2 DEF Dealt
<1>6. /\ pending[s] \in Seq(SeriesOfRule(rule[s])) /\ x \in SeriesOfRule(rule[s])
      /\ DOMAIN x.dynamic \subseteq keys[s] /\ DOMAIN values[s].dynamic = keys[s]
  <2>1. /\ pending[s] \in Seq(SeriesOfRule(rule[s]))
        /\ x = pending[s][1] /\ 1 \in 1..Len(pending[s])
    BY <1>1, <1>2, EmptySeq, LenProperties DEF ScraperInv
  <2>2. x \in SeriesOfRule(rule[s])
    BY <2>1, ElementOfSeq
  <2>3. DOMAIN x.dynamic \subseteq keys[s] /\ DOMAIN values[s].dynamic = keys[s]
    BY <1>1, <1>2, <2>1 DEF SeriesScraper
  <2> QED
    BY <2>1, <2>2, <2>3
<1>7. \A place \in Due(ref, DOMAIN ref) :
         SameSeries(x, ItemAt(ref, place)) => m.labels = Row(ref, place)
  <2> HIDE DEF x, ref
  <2> QED
    BY <1>4, <1>5, <1>6, EmittedRow
<1>8. PICK S : out[s] \in Seq(S)
  BY OutIsSeq
<1>9. m.rule = rule[s]
  BY DEF Metric
<1> HIDE DEF m, ref, x
<1>10. /\ out'[s] = Append(out[s], m) /\ l \in Nat
       /\ Len(out'[s]) = l + 1
       /\ \A i \in 1..l : out'[s][i] = out[s][i]
       /\ out'[s][l + 1] = m
  <2>1. out[s] \in Seq(S \cup {m})
    BY <1>8, SeqMonotonic
  <2> QED
    BY <1>2, <1>4, <2>1, AppendProperties, LenProperties
<1>11. /\ Sent(s, rule[s])' = Sent(s, rule[s]) \cup {l + 1}
       /\ \A q : q # rule[s] => Sent(s, q)' = Sent(s, q)
  <2> HIDE DEF l
  <2>1. \A i : i \in 1..(l + 1) <=> i \in 1..l \/ i = l + 1
    BY <1>10
  <2>2. \A i \in 1..l : i # l + 1
    BY <1>10
  <2>3. \A q : /\ Sent(s, q) = {i \in 1..l : out[s][i].rule = q}
               /\ Sent(s, q)' = {i \in 1..(l + 1) : out'[s][i].rule = q}
    BY <1>10 DEF Sent, l
  <2>4. \A q : Sent(s, q)' = Sent(s, q) \cup (IF q = rule[s] THEN {l + 1} ELSE {})
    BY <1>9, <1>10, <2>1, <2>2, <2>3
  <2> QED
    BY <1>2, <2>4
<1>12. \A q : Sent(s, q) \in SUBSET (1..l)
  BY DEF Sent
<1>13. Matched(ref, DOMAIN ref, Sent(s, rule[s]) \cup {l + 1}, out'[s], pending'[s])
  <2> DEFINE sent  == Sent(s, rule[s])
             queue == pending[s]
             metrics == out[s]
             D == DOMAIN ref
  <2>1. /\ metrics \in Seq(S) /\ sent \in SUBSET (1..Len(metrics))
        /\ queue \in Seq(SeriesOfRule(rule[s])) /\ queue # <<>>
        /\ Matched(ref, D, sent, metrics, queue)
    BY <1>2, <1>5, <1>6, <1>8, <1>12
  <2>2. \A place \in Due(ref, D) :
           SameSeries(Head(queue), ItemAt(ref, place)) => m.labels = Row(ref, place)
    BY <1>7 DEF x
  <2>3. out'[s] = Append(metrics, m) /\ pending'[s] = Tail(queue) /\ l = Len(metrics)
    BY <1>2, <1>10
  <2> HIDE DEF sent, queue, metrics, D, l
  <2>4. Matched(ref, D, sent \cup {Len(metrics) + 1}, Append(metrics, m), Tail(queue))
    BY <2>1, <2>2, MatchedSend
  <2> QED
    BY <2>3, <2>4 DEF sent, D
<1>14. Listed(s)' = Listed(s) /\ Listed(s) = DOMAIN ref
  BY <1>1, <1>2 DEF Listed, ref
<1>15. Dealt(s, Listed(s) \ anchors[s])'
  BY <1>1, <1>2, <1>3, <1>5, <1>11, <1>13, <1>14 DEF Dealt, ref
<1>16. StableRule(s)'
  BY <1>2, <1>3, <1>14, <1>15 DEF StableRule
<1>17. ASSUME NEW q \in RuleIndex, Finished(s, q)' PROVE DoneWith(s, q)'
  <2>1. Finished(s, q) /\ q # rule[s]
    BY <1>2, <1>3, <1>17 DEF Finished, RuleIndex
  <2>2. Matched(References[q], DOMAIN References[q], Sent(s, q), out[s], <<>>)
    BY <2>1 DEF StableScraper, DoneWith
  <2>3. Matched(References[q], DOMAIN References[q], Sent(s, q), Append(out[s], m), <<>>)
    BY <1>8, <1>12, <2>2, MatchedKept
  <2> QED
    BY <1>1, <1>10, <1>11, <2>1, <2>3 DEF DoneWith
<1> QED
  BY <1>16, <1>17 DEF StableScraper

\* A rule is done when its queue is empty, and Collect when its last rule is.
LEMMA ExactEnd ==
    ASSUME TypeInv, FreshInv, NEW s \in Scrapers,
           \/ BeginEmit(s) \/ EndRule(s)
           \/ IncCollect(s) \/ ObserveCollectDuration(s) \/ Unlock(s),
           StableScraper(s)
    PROVE  StableScraper(s)'
<1>1. Shape /\ ScraperInv(s) /\ FreshScraper(s) /\ References' = References
  BY StepKeepsReferences DEF TypeInv, FreshInv, CollectStep, Proceed
<1>2. out'[s] = out[s] /\ anchors'[s] = anchors[s] /\ pending'[s] = pending[s]
  BY DEF BeginEmit, EndRule, IncCollect, ObserveCollectDuration, Unlock, walkVars, seriesVars
<1>3. ASSUME NEW r \in RuleIndex, DoneWith(s, r) PROVE DoneWith(s, r)'
  BY <1>1, <1>2, <1>3, DoneKept
<1>4. rule[s] \in Nat
  BY <1>1, RulesAssumption DEF ScraperInv
<1>5. CASE BeginEmit(s)
  <2>1. /\ pc[s] = "materialised" /\ pc'[s] = "emit" /\ rule'[s] = rule[s] /\ keys'[s] = keys[s]
    BY <1>1, <1>5 DEF BeginEmit, Shape
  <2>2. Listed(s)' = Listed(s) /\ \A D : Dealt(s, D) => Dealt(s, D)'
    BY <1>1, <1>2, <2>1 DEF Listed, Dealt, Sent
  <2>3. StableRule(s)'
    BY <1>2, <2>1, <2>2 DEF StableScraper, StableRule
  <2>4. \A r : Finished(s, r)' <=> Finished(s, r)
    BY <2>1 DEF Finished
  <2> QED
    BY <1>3, <2>3, <2>4 DEF StableScraper
<1>6. CASE EndRule(s)
  <2>1. /\ pc[s] = "emit" /\ pc'[s] = "counting" /\ rule'[s] = rule[s] /\ pending[s] = <<>>
    BY <1>1, <1>6 DEF EndRule, Shape
  <2>2. anchors[s] = {}
    BY <1>1, <2>1 DEF FreshScraper
  <2>3. Dealt(s, Listed(s) \ anchors[s])
    BY <2>1 DEF StableScraper, StableRule
  <2>4. DoneWith(s, rule[s])
    <3>1. Listed(s) \ anchors[s] = DOMAIN References[rule[s]]
      BY <2>2 DEF Listed
    <3> QED
      BY <2>1, <2>3, <3>1 DEF Dealt, DoneWith
  <2>5. StableRule(s)'
    BY <2>1 DEF StableRule
  <2>6. \A r : Finished(s, r)' => Finished(s, r) \/ r = rule[s]
    BY <2>1 DEF Finished
  <2> QED
    BY <1>3, <2>4, <2>5, <2>6 DEF StableScraper
<1>7. CASE Unlock(s)
  <2>1. /\ pc[s] = "rules" /\ pc'[s] = "collected" /\ rule[s] = Len(Rules)
    BY <1>1, <1>7 DEF Unlock, Shape
  <2>2. ASSUME NEW r \in RuleIndex PROVE Finished(s, r)
    <3>1. r < rule[s] \/ r = rule[s]
      BY <1>4, <2>1 DEF RuleIndex
    <3> QED
      BY <2>1, <3>1 DEF Finished
  <2>3. StableRule(s)'
    BY <2>1 DEF StableRule
  <2> QED
    BY <1>3, <2>2, <2>3 DEF StableScraper
<1>8. CASE IncCollect(s) \/ ObserveCollectDuration(s)
  <2>1. /\ pc[s] \in {"counting", "observing"} /\ pc'[s] \in {"observing", "rules"}
        /\ rule'[s] = rule[s]
    BY <1>1, <1>8 DEF IncCollect, ObserveCollectDuration, Shape
  <2>2. StableRule(s)'
    BY <2>1 DEF StableRule
  <2>3. \A r : Finished(s, r)' <=> Finished(s, r)
    BY <2>1 DEF Finished
  <2> QED
    BY <1>3, <2>2, <2>3 DEF StableScraper
<1> QED
  BY <1>5, <1>6, <1>7, <1>8

\* A step of a scraper keeps every scraper that has seen the caches stand still exact.
LEMMA ExactInvStep ==
    ASSUME SourcesAreDistinct, TypeInv, MutexInv, FreshInv, SeriesInv, KeysInv, ExactInv,
           NEW s \in Scrapers, CollectStep(s)
    PROVE  ExactInv'
<1>a. /\ Shape /\ ScraperInv(s) /\ OnlyOwn(s)
      /\ References' = References /\ Ancestries' = Ancestries /\ pos' = pos
  BY StepIsOwn, StepKeepsReferences DEF TypeInv
<1>b. ASSUME NEW t \in Scrapers \ {s}, Quiet(t)' PROVE StableScraper(t)'
  <2>1. /\ pc'[t] = pc[t] /\ rule'[t] = rule[t] /\ listed'[t] = listed[t]
        /\ anchors'[t] = anchors[t] /\ obj'[t] = obj[t] /\ cur'[t] = cur[t]
        /\ depth'[t] = depth[t] /\ chain'[t] = chain[t] /\ pending'[t] = pending[t]
        /\ keys'[t] = keys[t] /\ out'[t] = out[t] /\ begun'[t] = begun[t]
    BY <1>a DEF Shape, OnlyOwn
  <2>2. Quiet(t)
    BY <1>a, <1>b, <2>1 DEF Quiet, InCollect
  <2>3. StableScraper(t)
    BY <2>2 DEF ExactInv
  <2> QED
    BY <1>a, <2>1, <2>3, StableFrame
<1>c. SUFFICES ASSUME Quiet(s)' PROVE StableScraper(s)'
  BY <1>b DEF ExactInv
<1>1. CASE Call(s) \/ Respond(s)
  <2>1. pc'[s] \in {"waiting", "idle"}
    BY <1>a, <1>1 DEF Call, Respond, Shape
  <2> QED
    BY <1>c, <2>1 DEF Quiet, InCollect
<1>2. CASE AcquireLock(s)
  <2>1. pc[s] = "waiting" /\ pc'[s] = "rules" /\ rule'[s] = rule[s]
    BY <1>a, <1>2 DEF AcquireLock, Shape
  <2>2. rule[s] = 0
    BY <2>1 DEF MutexInv, HolderInCollect, InCollect
  <2>3. \A r \in RuleIndex : ~(r < 0) /\ r # 0
    BY RulesAssumption DEF RuleIndex
  <2>4. \A r \in RuleIndex : ~Finished(s, r)'
    BY <2>1, <2>2, <2>3 DEF Finished
  <2> QED
    BY <2>1, <2>4 DEF StableScraper, StableRule
<1>3. CASE Proceed(s)
  <2>1. begun' = begun /\ pc[s] \notin {"idle", "waiting", "collected"}
    BY <1>3
       DEF Proceed, BeginRule, ListNamespace, ListAnchors, ListNothing, TakeAnchor, WalkOwner,
           EndWalk, BeginEmit, EmitSeries, EndRule, IncCollect, ObserveCollectDuration, Unlock
  <2>2. Quiet(s)
    BY <1>a, <1>c, <2>1 DEF Quiet, InCollect
  <2>3. StableScraper(s)
    BY <2>2 DEF ExactInv
  <2>4. CASE BeginRule(s)
    BY <2>3, <2>4, ExactBegin
  <2>5. CASE ListNamespace(s) \/ ListAnchors(s) \/ ListNothing(s)
    BY <2>3, <2>5, ExactList
  <2>6. CASE TakeAnchor(s)
    BY <2>3, <2>6, ExactTake
  <2>7. CASE WalkOwner(s)
    BY <2>3, <2>7, ExactOwner
  <2>8. CASE EndWalk(s)
    BY <2>3, <2>8, ExactWalk
  <2>9. CASE EmitSeries(s)
    BY <2>3, <2>9, ExactEmit
  <2>10. CASE \/ BeginEmit(s) \/ EndRule(s)
              \/ IncCollect(s) \/ ObserveCollectDuration(s) \/ Unlock(s)
    BY <2>3, <2>10, ExactEnd
  <2> QED
    BY <1>3, <2>4, <2>5, <2>6, <2>7, <2>8, <2>9, <2>10 DEF Proceed
<1> QED
  BY <1>1, <1>2, <1>3 DEF CollectStep

\* Every step does: if a cache moves, begun is no longer pos.
LEMMA ExactInvNext ==
    ASSUME SourcesAreDistinct
    PROVE  /\ TypeInv /\ MutexInv /\ FreshInv /\ SeriesInv /\ KeysInv /\ ExactInv
           /\ [Next]_vars
           => ExactInv'
<1> SUFFICES ASSUME TypeInv, MutexInv, FreshInv, SeriesInv, KeysInv, ExactInv, [Next]_vars
             PROVE  ExactInv'
  OBVIOUS
<1>1. ASSUME Environment \/ UNCHANGED vars, NEW s \in Scrapers, Quiet(s)'
      PROVE  StableScraper(s)'
  <2>1. UNCHANGED <<pc, rule, listed, anchors, obj, cur, depth, chain, pending, keys, out, begun>>
    BY <1>1 DEF Environment, CollectVars, vars, walkVars, seriesVars
  <2>2. /\ begun[s] = pos
        /\ \A inf \in Informers, k \in Keys : CacheEntry(inf, k)' = CacheEntry(inf, k)
    <3>1. CASE Environment
      BY <1>1, <3>1, PosKept DEF Quiet
    <3>2. CASE UNCHANGED vars
      <4>1. versions' = versions /\ pos' = pos
        BY <3>2 DEF vars
      <4> QED
        BY <1>1, <2>1, <4>1 DEF Quiet, CacheEntry
    <3> QED
      BY <1>1, <3>1, <3>2
  <2>3. StableScraper(s)
    BY <1>1, <2>1, <2>2 DEF ExactInv, Quiet, InCollect
  <2>4. References' = References /\ Ancestries' = Ancestries
    BY <2>2, ReferencesKept
  <2> QED
    BY <2>1, <2>3, <2>4, StableFrame
<1>2. ASSUME NEW s \in Scrapers, CollectStep(s) PROVE ExactInv'
  BY <1>2, ExactInvStep
<1>3. CASE Environment \/ UNCHANGED vars
  BY <1>1, <1>3 DEF ExactInv
<1> QED
  BY <1>2, <1>3 DEF Next, CollectStep

\* A scrape that is done has sent the rows of the reference.
LEMMA ExactInvImpliesExactWhenStable ==
    TypeInv /\ FreshInv /\ ExactInv => ExactWhenStable
<1> SUFFICES ASSUME TypeInv, FreshInv, ExactInv,
                    NEW s \in Scrapers, pc[s] = "collected", begun[s] = pos,
                    NEW r \in RuleIndex
             PROVE  Matches(out[s], Sent(s, r), Labelled(ExpectedSeries(r)))
  BY DEF ExactWhenStable
<1>1. DoneWith(s, r)
  BY DEF ExactInv, Quiet, StableScraper, Finished
<1>2. References[r] = Reference(r)
  BY DEF References
<1>3. PICK S : out[s] \in Seq(S)
  BY OutIsSeq
<1>4. Sent(s, r) \in SUBSET (1..Len(out[s]))
  BY DEF Sent
<1>5. Matches(out[s], Sent(s, r), Rows(Reference(r)))
  BY <1>1, <1>2, <1>3, <1>4, MatchedCount DEF DoneWith
<1>6. InformersInv
  BY DEF InformersInv, TypeInv, FreshInv
<1> QED
  BY <1>5, <1>6, ExpectedRows

(***************************************************************************)
(* If no cache changes during a Collect, each metric it sends is, one for  *)
(* one and label for label, what the caches say: a series per listed       *)
(* anchor and item, each source at the ancestor that the ownership graph   *)
(* gives it (Resolve, materialiseSeries, emitSeries).  For every watch     *)
(* list whose sources are distinct and every list of rules whose expanded  *)
(* labels cannot collide; without the one hypothesis a chain may hold the  *)
(* wrong object, without the other a rule may send nothing.                *)
(***************************************************************************)
THEOREM ScrapesAreExact ==
    SourcesAreDistinct /\ LabelsNeverCollide => (Spec => []ExactWhenStable)
<1> SUFFICES ASSUME SourcesAreDistinct, LabelsNeverCollide PROVE Spec => []ExactWhenStable
  OBVIOUS
<1>1. Spec => [](TypeInv /\ MutexInv /\ FreshInv)
  BY TypeInvInit, TypeInvNext, MutexInvInit, MutexInvNext, FreshInvInit, FreshInvNext, PTL
     DEF Spec
<1>2. Spec => []SeriesInv
  BY <1>1, SeriesInvInit, SeriesInvNext, PTL DEF Spec
<1>3. TypeInv /\ KeysInv /\ [Next]_vars => KeysInv'
  BY KeysInvNext
<1>4. Spec => []KeysInv
  BY <1>1, <1>3, KeysInvInit, PTL DEF Spec
<1>5. TypeInv /\ MutexInv /\ FreshInv /\ SeriesInv /\ KeysInv /\ ExactInv /\ [Next]_vars =>
          ExactInv'
  BY ExactInvNext
<1>6. Spec => []ExactInv
  BY <1>1, <1>2, <1>4, <1>5, ExactInvInit, PTL DEF Spec
<1> QED
  BY <1>1, <1>6, ExactInvImpliesExactWhenStable, PTL
=============================================================================
