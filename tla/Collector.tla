------------------------------ MODULE Collector ------------------------------
(***************************************************************************)
(* collector.Collector under concurrent scrapes.  Every GET /metrics runs  *)
(* Registry.Gather, which calls Collect; Collect holds scrapeMu and goes   *)
(* through the rules one by one: list the anchors, walk the owner chain of *)
(* each, evaluate its series, then emit all series of the rule.  The       *)
(* informer caches change between any two of its cache reads.              *)
(***************************************************************************)
EXTENDS OwnerResolver, Evaluator

CONSTANTS
    Rules,           \* sequence of [anchor, forEach, labels, expands]
    Scrapers,        \* the goroutines that may run Gather at the same time
    Free,            \* scrapeMu is not held
    ReservedLabels,  \* the dynamic label names that begin with "__"
    MaxCollects      \* bound: number of calls of Collect

RuleIndex == 1..Len(Rules)

AnchorOf(r) == ResourceFor(Rules[r].anchor).name

\* What Validate and New have established: there is a rule, every anchor and
\* source resolves, so the "error" branch of collectRule is never taken.
ASSUME RulesAssumption ==
    /\ Len(Rules) \in Nat \ {0}
    /\ \A r \in RuleIndex : Resolves(Rules[r].anchor)
    /\ Free \notin Scrapers
    /\ MaxCollects \in Nat

\* validateSource: a label's source is a role, the item or a resource.
LegalSources == Roles \cup ResourceSources \cup {"item"}

HasLegalSources(entries) ==
    Len(entries) \in Nat /\ \A i \in 1..Len(entries) : entries[i].source \in LegalSources

ASSUME SourcesAssumption ==
    \A r \in RuleIndex :
        /\ \A label \in DOMAIN Rules[r].labels : HasLegalSources(Rules[r].labels[label].extracts)
        /\ HasLegalSources(Rules[r].expands)

VARIABLES
    calls,      \* how many times Collect has been called (for the bound only)
    scrapeMu,   \* the scraper that holds the mutex, or Free
    pc,         \* where each scraper is
    rule,       \* collectRule's cr: the number of rules begun in this Collect
    listed,     \* ListAll: how many namespaces it has read
    anchors,    \* anchors not yet materialised, <<place in the list, object>>
    obj,        \* Resolve's obj, the anchor being materialised
    cur,        \* Resolve's current
    depth,      \* Resolve's i
    chain,      \* Resolve's chain
    pending,    \* materialiseSeries' pending, in order
    keys,       \* materialiseSeries' dynamicSet
    values,     \* emitSeries' values buffer
    out,        \* the metrics sent on ch and not yet consumed by Gather
    self,       \* the self-metrics of each rule
    reply,      \* the last response of each scraper
    begun       \* auxiliary: pos when the scraper acquired scrapeMu

walkVars   == <<obj, cur, depth, chain>>
seriesVars == <<pending, keys, values>>
vars == <<versions, pos, calls, scrapeMu, pc, rule, listed, anchors, obj, cur, depth,
          chain, pending, keys, values, out, self, reply, begun>>

NoChain    == [source \in Sources |-> Absent]
NoValues   == [fixed |-> <<>>, dynamic |-> <<>>]
NoReply    == [status |-> 0, series |-> {}]

Init ==
    /\ InformersInit
    /\ calls = 0
    /\ scrapeMu = Free
    /\ pc       = [s \in Scrapers |-> "idle"]
    /\ rule     = [s \in Scrapers |-> 0]
    /\ listed   = [s \in Scrapers |-> 0]
    /\ anchors  = [s \in Scrapers |-> {}]
    /\ obj      = [s \in Scrapers |-> Absent]
    /\ cur      = [s \in Scrapers |-> Absent]
    /\ depth    = [s \in Scrapers |-> 0]
    /\ chain    = [s \in Scrapers |-> NoChain]
    /\ pending  = [s \in Scrapers |-> <<>>]
    /\ keys     = [s \in Scrapers |-> {}]
    /\ values   = [s \in Scrapers |-> NoValues]
    /\ out      = [s \in Scrapers |-> <<>>]
    \* newSelfMetrics initialises every rule's metrics to zero.
    /\ self     = [r \in RuleIndex |-> [ok |-> 0, observed |-> 0, anchorCount |-> 0]]
    /\ reply    = [s \in Scrapers |-> NoReply]
    /\ begun    = [s \in Scrapers |-> pos]

-----------------------------------------------------------------------------
\* A GET /metrics arrives: Gather calls Collect, which waits for scrapeMu.
Call(s) ==
    /\ pc[s] = "idle"
    /\ calls < MaxCollects
    /\ calls' = calls + 1
    /\ pc' = [pc EXCEPT ![s] = "waiting"]
    /\ UNCHANGED <<versions, pos, scrapeMu, rule, listed, anchors, walkVars, seriesVars,
                   out, self, reply, begun>>

\* Mutant: enters without waiting for the mutex.
MutantAcquireLock(s) ==
    /\ pc[s] = "waiting"
    /\ scrapeMu' = s
    /\ pc' = [pc EXCEPT ![s] = "rules"]
    /\ begun' = [begun EXCEPT ![s] = pos]
    /\ UNCHANGED <<versions, pos, calls, rule, listed, anchors, walkVars, seriesVars,
                   out, self, reply>>

AcquireLock(s) ==
    /\ pc[s] = "waiting"
    /\ scrapeMu = Free
    /\ scrapeMu' = s
    /\ pc' = [pc EXCEPT ![s] = "rules"]
    /\ begun' = [begun EXCEPT ![s] = pos]
    /\ UNCHANGED <<versions, pos, calls, rule, listed, anchors, walkVars, seriesVars,
                   out, self, reply>>

\* collectRule is called for the next rule.
BeginRule(s) ==
    /\ pc[s] = "rules"
    /\ rule[s] < Len(Rules)
    /\ rule' = [rule EXCEPT ![s] = @ + 1]
    /\ pc' = [pc EXCEPT ![s] = "list"]
    /\ UNCHANGED <<versions, pos, calls, scrapeMu, listed, anchors, walkVars, seriesVars,
                   out, self, reply, begun>>

\* Mutant: Add where the gauge is Set.
MutantCounted(metrics, r, n) == [metrics EXCEPT ![r].anchorCount = @ + n]

\* observeAnchorCount.
Counted(metrics, r, n) == [metrics EXCEPT ![r].anchorCount = n]

\* Mutant: only the first namespace is listed.
MutantLastPlace(s) == TRUE

\* The namespaces that ListAll goes through, and whether it is at the last one.
Places(s) == ResourceNamespaces(AnchorOf(rule[s]))
LastPlace(s) == listed[s] + 1 = Len(Places(s))

\* The anchors after ListAll has read the lister of one more namespace.
ListedNext(s) ==
    LET inf == [resource |-> AnchorOf(rule[s]), ns |-> Places(s)[listed[s] + 1]]
    IN  anchors[s] \cup ({listed[s] + 1} \X Cache(inf))

ListNamespace(s) ==
    /\ pc[s] = "list"
    /\ ~LastPlace(s)
    /\ anchors' = [anchors EXCEPT ![s] = ListedNext(s)]
    /\ listed' = [listed EXCEPT ![s] = @ + 1]
    /\ UNCHANGED <<versions, pos, calls, scrapeMu, pc, rule, walkVars, seriesVars, out,
                   self, reply, begun>>

ListAnchors(s) ==
    /\ pc[s] = "list"
    /\ LastPlace(s)
    /\ ListedNext(s) # {}
    /\ anchors' = [anchors EXCEPT ![s] = ListedNext(s)]
    /\ listed' = [listed EXCEPT ![s] = 0]
    /\ self' = Counted(self, rule[s], Cardinality(ListedNext(s)))
    /\ pc' = [pc EXCEPT ![s] = "anchors"]
    /\ UNCHANGED <<versions, pos, calls, scrapeMu, rule, walkVars, seriesVars, out, reply,
                   begun>>

\* No anchor: there is nothing left but to count this collect of the rule.
ListNothing(s) ==
    /\ pc[s] = "list"
    /\ LastPlace(s)
    /\ ListedNext(s) = {}
    /\ listed' = [listed EXCEPT ![s] = 0]
    /\ self' = Counted(self, rule[s], 0)
    /\ pc' = [pc EXCEPT ![s] = "counting"]
    /\ UNCHANGED <<versions, pos, calls, scrapeMu, rule, anchors, walkVars, seriesVars,
                   out, reply, begun>>

\* materialiseSeries takes the next anchor and Resolve begins: namespaces in
\* the order of the configuration, the objects of one lister in any order.
TakeAnchor(s) ==
    /\ pc[s] = "anchors"
    /\ \E a \in anchors[s] :
          /\ \A b \in anchors[s] : a[1] <= b[1]
          /\ anchors' = [anchors EXCEPT ![s] = @ \ {a}]
          /\ obj' = [obj EXCEPT ![s] = a[2]]
          /\ cur' = [cur EXCEPT ![s] = a[2]]
          /\ chain' = [chain EXCEPT ![s] = StartChain(a[2])]
    /\ depth' = [depth EXCEPT ![s] = 0]
    /\ pc' = [pc EXCEPT ![s] = "walk"]
    /\ UNCHANGED <<versions, pos, calls, scrapeMu, rule, listed, seriesVars, out, self,
                   reply, begun>>

\* Mutant: the depth bound off by one.
MutantWalkGoesOn(s) == depth[s] <= MaxDepth /\ Parent(cur[s]) # Absent

\* The walk goes on from cur: the depth is not exhausted and the cache has its owner.
WalkGoesOn(s) == depth[s] < MaxDepth /\ Parent(cur[s]) # Absent

WalkOwner(s) ==
    /\ pc[s] = "walk"
    /\ WalkGoesOn(s)
    /\ chain' = [chain EXCEPT ![s] = ExtendChain(@, depth[s], cur[s], Parent(cur[s]))]
    /\ cur' = [cur EXCEPT ![s] = Parent(cur[s])]
    /\ depth' = [depth EXCEPT ![s] = @ + 1]
    /\ UNCHANGED <<versions, pos, calls, scrapeMu, pc, rule, listed, anchors, obj,
                   seriesVars, out, self, reply, begun>>

\* newSrcLookup: the chain, and the forEach item under "item".
Lookup(c, item) ==
    [source \in Sources \cup {"item"} |-> IF source = "item" THEN item ELSE c[source]]

\* A pendingSeries.  "from" is auxiliary: the objects its values were read from.
Series(r, input) ==
    LET evaluated == EvaluateOneSeries(Rules[r], input, Absent)
    IN  [fixed |-> evaluated.fixed, dynamic |-> evaluated.dynamic, from |-> input]

\* The series of one anchor, one per item, given its chain.
SeriesOf(r, anchor, c) ==
    LET items == EvaluateForEach(Rules[r], anchor, Absent)
    IN  [i \in 1..Len(items) |-> Series(r, Lookup(c, items[i]))]

\* Mutant: the last anchor decides the label names.
MutantUnionKeys(known, series) == UNION {DOMAIN series[i].dynamic : i \in 1..Len(series)}

\* The union of dynamic labels, with those of more series.
UnionKeys(known, series) == known \cup UNION {DOMAIN series[i].dynamic : i \in 1..Len(series)}

\* The walk ends; the series of the anchor are evaluated, on objects that no
\* one mutates, and its dynamic labels join the union.
EndWalk(s) ==
    LET new == SeriesOf(rule[s], obj[s], chain[s])
    IN  /\ pc[s] = "walk"
        /\ ~WalkGoesOn(s)
        /\ pending' = [pending EXCEPT ![s] = @ \o new]
        /\ keys' = [keys EXCEPT ![s] = UnionKeys(@, new)]
        /\ obj' = [obj EXCEPT ![s] = Absent]
        /\ cur' = [cur EXCEPT ![s] = Absent]
        /\ chain' = [chain EXCEPT ![s] = NoChain]
        /\ depth' = [depth EXCEPT ![s] = 0]
        /\ pc' = [pc EXCEPT ![s] = IF anchors[s] = {} THEN "materialised" ELSE "anchors"]
        /\ UNCHANGED <<versions, pos, calls, scrapeMu, rule, listed, anchors, values, out,
                       self, reply, begun>>

\* Mutant: without dynamic labels there is nothing to do.
MutantDescValid(r, dynamicKeys) == dynamicKeys # {}

\* emitSeries: one Desc for all series of the rule and one buffer of values.
\* The Desc is invalid if two label names are equal or one is reserved.
DescValid(r, dynamicKeys) ==
    /\ DOMAIN Rules[r].labels \cap dynamicKeys = {}
    /\ dynamicKeys \cap ReservedLabels = {}

BeginEmit(s) ==
    /\ pc[s] = "materialised"
    /\ values' = [values EXCEPT ![s] =
            [fixed   |-> [label \in DOMAIN Rules[rule[s]].labels |-> Empty],
             dynamic |-> [label \in keys[s] |-> Empty]]]
    /\ pc' = [pc EXCEPT ![s] = "emit"]
    /\ UNCHANGED <<versions, pos, calls, scrapeMu, rule, listed, anchors, walkVars,
                   pending, keys, out, self, reply, begun>>

\* Mutant: only the labels that a series has are written.
MutantFillValues(buffer, series) ==
    [fixed   |-> series.fixed,
     dynamic |-> [label \in DOMAIN buffer.dynamic |->
                    IF label \in DOMAIN series.dynamic THEN series.dynamic[label]
                    ELSE buffer.dynamic[label]]]

\* Every slot of the buffer is overwritten: a label the series does not have is empty.
FillValues(buffer, series) ==
    [fixed   |-> series.fixed,
     dynamic |-> [label \in DOMAIN buffer.dynamic |->
                    IF label \in DOMAIN series.dynamic THEN series.dynamic[label]
                    ELSE Empty]]

\* NewConstMetric.
Metric(r, buffer, from) ==
    [rule   |-> r,
     labels |-> [label \in DOMAIN buffer.fixed \cup DOMAIN buffer.dynamic |->
                    IF label \in DOMAIN buffer.fixed THEN buffer.fixed[label]
                    ELSE buffer.dynamic[label]],
     from   |-> from]

\* One series; NewConstMetric refuses all series of an invalid Desc.
EmitSeries(s) ==
    LET filled == FillValues(values[s], Head(pending[s]))
    IN  /\ pc[s] = "emit"
        /\ pending[s] # <<>>
        /\ values' = [values EXCEPT ![s] = filled]
        /\ pending' = [pending EXCEPT ![s] = Tail(@)]
        /\ out' = IF DescValid(rule[s], keys[s])
                  THEN [out EXCEPT ![s] =
                           Append(@, Metric(rule[s], filled, Head(pending[s]).from))]
                  ELSE out
        /\ UNCHANGED <<versions, pos, calls, scrapeMu, pc, rule, listed, anchors, walkVars,
                       keys, self, reply, begun>>

\* Mutant: the dynamic labels stay for the next rule.
MutantEndRule(s) ==
    /\ pc[s] = "emit"
    /\ pending[s] = <<>>
    /\ values' = [values EXCEPT ![s] = NoValues]
    /\ pc' = [pc EXCEPT ![s] = "counting"]
    /\ UNCHANGED <<versions, pos, calls, scrapeMu, rule, listed, anchors, walkVars,
                   pending, keys, out, self, reply, begun>>

EndRule(s) ==
    /\ pc[s] = "emit"
    /\ pending[s] = <<>>
    /\ keys' = [keys EXCEPT ![s] = {}]
    /\ values' = [values EXCEPT ![s] = NoValues]
    /\ pc' = [pc EXCEPT ![s] = "counting"]
    /\ UNCHANGED <<versions, pos, calls, scrapeMu, rule, listed, anchors, walkVars,
                   pending, out, self, reply, begun>>

\* incCollect(rule, "ok").  Other scrapes' Gather reads the self-metrics at any time.
IncCollect(s) ==
    /\ pc[s] = "counting"
    /\ self' = [self EXCEPT ![rule[s]].ok = @ + 1]
    /\ pc' = [pc EXCEPT ![s] = "observing"]
    /\ UNCHANGED <<versions, pos, calls, scrapeMu, rule, listed, anchors, walkVars,
                   seriesVars, out, reply, begun>>

\* The deferred observeCollectDuration, and collectRule returns.
ObserveCollectDuration(s) ==
    /\ pc[s] = "observing"
    /\ self' = [self EXCEPT ![rule[s]].observed = @ + 1]
    /\ pc' = [pc EXCEPT ![s] = "rules"]
    /\ UNCHANGED <<versions, pos, calls, scrapeMu, rule, listed, anchors, walkVars,
                   seriesVars, out, reply, begun>>

\* Mutant: Collect returns with the mutex held.
MutantUnlock(s) ==
    /\ pc[s] = "rules"
    /\ rule[s] = Len(Rules)
    /\ rule' = [rule EXCEPT ![s] = 0]
    /\ pc' = [pc EXCEPT ![s] = "collected"]
    /\ UNCHANGED <<versions, pos, calls, scrapeMu, listed, anchors, walkVars, seriesVars,
                   out, self, reply, begun>>

Unlock(s) ==
    /\ pc[s] = "rules"
    /\ rule[s] = Len(Rules)
    /\ scrapeMu' = Free
    /\ rule' = [rule EXCEPT ![s] = 0]
    /\ pc' = [pc EXCEPT ![s] = "collected"]
    /\ UNCHANGED <<versions, pos, calls, listed, anchors, walkVars, seriesVars, out, self,
                   reply, begun>>

\* Registry.Gather accepts the metrics if no two are the same series of the
\* same metric; otherwise HandlerFor answers 500 and nothing else.
Gathered(metrics) ==
    LET series(i) == [rule |-> metrics[i].rule, labels |-> metrics[i].labels]
    IN  IF \A i, j \in DOMAIN metrics : series(i) = series(j) => i = j
        THEN [status |-> 200, series |-> {series(i) : i \in DOMAIN metrics}]
        ELSE [status |-> 500, series |-> {}]

\* Mutant: series are kept from one scrape to the next.
MutantRespond(s) ==
    /\ pc[s] = "collected"
    /\ reply' = [reply EXCEPT ![s] = Gathered(out[s])]
    /\ begun' = [begun EXCEPT ![s] = [inf \in Informers |-> [k \in Keys |-> 0]]]
    /\ pc' = [pc EXCEPT ![s] = "idle"]
    /\ UNCHANGED <<versions, pos, calls, scrapeMu, rule, listed, anchors, walkVars,
                   seriesVars, out, self>>

Respond(s) ==
    /\ pc[s] = "collected"
    /\ reply' = [reply EXCEPT ![s] = Gathered(out[s])]
    /\ out' = [out EXCEPT ![s] = <<>>]
    /\ begun' = [begun EXCEPT ![s] = [inf \in Informers |-> [k \in Keys |-> 0]]]
    /\ pc' = [pc EXCEPT ![s] = "idle"]
    /\ UNCHANGED <<versions, pos, calls, scrapeMu, rule, listed, anchors, walkVars,
                   seriesVars, self>>

-----------------------------------------------------------------------------
CollectVars == <<calls, scrapeMu, pc, rule, listed, anchors, walkVars, seriesVars, out,
                 self, reply, begun>>

Environment == InformersNext /\ UNCHANGED CollectVars

\* What the goroutine of a scrape does in Collect once it has the mutex.
Proceed(s) ==
    \/ BeginRule(s) \/ ListNamespace(s) \/ ListAnchors(s) \/ ListNothing(s)
    \/ TakeAnchor(s) \/ WalkOwner(s) \/ EndWalk(s)
    \/ BeginEmit(s) \/ EmitSeries(s) \/ EndRule(s)
    \/ IncCollect(s) \/ ObserveCollectDuration(s) \/ Unlock(s)

Next ==
    \/ Environment
    \/ \E s \in Scrapers : Call(s) \/ AcquireLock(s) \/ Proceed(s) \/ Respond(s)

Spec == Init /\ [][Next]_vars

\* A running Collect is scheduled, and sync.Mutex is starvation-free: a waiter
\* for whom the mutex is free again and again gets it.  None for Respond, which
\* takes a client that reads.
Fairness == \A s \in Scrapers : WF_vars(Proceed(s)) /\ SF_vars(AcquireLock(s))

FairSpec == Spec /\ Fairness

-----------------------------------------------------------------------------
(* Properties *)

\* What the sources of a series may stand for: an object, a forEach item, nothing.
Items  == UNION {{o.items[i] : i \in 1..Len(o.items)} : o \in Objects}
Inputs == [Sources \cup {"item"} -> Objects \cup Items \cup {Absent}]

ASSUME ItemsAssumption == \A o \in Objects : o.items \in Seq(Items)

PCs == {"idle", "waiting", "rules", "list", "anchors", "walk", "materialised", "emit",
        "counting", "observing", "collected"}

\* Inside Collect, between Lock and Unlock.
InCollect(s) == pc[s] \notin {"idle", "waiting", "collected"}
InRule(s)    == InCollect(s) /\ pc[s] # "rules"

\* Type correctness of the whole state.
TypeOK ==
    /\ InformersTypeOK
    /\ calls \in 0..MaxCollects
    /\ scrapeMu \in Scrapers \cup {Free}
    /\ pc \in [Scrapers -> PCs]
    /\ rule \in [Scrapers -> 0..Len(Rules)]
    /\ listed \in [Scrapers -> Nat]
    /\ anchors \in [Scrapers -> SUBSET (Nat \X Objects)]
    /\ obj \in [Scrapers -> Objects \cup {Absent}]
    /\ cur \in [Scrapers -> Objects \cup {Absent}]
    /\ depth \in [Scrapers -> 0..MaxDepth]
    /\ chain \in [Scrapers -> Chains]
    /\ \A s \in Scrapers :
          /\ \A i \in 1..Len(pending[s]) :
                /\ pending[s][i].from \in Inputs
                /\ pending[s][i] = Series(rule[s], pending[s][i].from)
          /\ \A i \in 1..Len(out[s]) :
                /\ out[s][i].rule \in RuleIndex
                /\ out[s][i].from \in Inputs
    /\ self \in [RuleIndex -> [ok : Nat, observed : Nat, anchorCount : Nat]]
    /\ begun \in [Scrapers -> [Informers -> [Keys -> Nat]]]

(***************************************************************************)
(* Concurrent scrapes do not double-charge the self-metrics                *)
(* (collector.go:46): at any moment a rule has been counted as often as    *)
(* the rules after it, or once more, by the one Collect under way between  *)
(* them; and between two Collects each rule as often as any other, and     *)
(* timed as often as it was counted.  Meanwhile a response may show a rule *)
(* counted and not yet timed, but only the one rule that is being done.    *)
(***************************************************************************)
ChargedInLockstep ==
    /\ \A q, r \in RuleIndex : q < r => self[q].ok - self[r].ok \in {0, 1}
    /\ \A q, r \in RuleIndex : q <= r => self[q].ok - self[r].observed \in {0, 1}
    /\ \A q, r \in RuleIndex : q < r => self[q].observed - self[r].ok \in {0, 1}
    /\ scrapeMu = Free =>
          \A q, r \in RuleIndex : self[q].ok = self[r].ok /\ self[q].observed = self[r].ok

(***************************************************************************)
(* While a rule is being materialised, its exporter_anchor_count is the    *)
(* number of anchors that this very Collect listed for it: those left, the *)
(* one being resolved, and those already turned into a series.             *)
(***************************************************************************)
AnchorCountIsOfThisCollect ==
    \A s \in Scrapers :
        pc[s] \in {"anchors", "walk", "materialised"} /\ ~Rules[rule[s]].forEach =>
            self[rule[s]].anchorCount =
                Cardinality(anchors[s]) + Len(pending[s]) + (IF pc[s] = "walk" THEN 1 ELSE 0)

(***************************************************************************)
(* Every scrape rebuilds its output from the informer caches               *)
(* (collector.go:33): each object that a running Collect holds, or has     *)
(* taken label values from, was in some cache at a moment between its      *)
(* acquiring scrapeMu and now.  So nothing survives from an earlier scrape *)
(* and an object gone from the caches before a scrape is not in it.        *)
(***************************************************************************)
CachedSinceBegun(s, o) ==
    o # Absent =>
        \E inf \in Informers :
            /\ Watches(inf, Key(o))
            /\ o \in Selects(inf.resource)
            /\ \E i \in begun[s][inf][Key(o)]..pos[inf][Key(o)] :
                  i > 0 /\ versions[Key(o)][i] = o

NothingOlderThanTheScrape ==
    \A s \in Scrapers :
        /\ \A a \in anchors[s] : CachedSinceBegun(s, a[2])
        /\ CachedSinceBegun(s, obj[s])
        /\ CachedSinceBegun(s, cur[s])
        /\ \A source \in Sources : CachedSinceBegun(s, chain[s][source])
        /\ \A i \in 1..Len(pending[s]), source \in Sources \ {"item"} :
              CachedSinceBegun(s, pending[s][i].from[source])
        /\ \A i \in 1..Len(out[s]), source \in Sources \ {"item"} :
              CachedSinceBegun(s, out[s][i].from[source])

(***************************************************************************)
(* All series of one metric in one scrape have one label name set, which   *)
(* covers the dynamic labels of each (collector.go:130), and each value is *)
(* what its own objects give: the shared buffer carries nothing from one   *)
(* series to the next.                                                     *)
(***************************************************************************)
OneLabelSetOwnValues ==
    \A s \in Scrapers : \A i \in 1..Len(out[s]) :
        LET m   == out[s][i]
            own == EvaluateOneSeries(Rules[m.rule], m.from, Absent)
        IN  /\ \A j \in 1..Len(out[s]) :
                  out[s][j].rule = m.rule => DOMAIN out[s][j].labels = DOMAIN m.labels
            /\ DOMAIN own.fixed \cup DOMAIN own.dynamic \subseteq DOMAIN m.labels
            /\ \A label \in DOMAIN m.labels :
                  m.labels[label] =
                      CASE label \in DOMAIN own.fixed   -> own.fixed[label]
                        [] label \in DOMAIN own.dynamic -> own.dynamic[label]
                        [] OTHER                        -> Empty

(***************************************************************************)
(* If no cache changed during a Collect, what it sent is, series for       *)
(* series, what the caches say: one series per listed anchor and item,     *)
(* with each source at the ancestor that the ownership graph gives it.     *)
(***************************************************************************)
ExpectedSeries(r) ==
    UNION {{[of |-> <<a, n>>, series |-> SeriesOf(r, a[2], ReferenceChain(Ancestor(a[2])))[n]] :
                n \in 1..Len(EvaluateForEach(Rules[r], a[2], Absent))} : a \in ListAll(AnchorOf(r))}

\* Each with its labels: its own, and for those that only other series have, none.
Labelled(expected) ==
    {[of |-> e.of,
      labels |-> [label \in DOMAIN e.series.fixed
                            \cup UNION {DOMAIN f.series.dynamic : f \in expected} |->
                    CASE label \in DOMAIN e.series.fixed   -> e.series.fixed[label]
                      [] label \in DOMAIN e.series.dynamic -> e.series.dynamic[label]
                      [] OTHER                             -> Empty]] : e \in expected}

\* The places of the rule's metrics among those that s has sent.
Sent(s, r) == {i \in 1..Len(out[s]) : out[s][i].rule = r}

\* One metric with its labels for each that is expected, and no other.
Matches(metrics, places, expected) ==
    /\ Cardinality(places) = Cardinality(expected)
    /\ \A e \in expected :
          Cardinality({i \in places : metrics[i].labels = e.labels})
          = Cardinality({f \in expected : f.labels = e.labels})

ExactWhenStable ==
    \A s \in Scrapers : pc[s] = "collected" /\ begun[s] = pos =>
        \A r \in RuleIndex : Matches(out[s], Sent(s, r), Labelled(ExpectedSeries(r)))

\* No dynamic label can have the name of a fixed label, or a reserved one.
LabelsNeverCollide ==
    \A r \in RuleIndex : \A i \in 1..Len(Rules[r].expands) : \A x \in Objects \cup Items :
        LET expand == Rules[r].expands[i]
        IN  {expand.labelName[k] : k \in ExpandKeys(expand, x.maps[expand.path])}
                \cap (DOMAIN Rules[r].labels \cup ReservedLabels) = {}

(***************************************************************************)
(* Every scrape that waits for scrapeMu is collected, whatever the other   *)
(* scrapes and the caches do, owner cycles included.                       *)
(***************************************************************************)
ScrapeCompletes == \A s \in Scrapers : pc[s] = "waiting" ~> pc[s] = "collected"

-----------------------------------------------------------------------------
(* The collector as the service that ScrapeService promises *)

\* The values that the entry for key k of an informer's cache has gone through.
History(inf, k) ==
    [i \in 1..pos[inf][k] |->
        IF versions[k][i] \in Selects(inf.resource) THEN versions[k][i] ELSE Absent]

\* The entry that ListAll reads for key x[2] in its namespace number x[1].
EntryRead(r, x) ==
    <<[resource |-> AnchorOf(r), ns |-> ResourceNamespaces(AnchorOf(r))[x[1]]], x[2]>>

Phase(s) ==
    IF pc[s] \in {"idle", "waiting", "collected"} THEN pc[s] ELSE "collecting"

AnchorsSent(s, r) ==
    {out[s][i].from["anchor"] : i \in {j \in 1..Len(out[s]) : out[s][j].rule = r}}

Service == INSTANCE ScrapeService WITH
    Nobody  <- Free,
    Entries <- Informers \X Keys,
    Reads   <- [r \in RuleIndex |-> [x \in (1..Len(ResourceNamespaces(AnchorOf(r)))) \X Keys |->
                  EntryRead(r, x)]],
    Yields  <- [r \in RuleIndex |->
                  {o \in Objects : EvaluateForEach(Rules[r], o, Absent) # <<>>}],
    Dynamic <- {r \in RuleIndex : Rules[r].expands # <<>>},
    history <- [c \in Informers \X Keys |-> History(c[1], c[2])],
    turn    <- scrapeMu,
    phase   <- [s \in Scrapers |-> Phase(s)],
    since   <- [s \in Scrapers |-> [c \in Informers \X Keys |-> begun[s][c[1]][c[2]]]],
    answer  <- [s \in Scrapers |-> [r \in RuleIndex |->
                  IF pc[s] = "collected" THEN AnchorsSent(s, r) ELSE {}]]

(***************************************************************************)
(* Collector implements ScrapeService: scrapes are served one at a time,   *)
(* and whatever the caches do meanwhile, each rule's response is about     *)
(* every anchor that stays in the cache, in one of the versions that it    *)
(* had during the scrape, and about nothing else (collector.go:33).        *)
(***************************************************************************)
ScrapesAreServed == Service!Spec

-----------------------------------------------------------------------------
(* What the documentation says and the code does not do *)

(***************************************************************************)
(* docs/CONFIG.md:291 and config.go:173: a resource source is the first    *)
(* object of that resource along the owner chain, the anchor included.     *)
(***************************************************************************)
SourceIsFirstOfItsResource ==
    \A s \in Scrapers : \A i \in 1..Len(out[s]) :
        LET from == out[s][i].from
        IN  \A source \in ResourceSources :
                from["anchor"].gvk = ResourceFor(source).gvk => from[source] = from["anchor"]

(***************************************************************************)
(* docs/CONFIG.md:122: the rules are independent of each other.  A rule    *)
(* whose own series are sound is in the response.                          *)
(***************************************************************************)
RulesAreIndependent ==
    [][\A s \in Scrapers : pc[s] = "collected" /\ pc'[s] = "idle" =>
        \A q \in RuleIndex :
            LET own == SelectSeq(out[s], LAMBDA m : m.rule = q)
            IN  Gathered(own).status = 200 => Gathered(own).series \subseteq reply'[s].series
      ]_vars

(***************************************************************************)
(* docs/CONFIG.md:489: Validate catches a conflict of an expandLabels      *)
(* prefix with a fixed label name; and CONFIG.md:57: a label key that one  *)
(* Pod gains adds a column to another Pod's series and does not remove it. *)
(* Every pending series is sent.                                           *)
(***************************************************************************)
EverySeriesIsSent ==
    [][\A s \in Scrapers : pc[s] = "emit" /\ pending[s] # <<>> /\ pending'[s] # pending[s] =>
        Len(out'[s]) = Len(out[s]) + 1]_vars
=============================================================================
