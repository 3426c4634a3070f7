------------------------------- MODULE Exporter -------------------------------
(***************************************************************************)
(* The process of Lifecycle together with the scrapes that its HTTP server *)
(* runs from the moment it listens, which is before Collector.Start has    *)
(* started any informer.  Every scrape calls Collector.Collect in a        *)
(* goroutine of its own; here a Collect is the order in which it takes     *)
(* scrapeMu, reads the caches and walks the owner chains.  What it reads   *)
(* and sends is the business of the module Collector.                      *)
(***************************************************************************)
EXTENDS Lifecycle

CONSTANTS
    Anchors,      \* the anchors of the rules, as resource names, in rule order
    SourcesRead   \* the sources that the rules' labels, fallbacks and expandLabels read

ASSUME AnchorsAssumption == Anchors \in Seq(Names) \ {<<>>}

VARIABLES
    scrapeMu,  \* Collector.scrapeMu is locked
    collect    \* per request: where its Collect is

scrapeVars == <<scrapeMu, collect>>
exporterVars == <<vars, scrapeVars>>

Stages == {"none", "waiting", "listing", "walking", "collected"}

\* A Collect at a stage, not yet at any rule.  owed: everything was in the caches
\* before it began; and then read: the anchor factories that it has read in full.
At(stage) == [stage |-> stage, rule |-> 1, place |-> 1, owed |-> FALSE, read |-> {}]

ExporterInit ==
    /\ Init
    /\ scrapeMu = FALSE
    /\ collect = [r \in Requests |-> At("none")]

-----------------------------------------------------------------------------
(* The requests *)

\* A GET of /healthz is answered without the collector, one of /metrics collects.
Get(r) ==
    /\ collect[r].stage = "none"
    /\ Request(r)
    /\ \E stage \in {"waiting", "collected"} : collect' = [collect EXCEPT ![r] = At(stage)]
    /\ UNCHANGED scrapeMu

\* Gather has all series before the first byte of the response is written.
Respond(r) ==
    /\ collect[r].stage = "collected"
    /\ Answer(r)
    /\ collect' = [collect EXCEPT ![r] = At("none")]
    /\ UNCHANGED scrapeMu

\* Mutant: no mutex.
MutantLockable == TRUE

Lockable == ~scrapeMu

BeginCollect(r) ==
    /\ Alive
    /\ collect[r].stage = "waiting"
    /\ Lockable
    /\ scrapeMu' = TRUE
    /\ collect' = [collect EXCEPT ![r] =
                     [At("listing") EXCEPT !.owed = (start = "running")]]
    /\ UNCHANGED vars

\* Mutant: the last namespace is left out.
MutantListed ==
    [anchor \in Names |->
        [i \in 1..(Len(ResourceNamespaces(anchor)) - 1) |->
            [resource |-> anchor, ns |-> ResourceNamespaces(anchor)[i]]]]

\* The factories that ListAll reads, one after the other.
Listed ==
    [anchor \in Names |->
        [i \in 1..Len(ResourceNamespaces(anchor)) |->
            [resource |-> anchor, ns |-> ResourceNamespaces(anchor)[i]]]]

\* The factories of the rule that c is at.
RuleFactories(c) == Listed[Anchors[c.rule]]

ListNext(r) ==
    LET c == collect[r]
        f == RuleFactories(c)[c.place]
    IN  /\ Alive
        /\ c.stage = "listing"
        /\ c.place <= Len(RuleFactories(c))
        /\ collect' = [collect EXCEPT ![r].place = c.place + 1,
                                      ![r].read = @ \cup {g \in {f} \cap synced : c.owed}]
        /\ UNCHANGED <<scrapeMu, vars>>

\* Something was listed: an informer that runs may have filled part of its cache.
WalkChains(r) ==
    LET c == collect[r]
    IN  /\ Alive
        /\ c.stage = "listing"
        /\ c.place > Len(RuleFactories(c))
        /\ \E i \in 1..Len(RuleFactories(c)) : RuleFactories(c)[i] \in started
        /\ collect' = [collect EXCEPT ![r].stage = "walking"]
        /\ UNCHANGED <<scrapeMu, vars>>

\* The rule is done: its series are sent, or nothing was listed.
RuleDone(c) ==
    \/ c.stage = "walking"
    \/ c.stage = "listing" /\ c.place > Len(RuleFactories(c))

NextRule(r) ==
    LET c == collect[r]
    IN  /\ Alive
        /\ RuleDone(c)
        /\ c.rule < Len(Anchors)
        /\ collect' = [collect EXCEPT ![r].stage = "listing", ![r].rule = c.rule + 1,
                                      ![r].place = 1]
        /\ UNCHANGED <<scrapeMu, vars>>

\* Mutant: a return without unlocking.
MutantLockedAfter == TRUE

\* scrapeMu after Collect: the deferred Unlock.
LockedAfter == FALSE

\* After the last rule Collect returns.
EndCollect(r) ==
    /\ Alive
    /\ RuleDone(collect[r])
    /\ collect[r].rule = Len(Anchors)
    /\ scrapeMu' = LockedAfter
    /\ collect' = [collect EXCEPT ![r] = At("collected")]
    /\ UNCHANGED vars

-----------------------------------------------------------------------------
\* No scrape takes part in the step; those of a process that ends are gone.
ScrapesAside ==
    \/ Alive' /\ UNCHANGED scrapeVars
    \/ ~Alive' /\ scrapeMu' = FALSE /\ collect' = [r \in Requests |-> At("none")]

Process(step) == step /\ ScrapesAside

CollectStep(r) == ListNext(r) \/ WalkChains(r) \/ NextRule(r) \/ EndCollect(r)

ExporterNext ==
    \/ Process(MainStep) \/ Process(Signal)
    \/ Process(Listen) \/ Process(ListenFails) \/ Process(AcceptFails)
    \/ Process(CollectorStep)
    \/ \E f \in Factories : Process(InformerSyncs(f))
    \/ Process(ApiServer)
    \/ \E r \in Requests : Get(r) \/ Respond(r) \/ BeginCollect(r) \/ CollectStep(r)

ExporterSpec == ExporterInit /\ [][ExporterNext]_exporterVars

\* As in Lifecycle; a Collect runs, and sync.Mutex lets no goroutine wait for ever.
\* Still no response need ever be read by its client.
ExporterFairness ==
    /\ WF_exporterVars(Process(MainStep))
    /\ WF_exporterVars(Process(Listen \/ ListenFails))
    /\ WF_exporterVars(Process(CollectorStep))
    /\ \A f \in Factories : WF_exporterVars(Process(InformerSyncs(f)))
    /\ \A r \in Requests : SF_exporterVars(BeginCollect(r)) /\ WF_exporterVars(CollectStep(r))

ExporterFairSpec == ExporterSpec /\ ExporterFairness

-----------------------------------------------------------------------------
(* Properties *)

Collects ==
    [stage : Stages, rule : 1..Len(Anchors), place : Nat \ {0}, owed : BOOLEAN,
     read : SUBSET Factories]

ExporterTypeOK ==
    /\ TypeOK
    /\ scrapeMu \in BOOLEAN
    /\ collect \in [Requests -> Collects]

\* The kinds that a reference may have and that more than one watched resource has:
\* Registry.ResourceFor sorts their names, in a slice that all callers share.
AmbiguousKinds == {kind \in Kinds \ Names : Cardinality(NamesOfKind(kind)) > 1}

ParentKinds == {"ReplicaSet", "Deployment", "StatefulSet", "DaemonSet"}

anyRuleUsesParentChain == SourcesRead \cap {"ownerController", "topController"} # {}

\* The kinds that logParentChainKindGaps and LogDanglingSelectorWarnings look up.
LookedUpForGaps == {kind \in ParentKinds : anyRuleUsesParentChain}

LookedUpForSelectors ==
    {"Pod"} \cup {kind \in ParentKinds :
                     Resolves("Pod") /\ WatchResourceFor(ResourceFor("Pod").name).filtered}

\* What Start looks up before it starts anything.
KindsLookedUpByStart == LookedUpForGaps \cup LookedUpForSelectors

\* Start and the walks of the scrapes look kinds up; the walk any kind.
Sorting(kind) ==
    {r \in Requests : collect[r].stage = "walking"}
    \cup {s \in {"Start"} : start = "warnings" /\ kind \in KindsLookedUpByStart}

(***************************************************************************)
(* No two goroutines are in the sort of the names of a kind at once        *)
(* (config.go:444): the scrapes have scrapeMu, and Start looks its kinds up *)
(* before there is an object that a scrape could walk from.                *)
(***************************************************************************)
NoConcurrentSort ==
    \A kind \in AmbiguousKinds : \A a, b \in Sorting(kind) : a = b

AnchorFactories ==
    UNION {{[resource |-> Anchors[i], ns |-> ns] : ns \in NamespaceKeys(Anchors[i])} :
              i \in 1..Len(Anchors)}

(***************************************************************************)
(* The server answers scrapes before the caches are filled (main.go:102),  *)
(* so a scrape may miss objects; but one whose Collect begins after        *)
(* "collector started" reads every anchor in every namespace from a full   *)
(* cache, whatever the process and the API server do meanwhile.            *)
(***************************************************************************)
ScrapesAfterStartAreFull ==
    \A r \in Requests :
        collect[r].owed /\ RuleDone(collect[r]) /\ collect[r].rule = Len(Anchors) =>
            collect[r].read = AnchorFactories

(***************************************************************************)
(* A scrape is collected, or the process ends: it waits neither for the    *)
(* informers nor for the client of another scrape, who may never read.     *)
(***************************************************************************)
EveryScrapeIsCollected ==
    \A r \in Requests : collect[r].stage = "waiting" ~> collect[r].stage = "collected" \/ ~Alive
=============================================================================
