---------------------------- MODULE ExporterProofs ----------------------------
(***************************************************************************)
(* What holds of the process and of its scrapes, for every configuration,  *)
(* any number of requests and every API server: no informer before the dry *)
(* run and "started" only when synced; the scrapes add nothing to the      *)
(* process, never sort together with Start, and are full once it started.  *)
(***************************************************************************)
EXTENDS Exporter, RegistryProofs

\* The LIST of the dry run for entry number i in its namespace number n.
ListOf(i, n) == [resource |-> Watch[i].name, ns |-> DryRuns(i)[n]]

\* Every LIST before the one that the dry run is at has succeeded.
DryRunProgress ==
    /\ entry \in WatchIndex => place <= Len(DryRuns(entry))
    /\ \A i \in WatchIndex : \A n \in 1..Len(DryRuns(i)) :
          i < entry \/ (i = entry /\ n <= place) => ListOf(i, n) \in accepted

StartInv ==
    /\ TypeOK
    /\ DryRunProgress
    /\ main = "setup" => start = "none"
    /\ start \in {"none", "warnings", "dryRun"} => started = {}
    /\ start = "running" => waited = Factories
    /\ NoInformerBeforeTheDryRun

\* The dry run of an entry is a finite sequence of LISTs of its own factories.
LEMMA DryRunsType ==
    ASSUME NEW i \in WatchIndex
    PROVE  /\ Len(DryRuns(i)) \in Nat
           /\ \A n \in 1..Len(DryRuns(i)) : ListOf(i, n) \in Factories
<1> DEFINE name == Watch[i].name
<1>1. name \in Names
  BY DEF Names
<1>2. CASE DryRuns(i) = <<>>
  BY <1>2
<1>3. CASE DryRuns(i) = ResourceNamespaces(name)
  <2> DEFINE ofName == {[resource |-> name, ns |-> ns] : ns \in NamespaceKeys(name)}
  <2>1. \A n \in 1..Len(DryRuns(i)) : ListOf(i, n) \in ofName
    BY <1>1, <1>3, NamespacesOfResource DEF ListOf
  <2>2. ofName \in {{[resource |-> m, ns |-> ns] : ns \in NamespaceKeys(m)} : m \in Names}
    BY <1>1
  <2>3. Len(DryRuns(i)) \in Nat
    BY <1>1, <1>3, NamespacesOfResource
  <2> HIDE DEF ofName
  <2> QED
    BY <2>1, <2>2, <2>3 DEF Factories
<1> QED
  BY <1>2, <1>3 DEF DryRuns

\* The dry run's factories, entry by entry.
LEMMA DryRunFactoriesByEntry ==
    ASSUME NEW f \in DryRunFactories
    PROVE  \E i \in WatchIndex : \E n \in 1..Len(DryRuns(i)) : f = ListOf(i, n)
<1> DEFINE ofEntry(i) == {[resource |-> Watch[i].name, ns |-> DryRuns(i)[n]] :
                             n \in 1..Len(DryRuns(i))}
<1>1. PICK i \in WatchIndex : f \in ofEntry(i)
  BY DEF DryRunFactories
<1> QED
  BY <1>1 DEF ListOf

\* The process begins with nothing listed, started or waited for.
LEMMA StartInvInit == Init => StartInv
<1> SUFFICES ASSUME Init PROVE StartInv
  OBVIOUS
<1>1. Len(Watch) \in Nat
  BY WatchAssumption
<1>2. TypeOK
  BY <1>1, RefusableAssumption DEF Init, TypeOK
<1>3. DryRunProgress
  BY <1>1, DryRunsType DEF Init, DryRunProgress, WatchIndex
<1> QED
  BY <1>2, <1>3 DEF StartInv, Init, NoInformerBeforeTheDryRun

\* What StartInv speaks of, besides main.
startVars == <<start, entry, place, accepted, started, waited>>

\* Steps that touch neither Collector.Start nor the caches preserve StartInv.
LEMMA StartInvElsewhere ==
    ASSUME StartInv, TypeOK',
           UNCHANGED startVars, main' = "setup" => main = "setup"
    PROVE  StartInv'
<1>2. DryRunProgress'
  BY DEF StartInv, DryRunProgress, ListOf, DryRuns, startVars
<1> QED
  BY <1>2 DEF StartInv, NoInformerBeforeTheDryRun, startVars

\* Each step of Collector.Start preserves StartInv.
LEMMA StartInvStep == StartInv /\ TypeOK' /\ CollectorStep => StartInv'
<1> SUFFICES ASSUME StartInv, TypeOK', CollectorStep PROVE StartInv'
  OBVIOUS
<1> USE DEF StartInv
<1>0. Len(Watch) \in Nat
  BY WatchAssumption
<1>1. CASE DryRunAccepted
  <2> USE <1>1 DEF DryRunAccepted
  <2>1. Len(DryRuns(entry)) \in Nat /\ place \in Nat /\ entry \in Nat
    BY <1>0, DryRunsType DEF TypeOK, WatchIndex
  <2>2. DryRunProgress'
    <3>1. place' <= Len(DryRuns(entry'))
      BY <2>1
    <3>2. ASSUME NEW i \in WatchIndex, NEW n \in 1..Len(DryRuns(i)),
                 i < entry' \/ (i = entry' /\ n <= place')
          PROVE  ListOf(i, n) \in accepted'
      <4>1. CASE i = entry /\ n = place + 1
        BY <4>1 DEF DryRun, ListOf
      <4>2. CASE i < entry \/ (i = entry /\ n <= place)
        BY <4>2 DEF DryRunProgress
      <4> QED
        BY <2>1, <3>2, <4>1, <4>2 DEF WatchIndex
    <3> QED
      BY <3>1, <3>2 DEF DryRunProgress, ListOf, DryRuns
  <2> QED
    BY <2>2 DEF NoInformerBeforeTheDryRun
<1>2. CASE DryRunRefused
  BY <1>2 DEF DryRunRefused, DryRunProgress, ListOf, DryRuns, NoInformerBeforeTheDryRun
<1>3. CASE DryRunNext
  <2> USE <1>3 DEF DryRunNext
  <2>1. DryRunProgress'
    <3>1. entry' \in WatchIndex => place' <= Len(DryRuns(entry'))
      BY DryRunsType
    <3>2. ASSUME NEW i \in WatchIndex, NEW n \in 1..Len(DryRuns(i)),
                 i < entry' \/ (i = entry' /\ n <= place')
          PROVE  ListOf(i, n) \in accepted'
      <4>1. i < entry \/ (i = entry /\ n <= place)
        BY <1>0, <3>2, DryRunsType DEF WatchIndex, TypeOK
      <4> QED
        BY <4>1 DEF DryRunProgress
    <3> QED
      BY <3>1, <3>2 DEF DryRunProgress, ListOf, DryRuns
  <2> QED
    BY <2>1 DEF NoInformerBeforeTheDryRun
<1>4. CASE StartInformers
  <2> USE <1>4 DEF StartInformers, DryRunDone, Startable
  <2>1. \A i \in WatchIndex : i < entry
    BY <1>0 DEF TypeOK, WatchIndex
  <2>2. DryRunFactories \subseteq accepted
    BY <2>1, DryRunFactoriesByEntry DEF DryRunProgress
  <2>3. DryRunProgress'
    BY DEF DryRunProgress, ListOf, DryRuns
  <2> QED
    BY <2>2, <2>3 DEF NoInformerBeforeTheDryRun
<1>5. ASSUME NEW f \in Factories, CacheSynced(f) PROVE StartInv'
  BY <1>5 DEF CacheSynced, DryRunProgress, ListOf, DryRuns, NoInformerBeforeTheDryRun
<1>6. CASE CacheSyncFails
  BY <1>6 DEF CacheSyncFails, DryRunProgress, ListOf, DryRuns, NoInformerBeforeTheDryRun
<1>7. CASE CollectorStarted
  BY <1>7 DEF CollectorStarted, EverySynced, DryRunProgress, ListOf, DryRuns,
              NoInformerBeforeTheDryRun
<1>8. CASE CollectorStops
  BY <1>8 DEF CollectorStops, DryRunProgress, ListOf, DryRuns, NoInformerBeforeTheDryRun
<1>9. CASE LogWarnings
  BY <1>9 DEF LogWarnings, DryRunProgress, ListOf, DryRuns, NoInformerBeforeTheDryRun
<1> QED
  BY <1>1, <1>2, <1>3, <1>4, <1>5, <1>6, <1>7, <1>8, <1>9 DEF CollectorStep

\* Each step keeps the types of the state.
LEMMA TypeNext == StartInv /\ [Next]_vars => TypeOK'
<1> SUFFICES ASSUME StartInv, [Next]_vars PROVE TypeOK'
  OBVIOUS
<1> USE DEF StartInv, TypeOK
<1>0. Len(Watch) \in Nat
  BY WatchAssumption
<1>1. CASE MainStep
  BY <1>1 DEF MainStep, Launch, SetupFails, SelectDone, SelectServerErr, SelectCollectorErr,
    SelectCase, Return, serverVars, collectorVars
<1>2. CASE Signal
  BY <1>2 DEF Signal, serverVars, collectorVars
<1>3. CASE Listen \/ ListenFails \/ AcceptFails
  BY <1>3 DEF Listen, ListenFails, AcceptFails, ServeFails, ServeError, collectorVars
<1>4. ASSUME NEW r \in Requests, Request(r) \/ Answer(r) PROVE TypeOK'
  BY <1>4 DEF Request, Answer, collectorVars
<1>5. CASE CollectorStep
  <2>1. CASE DryRunAccepted
    <3>1. Len(DryRuns(entry)) \in Nat /\ DryRun \in Factories
      BY <2>1, DryRunsType DEF DryRunAccepted, DryRun, ListOf
    <3> QED
      BY <2>1, <3>1 DEF DryRunAccepted, serverVars
  <2>2. CASE DryRunRefused
    BY <2>2 DEF DryRunRefused, serverVars
  <2>3. CASE DryRunNext
    BY <1>0, <2>3 DEF DryRunNext, serverVars, WatchIndex
  <2>4. CASE StartInformers
    BY <2>4 DEF StartInformers, Startable, serverVars
  <2>5. ASSUME NEW f \in Factories, CacheSynced(f) PROVE TypeOK'
    BY <2>5 DEF CacheSynced, serverVars
  <2>6. CASE LogWarnings \/ CacheSyncFails \/ CollectorStarted \/ CollectorStops
    BY <2>6 DEF LogWarnings, CacheSyncFails, CollectorStarted, CollectorStops, serverVars
  <2> QED
    BY <1>5, <2>1, <2>2, <2>3, <2>4, <2>5, <2>6 DEF CollectorStep
<1>6. ASSUME NEW f \in Factories, InformerSyncs(f) PROVE TypeOK'
  BY <1>6 DEF InformerSyncs, serverVars, collectorVars
<1>7. CASE ApiServer
  BY <1>7, RefusableAssumption DEF ApiServer, serverVars, collectorVars
<1>8. CASE UNCHANGED vars
  BY <1>8 DEF vars, serverVars, collectorVars
<1> QED
  BY <1>1, <1>2, <1>3, <1>4, <1>5, <1>6, <1>7, <1>8 DEF Next

\* Each step preserves StartInv; Launch is the one step of main that begins Start.
LEMMA StartInvNext == StartInv /\ [Next]_vars => StartInv'
<1> SUFFICES ASSUME StartInv, [Next]_vars PROVE StartInv'
  OBVIOUS
<1>0. TypeOK'
  BY TypeNext
<1>1. CASE Launch
  BY <1>0, <1>1 DEF Launch, StartInv, DryRunProgress, ListOf, DryRuns,
    NoInformerBeforeTheDryRun
<1>2. CASE CollectorStep
  BY <1>0, <1>2, StartInvStep
<1>3. CASE UNCHANGED startVars /\ (main' = "setup" => main = "setup")
  BY <1>0, <1>3, StartInvElsewhere
<1>4. MainStep => Launch \/ (UNCHANGED startVars /\ main' # "setup")
  BY DEF MainStep, SetupFails, SelectDone, SelectServerErr, SelectCollectorErr, SelectCase,
    Return, collectorVars, startVars
<1>5. Signal \/ Listen \/ ListenFails \/ AcceptFails \/ ApiServer
        \/ (\E r \in Requests : Request(r) \/ Answer(r))
        \/ (\E f \in Factories : InformerSyncs(f))
        \/ UNCHANGED vars
      => UNCHANGED startVars /\ main' = main
  BY DEF Signal, Listen, ListenFails, AcceptFails, ServeFails, Request, Answer,
    InformerSyncs, ApiServer, vars, collectorVars, startVars
<1> QED
  BY <1>1, <1>2, <1>3, <1>4, <1>5 DEF Next

\* StartInv is an invariant of the process.
LEMMA StartInvariant == Spec => []StartInv
<1> QED
  BY StartInvInit, StartInvNext, PTL DEF Spec

(***************************************************************************)
(* collector.go:98: a configuration mistake surfaces before anything is    *)
(* watched.  For every watch list and every behaviour of the API server,   *)
(* no informer starts before each selector has been accepted in each of    *)
(* its namespaces.                                                         *)
(***************************************************************************)
THEOREM DryRunComesFirst == Spec => []NoInformerBeforeTheDryRun
<1>1. StartInv => NoInformerBeforeTheDryRun
  BY DEF StartInv
<1> QED
  BY <1>1, StartInvariant, PTL

(***************************************************************************)
(* When "collector started" is logged, the initial LIST of every watched   *)
(* resource is in the cache, in every one of its namespaces.               *)
(***************************************************************************)
THEOREM StartedMeansSynced == Spec => []StartedIsSynced
<1>1. StartInv => StartedIsSynced
  BY DEF StartInv, TypeOK, StartedIsSynced
<1> QED
  BY <1>1, StartInvariant, PTL

-----------------------------------------------------------------------------
(* The scrapes *)

Collecting(r) == collect[r].stage \in {"listing", "walking"}

\* The Collects are well-typed, one at a time, and walk only over what informers list.
MutexInv ==
    /\ scrapeMu \in BOOLEAN
    /\ collect \in [Requests -> Collects]
    /\ \A r \in Requests : Collecting(r) => scrapeMu
    /\ \A a, b \in Requests : Collecting(a) /\ Collecting(b) => a = b
    /\ \A r \in Requests : collect[r].stage = "walking" => started # {}

-----------------------------------------------------------------------------
(* The exporter implements the process *)

\* A step of the exporter is one of the process, or changes only the scrapes.
LEMMA StepIsAProcessStep == [ExporterNext]_exporterVars => [Next]_vars
<1> SUFFICES ASSUME [ExporterNext]_exporterVars PROVE [Next]_vars
  OBVIOUS
<1>1. ASSUME NEW r \in Requests,
             Get(r) \/ Respond(r) \/ BeginCollect(r) \/ CollectStep(r)
      PROVE  [Next]_vars
  <2>1. Get(r) => Request(r)
    BY DEF Get
  <2>2. Respond(r) => Answer(r)
    BY DEF Respond
  <2>3. BeginCollect(r) \/ CollectStep(r) => UNCHANGED vars
    BY DEF BeginCollect, CollectStep, ListNext, WalkChains, NextRule, EndCollect
  <2> QED
    BY <1>1, <2>1, <2>2, <2>3 DEF Next
<1>2. CASE UNCHANGED exporterVars
  BY <1>2 DEF exporterVars
<1> QED
  BY <1>1, <1>2 DEF ExporterNext, Process, Next

(***************************************************************************)
(* Forgetting the scrapes, the exporter is the process of Lifecycle:       *)
(* whatever is proved of Spec holds while scrapes are answered.            *)
(***************************************************************************)
THEOREM ExporterIsTheProcess == ExporterSpec => Spec
<1>1. ExporterInit => Init
  BY DEF ExporterInit
<1> QED
  BY <1>1, StepIsAProcessStep, PTL DEF ExporterSpec, Spec

-----------------------------------------------------------------------------
(* Mutual exclusion *)

\* No request is in at the start.
LEMMA MutexInvInit == ExporterInit => MutexInv
<1> SUFFICES ASSUME ExporterInit PROVE MutexInv
  OBVIOUS
<1>1. Len(Anchors) \in Nat /\ Len(Anchors) >= 1
  BY AnchorsAssumption
<1>2. At("none") \in Collects
  BY <1>1 DEF At, Collects, Stages
<1> QED
  BY <1>2 DEF ExporterInit, MutexInv, Collecting, At

\* The scrape of one request moves, the others stay where they are.
LEMMA MutexInvMove ==
    ASSUME MutexInv, NEW r \in Requests, NEW c \in Collects,
           collect' = [collect EXCEPT ![r] = c], scrapeMu' \in BOOLEAN,
           started \subseteq started',
           c.stage \in {"listing", "walking"} =>
               /\ scrapeMu'
               /\ Collecting(r) \/ ~scrapeMu
               /\ c.stage = "walking" => started' # {},
           ~scrapeMu' => ~scrapeMu \/ Collecting(r),
           scrapeMu' /\ ~scrapeMu => c.stage \in {"listing", "walking"},
           c.stage \notin {"listing", "walking"} /\ Collecting(r) => ~scrapeMu'
    PROVE  MutexInv'
<1> USE DEF MutexInv, Collecting
<1>1. collect' \in [Requests -> Collects]
  OBVIOUS
<1>2. \A q \in Requests : collect'[q] = IF q = r THEN c ELSE collect[q]
  OBVIOUS
<1>3. ASSUME NEW q \in Requests, Collecting(q)' PROVE scrapeMu'
  BY <1>2, <1>3
<1>4. ASSUME NEW a \in Requests, NEW b \in Requests, Collecting(a)', Collecting(b)'
      PROVE  a = b
  BY <1>2, <1>4
<1>5. ASSUME NEW q \in Requests, collect'[q].stage = "walking" PROVE started' # {}
  BY <1>2, <1>5
<1> QED
  BY <1>1, <1>3, <1>4, <1>5

\* An informer that is started stays so.
LEMMA StartedGrows == StartInv /\ [Next]_vars => started \subseteq started'
<1> SUFFICES ASSUME StartInv, [Next]_vars PROVE started \subseteq started'
  OBVIOUS
<1>1. CASE StartInformers
  BY <1>1 DEF StartInformers, Startable, StartInv, TypeOK
<1>2. CollectorStep /\ ~StartInformers => UNCHANGED started
  BY DEF CollectorStep, LogWarnings, DryRunAccepted, DryRunRefused, DryRunNext, CacheSynced,
    CacheSyncFails, CollectorStarted, CollectorStops
<1>3. MainStep \/ Signal \/ Listen \/ ListenFails \/ AcceptFails \/ ApiServer
        \/ (\E r \in Requests : Request(r) \/ Answer(r))
        \/ (\E f \in Factories : InformerSyncs(f))
        \/ UNCHANGED vars
      => UNCHANGED started
  BY DEF MainStep, Launch, SetupFails, SelectDone, SelectServerErr, SelectCollectorErr,
    SelectCase, Return, Signal, Listen, ListenFails, AcceptFails, ServeFails, Request, Answer,
    InformerSyncs, ApiServer, vars, collectorVars
<1> QED
  BY <1>1, <1>2, <1>3 DEF Next

\* Each step of a scrape preserves MutexInv.
LEMMA MutexInvScrape ==
    ASSUME StartInv, MutexInv, NEW r \in Requests, started \subseteq started',
           Get(r) \/ Respond(r) \/ BeginCollect(r) \/ CollectStep(r)
    PROVE  MutexInv'
<1> DEFINE c == collect[r]
<1>1. Len(Anchors) \in Nat /\ Len(Anchors) >= 1
  BY AnchorsAssumption
<1>2. \A stage \in Stages : At(stage) \in Collects /\ At(stage).stage = stage
  BY <1>1 DEF At, Collects
<1>3. c \in Collects /\ (Collecting(r) => scrapeMu) /\ scrapeMu \in BOOLEAN
  BY DEF MutexInv
<1>4. CASE Get(r)
  <2>1. PICK stage \in {"waiting", "collected"} : collect' = [collect EXCEPT ![r] = At(stage)]
    BY <1>4 DEF Get
  <2>2. ~Collecting(r) /\ scrapeMu' = scrapeMu
    BY <1>4 DEF Get, Collecting
  <2> QED
    BY <1>2, <1>3, <2>1, <2>2, MutexInvMove DEF Stages
<1>5. CASE Respond(r)
  <2>1. collect' = [collect EXCEPT ![r] = At("none")] /\ ~Collecting(r) /\ scrapeMu' = scrapeMu
    BY <1>5 DEF Respond, Collecting
  <2> QED
    BY <1>2, <1>3, <2>1, MutexInvMove DEF Stages
<1>6. CASE BeginCollect(r)
  <2> DEFINE d == [At("listing") EXCEPT !.owed = (start = "running")]
  <2>1. d \in Collects /\ d.stage = "listing"
    BY <1>2 DEF At, Collects, Stages
  <2>2. collect' = [collect EXCEPT ![r] = d] /\ ~scrapeMu /\ scrapeMu' = TRUE
    BY <1>6 DEF BeginCollect, Lockable
  <2> HIDE DEF d
  <2> QED
    BY <1>3, <2>1, <2>2, MutexInvMove
<1>7. CASE ListNext(r)
  <2> DEFINE f == RuleFactories(c)[c.place]
             read == c.read \cup {g \in {f} \cap synced : c.owed}
             d == [c EXCEPT !.place = c.place + 1, !.read = read]
  <2>1. collect' = [collect EXCEPT ![r] = d] /\ c.stage = "listing" /\ scrapeMu' = scrapeMu
    BY <1>7 DEF ListNext, MutexInv
  <2>2. read \in SUBSET Factories
    BY <1>3 DEF Collects, StartInv, TypeOK
  <2> HIDE DEF read
  <2>3. d \in Collects /\ d.stage = c.stage
    <3>1. \A k \in Nat \ {0} : k + 1 \in Nat \ {0}
      OBVIOUS
    <3>2. c.place + 1 \in Nat \ {0}
      BY <1>3, <3>1 DEF Collects
    <3> DEFINE nextPlace == c.place + 1
    <3> HIDE DEF nextPlace
    <3>3. [c EXCEPT !.place = nextPlace, !.read = read] \in Collects
      BY <1>3, <2>2, <3>2 DEF Collects, nextPlace
    <3> QED
      BY <1>3, <3>3 DEF Collects, nextPlace
  <2> HIDE DEF d
  <2> QED
    BY <1>3, <2>1, <2>3, MutexInvMove DEF Collecting
<1>8. CASE WalkChains(r)
  <2> DEFINE d == [c EXCEPT !.stage = "walking"]
  <2>1. collect' = [collect EXCEPT ![r] = d] /\ c.stage = "listing" /\ scrapeMu' = scrapeMu
    BY <1>8 DEF WalkChains, MutexInv
  <2>2. started' # {}
    BY <1>8 DEF WalkChains
  <2>3. d \in Collects /\ d.stage = "walking"
    BY <1>3 DEF Collects, Stages
  <2> HIDE DEF d
  <2> QED
    BY <1>3, <2>1, <2>2, <2>3, MutexInvMove DEF Collecting
<1>9. RuleDone(c) => c.stage \in {"listing", "walking"}
  BY DEF RuleDone
<1>10. CASE NextRule(r)
  <2> DEFINE d == [c EXCEPT !.stage = "listing", !.rule = c.rule + 1, !.place = 1]
  <2>1. collect' = [collect EXCEPT ![r] = d] /\ RuleDone(c) /\ scrapeMu' = scrapeMu
    BY <1>10 DEF NextRule, MutexInv
  <2>2. d \in Collects /\ d.stage = "listing"
    <3>1. c.rule \in 1..Len(Anchors) /\ c.rule < Len(Anchors)
      BY <1>3, <1>10 DEF NextRule, Collects
    <3>2. c.rule + 1 \in 1..Len(Anchors)
      BY <1>1, <3>1
    <3> DEFINE nextRule  == c.rule + 1
               firstPlace == 1
    <3>3. firstPlace \in Nat \ {0}
      OBVIOUS
    <3> HIDE DEF nextRule, firstPlace
    <3>4. [c EXCEPT !.stage = "listing", !.rule = nextRule, !.place = firstPlace] \in Collects
      BY <1>3, <3>2, <3>3 DEF Collects, Stages, nextRule
    <3> QED
      BY <1>3, <3>4 DEF Collects, nextRule, firstPlace
  <2> HIDE DEF d
  <2> QED
    BY <1>3, <1>9, <2>1, <2>2, MutexInvMove DEF Collecting
<1>11. CASE EndCollect(r)
  <2>1. collect' = [collect EXCEPT ![r] = At("collected")] /\ RuleDone(c) /\ scrapeMu' = FALSE
    BY <1>11 DEF EndCollect, LockedAfter
  <2> QED
    BY <1>2, <1>3, <1>9, <2>1, MutexInvMove DEF Collecting, Stages
<1> QED
  BY <1>4, <1>5, <1>6, <1>7, <1>8, <1>10, <1>11 DEF CollectStep

\* Each step preserves MutexInv.
LEMMA MutexInvNext ==
    StartInv /\ MutexInv /\ [ExporterNext]_exporterVars => MutexInv'
<1> SUFFICES ASSUME StartInv, MutexInv, [ExporterNext]_exporterVars PROVE MutexInv'
  OBVIOUS
<1>1. started \subseteq started'
  BY StepIsAProcessStep, StartedGrows
<1>2. ASSUME NEW r \in Requests,
             Get(r) \/ Respond(r) \/ BeginCollect(r) \/ CollectStep(r)
      PROVE  MutexInv'
  BY <1>1, <1>2, MutexInvScrape
<1>3. CASE UNCHANGED scrapeVars
  BY <1>1, <1>3 DEF MutexInv, Collecting, scrapeVars
<1>4. CASE ScrapesAside
  <2>1. CASE ~Alive'
    <3>1. Len(Anchors) \in Nat /\ Len(Anchors) >= 1
      BY AnchorsAssumption
    <3>2. At("none") \in Collects /\ At("none").stage = "none"
      BY <3>1 DEF At, Collects, Stages
    <3>3. scrapeMu' = FALSE /\ collect' = [r \in Requests |-> At("none")]
      BY <1>4, <2>1 DEF ScrapesAside
    <3> QED
      BY <3>2, <3>3 DEF MutexInv, Collecting
  <2> QED
    BY <1>3, <1>4, <2>1 DEF ScrapesAside
<1>5. CASE UNCHANGED exporterVars
  BY <1>3, <1>5 DEF exporterVars
<1> QED
  BY <1>2, <1>4, <1>5 DEF ExporterNext, Process

\* Both invariants hold of the exporter.
LEMMA ExporterInvariant == ExporterSpec => [](StartInv /\ MutexInv)
<1>1. ExporterInit => StartInv /\ MutexInv
  BY MutexInvInit, StartInvInit DEF ExporterInit
<1>2. StartInv /\ MutexInv /\ [ExporterNext]_exporterVars => (StartInv /\ MutexInv)'
  BY MutexInvNext, StepIsAProcessStep, StartInvNext
<1> QED
  BY <1>1, <1>2, PTL DEF ExporterSpec

(***************************************************************************)
(* config.go:444: the names of an ambiguous kind are never being sorted by *)
(* two goroutines.  Two scrapes have scrapeMu between them; Start and a    *)
(* scrape have the order of Start itself, which looks its kinds up while   *)
(* there is no informer, so nothing to walk from.                          *)
(***************************************************************************)
THEOREM SortsExclude == ExporterSpec => []NoConcurrentSort
<1>1. StartInv /\ MutexInv => NoConcurrentSort
  <2> SUFFICES ASSUME StartInv, MutexInv, NEW kind \in AmbiguousKinds,
                      NEW a \in Sorting(kind), NEW b \in Sorting(kind)
               PROVE  a = b
    BY DEF NoConcurrentSort
  <2>1. \A r \in Requests : collect[r].stage = "walking" => start # "warnings"
    BY DEF StartInv, MutexInv
  <2> QED
    BY <2>1 DEF Sorting, MutexInv, Collecting
<1> QED
  BY <1>1, ExporterInvariant, PTL

-----------------------------------------------------------------------------
(* Full scrapes *)

\* Of the rules before c's, and of c's own up to its place, every factory is read.
ReadSoFar(c) ==
    /\ c.read \subseteq AnchorFactories
    /\ \A i \in 1..Len(Anchors) : \A n \in 1..Len(Listed[Anchors[i]]) :
          i < c.rule \/ (i = c.rule /\ (n < c.place \/ c.stage = "walking")) =>
              Listed[Anchors[i]][n] \in c.read

FullInv ==
    \A r \in Requests : collect[r].owed => synced = Factories /\ ReadSoFar(collect[r])

\* What ListAll reads for a rule are factories of its anchor, one per namespace.
LEMMA ListedFactories ==
    ASSUME NEW i \in 1..Len(Anchors)
    PROVE  /\ Len(Listed[Anchors[i]]) \in Nat
           /\ \A n \in 1..Len(Listed[Anchors[i]]) :
                 Listed[Anchors[i]][n] \in Factories \cap AnchorFactories
           /\ \A ns \in NamespaceKeys(Anchors[i]) : \E n \in 1..Len(Listed[Anchors[i]]) :
                 Listed[Anchors[i]][n] = [resource |-> Anchors[i], ns |-> ns]
<1> DEFINE a == Anchors[i]
           len == Len(ResourceNamespaces(a))
           list == [n \in 1..len |-> [resource |-> a, ns |-> ResourceNamespaces(a)[n]]]
<1>1. a \in Names
  BY AnchorsAssumption
<1>2. len \in Nat /\ \A n \in 1..len : ResourceNamespaces(a)[n] \in NamespaceKeys(a)
  BY <1>1, NamespacesOfResource
<1>3. Listed[a] = list
  BY <1>1 DEF Listed
<1>4. Len(list) = len
  BY <1>2
<1>5. ASSUME NEW n \in 1..len PROVE list[n] \in Factories \cap AnchorFactories
  <2> DEFINE ofName(name) == {[resource |-> name, ns |-> ns] : ns \in NamespaceKeys(name)}
  <2>1. list[n] \in ofName(a)
    BY <1>2
  <2>2. ofName(a) \in {ofName(name) : name \in Names}
    BY <1>1
  <2>3. ofName(a) \in {ofName(Anchors[j]) : j \in 1..Len(Anchors)}
    OBVIOUS
  <2>4. Factories = UNION {ofName(name) : name \in Names}
    BY DEF Factories
  <2>5. AnchorFactories = UNION {ofName(Anchors[j]) : j \in 1..Len(Anchors)}
    BY DEF AnchorFactories
  <2> HIDE DEF ofName, list
  <2> QED
    BY <2>1, <2>2, <2>3, <2>4, <2>5
<1>6. ASSUME NEW ns \in NamespaceKeys(a)
      PROVE  \E n \in 1..len : list[n] = [resource |-> a, ns |-> ns]
  BY DEF NamespaceKeys
<1> HIDE DEF len, list
<1> QED
  BY <1>2, <1>3, <1>4, <1>5, <1>6

\* What is in a cache stays there.
LEMMA SyncedGrows == [Next]_vars => synced \subseteq synced'
<1> SUFFICES ASSUME [Next]_vars PROVE synced \subseteq synced'
  OBVIOUS
<1>1. ASSUME NEW f \in Factories, InformerSyncs(f) PROVE synced \subseteq synced'
  BY <1>1 DEF InformerSyncs
<1>2. CollectorStep => UNCHANGED synced
  BY DEF CollectorStep, LogWarnings, DryRunAccepted, DryRunRefused, DryRunNext,
    StartInformers, CacheSynced, CacheSyncFails, CollectorStarted, CollectorStops
<1>3. MainStep \/ Signal \/ Listen \/ ListenFails \/ AcceptFails \/ ApiServer
        \/ (\E r \in Requests : Request(r) \/ Answer(r))
        \/ UNCHANGED vars
      => UNCHANGED synced
  BY DEF MainStep, Launch, SetupFails, SelectDone, SelectServerErr, SelectCollectorErr,
    SelectCase, Return, Signal, Listen, ListenFails, AcceptFails, ServeFails, Request, Answer,
    ApiServer, vars
<1> QED
  BY <1>1, <1>2, <1>3 DEF Next

\* The scrape of one request moves, to a Collect that keeps what it is owed.
LEMMA FullInvMove ==
    ASSUME FullInv, MutexInv, NEW r \in Requests, NEW c,
           collect' = [collect EXCEPT ![r] = c],
           synced = Factories => synced' = Factories,
           c.owed => synced' = Factories /\ ReadSoFar(c)
    PROVE  FullInv'
<1>1. \A q \in Requests : collect'[q] = IF q = r THEN c ELSE collect[q]
  BY DEF MutexInv
<1>2. ASSUME NEW q \in Requests, collect'[q].owed
      PROVE  synced' = Factories /\ ReadSoFar(collect'[q])
  BY <1>1, <1>2 DEF FullInv
<1> QED
  BY <1>2 DEF FullInv, ReadSoFar

\* Each step of a Collect that is at a rule preserves FullInv.
LEMMA FullInvCollect ==
    ASSUME FullInv, MutexInv, NEW r \in Requests, CollectStep(r),
           synced = Factories => synced' = Factories
    PROVE  FullInv'
<1> DEFINE c == collect[r]
           list == Listed[Anchors[c.rule]]
<1>1. c \in Collects
  BY DEF MutexInv
<1>2. c.rule \in 1..Len(Anchors) /\ c.place \in Nat \ {0}
  BY <1>1 DEF Collects
<1>3. Len(list) \in Nat /\ \A n \in 1..Len(list) : list[n] \in Factories \cap AnchorFactories
  BY <1>2, ListedFactories
<1>4. c.owed => synced = Factories /\ ReadSoFar(c)
  BY DEF FullInv
<1>5. Len(Anchors) \in Nat
  BY AnchorsAssumption
<1>6. CASE ListNext(r)
  <2> DEFINE f == list[c.place]
             read == c.read \cup {g \in {f} \cap synced : c.owed}
             d == [c EXCEPT !.place = c.place + 1, !.read = read]
  <2>1. collect' = [collect EXCEPT ![r] = d] /\ c.stage = "listing" /\ c.place <= Len(list)
    BY <1>6 DEF ListNext, MutexInv, RuleFactories
  <2>2. /\ d.owed = c.owed /\ d.stage = c.stage /\ d.rule = c.rule
        /\ d.place = c.place + 1 /\ d.read = read
    BY <1>1 DEF Collects
  <2>3. ASSUME c.owed PROVE ReadSoFar(d)
    <3>1. f \in Factories \cap AnchorFactories
      BY <1>2, <1>3, <2>1
    <3>2. read = c.read \cup {f}
      BY <1>4, <2>3, <3>1
    <3> HIDE DEF d, read, f
    <3>3. d.read \subseteq AnchorFactories
      BY <1>4, <2>2, <2>3, <3>1, <3>2 DEF ReadSoFar
    <3>4. ASSUME NEW i \in 1..Len(Anchors), NEW n \in 1..Len(Listed[Anchors[i]]),
                 i < d.rule \/ (i = d.rule /\ (n < d.place \/ d.stage = "walking"))
          PROVE  Listed[Anchors[i]][n] \in d.read
      <4>1. CASE i = c.rule /\ n = c.place
        BY <2>2, <3>2, <4>1 DEF f
      <4>2. CASE i < c.rule \/ (i = c.rule /\ n < c.place)
        BY <1>4, <2>2, <2>3, <3>2, <4>2 DEF ReadSoFar
      <4>3. Len(Listed[Anchors[i]]) \in Nat
        BY ListedFactories
      <4> QED
        BY <1>2, <2>1, <2>2, <3>4, <4>1, <4>2, <4>3
    <3> QED
      BY <3>3, <3>4 DEF ReadSoFar
  <2> HIDE DEF d
  <2> QED
    BY <1>4, <2>1, <2>2, <2>3, FullInvMove
<1>7. CASE WalkChains(r)
  <2> DEFINE d == [c EXCEPT !.stage = "walking"]
  <2>1. collect' = [collect EXCEPT ![r] = d] /\ c.place > Len(list)
    BY <1>7 DEF WalkChains, MutexInv, RuleFactories
  <2>2. /\ d.owed = c.owed /\ d.stage = "walking" /\ d.rule = c.rule
        /\ d.place = c.place /\ d.read = c.read
    BY <1>1 DEF Collects
  <2> HIDE DEF d
  <2>3. ASSUME c.owed PROVE ReadSoFar(d)
    BY <1>2, <1>3, <1>4, <2>1, <2>2, <2>3 DEF ReadSoFar
  <2> QED
    BY <1>4, <2>1, <2>2, <2>3, FullInvMove
<1>8. CASE NextRule(r)
  <2> DEFINE d == [c EXCEPT !.stage = "listing", !.rule = c.rule + 1, !.place = 1]
  <2>1. collect' = [collect EXCEPT ![r] = d]
        /\ (c.stage = "walking" \/ c.place > Len(list))
    BY <1>8 DEF NextRule, MutexInv, RuleDone, RuleFactories
  <2>2. /\ d.owed = c.owed /\ d.stage = "listing" /\ d.rule = c.rule + 1
        /\ d.place = 1 /\ d.read = c.read
    BY <1>1 DEF Collects
  <2> HIDE DEF d
  <2>3. ASSUME c.owed PROVE ReadSoFar(d)
    <3>1. ASSUME NEW i \in 1..Len(Anchors), NEW n \in 1..Len(Listed[Anchors[i]]),
                 i < d.rule \/ (i = d.rule /\ (n < d.place \/ d.stage = "walking"))
          PROVE  i < c.rule \/ (i = c.rule /\ (n < c.place \/ c.stage = "walking"))
      <4>1. i <= c.rule
        BY <1>2, <1>5, <2>2, <3>1, ListedFactories
      <4>2. CASE i = c.rule
        BY <1>2, <1>3, <2>1, <4>2
      <4> QED
        BY <1>2, <1>5, <4>1, <4>2
    <3> QED
      BY <1>4, <2>2, <2>3, <3>1 DEF ReadSoFar
  <2> QED
    BY <1>4, <2>1, <2>2, <2>3, FullInvMove
<1>9. CASE EndCollect(r)
  <2>1. collect' = [collect EXCEPT ![r] = At("collected")]
    BY <1>9 DEF EndCollect
  <2> QED
    BY <2>1, FullInvMove DEF At
<1> QED
  BY <1>6, <1>7, <1>8, <1>9 DEF CollectStep

\* Each step preserves FullInv: a Collect is owed all caches only when all are full.
LEMMA FullInvNext ==
    StartInv /\ StartInv' /\ MutexInv /\ FullInv /\ [ExporterNext]_exporterVars => FullInv'
<1> SUFFICES ASSUME StartInv, StartInv', MutexInv, FullInv, [ExporterNext]_exporterVars
             PROVE  FullInv'
  OBVIOUS
<1>1. synced = Factories => synced' = Factories
  BY StepIsAProcessStep, SyncedGrows DEF StartInv, TypeOK
<1>2. start = "running" => synced = Factories
  BY DEF StartInv, TypeOK
<1>3. ASSUME NEW r \in Requests, Get(r) \/ Respond(r) PROVE FullInv'
  <2>1. PICK stage \in Stages : collect' = [collect EXCEPT ![r] = At(stage)]
    BY <1>3 DEF Get, Respond, Stages
  <2> QED
    BY <1>1, <2>1, FullInvMove DEF At
<1>4. ASSUME NEW r \in Requests, BeginCollect(r) PROVE FullInv'
  <2> DEFINE d == [At("listing") EXCEPT !.owed = (start = "running")]
  <2>1. collect' = [collect EXCEPT ![r] = d] /\ synced' = synced
    BY <1>4 DEF BeginCollect, vars
  <2>2. d.owed = (start = "running") /\ d.rule = 1 /\ d.place = 1 /\ d.read = {}
        /\ d.stage = "listing"
    BY DEF At
  <2> HIDE DEF d
  <2>3. ReadSoFar(d)
    BY <2>2, ListedFactories DEF ReadSoFar
  <2> QED
    BY <1>2, <2>1, <2>2, <2>3, FullInvMove
<1>5. ASSUME NEW r \in Requests, CollectStep(r) PROVE FullInv'
  BY <1>1, <1>5, FullInvCollect
<1>6. CASE UNCHANGED scrapeVars
  BY <1>1, <1>6 DEF FullInv, ReadSoFar, scrapeVars
<1>7. CASE ScrapesAside
  BY <1>6, <1>7 DEF ScrapesAside, FullInv, At
<1>8. CASE UNCHANGED exporterVars
  BY <1>6, <1>8 DEF exporterVars
<1> QED
  BY <1>3, <1>4, <1>5, <1>7, <1>8 DEF ExporterNext, Process

(***************************************************************************)
(* main.go:102 serves before the caches are full.  For every watch list,   *)
(* every list of rules and every API server: a Collect that begins after   *)
(* "collector started" has, when it returns, read every anchor in every    *)
(* namespace from a cache whose initial LIST is complete.                  *)
(***************************************************************************)
THEOREM FullAfterStart == ExporterSpec => []ScrapesAfterStartAreFull
<1> DEFINE Inv == StartInv /\ MutexInv /\ FullInv
<1>1. ExporterInit => Inv
  BY MutexInvInit, StartInvInit DEF ExporterInit, FullInv, At
<1>2. Inv /\ [ExporterNext]_exporterVars => Inv'
  BY MutexInvNext, StepIsAProcessStep, StartInvNext, FullInvNext
<1>3. Inv => ScrapesAfterStartAreFull
  <2> SUFFICES ASSUME Inv, NEW r \in Requests, collect[r].owed, RuleDone(collect[r]),
                      collect[r].rule = Len(Anchors), NEW f \in AnchorFactories
               PROVE  f \in collect[r].read
    BY DEF ScrapesAfterStartAreFull, FullInv, ReadSoFar
  <2> DEFINE ofRule(i) == {[resource |-> Anchors[i], ns |-> ns] :
                              ns \in NamespaceKeys(Anchors[i])}
  <2>1. PICK i \in 1..Len(Anchors) : f \in ofRule(i)
    BY DEF AnchorFactories
  <2>2. PICK n \in 1..Len(Listed[Anchors[i]]) : Listed[Anchors[i]][n] = f
    BY <2>1, ListedFactories
  <2>3. ReadSoFar(collect[r])
    BY DEF FullInv
  <2>4. Len(Anchors) \in Nat /\ Len(Listed[Anchors[i]]) \in Nat
    BY AnchorsAssumption, ListedFactories
  <2>5. collect[r].place \in Nat
    BY DEF MutexInv, Collects
  <2>6. i < collect[r].rule
        \/ (i = collect[r].rule /\ (n < collect[r].place \/ collect[r].stage = "walking"))
    BY <2>1, <2>2, <2>4, <2>5 DEF RuleDone, RuleFactories
  <2> QED
    BY <2>2, <2>3, <2>6 DEF ReadSoFar
<1> HIDE DEF Inv
<1>4. ExporterSpec => []Inv
  BY <1>1, <1>2, PTL DEF ExporterSpec
<1> QED
  BY <1>3, <1>4, PTL
=============================================================================
