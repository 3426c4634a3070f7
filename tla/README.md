# Verification of the resource metadata exporter

A TLA+ development of `custom-k8s-resource-metadata-watcher`, a Prometheus
exporter that watches configured Kubernetes resources through informers and, on
every scrape, turns them and the objects that own them into metrics. The
modules model the Go code of `src/cmd/main.go`, `src/pkg/config` and
`src/pkg/collector`; TLC checks them on small instances and TLAPS proves the
main results for every value of the constants.

## 1. Inventory of the system

| Part | State it keeps | Operations | Talks to |
|---|---|---|---|
| Configuration (`pkg/config`) | the parsed `Config`; its `watch.resources` are filled in place by discovery; the `Registry` tables, built once | `Load`, `Validate`, `ResolveDiscovery`, `Registry`, `ResourceFor`, `ResourceForGVK`, `SourceNames`, `WatchScope.ResourceFor` | API discovery, at start-up only |
| Scoped informers (`listers.go`) | one client-go cache per resource and namespace | `NewScopedInformers`, `DryRunSelectors`, `Start`, `ListAll`, `Get` | API server (LIST/WATCH), collector, resolver |
| Owner resolver (`resolver.go`) | the `Chain` of one anchor while it is being built | `Resolve` | informers, one lookup per step |
| Evaluator (`evaluator.go`, `pathexpr.go`) | compiled rules, constant | `Compile` and `parsePath` at start-up; `evaluate`, `EvaluateLabel`, `EvaluateForEach`, `EvaluateExpand` | pure |
| Collector (`collector.go`, `metrics.go`) | `scrapeMu`, the self-metrics, and per collect the pending series, the dynamic label set and a values buffer | `New`, `Start`, `Collect` | called by every `GET /metrics`; reads informers and resolver |
| Process (`main.go`) | two goroutines, two error channels, the signal context, the HTTP server | `main` | all of the above, the operating system |

What is hard, and where:

- **Interleaving.** Every `GET /metrics` is a goroutine of its own. They meet at
  `scrapeMu` and at the self-metrics. The caches change between any two reads
  of one scrape, so an anchor and its owners come from different moments.
- **Stale state.** Series are buffered until a rule's label set is known, and one
  values buffer serves all series of a rule. An owner is looked up by name. Rules
  are validated against entries that discovery then rewrites.
- **Ordering.** Dry run, then informers, then cache sync, while the server already
  answers; the chain is one map in which a later ancestor overwrites.
- **Bounds.** Owner cycles end at `maxDepth`; `maxKeys` cuts dynamic labels.
- **Failure.** A refused LIST, a lost permission, a server that cannot listen, a
  signal at any moment, a request that never ends, a rule whose series collide.

`PROJECT.json` lists the hazards at their lines, with the properties that cover
them or the reason why none does.

## 2. The modules

```
ResourceRegistry ── ScopedInformers ── OwnerResolver ─┐
      │  │                             Evaluator ─────┴── Collector ····· ScrapeService
      │  │                  PathExpr ───── └── Extraction   (Collector implements it)
      │  └── Lifecycle ── Exporter
      └····· ConfigLoader  (what it loads is a ResourceRegistry)

──  EXTENDS      ····  INSTANCE
```

**ResourceRegistry**: the registry after validation, as operators over the
constant `Watch`, the entries in declaration order. `ResourceFor` is the lookup by
name or unique kind (`Registry.ResourceFor`), `WatchResourceFor` the different one
by name *or* kind that the informers use (`WatchScope.ResourceFor`);
`ResourceNamespaces` and `nsKey` are where the informers of a resource listen and
which of them a lookup goes to. `WatchAssumption` is what validation guarantees.

**ScopedInformers**: the API server keeps a history of versions per key
(`versions`); each informer has a position in each history (`pos`) that only
moves forward, at its own pace, and may skip versions. That covers the initial
LIST, watch lag, and a relist after a broken watch. `Cache`, `ListAll` and
`Get` are the code's reads. Actions: `Write`, `Delete`, `Deliver`.

**OwnerResolver**: one iteration of `Resolve` as operators: `ControllerRef`,
`Parent` (the lookup), `StartChain`, `ExtendChain`, `AddChainObject`. The module
also has the reference against which the walk is checked: `Ancestor` as a function
of distance, and `ReferenceChain`, which reads each source off it without a walk.

**Evaluator**: labels with fallbacks, `forEach`, dynamic labels with allow,
deny and `maxKeys`. The value that a path selects is a field of the object.

**PathExpr**: `parsePath` as a function of the text, a sequence of characters, and
`evaluate` over decoded JSON. Parsing gives the set of what the text compiles to,
empty for an error; evaluation the set of the results it may return, because a
wildcard over an object ranges over a Go map.

**Extraction** puts the two under the Evaluator: `Compile` at the start-up, and then
scrapes that evaluate the rule on the same anchor again and again. An object becomes
the abstraction that Evaluator works on (`Views`), with `stringifyValue`,
`sanitizeLabelKey` and the wrapping of `forEach` items that are not objects. The module
also has the reference definitions: a grammar without a loop (`Grammar`), the nodes of
a tree whose address a path matches (`NamedBy`), and the loop over the sorted keys
(`LoopOverKeys`).

**Collector**: Collect as a process per scraper, with one action for each step
between which another goroutine may run: `Call`, `AcquireLock`, `BeginRule`,
`ListNamespace`/`ListAnchors`/`ListNothing` (one lister read per namespace),
`TakeAnchor`, `WalkOwner` (one cache lookup), `EndWalk`, `BeginEmit`, `EmitSeries`,
`EndRule`, `IncCollect`, `ObserveCollectDuration`, `Unlock`, `Respond` (what `Gather` and
`promhttp` make of the metrics). Counting a rule and timing it are two steps, because
another scrape's `Gather` reads the self-metrics between them, without the mutex.
`begun` is auxiliary: the position of every cache when the mutex was acquired.

**ScrapeService**: the abstract specification of the collector. There is one turn;
a scrape that has it answers, for each rule, with what it read in every cache entry
that the rule's anchors may be in, each a value that this entry had between the
beginning of the scrape and its end. Nothing is said of owners, order or steps.
`Collector!ScrapesAreServed` is this specification under the mapping at the end of
Collector: an entry's history is its informer's prefix of the API server's, the
turn is `scrapeMu`, `since` is `begun`.

**Lifecycle**: `main`, the goroutine of the HTTP server and the goroutine of
`Collector.Start`, over `Factories`, one informer per resource and namespace. The
API server refuses the LISTs in `refused`, a set that may change at any time. The
two channels, the select, the context and `Shutdown` with its deadline are modelled;
`accepted` is auxiliary. The warnings that Start logs first are the step `LogWarnings`.

**Exporter** composes Lifecycle with the scrapes that its server runs from the moment
it listens: each request has a Collect of its own, reduced to when it waits for
`scrapeMu`, which factories' listers it reads and when it walks. It answers what
Collector alone cannot: what a scrape finds before, during and after the start-up, and
whether Start's warnings and the walks meet in the sort of `Registry.ResourceFor`.

**ConfigLoader**: from the parsed file to a running collector: defaults
(`WithDefaults`), `Normalizes`, the registry with and without placeholders, rule
validation, discovery entry by entry with its cache, and the checks of
`collector.New`. The built-in kinds are an input, which the run takes from
**ResourceCatalog** (`supportedResources`). `Loaded` is `ResourceRegistry` over what has been loaded, so
`Loaded!WatchAssumption` is the very assumption of the other modules.

**MCCluster, MCInformers, MCCollector, MCExporter, MCConfigLoader, MCExtraction** hold
the instances. **ConfigProofs, ExporterProofs, ExtractionProofs** and the chain
**RegistryProofs, InformerProofs, CollectorProofs**, with **SeriesProofs** and
**ServiceProofs** on top, hold the theorems.

Operators named `Mutant...` are plausible mistakes in the operation they precede;
each property of a passing run is violated with one of them in place, which shows
that the property depends on the code.

## 3. What is checked

Passing runs (deadlock is not checked where a bound on calls or versions, or the
end of the process, makes the system stop):

| Run | Instance | Checks |
|---|---|---|
| `collector_walk` | Pod, ReplicaSet, Deployment; two versions per key; one scrape; 227,508 states | `ExactWhenStable`, `OneLabelSetOwnValues` |
| `collector_namespaces` | Pods of two listened and one other namespace, under a selector, with their cluster-scoped Node; `forEach`, allow, deny, `maxKeys`; 77,814 states | the same, `ListsItsOwnObjectsOnce`, `GetFindsWhatIsListed`, `ScrapesAreServed` |
| `collector_cycle` | a kind that owns itself: a chain, a cycle, nothing at all; two scrapers, under fairness; 14,276 states | `TypeOK`, `ExactWhenStable`, `ScrapeCompletes` |
| `collector_scrapes` | two rules, two overlapping scrapes, an owner deleted and re-created; 24,881 states | `ChargedInLockstep`, `AnchorCountIsOfThisCollect`, `NothingOlderThanTheScrape`, `ExactWhenStable`, `ScrapesAreServed` |
| `process` | Pods with a selector in two namespaces, a second resource of kind Pod without one; a rule for each; two requests; 33,788 states | `NoInformerBeforeTheDryRun`, `StartedIsSynced`, `NoConcurrentSort`, `ScrapesAfterStartAreFull`, `TerminationCompletes`, `NoGoroutineDiesAlone`, `ServedMeansStarted`, `EveryScrapeIsCollected` |
| `config_loading` | all lists of up to three of sixteen entries, with and without discovery, rule lists that are valid or wrong in one way, five API catalogs; 571,322 states | `LoadedIsAWatchList`, `LoadedRulesResolve`, `OneLookupPerGroupVersion` |
| `extraction` | all texts of up to four characters out of nine, all paths of up to three constructs with and without the first dot and the braces, a negative index, numbers up to `MaxInt` = 10 and one beyond, rules with `forEach`, fallbacks and `expandLabels`; nested lists and objects; 58,741 states | `StartsIfInTheGrammar`, `SpelledPathCompiles`, `ResultsAreTheNamedNodes`, `ExpandsInKeyOrder`, `SameObjectSameSeries` |

The central property of the collector is `ExactWhenStable`: if no cache moved
between acquiring the mutex and the end of Collect, the metrics sent are, series
for series and with their multiplicity, those that the reference computes from the
caches at once. When caches do move no exact answer is promised, and
`NothingOlderThanTheScrape` bounds how wrong it may be: every object that took part
was cached at some moment of this very Collect. `ScrapesAreServed` says it of the
anchors from the caller's side and adds completeness: an anchor that stays in the
cache is in the response, in one of the versions that it had meanwhile. It is checked with
two scrapes and with two namespaces, which one scrape lists at two moments.

`ChargedInLockstep` is about all rules at once: while a Collect runs, only the rule it is
at may be ahead, in its count before its timing, and between two Collects all rules are
level, in both. A second Collect that did not wait would pass a rule that the first has not
come to. `AnchorCountIsOfThisCollect` likewise holds while the Collect is at the rule;
what a *response* says of the self-metrics is no property, for `Gather` reads them outside
the mutex and may report the count of another collect.

What a reference shares with the code it cannot find wrong. `ExactWhenStable` shares the
choice of the owner reference (`ControllerRef`) and of the first keys (`FirstKeys`, which
`ExpandsInKeyOrder` checks against the loop). `Grammar` shares with the parser what it
strips (`Bare`), the characters of an identifier (`isIdentPart`) and what is in brackets
(`parseSubscript`), so it finds a loop that goes wrong and not a subscript that is read
wrong; `SpelledPathCompiles` starts from the constructs and shares nothing with the parser.

`process` asks three things of the composition. A scrape that begins after "collector
started" reads every anchor from a full cache (`ScrapesAfterStartAreFull`); before
that it may see any part. The in-place sort of an ambiguous kind's names never
runs in two goroutines (`NoConcurrentSort`): scrapes hold the mutex, and Start looks
its kinds up before there is an anchor to walk from. And a scrape is collected
whatever other clients do (`EveryScrapeIsCollected`).

`SameObjectSameSeries` allows a `forEach` over an object to give its items in any
order, and asks that the series are the same as a bag. It excludes labels whose own
path ranges over an object: those do change from scrape to scrape.

### Disagreements between code and documentation

Each run below must end in a counterexample.

| Run | The text | The code |
|---|---|---|
| `informers_two_jobs` | `listers.go:21`: per-kind selectors "without cross-contamination" | `WatchScope.ResourceFor` (`config.go:279`) takes the first entry with that name *or kind*: a resource named `Job` gets the namespaces and selector of an earlier entry of kind `Job` |
| `doc_first_source` | `CONFIG.md:291`, `config.go:173`: the first object of the resource along the chain | `addChainObject` overwrites: it is the last |
| `doc_independent_rules` | `CONFIG.md:122`: rules are independent | one duplicate series and the whole response is a 500 |
| `doc_colliding_labels` | `CONFIG.md:489`: Validate catches prefixes that conflict with fixed labels | only a prefix *equal* to a fixed name is refused; otherwise all series of the rule are dropped and the collect counts as ok |
| `doc_missing_permission` | `INTEGRATION_TESTS.md:116`: start-up fails without list/watch permission | the dry run skips resources without a selector and the wait for the cache has no deadline |

More were met and are noted here and under the hazards, without a run. An entry with
`apiVersion`, kind, resource and scope is looked up and rewritten (`config.go:721`),
although `config.go:495` and `CONFIG.md:179` say that only entries without resource or
scope are. The owner is
looked up by name and never by UID (`resolver.go:85`); a built-in namespaced kind
with `scope: Cluster` is listed but never found (`listers.go:241`); a kind-only
Deployment with `owner.follow: true` loses its `topController` (`config.go:710`). Paths
are read more leniently than `CONFIG.md:301` and the grammar at `pathexpr.go:31` say:
a trailing dot, a subscript followed by a field without a dot, and `[0:2]` or `[0abc]`
as `[0]` all compile, and a quoted key that contains `]` does not; the comment's
grammar of identifiers lacks the `-` that the code and `CONFIG.md:303` allow.

### Bounds

`MaxVersions` (1 or 2) bounds the versions of a key, deletions included; two are
what it takes to update, delete, or lose an object under a scrape, and a key
whose history starts empty can be created and deleted. `MaxCollects` (1 or 2)
bounds the calls of Collect: two let scrapes overlap, or follow each other with
what the first left behind. `MaxDepth` is the code's 8. Chains in the instances
are up to three objects long, cycles run to `MaxDepth`. Two requests are enough for
`process`: one waits for the other's mutex, and Shutdown only asks whether any is
left. `Refusable` bounds which factories the API server may refuse: in `process` one
of the two namespaces that the dry run lists, so that the dry run, a sync, and the wait
for it can fail or be late with the other namespace done. Four characters reach every
pair of states of the parser's loop and every way to close a subscript, and the
spelled paths add the longer ones. Three entries are enough for
`config_loading`: duplicates and ambiguous kinds relate two entries, and a third
lets an entry be skipped, or served from the lookup cache, between them.

### Fairness

- `Collector.FairSpec`: weak fairness of `Proceed`, the steps of a running Collect, because
  the Go scheduler runs a runnable goroutine; strong fairness of `AcquireLock`, because
  `sync.Mutex` hands itself over to a starving waiter. None for the API server, nor for
  `Respond`, which takes a client that reads; so `ScrapeCompletes` promises the end of
  Collect and not a response.
- `Exporter.ExporterFairSpec`: as `Lifecycle.FairSpec` below, and for each request weak
  fairness of a Collect under way and strong fairness of taking the mutex, as in
  `Collector.FairSpec`. None for `Respond`.
- `Lifecycle.FairSpec`: weak fairness of main, of the server's goroutine, of
  Start's and of the first LIST of each informer while it is not refused
  (the reflector retries). None for signals, for failures, for the API server's
  change of mind, nor for `Answer`: a client may never read its response, and
  `TerminationCompletes` holds all the same because Shutdown has a deadline.

## 4. What is proved

| Theorem | Statement |
|---|---|
| `CollectorProofs!TypeCorrect` | `Spec => []TypeOK` |
| `CollectorProofs!LockstepCharges` | `Spec => []ChargedInLockstep` |
| `CollectorProofs!CollectIsExclusive` | `Spec => []MutualExclusion` |
| `CollectorProofs!AnchorCountIsOwn` | `Spec => []AnchorCountIsOfThisCollect` |
| `CollectorProofs!CollectOnlyReads` | `Spec => InformersSpec`: the theorems about the caches hold under the collector |
| `CollectorProofs!EveryScrapeIsFresh` | `Spec => []NothingOlderThanTheScrape` |
| `SeriesProofs!LabelSetsAreSound` | `Spec => []OneLabelSetOwnValues` |
| `SeriesProofs!ScrapesAreExact` | `SourcesAreDistinct /\ LabelsNeverCollide => (Spec => []ExactWhenStable)` |
| `ServiceProofs!CollectorServes` | `AnchorIsARole => (Spec => ScrapesAreServed)` |
| `InformerProofs!InformersTypeCorrect` | `InformersSpec => []InformersTypeOK` |
| `InformerProofs!GetFindsListed` | `ScopesAreTrue /\ NamespacesAreDistinct => (InformersSpec => []GetFindsWhatIsListed)` |
| `InformerProofs!ListsOwnObjects` | `NamespacesAreDistinct /\ NamesAreNotEarlierKinds => (InformersSpec => []ListsItsOwnObjectsOnce)` |
| `ExporterProofs!DryRunComesFirst` | `Spec => []NoInformerBeforeTheDryRun` |
| `ExporterProofs!StartedMeansSynced` | `Spec => []StartedIsSynced` |
| `ExporterProofs!ExporterIsTheProcess` | `ExporterSpec => Spec`, so that the two theorems above hold of it |
| `ExporterProofs!SortsExclude` | `ExporterSpec => []NoConcurrentSort` |
| `ExporterProofs!FullAfterStart` | `ExporterSpec => []ScrapesAfterStartAreFull` |
| `ConfigProofs!WhatRunsIsAWatchList` | `Spec => []LoadedIsAWatchList` |
| `ConfigProofs!RunningRulesResolve` | `Spec => []LoadedRulesResolve` |
| `ConfigProofs!EachAskedOnce` | `Spec => []OneLookupPerGroupVersion` |
| `ExtractionProofs!RulesAlwaysStartIfInTheGrammar` | `Spec => []StartsIfInTheGrammar` |
| `ExtractionProofs!SpelledPathsAlwaysCompile` | `Spec => []SpelledPathCompiles` |
| `ExtractionProofs!ResultsAlwaysAreTheNamedNodes` | `Spec => []ResultsAreTheNamedNodes` |
| `ExtractionProofs!AlwaysExpandsInKeyOrder` | `Spec => []ExpandsInKeyOrder` |
| `ExtractionProofs!SameObjectAlwaysSameSeries` | `Spec => SameObjectSameSeries`, an action property |

The assumptions are the named ASSUMEs, which TLC evaluates on every instance:
`WatchAssumption`, `ObjectsAssumption` (a finite set of object versions, UIDs
unique), `MaxDepthAssumption`, `RulesAssumption` (anchors resolve), `SourcesAssumption`
(what `validateSource` accepts as the source of a label), `ItemsAssumption`,
`FilteredAssumption`, `RefusableAssumption`, `AnchorsAssumption`,
`ConfigsAssumption` (the files are sequences of entries and of rules), and for paths
`LettersAssumption` (no letter is a space or a mark of the syntax), `MaxIntAssumption`,
`MeantAssumption` (the auxiliary `meant` of a rule is `<<>>` or constructs that its paths
spell: it defines what `meant` is, not what the code gets), `RuleTextsAssumption`,
`ValuesAssumption` (decoded JSON: a part of a value is a value, objects are finite) and
`KeysAssumption` (`ByteOrder` puts the characters of the keys in an order).
Two theorems close the circle: what gets through `Load` and discovery satisfies
`WatchAssumption` (`WhatRunsIsAWatchList`), and its anchors and sources are those that
`RulesAssumption` and `SourcesAssumption` ask for (`RunningRulesResolve`).

Some theorems have hypotheses of their own, about what Validate does *not* refuse. They
are hypotheses and not ASSUMEs, so that each theorem says what it needs:

| Hypothesis | Says | Without it |
|---|---|---|
| `AnchorIsARole` | no resource or kind is called `anchor` | an owner overwrites the anchor in the chain |
| `SourcesAreDistinct` | no resource or kind has the name of a role, no resource that of another's kind | a source may be two things: `resolver.go:124` files both under one key |
| `LabelsNeverCollide` | no dynamic label has a fixed or reserved name | the rule sends nothing: `doc_colliding_labels` |
| `ScopesAreTrue` | the configured scope is that of the API server | `scope: Cluster` on a namespaced kind: listed, never found |
| `NamespacesAreDistinct` | an entry names a namespace once, and `""` not at all | its objects are listed twice (`listers.go:316`) |
| `NamesAreNotEarlierKinds` | no resource has the kind of an earlier entry for its name | another entry's selector: `informers_two_jobs` |

That they can be met is checked: `MCCollector!WatchListIsSound` and `OnlyTheseCollide` are
ASSUMEs that TLC evaluates, and every instance of the collector satisfies them but the one
of `doc_colliding_labels`, made to break `LabelsNeverCollide`. `informers_two_jobs` is made
to break `NamesAreNotEarlierKinds`.

The arguments:

- **Type correctness.** `TypeOK` is not inductive. Whether a rule is set, a
  next namespace exists, `cur` is an object and the pending series belong to the
  present rule depends on where the scraper is; `ScraperInv` says so, and
  `TypeInv` is its conjunction over all scrapers. Each step writes only its own
  scraper's share (`StepIsOwn`, `StepFrame`), so a step is examined once.
- **Lockstep.** `MutexInv` ties the counters to the mutex. Only its holder is in Collect
  (`HolderInCollect`); and some number is what every rule was counted and timed before
  this Collect, to which the holder has added one count for each rule that it has counted
  (`CountedBy`) and one timing for each that it has timed (`TimedBy`), so that without a
  holder all are equal (`Balanced`). The rules counted are the first ones, as many as
  those timed or one more.
- **Freshness.** `FreshInv` adds that cache histories are filed by key, that a
  scraper outside Collect holds nothing, and that `begun` is never ahead of a cache;
  without the second, acquiring the mutex would make an old object stale.
- **Caches.** `InformersInv` adds to the types that a history is filed under the key of
  its objects, and that an informer has applied versions only of what it watches. Which
  cache an object is in then follows from its key alone, and `Get` and `ListAll` are
  compared place by place. `CollectOnlyReads` carries this over to the collector.
- **Anchor count.** `CountHolds`: while the rule is materialised the gauge is the number of
  anchors left, plus the series pending, plus the anchor that is being walked. Only the
  mutex keeps other scrapes from setting the gauge meanwhile.
- **Labels.** `SeriesInv`: the buffer has a place for exactly the keys collected for the
  rule, the pending series' labels are among them, and nothing of the rule has been sent
  before its keys were complete; so every series that the buffer is filled for gets a
  value, or an empty one, for every label, and all of one rule get the same labels.
- **Exactness.** Four parts. (1) *The walk.* `Ancestor` is a recursive function; by the
  least distance at which its equation could fail it satisfies it (`AncestorIs`), and the
  chain after `d` steps is, source by source, the farthest of the first `d` ancestors filed
  under that source (`Filed`): one step of `ExtendChain` keeps this, and so does the end of
  the walk, by a missing owner or by `MaxDepth`. Beyond the end all ancestors are Absent, so
  what is left is `ReferenceChain`. (2) *The series* depend on the chain only through legal
  sources, so equal chains give equal series. (3) *The collision.* `KeysInv`: no key
  collected is a fixed or a reserved label, so every descriptor is valid and none is
  dropped. (4) *The scrape.* `ExactInv` follows a Collect under which the caches stand still:
  the anchors listed so far are the reference's, and there is a one-to-one matching between
  the metrics sent and series pending on one side and the series due for the anchors dealt
  with on the other (`Matched`), each metric with the labels of its partner. A metric moves
  from pending to sent under the same matching; at the end of a rule nothing is pending and
  everything is due, and two finite sets matched one to one have equal cardinalities, for
  each labelling too. Both invariants were checked by TLC on the instances of the collector
  runs before the proof.
- **Service.** The refinement mapping needs to know, at the end of a Collect, what every
  entry of every rule already done was read as. `ServedInv` keeps, for the rules done
  and the one under way, that the anchors listed, resolving and sent are together what
  was read in the places listed so far, each value one that the entry had since
  `begun`. With it `Unlock` is the abstract `Finish`; all other
  steps of Collect map to stutters, and the caches' steps to `CachesMove`.
- **Exporter.** `MutexInv`: `scrapeMu` is locked while a request is between its Lock and
  Unlock, and by one only; and no walk is on before an informer is started.
  `FullInv`: for a Collect that is owed full caches, all are synced and what is read so
  far is all that the rules so far list.
- **Start-up.** `StartInv`: all LISTs before the one the dry run is at have been
  accepted (`DryRunProgress`), nothing is started before the end of the dry run,
  and "running" has waited for every factory.
- **Configuration.** `LoadInv`: the lookup cache is a part of the catalog, the
  entries stay entries, from "registry" on the configuration is valid and from
  "new" on the registry builds without placeholders. `LookupInv`: while discovery is
  under way, what has been asked for is in its cache.

- **Paths, parsing.** `parsePath` goes through a text place by place; `Grammar` asks for
  *some* way to cut it into tokens. Each round of the loop that does not fail has read
  exactly one token (`TokenRound`, `SomeToken`), so what the loop accepts can be cut
  (`CutExists`); the other way round, two cuts of one text are the same, because an
  identifier goes on as far as it can and a subscript ends at the first `]`, and the
  segments of a cut are those of the rounds (`CutMeans`, `SomeCutMeans`). Both inductions
  run from the end of the text (`FromTheEnd`). Together this is `ParsesTheGrammar`, for
  texts of any length; `RefusedInv` ties the stage of a rule to it.
- **Paths, spelling.** `Written` puts each construct down as text. From any place of a
  path where a construct is written and nothing follows that would lengthen it, the
  parser reads that construct: a field (`FieldRound`, after `DotRound`), or a subscript
  (`SubscriptRound`), whose text `Trim` leaves alone and `parseSubscript` takes for the
  wildcard, the quoted key or the number (`ConstructToken`); `fmt.Sscanf` finds the number
  that the digits were made of (`ValueOfDecimal`, by induction on the digits). What follows
  is the end, a `.` or a `[` (`RestMarked`), so an identifier ends there. By induction on
  the constructs from the end, the path's last n compile to their n segments
  (`ReadsLast`). The four spellings differ only in what `Bare` takes away, and it takes
  away no more than that (`BareSubscripts`, `BareFields`), because neither a space nor a
  brace, nor `$.`, is at the ends of what is left.
- **Paths, evaluation.** After n segments the frontier enumerates the nodes at depth n whose
  address matches, each once (`EvaluatesInSomeOrder`), and in the order of their addresses
  if no object was ranged over (`EvaluatesInOrder`): children of different nodes differ,
  and the order of the parents is that of the children. A value then occurs among the
  results as often as among the nodes (`OccurrencesAreNodes`).
- **Same series.** `SeriesInv`: what a scrape left are the series of the results that some
  order gives, item by item (`MadeOf`). Labels that range over no object have one result,
  so an item has one series, and two scrapes count the same nodes (`SameObject`).
- **Expanded labels.** `Before` is a strict total order of the keys, so a key's rank is its
  place and the first ranks are the first keys in whichever set the lists let through
  (`RanksInOrder`, `FirstRanks`). After n rounds of the loop a label has the value of the
  last of the first n kept keys with a text that sanitises to it (`OutLeaves`), which is
  what the Evaluator gives (`ExpandIsLoop`).

The two recursive definitions of each of these arguments, the code's and the reference's,
are functions on an interval of the naturals. That such a function exists and satisfies
its equation is proved once (`Recursion`), and an induction is an argument by the least
number that is not good (`LeastNumber`, `UpTo`), because the library's induction theorems
cannot be used with the provers at hand.

Only model-checked, and why:

- the liveness properties `ScrapeCompletes`, `TerminationCompletes`,
  `NoGoroutineDiesAlone`, `ServedMeansStarted` and `EveryScrapeIsCollected`: their proofs
  need fairness, hence ENABLED, which the prover does not handle.

Every other property of a passing run is stated by a theorem above.

## 5. What is not modelled

- The times of `collect_duration_seconds`, of which the number is modelled; logging, wording of errors, flags, the kube client's
  rate limits, the exit status.
- YAML parsing and name patterns, one flag per entry and rule; a group without a
  version is not among the inputs of `ConfigLoader`.
- A repeated namespace in one entry: Validate lets it through and its objects are
  then listed twice; the instances have none.
- Characters beyond ASCII in paths and keys; the text that `%v` makes of a list or an
  object, and `%g` of a float.
- `clientgo_metrics.go` and `errors.go`, which have no state and take no part in the
  control of the others, and the test tools.

## 6. Plan

Order of work, most important behaviour first; all of it is done.

1. `ResourceRegistry`, `ScopedInformers`: lookups and caches over a changing cluster.
2. `OwnerResolver`, `Evaluator`, `Collector`: a scrape step by step, and several.
3. Proofs of types, mutual exclusion, self-metrics and freshness.
4. `Lifecycle`: start-up and termination, with proofs of the start-up order.
5. `ConfigLoader`: what validation and discovery let through.
6. Proof that what is loaded is a watch list in which references are unique.
7. `ScrapeService`: the abstract collector, the refinement mapping, its run, its proof.
8. `PathExpr` and `Extraction`: parser, walker and labels against reference definitions.
9. `Exporter`: scrapes and the process together, with proofs.
10. Proofs of `OneLabelSetOwnValues`, `AnchorCountIsOfThisCollect`,
    `GetFindsWhatIsListed` and `ListsItsOwnObjectsOnce`.
11. The proof of `ExactWhenStable`: the walk against its reference, and the matching of
    what is sent with what is due.
12. Proofs about `PathExpr` and `Extraction`: the parser against the grammar and against
    the spellings of `CONFIG.md`, the walker against the named nodes, the dynamic labels
    against the loop.
