------------------------------ MODULE Lifecycle ------------------------------
(***************************************************************************)
(* The process of cmd/main.go: main sets up, starts the goroutine of the   *)
(* HTTP server and that of Collector.Start, waits for the first of a       *)
(* signal and their two errors, and shuts the server down.  Collector.Start *)
(* dry-runs the selectors, starts the informers, waits for their caches    *)
(* and then for the end.  The API server refuses the LIST/WATCH of some    *)
(* resources in some namespaces, for want of permission or for an invalid  *)
(* selector, and may change its mind.                                      *)
(***************************************************************************)
EXTENDS ResourceRegistry

\* Here an entry of Watch also says whether it has a labelSelector or a
\* fieldSelector: filtered.
CONSTANTS
    Requests,   \* HTTP requests that may be in flight at the same time
    Refusable   \* bound: the factories whose LIST/WATCH may be refused at all

ASSUME FilteredAssumption == \A i \in WatchIndex : Watch[i].filtered \in BOOLEAN

VARIABLES
    main,          \* where main is
    ctx,           \* the context of signal.NotifyContext: "live" or "done"
    server,        \* the http.Server
    serverErr,     \* channel, buffered: "empty" or "error"
    start,         \* where Collector.Start is
    collectorErr,  \* channel, buffered: "empty", "error" or "closed"
    entry, place,  \* DryRunSelectors: the resource, and its namespaces already listed
    accepted,      \* auxiliary: factories whose dry-run LIST has succeeded
    started,       \* factories whose informer has been started
    synced,        \* factories whose informer's initial LIST is in the cache
    waited,        \* factories whose WaitForCacheSync has returned true
    refused,       \* factories whose LIST/WATCH the API server refuses
    inflight       \* requests that the server is answering

collectorVars == <<start, collectorErr, entry, place, accepted, started, waited>>
serverVars    == <<server, serverErr, inflight>>
vars == <<main, ctx, collectorVars, serverVars, synced, refused>>

Factories ==
    UNION {{[resource |-> name, ns |-> ns] : ns \in NamespaceKeys(name)} : name \in Names}

\* The namespaces that the dry run lists for entry number i: none without a selector.
DryRuns(i) ==
    IF WatchResourceFor(Watch[i].name).filtered THEN ResourceNamespaces(Watch[i].name)
    ELSE <<>>

ASSUME RefusableAssumption == Refusable \subseteq Factories

DryRunFactories ==
    UNION {{[resource |-> Watch[i].name, ns |-> DryRuns(i)[n]] : n \in 1..Len(DryRuns(i))} :
              i \in WatchIndex}

Init ==
    /\ main = "setup"
    /\ ctx = "live"
    /\ server = "none"
    /\ serverErr = "empty"
    /\ start = "none"
    /\ collectorErr = "empty"
    /\ entry = 1
    /\ place = 0
    /\ accepted = {}
    /\ started = {}
    /\ synced = {}
    /\ waited = {}
    /\ refused \in SUBSET Refusable
    /\ inflight = {}

Alive == main # "exited"

-----------------------------------------------------------------------------
(* main *)

\* One of the steps before the goroutines fails: os.Exit(1).
SetupFails ==
    /\ main = "setup"
    /\ main' = "exited"
    /\ UNCHANGED <<ctx, collectorVars, serverVars, synced, refused>>

Launch ==
    /\ main = "setup"
    /\ main' = "select"
    /\ server' = "opening"
    /\ start' = "warnings"
    /\ UNCHANGED <<ctx, serverErr, collectorErr, entry, place, accepted, started, synced,
                   waited, refused, inflight>>

\* SIGINT or SIGTERM.  Before NotifyContext the default action ends the process.
Signal ==
    /\ main \in {"select", "draining"}
    /\ ctx' = "done"
    /\ UNCHANGED <<main, collectorVars, serverVars, synced, refused>>

\* The three cases of the select, in no order if several are ready; after an
\* error main cancels ctx.  Shutdown then closes the listener.
SelectCase(ready, cancelled) ==
    /\ main = "select"
    /\ ready
    /\ main' = "draining"
    /\ ctx' = IF cancelled THEN "done" ELSE ctx
    /\ server' = "closed"
    /\ UNCHANGED <<serverErr, inflight, collectorVars, synced, refused>>

SelectDone         == SelectCase(ctx = "done", FALSE)
SelectServerErr    == SelectCase(serverErr = "error", TRUE)
SelectCollectorErr == SelectCase(collectorErr # "empty", collectorErr = "error")

\* Mutant: Shutdown has no deadline.
MutantShutdownEnds == inflight = {}

\* Shutdown ends when no request is in flight, or after its 10 s.
ShutdownEnds == TRUE

\* main returns and the process ends, whatever its goroutines are doing.
Return ==
    /\ main = "draining"
    /\ ShutdownEnds
    /\ main' = "exited"
    /\ UNCHANGED <<ctx, collectorVars, serverVars, synced, refused>>

-----------------------------------------------------------------------------
(* The goroutine of the HTTP server *)

Listen ==
    /\ Alive
    /\ server = "opening"
    /\ server' = "listening"
    /\ UNCHANGED <<main, ctx, serverErr, inflight, collectorVars, synced, refused>>

\* Mutant: the error is logged and not sent.
MutantServeError == "empty"

\* What the goroutine sends when ListenAndServe returns an error other than
\* ErrServerClosed.
ServeError == "error"

ServeFails(state) ==
    /\ Alive
    /\ server = state
    /\ server' = "failed"
    /\ serverErr' = ServeError
    /\ UNCHANGED <<main, ctx, inflight, collectorVars, synced, refused>>

ListenFails == ServeFails("opening")    \* the address is in use
AcceptFails == ServeFails("listening")

\* A GET of /metrics or /healthz, answered 200 whatever Collector.Start is doing.
Request(r) ==
    /\ Alive
    /\ server = "listening"
    /\ inflight' = inflight \cup {r}
    /\ UNCHANGED <<main, ctx, server, serverErr, collectorVars, synced, refused>>

Answer(r) ==
    /\ Alive
    /\ inflight' = inflight \ {r}
    /\ UNCHANGED <<main, ctx, server, serverErr, collectorVars, synced, refused>>

-----------------------------------------------------------------------------
(* The goroutine of Collector.Start *)

\* logParentChainKindGaps and LogDanglingSelectorWarnings: they only read, and log.
LogWarnings ==
    /\ Alive
    /\ start = "warnings"
    /\ start' = "dryRun"
    /\ UNCHANGED <<main, ctx, collectorErr, entry, place, accepted, started, waited, serverVars,
                   synced, refused>>

\* The LIST that the dry run is at.
DryRun == [resource |-> Watch[entry].name, ns |-> DryRuns(entry)[place + 1]]

DryRunAccepted ==
    /\ Alive
    /\ start = "dryRun"
    /\ entry \in WatchIndex
    /\ place < Len(DryRuns(entry))
    /\ DryRun \notin refused
    /\ place' = place + 1
    /\ accepted' = accepted \cup {DryRun}
    /\ UNCHANGED <<main, ctx, start, collectorErr, entry, started, waited, serverVars, synced,
                   refused>>

\* Start returns the error of the LIST, and the goroutine sends it and closes
\* the channel; the close shows nowhere, because main receives once.
DryRunRefused ==
    /\ Alive
    /\ start = "dryRun"
    /\ entry \in WatchIndex
    /\ place < Len(DryRuns(entry))
    /\ DryRun \in refused \/ ctx = "done"
    /\ start' = "returned"
    /\ collectorErr' = "error"
    /\ UNCHANGED <<main, ctx, entry, place, accepted, started, waited, serverVars, synced,
                   refused>>

DryRunNext ==
    /\ Alive
    /\ start = "dryRun"
    /\ entry \in WatchIndex
    /\ place = Len(DryRuns(entry))
    /\ entry' = entry + 1
    /\ place' = 0
    /\ UNCHANGED <<main, ctx, start, collectorErr, accepted, started, waited, serverVars,
                   synced, refused>>

\* Mutant: the last entry is left out.
MutantDryRunDone == entry >= Len(Watch)

\* The loop of the dry run is through.
DryRunDone == entry \notin WatchIndex

\* Mutant: only the resources with a selector are started.
MutantStartable == DryRunFactories

\* What Start starts: the factories of all resources in all their namespaces.
Startable == Factories

StartInformers ==
    /\ Alive
    /\ start = "dryRun"
    /\ DryRunDone
    /\ start' = "sync"
    /\ started' = Startable
    /\ UNCHANGED <<main, ctx, collectorErr, entry, place, accepted, waited, serverVars,
                   synced, refused>>

\* The initial LIST of an informer succeeds; a refused one is tried again and again.
InformerSyncs(f) ==
    /\ Alive
    /\ ctx = "live"
    /\ f \in started \ (synced \cup refused)
    /\ synced' = synced \cup {f}
    /\ UNCHANGED <<main, ctx, collectorVars, serverVars, refused>>

\* The factories are waited for one by one, in the order of a Go map.
CacheSynced(f) ==
    /\ Alive
    /\ start = "sync"
    /\ f \in synced \ waited
    /\ waited' = waited \cup {f}
    /\ UNCHANGED <<main, ctx, start, collectorErr, entry, place, accepted, started, serverVars,
                   synced, refused>>

\* ctx is done first.
CacheSyncFails ==
    /\ Alive
    /\ start = "sync"
    /\ ctx = "done"
    /\ waited # Factories
    /\ start' = "returned"
    /\ collectorErr' = "error"
    /\ UNCHANGED <<main, ctx, entry, place, accepted, started, waited, serverVars, synced,
                   refused>>

\* Mutant: one namespace of each resource is enough.
MutantEverySynced == {f.resource : f \in waited} = Names

\* Every factory has been waited for.
EverySynced == waited = Factories

\* Start blocks until ctx is done.
CollectorStarted ==
    /\ Alive
    /\ start = "sync"
    /\ EverySynced
    /\ start' = "running"
    /\ UNCHANGED <<main, ctx, collectorErr, entry, place, accepted, started, waited,
                   serverVars, synced, refused>>

\* Start returns nil once ctx is done, and the channel is closed.
CollectorStops ==
    /\ Alive
    /\ start = "running"
    /\ ctx = "done"
    /\ start' = "returned"
    /\ collectorErr' = "closed"
    /\ UNCHANGED <<main, ctx, entry, place, accepted, started, waited, serverVars, synced,
                   refused>>

-----------------------------------------------------------------------------
\* The API server grants or refuses access to one resource in one namespace.
ApiServer ==
    /\ Alive
    /\ \E f \in Refusable :
          refused' \in {refused \cup {f}, refused \ {f}}
    /\ UNCHANGED <<main, ctx, collectorVars, serverVars, synced>>

MainStep == Launch \/ SetupFails \/ SelectDone \/ SelectServerErr \/ SelectCollectorErr \/ Return

CollectorStep ==
    \/ LogWarnings
    \/ DryRunAccepted \/ DryRunRefused \/ DryRunNext \/ StartInformers
    \/ \E f \in Factories : CacheSynced(f)
    \/ CacheSyncFails \/ CollectorStarted \/ CollectorStops

Next ==
    \/ MainStep \/ Signal
    \/ Listen \/ ListenFails \/ AcceptFails
    \/ \E r \in Requests : Request(r) \/ Answer(r)
    \/ CollectorStep
    \/ \E f \in Factories : InformerSyncs(f)
    \/ ApiServer

Spec == Init /\ [][Next]_vars

\* The goroutines run, a LIST is answered in the end, and a reflector whose LIST is
\* not refused fills its cache.  No request need ever be answered: its client may
\* not read.
Fairness ==
    /\ WF_vars(MainStep)
    /\ WF_vars(Listen \/ ListenFails)
    /\ WF_vars(CollectorStep)
    /\ \A f \in Factories : WF_vars(InformerSyncs(f))

FairSpec == Spec /\ Fairness

-----------------------------------------------------------------------------
(* Properties *)

TypeOK ==
    /\ main \in {"setup", "select", "draining", "exited"}
    /\ ctx \in {"live", "done"}
    /\ server \in {"none", "opening", "listening", "failed", "closed"}
    /\ serverErr \in {"empty", "error"}
    /\ start \in {"none", "warnings", "dryRun", "sync", "running", "returned"}
    /\ collectorErr \in {"empty", "error", "closed"}
    /\ entry \in 1..(Len(Watch) + 1)
    /\ place \in Nat
    /\ accepted \subseteq Factories
    /\ started \subseteq Factories
    /\ synced \subseteq started
    /\ waited \subseteq synced
    /\ refused \subseteq Factories
    /\ inflight \subseteq Requests

(***************************************************************************)
(* Start runs a one-shot LIST dry-run for selectors so that mistakes       *)
(* surface immediately (collector.go:98): no informer starts before the    *)
(* API server has accepted every selector in every namespace.              *)
(***************************************************************************)
NoInformerBeforeTheDryRun == started # {} => DryRunFactories \subseteq accepted

(***************************************************************************)
(* "collector started" is logged only with every watched resource in the   *)
(* cache, in every one of its namespaces.                                  *)
(***************************************************************************)
StartedIsSynced == start = "running" => synced = Factories

(***************************************************************************)
(* Once ctx is done the process ends, whatever Start is waiting for and    *)
(* even if a request in flight is never answered.                          *)
(***************************************************************************)
TerminationCompletes == ctx = "done" ~> main = "exited"

(***************************************************************************)
(* Neither goroutine dies in silence: when the server fails, or Start      *)
(* returns, the process ends.                                              *)
(***************************************************************************)
NoGoroutineDiesAlone == server = "failed" \/ start = "returned" ~> main = "exited"

(***************************************************************************)
(* If from some moment on the API server refuses nothing, the collector is *)
(* fully started or the process has ended: Start waits for nothing else.   *)
(***************************************************************************)
ServedMeansStarted == <>[](refused = {}) => <>(start = "running" \/ main = "exited")

(***************************************************************************)
(* docs/INTEGRATION_TESTS.md:116: without list/watch permission for a      *)
(* watched resource the startup fails.                                     *)
(***************************************************************************)
MissingPermissionFailsStartup ==
    \A f \in Factories : [](f \in refused) => <>(main = "exited")
=============================================================================
