-------------------------- MODULE ResourceRegistry --------------------------
(***************************************************************************)
(* config.Registry and config.WatchScope after validation: the lookup      *)
(* tables that the informers, the resolver and the collector share.  The   *)
(* tables are built once and never change, so they are operators over the  *)
(* constant Watch, the sequence of watch.resources[] entries in            *)
(* declaration order with the built-in defaults already applied.           *)
(***************************************************************************)
EXTENDS Naturals, Sequences, FiniteSets

CONSTANT
    \* One record per entry of watch.resources[]:
    \*   name, gvk ([api, kind]), scope ("Namespaced" | "Cluster"),
    \*   namespaces (a sequence), selects (what labelSelector and
    \*   fieldSelector let through), follow, topController.
    Watch

ScopeNamespaced == "Namespaced"
ScopeCluster    == "Cluster"
NamespaceAll    == ""

WatchIndex == 1..Len(Watch)
Names      == {Watch[i].name : i \in WatchIndex}
Kinds      == {Watch[i].gvk.kind : i \in WatchIndex}

\* What Validate has established: duplicated names and duplicated GVKs are
\* refused, and a cluster-scoped entry carries no namespaces.
ASSUME WatchAssumption ==
    /\ Len(Watch) \in Nat
    /\ \A i, j \in WatchIndex :
          Watch[i].name = Watch[j].name \/ Watch[i].gvk = Watch[j].gvk => i = j
    /\ \A i \in WatchIndex :
          /\ Watch[i].scope \in {ScopeNamespaced, ScopeCluster}
          /\ Watch[i].namespaces \in Seq(STRING)
          /\ Watch[i].scope = ScopeCluster => Watch[i].namespaces = <<>>

ByName(name) == Watch[CHOOSE i \in WatchIndex : Watch[i].name = name]

NamesOfKind(kind) ==
    {Watch[i].name : i \in {j \in WatchIndex : Watch[j].gvk.kind = kind}}

\* kindToNames has one name for the kind.
UniqueKind(kind) == \E name \in Names : NamesOfKind(kind) = {name}

(***************************************************************************)
(* Registry.ResourceFor: a reference is a resource name, or a Kind that    *)
(* only one watched resource has.                                          *)
(***************************************************************************)
Resolves(ref) == ref \in Names \/ UniqueKind(ref)

ResourceFor(ref) ==
    IF ref \in Names THEN ByName(ref)
    ELSE ByName(CHOOSE name \in NamesOfKind(ref) : TRUE)

ResolvesGVK(gvk) == \E i \in WatchIndex : Watch[i].gvk = gvk

ResourceForGVK(gvk) == Watch[CHOOSE i \in WatchIndex : Watch[i].gvk = gvk]

\* Registry.SourceNames without the built-in roles.
ResourceSources == Names \cup {kind \in Kinds : UniqueKind(kind)}

(***************************************************************************)
(* WatchScope.ResourceFor: the first entry, in declaration order, whose    *)
(* name or whose kind is the given name.                                   *)
(***************************************************************************)
WatchResourceFor(name) ==
    Watch[CHOOSE i \in WatchIndex :
            /\ name \in {Watch[i].name, Watch[i].gvk.kind}
            /\ \A j \in 1..(i - 1) : name \notin {Watch[j].name, Watch[j].gvk.kind}]

\* NewScopedInformers listens in all namespaces at once.
ClusterWide(name) ==
    \/ ByName(name).scope = ScopeCluster
    \/ WatchResourceFor(name).namespaces = <<>>

\* Mutant: the namespaces are ignored.
MutantResourceNamespaces(name) == <<NamespaceAll>>

\* Where the factories of a resource listen, in the order of the configuration.
ResourceNamespaces(name) ==
    IF ClusterWide(name) THEN <<NamespaceAll>> ELSE WatchResourceFor(name).namespaces

NamespaceKeys(name) ==
    {ResourceNamespaces(name)[i] : i \in 1..Len(ResourceNamespaces(name))}

Selects(name) == WatchResourceFor(name).selects

\* Mutant: the branches swapped.
MutantNsKey(name, ns) == IF ClusterWide(name) THEN ns ELSE NamespaceAll

\* The key of the informer that a lookup in a namespace goes to.
nsKey(name, ns) == IF ClusterWide(name) THEN NamespaceAll ELSE ns
=============================================================================
