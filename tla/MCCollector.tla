----------------------------- MODULE MCCollector -----------------------------
(***************************************************************************)
(* Instances of Collector for TLC: the watch lists and objects come from   *)
(* MCCluster, the rules from here.                                         *)
(***************************************************************************)
EXTENDS Collector, MCCluster

CONSTANTS s1, s2

\* The conditions of the theorems about the caches and the walk hold of every instance.
ASSUME WatchListIsSound ==
    /\ ScopesAreTrue /\ NamespacesAreDistinct /\ NamesAreNotEarlierKinds
    /\ SourcesAreDistinct

OneScraper  == {s1}
TwoScrapers == {s1, s2}
Symmetry    == Permutations(TwoScrapers)

From(source, path) == [source |-> source, path |-> path]
Label(extracts)    == [extracts |-> extracts, onMissing |-> "none"]

Rule(anchor, labels, expands) ==
    [anchor |-> anchor, forEach |-> FALSE, labels |-> labels, expands |-> expands]

Expand(source, labelName) ==
    [source |-> source, path |-> "labels", labelName |-> labelName, allow |-> {}, deny |-> {}, maxKeys |-> 0]

\* Deployment, ReplicaSet and two Pods, of which one has no owner.
WorkloadRules ==
    <<Rule("Pod",
        "pod"   :> Label(<<From("anchor", "name")>>) @@
        "owner" :> Label(<<From("ownerController", "name")>>) @@
        "top"   :> Label(<<From("topController", "name"), From("anchor", "phase")>>),
        <<Expand("anchor", <<"label_x", "label_y">>)>>)>>

-----------------------------------------------------------------------------
(* Two rules, for two scrapers that overlap while a ReplicaSet comes back   *)

RecreatedWatch   == <<WorkloadWatch[1], WorkloadWatch[2]>>
RecreatedObjects == {p, r, r2}
RecreatedClusters == {{p, r}}

OwnerRules ==
    <<Rule("Pod",
        "pod"   :> Label(<<From("anchor", "name")>>) @@
        "owner" :> Label(<<From("ownerController", "phase")>>),
        <<Expand("anchor", <<"label_x">>)>>),
      Rule("ReplicaSet", "phase" :> Label(<<From("anchor", "phase")>>), <<>>)>>

-----------------------------------------------------------------------------
(* Per-namespace Pods and their Node: forEach, allow, deny and maxKeys.     *)
(* A Pod has a series per container, or none.                               *)

NamespacesRules ==
    <<[Rule("Pod",
        "namespace" :> Label(<<From("anchor", "namespace")>>) @@
        "container" :> Label(<<From("item", "name")>>) @@
        "node"      :> Label(<<From("Node", "phase")>>),
        <<[Expand("anchor", <<"label_x", "label_y", "label_x">>) EXCEPT !.maxKeys = 2],
          [Expand("ownerController", <<"label_x">>) EXCEPT !.allow = {1, 2}, !.deny = {2}]>>)
        EXCEPT !.forEach = TRUE]>>

-----------------------------------------------------------------------------
(* A custom resource that nests: a Group owned by a Group, and an owner     *)
(* cycle, which the API server does not refuse                              *)

GroupKind == GVK("example.com/v1", "Group")
g1 == Object(GroupKind, "a", "g1", "g1", <<Ref(GroupKind, "g2", "g2", TRUE)>>, "", <<>>)
g2 == Object(GroupKind, "a", "g2", "g2", <<>>, "", <<>>)
g2c == Object(GroupKind, "a", "g2", "g2", <<Ref(GroupKind, "g1", "g1", TRUE)>>, "", <<>>)

GroupWatch    == <<Entry("groups", GroupKind, ScopeNamespaced, <<>>, TRUE)>>
GroupObjects  == {g1, g2, g2c}
GroupClusters == {{g1, g2}}
CycleClusters == {{g1, g2c}, {g1, g2}, {}}

GroupRules ==
    <<Rule("groups",
        "group"  :> Label(<<From("anchor", "name")>>) @@
        "owner"  :> Label(<<From("ownerController", "name")>>) @@
        "top"    :> Label(<<From("topController", "name")>>) @@
        "groups" :> Label(<<From("groups", "name")>>), <<>>)>>

-----------------------------------------------------------------------------
(* Two rules of which the first has no label that tells its anchors apart   *)

UnidentifiedRules ==
    <<Rule("Pod", "namespace" :> Label(<<From("anchor", "namespace")>>), <<>>),
      Rule("Deployment", "deployment" :> Label(<<From("anchor", "name")>>), <<>>)>>

-----------------------------------------------------------------------------
(* A fixed label with the name that prefix + key gives one Pod's map        *)

CollidingRules ==
    <<Rule("Pod",
        "pod"     :> Label(<<From("anchor", "name")>>) @@
        "label_x" :> Label(<<From("anchor", "phase")>>),
        <<Expand("anchor", <<"label_x", "label_y">>)>>)>>

\* It is the only instance with rules whose labels collide.
ASSUME OnlyTheseCollide == Rules # CollidingRules => LabelsNeverCollide
=============================================================================
