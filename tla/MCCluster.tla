------------------------------ MODULE MCCluster ------------------------------
(***************************************************************************)
(* API objects and watch lists to instantiate the modules with for TLC.    *)
(***************************************************************************)
EXTENDS ScopedInformers, TLC

GVK(api, kind) == [api |-> api, kind |-> kind]
Core(kind)     == GVK("v1", kind)
Apps(kind)     == GVK("apps/v1", kind)

\* A reference to an owner that is, or is not, the controller.
Ref(gvk, name, uid, controller) ==
    [api |-> gvk.api, kind |-> gvk.kind, name |-> name, uid |-> uid,
     controller |-> controller]

Object(gvk, ns, name, uid, owners, phase, map) ==
    [gvk |-> gvk, ns |-> ns, name |-> name, uid |-> uid, owners |-> owners,
     data |-> [name |-> name, namespace |-> ns, phase |-> phase], maps |-> [labels |-> map],
     items |-> <<>>]

\* An element of the list that a forEach path finds in an object.
Item(value) == [data |-> [name |-> value, namespace |-> "", phase |-> ""], maps |-> [labels |-> <<>>]]

\* An entry of watch.resources that lets every object through.
Entry(name, gvk, scope, namespaces, top) ==
    [name |-> name, gvk |-> gvk, scope |-> scope, namespaces |-> namespaces,
     selects |-> Objects, follow |-> TRUE, topController |-> top]

-----------------------------------------------------------------------------
(* Pod -> ReplicaSet -> Deployment in one namespace, everything watched *)

d == Object(Apps("Deployment"), "a", "d", "d1", <<>>, "", <<>>)
r == Object(Apps("ReplicaSet"), "a", "r", "r1",
            <<Ref(Apps("Deployment"), "d", "d1", TRUE)>>, "", <<>>)
\* The ReplicaSet's name again, after a deletion: another object, with no owner.
r2 == Object(Apps("ReplicaSet"), "a", "r", "r2", <<>>, "new", <<>>)
p == Object(Core("Pod"), "a", "p", "p1",
            <<Ref(Core("Node"), "n", "n1", FALSE), Ref(Apps("ReplicaSet"), "r", "r1", TRUE)>>,
            "", 1 :> "x")
q == Object(Core("Pod"), "a", "q", "q1", <<>>, "Running", 2 :> "y")

WorkloadWatch ==
    <<Entry("Pod", Core("Pod"), ScopeNamespaced, <<>>, FALSE),
      Entry("ReplicaSet", Apps("ReplicaSet"), ScopeNamespaced, <<>>, FALSE),
      Entry("Deployment", Apps("Deployment"), ScopeNamespaced, <<>>, TRUE)>>

WorkloadObjects  == {d, r, p, q}
WorkloadClusters == {WorkloadObjects}

-----------------------------------------------------------------------------
(* Pods of two namespaces under a selector, their cluster-scoped Node, and  *)
(* a namespace that is not watched                                          *)

n   == Object(Core("Node"), "", "n", "n1", <<>>, "Ready", 1 :> "z")
OnNode == <<[api |-> "", kind |-> "Node", name |-> "n", uid |-> "n1", controller |-> FALSE]>>
pa  == [Object(Core("Pod"), "a", "p", "pa", OnNode, "", (1 :> "x") @@ (2 :> "") @@ (3 :> "w"))
          EXCEPT !.items = <<Item("c1"), Item("c2")>>]
pb  == [Object(Core("Pod"), "b", "p", "pb", OnNode, "", <<>>) EXCEPT !.items = <<Item("c1")>>]
\* The same Pod after an update that takes it out of the selector.
pb2 == Object(Core("Pod"), "b", "p", "pb", OnNode, "Failed", <<>>)
pc3 == Object(Core("Pod"), "c", "p", "pc", OnNode, "", <<>>)

NamespacesObjects  == {n, pa, pb, pb2, pc3}
NamespacesClusters == {{n, pa, pb, pc3}}

NamespacesWatch ==
    <<[Entry("Pod", Core("Pod"), ScopeNamespaced, <<"a", "b">>, FALSE)
          EXCEPT !.selects = Objects \ {pb2}],
      Entry("Node", Core("Node"), ScopeCluster, <<>>, FALSE)>>

-----------------------------------------------------------------------------
(* Two API groups with a Job kind: the first has a name of its own and one  *)
(* namespace, the second is named by its kind and watched everywhere        *)

Batch(kind)   == GVK("batch/v1", kind)
Volcano(kind) == GVK("batch.volcano.sh/v1alpha1", kind)

j == Object(Batch("Job"), "a", "j", "j1", <<>>, "", <<>>)
v == Object(Volcano("Job"), "b", "v", "v1", <<>>, "", <<>>)

TwoJobsObjects  == {j, v}
TwoJobsClusters == {TwoJobsObjects}

TwoJobsWatch ==
    <<Entry("batch-jobs", Batch("Job"), ScopeNamespaced, <<"a">>, FALSE),
      Entry("Job", Volcano("Job"), ScopeNamespaced, <<>>, FALSE)>>

=============================================================================
