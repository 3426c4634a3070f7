------------------------------ MODULE MCExporter ------------------------------
(***************************************************************************)
(* The exporter for TLC: two watched resources of kind Pod, the one in two *)
(* namespaces under a selector, the other in the whole cluster, and a rule *)
(* for each.                                                               *)
(***************************************************************************)
EXTENDS Exporter

CONSTANTS r1, r2

Entry(name, scope, api, namespaces, filtered) ==
    [name |-> name, gvk |-> [api |-> api, kind |-> "Pod"], scope |-> scope,
     namespaces |-> namespaces, selects |-> {}, follow |-> TRUE, topController |-> FALSE,
     filtered |-> filtered]

TwoPodResources ==
    <<Entry("vpods", ScopeNamespaced, "example.com/v1", <<>>, FALSE),
      Entry("corePods", ScopeNamespaced, "v1", <<"a", "b">>, TRUE)>>

BothResources == <<"vpods", "corePods">>

\* The API server may refuse one namespace of a resource that the dry run lists,
\* or the resource that it does not list.
CorePodsOfB == {[resource |-> "corePods", ns |-> "b"]}
AllVpods    == {[resource |-> "vpods", ns |-> NamespaceAll]}

TwoRequests == {r1, r2}
=============================================================================
