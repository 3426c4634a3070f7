--------------------------- MODULE ResourceCatalog ---------------------------
(***************************************************************************)
(* The built-in kinds of package config: what an entry of watch.resources  *)
(* that only names one of them stands for.                                 *)
(***************************************************************************)
BuiltinResource(gv, resource, scope, topController) ==
    [gv |-> gv, resource |-> resource, scope |-> scope, topController |-> topController]

supportedResources ==
    [Pod           |-> BuiltinResource("v1", "pods", "Namespaced", FALSE),
     Node          |-> BuiltinResource("v1", "nodes", "Cluster", FALSE),
     Service       |-> BuiltinResource("v1", "services", "Namespaced", FALSE),
     EndpointSlice |-> BuiltinResource("discovery.k8s.io/v1", "endpointslices", "Namespaced", FALSE),
     ReplicaSet    |-> BuiltinResource("apps/v1", "replicasets", "Namespaced", FALSE),
     Deployment    |-> BuiltinResource("apps/v1", "deployments", "Namespaced", TRUE),
     StatefulSet   |-> BuiltinResource("apps/v1", "statefulsets", "Namespaced", TRUE),
     DaemonSet     |-> BuiltinResource("apps/v1", "daemonsets", "Namespaced", TRUE)]
=============================================================================
