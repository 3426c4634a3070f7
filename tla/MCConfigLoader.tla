--------------------------- MODULE MCConfigLoader ---------------------------
(* Configuration files and API catalogs for the checks of ConfigLoader. *)
EXTENDS ConfigLoader, ResourceCatalog, TLC

Entry(kind) ==
    [name |-> "", kind |-> kind, apiVersion |-> "", version |-> "", resource |-> "",
     scope |-> "", namespaces |-> <<>>, follow |-> "", topController |-> FALSE,
     wellFormed |-> TRUE]

Full(name, version, resource, scope) ==
    [Entry("Job") EXCEPT !.name = name, !.version = version, !.resource = resource, !.scope = scope]

\* Entries of built-in kinds, the identity in full or in part.
KindOnlyEntries ==
    {Entry("Pod"), Entry("Deployment"), [Entry("Deployment") EXCEPT !.follow = "true"],
     [Entry("Node") EXCEPT !.namespaces = <<"n1">>]}

BuiltinEntries ==
    {[Entry("Pod") EXCEPT !.name = "p", !.version = "v1", !.resource = "pods",
                          !.scope = "Namespaced"],
     [Entry("Node") EXCEPT !.version = "v1", !.resource = "nodes", !.scope = "Namespaced"]}

\* Entries of a custom kind, in two groups and under two resources of one group.
CustomEntries ==
    {Full("j1", "batch/v1", "jobs", "Namespaced"),
     Full("j2", "batch/v1", "oldjobs", "Namespaced"),
     Full("j3", "volcano/v1", "jobs", "Namespaced"),
     [Full("j4", "", "jobs", "Namespaced") EXCEPT !.apiVersion = "batch/v1"],
     [Full("j5", "batch/v1", "jobs", "Cluster") EXCEPT !.apiVersion = "volcano/v1"]}

\* Entries that need discovery.
PartialEntries ==
    {[Full("", "", "", "") EXCEPT !.apiVersion = "batch/v1"],
     [Entry("Queue") EXCEPT !.apiVersion = "batch/v1"],
     [Entry("Queue") EXCEPT !.name = "q", !.apiVersion = "volcano/v1", !.namespaces = <<"n1">>],
     Entry("Queue")}

Malformed == [Entry("Pod") EXCEPT !.wellFormed = FALSE]

Entries == KindOnlyEntries \cup BuiltinEntries \cup CustomEntries \cup PartialEntries
              \cup {Malformed}

Rule(name, anchor) ==
    [name |-> name, anchor |-> anchor, forEach |-> FALSE, labels |-> {"l"},
     sources |-> {"anchor"}, prefixes |-> {}, wellFormed |-> TRUE, parses |-> TRUE]

RuleLists ==
    {<<Rule("a", "Pod"), [Rule("b", "Deployment") EXCEPT !.sources = {"topController"}]>>,
     <<[Rule("a", "j1") EXCEPT !.sources = {"Job", "anchor"}]>>,
     <<[Rule("a", "Job") EXCEPT !.forEach = TRUE, !.sources = {"item"}]>>,
     <<[Rule("a", "Queue") EXCEPT !.parses = FALSE]>>,
     <<Rule("a", "Queue"), Rule("b", "Job")>>,
     <<[Rule("a", "Deployment") EXCEPT !.labels = {}, !.prefixes = {"l_"}]>>}

\* One for each way a rule list is refused.
BadRuleLists ==
    {<<>>,
     <<Rule("a", "Pod"), Rule("a", "Pod")>>,
     <<[Rule("a", "Pod") EXCEPT !.sources = {"item"}]>>,
     <<[Rule("a", "Pod") EXCEPT !.prefixes = {"l"}]>>,
     <<[Rule("a", "Pod") EXCEPT !.labels = {}]>>,
     <<[Rule("a", "Pod") EXCEPT !.wellFormed = FALSE]>>}

\* At most three entries, and with the refused rules the one that would do.
Files ==
    [discovery : BOOLEAN, resources : UNION {[1..n -> Entries] : n \in 0..3}, rules : RuleLists]
    \cup
    [discovery : BOOLEAN, resources : {<<Entry("Pod")>>}, rules : BadRuleLists]

Api(name, kind, namespaced) ==
    [name |-> name, kind |-> kind, subresource |-> FALSE, namespaced |-> namespaced,
     listable |-> TRUE]

\* The usual answer; Queues of cluster scope, with a subresource; Jobs twice;
\* Jobs without watch; no permission.
ApiCatalogs ==
    LET batch == {Api("jobs", "Job", TRUE), Api("queues", "Queue", TRUE)}
        queue == Api("queues", "Queue", FALSE)
    IN  {("batch/v1" :> batch) @@ ("volcano/v1" :> {Api("queues", "Queue", TRUE)}),
         ("batch/v1" :> {Api("jobs", "Job", TRUE), queue, [queue EXCEPT !.subresource = TRUE]})
            @@ ("volcano/v1" :> {queue}),
         "batch/v1" :> (batch \cup {Api("cronjobs", "Job", TRUE)}),
         "batch/v1" :> {[Api("jobs", "Job", TRUE) EXCEPT !.listable = FALSE]},
         <<>>}
=============================================================================
