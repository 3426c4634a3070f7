---------------------------- MODULE ConfigLoader ----------------------------
(***************************************************************************)
(* Package config and the setup half of main: Load with Validate,          *)
(* ResolveDiscovery, which fills the entries of watch.resources in place   *)
(* one by one, Config.Registry, and the checks of collector.New.  What     *)
(* gets through is the watch list that ResourceRegistry takes for granted. *)
(*                                                                         *)
(* A group/version is one value.  Name patterns are abstracted to the flag *)
(* wellFormed of an entry and of a rule; "" is an omitted field.           *)
(***************************************************************************)
EXTENDS Naturals, Sequences, FiniteSets

CONSTANTS
    \* The configuration files: [discovery, resources, rules], where
    \*   an entry of resources is [name, kind, apiVersion, version, resource,
    \*     scope, namespaces, follow ("", "true" or "false"), topController,
    \*     wellFormed], version being the separate group and version;
    \*   a rule has the names of its fixed labels, the sources of its extracts and
    \*     expandLabels, the prefixes of the latter, and whether Compile parses its
    \*     paths.
    Configs,
    \* The catalog: [kind -> [gv, resource, scope, topController]].
    Builtin,
    \* What API discovery may answer: functions from the group/versions it has
    \* to sets of [name, kind, subresource, namespaced, listable].
    Catalogs

VARIABLES
    stage,      \* "load", "discover", "registry", "new", "running" or "failed"
    config,     \* the file as it was parsed
    resources,  \* Config.Watch.Resources, filled in place
    next,       \* ResolveDiscovery's i
    cache,      \* ResolveDiscovery's cache
    catalog,    \* what the API server answers
    lookups     \* auxiliary: the group/versions asked for, in order

vars == <<stage, config, resources, next, cache, catalog, lookups>>

Rules  == config.rules
Scopes == {"Namespaced", "Cluster"}

\* An entry of watch.resources, as the file has it and as it is filled in.
EntryType ==
    [name : STRING, kind : STRING, apiVersion : STRING, version : STRING, resource : STRING,
     scope : STRING \cup Scopes, namespaces : Seq(STRING),
     follow : {"", "true", "false"}, topController : BOOLEAN, wellFormed : BOOLEAN]

RuleType ==
    [name : STRING, anchor : STRING, forEach : BOOLEAN, labels : SUBSET STRING,
     sources : SUBSET STRING, prefixes : SUBSET STRING, wellFormed : BOOLEAN, parses : BOOLEAN]

ASSUME ConfigsAssumption ==
    /\ \A file \in Configs :
          file.resources \in Seq(EntryType) /\ file.rules \in Seq(RuleType)
    /\ \A kind \in DOMAIN Builtin :
          Builtin[kind] \in [gv : STRING, resource : STRING, scope : STRING,
                            topController : BOOLEAN]
    /\ \A answers \in Catalogs : \A gv \in DOMAIN answers :
          \A api \in answers[gv] : api.name \in STRING

-----------------------------------------------------------------------------
(* Defaults and normalisation of one entry *)

\* isLegacyKindOnly: a built-in kind without any part of an identity.
KindOnly(r) == r.kind \in DOMAIN Builtin /\ r.apiVersion = "" /\ r.version = "" /\ r.resource = ""

\* applyLegacyDefaults.
WithDefaults(r) ==
    LET named == IF r.name = "" THEN [r EXCEPT !.name = r.kind] ELSE r
    IN  IF ~KindOnly(r) THEN named
        ELSE [named EXCEPT
                !.apiVersion = Builtin[r.kind].gv,
                !.version = Builtin[r.kind].gv,
                !.resource = Builtin[r.kind].resource,
                !.scope = IF @ = "" THEN Builtin[r.kind].scope ELSE @,
                !.topController = @ \/ (r.follow = "" /\ Builtin[r.kind].topController)]

\* groupVersionForResource, and when it is not an error.
GroupVersion(r)    == IF r.version # "" THEN r.version ELSE r.apiVersion
HasGroupVersion(r) ==
    /\ GroupVersion(r) # ""
    /\ r.apiVersion \in {"", GroupVersion(r)}

\* isCompleteResource.
Complete(raw) ==
    LET r == WithDefaults(raw)
    IN  r.kind # "" /\ r.version # "" /\ r.resource # "" /\ r.scope # ""

\* validateResolvedResource.
ValidResolved(r) ==
    /\ r.scope \in Scopes
    /\ r.scope = "Cluster" => r.namespaces = <<>>
    /\ \A kind \in DOMAIN Builtin \cap {r.kind} :
          /\ Builtin[kind].gv = GroupVersion(r)
          /\ Builtin[kind].resource = r.resource
          /\ Builtin[kind].scope = "Cluster"
          => r.scope = "Cluster"

\* normalizeResource succeeds with the whole identity, or with a placeholder
\* that discovery will have to fill.
HasIdentity(raw) ==
    LET r == WithDefaults(raw)
    IN  HasGroupVersion(r) /\ r.resource # "" /\ r.scope # ""

Placeholder(raw) ==
    LET r == WithDefaults(raw)
    IN  /\ ~KindOnly(raw)
        /\ \/ r.apiVersion = "" /\ r.version = ""
           \/ HasGroupVersion(r) /\ (r.resource = "" \/ r.scope = "")

Normalizes(raw, placeholders) ==
    /\ raw.kind # ""
    /\ raw.wellFormed
    /\ \/ HasIdentity(raw) /\ ValidResolved(WithDefaults(raw))
       \/ placeholders /\ Placeholder(raw)

\* The ResourceInfo of an entry.
Info(raw) ==
    LET r == WithDefaults(raw)
        whole == HasIdentity(raw)
    IN  [name |-> r.name, kind |-> r.kind, gv |-> GroupVersion(r),
         resource |-> IF whole THEN r.resource ELSE "",
         scope |-> IF whole THEN r.scope ELSE "",
         follow |-> r.follow # "false", topController |-> r.topController]

-----------------------------------------------------------------------------
(* The registry and Validate *)

\* Mutant: the GVR is looked at, the GVK is not.
MutantDuplicates(a, b) ==
    \/ a.name = b.name
    \/ a.resource # "" /\ a.resource = b.resource /\ a.gv = b.gv

\* buildRegistry refuses two entries with one name, one GVR or one GVK.
Duplicates(a, b) ==
    \/ a.name = b.name
    \/ a.resource # "" /\ a.resource = b.resource /\ a.gv = b.gv
    \/ a.gv # "" /\ a.gv = b.gv /\ a.kind = b.kind

RegistryBuilds(placeholders) ==
    /\ \A i \in 1..Len(resources) : Normalizes(resources[i], placeholders)
    /\ \A i \in 1..Len(resources) : \A j \in 1..(i - 1) :
          ~Duplicates(Info(resources[j]), Info(resources[i]))

\* What the informers and the registry make of the entries; the selectors are
\* not looked at here.
WatchList ==
    [i \in 1..Len(resources) |->
        [name |-> Info(resources[i]).name,
         gvk |-> [api |-> Info(resources[i]).gv, kind |-> Info(resources[i]).kind],
         scope |-> Info(resources[i]).scope,
         namespaces |-> resources[i].namespaces,
         follow |-> Info(resources[i]).follow,
         topController |-> Info(resources[i]).topController]]

Loaded == INSTANCE ResourceRegistry WITH Watch <- WatchList

\* Mutant: a kind is a source even if two resources have it.
MutantValidSource(source, forEach) ==
    \/ source \in {"anchor", "ownerController", "topController"}
    \/ source = "item" /\ forEach
    \/ source # "item" /\ source \in Loaded!Names \cup Loaded!Kinds

\* validateSource.
ValidSource(source, forEach) ==
    \/ source \in {"anchor", "ownerController", "topController"}
    \/ source = "item" /\ forEach
    \/ source # "item" /\ Loaded!Resolves(source)

\* Rule.validate and validateAgainstWatch.
ValidRule(rule) ==
    /\ rule.wellFormed
    /\ Loaded!Resolves(rule.anchor)
    /\ rule.labels # {} \/ rule.prefixes # {}
    /\ \A source \in rule.sources : ValidSource(source, rule.forEach)
    /\ rule.prefixes \cap rule.labels = {}

Valid ==
    /\ Rules # <<>>
    /\ RegistryBuilds(config.discovery)
    /\ \A i \in 1..Len(Rules) :
          /\ ValidRule(Rules[i])
          /\ \A j \in 1..(i - 1) : Rules[j].name # Rules[i].name

-----------------------------------------------------------------------------
Init ==
    /\ stage = "load"
    /\ config \in Configs
    /\ resources = config.resources
    /\ next = 1
    /\ cache = <<>>
    /\ catalog \in Catalogs
    /\ lookups = <<>>

Load ==
    /\ stage = "load"
    /\ stage' = IF ~Valid THEN "failed"
                ELSE IF config.discovery THEN "discover" ELSE "registry"
    /\ UNCHANGED <<config, resources, next, cache, catalog, lookups>>

\* An entry that ResolveDiscovery passes over.
Skipped(r) == Complete(r) \/ KindOnly(r)

SkipEntry ==
    /\ stage = "discover"
    /\ next <= Len(resources)
    /\ Skipped(resources[next])
    /\ next' = next + 1
    /\ UNCHANGED <<stage, config, resources, cache, catalog, lookups>>

\* The list of a group/version, from the cache or from the API server.
Known(gv)  == gv \in DOMAIN cache \cup DOMAIN catalog
Listing(gv) == IF gv \in DOMAIN cache THEN cache[gv] ELSE catalog[gv]

\* matchingAPIResources: subresources do not count.
Matching(r) == {a \in Listing(GroupVersion(r)) : a.kind = r.kind /\ ~a.subresource}

\* The entry can be filled: one resource of its kind, with list and watch.
Discovers(r) ==
    /\ HasGroupVersion(r)
    /\ r.kind # ""
    /\ Known(GroupVersion(r))
    /\ Cardinality(Matching(r)) = 1
    /\ \A match \in Matching(r) : match.listable

\* The lookup of an entry: once for a group/version.
Asks(r) == IF HasGroupVersion(r) /\ r.kind # "" /\ GroupVersion(r) \notin DOMAIN cache
           THEN <<GroupVersion(r)>> ELSE <<>>

\* Mutant: the answer is not kept.
MutantRemember(gv) == cache

\* The cache once a group/version has been asked for.
Remember(gv) == [known \in DOMAIN cache \cup {gv} |-> Listing(known)]

FillEntry ==
    /\ stage = "discover"
    /\ next <= Len(resources)
    /\ LET r == resources[next]
       IN  /\ ~Skipped(r)
           /\ Discovers(r)
           /\ lookups' = lookups \o Asks(r)
           /\ cache' = Remember(GroupVersion(r))
           /\ \E match \in Matching(r) :
                 resources' = [resources EXCEPT ![next] =
                     [r EXCEPT !.apiVersion = GroupVersion(r), !.version = GroupVersion(r),
                               !.resource = match.name,
                               !.scope = IF match.namespaced THEN "Namespaced" ELSE "Cluster"]]
    /\ next' = next + 1
    /\ UNCHANGED <<stage, config, catalog>>

DiscoveryFails ==
    /\ stage = "discover"
    /\ next <= Len(resources)
    /\ ~Skipped(resources[next])
    /\ ~Discovers(resources[next])
    /\ lookups' = lookups \o Asks(resources[next])
    /\ stage' = "failed"
    /\ UNCHANGED <<config, resources, next, cache, catalog>>

\* ResolveDiscovery builds the registry without placeholders and validates again.
EndDiscovery ==
    /\ stage = "discover"
    /\ next > Len(resources)
    /\ stage' = IF RegistryBuilds(FALSE) /\ Valid THEN "registry" ELSE "failed"
    /\ UNCHANGED <<config, resources, next, cache, catalog, lookups>>

\* Config.Registry, in main.
BuildRegistry ==
    /\ stage = "registry"
    /\ stage' = IF RegistryBuilds(FALSE) THEN "new" ELSE "failed"
    /\ UNCHANGED <<config, resources, next, cache, catalog, lookups>>

\* collector.New resolves the anchors and compiles the paths.
New ==
    /\ stage = "new"
    /\ stage' = IF \A i \in 1..Len(Rules) : Loaded!Resolves(Rules[i].anchor) /\ Rules[i].parses
                THEN "running" ELSE "failed"
    /\ UNCHANGED <<config, resources, next, cache, catalog, lookups>>

Next ==
    \/ Load \/ SkipEntry \/ FillEntry \/ DiscoveryFails \/ EndDiscovery \/ BuildRegistry \/ New

Spec == Init /\ [][Next]_vars

-----------------------------------------------------------------------------
(* Properties *)

(***************************************************************************)
(* What Load, ResolveDiscovery and Registry let through is a watch list as *)
(* the informers and the resolver take it for granted, whether an entry    *)
(* was written in full, completed from the catalog or from discovery: no   *)
(* two entries have one name or one GVK, and no cluster-scoped one has     *)
(* namespaces.                                                             *)
(***************************************************************************)
LoadedIsAWatchList == stage = "running" => Loaded!WatchAssumption

\* One entry has the name, or one entry has the kind.
MeansOneEntry(ref) ==
    \E i \in 1..Len(WatchList) :
        \/ \A j \in 1..Len(WatchList) : WatchList[j].name = ref <=> j = i
        \/ \A j \in 1..Len(WatchList) : WatchList[j].gvk.kind = ref <=> j = i

(***************************************************************************)
(* In a running collector every anchor and every source of every rule      *)
(* means one watched resource, so the "error" branch of collectRule is     *)
(* never taken, although the rules were validated before the entries they  *)
(* refer to were filled.                                                   *)
(***************************************************************************)
LoadedRulesResolve ==
    stage = "running" => \A i \in 1..Len(Rules) :
        /\ MeansOneEntry(Rules[i].anchor)
        /\ \A source \in Rules[i].sources :
              \/ source \in {"anchor", "ownerController", "topController"}
              \/ source = "item" /\ Rules[i].forEach
              \/ MeansOneEntry(source)

(***************************************************************************)
(* Discovery asks for a group/version once (docs/CONFIG.md:179), however   *)
(* many entries have it, and never when it is not enabled.                 *)
(***************************************************************************)
OneLookupPerGroupVersion ==
    /\ \A i, j \in 1..Len(lookups) : lookups[i] = lookups[j] => i = j
    /\ ~config.discovery => lookups = <<>>

=============================================================================
