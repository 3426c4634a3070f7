---------------------------- MODULE ConfigProofs ----------------------------
(***************************************************************************)
(* What Validate and discovery let through, for every configuration file,  *)
(* catalog of built-in kinds and API server.                               *)
(***************************************************************************)
EXTENDS ConfigLoader, TLAPS, SequenceTheorems

\* What is in the cache is what the API server answered.
CacheIsTheCatalog ==
    \A gv \in DOMAIN cache : gv \in DOMAIN catalog /\ cache[gv] = catalog[gv]

LoadInv ==
    /\ catalog \in Catalogs
    /\ CacheIsTheCatalog
    /\ next \in Nat \ {0}
    /\ resources \in Seq(EntryType)
    /\ stage \in {"registry", "new", "running"} => Valid
    /\ stage \in {"new", "running"} => RegistryBuilds(FALSE)

\* The built-in defaults complete an entry and leave its namespaces.
LEMMA WithDefaultsType ==
    ASSUME NEW r \in EntryType
    PROVE  /\ WithDefaults(r) \in EntryType
           /\ WithDefaults(r).namespaces = r.namespaces
<1> DEFINE named == IF r.name = "" THEN [r EXCEPT !.name = r.kind] ELSE r
           entry == Builtin[r.kind]
           full  == [named EXCEPT
                        !.apiVersion = entry.gv,
                        !.version = entry.gv,
                        !.resource = entry.resource,
                        !.scope = IF @ = "" THEN entry.scope ELSE @,
                        !.topController = @ \/ (r.follow = "" /\ entry.topController)]
<1>1. named \in EntryType /\ named.namespaces = r.namespaces
  BY DEF EntryType
<1>2. ASSUME KindOnly(r)
      PROVE  full \in EntryType /\ full.namespaces = named.namespaces
  <2>1. entry \in [gv : STRING, resource : STRING, scope : STRING, topController : BOOLEAN]
    BY <1>2, ConfigsAssumption DEF KindOnly
  <2> HIDE DEF named, entry
  <2>2. (IF named.scope = "" THEN entry.scope ELSE named.scope)
         \in STRING \cup Scopes
    BY <1>1, <2>1 DEF EntryType
  <2>3. (named.topController \/ (r.follow = "" /\ entry.topController)) \in BOOLEAN
    OBVIOUS
  <2> QED
    BY <1>1, <2>1, <2>2, <2>3 DEF EntryType
<1>3. WithDefaults(r) = IF KindOnly(r) THEN full ELSE named
  BY DEF WithDefaults
<1> QED
  BY <1>1, <1>2, <1>3

\* The first configuration is the file's.
LEMMA LoadInvInit == Init => LoadInv
  BY ConfigsAssumption DEF Init, LoadInv, CacheIsTheCatalog

\* An entry filled from a listing is an entry, and the listing stays the catalog's.
LEMMA LoadInvFill == LoadInv /\ FillEntry => LoadInv'
<1> SUFFICES ASSUME LoadInv, FillEntry PROVE LoadInv'
  OBVIOUS
<1> DEFINE gv == GroupVersion(resources[next])
<1>1. resources[next] \in EntryType
  BY DEF FillEntry, LoadInv
<1>2. gv \in STRING
  BY <1>1 DEF GroupVersion, EntryType
<1>3. gv \in DOMAIN catalog /\ Listing(gv) = catalog[gv]
  BY DEF FillEntry, Discovers, Known, Listing, LoadInv, CacheIsTheCatalog
<1>4. PICK match \in Matching(resources[next]) :
        resources' = [resources EXCEPT ![next] =
            [resources[next] EXCEPT !.apiVersion = gv, !.version = gv,
                      !.resource = match.name,
                      !.scope = IF match.namespaced THEN "Namespaced" ELSE "Cluster"]]
  BY DEF FillEntry
<1>5. match.name \in STRING
  BY <1>3, <1>4, ConfigsAssumption DEF Matching, LoadInv
<1>6. resources' \in Seq(EntryType)
  <2> DEFINE filled == [resources[next] EXCEPT !.apiVersion = gv, !.version = gv,
                          !.resource = match.name,
                          !.scope = IF match.namespaced THEN "Namespaced" ELSE "Cluster"]
  <2>0. (IF match.namespaced THEN "Namespaced" ELSE "Cluster") \in Scopes
    BY DEF Scopes
  <2>1. filled \in EntryType
    <3> HIDE DEF gv
    <3> QED
      BY <1>1, <1>2, <1>5, <2>0 DEF EntryType
  <2>2. resources' = [resources EXCEPT ![next] = filled]
    BY <1>4
  <2> HIDE DEF filled
  <2> QED
    BY <2>1, <2>2, ExceptSeq DEF LoadInv, FillEntry
<1>7. CacheIsTheCatalog'
  BY <1>3 DEF FillEntry, LoadInv, CacheIsTheCatalog, Remember, Listing
<1> QED
  BY <1>6, <1>7 DEF FillEntry, LoadInv

\* The other steps leave the entries; what New sees has been validated and built.
LEMMA LoadInvNext == LoadInv /\ [Next]_vars => LoadInv'
<1> SUFFICES ASSUME LoadInv, [Next]_vars PROVE LoadInv'
  OBVIOUS
<1>0. ASSUME UNCHANGED <<config, resources, cache, catalog>>, next' \in Nat \ {0},
             stage' \in {"registry", "new", "running"} => Valid,
             stage' \in {"new", "running"} => RegistryBuilds(FALSE)
      PROVE  LoadInv'
  <2>1. RegistryBuilds(FALSE)' = RegistryBuilds(FALSE)
    BY <1>0 DEF RegistryBuilds
  <2>2. Valid' = Valid
    <3>1. WatchList' = WatchList /\ Rules' = Rules
      BY <1>0 DEF WatchList, Rules
    <3>2. \A source : Loaded!Resolves(source)' = Loaded!Resolves(source)
      BY <3>1 DEF Loaded!Resolves, Loaded!UniqueKind, Loaded!Names, Loaded!NamesOfKind,
                  Loaded!WatchIndex
    <3>3. \A rule : ValidRule(rule)' = ValidRule(rule)
      BY <3>2 DEF ValidRule, ValidSource
    <3>4. RegistryBuilds(config.discovery)' = RegistryBuilds(config.discovery)
      BY <1>0 DEF RegistryBuilds
    <3> QED
      BY <3>1, <3>3, <3>4 DEF Valid
  <2> QED
    BY <1>0, <2>1, <2>2 DEF LoadInv, CacheIsTheCatalog
<1>1. CASE Load
  BY <1>0, <1>1 DEF Load, LoadInv
<1>2. CASE SkipEntry
  BY <1>0, <1>2 DEF SkipEntry, LoadInv
<1>3. CASE FillEntry
  BY <1>3, LoadInvFill
<1>4. CASE DiscoveryFails
  BY <1>0, <1>4 DEF DiscoveryFails, LoadInv
<1>5. CASE EndDiscovery
  BY <1>0, <1>5 DEF EndDiscovery, LoadInv
<1>6. CASE BuildRegistry
  BY <1>0, <1>6 DEF BuildRegistry, LoadInv
<1>7. CASE New
  BY <1>0, <1>7 DEF New, LoadInv
<1>8. CASE UNCHANGED vars
  BY <1>0, <1>8 DEF vars, LoadInv
<1> QED
  BY <1>1, <1>2, <1>3, <1>4, <1>5, <1>6, <1>7, <1>8 DEF Next

\* A registry that builds without placeholders has whole, different entries.
LEMMA BuiltIsAWatchList ==
    ASSUME resources \in Seq(EntryType), RegistryBuilds(FALSE)
    PROVE  Loaded!WatchAssumption
<1> DEFINE index == 1..Len(resources)
<1>1. Len(WatchList) = Len(resources) /\ Len(resources) \in Nat
  BY DEF WatchList
<1>2. ASSUME NEW i \in index
      PROVE  /\ resources[i] \in EntryType
             /\ HasIdentity(resources[i])
             /\ ValidResolved(WithDefaults(resources[i]))
  <2>1. resources[i] \in EntryType
    BY <1>1
  <2>2. Normalizes(resources[i], FALSE)
    BY DEF RegistryBuilds
  <2> QED
    BY <2>1, <2>2 DEF Normalizes
<1>3. ASSUME NEW i \in index
      PROVE  /\ Info(resources[i]).gv # ""
             /\ Info(resources[i]).scope \in {"Namespaced", "Cluster"}
             /\ Info(resources[i]).scope = "Cluster" => resources[i].namespaces = <<>>
  BY <1>2, WithDefaultsType DEF Info, HasIdentity, HasGroupVersion, ValidResolved, Scopes
<1>4. ASSUME NEW i \in index, NEW j \in 1..(i - 1)
      PROVE  WatchList[i].name # WatchList[j].name /\ WatchList[i].gvk # WatchList[j].gvk
  <2>1. j \in index
    BY <1>1
  <2>2. ~Duplicates(Info(resources[j]), Info(resources[i]))
    BY DEF RegistryBuilds
  <2> QED
    BY <2>1, <2>2, <1>3 DEF WatchList, Duplicates
<1>5. \A i, j \in index :
         WatchList[i].name = WatchList[j].name \/ WatchList[i].gvk = WatchList[j].gvk => i = j
  BY <1>1, <1>4
<1>6. \A i \in index :
         /\ WatchList[i].scope \in {"Namespaced", "Cluster"}
         /\ WatchList[i].namespaces \in Seq(STRING)
         /\ WatchList[i].scope = "Cluster" => WatchList[i].namespaces = <<>>
  BY <1>2, <1>3 DEF WatchList, EntryType
<1> QED
  BY <1>1, <1>5, <1>6
  DEF Loaded!WatchAssumption, Loaded!WatchIndex, Loaded!ScopeNamespaced, Loaded!ScopeCluster

\* Whatever the file and the API server, a running collector has a watch list as
\* ResourceRegistry, and with it every other module, takes it for granted.
THEOREM WhatRunsIsAWatchList == Spec => []LoadedIsAWatchList
<1>1. Init => LoadInv
  BY LoadInvInit
<1>2. LoadInv /\ [Next]_vars => LoadInv'
  BY LoadInvNext
<1>3. LoadInv => LoadedIsAWatchList
  BY BuiltIsAWatchList DEF LoadInv, LoadedIsAWatchList
<1> QED
  BY <1>1, <1>2, <1>3, PTL DEF Spec

\* A reference that the registry of whole entries resolves means one of them.
LEMMA ResolvesToOneEntry ==
    ASSUME resources \in Seq(EntryType), RegistryBuilds(FALSE),
           NEW ref, Loaded!Resolves(ref)
    PROVE  MeansOneEntry(ref)
<1> DEFINE index == 1..Len(WatchList)
<1>1. \A i, j \in index : WatchList[i].name = WatchList[j].name => i = j
  BY BuiltIsAWatchList DEF Loaded!WatchAssumption, Loaded!WatchIndex
<1>2. CASE ref \in Loaded!Names
  <2>1. PICK i \in index : WatchList[i].name = ref
    BY <1>2 DEF Loaded!Names, Loaded!WatchIndex
  <2> QED
    BY <1>1, <2>1 DEF MeansOneEntry
<1>3. CASE Loaded!UniqueKind(ref)
  <2>1. PICK name \in Loaded!Names : Loaded!NamesOfKind(ref) = {name}
    BY <1>3 DEF Loaded!UniqueKind
  <2>2. PICK i \in index : WatchList[i].gvk.kind = ref /\ WatchList[i].name = name
    BY <2>1 DEF Loaded!NamesOfKind, Loaded!WatchIndex
  <2>3. \A j \in index : WatchList[j].gvk.kind = ref => WatchList[j].name = name
    BY <2>1 DEF Loaded!NamesOfKind, Loaded!WatchIndex
  <2> QED
    BY <1>1, <2>2, <2>3 DEF MeansOneEntry
<1> QED
  BY <1>2, <1>3 DEF Loaded!Resolves

\* Whatever the rules, those of a running collector refer to resources that the
\* registry knows, also after discovery has rewritten the entries.
THEOREM RunningRulesResolve == Spec => []LoadedRulesResolve
<1>1. Init => LoadInv
  BY LoadInvInit
<1>2. LoadInv /\ [Next]_vars => LoadInv'
  BY LoadInvNext
<1>3. LoadInv => LoadedRulesResolve
  <2> SUFFICES ASSUME LoadInv, stage = "running", NEW i \in 1..Len(Rules)
               PROVE  /\ MeansOneEntry(Rules[i].anchor)
                      /\ \A source \in Rules[i].sources :
                            \/ source \in {"anchor", "ownerController", "topController"}
                            \/ source = "item" /\ Rules[i].forEach
                            \/ MeansOneEntry(source)
    BY DEF LoadedRulesResolve
  <2>1. ValidRule(Rules[i])
    BY DEF LoadInv, Valid
  <2>2. \A ref : Loaded!Resolves(ref) => MeansOneEntry(ref)
    BY ResolvesToOneEntry DEF LoadInv
  <2> QED
    BY <2>1, <2>2 DEF ValidRule, ValidSource
<1> QED
  BY <1>1, <1>2, <1>3, PTL DEF Spec

\* What has been asked for is in the cache as long as there is more to ask for.
LookupInv ==
    /\ lookups \in Seq(STRING)
    /\ OneLookupPerGroupVersion
    /\ stage = "load" => lookups = <<>>
    /\ stage = "discover" =>
          config.discovery /\ \A i \in 1..Len(lookups) : lookups[i] \in DOMAIN cache

\* One more question, if any, is a new one, and its answer may be kept.
LEMMA AskedOnce ==
    ASSUME LoadInv, LookupInv, stage = "discover", next <= Len(resources),
           lookups' = lookups \o Asks(resources[next]), config' = config
    PROVE  /\ lookups' \in Seq(STRING)
           /\ OneLookupPerGroupVersion'
           /\ \A i \in 1..Len(lookups') :
                 lookups'[i] \in DOMAIN cache \cup {GroupVersion(resources[next])}
<1> DEFINE gv == GroupVersion(resources[next])
<1>1. next \in 1..Len(resources) /\ resources[next] \in EntryType
  BY DEF LoadInv
<1>2. gv \in STRING
  BY <1>1 DEF GroupVersion, EntryType
<1>3. CASE Asks(resources[next]) = <<>>
  BY <1>3 DEF LookupInv, OneLookupPerGroupVersion
<1>4. CASE Asks(resources[next]) = <<gv>> /\ gv \notin DOMAIN cache
  <2> HIDE DEF gv
  <2>1. lookups' = Append(lookups, gv)
    BY <1>2, <1>4 DEF LookupInv
  <2>2. /\ Len(lookups') = Len(lookups) + 1
        /\ Len(lookups) \in Nat
        /\ lookups'[Len(lookups) + 1] = gv
        /\ \A i \in 1..Len(lookups) : lookups'[i] = lookups[i]
    BY <1>2, <2>1 DEF LookupInv
  <2>3. \A i \in 1..Len(lookups) : lookups[i] # gv
    BY <1>4 DEF LookupInv
  <2>4. \A i, j \in 1..Len(lookups') : lookups'[i] = lookups'[j] => i = j
    BY <2>2, <2>3 DEF LookupInv, OneLookupPerGroupVersion
  <2>5. \A i \in 1..Len(lookups') : lookups'[i] \in DOMAIN cache \cup {gv}
    BY <2>2 DEF LookupInv
  <2>6. lookups' \in Seq(STRING)
    BY <1>2, <2>1 DEF LookupInv
  <2> QED
    BY <2>4, <2>5, <2>6 DEF LookupInv, OneLookupPerGroupVersion, gv
<1> QED
  BY <1>3, <1>4 DEF Asks

\* Discovery asks for a group/version at most once, and only when it is enabled,
\* however many entries there are and whatever the API server has.
THEOREM EachAskedOnce == Spec => []OneLookupPerGroupVersion
<1>1. Init => LookupInv
  BY DEF Init, LookupInv, OneLookupPerGroupVersion
<1>2. LoadInv /\ LookupInv /\ [Next]_vars => LookupInv'
  <2> SUFFICES ASSUME LoadInv, LookupInv, [Next]_vars PROVE LookupInv'
    OBVIOUS
  <2>1. CASE Load
    BY <2>1 DEF Load, LookupInv, OneLookupPerGroupVersion
  <2>2. CASE SkipEntry
    BY <2>2 DEF SkipEntry, LookupInv, OneLookupPerGroupVersion
  <2>3. CASE FillEntry
    <3>1. DOMAIN cache' = DOMAIN cache \cup {GroupVersion(resources[next])}
      BY <2>3 DEF FillEntry, Remember
    <3> QED
      BY <2>3, <3>1, AskedOnce DEF FillEntry, LookupInv
  <2>4. CASE DiscoveryFails
    BY <2>4, AskedOnce DEF DiscoveryFails, LookupInv
  <2>5. CASE EndDiscovery \/ BuildRegistry \/ New
    BY <2>5 DEF EndDiscovery, BuildRegistry, New, LookupInv, OneLookupPerGroupVersion
  <2>6. CASE UNCHANGED vars
    BY <2>6 DEF vars, LookupInv, OneLookupPerGroupVersion
  <2> QED
    BY <2>1, <2>2, <2>3, <2>4, <2>5, <2>6 DEF Next
<1>3. LookupInv => OneLookupPerGroupVersion
  BY DEF LookupInv
<1> QED
  BY <1>1, <1>2, <1>3, LoadInvInit, LoadInvNext, PTL DEF Spec
=============================================================================
