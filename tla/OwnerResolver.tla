---------------------------- MODULE OwnerResolver ----------------------------
(***************************************************************************)
(* collector.Resolver: the source -> object map (Chain) of one anchor, and *)
(* one iteration of the walk along ownerReferences.  The walk is not       *)
(* atomic: each iteration reads the caches as they are at that moment, so  *)
(* this module gives the steps and the collector takes them one by one.    *)
(***************************************************************************)
EXTENDS ScopedInformers, FiniteSetsExt

CONSTANT MaxDepth  \* the const maxDepth of Resolve; the code says 8

ASSUME MaxDepthAssumption == MaxDepth \in Nat \ {0}

Roles   == {"anchor", "ownerController", "topController"}
Sources == Roles \cup Names \cup Kinds
Chains  == [Sources -> Objects \cup {Absent}]

\* What Validate does not ask for: no resource has the name of a role, or of
\* another resource's kind.  Then a source is one thing, in the chain and in a rule.
SourcesAreDistinct ==
    /\ Roles \cap (Names \cup Kinds) = {}
    /\ \A i, j \in WatchIndex : Watch[i].name = Watch[j].gvk.kind => i = j

\* findControllerRef: the first reference flagged as controller, or the first.
ControllerRef(o) ==
    LET flagged == {i \in DOMAIN o.owners : o.owners[i].controller}
    IN  o.owners[IF flagged = {} THEN 1 ELSE Min(flagged)]

\* resourceForOwnerRef: by GVK, or by kind if the reference has no apiVersion.
OwnerResolves(ref) ==
    IF ref.api = "" THEN Resolves(ref.kind)
    ELSE ResolvesGVK([api |-> ref.api, kind |-> ref.kind])

OwnerResource(ref) ==
    IF ref.api = "" THEN ResourceFor(ref.kind)
    ELSE ResourceForGVK([api |-> ref.api, kind |-> ref.kind])

\* The walk goes on from o: it has an owner, of a watched resource that is followed.
HasFollowedOwner(o) ==
    /\ o.owners # <<>>
    /\ OwnerResolves(ControllerRef(o))
    /\ OwnerResource(ControllerRef(o)).follow

\* The owner of o as the cache has it now: looked up in o's namespace by name.
Parent(o) ==
    IF HasFollowedOwner(o)
    THEN Get(OwnerResource(ControllerRef(o)).name, o.ns, ControllerRef(o).name)
    ELSE Absent

\* Every source under which addChainObject files an object of this resource.
SourcesOf(info) ==
    {info.name}
    \cup {kind \in {info.gvk.kind} : Resolves(kind) /\ ResourceFor(kind).name = info.name}
    \cup {role \in {"topController"} : info.topController}

\* Mutant: what the chain has is not overwritten.
MutantAddChainObject(chain, info, o) ==
    [source \in Sources |-> IF source \in SourcesOf(info) /\ chain[source] = Absent
                            THEN o ELSE chain[source]]

\* addChainObject: under each of its sources the object replaces what was there.
AddChainObject(chain, info, o) ==
    [source \in Sources |-> IF source \in SourcesOf(info) THEN o ELSE chain[source]]

\* What Resolve has in the chain when the walk begins.
StartChain(o) ==
    LET chain == [source \in Sources |->
                    IF source \in {"anchor", o.gvk.kind} THEN o ELSE Absent]
    IN  IF ResolvesGVK(o.gvk) THEN AddChainObject(chain, ResourceForGVK(o.gvk), o)
        ELSE chain

\* Mutant: every owner on the way up is filed as the ownerController.
MutantExtendChain(chain, depth, o, owner) ==
    AddChainObject([chain EXCEPT !["ownerController"] = owner],
                   OwnerResource(ControllerRef(o)), owner)

\* The chain after iteration number depth (from 0) of the walk, at o, found its owner.
ExtendChain(chain, depth, o, owner) ==
    AddChainObject(
        IF depth = 0 THEN [chain EXCEPT !["ownerController"] = owner] ELSE chain,
        OwnerResource(ControllerRef(o)), owner)

-----------------------------------------------------------------------------
(***************************************************************************)
(* The reference for the walk, when the caches do not change under it: the *)
(* ancestors of the anchor as a function of their distance, and each       *)
(* source read off them without a walk.                                    *)
(***************************************************************************)
Ancestor(o) ==
    LET up[n \in 0..MaxDepth] ==
            IF n = 0 THEN o
            ELSE LET child == up[n - 1] IN IF child = Absent THEN Absent ELSE Parent(child)
    IN  up

\* The farthest of the ancestors (the anchor is its own, at distance 0) with P.
Farthest(ancestor, P(_)) ==
    LET which == {n \in 0..MaxDepth : ancestor[n] # Absent /\ P(ancestor[n])}
    IN  IF which = {} THEN Absent ELSE ancestor[Max(which)]

ReferenceChain(ancestor) ==
    [source \in Sources |->
        CASE source \in ResourceSources \ Roles ->
                LET isOfResource(p) == p.gvk = ResourceFor(source).gvk
                IN  Farthest(ancestor, isOfResource)
          [] source = "anchor" -> ancestor[0]
          [] source = "ownerController" -> ancestor[1]
          [] source = "topController" ->
                LET isTop(p) == ResourceForGVK(p.gvk).topController
                IN  Farthest(ancestor, isTop)
          [] OTHER -> Absent]
=============================================================================
