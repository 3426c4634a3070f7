--------------------------- MODULE ScopedInformers ---------------------------
(***************************************************************************)
(* The API server and the informer caches of collector.ScopedInformers.    *)
(*                                                                         *)
(* The API server keeps, per object key, the sequence of versions the      *)
(* object has gone through.  An informer is one (resource, namespace)      *)
(* LIST+WATCH; for every key it watches it has applied the versions up to  *)
(* some position, and its cache entry is the version at that position.     *)
(* Positions only grow, each at its own pace: the initial LIST and a       *)
(* relist are applied to the cache object by object, a watch may lag, and  *)
(* a relist skips the versions in between.                                 *)
(***************************************************************************)
EXTENDS ResourceRegistry, SequencesExt

CONSTANTS
    Objects,          \* every version of every API object that may exist
    Absent,           \* no such object: a nil runtime.Object, a NotFound
    InitialClusters,  \* the sets of objects a behaviour may start from
    MaxVersions       \* bound: versions of one key, deletions included

VARIABLES
    versions,         \* [Keys -> Seq(Objects \cup {Absent})], the API server
    pos               \* [Informers -> [Keys -> Nat]], what each cache has seen

informerVars == <<versions, pos>>

Key(o) == [gvk |-> o.gvk, ns |-> o.ns, name |-> o.name]
Keys   == {Key(o) : o \in Objects}

\* The objects are finitely many, no two share a UID, and a set of live objects
\* has one per key.
ASSUME ObjectsAssumption ==
    /\ IsFiniteSet(Objects)
    /\ Absent \notin Objects
    /\ \A o, p \in Objects : o.uid = p.uid => Key(o) = Key(p)
    /\ \A snapshot \in InitialClusters :
          /\ snapshot \subseteq Objects
          /\ \A o, p \in snapshot : Key(o) = Key(p) => o = p
    /\ MaxVersions \in Nat

Informers ==
    UNION {{[resource |-> name, ns |-> ns] : ns \in NamespaceKeys(name)} : name \in Names}

\* The LIST/WATCH of an informer covers this key.
Watches(inf, k) ==
    /\ inf.ns \in {NamespaceAll, k.ns}
    /\ k.gvk = ByName(inf.resource).gvk

CacheEntry(inf, k) ==
    IF pos[inf][k] = 0 THEN Absent
    ELSE LET o == versions[k][pos[inf][k]]
         IN  IF o \in Selects(inf.resource) THEN o ELSE Absent

\* Lister.List(labels.Everything()) of one informer.
Cache(inf) == {CacheEntry(inf, k) : k \in Keys} \ {Absent}

(***************************************************************************)
(* ScopedInformers.ListAll, all listers read at one moment: the objects of *)
(* every configured namespace, each with its place in the list.            *)
(***************************************************************************)
ListAll(name) ==
    LET places == ResourceNamespaces(name)
    IN  UNION {{i} \X Cache([resource |-> name, ns |-> places[i]]) : i \in 1..Len(places)}

(***************************************************************************)
(* ScopedInformers.Get: the lister of the resource for the namespace, then *)
(* the name, with the namespace only if the resource is namespaced.        *)
(***************************************************************************)
Get(ref, ns, objectName) ==
    LET info == ResourceFor(ref)
        inf  == [resource |-> info.name, ns |-> nsKey(info.name, ns)]
        k    == [gvk  |-> info.gvk,
                 ns   |-> IF info.scope = ScopeCluster THEN "" ELSE ns,
                 name |-> objectName]
    IN  IF /\ Resolves(ref)
           /\ inf \in Informers
           /\ info.scope = ScopeCluster \/ ns # ""
           /\ k \in Keys
        THEN CacheEntry(inf, k)
        ELSE Absent

-----------------------------------------------------------------------------
InformersInit ==
    /\ \E snapshot \in InitialClusters :
          versions = [k \in Keys |->
              IF \E o \in snapshot : Key(o) = k
              THEN <<CHOOSE o \in snapshot : Key(o) = k>>
              ELSE <<>>]
    /\ pos = [inf \in Informers |-> [k \in Keys |-> 0]]

Latest(k) == IF versions[k] = <<>> THEN Absent ELSE versions[k][Len(versions[k])]

UsedUIDs(k) == {versions[k][i].uid : i \in {j \in 1..Len(versions[k]) : versions[k][j] # Absent}}

\* The API server creates or updates an object; a UID never comes back.
Write(o) ==
    LET k == Key(o)
    IN  /\ Len(versions[k]) < MaxVersions
        /\ o # Latest(k)
        /\ \/ Latest(k) # Absent /\ Latest(k).uid = o.uid
           \/ Latest(k) = Absent /\ o.uid \notin UsedUIDs(k)
        /\ versions' = [versions EXCEPT ![k] = Append(@, o)]
        /\ UNCHANGED pos

Delete(k) ==
    /\ Len(versions[k]) < MaxVersions
    /\ Latest(k) # Absent
    /\ versions' = [versions EXCEPT ![k] = Append(@, Absent)]
    /\ UNCHANGED pos

\* The reflector applies a later version of one key to the cache.
Deliver(inf, k) ==
    /\ Watches(inf, k)
    /\ \E i \in (pos[inf][k] + 1)..Len(versions[k]) :
          pos' = [pos EXCEPT ![inf][k] = i]
    /\ UNCHANGED versions

InformersNext ==
    \/ \E o \in Objects : Write(o)
    \/ \E k \in Keys : Delete(k)
    \/ \E inf \in Informers, k \in Keys : Deliver(inf, k)

InformersTypeOK ==
    /\ versions \in [Keys -> Seq(Objects \cup {Absent})]
    /\ pos \in [Informers -> [Keys -> Nat]]
    /\ \A inf \in Informers, k \in Keys : pos[inf][k] <= Len(versions[k])

InformersSpec == InformersInit /\ [][InformersNext]_informerVars

-----------------------------------------------------------------------------
(* Properties *)

\* The live objects that the resource's own entry of watch.resources asks for.
OwnObjects(name) ==
    LET entry == ByName(name)
    IN  {o \in {Latest(k) : k \in Keys} \ {Absent} :
            /\ o.gvk = entry.gvk
            /\ o \in entry.selects
            /\ entry.namespaces = <<>> \/ o.ns \in ToSet(entry.namespaces)}

\* What the configuration should say and Validate does not ask for.  The scopes
\* are those of the API server.
ScopesAreTrue ==
    \A o \in Objects, i \in WatchIndex :
        o.gvk = Watch[i].gvk => (Watch[i].scope = ScopeCluster <=> o.ns = NamespaceAll)

\* An entry names its namespaces once each, and "" is none of them.
NamespacesAreDistinct ==
    \A i \in WatchIndex :
        /\ NamespaceAll \notin ToSet(Watch[i].namespaces)
        /\ \A m, n \in 1..Len(Watch[i].namespaces) :
              Watch[i].namespaces[m] = Watch[i].namespaces[n] => m = n

\* No resource has the kind of an earlier entry for its name.
NamesAreNotEarlierKinds ==
    \A i, j \in WatchIndex : i < j => Watch[i].gvk.kind # Watch[j].name

CaughtUp ==
    \A inf \in Informers, k \in Keys : Watches(inf, k) => pos[inf][k] = Len(versions[k])

(***************************************************************************)
(* Selectors and namespaces are per resource, without cross-contamination  *)
(* (listers.go:21): once its caches have caught up, ListAll of a resource  *)
(* has exactly the objects that the resource's own entry asks for, once    *)
(* each.                                                                   *)
(***************************************************************************)
ListsItsOwnObjectsOnce ==
    CaughtUp => \A name \in Names :
        /\ {a[2] : a \in ListAll(name)} = OwnObjects(name)
        /\ Cardinality(ListAll(name)) = Cardinality(OwnObjects(name))

(***************************************************************************)
(* The two ways into a cache agree: the owner walk's Get finds, under its  *)
(* namespace and name, every object that ListAll of the resource returns   *)
(* from the lister for that namespace.                                     *)
(***************************************************************************)
GetFindsWhatIsListed ==
    \A name \in Names : \A a \in ListAll(name) : Get(name, a[2].ns, a[2].name) = a[2]
=============================================================================
