--------------------------- MODULE InformerProofs ---------------------------
(***************************************************************************)
(* What the lookup tables, the caches and the owner walk return, for every *)
(* watch list and every set of objects, and type correctness of the        *)
(* informers.                                                              *)
(***************************************************************************)
EXTENDS OwnerResolver, RegistryProofs, FunctionTheorems

\* A resource is listed at one place at least, and each is one of its informers.
LEMMA PlacesAreInformers ==
    ASSUME NEW name \in Names
    PROVE  /\ Len(ResourceNamespaces(name)) \in Nat \ {0}
           /\ \A i \in 1..Len(ResourceNamespaces(name)) :
                 [resource |-> name, ns |-> ResourceNamespaces(name)[i]] \in Informers
<1>2. Len(ResourceNamespaces(name)) \in Nat \ {0}
  BY NamespacesOfResource
<1>3. ASSUME NEW i \in 1..Len(ResourceNamespaces(name))
      PROVE  [resource |-> name, ns |-> ResourceNamespaces(name)[i]] \in Informers
  <2> DEFINE ns == ResourceNamespaces(name)[i]
             ofName == {[resource |-> name, ns |-> n] : n \in NamespaceKeys(name)}
  <2>1. [resource |-> name, ns |-> ns] \in ofName
    BY NamespacesOfResource
  <2>2. ofName \in {{[resource |-> m, ns |-> n] : n \in NamespaceKeys(m)} : m \in Names}
    OBVIOUS
  <2> HIDE DEF ofName
  <2> QED
    BY <2>1, <2>2 DEF Informers
<1> QED
  BY <1>2, <1>3

\* A cache holds versions of objects.
LEMMA CacheEntryType ==
    ASSUME InformersTypeOK, NEW inf \in Informers, NEW k \in Keys
    PROVE  CacheEntry(inf, k) \in Objects \cup {Absent}
<1>1. versions[k] \in Seq(Objects \cup {Absent}) /\ pos[inf][k] \in Nat
      /\ pos[inf][k] <= Len(versions[k])
  BY DEF InformersTypeOK
<1>2. pos[inf][k] # 0 => versions[k][pos[inf][k]] \in Objects \cup {Absent}
  <2>1. pos[inf][k] # 0 => pos[inf][k] \in 1..Len(versions[k])
    BY <1>1
  <2> QED
    BY <1>1, <2>1, ElementOfSeq
<1> QED
  BY <1>2 DEF CacheEntry

\* A cache is a finite set of objects.
LEMMA CacheType ==
    ASSUME InformersTypeOK, NEW inf \in Informers
    PROVE  Cache(inf) \subseteq Objects /\ IsFiniteSet(Cache(inf))
<1>1. Cache(inf) \subseteq Objects
  BY CacheEntryType DEF Cache
<1> QED
  BY <1>1, FS_Subset, ObjectsAssumption

\* A lookup gives an object or nothing.
LEMMA GetType ==
    ASSUME InformersTypeOK, NEW ref, NEW ns, NEW name
    PROVE  Get(ref, ns, name) \in Objects \cup {Absent}
  BY CacheEntryType DEF Get

\* The owner found by the walk is an object or nothing.
LEMMA ParentType ==
    ASSUME InformersTypeOK, NEW o
    PROVE  Parent(o) \in Objects \cup {Absent}
  BY GetType DEF Parent

\* The chain stays a function from the sources to objects.
LEMMA AddChainObjectType ==
    ASSUME NEW c \in Chains, NEW info, NEW o \in Objects
    PROVE  AddChainObject(c, info, o) \in Chains
  BY DEF AddChainObject, Chains

\* The chain that begins with the anchor has the type of a chain.
LEMMA StartChainType ==
    ASSUME NEW o \in Objects
    PROVE  StartChain(o) \in Chains
<1> DEFINE c == [source \in Sources |->
                    IF source \in {"anchor", o.gvk.kind} THEN o ELSE Absent]
<1>1. c \in Chains
  BY DEF Chains
<1> HIDE DEF c
<1>2. AddChainObject(c, ResourceForGVK(o.gvk), o) \in Chains
  BY <1>1, AddChainObjectType
<1> QED
  BY <1>1, <1>2 DEF StartChain, c

\* The chain with one more owner has the type of a chain.
LEMMA ExtendChainType ==
    ASSUME NEW c \in Chains, NEW n, NEW o, NEW owner \in Objects
    PROVE  ExtendChain(c, n, o, owner) \in Chains
<1>1. [c EXCEPT !["ownerController"] = owner] \in Chains
  BY DEF Chains
<1> QED
  BY <1>1, AddChainObjectType DEF ExtendChain

-----------------------------------------------------------------------------
\* Initially the histories hold the first version of each object.
LEMMA InformersInitType == InformersInit => InformersTypeOK
<1> SUFFICES ASSUME InformersInit PROVE InformersTypeOK
  OBVIOUS
<1>1. PICK snapshot \in InitialClusters :
         versions = [k \in Keys |->
              IF \E o \in snapshot : Key(o) = k
              THEN <<CHOOSE o \in snapshot : Key(o) = k>>
              ELSE <<>>]
  BY DEF InformersInit
<1>2. ASSUME NEW k \in Keys
      PROVE  versions[k] \in Seq(Objects \cup {Absent}) /\ Len(versions[k]) \in Nat
  <2>1. CASE \E o \in snapshot : Key(o) = k
    <3> DEFINE first == CHOOSE o \in snapshot : Key(o) = k
    <3>1. first \in Objects
      BY <2>1, ObjectsAssumption
    <3>2. versions[k] = <<first>>
      BY <1>1, <2>1
    <3> HIDE DEF first
    <3> QED
      BY <3>1, <3>2
  <2>2. CASE ~\E o \in snapshot : Key(o) = k
    BY <1>1, <2>2
  <2> QED
    BY <2>1, <2>2
<1>3. versions = [k \in Keys |-> versions[k]]
  BY <1>1
<1>4. versions \in [Keys -> Seq(Objects \cup {Absent})]
  BY <1>2, <1>3
<1> QED
  BY <1>2, <1>4 DEF InformersInit, InformersTypeOK

\* One more version of a key.
LEMMA AppendVersionType ==
    ASSUME InformersTypeOK, NEW k \in Keys, NEW o \in Objects \cup {Absent},
           versions' = [versions EXCEPT ![k] = Append(@, o)], UNCHANGED pos
    PROVE  InformersTypeOK'
<1>1. /\ versions[k] \in Seq(Objects \cup {Absent})
      /\ Append(versions[k], o) \in Seq(Objects \cup {Absent})
      /\ Len(Append(versions[k], o)) = Len(versions[k]) + 1
      /\ Len(versions[k]) \in Nat
  BY DEF InformersTypeOK
<1>2. versions' \in [Keys -> Seq(Objects \cup {Absent})]
  BY <1>1 DEF InformersTypeOK
<1>3. \A inf \in Informers, l \in Keys : pos'[inf][l] <= Len(versions'[l])
  BY <1>1 DEF InformersTypeOK
<1> QED
  BY <1>2, <1>3 DEF InformersTypeOK

\* Writes, deletes and deliveries keep the histories and positions in type.
LEMMA InformersNextType == InformersTypeOK /\ [InformersNext]_informerVars => InformersTypeOK'
<1> SUFFICES ASSUME InformersTypeOK, [InformersNext]_informerVars PROVE InformersTypeOK'
  OBVIOUS
<1>1. ASSUME NEW o \in Objects, Write(o) PROVE InformersTypeOK'
  <2>1. Key(o) \in Keys
    BY DEF Keys
  <2> QED
    BY <1>1, <2>1, AppendVersionType DEF Write
<1>2. ASSUME NEW k \in Keys, Delete(k) PROVE InformersTypeOK'
  BY <1>2, AppendVersionType DEF Delete
<1>3. ASSUME NEW inf \in Informers, NEW k \in Keys, Deliver(inf, k) PROVE InformersTypeOK'
  <2>1. PICK i \in (pos[inf][k] + 1)..Len(versions[k]) :
           pos' = [pos EXCEPT ![inf][k] = i]
    BY <1>3 DEF Deliver
  <2>2. /\ pos[inf] \in [Keys -> Nat] /\ pos[inf][k] \in Nat
        /\ Len(versions[k]) \in Nat /\ i \in Nat /\ i <= Len(versions[k])
    BY DEF InformersTypeOK
  <2>3. pos' \in [Informers -> [Keys -> Nat]]
    BY <2>1, <2>2 DEF InformersTypeOK
  <2>4. \A other \in Informers, l \in Keys : pos'[other][l] <= Len(versions[l])
    BY <2>1, <2>2 DEF InformersTypeOK
  <2> QED
    BY <1>3, <2>3, <2>4 DEF InformersTypeOK, Deliver
<1>4. CASE UNCHANGED informerVars
  BY <1>4 DEF informerVars, InformersTypeOK
<1> QED
  BY <1>1, <1>2, <1>3, <1>4 DEF InformersNext

(***************************************************************************)
(* No cache is ever ahead of the API server, and caches hold only versions *)
(* of watched objects (ScopedInformers).                                   *)
(***************************************************************************)
THEOREM InformersTypeCorrect == InformersSpec => []InformersTypeOK
  BY InformersInitType, InformersNextType, PTL DEF InformersSpec

-----------------------------------------------------------------------------
(* What the histories and the caches hold *)

\* The API server files a version under the key of the object, and an
\* informer has applied versions only of what it watches.
FiledByKey ==
    /\ \A k \in Keys : \A i \in 1..Len(versions[k]) :
          versions[k][i] # Absent => Key(versions[k][i]) = k
    /\ \A inf \in Informers, k \in Keys : pos[inf][k] # 0 => Watches(inf, k)

\* Initially every history is filed under the key of its object.
LEMMA FiledByKeyInit == InformersInit => FiledByKey
<1> SUFFICES ASSUME InformersInit PROVE FiledByKey
  OBVIOUS
<1>1. PICK snapshot \in InitialClusters :
         versions = [k \in Keys |->
              IF \E o \in snapshot : Key(o) = k
              THEN <<CHOOSE o \in snapshot : Key(o) = k>>
              ELSE <<>>]
  BY DEF InformersInit
<1>2. ASSUME NEW k \in Keys, NEW i \in 1..Len(versions[k])
      PROVE  Key(versions[k][i]) = k
  <2>1. CASE \E o \in snapshot : Key(o) = k
    <3> DEFINE first == CHOOSE o \in snapshot : Key(o) = k
    <3>1. Key(first) = k
      BY <2>1
    <3>2. versions[k] = <<first>>
      BY <1>1, <2>1
    <3> HIDE DEF first
    <3>3. i = 1 /\ versions[k][1] = first
      BY <3>2
    <3> QED
      BY <3>1, <3>3
  <2>2. CASE ~\E o \in snapshot : Key(o) = k
    BY <1>1, <2>2
  <2> QED
    BY <2>1, <2>2
<1> QED
  BY <1>2 DEF FiledByKey, InformersInit

\* The versions of a key are objects of that key.
LEMMA FiledByKeyNext ==
    ASSUME InformersTypeOK, FiledByKey, InformersNext
    PROVE  FiledByKey'
<1>0. \A k \in Keys : versions[k] \in Seq(Objects \cup {Absent}) /\ Len(versions[k]) \in Nat
  BY DEF InformersTypeOK
<1>1. ASSUME NEW k \in Keys, NEW o \in Objects \cup {Absent}, o # Absent => Key(o) = k,
             versions' = [versions EXCEPT ![k] = Append(@, o)], UNCHANGED pos
      PROVE  FiledByKey'
  <2>1. /\ \A i \in 1..Len(versions[k]) : Append(versions[k], o)[i] = versions[k][i]
        /\ Len(Append(versions[k], o)) = Len(versions[k]) + 1
        /\ Append(versions[k], o)[Len(versions[k]) + 1] = o
    BY <1>0, AppendProperties
  <2>2. \A l \in Keys : versions'[l] = IF l = k THEN Append(versions[k], o) ELSE versions[l]
    BY <1>1 DEF InformersTypeOK
  <2>3. ASSUME NEW l \in Keys, NEW i \in 1..Len(versions'[l]), versions'[l][i] # Absent
        PROVE  Key(versions'[l][i]) = l
    <3>1. CASE l = k /\ i = Len(versions[k]) + 1
      BY <1>1, <2>1, <2>2, <2>3, <3>1
    <3>2. CASE ~(l = k /\ i = Len(versions[k]) + 1)
      <4>1. i \in 1..Len(versions[l]) /\ versions'[l][i] = versions[l][i]
        <5>1. CASE l = k
          <6>1. versions'[k] = Append(versions[k], o) /\ i \in 1..(Len(versions[k]) + 1)
            BY <2>1, <2>2, <5>1
          <6> QED
            BY <1>0, <2>1, <3>2, <5>1, <6>1
        <5>2. CASE l # k
          BY <2>2, <5>2
        <5> QED
          BY <5>1, <5>2
      <4> QED
        BY <2>3, <4>1 DEF FiledByKey
    <3> QED
      BY <3>1, <3>2
  <2> QED
    BY <1>1, <2>3 DEF FiledByKey, Watches
<1>2. ASSUME NEW inf \in Informers, NEW k \in Keys, Deliver(inf, k)
      PROVE  FiledByKey'
  <2>1. PICK i \in (pos[inf][k] + 1)..Len(versions[k]) :
           pos' = [pos EXCEPT ![inf][k] = i]
    BY <1>2 DEF Deliver
  <2>2. \A other \in Informers, l \in Keys :
           other # inf \/ l # k => pos'[other][l] = pos[other][l]
    BY <2>1 DEF InformersTypeOK
  <2> QED
    BY <1>2, <2>2 DEF FiledByKey, Deliver, Watches
<1>3. \A o \in Objects : Key(o) \in Keys
  BY DEF Keys
<1> QED
  BY <1>1, <1>2, <1>3 DEF InformersNext, Write, Delete

InformersInv == InformersTypeOK /\ FiledByKey

\* The caches hold what the API server filed, in every reachable state.
LEMMA InformersInvHolds == InformersSpec => []InformersInv
<1>1. InformersInv /\ [InformersNext]_informerVars => InformersInv'
  <2> SUFFICES ASSUME InformersInv, [InformersNext]_informerVars PROVE InformersInv'
    OBVIOUS
  <2>1. InformersTypeOK'
    BY InformersNextType DEF InformersInv
  <2>2. CASE InformersNext
    BY <2>1, <2>2, FiledByKeyNext DEF InformersInv
  <2>3. CASE UNCHANGED informerVars
    BY <2>1, <2>3 DEF informerVars, InformersInv, FiledByKey
  <2> QED
    BY <2>2, <2>3
<1> QED
  BY <1>1, InformersInitType, FiledByKeyInit, PTL DEF InformersSpec, InformersInv

\* What a cache lists is the entry of the object's own key, which the informer watches.
LEMMA ListedByKey ==
    ASSUME InformersInv, NEW inf \in Informers, NEW o \in Cache(inf)
    PROVE  /\ o \in Objects /\ o # Absent /\ Key(o) \in Keys
           /\ o = CacheEntry(inf, Key(o))
           /\ Watches(inf, Key(o))
           /\ o \in Selects(inf.resource)
           /\ pos[inf][Key(o)] \in 1..Len(versions[Key(o)])
           /\ o = versions[Key(o)][pos[inf][Key(o)]]
<1>1. PICK k \in Keys : o = CacheEntry(inf, k) /\ o # Absent
  BY DEF Cache
<1>2. /\ pos[inf][k] # 0 /\ o = versions[k][pos[inf][k]] /\ o \in Selects(inf.resource)
  BY <1>1 DEF CacheEntry
<1>3. pos[inf][k] \in 1..Len(versions[k])
  <2>1. versions[k] \in Seq(Objects \cup {Absent}) /\ pos[inf][k] \in Nat
        /\ pos[inf][k] <= Len(versions[k])
    BY DEF InformersInv, InformersTypeOK
  <2> QED
    BY <1>2, <2>1
<1>4. Key(o) = k /\ Watches(inf, k)
  BY <1>1, <1>2, <1>3 DEF InformersInv, FiledByKey
<1>5. o \in Objects
  BY CacheType DEF InformersInv
<1> QED
  BY <1>1, <1>2, <1>3, <1>4, <1>5

\* An object is listed by an informer of the resource, at one of its places.
LEMMA ListedFromPlace ==
    ASSUME NEW name \in Names, NEW a \in ListAll(name)
    PROVE  /\ a = <<a[1], a[2]>>
           /\ a[1] \in 1..Len(ResourceNamespaces(name))
           /\ [resource |-> name, ns |-> ResourceNamespaces(name)[a[1]]] \in Informers
           /\ a[2] \in Cache([resource |-> name, ns |-> ResourceNamespaces(name)[a[1]]])
<1> DEFINE place(i) == [resource |-> name, ns |-> ResourceNamespaces(name)[i]]
<1>1. PICK i \in 1..Len(ResourceNamespaces(name)) : a \in {i} \X Cache(place(i))
  BY DEF ListAll
<1>2. a = <<a[1], a[2]>> /\ a[1] = i /\ a[2] \in Cache(place(i))
  BY <1>1
<1>3. place(i) \in Informers
  BY PlacesAreInformers
<1> QED
  BY <1>2, <1>3

\* The informer that lists an object is the one for its namespace, or for all.
LEMMA ListedInNamespace ==
    ASSUME NamespacesAreDistinct, NEW name \in Names, NEW i \in 1..Len(ResourceNamespaces(name)),
           NEW k, Watches([resource |-> name, ns |-> ResourceNamespaces(name)[i]], k)
    PROVE  ResourceNamespaces(name)[i] = nsKey(name, k.ns)
<1> DEFINE place == ResourceNamespaces(name)[i]
<1>1. place \in {NamespaceAll, k.ns}
  BY DEF Watches
<1>2. CASE ClusterWide(name)
  BY <1>2 DEF ResourceNamespaces, nsKey
<1>3. CASE ~ClusterWide(name)
  <2>1. PICK j \in WatchIndex : WatchResourceFor(name) = Watch[j]
    BY WatchResourceForEntry
  <2>2. place = Watch[j].namespaces[i] /\ i \in 1..Len(Watch[j].namespaces)
    BY <1>3, <2>1 DEF ResourceNamespaces
  <2>3. place \in ToSet(Watch[j].namespaces)
    BY <2>2, WatchAssumption DEF ToSet
  <2> QED
    BY <1>1, <1>3, <2>3 DEF NamespacesAreDistinct, nsKey
<1> QED
  BY <1>2, <1>3

\* What a resource lists is what a lookup by name finds.
LEMMA GetFinds ==
    ASSUME ScopesAreTrue, NamespacesAreDistinct, InformersInv
    PROVE  GetFindsWhatIsListed
<1> SUFFICES ASSUME NEW name \in Names, NEW a \in ListAll(name)
             PROVE  Get(name, a[2].ns, a[2].name) = a[2]
  BY DEF GetFindsWhatIsListed
<1> DEFINE o    == a[2]
           info == ByName(name)
           inf  == [resource |-> name, ns |-> ResourceNamespaces(name)[a[1]]]
<1>1. a[1] \in 1..Len(ResourceNamespaces(name)) /\ inf \in Informers /\ o \in Cache(inf)
  BY ListedFromPlace
<1>2. /\ o \in Objects /\ Key(o) \in Keys
      /\ o = CacheEntry(inf, Key(o)) /\ Watches(inf, Key(o))
  BY <1>1, ListedByKey
<1>3. /\ Resolves(name) /\ ResourceFor(name) = info /\ info.name = name
      /\ \E i \in WatchIndex : info = Watch[i]
  BY EntryOfName
<1>4. inf.ns = nsKey(name, o.ns)
  BY <1>1, <1>2, ListedInNamespace DEF Key
<1>5. o.gvk = info.gvk
  BY <1>2 DEF Watches, Key
<1>6. info.scope = ScopeCluster <=> o.ns = ""
  BY <1>2, <1>3, <1>5 DEF ScopesAreTrue, NamespaceAll
<1>7. [gvk |-> info.gvk, ns |-> IF info.scope = ScopeCluster THEN "" ELSE o.ns,
       name |-> o.name] = Key(o)
  BY <1>5, <1>6 DEF Key
<1>8. [resource |-> info.name, ns |-> nsKey(info.name, o.ns)] = inf
  BY <1>3, <1>4
<1> HIDE DEF inf, info, o
<1>9. Get(name, o.ns, o.name) = CacheEntry(inf, Key(o))
  BY <1>1, <1>2, <1>3, <1>6, <1>7, <1>8 DEF Get
<1> QED
  BY <1>2, <1>9 DEF o

(***************************************************************************)
(* If the scopes are declared as the API server has them and no entry      *)
(* names a namespace twice or "", the owner walk's Get finds under its     *)
(* namespace and name every object that ListAll returns, whatever has been *)
(* delivered (ScopedInformers.Get, ScopedInformers.ListAll).               *)
(***************************************************************************)
THEOREM GetFindsListed ==
    ScopesAreTrue /\ NamespacesAreDistinct => (InformersSpec => []GetFindsWhatIsListed)
<1> SUFFICES ASSUME ScopesAreTrue, NamespacesAreDistinct
             PROVE  InformersSpec => []GetFindsWhatIsListed
  OBVIOUS
<1> QED
  BY InformersInvHolds, GetFinds, PTL

\* A resource is looked up under its own entry.
LEMMA LooksUpItsOwnEntry ==
    ASSUME NamesAreNotEarlierKinds, NEW name \in Names
    PROVE  WatchResourceFor(name) = ByName(name)
<1>1. PICK i \in WatchIndex : Watch[i].name = name
  BY DEF Names
<1>2. \A j \in 1..(i - 1) : name \notin {Watch[j].name, Watch[j].gvk.kind}
  BY <1>1, WatchAssumption DEF WatchIndex, NamesAreNotEarlierKinds
<1>3. ASSUME NEW j \in WatchIndex, name \in {Watch[j].name, Watch[j].gvk.kind},
             \A l \in 1..(j - 1) : name \notin {Watch[l].name, Watch[l].gvk.kind}
      PROVE  j = i
  BY <1>1, <1>2, <1>3, WatchAssumption DEF WatchIndex
<1>4. WatchResourceFor(name) = Watch[i]
  BY <1>1, <1>2, <1>3 DEF WatchResourceFor
<1>5. ByName(name) = Watch[i]
  BY <1>1, WatchAssumption DEF ByName
<1> QED
  BY <1>4, <1>5

\* The versions of a key that has one end in the latest.
LEMMA LatestIsLast ==
    ASSUME InformersInv, NEW k \in Keys, Latest(k) # Absent
    PROVE  /\ Len(versions[k]) \in Nat \ {0}
           /\ Latest(k) = versions[k][Len(versions[k])]
           /\ Latest(k) \in Objects
           /\ Key(Latest(k)) = k
<1>1. versions[k] \in Seq(Objects \cup {Absent}) /\ versions[k] # <<>>
  BY DEF Latest, InformersInv, InformersTypeOK
<1>2. Len(versions[k]) \in Nat \ {0} /\ Len(versions[k]) \in 1..Len(versions[k])
  BY <1>1, EmptySeq
<1>3. Latest(k) = versions[k][Len(versions[k])]
  BY <1>1 DEF Latest
<1> QED
  BY <1>1, <1>2, <1>3, ElementOfSeq DEF InformersInv, FiledByKey

\* Caught up, what is listed is the latest of its key.
LEMMA ListedIsOwn ==
    ASSUME NamespacesAreDistinct, NamesAreNotEarlierKinds, InformersInv, CaughtUp,
           NEW name \in Names, NEW a \in ListAll(name)
    PROVE  a[2] \in OwnObjects(name)
<1> DEFINE o     == a[2]
           entry == ByName(name)
           inf   == [resource |-> name, ns |-> ResourceNamespaces(name)[a[1]]]
<1>1. a[1] \in 1..Len(ResourceNamespaces(name)) /\ inf \in Informers /\ o \in Cache(inf)
  BY ListedFromPlace
<1>2. /\ o \in Objects /\ o # Absent /\ Key(o) \in Keys /\ Watches(inf, Key(o))
      /\ o \in Selects(name)
      /\ pos[inf][Key(o)] \in 1..Len(versions[Key(o)])
      /\ o = versions[Key(o)][pos[inf][Key(o)]]
  BY <1>1, ListedByKey
<1>3. pos[inf][Key(o)] = Len(versions[Key(o)]) /\ versions[Key(o)] # <<>>
  BY <1>1, <1>2 DEF CaughtUp
<1>4. o = Latest(Key(o))
  BY <1>2, <1>3 DEF Latest
<1>5. o.gvk = entry.gvk /\ o \in entry.selects
  BY <1>2, LooksUpItsOwnEntry DEF Watches, Key, Selects
<1>6. entry.namespaces # <<>> => o.ns \in ToSet(entry.namespaces)
  <2> SUFFICES ASSUME entry.namespaces # <<>> PROVE o.ns \in ToSet(entry.namespaces)
    OBVIOUS
  <2>1. PICK i \in WatchIndex : entry = Watch[i]
    BY EntryOfName
  <2>2. ~ClusterWide(name)
    BY <2>1, WatchAssumption, LooksUpItsOwnEntry DEF ClusterWide
  <2>3. ResourceNamespaces(name) = entry.namespaces
    BY <2>2, LooksUpItsOwnEntry DEF ResourceNamespaces
  <2>4. inf.ns = o.ns
    BY <1>1, <1>2, <2>2, ListedInNamespace DEF nsKey, Key
  <2> HIDE DEF entry
  <2> QED
    BY <1>1, <2>1, <2>3, <2>4, WatchAssumption DEF ToSet
<1> QED
  BY <1>2, <1>4, <1>5, <1>6 DEF OwnObjects

\* Caught up, an object that the entry asks for is listed.
LEMMA OwnIsListed ==
    ASSUME NamespacesAreDistinct, NamesAreNotEarlierKinds, InformersInv, CaughtUp,
           NEW name \in Names, NEW o \in OwnObjects(name)
    PROVE  \E a \in ListAll(name) : a[2] = o
<1> DEFINE entry == ByName(name)
           places == ResourceNamespaces(name)
<1>1. PICK k \in Keys : o = Latest(k) /\ o # Absent
  BY DEF OwnObjects
<1>2. /\ Len(versions[k]) \in Nat \ {0} /\ o = versions[k][Len(versions[k])]
      /\ o \in Objects /\ Key(o) = k
  BY <1>1, LatestIsLast
<1>3. o.gvk = entry.gvk /\ o \in Selects(name)
      /\ (entry.namespaces = <<>> \/ o.ns \in ToSet(entry.namespaces))
  BY LooksUpItsOwnEntry DEF OwnObjects, Selects
<1>4. PICK i \in 1..Len(places) : places[i] \in {NamespaceAll, o.ns}
  <2>1. CASE ClusterWide(name)
    BY <2>1 DEF ResourceNamespaces
  <2>2. CASE ~ClusterWide(name)
    <3>1. places = entry.namespaces /\ entry.namespaces # <<>>
      BY <2>2, LooksUpItsOwnEntry DEF ResourceNamespaces, ClusterWide
    <3>2. entry.namespaces \in Seq(STRING)
      BY EntryOfName, WatchAssumption
    <3>3. \E i \in 1..Len(entry.namespaces) : entry.namespaces[i] = o.ns
      BY <1>3, <3>1, <3>2 DEF ToSet
    <3> QED
      BY <3>1, <3>3
  <2> QED
    BY <2>1, <2>2
<1> DEFINE inf == [resource |-> name, ns |-> places[i]]
<1>5. inf \in Informers
  BY PlacesAreInformers
<1>6. Watches(inf, k)
  BY <1>2, <1>3, <1>4 DEF Watches, Key
<1>7. pos[inf][k] = Len(versions[k])
  BY <1>5, <1>6 DEF CaughtUp
<1>8. CacheEntry(inf, k) = o
  BY <1>2, <1>3, <1>7 DEF CacheEntry
<1>9. o \in Cache(inf)
  BY <1>1, <1>8 DEF Cache
<1>10. <<i, o>> \in ListAll(name)
  BY <1>9 DEF ListAll
<1> QED
  BY <1>10

\* No object is listed at two places.
LEMMA ListedOnce ==
    ASSUME NamespacesAreDistinct, InformersInv, NEW name \in Names,
           NEW a \in ListAll(name), NEW b \in ListAll(name), a[2] = b[2]
    PROVE  a = b
<1> DEFINE places == ResourceNamespaces(name)
<1>1. \A c \in ListAll(name) :
         /\ c = <<c[1], c[2]>> /\ c[1] \in 1..Len(places)
         /\ places[c[1]] = nsKey(name, c[2].ns)
  <2> SUFFICES ASSUME NEW c \in ListAll(name)
               PROVE  /\ c = <<c[1], c[2]>> /\ c[1] \in 1..Len(places)
                      /\ places[c[1]] = nsKey(name, c[2].ns)
    OBVIOUS
  <2>1. /\ c = <<c[1], c[2]>> /\ c[1] \in 1..Len(places)
        /\ [resource |-> name, ns |-> places[c[1]]] \in Informers
        /\ c[2] \in Cache([resource |-> name, ns |-> places[c[1]]])
    BY ListedFromPlace
  <2>2. Watches([resource |-> name, ns |-> places[c[1]]], Key(c[2]))
    BY <2>1, ListedByKey
  <2>3. places[c[1]] = nsKey(name, Key(c[2]).ns)
    BY <2>1, <2>2, ListedInNamespace
  <2> QED
    BY <2>1, <2>3 DEF Key
<1>2. places[a[1]] = places[b[1]] /\ a[1] \in 1..Len(places) /\ b[1] \in 1..Len(places)
  BY <1>1
<1>3. a[1] = b[1]
  <2>1. CASE ClusterWide(name)
    BY <1>2, <2>1 DEF ResourceNamespaces
  <2>2. CASE ~ClusterWide(name)
    <3>1. PICK j \in WatchIndex : WatchResourceFor(name) = Watch[j]
      BY WatchResourceForEntry
    <3>2. places = Watch[j].namespaces
      BY <2>2, <3>1 DEF ResourceNamespaces
    <3> QED
      BY <1>2, <3>2 DEF NamespacesAreDistinct
  <2> QED
    BY <2>1, <2>2
<1>4. a = <<a[1], a[2]>> /\ b = <<b[1], b[2]>>
  BY <1>1
<1> QED
  BY <1>3, <1>4

\* Caught up, a resource lists its own objects, once each.
LEMMA ListsOwn ==
    ASSUME NamespacesAreDistinct, NamesAreNotEarlierKinds, InformersInv
    PROVE  ListsItsOwnObjectsOnce
<1> SUFFICES ASSUME CaughtUp, NEW name \in Names
             PROVE  /\ {a[2] : a \in ListAll(name)} = OwnObjects(name)
                    /\ Cardinality(ListAll(name)) = Cardinality(OwnObjects(name))
  BY DEF ListsItsOwnObjectsOnce
<1>1. {a[2] : a \in ListAll(name)} = OwnObjects(name)
  BY ListedIsOwn, OwnIsListed
<1> DEFINE listed == ListAll(name)
           own    == OwnObjects(name)
           object == [a \in listed |-> a[2]]
<1>2. IsFiniteSet(own)
  <2>1. own \subseteq Objects
    BY LatestIsLast DEF OwnObjects
  <2> QED
    BY <2>1, FS_Subset, ObjectsAssumption
<1>3. object \in [listed -> own]
  BY <1>1
<1>4. \A a, b \in listed : object[a] = object[b] => a = b
  BY ListedOnce
<1>5. \A o \in own : \E a \in listed : object[a] = o
  BY OwnIsListed
<1> HIDE DEF listed, own, object
<1>6. object \in Bijection(listed, own)
  BY <1>3, <1>4, <1>5, Fun_IsBij
<1>7. ExistsBijection(own, listed)
  BY <1>6, Fun_ExistsBijSymmetric DEF ExistsBijection
<1>8. Cardinality(listed) = Cardinality(own)
  BY <1>2, <1>7, FS_Bijection
<1> QED
  BY <1>1, <1>8 DEF listed, own

(***************************************************************************)
(* If no resource is named like the kind of an earlier entry and no entry  *)
(* names a namespace twice or "", then in every cluster ListAll of a       *)
(* resource has, once the caches have caught up, exactly the objects that  *)
(* its own entry asks for, once each (listers.go:21).                      *)
(***************************************************************************)
THEOREM ListsOwnObjects ==
    NamespacesAreDistinct /\ NamesAreNotEarlierKinds =>
        (InformersSpec => []ListsItsOwnObjectsOnce)
<1> SUFFICES ASSUME NamespacesAreDistinct, NamesAreNotEarlierKinds
             PROVE  InformersSpec => []ListsItsOwnObjectsOnce
  OBVIOUS
<1> QED
  BY InformersInvHolds, ListsOwn, PTL

-----------------------------------------------------------------------------
(***************************************************************************)
(* The owner walk and its reference.  The ancestors are a recursive        *)
(* function, which for the provers is some function that satisfies its     *)
(* equation, if there is one: there is, because a least distance up to     *)
(* which there is none cannot exist.                                       *)
(***************************************************************************)

\* One step up: nothing is above nothing.
Above(p) == IF p = Absent THEN Absent ELSE Parent(p)

AncestryUpTo(f, o, m) ==
    f = [n \in 0..m |-> IF n = 0 THEN o ELSE Above(f[n - 1])]

\* A set of numbers that is not empty has a least element.
LEMMA LeastNumber ==
    ASSUME NEW T \in SUBSET Nat, T # {}
    PROVE  \E m \in T : \A k \in T : ~(k < m)
<1> DEFINE Less == {ss \in Nat \X Nat : ss[1] < ss[2]}
<1>1. IsWellFoundedOn(Less, Nat)
  BY NatLessThanWellFounded DEF OpToRel
<1>2. PICK m \in T : \A k \in T : <<k, m>> \notin Less
  <2> HIDE DEF Less
  <2> QED
    BY <1>1, WFMin
<1> QED
  BY <1>2

\* There are ancestors up to any distance.
LEMMA AncestryExists ==
    ASSUME NEW o
    PROVE  \E f : AncestryUpTo(f, o, MaxDepth)
<1> DEFINE Bad == {m \in Nat : ~\E f : AncestryUpTo(f, o, m)}
<1>1. SUFFICES ASSUME Bad # {} PROVE FALSE
  BY MaxDepthAssumption
<1>2. PICK m \in Bad : \A k \in Bad : ~(k < m)
  <2>1. Bad \in SUBSET Nat
    OBVIOUS
  <2> HIDE DEF Bad
  <2> QED
    BY <1>1, <2>1, LeastNumber
<1>3. m # 0
  <2>1. AncestryUpTo([n \in 0..0 |-> o], o, 0)
    BY DEF AncestryUpTo
  <2> QED
    BY <2>1
<1>4. m - 1 \in Nat /\ m - 1 \notin Bad
  BY <1>2, <1>3
<1>5. PICK f : AncestryUpTo(f, o, m - 1)
  BY <1>4
<1> DEFINE g == [n \in 0..m |-> IF n = 0 THEN o ELSE Above(f[n - 1])]
<1>6. \A n \in 0..(m - 1) : f[n] = IF n = 0 THEN o ELSE Above(f[n - 1])
  BY <1>5 DEF AncestryUpTo
<1>7. \A n \in 0..(m - 1) : g[n] = f[n]
  BY <1>4, <1>6
<1>8. \A n \in 0..m : n # 0 => n - 1 \in 0..(m - 1)
  BY <1>4
<1>9. g = [n \in 0..m |-> IF n = 0 THEN o ELSE Above(g[n - 1])]
  BY <1>7, <1>8
<1> HIDE DEF g
<1>10. AncestryUpTo(g, o, m)
  BY <1>9 DEF AncestryUpTo
<1> QED
  BY <1>10

\* So the ancestors are what the definition says.
LEMMA AncestorIs == \A o : AncestryUpTo(Ancestor(o), o, MaxDepth)
<1> SUFFICES ASSUME NEW o PROVE AncestryUpTo(Ancestor(o), o, MaxDepth)
  OBVIOUS
<1>1. PICK f : AncestryUpTo(f, o, MaxDepth)
  BY AncestryExists
<1> QED
  BY <1>1 DEF AncestryUpTo, Ancestor, Above

\* The ancestors one by one.
LEMMA AncestorSteps ==
    ASSUME NEW o
    PROVE  /\ Ancestor(o)[0] = o
           /\ \A n \in 1..MaxDepth : Ancestor(o)[n] = Above(Ancestor(o)[n - 1])
<1>1. AncestryUpTo(Ancestor(o), o, MaxDepth)
  BY AncestorIs
<1>2. 0 \in 0..MaxDepth /\ \A n \in 1..MaxDepth : n \in 0..MaxDepth /\ n # 0
  BY MaxDepthAssumption
<1> QED
  BY <1>1, <1>2 DEF AncestryUpTo

\* There is only one ancestry.
LEMMA AncestryUnique ==
    ASSUME NEW o, NEW f, NEW g, AncestryUpTo(f, o, MaxDepth), AncestryUpTo(g, o, MaxDepth)
    PROVE  f = g
<1> DEFINE Bad == {n \in 0..MaxDepth : f[n] # g[n]}
<1>1. SUFFICES ASSUME Bad # {} PROVE FALSE
  BY DEF AncestryUpTo
<1>2. Bad \in SUBSET Nat
  BY MaxDepthAssumption
<1>3. PICK m \in Bad : \A k \in Bad : ~(k < m)
  <2> HIDE DEF Bad
  <2> QED
    BY <1>1, <1>2, LeastNumber
<1>4. \A n \in 0..MaxDepth : /\ f[n] = IF n = 0 THEN o ELSE Above(f[n - 1])
                             /\ g[n] = IF n = 0 THEN o ELSE Above(g[n - 1])
  BY DEF AncestryUpTo
<1>5. m # 0
  BY <1>4
<1>6. m - 1 \in 0..MaxDepth /\ m - 1 \notin Bad
  BY <1>3, <1>5, MaxDepthAssumption
<1> QED
  BY <1>4, <1>5, <1>6

\* Above the last ancestor there is nothing.
LEMMA NothingAbove ==
    ASSUME NEW o, NEW d \in 0..MaxDepth, d < MaxDepth => Above(Ancestor(o)[d]) = Absent
    PROVE  \A n \in 0..MaxDepth : n > d => Ancestor(o)[n] = Absent
<1> DEFINE Bad == {n \in 0..MaxDepth : n > d /\ Ancestor(o)[n] # Absent}
<1>1. SUFFICES ASSUME Bad # {} PROVE FALSE
  OBVIOUS
<1>2. Bad \in SUBSET Nat
  BY MaxDepthAssumption
<1>3. PICK m \in Bad : \A k \in Bad : ~(k < m)
  <2> HIDE DEF Bad
  <2> QED
    BY <1>1, <1>2, LeastNumber
<1>4. m \in 1..MaxDepth /\ m > d /\ d \in Nat /\ MaxDepth \in Nat
  BY MaxDepthAssumption
<1>5. Ancestor(o)[m] = Above(Ancestor(o)[m - 1])
  BY <1>4, AncestorSteps
<1>6. CASE m = d + 1
  BY <1>4, <1>5, <1>6
<1>7. CASE m # d + 1
  <2>1. m - 1 \in 0..MaxDepth /\ m - 1 > d /\ m - 1 < m
    BY <1>4, <1>7
  <2>2. Ancestor(o)[m - 1] = Absent
    BY <1>3, <2>1
  <2> QED
    BY <1>5, <2>2 DEF Above
<1> QED
  BY <1>6, <1>7

-----------------------------------------------------------------------------
(* What is filed under a source *)

ChainSources == Roles \cup ResourceSources

\* An object is filed under the source, other than for its place in the walk.
Files(source, p) ==
    IF source = "topController" THEN ResourceForGVK(p.gvk).topController
    ELSE p.gvk = ResourceFor(source).gvk

\* A watched GVK stands for one entry.
LEMMA EntryOfGVK ==
    ASSUME NEW gvk, ResolvesGVK(gvk)
    PROVE  /\ \E i \in WatchIndex : ResourceForGVK(gvk) = Watch[i]
           /\ ResourceForGVK(gvk).gvk = gvk
           /\ \A i \in WatchIndex : Watch[i].gvk = gvk => Watch[i] = ResourceForGVK(gvk)
<1>1. \E i \in WatchIndex : ResourceForGVK(gvk) = Watch[i] /\ Watch[i].gvk = gvk
  BY DEF ResolvesGVK, ResourceForGVK
<1> QED
  BY <1>1, WatchAssumption

\* A reference that resolves stands for one entry, whose name or kind it is.
LEMMA EntryOfRef ==
    ASSUME NEW ref, Resolves(ref)
    PROVE  \E i \in WatchIndex :
              /\ ResourceFor(ref) = Watch[i]
              /\ ref \in Names => ref = Watch[i].name
              /\ ref \notin Names => ref = Watch[i].gvk.kind
<1>1. CASE ref \in Names
  BY <1>1, EntryOfName
<1>2. CASE ref \notin Names
  <2>1. NamesOfKind(ref) # {}
    BY <1>2 DEF Resolves, UniqueKind
  <2> DEFINE name == CHOOSE name \in NamesOfKind(ref) : TRUE
  <2>2. name \in NamesOfKind(ref)
    BY <2>1
  <2>3. PICK i \in WatchIndex : name = Watch[i].name /\ Watch[i].gvk.kind = ref
    BY <2>2 DEF NamesOfKind
  <2>4. name \in Names
    BY <2>3 DEF Names
  <2>5. ResourceFor(ref) = ByName(name)
    BY <1>2 DEF ResourceFor
  <2> HIDE DEF name
  <2>6. ByName(name) = Watch[i]
    BY <2>3, <2>4, EntryOfName, WatchAssumption
  <2> QED
    BY <1>2, <2>3, <2>5, <2>6
<1> QED
  BY <1>1, <1>2

\* addChainObject files an object under a source of the reference's.
LEMMA FiledUnder ==
    ASSUME SourcesAreDistinct, NEW p, ResolvesGVK(p.gvk),
           NEW source \in ChainSources \ {"anchor", "ownerController"}
    PROVE  /\ source \in SourcesOf(ResourceForGVK(p.gvk)) <=> Files(source, p)
           /\ source = p.gvk.kind => Files(source, p)
<1> DEFINE info == ResourceForGVK(p.gvk)
<1>1. PICK i \in WatchIndex : info = Watch[i] /\ Watch[i].gvk = p.gvk
  BY EntryOfGVK
<1>2. info.name \in Names /\ info.gvk.kind \in Kinds /\ p.gvk.kind \in Kinds
  BY <1>1 DEF Names, Kinds
<1>3. CASE source = "topController"
  <2>1. source # info.name /\ source # info.gvk.kind /\ source # p.gvk.kind
    BY <1>2, <1>3 DEF SourcesAreDistinct, Roles
  <2> HIDE DEF info
  <2>2. source \in SourcesOf(info) <=> info.topController
    BY <1>3, <2>1 DEF SourcesOf
  <2> QED
    BY <1>3, <2>1, <2>2 DEF Files, info
<1>4. CASE source # "topController"
  <2>1. source \in ResourceSources /\ source \notin Roles
    BY <1>4 DEF ChainSources, Roles, SourcesAreDistinct, ResourceSources
  <2>2. Resolves(source)
    BY <2>1 DEF ResourceSources, Resolves
  <2>3. PICK j \in WatchIndex : /\ ResourceFor(source) = Watch[j]
                                /\ source \in Names => source = Watch[j].name
                                /\ source \notin Names => source = Watch[j].gvk.kind
    BY <2>2, EntryOfRef
  <2>4. Files(source, p) <=> i = j
    BY <1>1, <1>4, <2>3, WatchAssumption DEF Files
  <2>5. source \in SourcesOf(info) <=>
            \/ source = info.name
            \/ source = info.gvk.kind /\ Resolves(source) /\ ResourceFor(source).name = info.name
    BY <1>4 DEF SourcesOf
  <2>6. source = info.name => i = j
    BY <1>1, <1>2, <2>3, WatchAssumption
  <2>7. ResourceFor(source).name = info.name <=> i = j
    BY <1>1, <2>3, WatchAssumption
  <2>8. i = j => source \in SourcesOf(info)
    BY <1>1, <2>2, <2>3, <2>5
  <2>9. source = p.gvk.kind => i = j
    <3>1. SUFFICES ASSUME source = p.gvk.kind PROVE i = j
      OBVIOUS
    <3>2. CASE source \in Names
      BY <1>1, <2>3, <3>1, <3>2 DEF SourcesAreDistinct
    <3>3. CASE source \notin Names
      <4>1. PICK name : NamesOfKind(source) = {name}
        BY <2>2, <3>3 DEF Resolves, UniqueKind
      <4>2. Watch[i].name \in NamesOfKind(source) /\ Watch[j].name \in NamesOfKind(source)
        BY <1>1, <2>3, <3>1, <3>3 DEF NamesOfKind
      <4> QED
        BY <4>1, <4>2, WatchAssumption
    <3> QED
      BY <3>2, <3>3
  <2> QED
    BY <2>4, <2>5, <2>6, <2>7, <2>8, <2>9
<1> QED
  BY <1>3, <1>4

\* No object is filed as the anchor or the owner for what it is.
LEMMA RolesAreOfTheWalk ==
    ASSUME SourcesAreDistinct, NEW p, ResolvesGVK(p.gvk),
           NEW source \in {"anchor", "ownerController"}
    PROVE  source \notin SourcesOf(ResourceForGVK(p.gvk)) /\ source # p.gvk.kind
<1> DEFINE info == ResourceForGVK(p.gvk)
<1>1. PICK i \in WatchIndex : info = Watch[i] /\ Watch[i].gvk = p.gvk
  BY EntryOfGVK
<1>2. info.name \in Names /\ info.gvk.kind \in Kinds /\ p.gvk.kind \in Kinds
  BY <1>1 DEF Names, Kinds
<1>3. source # info.name /\ source # info.gvk.kind /\ source # p.gvk.kind
  BY <1>2 DEF SourcesAreDistinct, Roles
<1> HIDE DEF info
<1> QED
  BY <1>3 DEF SourcesOf, info

\* The owner that the walk finds is of the resource that it files it under.
LEMMA ParentIsOfItsResource ==
    ASSUME InformersInv, NEW o, Parent(o) # Absent
    PROVE  /\ Parent(o) \in Objects
           /\ ResolvesGVK(Parent(o).gvk)
           /\ ResourceForGVK(Parent(o).gvk) = OwnerResource(ControllerRef(o))
<1> DEFINE info == OwnerResource(ControllerRef(o))
           inf  == [resource |-> info.name, ns |-> nsKey(info.name, o.ns)]
           k    == [gvk  |-> info.gvk,
                    ns   |-> IF info.scope = ScopeCluster THEN "" ELSE o.ns,
                    name |-> ControllerRef(o).name]
<1>1. HasFollowedOwner(o) /\ Parent(o) = Get(info.name, o.ns, ControllerRef(o).name)
  BY DEF Parent
<1>2. \E i \in WatchIndex : info = Watch[i]
  BY <1>1, EntryOfRef, EntryOfGVK DEF HasFollowedOwner, OwnerResolves, OwnerResource
<1>3. info.name \in Names /\ ResourceFor(info.name) = info
  <2>1. PICK i \in WatchIndex : info = Watch[i]
    BY <1>2
  <2>2. info.name \in Names
    BY <2>1 DEF Names
  <2> QED
    BY <2>1, <2>2, EntryOfName, WatchAssumption
<1> HIDE DEF info
<1>4. inf \in Informers /\ k \in Keys /\ Parent(o) = CacheEntry(inf, k)
  BY <1>1, <1>3 DEF Get
<1> HIDE DEF inf
<1>5. Parent(o) \in Cache(inf)
  BY <1>4 DEF Cache
<1>6. /\ pos[inf][k] # 0 /\ Parent(o) = versions[k][pos[inf][k]]
  BY <1>4 DEF CacheEntry
<1>7. pos[inf][k] \in 1..Len(versions[k])
  <2> HIDE DEF k
  <2>1. versions[k] \in Seq(Objects \cup {Absent}) /\ pos[inf][k] \in Nat
        /\ pos[inf][k] <= Len(versions[k])
    BY <1>4 DEF InformersInv, InformersTypeOK
  <2> QED
    BY <1>6, <2>1
<1>8. Key(Parent(o)) = k
  BY <1>4, <1>6, <1>7 DEF InformersInv, FiledByKey
<1>9. Parent(o).gvk = info.gvk
  BY <1>8 DEF Key
<1>10. Parent(o) \in Objects
  BY <1>4, <1>5, CacheType DEF InformersInv
<1>11. ResolvesGVK(info.gvk) /\ ResourceForGVK(info.gvk) = info
  BY <1>2, EntryOfGVK DEF ResolvesGVK, info
<1> QED
  BY <1>9, <1>10, <1>11 DEF info

-----------------------------------------------------------------------------
(* What the chain holds on the way up *)

FarthestOf(f, which) == IF which = {} THEN Absent ELSE f[Max(which)]

\* What the first ancestors, up to distance d, leave under a source.
Filed(f, d, source) ==
    IF source = "anchor" THEN f[0]
    ELSE IF source = "ownerController" THEN (IF d = 0 THEN Absent ELSE f[1])
    ELSE FarthestOf(f, {n \in 0..d : Files(source, f[n])})

\* The maximum of a set is its greatest element.
LEMMA MaxIs ==
    ASSUME NEW S \in SUBSET Nat, NEW m \in S, \A k \in S : k <= m
    PROVE  Max(S) = m
<1>1. m \in S /\ \A y \in S : m >= y
  OBVIOUS
<1>2. ASSUME NEW x \in S, \A y \in S : x >= y PROVE x = m
  BY <1>2
<1> QED
  BY <1>1, <1>2 DEF Max

\* The walk begins with what the anchor alone leaves.
LEMMA ChainStarts ==
    ASSUME SourcesAreDistinct, NEW f, ResolvesGVK(f[0].gvk), NEW source \in ChainSources
    PROVE  StartChain(f[0])[source] = Filed(f, 0, source)
<1> DEFINE o    == f[0]
           info == ResourceForGVK(o.gvk)
<1>1. source \in Sources
  BY DEF ChainSources, Sources, ResourceSources
<1>2. StartChain(o)[source] =
          IF source \in SourcesOf(info) \/ source \in {"anchor", o.gvk.kind} THEN o ELSE Absent
  BY <1>1 DEF StartChain, AddChainObject
<1>3. CASE source = "anchor"
  BY <1>2, <1>3 DEF Filed
<1>4. CASE source = "ownerController"
  BY <1>2, <1>4, RolesAreOfTheWalk DEF Filed
<1>5. CASE source \notin {"anchor", "ownerController"}
  <2>1. /\ source \in SourcesOf(info) <=> Files(source, o)
        /\ source = o.gvk.kind => Files(source, o)
    BY <1>5, FiledUnder
  <2>2. StartChain(o)[source] = IF Files(source, o) THEN o ELSE Absent
    BY <1>2, <1>5, <2>1
  <2> DEFINE which == {n \in 0..0 : Files(source, f[n])}
  <2>3. Filed(f, 0, source) = FarthestOf(f, which)
    BY <1>5 DEF Filed
  <2>4. Files(source, o) => 0 \in which /\ which \in SUBSET Nat /\ \A k \in which : k <= 0
    OBVIOUS
  <2>5. ~Files(source, o) => which = {}
    OBVIOUS
  <2> HIDE DEF which
  <2>6. Files(source, o) => which # {} /\ Max(which) = 0
    BY <2>4, MaxIs
  <2> QED
    BY <2>2, <2>3, <2>5, <2>6 DEF FarthestOf
<1> QED
  BY <1>3, <1>4, <1>5

\* One more owner leaves what one more ancestor leaves.
LEMMA ChainExtends ==
    ASSUME SourcesAreDistinct, NEW f, NEW d \in Nat, NEW c \in Chains,
           ResolvesGVK(f[d + 1].gvk),
           ResourceForGVK(f[d + 1].gvk) = OwnerResource(ControllerRef(f[d])),
           NEW source \in ChainSources, c[source] = Filed(f, d, source)
    PROVE  ExtendChain(c, d, f[d], f[d + 1])[source] = Filed(f, d + 1, source)
<1> DEFINE owner == f[d + 1]
           info  == OwnerResource(ControllerRef(f[d]))
           c0    == IF d = 0 THEN [c EXCEPT !["ownerController"] = owner] ELSE c
<1>1. source \in Sources
  BY DEF ChainSources, Sources, ResourceSources
<1>2. ExtendChain(c, d, f[d], owner)[source] =
          IF source \in SourcesOf(info) THEN owner ELSE c0[source]
  BY <1>1 DEF ExtendChain, AddChainObject
<1>3. c0[source] = IF d = 0 /\ source = "ownerController" THEN owner ELSE c[source]
  BY <1>1 DEF Chains
<1> HIDE DEF c0
<1>4. CASE source \in {"anchor", "ownerController"}
  <2>1. source \notin SourcesOf(info)
    BY <1>4, RolesAreOfTheWalk
  <2> QED
    BY <1>2, <1>3, <1>4, <2>1 DEF Filed
<1>5. CASE source \notin {"anchor", "ownerController"}
  <2>1. source \in SourcesOf(info) <=> Files(source, owner)
    BY <1>5, FiledUnder
  <2> DEFINE which(n) == {m \in 0..n : Files(source, f[m])}
  <2>2. /\ c[source] = FarthestOf(f, which(d))
        /\ Filed(f, d + 1, source) = FarthestOf(f, which(d + 1))
    BY <1>5 DEF Filed
  <2>3. CASE Files(source, owner)
    <3>1. d + 1 \in which(d + 1) /\ which(d + 1) \in SUBSET Nat
          /\ \A k \in which(d + 1) : k <= d + 1
      BY <2>3
    <3> HIDE DEF which
    <3>2. Max(which(d + 1)) = d + 1
      BY <3>1, MaxIs
    <3> QED
      BY <1>2, <2>1, <2>2, <2>3, <3>1, <3>2 DEF FarthestOf
  <2>4. CASE ~Files(source, owner)
    <3>1. \A m \in 0..(d + 1) : m \in 0..d \/ m = d + 1
      OBVIOUS
    <3>2. \A m \in 0..d : m \in 0..(d + 1)
      OBVIOUS
    <3>3. which(d + 1) = which(d)
      BY <2>4, <3>1, <3>2
    <3> HIDE DEF which
    <3> QED
      BY <1>2, <1>3, <1>5, <2>1, <2>2, <2>4, <3>3
  <2> QED
    BY <2>3, <2>4
<1> QED
  BY <1>4, <1>5

\* When the walk ends the chain is the reference, whatever the resources.
LEMMA ChainEnds ==
    ASSUME SourcesAreDistinct, NEW f, NEW d \in 0..MaxDepth,
           \A n \in 0..d : f[n] # Absent,
           \A n \in 0..MaxDepth : n > d => f[n] = Absent,
           NEW source \in ChainSources
    PROVE  Filed(f, d, source) = ReferenceChain(f)[source]
<1>0. MaxDepth \in Nat \ {0} /\ d \in Nat
  BY MaxDepthAssumption
<1>1. source \in Sources
  BY DEF ChainSources, Sources, ResourceSources
<1>2. source \in Roles => source \notin ResourceSources
  BY DEF SourcesAreDistinct, ResourceSources
<1>3. CASE source = "anchor"
  BY <1>1, <1>2, <1>3 DEF Filed, ReferenceChain, Roles
<1>4. CASE source = "ownerController"
  <2>1. ReferenceChain(f)[source] = f[1]
    BY <1>1, <1>2, <1>4 DEF ReferenceChain, Roles
  <2>2. d = 0 => f[1] = Absent
    BY <1>0
  <2> QED
    BY <1>4, <2>1, <2>2 DEF Filed
<1>5. CASE source \notin {"anchor", "ownerController"}
  <2> DEFINE which == {n \in 0..MaxDepth : f[n] # Absent /\ Files(source, f[n])}
  <2>1. which = {n \in 0..d : Files(source, f[n])}
    <3>1. \A n \in 0..MaxDepth : f[n] # Absent <=> n \in 0..d
      BY <1>0
    <3>2. \A n \in 0..d : n \in 0..MaxDepth
      BY <1>0
    <3> QED
      BY <3>1, <3>2
  <2>2. ReferenceChain(f)[source] = FarthestOf(f, which)
    <3>1. CASE source = "topController"
      <4>1. which = {n \in 0..MaxDepth : f[n] # Absent /\ ResourceForGVK(f[n].gvk).topController}
        BY <3>1 DEF Files
      <4> HIDE DEF which
      <4> QED
        BY <1>1, <1>2, <3>1, <4>1 DEF ReferenceChain, Farthest, FarthestOf, Roles
    <3>2. CASE source # "topController"
      <4>1. which = {n \in 0..MaxDepth : f[n] # Absent /\ f[n].gvk = ResourceFor(source).gvk}
        BY <3>2 DEF Files
      <4>2. source \in ResourceSources \ Roles
        BY <1>5, <3>2 DEF ChainSources, Roles
      <4> HIDE DEF which
      <4> QED
        BY <1>1, <4>1, <4>2 DEF ReferenceChain, Farthest, FarthestOf, Roles
    <3> QED
      BY <3>1, <3>2
  <2> QED
    BY <1>5, <2>1, <2>2 DEF Filed
<1> QED
  BY <1>3, <1>4, <1>5
=============================================================================
