--------------------------- MODULE RegistryProofs ---------------------------
(***************************************************************************)
(* What the lookup tables of ResourceRegistry return, for every watch list *)
(* that Validate accepts.                                                  *)
(***************************************************************************)
EXTENDS ResourceRegistry, TLAPS, SequenceTheorems, FiniteSetTheorems

\* A reference that resolves has the name of a watched resource.
LEMMA ResourceForName ==
    ASSUME NEW ref, Resolves(ref)
    PROVE  ResourceFor(ref).name \in Names
<1>1. ASSUME NEW name \in Names PROVE ByName(name).name = name
  BY <1>1 DEF ByName, Names
<1>2. CASE ref \in Names
  BY <1>1, <1>2 DEF ResourceFor
<1>3. CASE ref \notin Names
  <2>1. NamesOfKind(ref) # {}
    BY <1>3 DEF Resolves, UniqueKind
  <2>2. NamesOfKind(ref) \subseteq Names
    BY DEF NamesOfKind, Names
  <2> QED
    BY <1>1, <1>3, <2>1, <2>2 DEF ResourceFor
<1> QED
  BY <1>2, <1>3

\* A name stands for its own entry.
LEMMA EntryOfName ==
    ASSUME NEW name \in Names
    PROVE  /\ \E i \in WatchIndex : ByName(name) = Watch[i]
           /\ ByName(name).name = name
           /\ Resolves(name) /\ ResourceFor(name) = ByName(name)
  BY DEF ByName, Names, Resolves, ResourceFor

\* The first entry with the name or the kind is an entry.
LEMMA WatchResourceForEntry ==
    ASSUME NEW name \in Names
    PROVE  \E i \in WatchIndex : WatchResourceFor(name) = Watch[i]
<1> DEFINE Matches == {i \in WatchIndex : name \in {Watch[i].name, Watch[i].gvk.kind}}
           Less    == {ss \in Nat \X Nat : ss[1] < ss[2]}
<1>1. Matches # {} /\ Matches \subseteq Nat
  BY DEF Names, WatchIndex
<1>2. IsWellFoundedOn(Less, Nat)
  BY NatLessThanWellFounded DEF OpToRel
<1>3. PICK i \in Matches : \A j \in Matches : <<j, i>> \notin Less
  <2> HIDE DEF Matches, Less
  <2> QED
    BY <1>1, <1>2, WFMin
<1>4. \A j \in Matches : ~(j < i)
  BY <1>1, <1>3
<1>5. \A j \in 1..(i - 1) : name \notin {Watch[j].name, Watch[j].gvk.kind}
  BY <1>4, WatchAssumption DEF WatchIndex
<1> QED
  BY <1>5 DEF WatchResourceFor

\* A resource is listened to in one namespace at least, and each is one of its keys.
LEMMA NamespacesOfResource ==
    ASSUME NEW name \in Names
    PROVE  /\ Len(ResourceNamespaces(name)) \in Nat \ {0}
           /\ \A i \in 1..Len(ResourceNamespaces(name)) :
                 ResourceNamespaces(name)[i] \in NamespaceKeys(name)
<1>1. WatchResourceFor(name).namespaces \in Seq(STRING)
  BY WatchResourceForEntry, WatchAssumption
<1>2. Len(ResourceNamespaces(name)) \in Nat \ {0}
  BY <1>1, EmptySeq DEF ResourceNamespaces, ClusterWide
<1> QED
  BY <1>2 DEF NamespaceKeys
=============================================================================
