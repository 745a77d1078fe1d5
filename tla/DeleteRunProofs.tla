-------------------------- MODULE DeleteRunProofs --------------------------
(***************************************************************************)
(* Theorems about DependencyOrder and about DeleteRun, which sorts with    *)
(* it: for any number of objects, any kinds, schemas (recursive ones,      *)
(* too), failures, swaps, servers and writes of others.  OrderInv, the     *)
(* inductive invariant of the sort, says that the visitor loses no way to  *)
(* a PodSpec, and that each object that is through has the tier of its     *)
(* place.  DeleteInv, that of the command, is OrderInv and, while nobody   *)
(* disturbs the run, an account of the store: beside what was going        *)
(* already, the objects that the loop has passed are gone, and nothing     *)
(* else but the custom objects of CRDs among them.                         *)
(***************************************************************************)
EXTENDS DeleteRun, Minimum, TLAPS

USE DEF mapperVars

----------------------------------------------------------------------------
\* The order.

\* What can be reached from a node.
Reach(n) ==
  {node \in Nodes : \A S \in SUBSET Nodes : (n \in S /\ Closed(S)) => node \in S}

LeadsToPodSpec(n) == Reach(n) \cap PodSpecs # {}
RunsPods(gvk) == Root[gvk] # NoSchema /\ LeadsToPodSpec(Root[gvk])

\* The tier of an object, if no request fails.
TierOf(item) ==
  LET gvk == GvkOf[item]
  IN IF gvk \in CrdKinds THEN 10 ELSE IF gvk \in HookKinds THEN 200
     ELSE IF scope[gvk] = "root" THEN 20
     ELSE IF scope[gvk] = "namespaced" /\ RunsPods(gvk) THEN 100 ELSE 50

\* A failure gives an object that is neither type nor hook the middle tier.
TierFits(item) ==
  \/ tier[item] = TierOf(item)
  \/ faults # 0 /\ tier[item] = 50 /\ GvkOf[item] \notin CrdKinds \cup HookKinds

\* Some node that is yet to be visited leads to a PodSpec just if the root does.
NoWayLost ==
  pc = "visit" =>
    /\ built /\ next <= N /\ Root[Gvk] \in Nodes /\ scope[Gvk] = "namespaced"
    /\ Gvk \notin CrdKinds \cup HookKinds
    /\ LeadsToPodSpec(Root[Gvk]) <=>
         \E k \in 1 .. Len(frames) : \E n \in frames[k] : LeadsToPodSpec(n)

CacheIsTrue ==
  \A gvk \in Gvks :
    podSpecCache[gvk] # "unknown" => (podSpecCache[gvk] = "yes" <=> RunsPods(gvk))

SortedWhenDone ==
  /\ pc \in {"sorting", "done"} => next = N + 1
  /\ pc = "done" => \A i \in 1 .. N - 1 : ~Inverted(i)

\* Without its delegate the mapper knows no kind, and what was to be mapped so far
\* has met a failure, as have the kinds whose lists are lost.
MapperInv ==
  /\ lost # {} => faults # 0
  /\ ~built =>
       /\ scope = [gvk \in Gvks |-> "unknown"]
       /\ \A i \in Positions : i < next =>
            faults # 0 \/ GvkOf[items[i]] \in CrdKinds \cup HookKinds

OrderInv ==
  /\ MapperInv
  /\ OrderTypeOK /\ KeysFollowItems /\ NothingLost
  /\ NoWayLost /\ CacheIsTrue /\ SortedWhenDone
  /\ \A i \in Positions : i < next => TierFits(items[i])

----------------------------------------------------------------------------
\* Reachability.

\* A node reaches itself, and all that the nodes below it reach.
LEMMA ReachBelow ==
  ASSUME NEW n \in Nodes
  PROVE  /\ n \in Reach(n)
         /\ \A m \in Below[n] : Reach(m) \subseteq Reach(n)
         /\ \A x \in Reach(n) : x = n \/ \E m \in Below[n] : x \in Reach(m)
<1> USE OrderAssumption
<1>1. n \in Reach(n)
  BY DEF Reach
<1>2. ASSUME NEW m \in Below[n], NEW x \in Reach(m)
      PROVE  x \in Reach(n)
  BY <1>2 DEF Reach, Closed
<1>3. ASSUME NEW x \in Reach(n)
      PROVE  x = n \/ \E m \in Below[n] : x \in Reach(m)
  <2> DEFINE S == {y \in Nodes : y = n \/ \E m \in Below[n] : y \in Reach(m)}
  <2>1. Closed(S)
    <3> SUFFICES ASSUME NEW y \in S, NEW z \in Below[y]
                 PROVE  z \in S
      BY DEF Closed
    <3>1. z \in Nodes
      OBVIOUS
    <3>2. CASE y = n
      BY <3>1, <3>2 DEF Reach
    <3>3. ASSUME NEW m \in Below[n], y \in Reach(m)
          PROVE  z \in S
      <4>1. z \in Reach(m)
        BY <3>1, <3>3 DEF Reach, Closed
      <4> QED
        BY <3>1, <4>1
    <3> QED
      BY <3>2, <3>3
  <2>2. S \in SUBSET Nodes /\ n \in S
    OBVIOUS
  <2>3. x \in S
    BY <2>1, <2>2 DEF Reach
  <2> QED
    BY <2>3
<1> QED
  BY <1>1, <1>2, <1>3

\* To visit a node that is no PodSpec is to visit what is below it.
LEMMA VisitStep ==
  ASSUME NEW n \in Nodes, n \notin PodSpecs
  PROVE  LeadsToPodSpec(n) <=> \E m \in Below[n] : LeadsToPodSpec(m)
BY ReachBelow DEF LeadsToPodSpec

LEMMA PodSpecLeads ==
  ASSUME NEW n \in Nodes, n \in PodSpecs
  PROVE  LeadsToPodSpec(n)
BY ReachBelow DEF LeadsToPodSpec

\* Place, in terms of the tier.
LEMMA PlaceOfTier ==
  ASSUME NEW a \in Items, NEW b \in Items
  PROVE  /\ Place(a) \in 1 .. 5
         /\ TierOf(a) <= TierOf(b) => Place(a) <= Place(b)
         /\ TierOf(a) \in Tiers \ {0}
         /\ Place(a) = 1 <=> TierOf(a) = 10
         /\ Place(a) = 5 <=> TierOf(a) = 200
         /\ GvkOf[a] \in CrdKinds => Place(a) = 1
         /\ GvkOf[a] \in HookKinds => Place(a) = 5
         /\ GvkOf[a] \notin CrdKinds \cup HookKinds => Place(a) \notin {1, 5}
<1>1. \A gvk \in Gvks : RunsPods(gvk) <=> Root[gvk] # NoSchema /\ Reachable[gvk] \cap PodSpecs # {}
  BY DEF RunsPods, LeadsToPodSpec, Reachable, Reach
<1> QED
  BY <1>1, OrderAssumption DEF Place, TierOf, Tiers

----------------------------------------------------------------------------
\* The steps.

LEMMA InitInv == OrderInit => OrderInv
<1> SUFFICES ASSUME OrderInit
             PROVE  OrderInv
  OBVIOUS
<1>1. OrderTypeOK
  <2>1. scope \in [Gvks -> {"root", "namespaced", "unknown"}]
    BY DEF OrderInit
  <2>2. /\ keys \in [Positions -> Tiers] /\ tier \in [Items -> Tiers]
        /\ podSpecCache \in [Gvks -> {"unknown", "yes", "no"}]
    BY DEF OrderInit, Tiers
  <2>3. built \in BOOLEAN
    BY DEF OrderInit
  <2>4. lost \in SUBSET Gvks /\ frames \in Seq(SUBSET Nodes) /\ items \in [Positions -> Items]
    BY DEF OrderInit
  <2>5. next \in 1 .. N + 1 /\ faults \in 0 .. MaxFaults
    BY OrderAssumption DEF OrderInit
  <2>6. pc = "classify" /\ reverse \in BOOLEAN /\ frames = <<>>
    BY DEF OrderInit
  <2> QED
    BY <2>1, <2>2, <2>3, <2>4, <2>5, <2>6 DEF OrderTypeOK
<1>2. pc = "classify" /\ next = 1 /\ \A i \in Positions : ~(i < next)
  BY OrderAssumption DEF OrderInit, Positions
<1>3. KeysFollowItems /\ NothingLost /\ CacheIsTrue /\ MapperInv
  BY <1>2 DEF OrderInit, KeysFollowItems, NothingLost, CacheIsTrue, MapperInv
<1> QED
  BY <1>1, <1>2, <1>3 DEF OrderInv, NoWayLost, SortedWhenDone

\* The kind of the object that is next.
LEMMA GvkType ==
  ASSUME OrderInv, next \in Positions
  PROVE  /\ items[next] \in Items /\ Gvk \in Gvks /\ Gvk = GvkOf[items[next]]
         /\ scope[Gvk] \in {"root", "namespaced", "unknown"}
         /\ podSpecCache[Gvk] \in {"unknown", "yes", "no"}
<1>1. items[next] \in Items
  BY DEF OrderInv, OrderTypeOK
<1> QED
  BY <1>1, OrderAssumption DEF OrderInv, OrderTypeOK, Gvk

\* To give an object a tier that fits keeps the invariant.
LEMMA GiveTierInv ==
  ASSUME OrderInv, next \in Positions, NEW t \in Tiers, GiveTier(t),
         UNCHANGED <<reverse, built, scope, lost, items>>, frames' = <<>>,
         podSpecCache' \in [Gvks -> {"unknown", "yes", "no"}], CacheIsTrue',
         faults' \in 0 .. MaxFaults, faults' >= faults,
         \/ t = TierOf(items[next])
         \/ faults' # 0 /\ t = 50 /\ Gvk \notin CrdKinds \cup HookKinds,
         built \/ faults' # 0 \/ Gvk \in CrdKinds \cup HookKinds
  PROVE  OrderInv'
<1>1. /\ items[next] \in Items /\ pc' = "classify" /\ next' = next + 1
      /\ N \in Nat /\ next \in 1 .. N /\ faults \in 0 .. MaxFaults /\ MaxFaults \in Nat
  BY GvkType, OrderAssumption DEF GiveTier, Positions, OrderInv, OrderTypeOK
<1>2. /\ keys' = [keys EXCEPT ![next] = t] /\ keys \in [Positions -> Tiers]
      /\ tier' = [tier EXCEPT ![items[next]] = t] /\ tier \in [Items -> Tiers]
      /\ items \in [Positions -> Items]
  BY DEF GiveTier, OrderInv, OrderTypeOK
<1>3. \A i \in Positions : i < next => items[i] # items[next]
  BY <1>1 DEF OrderInv, NothingLost, Injective
<1>4. ASSUME NEW i \in Positions, i < next'
      PROVE  keys'[i] = tier'[items[i]] /\ TierFits(items[i])'
  <2>1. i \in Nat /\ items[i] \in Items
    BY <1>2 DEF Positions
  <2>2. CASE i = next
    BY <2>1, <2>2, <1>1, <1>2 DEF TierFits, TierOf, RunsPods, LeadsToPodSpec, Reach, Gvk
  <2>3. CASE i < next
    <3>1. tier'[items[i]] = tier[items[i]] /\ keys'[i] = keys[i]
      BY <2>1, <2>3, <1>1, <1>2, <1>3
    <3>2. keys[i] = tier[items[i]] /\ TierFits(items[i])
      BY <2>3 DEF OrderInv, KeysFollowItems
    <3>3. faults # 0 => faults' # 0
      BY <1>1
    <3> QED
      BY <3>1, <3>2, <3>3 DEF TierFits, TierOf
  <2> QED
    BY <2>1, <2>2, <2>3, <1>1, <1>4
<1>5. OrderTypeOK'
  BY <1>1, <1>2 DEF OrderInv, OrderTypeOK, Positions, Tiers
<1>6. KeysFollowItems' /\ \A i \in Positions : i < next' => TierFits(items[i])'
  BY <1>4 DEF KeysFollowItems
<1>7. NothingLost' /\ NoWayLost' /\ SortedWhenDone'
  BY <1>1 DEF OrderInv, NothingLost, Injective, NoWayLost, SortedWhenDone
<1>8. MapperInv'
  <2>1. faults # 0 => faults' # 0
    BY <1>1
  <2>2. ASSUME ~built, NEW i \in Positions, i < next'
        PROVE  faults' # 0 \/ GvkOf[items[i]] \in CrdKinds \cup HookKinds
    <3>1. i = next \/ i < next
      BY <1>1, <2>2 DEF Positions
    <3>2. CASE i < next
      BY <2>1, <2>2, <3>2 DEF OrderInv, MapperInv
    <3> QED
      BY <2>2, <3>1, <3>2 DEF Gvk
  <2> QED
    BY <2>1, <2>2 DEF OrderInv, MapperInv
<1> QED
  BY <1>5, <1>6, <1>7, <1>8 DEF OrderInv

\* While there is no delegate, and nothing is visited: a list is lost, or the
\* delegate is made.  Either leaves what was given its tier as it is.
LEMMA LoseKindsInv == OrderInv /\ LoseKinds => OrderInv'
<1> SUFFICES ASSUME OrderInv, LoseKinds
             PROVE  OrderInv'
  OBVIOUS
<1>1. /\ ~built /\ faults' = faults + 1 /\ faults < MaxFaults
      /\ UNCHANGED <<pc, reverse, built, scope, items, keys, next, podSpecCache, frames, tier>>
  BY DEF LoseKinds
<1>2. faults' \in 0 .. MaxFaults /\ faults' # 0
  BY <1>1, OrderAssumption DEF OrderInv, OrderTypeOK
<1>3. lost' \in SUBSET Gvks
  BY OrderAssumption DEF LoseKinds, OrderInv, OrderTypeOK
<1>4. OrderTypeOK' /\ KeysFollowItems' /\ NothingLost' /\ CacheIsTrue'
  BY <1>1, <1>2, <1>3 DEF OrderInv, OrderTypeOK, KeysFollowItems, NothingLost, Injective,
                          CacheIsTrue, RunsPods, LeadsToPodSpec, Reach
<1>5. NoWayLost' /\ SortedWhenDone' /\ MapperInv'
  BY <1>1, <1>2 DEF OrderInv, NoWayLost, SortedWhenDone, Inverted, Less, MapperInv
<1>6. ASSUME NEW i \in Positions, i < next'
      PROVE  TierFits(items[i])'
  BY <1>1, <1>2, <1>6 DEF OrderInv, TierFits, TierOf, RunsPods, LeadsToPodSpec, Reach
<1> QED
  BY <1>4, <1>5, <1>6 DEF OrderInv

LEMMA BuildMapperInv ==
  ASSUME OrderInv, NEW s \in Scopes, BuildMapper(s)
  PROVE  OrderInv'
<1>1. /\ ~built /\ built' = TRUE /\ scope' = Known(s)
      /\ UNCHANGED <<pc, reverse, lost, items, keys, next, podSpecCache, frames, faults, tier>>
  BY DEF BuildMapper
<1>2. scope' \in [Gvks -> {"root", "namespaced", "unknown"}]
  BY <1>1, OrderAssumption DEF Known
<1>3. OrderTypeOK' /\ KeysFollowItems' /\ NothingLost' /\ CacheIsTrue'
  BY <1>1, <1>2 DEF OrderInv, OrderTypeOK, KeysFollowItems, NothingLost, Injective,
                    CacheIsTrue, RunsPods, LeadsToPodSpec, Reach
<1>4. NoWayLost' /\ SortedWhenDone' /\ MapperInv'
  BY <1>1 DEF OrderInv, NoWayLost, SortedWhenDone, Inverted, Less, MapperInv
<1>5. ASSUME NEW i \in Positions, i < next'
      PROVE  TierFits(items[i])'
  <2>1. /\ TierFits(items[i]) /\ items[i] \in Items /\ GvkOf[items[i]] \in Gvks
        /\ faults # 0 \/ GvkOf[items[i]] \in CrdKinds \cup HookKinds
        /\ scope = [gvk \in Gvks |-> "unknown"]
    BY <1>1, <1>5, OrderAssumption DEF OrderInv, OrderTypeOK, MapperInv
  <2>2. CASE GvkOf[items[i]] \in CrdKinds \cup HookKinds
    BY <1>1, <2>1, <2>2 DEF TierFits, TierOf
  <2>3. CASE GvkOf[items[i]] \notin CrdKinds \cup HookKinds
    <3>1. tier[items[i]] = 50 /\ faults # 0
      BY <2>1, <2>3 DEF TierFits, TierOf
    <3> QED
      BY <1>1, <2>3, <3>1 DEF TierFits
  <2> QED
    BY <2>2, <2>3
<1> QED
  BY <1>3, <1>4, <1>5 DEF OrderInv

LEMMA MapKindInv == OrderInv /\ MapKind => OrderInv'
BY LoseKindsInv, BuildMapperInv DEF MapKind

LEMMA ClassifySpecialInv == OrderInv /\ ClassifySpecial => OrderInv'
<1> SUFFICES ASSUME OrderInv, ClassifySpecial
             PROVE  OrderInv'
  OBVIOUS
<1>1. next \in Positions /\ frames' = <<>>
  BY OrderAssumption DEF ClassifySpecial, OrderInv, OrderTypeOK, Positions
<1>2. /\ UNCHANGED <<reverse, built, scope, lost, items, podSpecCache, faults>>
      /\ podSpecCache' \in [Gvks -> {"unknown", "yes", "no"}]
      /\ faults' \in 0 .. MaxFaults /\ faults' >= faults /\ CacheIsTrue'
  BY OrderAssumption DEF ClassifySpecial, OrderInv, OrderTypeOK, CacheIsTrue
<1>3. items[next] \in Items /\ Gvk = GvkOf[items[next]]
  BY <1>1, GvkType
<1>4. CASE Gvk \in CrdKinds /\ GiveTier(10)
  <2>1. TierOf(items[next]) = 10 /\ 10 \in Tiers
    BY <1>3, <1>4 DEF TierOf, Tiers
  <2> QED
    BY <1>1, <1>2, <1>4, <2>1, GiveTierInv
<1>5. CASE Gvk \in HookKinds /\ GiveTier(200)
  <2>1. TierOf(items[next]) = 200 /\ 200 \in Tiers
    BY <1>3, <1>5, OrderAssumption DEF TierOf, Tiers
  <2> QED
    BY <1>1, <1>2, <1>5, <2>1, GiveTierInv
<1> QED
  BY <1>4, <1>5 DEF ClassifySpecial

LEMMA ClassifyInv == OrderInv /\ Classify => OrderInv'
<1> SUFFICES ASSUME OrderInv, Classify
             PROVE  OrderInv'
  OBVIOUS
<1>1. /\ next \in Positions /\ pc = "classify" /\ frames = <<>>
      /\ Gvk \notin CrdKinds \cup HookKinds
      /\ UNCHANGED <<reverse, built, scope, lost, items, podSpecCache>>
      /\ podSpecCache' \in [Gvks -> {"unknown", "yes", "no"}] /\ CacheIsTrue'
      /\ faults \in 0 .. MaxFaults /\ MaxFaults \in Nat
  BY OrderAssumption DEF Classify, Mappable, OrderInv, OrderTypeOK, Positions, CacheIsTrue
<1>2. /\ items[next] \in Items /\ Gvk = GvkOf[items[next]] /\ Gvk \in Gvks
      /\ podSpecCache[Gvk] \in {"unknown", "yes", "no"}
  BY <1>1, GvkType
<1>3. 20 \in Tiers /\ 50 \in Tiers /\ 100 \in Tiers
  BY DEF Tiers
<1>4. CASE ~built /\ Try(FALSE, TRUE) /\ GiveTier(50) /\ UNCHANGED frames
  <2>1. faults' \in 0 .. MaxFaults /\ faults' >= faults /\ faults' # 0
    BY <1>1, <1>4 DEF Try
  <2> QED
    BY <1>1, <1>3, <1>4, <2>1, GiveTierInv
<1>7. CASE built /\ scope[Gvk] = "unknown" /\ GiveTier(50) /\ UNCHANGED <<faults, frames>>
  <2>1. TierOf(items[next]) = 50
    BY <1>1, <1>2, <1>7 DEF TierOf
  <2> QED
    BY <1>1, <1>3, <1>7, <2>1, GiveTierInv
<1>5. CASE built /\ scope[Gvk] = "root" /\ GiveTier(20) /\ UNCHANGED <<faults, frames>>
  <2>1. TierOf(items[next]) = 20
    BY <1>1, <1>2, <1>5 DEF TierOf
  <2> QED
    BY <1>1, <1>3, <1>5, <2>1, GiveTierInv
<1>6. CASE built /\ scope[Gvk] = "namespaced" /\ AskForPodSpec
  <2>1. TierOf(items[next]) = IF RunsPods(Gvk) THEN 100 ELSE 50
    BY <1>1, <1>2, <1>6 DEF TierOf
  <2>2. CASE /\ podSpecCache[Gvk] # "unknown" /\ ByPodSpec(podSpecCache[Gvk] = "yes")
             /\ UNCHANGED <<faults, frames>>
    <3>1. podSpecCache[Gvk] = "yes" <=> RunsPods(Gvk)
      BY <1>2, <2>2 DEF OrderInv, CacheIsTrue
    <3>2. GiveTier(TierOf(items[next])) /\ TierOf(items[next]) \in Tiers
      BY <1>3, <2>1, <2>2, <3>1 DEF ByPodSpec
    <3> QED
      BY <1>1, <1>6, <2>2, <3>2, GiveTierInv
  <2>3. CASE Try(Root[Gvk] = NoSchema, TRUE) /\ ByPodSpec(FALSE) /\ UNCHANGED frames
    <3>1. GiveTier(50) /\ faults' \in 0 .. MaxFaults /\ faults' >= faults
      BY <1>1, <2>3 DEF Try, ByPodSpec
    <3>2. TierOf(items[next]) = 50 \/ faults' # 0
      BY <1>1, <2>1, <2>3 DEF Try, RunsPods
    <3> QED
      BY <1>1, <1>3, <1>6, <2>3, <3>1, <3>2, GiveTierInv
  <2>4. CASE /\ Root[Gvk] # NoSchema /\ pc' = "visit" /\ frames' = <<{Root[Gvk]}>>
             /\ UNCHANGED <<keys, tier, next, faults>>
    <3>1. Root[Gvk] \in Nodes
      BY <1>2, <2>4, OrderAssumption
    <3>2. frames' \in Seq(SUBSET Nodes) /\ Len(frames') = 1 /\ frames'[1] = {Root[Gvk]}
      BY <2>4, <3>1
    <3>3. OrderTypeOK'
      BY <1>1, <2>4, <3>2 DEF OrderInv, OrderTypeOK
    <3>4. NoWayLost'
      <4>1. next <= N
        BY <1>1, OrderAssumption DEF Positions
      <4>2. Gvk' = Gvk /\ scope' = scope /\ next' = next
        BY <1>1, <2>4 DEF Gvk
      <4>3. (\E k \in 1 .. Len(frames') : \E n \in frames'[k] : LeadsToPodSpec(n))
              <=> LeadsToPodSpec(Root[Gvk])
        BY <3>2
      <4> QED
        BY <1>1, <1>6, <3>1, <4>1, <4>2, <4>3 DEF NoWayLost
    <3>5. KeysFollowItems' /\ NothingLost' /\ SortedWhenDone' /\ MapperInv'
      BY <1>1, <2>4 DEF OrderInv, KeysFollowItems, NothingLost, Injective, SortedWhenDone, MapperInv
    <3>6. ASSUME NEW i \in Positions, i < next'
          PROVE  TierFits(items[i])'
      BY <1>1, <2>4, <3>6 DEF OrderInv, TierFits, TierOf
    <3> QED
      BY <1>1, <2>4, <3>3, <3>4, <3>5, <3>6 DEF OrderInv
  <2> QED
    BY <1>6, <2>2, <2>3, <2>4 DEF AskForPodSpec
<1> QED
  BY <1>4, <1>5, <1>6, <1>7 DEF Classify

\* A visit is over: what it found is what there is.
LEMMA KeepInv ==
  ASSUME OrderInv, pc = "visit", NEW contained \in BOOLEAN,
         contained <=> LeadsToPodSpec(Root[Gvk]),
         Keep(contained), UNCHANGED <<reverse, built, scope, lost, items, faults>>
  PROVE  OrderInv'
<1>1. /\ built /\ next \in Positions /\ Root[Gvk] \in Nodes /\ scope[Gvk] = "namespaced"
      /\ Gvk \notin CrdKinds \cup HookKinds
  BY OrderAssumption DEF OrderInv, NoWayLost, OrderTypeOK, Positions
<1>2. items[next] \in Items /\ Gvk = GvkOf[items[next]] /\ Gvk \in Gvks
  BY <1>1, GvkType
<1>3. contained <=> RunsPods(Gvk)
  BY <1>1, OrderAssumption DEF RunsPods
<1>4. podSpecCache' = [podSpecCache EXCEPT ![Gvk] = IF contained THEN "yes" ELSE "no"]
  BY DEF Keep
<1>5. podSpecCache' \in [Gvks -> {"unknown", "yes", "no"}]
  BY <1>4 DEF OrderInv, OrderTypeOK
<1>6. CacheIsTrue'
  <2> SUFFICES ASSUME NEW gvk \in Gvks, podSpecCache'[gvk] # "unknown"
               PROVE  podSpecCache'[gvk] = "yes" <=> RunsPods(gvk)
    BY DEF CacheIsTrue, RunsPods, LeadsToPodSpec, Reach
  <2>1. CASE gvk = Gvk
    BY <2>1, <1>2, <1>3, <1>4 DEF OrderInv, OrderTypeOK
  <2>2. CASE gvk # Gvk
    BY <2>2, <1>4 DEF OrderInv, OrderTypeOK, CacheIsTrue
  <2> QED
    BY <2>1, <2>2
<1>7. GiveTier(TierOf(items[next])) /\ TierOf(items[next]) \in Tiers /\ frames' = <<>>
  BY <1>1, <1>2, <1>3 DEF Keep, ByPodSpec, TierOf, Tiers
<1>8. faults' \in 0 .. MaxFaults /\ faults' >= faults
  BY OrderAssumption DEF OrderInv, OrderTypeOK
<1> QED
  BY <1>1, <1>5, <1>6, <1>7, <1>8, GiveTierInv

\* While a visit goes on, nothing but its stack changes.
LEMMA GoOnInv ==
  ASSUME OrderInv, pc = "visit",
         frames' \in Seq(SUBSET Nodes), frames' # <<>>,
         (\E k \in 1 .. Len(frames) : \E n \in frames[k] : LeadsToPodSpec(n)) <=>
           \E k \in 1 .. Len(frames') : \E n \in frames'[k] : LeadsToPodSpec(n),
         UNCHANGED <<pc, reverse, built, scope, lost, items, keys, next, podSpecCache, faults, tier>>
  PROVE  OrderInv'
<1>1. OrderTypeOK'
  BY DEF OrderInv, OrderTypeOK
<1>2. NoWayLost'
  BY DEF OrderInv, NoWayLost, Gvk, LeadsToPodSpec, Reach
<1>3. KeysFollowItems' /\ NothingLost' /\ SortedWhenDone' /\ CacheIsTrue' /\ MapperInv'
  BY DEF OrderInv, KeysFollowItems, NothingLost, Injective, SortedWhenDone, CacheIsTrue,
         RunsPods, LeadsToPodSpec, Reach, MapperInv
<1>4. ASSUME NEW i \in Positions, i < next'
      PROVE  TierFits(items[i])'
  BY <1>4 DEF OrderInv, TierFits, TierOf
<1> QED
  BY <1>1, <1>2, <1>3, <1>4 DEF OrderInv

LEMMA VisitInv == OrderInv /\ Visit => OrderInv'
<1> SUFFICES ASSUME OrderInv, pc = "visit", frames # <<>>, NEW node \in Top,
                    \/ node \in PodSpecs /\ Keep(TRUE)
                    \/ /\ node \notin PodSpecs
                       /\ frames' = <<Below[node], Top \ {node}>> \o Tail(frames)
                       /\ UNCHANGED <<pc, keys, tier, next, podSpecCache>>,
                    UNCHANGED <<reverse, built, scope, lost, items, faults>>
             PROVE  OrderInv'
  BY DEF Visit
<1>1. /\ frames \in Seq(SUBSET Nodes) /\ Len(frames) \in Nat \ {0} /\ Top = frames[1]
      /\ node \in Nodes
  BY DEF Top, OrderInv, OrderTypeOK
<1>2. CASE node \in PodSpecs /\ Keep(TRUE)
  <2>1. LeadsToPodSpec(node)
    BY <1>1, <1>2, PodSpecLeads
  <2>2. LeadsToPodSpec(Root[Gvk])
    BY <1>1, <2>1 DEF OrderInv, NoWayLost
  <2> QED
    BY <1>2, <2>2, KeepInv
<1>3. CASE /\ node \notin PodSpecs
           /\ frames' = <<Below[node], Top \ {node}>> \o Tail(frames)
           /\ UNCHANGED <<pc, keys, tier, next, podSpecCache>>
  <2>1. Below[node] \in SUBSET Nodes /\ Top \ {node} \in SUBSET Nodes
    BY <1>1, OrderAssumption
  <2>2. /\ frames' \in Seq(SUBSET Nodes) /\ Len(frames') = Len(frames) + 1
        /\ frames'[1] = Below[node] /\ frames'[2] = Top \ {node}
        /\ \A k \in 3 .. Len(frames) + 1 : frames'[k] = frames[k - 1]
    BY <1>1, <1>3, <2>1
  <2>3. LeadsToPodSpec(node) <=> \E m \in frames'[1] : LeadsToPodSpec(m)
    BY <1>1, <1>3, <2>2, VisitStep
  <2>4. ASSUME NEW k \in 1 .. Len(frames), NEW n \in frames[k], LeadsToPodSpec(n)
        PROVE  \E h \in 1 .. Len(frames') : \E m \in frames'[h] : LeadsToPodSpec(m)
    <3>1. CASE k = 1 /\ n = node
      BY <2>2, <2>3, <2>4, <3>1, <1>1
    <3>2. CASE k = 1 /\ n # node
      BY <2>2, <2>4, <3>2, <1>1
    <3>3. CASE k # 1
      <4>1. k + 1 \in 3 .. Len(frames) + 1 /\ frames'[k + 1] = frames[k]
        BY <2>2, <3>3, <1>1
      <4>2. k + 1 \in 1 .. Len(frames') /\ n \in frames'[k + 1]
        BY <2>2, <4>1, <1>1
      <4> QED
        BY <2>4, <4>2
    <3> QED
      BY <3>1, <3>2, <3>3
  <2>5. ASSUME NEW k \in 1 .. Len(frames'), NEW n \in frames'[k], LeadsToPodSpec(n)
        PROVE  \E h \in 1 .. Len(frames) : \E m \in frames[h] : LeadsToPodSpec(m)
    <3>1. CASE k = 1
      BY <2>3, <2>5, <3>1, <1>1
    <3>2. CASE k = 2
      BY <2>2, <2>5, <3>2, <1>1
    <3>3. CASE k \in 3 .. Len(frames) + 1
      <4>1. k - 1 \in 1 .. Len(frames) /\ frames'[k] = frames[k - 1]
        BY <2>2, <3>3, <1>1
      <4> QED
        BY <2>5, <4>1
    <3> QED
      BY <2>2, <3>1, <3>2, <3>3, <1>1
  <2>6. frames' # <<>>
    BY <2>2, <1>1
  <2> QED
    BY <1>3, <2>2, <2>4, <2>5, <2>6, GoOnInv
<1> QED
  BY <1>2, <1>3

\* A sequence of some length is not the empty one.
LEMMA LengthOfNone ==
  ASSUME NEW f \in Seq(SUBSET Nodes), Len(f) # 0
  PROVE  f # <<>>
OBVIOUS

LEMMA LeaveInv == OrderInv /\ Leave => OrderInv'
<1> SUFFICES ASSUME OrderInv, pc = "visit", frames # <<>>, Top = {},
                    IF Tail(frames) # <<>>
                    THEN frames' = Tail(frames) /\ UNCHANGED <<pc, keys, tier, next, podSpecCache>>
                    ELSE Keep(FALSE),
                    UNCHANGED <<reverse, built, scope, lost, items, faults>>
             PROVE  OrderInv'
  BY DEF Leave
<1>1. frames \in Seq(SUBSET Nodes) /\ Len(frames) \in Nat \ {0} /\ frames[1] = {}
  BY DEF Top, OrderInv, OrderTypeOK
<1>2. /\ Tail(frames) \in Seq(SUBSET Nodes) /\ Len(Tail(frames)) = Len(frames) - 1
      /\ \A k \in 1 .. Len(frames) - 1 : Tail(frames)[k] = frames[k + 1]
  BY <1>1
<1>3. CASE Tail(frames) # <<>>
  <2>1. ASSUME NEW k \in 1 .. Len(frames), NEW n \in frames[k], LeadsToPodSpec(n)
        PROVE  \E h \in 1 .. Len(frames') : \E m \in frames'[h] : LeadsToPodSpec(m)
    <3>1. k # 1
      BY <1>1, <2>1
    <3>2. k - 1 \in 1 .. Len(frames') /\ frames'[k - 1] = frames[k]
      BY <1>1, <1>2, <1>3, <3>1
    <3> QED
      BY <2>1, <3>2
  <2>2. ASSUME NEW k \in 1 .. Len(frames'), NEW n \in frames'[k], LeadsToPodSpec(n)
        PROVE  \E h \in 1 .. Len(frames) : \E m \in frames[h] : LeadsToPodSpec(m)
    <3>1. k + 1 \in 1 .. Len(frames) /\ frames'[k] = frames[k + 1]
      BY <1>1, <1>2, <1>3
    <3> QED
      BY <2>2, <3>1
  <2> QED
    BY <1>2, <1>3, <2>1, <2>2, GoOnInv
<1>4. CASE Tail(frames) = <<>>
  <2>1. Len(frames) = 1
    <3>1. Len(Tail(frames)) = 0
      BY <1>2, <1>4, LengthOfNone
    <3>2. Len(frames) \in Nat /\ Len(Tail(frames)) = Len(frames) - 1
      BY <1>1, <1>2
    <3>3. \A n \in Nat : n - 1 = 0 => n = 1
      OBVIOUS
    <3> QED
      BY <3>1, <3>2, <3>3, Zenon
  <2>2. ~LeadsToPodSpec(Root[Gvk])
    BY <1>1, <2>1 DEF OrderInv, NoWayLost
  <2>3. Keep(FALSE)
    BY <1>4
  <2>4. \E contained \in BOOLEAN : (contained <=> LeadsToPodSpec(Root[Gvk])) /\ Keep(contained)
    BY <2>2, <2>3
  <2> QED
    BY <2>4, KeepInv
<1> QED
  BY <1>3, <1>4

\* sort.Sort begins, or returns.
LEMMA StartSortInv == OrderInv /\ StartSort => OrderInv'
<1> SUFFICES ASSUME OrderInv, StartSort
             PROVE  OrderInv'
  OBVIOUS
<1>1. /\ pc' = "sorting" /\ next = N + 1 /\ pc # "visit"
      /\ UNCHANGED <<reverse, built, scope, lost, items, keys, next, podSpecCache, frames, faults, tier>>
  BY DEF StartSort
<1>2. OrderTypeOK' /\ KeysFollowItems' /\ NothingLost' /\ CacheIsTrue'
  BY <1>1 DEF OrderInv, OrderTypeOK, KeysFollowItems, NothingLost, Injective, CacheIsTrue,
              RunsPods, LeadsToPodSpec, Reach
<1>3. NoWayLost' /\ SortedWhenDone' /\ MapperInv'
  BY <1>1 DEF OrderInv, NoWayLost, SortedWhenDone, MapperInv
<1>4. ASSUME NEW i \in Positions, i < next'
      PROVE  TierFits(items[i])'
  BY <1>1, <1>4 DEF OrderInv, TierFits, TierOf
<1> QED
  BY <1>1, <1>2, <1>3, <1>4 DEF OrderInv

LEMMA ReturnInv == OrderInv /\ Return => OrderInv'
<1> SUFFICES ASSUME OrderInv, Return
             PROVE  OrderInv'
  OBVIOUS
<1>1. /\ pc = "sorting" /\ pc' = "done" /\ \A i \in 1 .. N - 1 : ~Inverted(i)
      /\ UNCHANGED <<reverse, built, scope, lost, items, keys, next, podSpecCache, frames, faults, tier>>
  BY DEF Return
<1>2. OrderTypeOK' /\ KeysFollowItems' /\ NothingLost' /\ CacheIsTrue'
  BY <1>1 DEF OrderInv, OrderTypeOK, KeysFollowItems, NothingLost, Injective, CacheIsTrue,
              RunsPods, LeadsToPodSpec, Reach
<1>3. NoWayLost' /\ MapperInv'
  BY <1>1 DEF OrderInv, NoWayLost, MapperInv
<1>4. SortedWhenDone'
  BY <1>1 DEF OrderInv, SortedWhenDone, Inverted, Less
<1>5. ASSUME NEW i \in Positions, i < next'
      PROVE  TierFits(items[i])'
  BY <1>1, <1>5 DEF OrderInv, TierFits, TierOf
<1> QED
  BY <1>1, <1>2, <1>3, <1>4, <1>5 DEF OrderInv

\* A swap moves two objects with their keys.
LEMMA SwapInv ==
  ASSUME OrderInv, NEW i \in Positions, NEW j \in Positions, Swap(i, j)
  PROVE  OrderInv'
<1>1. /\ pc = "sorting" /\ next = N + 1
      /\ items \in [Positions -> Items] /\ keys \in [Positions -> Tiers]
      /\ UNCHANGED <<pc, reverse, built, scope, lost, next, podSpecCache, frames, faults, tier>>
  BY DEF Swap, OrderInv, OrderTypeOK, SortedWhenDone
<1>2. /\ items' = [items EXCEPT ![i] = items[j], ![j] = items[i]]
      /\ keys' = [keys EXCEPT ![i] = keys[j], ![j] = keys[i]]
  BY DEF Swap, Swapped
<1> DEFINE from(k) == IF k = j THEN i ELSE IF k = i THEN j ELSE k
<1>3. ASSUME NEW k \in Positions
      PROVE  /\ from(k) \in Positions /\ k < next /\ from(k) < next
             /\ items'[k] = items[from(k)] /\ keys'[k] = keys[from(k)]
  BY <1>1, <1>2, OrderAssumption DEF Positions
<1>4. \A k, h \in Positions : from(k) = from(h) => k = h
  OBVIOUS
<1> HIDE DEF from
<1>5. items' \in [Positions -> Items] /\ keys' \in [Positions -> Tiers]
  BY <1>1, <1>2
<1>6. OrderTypeOK'
  BY <1>1, <1>5 DEF OrderInv, OrderTypeOK
<1>7. KeysFollowItems'
  BY <1>1, <1>3 DEF OrderInv, KeysFollowItems
<1>8. NothingLost'
  BY <1>3, <1>4 DEF OrderInv, NothingLost, Injective
<1>9. NoWayLost' /\ CacheIsTrue' /\ SortedWhenDone'
  BY <1>1 DEF OrderInv, NoWayLost, CacheIsTrue, SortedWhenDone, RunsPods, LeadsToPodSpec, Reach
<1>10. ASSUME NEW k \in Positions
       PROVE  TierFits(items[k])'
  <2>1. TierFits(items[from(k)])
    BY <1>3 DEF OrderInv
  <2> QED
    BY <2>1, <1>1, <1>3 DEF TierFits, TierOf
<1>11. MapperInv'
  BY <1>1, <1>3 DEF OrderInv, MapperInv
<1> QED
  BY <1>6, <1>7, <1>8, <1>9, <1>10, <1>11 DEF OrderInv

LEMMA OrderStepInv == OrderInv /\ [OrderNext]_orderVars => OrderInv'
<1> SUFFICES ASSUME OrderInv, [OrderNext]_orderVars
             PROVE  OrderInv'
  OBVIOUS
<1>1. CASE UNCHANGED orderVars
  <2>1. OrderTypeOK' /\ KeysFollowItems' /\ NothingLost'
    BY <1>1 DEF orderVars, OrderInv, OrderTypeOK, KeysFollowItems, NothingLost, Injective
  <2>2. NoWayLost' /\ CacheIsTrue'
    BY <1>1 DEF orderVars, OrderInv, NoWayLost, CacheIsTrue, Gvk, RunsPods, LeadsToPodSpec, Reach
  <2>3. SortedWhenDone' /\ MapperInv'
    BY <1>1 DEF orderVars, OrderInv, SortedWhenDone, Inverted, Less, MapperInv
  <2>4. ASSUME NEW i \in Positions, i < next'
        PROVE  TierFits(items[i])'
    BY <1>1, <2>4 DEF orderVars, OrderInv, TierFits, TierOf
  <2> QED
    BY <2>1, <2>2, <2>3, <2>4 DEF OrderInv
<1> QED
  BY <1>1, ClassifySpecialInv, MapKindInv, ClassifyInv, VisitInv, LeaveInv, StartSortInv, ReturnInv, SwapInv
     DEF OrderNext, Classifying

\* The invariant holds throughout.
THEOREM OrderInvariance == OrderSpec => []OrderInv
BY InitInv, OrderStepInv, PTL DEF OrderSpec

\* OrderTypeOK: the visitor has a stack exactly while it visits.
THEOREM OrderTypeCorrect == OrderSpec => []OrderTypeOK
<1>1. OrderInv => OrderTypeOK
  BY DEF OrderInv
<1> QED
  BY <1>1, OrderInvariance, PTL

\* SwapsKeepPairs: however objects are swapped, each is there once and keeps its key.
THEOREM PairsKept == OrderSpec => []SwapsKeepPairs
<1>1. OrderInv => SwapsKeepPairs
  BY DEF OrderInv, SwapsKeepPairs
<1> QED
  BY <1>1, OrderInvariance, PTL

----------------------------------------------------------------------------
\* Types have the lowest tier and hooks the highest, whatever fails.
LEMMA TierTells ==
  ASSUME NEW x \in Items, TierFits(x)
  PROVE  /\ Place(x) = 1 <=> tier[x] = 10
         /\ Place(x) = 5 <=> tier[x] = 200
         /\ 10 <= tier[x] /\ tier[x] <= 200
<1>1. CASE tier[x] = TierOf(x)
  BY <1>1, PlaceOfTier DEF Tiers
<1>2. CASE tier[x] = 50 /\ GvkOf[x] \notin CrdKinds \cup HookKinds
  BY <1>2, PlaceOfTier
<1> QED
  BY <1>1, <1>2 DEF TierFits

\* If no neighbours are in the wrong order, no two objects are.
LEMMA Sorted ==
  ASSUME OrderInv, pc = "done",
         NEW i \in Positions, NEW j \in Positions, i < j
  PROVE  IF reverse THEN keys[j] <= keys[i] ELSE keys[i] <= keys[j]
<1> DEFINE wrong(k) == IF reverse THEN keys[k] > keys[i] ELSE keys[i] > keys[k]
           T == {k \in Positions : i < k /\ wrong(k)}
<1>1. /\ N \in Nat /\ Positions = 1 .. N
      /\ \A k \in Positions : keys[k] \in Nat
      /\ \A k \in 1 .. N - 1 : ~Inverted(k)
  <2>1. keys \in [Positions -> Tiers] /\ \A t \in Tiers : t \in Nat
    BY DEF OrderInv, OrderTypeOK, Tiers
  <2> QED
    BY <2>1, OrderAssumption DEF Positions, OrderInv, SortedWhenDone
<1>2. ASSUME NEW k \in 1 .. N - 1
      PROVE  IF reverse THEN keys[k + 1] <= keys[k] ELSE keys[k] <= keys[k + 1]
  <2>1. ~Inverted(k) /\ k \in Positions /\ k + 1 \in Positions
    BY <1>1, <1>2
  <2> QED
    BY <1>1, <2>1 DEF Inverted, Less
<1>3. ASSUME T # {}
      PROVE  FALSE
  <2>0. T \in SUBSET Nat
    BY <1>1
  <2> HIDE DEF T
  <2>1. PICK k \in T : \A h \in T : k <= h
    BY <1>3, <2>0, Least
  <2> USE DEF T
  <2>2. k - 1 \in 1 .. N - 1 /\ k - 1 \notin T /\ k \in Nat /\ i <= k - 1
    BY <1>1, <2>1
  <2>3. IF reverse THEN keys[k] <= keys[k - 1] ELSE keys[k - 1] <= keys[k]
    BY <1>1, <1>2, <2>2
  <2>4. k - 1 = i \/ ~wrong(k - 1)
    BY <1>1, <2>2
  <2> QED
    BY <1>1, <2>1, <2>2, <2>3, <2>4
<1> QED
  BY <1>1, <1>3

\* Once the invariant holds, so does the order.
LEMMA OrderInvOrders ==
  ASSUME OrderInv
  PROVE  DependenciesFirst
<1> SUFFICES ASSUME pc = "done", NEW i \in Positions, NEW j \in Positions, i < j,
                    \/ faults = 0
                    \/ Place(items[i]) \in {1, 5} \/ Place(items[j]) \in {1, 5}
             PROVE  IF reverse THEN Place(items[i]) >= Place(items[j])
                    ELSE Place(items[i]) <= Place(items[j])
  BY DEF DependenciesFirst
<1> DEFINE a == items[i]
           b == items[j]
<1>1. a \in Items /\ b \in Items /\ i < next /\ j < next
  BY OrderAssumption DEF OrderInv, OrderTypeOK, SortedWhenDone, Positions
<1>2. TierFits(a) /\ TierFits(b) /\ keys[i] = tier[a] /\ keys[j] = tier[b]
  BY <1>1 DEF OrderInv, KeysFollowItems
<1>3. IF reverse THEN tier[b] <= tier[a] ELSE tier[a] <= tier[b]
  BY <1>2, Sorted
<1>4. /\ tier[a] \in Tiers /\ tier[b] \in Tiers
      /\ Place(a) \in 1 .. 5 /\ Place(b) \in 1 .. 5
  BY <1>1, PlaceOfTier DEF OrderInv, OrderTypeOK
<1>5. CASE faults = 0
  <2>1. tier[a] = TierOf(a) /\ tier[b] = TierOf(b)
    BY <1>2, <1>5 DEF TierFits
  <2>2. /\ TierOf(a) <= TierOf(b) => Place(a) <= Place(b)
        /\ TierOf(b) <= TierOf(a) => Place(b) <= Place(a)
    BY <1>1, PlaceOfTier
  <2> QED
    BY <1>3, <1>4, <2>1, <2>2
<1>6. CASE Place(a) \in {1, 5} \/ Place(b) \in {1, 5}
  <2>1. /\ Place(a) = 1 <=> tier[a] = 10
        /\ Place(a) = 5 <=> tier[a] = 200
        /\ 10 <= tier[a] /\ tier[a] <= 200
    BY <1>1, <1>2, TierTells
  <2>2. /\ Place(b) = 1 <=> tier[b] = 10
        /\ Place(b) = 5 <=> tier[b] = 200
        /\ 10 <= tier[b] /\ tier[b] <= 200
    BY <1>1, <1>2, TierTells
  <2>3. tier[a] \in Nat /\ tier[b] \in Nat
    BY <1>4 DEF Tiers
  <2> QED
    BY <1>3, <1>4, <1>6, <2>1, <2>2, <2>3
<1> QED
  BY <1>5, <1>6

\* DependenciesFirst: what sort.Sort leaves is ordered by what depends on what,
\* in either direction; failures can only move what is neither type nor hook.
THEOREM OrderIsRight == OrderSpec => []DependenciesFirst
BY OrderInvOrders, OrderInvariance, PTL

----------------------------------------------------------------------------
\* The command.

\* What the first m objects of the order address.
Reached(m) == {Target[items[k]] : k \in 1 .. m}

\* What a CRD of S takes along, or one that was going when the run began.
Follows(o, S) ==
  \E i \in Items : Target[i] = o /\ (Doomed(i) \/ DefinedBy[GvkOf[i]] \in S)

\* The store, once the first m objects are deleted: what is left is as it was.
DeletedTo(m) ==
  /\ \A k \in 1 .. m : ~Remains(items[k])
  /\ \A o \in Objects :
       /\ store[o] # Absent /\ ~store[o].terminating => store[o] = base[o]
       /\ o \in Reached(m) \/ store[o] = base[o] \/ Going(o) \/ Follows(o, Reached(m))

\* The loop begins when the order is made, and a command that is through has been
\* through all of it.  Beyond the first object the mapper has its delegate; one that
\* failed stands at a kind that the delegate does not know.
CommandInv ==
  /\ cmd = [pc |-> cmd.pc, i |-> cmd.i, version |-> cmd.version, default |-> cmd.default,
            foreground |-> cmd.foreground]
  /\ cmd.pc \in {"run", "done", "failed", "killed"} /\ cmd.i \in 1 .. N + 1
  /\ cmd.i > 1 => pc = "done" /\ built
  /\ cmd.pc = "done" <=> cmd.i = N + 1
  /\ cmd.pc = "failed" => built /\ scope[GvkOf[items[cmd.i]]] = "unknown"

\* What a delegate does not know.
KindsKnown ==
  built =>
    \A gvk \in Gvks :
      LET crd == DefinedBy[gvk]
      IN scope[gvk] = "unknown" =>
           \/ gvk \in lost \/ KindScope[gvk] = "unknown"
           \/ crd # None /\ (base[crd] = Absent \/ Going(crd) \/ ~alone)

\* A run that was killed may have been killed after the call for its last object.
Account ==
  \E m \in 0 .. N :
    /\ m = cmd.i - 1 \/ (cmd.pc = "killed" /\ m = cmd.i)
    /\ m > 0 => pc = "done"
    /\ DeletedTo(m)

DeleteInv ==
  /\ OrderInv /\ ClusterTypeOK /\ CommandInv
  /\ reverse = TRUE
  /\ base \in [Objects -> Live \cup {Absent}] /\ KindsKnown
  /\ alone => Account

----------------------------------------------------------------------------
\* The order.

LEMMA ScopeKnown == \A s : ScopeIn(s) \in Scopes
BY DeleteAssumption DEF ScopeIn

\* While the order is made it changes nothing but its own; when it is made it rests.
\* A delegate stays what it is.
LEMMA OrderFrame ==
  ASSUME OrderNext
  PROVE  /\ pc # "done" /\ UNCHANGED reverse
         /\ \/ UNCHANGED <<built, scope, lost>>
            \/ ~built /\ UNCHANGED built
            \/ ~built /\ built' /\ UNCHANGED lost
<1>1. CASE MapKind
  BY <1>1 DEF MapKind, Mappable, LoseKinds, BuildMapper
<1>2. CASE ClassifySpecial \/ Classify \/ Visit \/ Leave \/ StartSort \/ Return
             \/ \E i, j \in Positions : Swap(i, j)
  BY <1>2 DEF ClassifySpecial, Classify, Mappable, Visit, Leave, StartSort, Return, Swap
<1> QED
  BY <1>1, <1>2 DEF OrderNext, Classifying

LEMMA OrderRests == OrderInv /\ UNCHANGED orderVars => OrderInv'
BY OrderStepInv

LEMMA OrderBegins == OrderInit' => OrderInv'
BY InitInv, PTL

\* An aborted visit leaves its object to be classified.
LEMMA OrderAborts ==
  ASSUME OrderInv,
         pc' = IF pc = "visit" THEN "classify" ELSE pc,
         frames' = <<>>,
         UNCHANGED <<reverse, built, scope, lost, items, keys, next, podSpecCache, faults, tier>>
  PROVE  OrderInv'
<1>1. pc' # "visit" /\ (pc' \in {"sorting", "done"} <=> pc \in {"sorting", "done"})
      /\ (pc' = "done" <=> pc = "done")
  BY DEF OrderInv, OrderTypeOK
<1>2. OrderTypeOK' /\ KeysFollowItems' /\ NothingLost' /\ CacheIsTrue'
  BY <1>1 DEF OrderInv, OrderTypeOK, KeysFollowItems, NothingLost, Injective, CacheIsTrue,
              RunsPods, LeadsToPodSpec, Reach
<1>3. NoWayLost' /\ SortedWhenDone' /\ MapperInv'
  BY <1>1 DEF OrderInv, NoWayLost, SortedWhenDone, Inverted, Less, MapperInv
<1>4. ASSUME NEW i \in Positions, i < next'
      PROVE  TierFits(items[i])'
  BY <1>4 DEF OrderInv, TierFits, TierOf
<1> QED
  BY <1>2, <1>3, <1>4 DEF OrderInv

\* What the items are.
LEMMA ItemFacts ==
  ASSUME OrderInv
  PROVE  /\ N \in Nat /\ Positions = 1 .. N
         /\ \A k \in 1 .. N : /\ items[k] \in Items /\ Target[items[k]] \in Objects
                              /\ GvkOf[items[k]] \in Gvks
         /\ \A k, h \in 1 .. N : items[k] = items[h] => k = h
         /\ Config = {items[k] : k \in 1 .. N}
BY OrderAssumption, DeleteAssumption
   DEF OrderInv, OrderTypeOK, NothingLost, Injective, Positions, Config

----------------------------------------------------------------------------
\* The store.

\* A deletion of o marks it or takes it away, with its custom objects if it is a CRD.
Erodes(o) ==
  /\ store' \in [Objects -> Live \cup {Absent}]
  /\ \A p \in Objects :
       \/ store'[p] = store[p]
       \/ /\ store'[p] = Absent \/ store'[p].terminating
          /\ p = o \/ \E i \in Items : Target[i] = p /\ DefinedBy[GvkOf[i]] = o

LEMMA RemovedErodes ==
  ASSUME ClusterTypeOK, NEW o \in Objects, Removed(o)
  PROVE  Erodes(o) /\ store'[o] = Absent /\ clock' \in Nat
BY DEF ClusterTypeOK, Removed, Erodes

LEMMA MarkedErodes ==
  ASSUME ClusterTypeOK, NEW o \in Objects, store[o] # Absent,
         Write(o, Stamped([store[o] EXCEPT !.terminating = TRUE]))
  PROVE  Erodes(o) /\ store'[o] # Absent /\ store'[o].terminating /\ clock' \in Nat
<1> DEFINE live == Stamped([store[o] EXCEPT !.terminating = TRUE])
<1>1. store \in [Objects -> Live \cup {Absent}] /\ store[o] \in Live /\ clock \in Nat
  BY DEF ClusterTypeOK
<1>2. live \in Live /\ live.terminating
  <2> DEFINE marked == [store[o] EXCEPT !.terminating = TRUE]
  <2>1. marked \in Live /\ marked.terminating
    BY <1>1 DEF Live
  <2> HIDE DEF marked
  <2>2. Stamped(marked) \in Live /\ Stamped(marked).terminating
    BY <1>1, <2>1 DEF Stamped, Live
  <2> QED
    BY <2>2 DEF marked
<1> HIDE DEF live
<1>3. store' = [store EXCEPT ![o] = live] /\ clock' = clock + 1
  BY DEF Write, live
<1> QED
  BY <1>1, <1>2, <1>3, AbsentAssumption DEF Erodes

LEMMA IdleErodes ==
  ASSUME ClusterTypeOK, UNCHANGED <<store, clock>>, NEW o \in Objects
  PROVE  Erodes(o) /\ clock' \in Nat
BY DEF ClusterTypeOK, Erodes

\* What defines the kind of an object is a CRD, whose own kind nothing defines.
LEMMA CrdFacts ==
  ASSUME NEW i \in Items, DefinedBy[GvkOf[i]] \in Objects
  PROVE  /\ DefinedBy[GvkOf[i]] \in Crds
         /\ \A h \in Items : Target[h] = DefinedBy[GvkOf[i]] =>
              GvkOf[h] \in CrdKinds /\ DefinedBy[GvkOf[h]] = None
BY DeleteAssumption, OrderAssumption

\* What is left stays left, or erodes.
LEMMA StillGone ==
  ASSUME NEW m \in 0 .. N, OrderInv, DeletedTo(m), NEW o \in Objects, Erodes(o),
         UNCHANGED <<items, base>>
  PROVE  /\ \A k \in 1 .. m : ~Remains(items[k])'
         /\ \A p \in Objects :
              store'[p] # Absent /\ ~store'[p].terminating => store'[p] = base'[p]
<1>1. \A k \in 1 .. m : Target[items[k]] \in Objects
  BY ItemFacts
<1> QED
  BY <1>1 DEF DeletedTo, Erodes, Remains

\* When something vanishes that was marked, the account stands.
LEMMA VanishKeeps ==
  ASSUME NEW m \in 0 .. N, OrderInv, DeletedTo(m), NEW o \in Objects, Erodes(o),
         store[o] # Absent, store[o].terminating,
         UNCHANGED <<items, base>>
  PROVE  DeletedTo(m)'
<1>1. Reached(m)' = Reached(m) /\ Reached(m) \subseteq Objects
  BY ItemFacts DEF Reached
<1>2. \A p \in Objects : (Going(p)' <=> Going(p))
  BY DEF Going
<1>3. \A p \in Objects : (Follows(p, Reached(m))' <=> Follows(p, Reached(m)))
  BY <1>1 DEF Follows, Doomed, Going
<1>4. ASSUME NEW i \in Items, DefinedBy[GvkOf[i]] = o
      PROVE  Follows(Target[i], Reached(m))
  <2>1. o \in Reached(m) \/ Going(o) \/ Follows(o, Reached(m))
    BY DEF DeletedTo, Going
  <2>2. o # None
    BY DeleteAssumption
  <2>3. ~Follows(o, Reached(m))
    <3>1. \A h \in Items : Target[h] = o => DefinedBy[GvkOf[h]] = None
      BY <1>4, CrdFacts
    <3>2. None \notin Reached(m)
      BY <1>1, DeleteAssumption
    <3> QED
      BY <3>1, <3>2 DEF Follows, Doomed
  <2> QED
    BY <1>4, <2>1, <2>2, <2>3 DEF Follows, Doomed
<1>5. ASSUME NEW p \in Objects
      PROVE  \/ p \in Reached(m) \/ store'[p] = base[p] \/ Going(p) \/ Follows(p, Reached(m))
  <2>1. CASE store'[p] = store[p]
    BY <2>1 DEF DeletedTo
  <2>2. CASE p = o
    BY <2>2 DEF DeletedTo, Going
  <2>3. CASE \E i \in Items : Target[i] = p /\ DefinedBy[GvkOf[i]] = o
    BY <2>3, <1>4
  <2> QED
    BY <2>1, <2>2, <2>3 DEF Erodes
<1> QED
  BY <1>1, <1>2, <1>3, <1>5, StillGone DEF DeletedTo

\* When the next object has been deleted, the account has one more.
LEMMA DeleteAdds ==
  ASSUME NEW m \in 0 .. N - 1, OrderInv, DeletedTo(m),
         Erodes(Target[items[m + 1]]), ~Remains(items[m + 1])',
         UNCHANGED <<items, base>>
  PROVE  DeletedTo(m + 1)'
<1> DEFINE o == Target[items[m + 1]]
<1>0. N \in Nat /\ m \in Nat /\ m \in 0 .. N /\ m + 1 \in 1 .. N
      /\ 1 .. m + 1 = (1 .. m) \cup {m + 1}
  <2>1. N \in Nat /\ m \in Nat /\ m \in 0 .. N /\ m + 1 \in 1 .. N
    BY OrderAssumption
  <2>2. \A k \in Nat : 1 .. k + 1 = (1 .. k) \cup {k + 1}
    OBVIOUS
  <2> QED
    BY <2>1, <2>2
<1>1. Reached(m + 1)' = Reached(m) \cup {o} /\ o \in Objects
  BY <1>0, ItemFacts DEF Reached
<1>2. \A p \in Objects : (Going(p)' <=> Going(p))
  BY DEF Going
<1>3. \A p \in Objects : Follows(p, Reached(m)) => Follows(p, Reached(m + 1))'
  BY <1>1 DEF Follows, Doomed, Going
<1>4. ASSUME NEW i \in Items, DefinedBy[GvkOf[i]] = o
      PROVE  Follows(Target[i], Reached(m + 1))'
  BY <1>1, <1>4 DEF Follows
<1>5. ASSUME NEW p \in Objects
      PROVE  \/ p \in Reached(m + 1)' \/ store'[p] = base[p] \/ Going(p)
             \/ Follows(p, Reached(m + 1))'
  <2>1. CASE store'[p] = store[p]
    BY <2>1, <1>1, <1>3 DEF DeletedTo
  <2>2. CASE p = o
    BY <2>2, <1>1
  <2>3. CASE \E i \in Items : Target[i] = p /\ DefinedBy[GvkOf[i]] = o
    BY <2>3, <1>4
  <2> QED
    BY <2>1, <2>2, <2>3 DEF Erodes
<1>6. /\ \A k \in 1 .. m : ~Remains(items[k])'
      /\ \A p \in Objects : store'[p] # Absent /\ ~store'[p].terminating => store'[p] = base'[p]
  BY <1>0, <1>1, StillGone
<1>7. \A k \in 1 .. m + 1 : ~Remains(items[k])'
  BY <1>0, <1>6
<1> QED
  BY <1>2, <1>5, <1>6, <1>7 DEF DeletedTo

----------------------------------------------------------------------------
\* The steps.

\* Whatever the server says of its version, a run begins at the first object.
LEMMA StartedFacts ==
  ASSUME NEW c \in Started
  PROVE  /\ c = [pc |-> c.pc, i |-> c.i, version |-> c.version, default |-> c.default,
                 foreground |-> c.foreground]
         /\ c.i = 1 /\ c.pc = IF N = 0 THEN "done" ELSE "run"
BY DEF Started

\* A delegate that is made before anything is deleted misses what was missing when
\* the run began, or has gone since; and what could not be had.
LEMMA DelegateKnows ==
  ASSUME built', scope' = Known(ScopeIn(store)), alone => DeletedTo(0),
         UNCHANGED <<lost, base, alone>>
  PROVE  KindsKnown'
<1> SUFFICES ASSUME NEW gvk \in Gvks, scope'[gvk] = "unknown", gvk \notin lost,
                    KindScope[gvk] # "unknown"
             PROVE  /\ DefinedBy[gvk] # None
                    /\ base[DefinedBy[gvk]] = Absent \/ Going(DefinedBy[gvk]) \/ ~alone
  BY DEF KindsKnown, Going
<1>1. ScopeIn(store)[gvk] = "unknown"
  BY DEF Known
<1>2. DefinedBy[gvk] \in {crd \in Crds : store[crd] = Absent}
  BY <1>1 DEF ScopeIn, ScopeWithout
<1>3. DefinedBy[gvk] \in Objects /\ DefinedBy[gvk] # None
  BY <1>2, CrdsAssumption, DeleteAssumption
<1>4. ASSUME alone
      PROVE  base[DefinedBy[gvk]] = Absent \/ Going(DefinedBy[gvk])
  <2>1. ~Follows(DefinedBy[gvk], {})
    BY <1>2, <1>3, DeleteAssumption DEF Follows, Doomed
  <2>2. Reached(0) = {}
    BY DEF Reached
  <2> QED
    BY <1>2, <1>3, <1>4, <2>1, <2>2 DEF DeletedTo
<1> QED
  BY <1>3, <1>4

LEMMA KindsStay ==
  ASSUME KindsKnown, UNCHANGED <<built, scope, lost, base>>, alone' \in {alone, FALSE}
  PROVE  KindsKnown'
BY DEF KindsKnown, Going

\* A run that begins has an empty account.
LEMMA Beginning ==
  ASSUME OrderInv', cmd' \in Started, base' = store', store' \in [Objects -> Live \cup {Absent}]
  PROVE  CommandInv' /\ Account'
<1>1. /\ cmd' = [pc |-> cmd'.pc, i |-> cmd'.i, version |-> cmd'.version,
                 default |-> cmd'.default, foreground |-> cmd'.foreground]
      /\ cmd'.i = 1 /\ cmd'.pc = IF N = 0 THEN "done" ELSE "run"
  BY StartedFacts
<1>2. N \in Nat
  BY OrderAssumption
<1>3. CommandInv'
  BY <1>1, <1>2 DEF CommandInv
<1>4. DeletedTo(0)'
  BY DEF DeletedTo
<1> QED
  BY <1>1, <1>2, <1>3, <1>4 DEF Account

LEMMA DeleteInitInv == DeleteInit => DeleteInv
<1> SUFFICES ASSUME DeleteInit
             PROVE  DeleteInv
  OBVIOUS
<1>1. OrderInv /\ reverse = TRUE
  BY InitInv DEF DeleteInit
<1>2. ClusterTypeOK
  BY StoresAssumption DEF DeleteInit, ClusterInit, ClusterTypeOK
<1>3. /\ cmd = [pc |-> cmd.pc, i |-> cmd.i, version |-> cmd.version, default |-> cmd.default,
                foreground |-> cmd.foreground]
      /\ cmd.i = 1 /\ cmd.pc = IF N = 0 THEN "done" ELSE "run"
  BY StartedFacts DEF DeleteInit
<1>4. N \in Nat
  BY OrderAssumption
<1>5. CommandInv
  BY <1>3, <1>4 DEF CommandInv
<1>6. base = store /\ KindsKnown
  BY DEF DeleteInit, OrderInit, KindsKnown
<1>7. DeletedTo(0)
  BY <1>6 DEF DeletedTo
<1>8. Account
  BY <1>3, <1>4, <1>7 DEF Account
<1> QED
  BY <1>1, <1>2, <1>5, <1>6, <1>8 DEF DeleteInv, ClusterTypeOK

\* Where the command stands.
LEMMA CommandFacts ==
  ASSUME CommandInv
  PROVE  /\ N \in Nat
         /\ cmd.pc # "done" => cmd.i \in 1 .. N
         /\ cmd.pc = "failed" => built /\ scope[GvkOf[items[cmd.i]]] = "unknown"
<1>1. N \in Nat /\ cmd.i \in 1 .. N + 1
  BY OrderAssumption DEF CommandInv
<1>2. cmd.pc # "done" => cmd.i # N + 1
  BY DEF CommandInv
<1>3. cmd.pc = "failed" => built /\ scope[GvkOf[items[cmd.i]]] = "unknown"
  BY DEF CommandInv
<1> QED
  BY <1>1, <1>2, <1>3

LEMMA SortInv == DeleteInv /\ Sort => DeleteInv'
<1> SUFFICES ASSUME DeleteInv, Sort
             PROVE  DeleteInv'
  OBVIOUS
<1>1. /\ cmd.pc = "run" /\ OrderNext
      /\ built' # built => scope' = Known(ScopeIn(store))
      /\ UNCHANGED <<store, clock, envSteps, cmd, base, alone>>
  BY DEF Sort, Running, clusterVars
<1>2. /\ pc # "done" /\ UNCHANGED reverse
      /\ \/ UNCHANGED <<built, scope, lost>>
         \/ ~built /\ UNCHANGED built
         \/ ~built /\ built' /\ UNCHANGED lost
  BY <1>1, OrderFrame
<1>3. OrderInv'
  BY <1>1, OrderStepInv DEF DeleteInv
<1>4. ClusterTypeOK'
  BY <1>1 DEF DeleteInv, ClusterTypeOK
<1>5. CommandInv'
  BY <1>1, <1>2 DEF DeleteInv, CommandInv
<1>0. alone => DeletedTo(0) /\ cmd.i = 1 /\ N \in Nat
  BY <1>1, <1>2, OrderAssumption DEF DeleteInv, Account, CommandInv
<1>6. ASSUME alone
      PROVE  Account'
  <2>1. DeletedTo(0) /\ cmd.i = 1 /\ N \in Nat
    BY <1>0, <1>6
  <2>2. DeletedTo(0)'
    BY <2>1, <1>1 DEF DeletedTo, Reached, Going, Follows, Doomed
  <2> QED
    BY <2>1, <2>2, <1>1 DEF Account
<1>7. KindsKnown'
  <2>1. CASE UNCHANGED <<built, scope, lost>>
    BY <1>1, <2>1, KindsStay DEF DeleteInv
  <2>2. CASE ~built /\ UNCHANGED built
    BY <2>2 DEF KindsKnown
  <2>3. CASE ~built /\ built' /\ UNCHANGED lost
    BY <1>0, <1>1, <2>3, DelegateKnows
  <2> QED
    BY <1>2, <2>1, <2>2, <2>3
<1> QED
  BY <1>1, <1>2, <1>3, <1>4, <1>5, <1>6, <1>7 DEF DeleteInv

\* The loop has the mapper learn the kinds, if the order has not.
LEMMA FindKindsInv == DeleteInv /\ FindKinds => DeleteInv'
<1> SUFFICES ASSUME DeleteInv, FindKinds
             PROVE  DeleteInv'
  OBVIOUS
<1>1. /\ cmd.pc = "run" /\ pc = "done"
      /\ LoseKinds \/ BuildMapper(ScopeIn(store))
      /\ UNCHANGED <<store, clock, envSteps, cmd, base, alone>>
  BY DEF FindKinds, Running, clusterVars
<1>2. ~built /\ UNCHANGED <<pc, reverse, items>>
  BY <1>1 DEF LoseKinds, BuildMapper
<1>3. OrderInv'
  BY <1>1, LoseKindsInv, BuildMapperInv, ScopeKnown DEF DeleteInv
<1>4. ClusterTypeOK'
  BY <1>1 DEF DeleteInv, ClusterTypeOK
<1>5. CommandInv'
  BY <1>1, <1>2 DEF DeleteInv, CommandInv
<1>6. ASSUME alone
      PROVE  DeletedTo(0) /\ Account'
  <2>1. CommandInv /\ Account /\ N \in Nat
    BY <1>6, OrderAssumption DEF DeleteInv
  <2>2. cmd.i = 1
    BY <1>2, <2>1 DEF CommandInv
  <2>3. DeletedTo(0)
    BY <1>1, <2>1, <2>2 DEF Account
  <2>4. DeletedTo(0)'
    BY <2>3, <1>1 DEF DeletedTo, Reached, Going, Follows, Doomed
  <2> QED
    BY <2>1, <2>2, <2>3, <2>4, <1>1 DEF Account
<1>7. KindsKnown'
  <2>1. CASE LoseKinds
    BY <1>2, <2>1 DEF LoseKinds, KindsKnown
  <2>2. CASE BuildMapper(ScopeIn(store))
    BY <1>1, <1>6, <2>2, DelegateKnows DEF BuildMapper
  <2> QED
    BY <1>1, <2>1, <2>2
<1> QED
  BY <1>1, <1>2, <1>3, <1>4, <1>5, <1>6, <1>7 DEF DeleteInv

\* A turn of the loop fails, or takes its object from the server.
LEMMA DeleteStepInv == DeleteInv /\ Delete => DeleteInv'
<1> SUFFICES ASSUME DeleteInv, Delete
             PROVE  DeleteInv'
  OBVIOUS
<1>1. /\ cmd.pc = "run" /\ pc = "done" /\ built /\ UNCHANGED orderVars
      /\ UNCHANGED <<envSteps, pc, built, scope, lost, reverse, items, base, alone>>
      /\ Unmapped \/ Missing \/ Deleted
  BY DEF Delete, Running, orderVars
<1>2. /\ N \in Nat /\ cmd.i \in 1 .. N
      /\ cmd = [pc |-> cmd.pc, i |-> cmd.i, version |-> cmd.version, default |-> cmd.default,
                foreground |-> cmd.foreground]
  <2>1. CommandInv
    BY DEF DeleteInv
  <2> QED
    BY <1>1, <2>1, CommandFacts DEF CommandInv
<1>3. OrderInv' /\ OrderInv /\ ClusterTypeOK
  BY <1>1, OrderRests DEF DeleteInv
<1>4. KindsKnown'
  BY <1>1, KindsStay DEF DeleteInv
<1> DEFINE o == Target[Current]
<1>5. o \in Objects /\ o = Target[items[cmd.i]]
  BY <1>2, <1>3, ItemFacts DEF Current
<1>6. CASE Unmapped
  <2>1. /\ cmd' = [cmd EXCEPT !.pc = "failed"] /\ UNCHANGED <<store, clock>>
        /\ scope[GvkOf[items[cmd.i]]] = "unknown"
    BY <1>6 DEF Unmapped, Mapped, Current
  <2>2. cmd'.pc = "failed" /\ cmd'.i = cmd.i
    BY <2>1, <1>2
  <2>3. CommandInv'
    BY <1>1, <1>2, <2>1, <2>2 DEF CommandInv
  <2>4. ClusterTypeOK'
    BY <1>1, <1>3, <2>1 DEF ClusterTypeOK
  <2>5. ASSUME alone
        PROVE  Account'
    <3>1. DeletedTo(cmd.i - 1)
      BY <1>1, <2>5 DEF DeleteInv, Account
    <3>2. DeletedTo(cmd.i - 1)'
      BY <3>1, <1>1, <2>1, <2>2 DEF DeletedTo, Remains, Reached, Going, Follows, Doomed
    <3> QED
      BY <3>2, <1>1, <1>2, <2>2 DEF Account
  <2> QED
    BY <1>1, <1>3, <1>4, <2>3, <2>4, <2>5 DEF DeleteInv
<1>7. CASE Missing \/ Deleted
  <2>1. /\ Erodes(o) /\ clock' \in Nat
        /\ store'[o] = Absent \/ store'[o].terminating
    <3>1. CASE Missing
      BY <3>1, <1>3, <1>5, IdleErodes DEF Missing
    <3>2. CASE Deleted
      <4>1. CASE Write(o, Stamped([store[o] EXCEPT !.terminating = TRUE]))
        BY <4>1, <3>2, <1>3, <1>5, MarkedErodes DEF Deleted
      <4>2. CASE Removed(o)
        BY <4>2, <1>3, <1>5, RemovedErodes
      <4>3. CASE store[o].terminating /\ UNCHANGED <<store, clock>>
        BY <4>3, <1>3, <1>5, IdleErodes
      <4> QED
        BY <3>2, <4>1, <4>2, <4>3 DEF Deleted
    <3> QED
      BY <1>7, <3>1, <3>2
  <2>2. cmd' \in {Passed, [cmd EXCEPT !.pc = "killed"]}
    BY <1>7 DEF Missing, Deleted
  <2>3. /\ \/ cmd'.i = cmd.i + 1 /\ cmd'.pc = IF cmd.i = N THEN "done" ELSE "run"
           \/ cmd'.i = cmd.i /\ cmd'.pc = "killed"
        /\ cmd' = [pc |-> cmd'.pc, i |-> cmd'.i, version |-> cmd'.version,
                   default |-> cmd'.default, foreground |-> cmd'.foreground]
    BY <1>2, <2>2 DEF Passed
  <2>4. CommandInv'
    BY <1>1, <1>2, <2>3 DEF CommandInv
  <2>5. ClusterTypeOK'
    BY <1>1, <1>3, <2>1 DEF ClusterTypeOK, Erodes
  <2>6. ASSUME alone
        PROVE  Account'
    <3>1. PICK m \in 0 .. N - 1 : cmd.i = m + 1
      <4>1. cmd.i - 1 \in 0 .. N - 1 /\ cmd.i = (cmd.i - 1) + 1
        BY <1>2
      <4> QED
        BY <4>1
    <3>2. DeletedTo(m)
      BY <1>1, <2>6, <3>1 DEF DeleteInv, Account
    <3>3. ~Remains(items[m + 1])'
      BY <1>1, <1>5, <2>1, <3>1 DEF Remains
    <3>4. Erodes(Target[items[m + 1]])
      BY <1>5, <2>1, <3>1
    <3>5. DeletedTo(m + 1)'
      BY <3>2, <3>3, <3>4, <1>1, <1>3, DeleteAdds
    <3>6. PICK h \in 0 .. N : h = m + 1
      BY <1>2
    <3>7. DeletedTo(h)'
      BY <3>5, <3>6
    <3>8. h = cmd'.i - 1 \/ (cmd'.pc = "killed" /\ h = cmd'.i)
      BY <3>1, <3>6, <1>2, <2>3
    <3> QED
      BY <3>7, <3>8, <1>1 DEF Account
  <2> QED
    BY <1>1, <1>3, <1>4, <2>4, <2>5, <2>6 DEF DeleteInv
<1> QED
  BY <1>1, <1>6, <1>7

LEMMA AbortInv == DeleteInv /\ Abort => DeleteInv'
<1> SUFFICES ASSUME DeleteInv, Abort
             PROVE  DeleteInv'
  OBVIOUS
<1>1. /\ cmd.pc = "run" /\ cmd' = [cmd EXCEPT !.pc = "killed"]
      /\ pc' = (IF pc = "visit" THEN "classify" ELSE pc) /\ frames' = <<>>
      /\ UNCHANGED <<store, clock, envSteps, base, alone>>
      /\ UNCHANGED <<reverse, built, scope, lost, items, keys, next, podSpecCache, faults, tier>>
  BY DEF Abort, Running, clusterVars
<1>2. OrderInv'
  BY <1>1, OrderAborts DEF DeleteInv
<1>3. /\ N \in Nat /\ cmd.i \in 1 .. N
      /\ cmd = [pc |-> cmd.pc, i |-> cmd.i, version |-> cmd.version, default |-> cmd.default,
                foreground |-> cmd.foreground]
  <2>1. CommandInv
    BY DEF DeleteInv
  <2> QED
    BY <1>1, <2>1, CommandFacts DEF CommandInv
<1>4. /\ cmd'.pc = "killed" /\ cmd'.i = cmd.i
      /\ cmd' = [pc |-> cmd'.pc, i |-> cmd'.i, version |-> cmd'.version,
                 default |-> cmd'.default, foreground |-> cmd'.foreground]
  BY <1>1, <1>3
<1>5. CommandInv'
  BY <1>1, <1>3, <1>4 DEF DeleteInv, CommandInv
<1>6. ClusterTypeOK'
  BY <1>1 DEF DeleteInv, ClusterTypeOK
<1>7. ASSUME alone
      PROVE  Account'
  <2>1. PICK m \in 0 .. N : m = cmd.i - 1 /\ (m > 0 => pc = "done") /\ DeletedTo(m)
    BY <1>1, <1>7 DEF DeleteInv, Account
  <2>2. DeletedTo(m)'
    BY <2>1, <1>1 DEF DeletedTo, Remains, Reached, Going, Follows, Doomed
  <2> QED
    BY <2>1, <2>2, <1>1, <1>4 DEF Account
<1>8. KindsKnown'
  BY <1>1, KindsStay DEF DeleteInv
<1> QED
  BY <1>1, <1>2, <1>5, <1>6, <1>7, <1>8 DEF DeleteInv

LEMMA RestartInv == DeleteInv /\ Restart => DeleteInv'
<1> SUFFICES ASSUME DeleteInv, Restart
             PROVE  DeleteInv'
  OBVIOUS
<1>1. /\ cmd' \in Started /\ base' = store /\ alone' = TRUE
      /\ UNCHANGED <<store, clock, envSteps, reverse>>
      /\ built' = FALSE /\ scope' = [gvk \in Gvks |-> "unknown"] /\ lost' = {}
      /\ items' \in {f \in [Positions -> {items[i] : i \in Positions}] : Injective(f)}
      /\ pc' = "classify" /\ next' = 1 /\ frames' = <<>> /\ faults' = 0
      /\ podSpecCache' = [gvk \in Gvks |-> "unknown"]
      /\ keys' = [i \in Positions |-> 0] /\ tier' = [item \in Items |-> 0]
  BY DEF Restart, clusterVars
<1>2. items' \in [Positions -> Items] /\ Injective(items')
  BY <1>1, ItemFacts DEF DeleteInv
<1>3. OrderInit'
  BY <1>1, <1>2 DEF OrderInit, DeleteInv
<1>4. OrderInv'
  BY <1>3, OrderBegins
<1>5. ClusterTypeOK' /\ store' \in [Objects -> Live \cup {Absent}]
  BY <1>1 DEF DeleteInv, ClusterTypeOK
<1>6. CommandInv' /\ Account'
  BY <1>1, <1>4, <1>5, Beginning
<1>7. KindsKnown'
  BY <1>1 DEF KindsKnown
<1> QED
  BY <1>1, <1>4, <1>5, <1>6, <1>7 DEF DeleteInv

LEMMA VanishInv == DeleteInv /\ Vanish => DeleteInv'
<1> SUFFICES ASSUME DeleteInv, Vanish
             PROVE  DeleteInv'
  OBVIOUS
<1>1. UNCHANGED orderVars /\ UNCHANGED <<envSteps, cmd, base, alone>>
      /\ UNCHANGED <<pc, reverse, built, scope, lost, items>>
  BY DEF Vanish, orderVars
<1>2. PICK o \in Objects : store[o] # Absent /\ store[o].terminating /\ Removed(o)
  BY DEF Vanish
<1>3. Erodes(o) /\ clock' \in Nat
  BY <1>2, RemovedErodes DEF DeleteInv
<1>4. OrderInv' /\ OrderInv
  BY <1>1, OrderRests DEF DeleteInv
<1>5. ClusterTypeOK' /\ CommandInv'
  BY <1>1, <1>3 DEF DeleteInv, ClusterTypeOK, CommandInv, Erodes
<1>6. ASSUME alone
      PROVE  Account'
  <2>1. PICK m \in 0 .. N : /\ m = cmd.i - 1 \/ (cmd.pc = "killed" /\ m = cmd.i)
                            /\ m > 0 => pc = "done"
                            /\ DeletedTo(m)
    BY <1>6 DEF DeleteInv, Account
  <2>2. DeletedTo(m)'
    BY <2>1, <1>1, <1>2, <1>3, <1>4, VanishKeeps
  <2> QED
    BY <2>1, <2>2, <1>1 DEF Account
<1>7. KindsKnown'
  BY <1>1, KindsStay DEF DeleteInv
<1> QED
  BY <1>1, <1>4, <1>5, <1>6, <1>7 DEF DeleteInv

LEMMA DisturbInv == DeleteInv /\ Disturb => DeleteInv'
<1> SUFFICES ASSUME DeleteInv, Disturb
             PROVE  DeleteInv'
  OBVIOUS
<1>1. UNCHANGED orderVars /\ UNCHANGED <<cmd, base>> /\ alone' = FALSE
      /\ UNCHANGED <<pc, reverse, built, scope, lost, items>>
  BY DEF Disturb, orderVars
<1>2. OrderInv'
  BY <1>1, OrderRests DEF DeleteInv
<1>3. CommandInv'
  BY <1>1 DEF DeleteInv, CommandInv
<1>4. PICK o \in Objects :
        \/ Removed(o) /\ envSteps < MaxEnv /\ envSteps' = envSteps + 1
        \/ OthersCreate(o)
  BY DEF Disturb
<1>5. envSteps < MaxEnv /\ envSteps' = envSteps + 1
  BY <1>4 DEF OthersCreate, OthersWrite
<1>6. store' \in [Objects -> Live \cup {Absent}] /\ clock' \in Nat
  <2>1. CASE Removed(o)
    BY <2>1, RemovedErodes DEF DeleteInv, Erodes
  <2>2. CASE OthersCreate(o)
    <3>1. PICK s \in Seeds :
            Write(o, [Created(s.fields, clock + 1) EXCEPT
                        !.orig = NoOrig, !.controlled = s.controlled])
      BY <2>2 DEF OthersCreate, OthersWrite
    <3>2. s.fields \in Manifest /\ s.controlled \in BOOLEAN /\ clock + 1 \in Nat
      BY OthersAssumption DEF DeleteInv, ClusterTypeOK
    <3>3. Created(s.fields, clock + 1) \in Live
      BY <3>2 DEF Created, Live
    <3> DEFINE live == [Created(s.fields, clock + 1) EXCEPT
                          !.orig = NoOrig, !.controlled = s.controlled]
    <3>4. live \in Live
      BY <3>2, <3>3 DEF Live
    <3> HIDE DEF live
    <3>5. store' = [store EXCEPT ![o] = live] /\ clock' = clock + 1
      BY <3>1 DEF Write, live
    <3> QED
      BY <3>4, <3>5 DEF DeleteInv, ClusterTypeOK
  <2> QED
    BY <1>4, <2>1, <2>2
<1>7. ClusterTypeOK'
  BY <1>5, <1>6, StoresAssumption DEF DeleteInv, ClusterTypeOK
<1>8. KindsKnown'
  BY <1>1, KindsStay DEF DeleteInv
<1> QED
  BY <1>1, <1>2, <1>3, <1>7, <1>8 DEF DeleteInv

\* The invariant holds throughout.
THEOREM DeleteInvariance == DeleteSpec => []DeleteInv
<1>1. DeleteInv /\ [DeleteNext]_deleteVars => DeleteInv'
  <2> SUFFICES ASSUME DeleteInv, [DeleteNext]_deleteVars
               PROVE  DeleteInv'
    OBVIOUS
  <2>1. CASE UNCHANGED deleteVars
    <3>1. UNCHANGED orderVars /\ UNCHANGED <<store, clock, envSteps, cmd, base, alone>>
          /\ UNCHANGED <<pc, reverse, built, scope, lost, items>>
      BY <2>1 DEF deleteVars, orderVars, clusterVars
    <3>2. OrderInv'
      BY <3>1, OrderRests DEF DeleteInv
    <3>3. ClusterTypeOK' /\ CommandInv'
      BY <3>1 DEF DeleteInv, ClusterTypeOK, CommandInv
    <3>4. Account' = Account
      BY <3>1 DEF Account, DeletedTo, Remains, Reached, Going, Follows, Doomed
    <3>5. KindsKnown'
      BY <3>1, KindsStay DEF DeleteInv
    <3> QED
      BY <3>1, <3>2, <3>3, <3>4, <3>5 DEF DeleteInv
  <2> QED
    BY <2>1, SortInv, FindKindsInv, DeleteStepInv, AbortInv, RestartInv, VanishInv, DisturbInv DEF DeleteNext
<1> QED
  BY <1>1, DeleteInitInv, PTL DEF DeleteSpec

----------------------------------------------------------------------------
\* What the invariant means.

\* DeletesExactly: undisturbed, a run that ends well has deleted all that its
\* configuration names, and wherever a run stops it has deleted nothing else.
THEOREM DeletedExactly == DeleteSpec => []DeletesExactly
<1>1. ASSUME DeleteInv
      PROVE  DeletesExactly
  <2> SUFFICES ASSUME alone
               PROVE  /\ cmd.pc = "done" => \A i \in Config : ~Remains(i)
                      /\ \A o \in Objects \ {Target[i] : i \in Config} :
                           \/ store[o] = base[o] \/ Going(o)
                           \/ \E i \in Items :
                                /\ Target[i] = o
                                /\ \/ Doomed(i)
                                   \/ DefinedBy[GvkOf[i]] \in {Target[j] : j \in Config}
    BY DEF DeletesExactly
  <2>1. PICK m \in 0 .. N : /\ m = cmd.i - 1 \/ (cmd.pc = "killed" /\ m = cmd.i)
                            /\ DeletedTo(m)
    BY <1>1 DEF DeleteInv, Account
  <2>2. N \in Nat /\ Config = {items[k] : k \in 1 .. N}
    BY <1>1, ItemFacts DEF DeleteInv
  <2>3. Reached(m) \subseteq {Target[i] : i \in Config}
    BY <2>1, <2>2 DEF Reached
  <2>4. ASSUME cmd.pc = "done", NEW i \in Config
        PROVE  ~Remains(i)
    <3>1. m = N
      BY <1>1, <2>1, <2>2, <2>4 DEF DeleteInv, CommandInv
    <3> QED
      BY <3>1, <2>1, <2>2, <2>4 DEF DeletedTo
  <2>5. ASSUME NEW o \in Objects \ {Target[i] : i \in Config}
        PROVE  \/ store[o] = base[o] \/ Going(o)
               \/ \E i \in Items :
                    /\ Target[i] = o
                    /\ Doomed(i) \/ DefinedBy[GvkOf[i]] \in {Target[j] : j \in Config}
    BY <2>1, <2>3 DEF DeletedTo, Follows
  <2> QED
    BY <2>4, <2>5
<1> QED
  BY <1>1, DeleteInvariance, PTL

\* FailsOnlyUnmapped: a run fails by itself only for a kind whose list was lost when
\* the mapper got its delegate, or that the server did not know then.
THEOREM FailedUnmapped == DeleteSpec => []FailsOnlyUnmapped
<1>1. ASSUME DeleteInv
      PROVE  FailsOnlyUnmapped
  <2> SUFFICES ASSUME cmd.pc = "failed"
               PROVE  \E i \in Config :
                        LET gvk == GvkOf[i]
                            crd == DefinedBy[gvk]
                        IN \/ gvk \in lost \/ KindScope[gvk] = "unknown"
                           \/ crd # None /\ (base[crd] = Absent \/ Going(crd) \/ ~alone)
    BY DEF FailsOnlyUnmapped
  <2>1. cmd.i \in 1 .. N /\ built /\ scope[GvkOf[items[cmd.i]]] = "unknown" /\ KindsKnown
    <3>1. CommandInv /\ KindsKnown
      BY <1>1 DEF DeleteInv
    <3> QED
      BY <3>1, CommandFacts
  <2>2. items[cmd.i] \in Config /\ GvkOf[items[cmd.i]] \in Gvks
    BY <1>1, <2>1, ItemFacts DEF DeleteInv
  <2> QED
    BY <2>1, <2>2 DEF KindsKnown
<1> QED
  BY <1>1, DeleteInvariance, PTL

\* LeavesDependencies: wherever an undisturbed run stops, what comes before an
\* object that is left is as it was.
THEOREM DependenciesLeft == DeleteSpec => []LeavesDependencies
<1>1. ASSUME DeleteInv
      PROVE  LeavesDependencies
  <2> SUFFICES ASSUME alone, Distinct, NEW i \in Config, NEW j \in Config,
                      Place(i) < Place(j), Remains(j), ~Doomed(i),
                      faults = 0 \/ Place(i) = 1 \/ Place(j) = 5
               PROVE  Remains(i) = Remained(i)
    BY DEF LeavesDependencies
  <2>1. PICK m \in 0 .. N : (m > 0 => pc = "done") /\ DeletedTo(m)
    BY <1>1 DEF DeleteInv, Account
  <2>2. /\ N \in Nat /\ Positions = 1 .. N
        /\ \A k \in 1 .. N : items[k] \in Items /\ Target[items[k]] \in Objects
        /\ Config = {items[k] : k \in 1 .. N}
    BY <1>1, ItemFacts DEF DeleteInv
  <2>3. PICK x \in 1 .. N : i = items[x]
    BY <2>2
  <2>4. PICK y \in 1 .. N : j = items[y]
    BY <2>2
  <2>5. m < y
    BY <2>1, <2>2, <2>4 DEF DeletedTo
  <2>6. \A k \in 1 .. N : Place(items[k]) \in 1 .. 5
    BY <2>2, PlaceOfTier
  <2>7. DependenciesFirst /\ reverse = TRUE
    BY <1>1, OrderInvOrders DEF DeleteInv
  <2>8. Target[i] \notin Reached(m)
    <3> SUFFICES ASSUME NEW k \in 1 .. m, Target[items[k]] = Target[i]
                 PROVE  FALSE
      BY DEF Reached
    <3>1. k \in 1 .. N /\ k < y /\ pc = "done"
      BY <2>1, <2>2, <2>5
    <3>2. items[k] = i
      BY <3>1, <2>2 DEF Distinct
    <3> QED
      BY <3>1, <3>2, <2>2, <2>4, <2>6, <2>7 DEF DependenciesFirst
  <2>9. ASSUME DefinedBy[GvkOf[i]] \in Reached(m)
        PROVE  FALSE
    <3>1. PICK k \in 1 .. m : DefinedBy[GvkOf[i]] = Target[items[k]]
      BY <2>9 DEF Reached
    <3>2. k \in 1 .. N /\ k < y /\ pc = "done"
      BY <2>1, <2>2, <2>5
    <3>3. i \in Items /\ items[k] \in Items /\ Target[items[k]] \in Objects
      BY <3>2, <2>2, <2>3
    <3>4. Place(items[k]) = 1
      BY <3>1, <3>3, CrdFacts, PlaceOfTier
    <3> QED
      BY <3>2, <3>4, <2>2, <2>3, <2>4, <2>6, <2>7 DEF DependenciesFirst
  <2>10. i \in Items /\ Target[i] \in Objects
    BY <2>2, <2>3
  <2>11. ~Follows(Target[i], Reached(m))
    <3> SUFFICES ASSUME NEW h \in Items, Target[h] = Target[i],
                        Doomed(h) \/ DefinedBy[GvkOf[h]] \in Reached(m)
                 PROVE  FALSE
      BY DEF Follows
    <3>1. DefinedBy[GvkOf[h]] = DefinedBy[GvkOf[i]]
      BY <2>10, DeleteAssumption
    <3> QED
      BY <3>1, <2>9 DEF Doomed
  <2>12. \/ store[Target[i]] = base[Target[i]]
         \/ Going(Target[i]) /\ ~(store[Target[i]] # Absent /\ ~store[Target[i]].terminating)
    BY <2>1, <2>8, <2>10, <2>11 DEF DeletedTo, Going
  <2> QED
    BY <2>12 DEF Remains, Remained, Going
<1> QED
  BY <1>1, DeleteInvariance, PTL

----------------------------------------------------------------------------
\* Versions.

\* The recursive function that Numeral is defined with.
PlaceValues(v, s, n) == v = [k \in 0 .. n |-> IF k = 0 THEN 0 ELSE 10 * v[k - 1] + s[k]]

\* It exists: a least length without one would have a predecessor with one.
LEMMA PlaceValuesExist ==
  ASSUME NEW s
  PROVE  \A n \in Nat : \E v : PlaceValues(v, s, n)
<1> DEFINE T == {n \in Nat : ~ \E v : PlaceValues(v, s, n)}
<1> SUFFICES ASSUME T # {}
             PROVE  FALSE
  OBVIOUS
<1>1. PICK x \in T : \A y \in T : x <= y
  BY Least
<1>2. CASE x = 0
  <2> DEFINE v == [k \in 0 .. 0 |-> 0]
  <2>1. v = [k \in 0 .. 0 |-> IF k = 0 THEN 0 ELSE 10 * v[k - 1] + s[k]]
    OBVIOUS
  <2>2. PlaceValues(v, s, x)
    BY <2>1, <1>2 DEF PlaceValues
  <2> QED
    BY <2>2
<1>3. CASE x # 0
  <2>1. x \in Nat /\ x - 1 \in Nat /\ x - 1 \notin T
    BY <1>1, <1>3
  <2>2. PICK v : PlaceValues(v, s, x - 1)
    BY <2>1
  <2> DEFINE w == [k \in 0 .. x |-> IF k = 0 THEN 0 ELSE 10 * v[k - 1] + s[k]]
  <2>3. ASSUME NEW k \in 0 .. x - 1
        PROVE  w[k] = v[k]
    <3>1. v[k] = IF k = 0 THEN 0 ELSE 10 * v[k - 1] + s[k]
      BY <2>2 DEF PlaceValues
    <3> QED
      BY <3>1, <2>1
  <2>4. ASSUME NEW k \in 0 .. x, k # 0
        PROVE  w[k - 1] = v[k - 1]
    <3>1. k - 1 \in 0 .. x - 1
      BY <2>1, <2>4
    <3> HIDE DEF w
    <3> QED
      BY <3>1, <2>3
  <2>5. w = [k \in 0 .. x |-> IF k = 0 THEN 0 ELSE 10 * w[k - 1] + s[k]]
    BY <2>4
  <2>6. PlaceValues(w, s, x)
    BY <2>5 DEF PlaceValues
  <2> QED
    BY <2>6
<1> QED
  BY <1>2, <1>3

\* Digits name a natural number, and the last of them is its remainder by ten.
LEMMA NumeralFacts ==
  ASSUME NEW s \in Seq(Digits)
  PROVE  Numeral(s) \in Nat /\ (s # <<>> => Last(s) = Numeral(s) % 10)
<1> DEFINE v == CHOOSE w : PlaceValues(w, s, Len(s))
           T == {k \in 0 .. Len(s) : v[k] \notin Nat}
<1>1. Numeral(s) = v[Len(s)]
  BY DEF Numeral, PlaceValues
<1>2. Len(s) \in Nat /\ \A k \in 1 .. Len(s) : s[k] \in 0 .. 9
  BY DEF Digits
<1>3. PlaceValues(v, s, Len(s))
  <2>1. PICK n \in Nat : n = Len(s)
    BY <1>2
  <2>2. \E w : PlaceValues(w, s, Len(s))
    BY <2>1, PlaceValuesExist
  <2> QED
    BY <2>2
<1> HIDE DEF v
<1>4. \A k \in 0 .. Len(s) : v[k] = IF k = 0 THEN 0 ELSE 10 * v[k - 1] + s[k]
  BY <1>3 DEF PlaceValues
<1>5. T = {}
  <2> SUFFICES ASSUME T # {}
               PROVE  FALSE
    OBVIOUS
  <2>1. T \in SUBSET Nat
    BY <1>2
  <2>2. PICK k \in T : \A y \in T : k <= y
    BY <2>1, Least
  <2>3. k \in 0 .. Len(s) /\ k # 0
    BY <1>4, <2>2
  <2>4. k - 1 \in 0 .. Len(s) /\ k - 1 \notin T /\ k \in 1 .. Len(s)
    BY <1>2, <2>2, <2>3
  <2>5. v[k - 1] \in Nat /\ v[k] = 10 * v[k - 1] + s[k] /\ s[k] \in Nat
    BY <1>2, <1>4, <2>3, <2>4
  <2> QED
    BY <2>2, <2>5
<1>6. ASSUME s # <<>>
      PROVE  Last(s) = Numeral(s) % 10
  <2>1. Len(s) \in 1 .. Len(s) /\ Len(s) - 1 \in 0 .. Len(s) /\ Len(s) # 0 /\ Len(s) \in 0 .. Len(s)
    BY <1>2, <1>6
  <2>2. /\ v[Len(s) - 1] \in Nat /\ s[Len(s)] \in 0 .. 9
        /\ v[Len(s)] = 10 * v[Len(s) - 1] + s[Len(s)]
    BY <1>2, <1>4, <1>5, <2>1
  <2>3. \A a \in Nat, d \in 0 .. 9 : (10 * a + d) % 10 = d
    OBVIOUS
  <2> QED
    BY <1>1, <2>2, <2>3 DEF Last
<1>7. v[Len(s)] \in Nat
  BY <1>2, <1>5
<1> QED
  BY <1>1, <1>6, <1>7

LEMMA AtoiType ==
  ASSUME NEW s \in Text
  PROVE  Atoi(s) \in Nat \cup {-1}
<1> DEFINE t == IF s # <<>> /\ Head(s) = Plus THEN Tail(s) ELSE s
<1>1. t \in Seq(Digits \cup {Plus, Letter})
  BY DEF Text
<1> HIDE DEF t
<1>2. ASSUME ToSet(t) \subseteq Digits
      PROVE  Numeral(t) \in Nat
  <2>1. \A k \in 1 .. Len(t) : t[k] \in Digits
    BY <1>1, <1>2 DEF ToSet
  <2>2. t \in Seq(Digits)
    BY <1>1, <2>1
  <2> QED
    BY <2>2, NumeralFacts
<1> QED
  BY <1>2 DEF Atoi, t

LEMMA TrimmedText ==
  ASSUME NEW s \in Text
  PROVE  TrimPlus(s) \in Text
<1>1. ASSUME s # <<>>
      PROVE  Front(s) \in Text
  <2>1. Len(s) - 1 \in Nat /\ \A k \in 1 .. Len(s) - 1 : s[k] \in Digits \cup {Plus, Letter}
    BY <1>1 DEF Text
  <2>2. Front(s) = [k \in 1 .. Len(s) - 1 |-> s[k]]
    BY <2>1 DEF Front
  <2> QED
    BY <2>1, <2>2 DEF Text
<1> QED
  BY <1>1 DEF TrimPlus

\* What is made of a server's version: its own numbers, or what the expression
\* keeps of those in the git version, or nothing.
LEMMA ParsedVersion ==
  ASSUME NEW i \in Infos
  PROVE  LET v == ParseVersion(i)
             Read(n) == IF GitOnly(i) THEN n % 10 ELSE n
         IN /\ v \in [major: Int, minor: Int]
            /\ v # Unparsed => v = [major |-> Read(i.truth.major), minor |-> Read(i.truth.minor)]
<1>1. /\ i.major \in Text /\ i.minor \in Text /\ i.truth \in [major: Nat, minor: Nat]
      /\ Atoi(i.major) \in {-1, i.truth.major}
      /\ Atoi(TrimPlus(i.minor)) \in {-1, i.truth.minor}
      /\ i.git.matches =>
           /\ i.git.major \in Seq(Digits) \ {<<>>} /\ Numeral(i.git.major) = i.truth.major
           /\ i.git.minor \in Seq(Digits) \ {<<>>} /\ Numeral(i.git.minor) = i.truth.minor
  BY InfosAssumption
<1>2. CASE GitOnly(i)
  <2>1. ParseVersion(i) = parseGitVersion(i.git)
    BY <1>2 DEF ParseVersion, GitOnly
  <2>2. CASE i.git.matches
    <3>1. /\ Last(i.git.major) = i.truth.major % 10 /\ Last(i.git.major) \in Int
          /\ Last(i.git.minor) = i.truth.minor % 10 /\ Last(i.git.minor) \in Int
      BY <1>1, <2>2, NumeralFacts
    <3> QED
      BY <1>2, <2>1, <2>2, <3>1 DEF parseGitVersion
  <2>3. CASE ~i.git.matches
    BY <2>1, <2>3 DEF parseGitVersion, Unparsed
  <2> QED
    BY <2>2, <2>3
<1>3. CASE ~GitOnly(i)
  BY <1>1, <1>3 DEF ParseVersion, GitOnly
<1> QED
  BY <1>2, <1>3

\* What Compare decides.
LEMMA FromOneSix ==
  ASSUME NEW v \in [major: Int, minor: Int]
  PROVE  Compare(v, 1, 6) >= 0 <=> v.major > 1 \/ (v.major = 1 /\ v.minor >= 6)
BY DEF Compare

\* The options of a run, whichever way it got its version.
OptionsInv ==
  /\ info \in Infos /\ starts \in 1 .. MaxStarts /\ alone \in BOOLEAN
  /\ cmd.version \in [major: Int, minor: Int] /\ cmd.default \in BOOLEAN
  /\ cmd.foreground = (Compare(cmd.version, 1, 6) >= 0)
  /\ ~cmd.default => cmd.version = ParseVersion(info) /\ cmd.version # Unparsed

LEMMA StartedOptions ==
  ASSUME info \in Infos, NEW c \in Started
  PROVE  /\ c.version \in [major: Int, minor: Int] /\ c.default \in BOOLEAN
         /\ c.foreground = (Compare(c.version, 1, 6) >= 0)
         /\ ~c.default => c.version = ParseVersion(info) /\ c.version # Unparsed
<1>1. PICK version \in {ParseVersion(info), Unparsed} :
        LET v == IF version = Unparsed THEN GetDefaultVersion ELSE version
        IN c = [pc |-> IF N = 0 THEN "done" ELSE "run", i |-> 1, version |-> v,
                default |-> version = Unparsed, foreground |-> Compare(v, 1, 6) >= 0]
  BY DEF Started
<1>2. ParseVersion(info) \in [major: Int, minor: Int] /\ GetDefaultVersion \in [major: Int, minor: Int]
  BY ParsedVersion DEF GetDefaultVersion
<1> QED
  BY <1>1, <1>2

\* A step of a run leaves its options alone.
LEMMA OptionsStay ==
  ASSUME DeleteInv, DeleteNext, ~Restart
  PROVE  /\ UNCHANGED <<info, starts>> /\ alone' \in {alone, FALSE}
         /\ cmd'.version = cmd.version /\ cmd'.default = cmd.default
         /\ cmd'.foreground = cmd.foreground
<1>1. cmd = [pc |-> cmd.pc, i |-> cmd.i, version |-> cmd.version, default |-> cmd.default,
             foreground |-> cmd.foreground]
  BY DEF DeleteInv, CommandInv
<1>2. cmd' = cmd \/ cmd' = Passed \/ \E p : cmd' = [cmd EXCEPT !.pc = p]
  BY DEF DeleteNext, Sort, FindKinds, Delete, Unmapped, Missing, Deleted, Abort, Vanish, Disturb
<1>3. UNCHANGED <<info, starts>> /\ alone' \in {alone, FALSE}
  BY DEF DeleteNext, Sort, FindKinds, Delete, Abort, Vanish, Disturb
<1>4. /\ cmd'.version = cmd.version /\ cmd'.default = cmd.default
      /\ cmd'.foreground = cmd.foreground
  BY <1>1, <1>2 DEF Passed
<1> QED
  BY <1>3, <1>4

LEMMA OptionsNext ==
  ASSUME DeleteInv, OptionsInv, [DeleteNext]_deleteVars
  PROVE  OptionsInv'
<1>1. CASE UNCHANGED deleteVars
  BY <1>1 DEF deleteVars, OptionsInv
<1>2. CASE Restart
  <2>1. /\ info' \in Infos /\ cmd' \in Started /\ info' = info
        /\ starts < MaxStarts /\ starts' = starts + 1 /\ alone' = TRUE
    BY <1>2 DEF Restart, OptionsInv
  <2>2. starts' \in 1 .. MaxStarts
    BY <2>1, DeleteAssumption DEF OptionsInv
  <2> QED
    BY <2>1, <2>2, StartedOptions DEF OptionsInv
<1>3. CASE DeleteNext /\ ~Restart
  BY <1>3, OptionsStay DEF OptionsInv
<1> QED
  BY <1>1, <1>2, <1>3

\* The version a run goes by is that of its server, or the default.
THEOREM OptionsInvariance == DeleteSpec => []OptionsInv
<1>1. DeleteInit => OptionsInv
  <2> SUFFICES ASSUME DeleteInit
               PROVE  OptionsInv
    OBVIOUS
  <2>1. info \in Infos /\ cmd \in Started /\ starts = 1 /\ alone = TRUE
    BY DEF DeleteInit
  <2> QED
    BY <2>1, StartedOptions, DeleteAssumption DEF OptionsInv
<1>2. DeleteInv /\ OptionsInv /\ [DeleteNext]_deleteVars => OptionsInv'
  BY OptionsNext
<1> QED
  BY <1>1, <1>2, DeleteInvariance, PTL DEF DeleteSpec

\* DeleteTypeOK: nothing is deleted before the order is known, and a command that
\* is through has been through all of it.
THEOREM DeleteTypeCorrect == DeleteSpec => []DeleteTypeOK
<1>1. ASSUME DeleteInv, OptionsInv
      PROVE  DeleteTypeOK
  <2>1. ClusterTypeOK /\ OrderTypeOK /\ CommandInv
    BY <1>1 DEF DeleteInv, OrderInv
  <2>2. cmd.foreground \in BOOLEAN
    BY <1>1 DEF OptionsInv
  <2>3. cmd \in Command
    BY <1>1, <2>1, <2>2 DEF CommandInv, OptionsInv, Command
  <2> QED
    BY <1>1, <2>1, <2>3 DEF CommandInv, OptionsInv, DeleteTypeOK
<1> QED
  BY <1>1, DeleteInvariance, OptionsInvariance, PTL

\* OptionsFit: a server from 1.6 on is sent the propagation policy, an older one
\* the option that it knows, by what is read of its version.
THEOREM OptionsFitServer == DeleteSpec => []OptionsFit
<1>1. ASSUME OptionsInv
      PROVE  OptionsFit
  <2> SUFFICES ASSUME ~cmd.default
               PROVE  OptionsFit
    BY DEF OptionsFit
  <2> DEFINE Read(n) == IF GitOnly(info) THEN n % 10 ELSE n
  <2>1. /\ cmd.version \in [major: Int, minor: Int]
        /\ cmd.version = [major |-> Read(info.truth.major), minor |-> Read(info.truth.minor)]
    BY <1>1, ParsedVersion DEF OptionsInv
  <2>2. cmd.foreground <=>
          cmd.version.major > 1 \/ (cmd.version.major = 1 /\ cmd.version.minor >= 6)
    BY <1>1, <2>1, FromOneSix DEF OptionsInv
  <2> QED
    BY <2>1, <2>2 DEF OptionsFit
<1> QED
  BY <1>1, OptionsInvariance, PTL
=============================================================================
