-------------------------- MODULE DependencyOrder --------------------------
(***************************************************************************)
(* DependencyOrder: gives each object a tier, for which it may walk over   *)
(* the schema of the object's kind in search of a PodSpec, and sorts the   *)
(* objects by tier.  sort.Sort swaps and compares as it pleases.  The REST *)
(* mapper is that of the command: it learns the kinds when it is first     *)
(* asked, and knows for good what it learnt, and no more.                  *)
(***************************************************************************)
EXTENDS Naturals, Sequences

CONSTANTS
  N,         \* how many objects there are
  Items, Gvks, GvkOf,
  Alpha,     \* namespace, name and kind of an object, as ranks
  CrdKinds, HookKinds,
  Scopes,    \* what the server may say of the kinds
  Losses,    \* the kinds that go with one request for them
  Nodes,     \* of the schemas
  Below,     \* the nodes below a node: fields, or what it refers to
  PodSpecs,
  Root,      \* the schema of a kind, or NoSchema
  NoSchema,
  MaxFaults  \* bound: how many requests fail

ASSUME OrderAssumption ==
  /\ N \in Nat /\ MaxFaults \in Nat
  /\ GvkOf \in [Items -> Gvks] /\ Alpha \in [Items -> Nat \X Nat \X Nat]
  /\ CrdKinds \subseteq Gvks /\ HookKinds \subseteq Gvks /\ CrdKinds \cap HookKinds = {}
  /\ Scopes \subseteq [Gvks -> {"root", "namespaced", "unknown"}]
  /\ Losses \subseteq SUBSET Gvks
  /\ Below \in [Nodes -> SUBSET Nodes] /\ PodSpecs \subseteq Nodes
  /\ NoSchema \notin Nodes /\ Root \in [Gvks -> Nodes \cup {NoSchema}]

VARIABLES
  pc,
  reverse,       \* sort.Reverse, for the delete command
  built,         \* whether the REST mapper has its delegate
  scope,         \* what that says of each kind; without it none is known
  lost,          \* the kinds whose lists it could not get
  items, keys,   \* the list and mappedSort's keys
  next,          \* the object to classify
  podSpecCache,
  frames,        \* the visitor's stack: what each VisitKind has yet to visit
  faults,        \* how many requests have failed
  tier           \* history: the tier that an object was given

mapperVars == <<built, scope, lost>>
orderVars == <<pc, reverse, mapperVars, items, keys, next, podSpecCache, frames, faults, tier>>

Tiers == {0, 10, 20, 50, 100, 200}
Positions == 1 .. N

\* The visitor has a stack exactly while it visits.
OrderTypeOK ==
  /\ pc \in {"classify", "visit", "sorting", "done"}
  /\ reverse \in BOOLEAN /\ built \in BOOLEAN /\ lost \in SUBSET Gvks
  /\ scope \in [Gvks -> {"root", "namespaced", "unknown"}]
  /\ items \in [Positions -> Items] /\ keys \in [Positions -> Tiers]
  /\ next \in 1 .. N + 1
  /\ podSpecCache \in [Gvks -> {"unknown", "yes", "no"}]
  /\ frames \in Seq(SUBSET Nodes)
  /\ faults \in 0 .. MaxFaults
  /\ tier \in [Items -> Tiers]
  /\ pc = "visit" <=> frames # <<>>

Injective(f) == \A i, j \in Positions : f[i] = f[j] => i = j

OrderInit ==
  /\ pc = "classify" /\ reverse \in BOOLEAN
  /\ built = FALSE /\ scope = [gvk \in Gvks |-> "unknown"] /\ lost = {}
  /\ items \in {f \in [Positions -> Items] : Injective(f)}
  /\ keys = [i \in Positions |-> 0] /\ next = 1
  /\ podSpecCache = [gvk \in Gvks |-> "unknown"]
  /\ frames = <<>> /\ faults = 0
  /\ tier = [item \in Items |-> 0]

----------------------------------------------------------------------------
\* The REST mapper's delegate, which the first mapping makes.

\* A list that cannot be had is left out, with the kinds in it.
LoseKinds ==
  /\ ~built /\ faults < MaxFaults /\ faults' = faults + 1
  /\ \E kinds \in Losses : lost' = lost \cup kinds
  /\ UNCHANGED <<pc, reverse, built, scope, items, keys, next, podSpecCache, frames, tier>>

\* What is left is the delegate's for as long as the command runs: the cache of
\* discovery stays fresh, so no mapping asks the server again.
Known(s) == [gvk \in Gvks |-> IF gvk \in lost THEN "unknown" ELSE s[gvk]]

BuildMapper(s) ==
  /\ ~built /\ built' = TRUE
  /\ scope' = Known(s)
  /\ UNCHANGED <<pc, reverse, lost, items, keys, next, podSpecCache, frames, faults, tier>>

----------------------------------------------------------------------------
\* depTier.

Gvk == GvkOf[items[next]]

\* A request may be answered or, for want of a connection, fail.
Try(ok, failed) ==
  \/ ok /\ UNCHANGED faults
  \/ failed /\ faults < MaxFaults /\ faults' = faults + 1

GiveTier(t) ==
  /\ keys' = [keys EXCEPT ![next] = t]
  /\ tier' = [tier EXCEPT ![items[next]] = t]
  /\ next' = next + 1
  /\ pc' = "classify"

ClassifySpecial ==
  /\ pc = "classify" /\ next <= N
  /\ \/ Gvk \in CrdKinds /\ GiveTier(10)
     \/ Gvk \in HookKinds /\ GiveTier(200)
  /\ UNCHANGED <<reverse, mapperVars, items, podSpecCache, frames, faults>>

ByPodSpec(contained) == GiveTier(IF contained THEN 100 ELSE 50)

\* containsPodSpec: from the cache, or by a visit to the schema.  Without a
\* schema the answer is no, and it is not kept.
AskForPodSpec ==
  \/ /\ podSpecCache[Gvk] # "unknown"
     /\ ByPodSpec(podSpecCache[Gvk] = "yes")
     /\ UNCHANGED <<faults, frames>>
  \/ /\ podSpecCache[Gvk] = "unknown"
     /\ \/ /\ Try(Root[Gvk] = NoSchema, TRUE)
           /\ ByPodSpec(FALSE)
           /\ UNCHANGED frames
        \/ /\ Root[Gvk] # NoSchema
           /\ pc' = "visit" /\ frames' = <<{Root[Gvk]}>>
           /\ UNCHANGED <<keys, tier, next, faults>>

Mappable == pc = "classify" /\ next <= N /\ Gvk \notin CrdKinds \cup HookKinds

MapKind == Mappable /\ (LoseKinds \/ \E s \in Scopes : BuildMapper(s))

\* As long as the groups cannot be had there is no delegate, and the next mapping
\* tries again.
Classify ==
  /\ Mappable
  /\ \/ /\ ~built /\ lost = {}
        /\ Try(FALSE, TRUE)
        /\ GiveTier(50)
        /\ UNCHANGED frames
     \/ /\ built
        /\ \/ scope[Gvk] = "unknown" /\ GiveTier(50) /\ UNCHANGED <<faults, frames>>
           \/ scope[Gvk] = "root" /\ GiveTier(20) /\ UNCHANGED <<faults, frames>>
           \/ scope[Gvk] = "namespaced" /\ AskForPodSpec
  /\ UNCHANGED <<reverse, mapperVars, items, podSpecCache>>

Keep(contained) ==
  /\ podSpecCache' = [podSpecCache EXCEPT ![Gvk] = IF contained THEN "yes" ELSE "no"]
  /\ ByPodSpec(contained)
  /\ frames' = <<>>

Top == Head(frames)

\* Mutant: stops at the first field.
VisitFirstField ==
  /\ pc = "visit"
  /\ \E node \in Top :
       \/ node \in PodSpecs /\ Keep(TRUE)
       \/ /\ node \notin PodSpecs
          /\ IF Below[node] = {} THEN Keep(FALSE)
             ELSE /\ frames' = <<Below[node]>>
                  /\ UNCHANGED <<pc, keys, tier, next, podSpecCache>>
  /\ UNCHANGED <<reverse, mapperVars, items, faults>>

\* Mutant: does not move on to the next field.
VisitAgain ==
  /\ pc = "visit" /\ frames # <<>> /\ Top # {}
  /\ \E node \in Top :
       \/ node \in PodSpecs /\ Keep(TRUE)
       \/ /\ node \notin PodSpecs
          /\ frames' = <<Below[node]>> \o frames
          /\ UNCHANGED <<pc, keys, tier, next, podSpecCache>>
  /\ UNCHANGED <<reverse, mapperVars, items, faults>>

\* VisitKind visits the fields in the order of a map, up to the first one
\* that leads to a PodSpec.  What a reference, an array or a map has below it
\* is visited in the same way.
Visit ==
  /\ pc = "visit" /\ frames # <<>> /\ Top # {}
  /\ \E node \in Top :
       \/ node \in PodSpecs /\ Keep(TRUE)
       \/ /\ node \notin PodSpecs
          /\ frames' = <<Below[node], Top \ {node}>> \o Tail(frames)
          /\ UNCHANGED <<pc, keys, tier, next, podSpecCache>>
  /\ UNCHANGED <<reverse, mapperVars, items, faults>>

Leave ==
  /\ pc = "visit" /\ frames # <<>> /\ Top = {}
  /\ IF Tail(frames) # <<>>
     THEN frames' = Tail(frames) /\ UNCHANGED <<pc, keys, tier, next, podSpecCache>>
     ELSE Keep(FALSE)
  /\ UNCHANGED <<reverse, mapperVars, items, faults>>

----------------------------------------------------------------------------
\* mappedSort, under sort.Sort.

AlphaLess(a, b) ==
  LET x == Alpha[a] y == Alpha[b]
  IN \/ x[1] < y[1]
     \/ x[1] = y[1] /\ x[2] < y[2]
     \/ x[1] = y[1] /\ x[2] = y[2] /\ x[3] < y[3]

Less(i, j) == IF keys[i] # keys[j] THEN keys[i] < keys[j] ELSE AlphaLess(items[i], items[j])

StartSort ==
  /\ pc = "classify" /\ next = N + 1
  /\ pc' = "sorting"
  /\ UNCHANGED <<reverse, mapperVars, items, keys, next, podSpecCache, frames, faults, tier>>

Swapped(f, i, j) == [f EXCEPT ![i] = f[j], ![j] = f[i]]

\* Mutant: leaves the keys where they are.
SwapItems(i, j) ==
  /\ pc = "sorting"
  /\ items' = Swapped(items, i, j)
  /\ UNCHANGED <<pc, reverse, mapperVars, keys, next, podSpecCache, frames, faults, tier>>

Swap(i, j) ==
  /\ pc = "sorting"
  /\ items' = Swapped(items, i, j) /\ keys' = Swapped(keys, i, j)
  /\ UNCHANGED <<pc, reverse, mapperVars, next, podSpecCache, frames, faults, tier>>

\* Mutant: forgets sort.Reverse.
InvertedForward(i) == Less(i + 1, i)

Inverted(i) == IF reverse THEN Less(i, i + 1) ELSE Less(i + 1, i)

\* sort.Sort returns when no neighbours are in the wrong order.
Return ==
  /\ pc = "sorting" /\ \A i \in 1 .. N - 1 : ~Inverted(i)
  /\ pc' = "done"
  /\ UNCHANGED <<reverse, mapperVars, items, keys, next, podSpecCache, frames, faults, tier>>

Classifying == ClassifySpecial \/ MapKind \/ Classify \/ Visit \/ Leave \/ StartSort
OrderNext == Classifying \/ Return \/ \E i, j \in Positions : Swap(i, j)

OrderSpec == OrderInit /\ [][OrderNext]_orderVars
FairOrder == OrderSpec /\ WF_orderVars(Classifying)

----------------------------------------------------------------------------
\* Properties.

\* The keys are next to the tiers of their objects, and no object is lost or doubled.
KeysFollowItems == \A i \in Positions : i < next => keys[i] = tier[items[i]]

NothingLost == Injective(items)

\* The keys move with the objects: however sort.Sort swaps them, each object is
\* there once, next to the tier it was given.
SwapsKeepPairs == KeysFollowItems /\ NothingLost

\* What can be reached from a kind's schema: the least set that holds its root
\* and is closed under Below.
Closed(S) == \A node \in S : Below[node] \subseteq S
Reachable == [gvk \in Gvks |-> {node \in Nodes : \A S \in SUBSET Nodes :
                                    (Root[gvk] \in S /\ Closed(S)) => node \in S}]

\* What the tiers stand for: types first, then what is global, then what cannot
\* start a pod, then what can, and hooks that need running services last.
Place(item) ==
  LET gvk == GvkOf[item]
      runsPods == /\ scope[gvk] = "namespaced" /\ Root[gvk] # NoSchema
                  /\ Reachable[gvk] \cap PodSpecs # {}
  IN IF gvk \in CrdKinds THEN 1 ELSE IF gvk \in HookKinds THEN 5
     ELSE IF scope[gvk] = "root" THEN 2 ELSE IF runsPods THEN 4 ELSE 3

\* The order is that of the dependencies, or the reverse of it, as far as
\* requests do not fail; types come first and hooks last even if all fail.
DependenciesFirst ==
  pc = "done" =>
    \A i, j \in Positions :
      LET a == Place(items[i]) b == Place(items[j])
      IN (i < j /\ (faults = 0 \/ a \in {1, 5} \/ b \in {1, 5}))
           => IF reverse THEN a >= b ELSE a <= b

\* A visit ends even if some schema is recursive, as long as it is that of a
\* kind whose scope or group decides.
VisitEnds == pc = "visit" ~> pc # "visit"
=============================================================================
