------------------------------ MODULE Cluster ------------------------------
(***************************************************************************)
(* The API server as kubecfg uses it (external): named objects with        *)
(* optimistic concurrency, and everyone else who writes to it.  Every      *)
(* write takes the next tick of `clock`: it is the resourceVersion of the  *)
(* write and, for a creation, the uid of the new incarnation.              *)
(***************************************************************************)
EXTENDS Manifests

CONSTANTS
  Objects,     \* the server's object names (kind, namespace and name)
  Crds,        \* those that are CustomResourceDefinitions
  Stores,      \* the stores a behaviour may start from
  StartClock,  \* above every uid and resourceVersion in them
  Edits,       \* what others may write into an object: [field, value]
  Seeds,       \* what others may create: [fields, controlled]
  MaxEnv       \* bound: how many writes others make in a behaviour

ASSUME CrdsAssumption == Crds \subseteq Objects

ASSUME StoresAssumption ==
  /\ StartClock \in Nat /\ MaxEnv \in Nat
  /\ Stores \subseteq [Objects -> Live \cup {Absent}]
  /\ \A s \in Stores : \A o \in Objects :
       s[o] # Absent => s[o].rv <= StartClock /\ s[o].uid <= StartClock
  /\ \A s \in Stores : \A o, p \in Objects :
       s[o] # Absent /\ s[p] # Absent /\ s[o].uid = s[p].uid => o = p

ASSUME OthersAssumption ==
  /\ Edits \subseteq [field: Fields, value: Values \cup {None}]
  /\ Seeds \subseteq [fields: Manifest, controlled: BOOLEAN]

VARIABLES
  store,     \* [Objects -> Live \cup {Absent}]
  clock,     \* the last uid or resourceVersion handed out
  envSteps   \* how many writes others have made, up to MaxEnv

clusterVars == <<store, clock, envSteps>>

ClusterTypeOK ==
  /\ store \in [Objects -> Live \cup {Absent}]
  /\ clock \in Nat
  /\ envSteps \in 0 .. MaxEnv

ClusterInit ==
  /\ store \in Stores
  /\ clock = StartClock
  /\ envSteps = 0

\* A write of `live`, already stamped with the next tick, under the name o.
Write(o, live) ==
  /\ store' = [store EXCEPT ![o] = live]
  /\ clock' = clock + 1

Stamped(live) == [live EXCEPT !.rv = clock + 1]

----------------------------------------------------------------------------
\* Everyone else.

OthersWrite(o, live) ==
  /\ envSteps < MaxEnv
  /\ envSteps' = envSteps + 1
  /\ Write(o, live)

OthersEdit(o) ==
  /\ store[o] # Absent
  /\ \E e \in Edits :
       /\ store[o].fields[e.field] # e.value
       /\ OthersWrite(o, Stamped([store[o] EXCEPT !.fields[e.field] = e.value]))

\* Another client deletes the object, or a foreground deletion completes.
OthersRemove(o) ==
  /\ store[o] # Absent
  /\ OthersWrite(o, Absent)

OthersCreate(o) ==
  /\ store[o] = Absent
  /\ \E s \in Seeds :
       OthersWrite(o, [Created(s.fields, clock + 1) EXCEPT
                         !.orig = NoOrig, !.controlled = s.controlled])

\* The apiextensions controller sets the Established condition of a CRD.
OthersEstablish(o) ==
  /\ o \in Crds
  /\ store[o] # Absent
  /\ ~store[o].established
  /\ OthersWrite(o, Stamped([store[o] EXCEPT !.established = TRUE]))

Others ==
  \E o \in Objects : \/ OthersEdit(o)
                     \/ OthersRemove(o)
                     \/ OthersCreate(o)
                     \/ OthersEstablish(o)
============================================================================
