----------------------------- MODULE Manifests -----------------------------
(***************************************************************************)
(* The data kubecfg moves between a configuration and the API server: the  *)
(* manifest of an object, the object as the server stores it, the          *)
(* three-way merge of `patch`, and the garbage-collection predicate.       *)
(*                                                                         *)
(* A manifest is a map from field paths to values.  A field stands for one *)
(* leaf of the JSON tree (a data key, one annotation, a whole list); None  *)
(* is a field that is not there.                                           *)
(***************************************************************************)
EXTENDS Naturals

CONSTANTS
  Fields,         \* the field paths of an object
  Values,         \* the values a field can have
  None,           \* no value: the field is absent, the flag is not given
  Absent,         \* no object under that name on the server
  NoOrig,         \* no last-applied-configuration annotation
  TagField,       \* AnnotationGcTag, the annotation that triggers collection
  LabelField,     \* LabelGcTag, its copy in the labels
  StrategyField,  \* AnnotationGcStrategy
  GcStrategyAuto  \* the default strategy

ASSUME FieldsAssumption ==
  /\ {TagField, LabelField, StrategyField} \subseteq Fields
  /\ TagField # LabelField /\ TagField # StrategyField /\ LabelField # StrategyField
  /\ None \notin Values
  /\ GcStrategyAuto \in Values

Manifest == [Fields -> Values \cup {None}]

ASSUME MarkersAssumption == NoOrig \notin Manifest

\* An object as the server stores it: a uid per incarnation, a
\* resourceVersion per write, and the manifest kubecfg recorded in the
\* last-applied-configuration annotation.
Live == [uid: Nat, rv: Nat, fields: Manifest, orig: Manifest \cup {NoOrig},
         controlled: BOOLEAN, terminating: BOOLEAN, established: BOOLEAN]

ASSUME AbsentAssumption == Absent \notin Live

----------------------------------------------------------------------------

\* UpdateCmd.Run writes the tag in the annotation and in the label.
WithTag(new, tag) ==
  IF tag = None THEN new
  ELSE [new EXCEPT ![TagField] = tag, ![LabelField] = tag]

WasApplied(orig, f) == orig # NoOrig /\ orig[f] # None

\* Mutant: a two-way merge, which never removes what the config dropped.
MergeFieldTwoWay(orig, new, live, f) ==
  IF new[f] # None THEN new[f] ELSE live[f]

\* The three-way merge: the config wins, a field it used to have and dropped
\* goes away, and what others put there stays.
MergeField(orig, new, live, f) ==
  CASE new[f] # None                          -> new[f]
    [] new[f] = None /\ WasApplied(orig, f)   -> None
    [] new[f] = None /\ ~WasApplied(orig, f)  -> live[f]

Merge(orig, new, live) == [f \in Fields |-> MergeField(orig, new, live, f)]

\* patch(): the merged object, annotated with the configuration it came from.
\* uid and resourceVersion are those of `existing`.
Patched(existing, new) ==
  [existing EXCEPT !.fields = Merge(existing.orig, new, existing.fields),
                   !.orig = new]

\* What Create stores: the manifest, annotated with itself.
Created(new, n) ==
  [uid |-> n, rv |-> n, fields |-> new, orig |-> new,
   controlled |-> FALSE, terminating |-> FALSE, established |-> FALSE]

----------------------------------------------------------------------------

\* Mutant: forgets the controller references.
EligibleIgnoringOwner(live, tag) ==
  /\ live.fields[TagField] = tag
  /\ live.fields[StrategyField] \in {None, GcStrategyAuto}

eligibleForGc(live, tag) ==
  /\ ~live.controlled
  /\ live.fields[TagField] = tag
  /\ live.fields[StrategyField] \in {None, GcStrategyAuto}
============================================================================
