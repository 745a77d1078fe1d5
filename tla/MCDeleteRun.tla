---------------------------- MODULE MCDeleteRun ----------------------------
(***************************************************************************)
(* Small instances of DeleteRun and of DependencyOrder by itself, in       *)
(* either direction: a CRD and its custom resource, kinds of every sort,   *)
(* one of them global with a recursive schema, one with a PodSpec below a  *)
(* list, and an object that is in no configuration.                        *)
(***************************************************************************)
EXTENDS DeleteRun, TLC

V(major, minor) == [major |-> major, minor |-> minor]
Git(major, minor) == [matches |-> TRUE, major |-> major, minor |-> minor]
NoGit == [matches |-> FALSE, major |-> <<>>, minor |-> <<>>]
Info(major, minor, git, truth) ==
  [major |-> major, minor |-> minor, git |-> git, truth |-> truth]

Plain == Info(<<1>>, <<1, 2>>, Git(<<1>>, <<1, 2>>), V(1, 12))
\* 1.5, 1.6, 1.8+, 2.0, and servers that give their git version only.
MCInfos == {Plain,
            Info(<<1>>, <<5>>, Git(<<1>>, <<5>>), V(1, 5)),
            Info(<<1>>, <<6>>, Git(<<1>>, <<6>>), V(1, 6)),
            Info(<<1>>, <<8, Plus>>, NoGit, V(1, 8)),
            Info(<<2>>, <<0>>, Git(<<2>>, <<0>>), V(2, 0)),
            Info(<<>>, <<>>, Git(<<1>>, <<5>>), V(1, 5)),
            Info(<<1>>, <<7, Letter>>, Git(<<1>>, <<7>>), V(1, 7)),
            Info(<<>>, <<>>, NoGit, V(1, 9)),
            Info(<<>>, <<>>, Git(<<1>>, <<1, 2>>), V(1, 12))}

----------------------------------------------------------------------------
\* Kinds, objects and configurations.

MCKinds == {"crd", "hook", "global", "plain", "pods", "custom"}
MCItems == {"crd", "hook", "hook2", "global", "plain", "pods1", "pods2", "custom"}
MCConfigs == {{"crd", "custom", "pods1"}, {"custom", "hook", "pods1"}, {"crd", "hook", "hook2"}}
MCKindOf == [crd |-> "crd", hook |-> "hook", hook2 |-> "hook", global |-> "global", plain |-> "plain",
             custom |-> "custom", pods1 |-> "pods", pods2 |-> "pods"]
MCAlpha == [crd |-> <<0, 3, 1>>, hook |-> <<0, 2, 2>>, global |-> <<0, 1, 3>>,
            plain |-> <<1, 3, 1>>, custom |-> <<1, 2, 4>>, pods1 |-> <<1, 1, 5>>,
            pods2 |-> <<1, 2, 5>>, hook2 |-> <<0, 3, 2>>]
CrdKind == {"crd"}
HookKind == {"hook"}
MCKindScope == [crd |-> "root", hook |-> "root", global |-> "root", plain |-> "namespaced",
                pods |-> "namespaced", custom |-> "namespaced"]
MCScopes == {MCKindScope, [MCKindScope EXCEPT !["custom"] = "unknown"]}
\* Each of three lists may fail.
MCLosses == {{"custom"}, {"pods", "plain"}, {"hook"}}
MCDefinedBy == [k \in MCKinds |-> IF k = "custom" THEN "crd" ELSE None]

\* pods: an object with a plain field and a list of templates with a PodSpec.
MCNodes == {"leaf", "object", "list", "template", "spec", "recursive"}
MCBelow == [leaf |-> {}, object |-> {"leaf", "list"}, list |-> {"template"},
            template |-> {"leaf", "spec"}, spec |-> {"leaf"}, recursive |-> {"recursive"}]
MCPodSpecs == {"spec"}
MCRoot == [crd |-> "recursive", hook |-> "leaf", global |-> "recursive", plain |-> "leaf",
           pods |-> "object", custom |-> NoSchema]

MCFields == {"tag", "label", "strategy"}
MCValues == {"t", "auto"}
Blank == [f \in MCFields |-> None]
Held(n) == [uid |-> n, rv |-> n, fields |-> Blank, orig |-> NoOrig,
            controlled |-> FALSE, terminating |-> FALSE, established |-> FALSE]
MCObjects == {"crd", "custom", "pods1", "hook", "other"}
MCTarget == [i \in MCItems |-> IF i \in MCObjects THEN i ELSE "other"]
MCStore == [o \in MCObjects |-> CASE o = "crd" -> Held(1) [] o = "custom" -> Held(2)
                                   [] o = "pods1" -> Held(3) [] o = "other" -> Held(4)
                                   [] o = "hook" -> Held(5)]
\* The CRD is there, or gone with its custom object, or is being deleted.
MCStores == {MCStore, [MCStore EXCEPT !["crd"] = Absent, !["custom"] = Absent],
             [MCStore EXCEPT !["crd"].terminating = TRUE]}
NoEdits == {}
BlankSeeds == {[fields |-> Blank, controlled |-> FALSE]}

----------------------------------------------------------------------------
VARIABLE focus

allVars == <<focus, deleteVars>>

\* Versions other than the usual one, or none, are tried in one situation only;
\* a CRD that is being deleted from the start is in no configuration.
SomeOrder == <<"crd", "custom", "pods1">>
UsualVersion == info = Plain /\ ~cmd.default

DeletingInit ==
  /\ info \in MCInfos /\ store \in MCStores
  /\ \E S \in MCConfigs : items \in {f \in [Positions -> S] : Injective(f)}
  /\ DeleteInit
  /\ UsualVersion \/ (store = MCStore /\ items = SomeOrder)
  /\ Going("crd") => "crd" \notin Config

\* The order by itself: the cluster and the command rest.
SortingInit ==
  /\ store = MCStore /\ info = Plain /\ cmd \in Started /\ ~cmd.default
  /\ starts = MaxStarts /\ base = store /\ alone = TRUE
  /\ ClusterInit /\ OrderInit

Init ==
  \/ focus = "delete" /\ DeletingInit
  \/ focus = "sort" /\ SortingInit

\* Once it has its mapper the order does not look at the store: what others write
\* while it is made might as well come when it is ready.  Requests fail the first
\* time only.
Ordering == Running /\ pc # "done" /\ built

Next ==
  /\ \/ focus = "delete" /\ Sort /\ (starts = 1 \/ UNCHANGED faults)
     \/ focus = "delete" /\ FindKinds /\ (starts = 1 \/ UNCHANGED faults)
     \/ focus = "delete" /\ (Delete \/ Abort)
     \/ focus = "delete" /\ Restart /\ UNCHANGED items /\ (UsualVersion' \/ items = SomeOrder)
     \/ focus = "delete" /\ ~Ordering /\ (Vanish \/ Disturb)
     \/ focus = "sort" /\ Sort
  /\ UNCHANGED focus

Spec == Init /\ [][Next]_allVars

FairSpec == Spec /\ WF_allVars(Classifying /\ Next)
=============================================================================
