---------------------------- MODULE MCUpdateRun ----------------------------
(***************************************************************************)
(* Small instances of UpdateRun: two config maps a and b, a CRD with name  *)
(* crd, and the configurations, stores and edits that make the cases of    *)
(* the code happen.                                                        *)
(***************************************************************************)
EXTENDS UpdateRun, TLC

MCFields == {"tag", "label", "strategy", "data"}
MCValues == {"t", "auto", "ignore", "x", "y"}

\* A manifest with this tag (in the annotation and the label), strategy and data.
M(tag, strategy, data) ==
  "tag" :> tag @@ "label" :> tag @@ "strategy" :> strategy @@ "data" :> data

Plain(data) == M(None, None, data)

\* An object on the server: applied by an earlier run, or not by kubecfg.
Held(n, fields, orig) ==
  [uid |-> n, rv |-> n, fields |-> fields, orig |-> orig,
   controlled |-> FALSE, terminating |-> FALSE, established |-> FALSE]
AppliedBefore(n, data) == Held(n, M("t", None, data), M("t", None, data))

TargetEach == "ia" :> "a" @@ "ib" :> "b"
RankEach == "ia" :> 0 @@ "ib" :> 1

\* ia and ja differ in their namespace: one names the default, one none.
TargetAlias == "ia" :> "a" @@ "ja" :> "a" @@ "ib" :> "b"
RankAlias == "ia" :> 0 @@ "ja" :> 0 @@ "ib" :> 1
\* A CRD and a custom resource.
TargetCrd == "icrd" :> "crd" @@ "ib" :> "b"
RankCrd == "icrd" :> 0 @@ "ib" :> 1

OneResource == "v1" :> {"a", "b"}
\* The same kind served by two API groups.
TwoResources == "v1" :> {"a", "b"} @@ "v2" :> {"a", "b"}

Flag(create, tag, skip, dry) ==
  [create |-> create, gcTag |-> tag, skipGc |-> skip, dryRun |-> dry]
CollectingFlags == {Flag(TRUE, "t", FALSE, FALSE)}
PlainAndCollecting == CollectingFlags \cup {Flag(TRUE, None, FALSE, FALSE)}
AllFlags == {Flag(c, tag, skip, dry) : c \in BOOLEAN, tag \in {None, "t"},
                                       skip \in BOOLEAN, dry \in BOOLEAN}

ConfigA  == "ia" :> Plain(None)
ConfigAB == "ia" :> Plain("y") @@ "ib" :> Plain("y")
BothConfigs == {ConfigA, ConfigAB}
AliasConfigs == {"ia" :> Plain("x") @@ "ja" :> Plain("y"),
                 "ia" :> Plain("x") @@ "ja" :> Plain("y") @@ "ib" :> Plain("y")}
CrdConfigs == {"icrd" :> Plain("y") @@ "ib" :> Plain("y"), "icrd" :> Plain("x")}

\* a and b, both from an earlier run that gave them the data x.
StoreApplied == "a" :> AppliedBefore(1, "x") @@ "b" :> AppliedBefore(2, "x")
\* a is missing; b was edited since: someone marked it ignore.
StoreIgnored == "a" :> Absent @@ "b" :> Held(2, M("t", "ignore", "x"), M("t", None, "x"))
\* a was created with kubectl; b belongs to a controller.
StoreForeign == "a" :> Held(1, Plain("x"), NoOrig)
             @@ "b" :> [AppliedBefore(2, "x") EXCEPT !.controlled = TRUE]
TwoStores == {StoreApplied, StoreIgnored}
ThreeStores == TwoStores \cup {StoreForeign}
CrdListed == "v1" :> {"crd", "b"}
CrdStores == {"crd" :> Absent @@ "b" :> AppliedBefore(1, "x"),
              "crd" :> AppliedBefore(1, "x") @@ "b" :> Absent}

EditData == {[field |-> "data", value |-> "y"]}
EditMarks == {[field |-> "strategy", value |-> "ignore"]}
AllEdits == EditData \cup EditMarks \cup {[field |-> "tag", value |-> None]}

SeedTagged == {[fields |-> M("t", None, "x"), controlled |-> FALSE]}
AllSeeds == SeedTagged \cup {[fields |-> Plain("x"), controlled |-> FALSE]}
=============================================================================
