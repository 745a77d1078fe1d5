----------------------------- MODULE MCDiffRun -----------------------------
(***************************************************************************)
(* Small instances of DiffRun: bodies with the keys a, b and l, where the  *)
(* server leaves out an empty a and defaults d; z is an empty leaf.  The   *)
(* kind of m has a schema, which merges the lists l by the key b.          *)
(***************************************************************************)
EXTENDS DiffRun, TLC

MCEmpties == {"null", "z"}
MCOmitted == {"a"}
MCDefaults == "d" :> Leaf("x")
MCMergeKey == "l" :> "b"
X == Leaf("x")
Y == Leaf("y")
Z == Leaf("z")
NullLeaf == Leaf("null")
EmptyBody == Map("a" :> NullLeaf @@ "l" :> List(<<>>))
ListBody == Map("a" :> Z @@ "l" :> List(<<Map("b" :> X @@ "a" :> Z), Map("b" :> Y)>>))
NestedBody ==
  Map("a" :> Map("a" :> Z @@ "b" :> NullLeaf) @@ "c" :> List(<<NullLeaf, X>>))
MCBodies == {EmptyBody, ListBody, NestedBody,
             Map("l" :> List(<<Map("b" :> Y @@ "e" :> NullLeaf)>>))}
MCEdits == {[key |-> "a", value |-> Y], [key |-> "l", value |-> None],
            [key |-> "l", value |-> List(<<Map("b" :> Z), Map("b" :> Y @@ "e" :> Y)>>)]}
MCContents == {Map("a" :> Map("b" :> X @@ "c" :> X))}
MCApplied == {Map("a" :> Y @@ "b" :> Y)}

\* Two objects that can be read, one of an unknown kind, one without a name.
Four == {"m", "n", "u", "w"}
FourPlaces == "m" :> 1 @@ "n" :> 2 @@ "u" :> 3 @@ "w" :> 4
MCConfigs == {"m" :> b : b \in MCBodies} \cup {"n" :> b : b \in MCBodies}
               \cup {"m" :> ListBody @@ "n" :> EmptyBody,
                     "m" :> EmptyBody @@ "u" :> EmptyBody, "n" :> ListBody @@ "w" :> EmptyBody}
============================================================================
