----------------------------- MODULE JsonTrees -----------------------------
(***************************************************************************)
(* The JSON bodies that `diff` compares: removeFields and its helpers,     *)
(* which cut a live object down to what the configuration mentions; the    *)
(* three-way merges of an update, of JSON and by schema; and, external,    *)
(* what the server makes of the body it is sent.                           *)
(*                                                                         *)
(* A tree is a map, a list or a leaf.  What is defined by recursion is a   *)
(* function on the nodes of a tree.                                        *)
(***************************************************************************)
EXTENDS Naturals, Sequences, FiniteSets

CONSTANTS
  Null,      \* the leaf `null`
  Empties,   \* the empty leaves: null, "", 0 and false
  Omitted,   \* keys whose empty values the server does not return
  Defaults,  \* what the server adds where it is missing: a map's function
  MergeKey,  \* of the lists that schemas merge by member: key -> merge key
  MaxDepth   \* bound: all paths of a tree are shorter

Map(f) == [map |-> f]
List(s) == [list |-> s]
Leaf(v) == [leaf |-> v]

IsMap(v) == "map" \in DOMAIN v
IsList(v) == "list" \in DOMAIN v
IsLeaf(v) == "leaf" \in DOMAIN v
IsNull(v) == IsLeaf(v) /\ v.leaf = Null

\* What is under the keys of a map or at the places of a list.
At(v) == CASE IsMap(v) -> v.map [] IsList(v) -> v.list [] IsLeaf(v) -> <<>>
Keys(v) == DOMAIN At(v)

----------------------------------------------------------------------------
\* Paths and nodes.

Node(v, p) ==
  LET node[i \in 0 .. Len(p)] == IF i = 0 THEN v ELSE At(node[i - 1])[p[i]]
  IN node[Len(p)]

Paths(v) ==
  LET upTo[d \in 0 .. MaxDepth] ==
        IF d = 0 THEN {<<>>}
        ELSE LET shorter == upTo[d - 1]
             IN shorter \cup UNION {{Append(p, k) : k \in Keys(Node(v, p))} : p \in shorter}
  IN upTo[MaxDepth]

Nodes(v) ==
  LET upTo[d \in 0 .. MaxDepth] ==
        IF d = 0 THEN {v}
        ELSE LET higher == upTo[d - 1]
             IN higher \cup UNION {{At(n)[k] : k \in Keys(n)} : n \in higher}
  IN upTo[MaxDepth]

\* A node is what Map, List or Leaf makes of a function or a value.
WellFormed(n) ==
  \/ IsMap(n) /\ n = Map(At(n)) /\ At(n) = [k \in Keys(n) |-> At(n)[k]]
  \/ IsList(n) /\ n = List(At(n)) /\ At(n) = [i \in Keys(n) |-> At(n)[i]]
  \/ IsLeaf(n) /\ n = Leaf(n.leaf)

Shallow(v) == \A p \in Paths(v) : Len(p) < MaxDepth
IsTree(v) == Shallow(v) /\ \A n \in Nodes(v) : WellFormed(n)

----------------------------------------------------------------------------
\* The code under test.

isEmptyValue(v) == IF IsLeaf(v) THEN v.leaf \in Empties ELSE Keys(v) = {}

\* Mutant: as before issue 179, what is not in the live object is left out.
MapKeysLiveOnly(config, live) == Keys(config) \cap Keys(live)

\* The keys of the result; an empty value is taken from the configuration.
MapKeys(config, live) == {k \in Keys(config) : k \in Keys(live) \/ isEmptyValue(At(config)[k])}


\* Surplus elements of a live list stay, so that they show.
ListKeys(config, live) == Keys(live)

removeFields(config, live) ==
  LET removed[x \in Nodes(config) \X Nodes(live)] ==
        LET c == x[1]
            l == x[2]
        IN IF IsMap(c) /\ IsMap(l)
             THEN Map([k \in MapKeys(c, l) |->
                         IF k \in Keys(l) THEN removed[<<At(c)[k], At(l)[k]>>] ELSE At(c)[k]])
           ELSE IF IsList(c) /\ IsList(l)
             THEN List([i \in ListKeys(c, l) |->
                          IF i \in Keys(c) THEN removed[<<At(c)[i], At(l)[i]>>] ELSE At(l)[i]])
           ELSE l
  IN removed[<<config, live>>]

----------------------------------------------------------------------------
\* patch(): a three-way merge of the configuration that was applied last, the
\* new one and the live object.

NoKeys == Map(<<>>)
OrNoKeys(v) == Nodes(v) \cup {NoKeys}
Sub(v, k) == IF k \in Keys(v) /\ IsMap(At(v)[k]) THEN At(v)[k] ELSE NoKeys

\* Without a schema (jsonmergepatch).  A null is a deletion, and only in the
\* update that introduces it.
NullIsNew(o, c, k) == ~(k \in Keys(o) /\ IsNull(At(o)[k]))

\* Whether the patch says anything of a map that the live object does not have.
Patched(original, config) ==
  LET patched[x \in OrNoKeys(original) \X Nodes(config)] ==
        LET o == x[1]
            c == x[2]
        IN \/ Keys(c) = {}
           \/ Keys(o) \ Keys(c) # {}
           \/ \E k \in Keys(c) : CASE IsNull(At(c)[k]) -> NullIsNew(o, c, k)
                                  [] IsMap(At(c)[k])  -> patched[<<Sub(o, k), At(c)[k]>>]
                                  [] OTHER            -> TRUE
  IN patched[<<original, config>>]

\* Lists are replaced whole, without the nulls in them.
Pruned(value) ==
  LET pruned[v \in Nodes(value)] ==
        CASE IsMap(v)  -> Map([k \in {j \in Keys(v) : ~IsNull(At(v)[j])} |-> pruned[At(v)[k]]])
          [] IsList(v) -> LET s == SelectSeq(v.list, LAMBDA m : ~IsNull(m))
                          IN List([i \in DOMAIN s |-> pruned[s[i]]])
          [] OTHER     -> v
  IN pruned[value]

\* With a schema (strategicpatch) a null is enforced by every update, and lists of
\* some keys are merged: their members are the same if their merge keys are.
Id(k, m) == At(m)[MergeKey[k]]
Has(k, s, m) == \E i \in DOMAIN s : Id(k, s[i]) = Id(k, m)
Like(k, s, m) == IF Has(k, s, m) THEN s[CHOOSE i \in DOMAIN s : Id(k, s[i]) = Id(k, m)]
                                 ELSE NoKeys
Members(v, k) == IF k \in Keys(v) /\ IsList(At(v)[k]) THEN At(v)[k].list ELSE <<>>

\* Configured members keep their order; another member goes before the first of
\* them that comes after it in the live list.
Interleaved(k, others, mine, live) ==
  LET at(m) == CHOOSE i \in DOMAIN live : Id(k, live[i]) = Id(k, m)
      after(i, m) == Has(k, live, m) /\ at(others[i]) < at(m)
      before(i) == {j \in DOMAIN mine : \A h \in 1 .. j : ~after(i, mine[h])}
      place(i) == i + Cardinality(before(i))
  IN [n \in 1 .. Len(others) + Len(mine) |->
        IF \E i \in DOMAIN others : place(i) = n
          THEN others[CHOOSE i \in DOMAIN others : place(i) = n]
          ELSE mine[n - Cardinality({i \in DOMAIN others : place(i) < n})]]

\* Members that nobody configured stay.  Those no longer configured go; if the
\* whole list is gone, the order to delete one is stored as a member: the server
\* drops the unknown field `$patch`, and the merge key is left.  (The code sorts
\* several of these by their keys.)
MergedList(k, os, mine, l) ==
  LET ls == Members(l, k)
      dropped == SelectSeq(os, LAMBDA m : ~Has(k, mine, m))
      others == SelectSeq(ls, LAMBDA m : ~Has(k, os, m) /\ ~Has(k, mine, m))
      bare == [i \in DOMAIN dropped |-> Map([j \in {MergeKey[k]} |-> At(dropped[i])[j]])]
  IN IF k \in Keys(l) /\ IsList(At(l)[k]) THEN Interleaved(k, others, mine, ls)
                                          ELSE mine \o bare

\* The keys that the patch sets, and the live ones that it leaves alone.
SetKeys(typed, o, c, l) ==
  {k \in Keys(c) :
     /\ ~IsNull(At(c)[k])
     /\ IsMap(At(c)[k]) /\ ~typed /\ ~(k \in Keys(l) /\ IsMap(At(l)[k]))
          => Patched(Sub(o, k), At(c)[k])}
KeptKeys(typed, o, c, l) ==
  {k \in Keys(l) \ SetKeys(typed, o, c, l) :
     IF k \in Keys(c) THEN ~typed /\ (IsNull(At(c)[k]) => ~NullIsNew(o, c, k))
                      ELSE k \notin Keys(o)}

\* typed: whether there is a schema.  The directives of a strategic patch and the
\* nulls that it leaves within what it adds are not in the result: the server
\* drops them.
Merged(typed, original, config, live) ==
  LET merged[x \in OrNoKeys(original) \X Nodes(config) \X OrNoKeys(live)] ==
        LET o == x[1]
            c == x[2]
            l == x[3]
            value(k) ==
              IF IsMap(At(c)[k]) THEN merged[<<Sub(o, k), At(c)[k], Sub(l, k)>>]
              ELSE IF ~IsList(At(c)[k]) THEN At(c)[k]
              ELSE IF ~typed
                THEN IF k \in Keys(l) /\ At(l)[k] = At(c)[k] THEN At(c)[k] ELSE Pruned(At(c)[k])
              ELSE IF k \notin DOMAIN MergeKey THEN At(c)[k]
              ELSE LET os == Members(o, k)
                       cs == Members(c, k)
                       ls == Members(l, k)
                       mine == [i \in DOMAIN cs |->
                                  merged[<<Like(k, os, cs[i]), cs[i], Like(k, ls, cs[i])>>]]
                   IN List(MergedList(k, os, mine, l))
        IN Map([k \in SetKeys(typed, o, c, l) \cup KeptKeys(typed, o, c, l) |->
                  IF k \in SetKeys(typed, o, c, l) THEN value(k) ELSE At(l)[k]])
  IN merged[<<original, config, live>>]

\* Each member of a merged list has a merge key of its own.
Mergeable(v) ==
  \A n \in Nodes(v) : IsMap(n) =>
    \A k \in Keys(n) \cap DOMAIN MergeKey :
      LET s == Members(n, k)
      IN /\ \A i \in DOMAIN s : IsMap(s[i]) /\ MergeKey[k] \in Keys(s[i])
         /\ \A i, j \in DOMAIN s : Id(k, s[i]) = Id(k, s[j]) => i = j

----------------------------------------------------------------------------
\* External: the server.

\* Nulls in maps go, and empty values of some keys; defaults are added at the top
\* and in lists.
StoredKeys(v) ==
  {k \in Keys(v) : ~IsNull(At(v)[k]) /\ (k \in Omitted => ~isEmptyValue(At(v)[k]))}

Stored(body) ==
  LET stored[x \in Nodes(body) \X BOOLEAN] ==
        LET v == x[1]
            added == IF x[2] THEN DOMAIN Defaults \ StoredKeys(v) ELSE {}
        IN CASE IsMap(v)  -> Map([k \in StoredKeys(v) \cup added |->
                                    IF k \in StoredKeys(v) THEN stored[<<At(v)[k], FALSE>>]
                                                           ELSE Defaults[k]])
             [] IsList(v) -> List([i \in Keys(v) |-> stored[<<At(v)[i], TRUE>>]])
             [] OTHER     -> v
  IN stored[<<body, TRUE>>]

----------------------------------------------------------------------------
\* A reference definition, by paths.

\* The same kind of node; the same value, if leaves; as long, if lists.
Alike(u, v) ==
  /\ DOMAIN u = DOMAIN v
  /\ IsLeaf(u) => u.leaf = v.leaf
  /\ IsList(u) => Keys(u) = Keys(v)

Parent(p) == SubSeq(p, 1, Len(p) - 1)

\* All that the configuration says is so in the live object, except that keys
\* with an empty value may be missing there.
Holds(config, live) ==
  \A p \in Paths(config) :
    IF p \in Paths(live) THEN Alike(Node(config, p), Node(live, p))
    ELSE /\ p # <<>> /\ Parent(p) \in Paths(live)
         /\ IsMap(Node(config, Parent(p)))
         /\ isEmptyValue(Node(config, p))
=============================================================================
