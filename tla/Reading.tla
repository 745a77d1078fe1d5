------------------------------ MODULE Reading ------------------------------
(***************************************************************************)
(* readObjs: how the files named on the command line become one list of    *)
(* objects.  A jsonnet file evaluates to a tree that is searched for       *)
(* objects (jsonWalk), JSON and YAML files hold objects; objects that are  *)
(* lists give way to their members; duplicates are refused.                *)
(***************************************************************************)
EXTENDS Naturals, Sequences, SequencesExt

CONSTANTS
  Files,
  Format,     \* of a path: its file extension
  Documents,  \* of a path: the values it holds, once evaluated
  Nodes,      \* of the JSON trees
  Type,       \* null, scalar, array or map
  Array,      \* the elements of an array
  Fields,     \* the values of a map
  Kinded,     \* the maps with a kind
  Objects,    \* those with an apiVersion as well
  Lists,      \* the maps with an array of items
  Items,
  Address,    \* of a map: its group, version, kind, namespace and name
  MaxFiles    \* bound: how many files are named

ASSUME ReadingAssumption ==
  /\ Format \in [Files -> {"json", "yaml", "jsonnet", "other"}]
  /\ Documents \in [Files -> Seq(Nodes)]
  /\ Type \in [Nodes -> {"null", "scalar", "array", "map"}]
  /\ Array \in [Nodes -> Seq(Nodes)] /\ Fields \in [Nodes -> SUBSET Nodes]
  /\ \A n \in Nodes : /\ Type[n] # "array" => Array[n] = <<>>
                      /\ Type[n] # "map" => Fields[n] = {}
  /\ Objects \subseteq Kinded /\ Kinded \subseteq {n \in Nodes : Type[n] = "map"}
  /\ Lists \subseteq {n \in Nodes : Type[n] = "map"} /\ Items \in [Nodes -> Seq(Nodes)]
  /\ MaxFiles \in Nat

VARIABLES
  readerPc, todo,  \* the paths still to be read, the first one being read
  frames,    \* the stack of jsonWalk: what each call has yet to walk
  found,     \* the objects of this path so far
  res,       \* the objects of all paths so far
  named      \* history: all the paths

readingVars == <<readerPc, todo, frames, found, res, named>>

\* A frame holds the elements of an array in order, or the fields of a map.
Frame == [ordered: Seq(Nodes), any: SUBSET Nodes]
Ordered(s) == [ordered |-> s, any |-> {}]
Unordered(S) == [ordered |-> <<>>, any |-> S]

\* Whatever is in the result is a map, as the rest of the program takes for
\* granted.
ReadingTypeOK ==
  /\ readerPc \in {"read", "walk", "expand", "done", "failed"}
  /\ todo \in Seq(Files) /\ named \in Seq(Files)
  /\ \A i \in 1 .. Len(frames) : frames[i] \in Frame
  /\ found \in Seq(Nodes) /\ res \in Seq(Nodes)
  /\ \A i \in 1 .. Len(res) : Type[res[i]] = "map"

ReadingInit ==
  /\ readerPc = "read" /\ named \in BoundedSeq(Files, MaxFiles) /\ todo = named
  /\ frames = <<>> /\ found = <<>> /\ res = <<>>

----------------------------------------------------------------------------
Path == Head(todo)
ReadFails == readerPc' = "failed" /\ UNCHANGED <<todo, frames, found, res, named>>

\* Read: by extension.  Every document of a JSON or YAML file must be a map with
\* a kind.  Reading, parsing or evaluating a file may fail.
Read ==
  /\ readerPc = "read" /\ todo # <<>>
  /\ \/ ReadFails
     \/ /\ Format[Path] \in {"json", "yaml"}
        /\ ToSet(Documents[Path]) \subseteq Kinded
        /\ found' = Documents[Path] /\ readerPc' = "expand"
        /\ UNCHANGED <<todo, frames, res, named>>
     \/ /\ Format[Path] = "jsonnet"
        /\ frames' = <<Ordered(Documents[Path])>> /\ readerPc' = "walk"
        /\ UNCHANGED <<todo, found, res, named>>

\* The next value of a frame: the first one of an array, any one of a map.
Nexts(frame) == IF frame.ordered # <<>> THEN {Head(frame.ordered)} ELSE frame.any
Without(frame, n) == IF frame.ordered # <<>> THEN Ordered(Tail(frame.ordered))
                     ELSE Unordered(frame.any \ {n})

\* Mutant: looks for objects below objects, too.
WalkIntoObjects ==
  /\ readerPc = "walk" /\ frames # <<>>
  /\ \E n \in Nexts(Head(frames)) :
       LET rest == <<Without(Head(frames), n)>> \o Tail(frames)
       IN CASE Type[n] = "null"   -> frames' = rest /\ UNCHANGED <<readerPc, found>>
            [] Type[n] = "scalar" -> readerPc' = "failed" /\ UNCHANGED <<frames, found>>
            [] Type[n] = "array"  -> frames' = <<Ordered(Array[n])>> \o rest
                                     /\ UNCHANGED <<readerPc, found>>
            [] Type[n] = "map"    -> /\ frames' = <<Unordered(Fields[n])>> \o rest
                                     /\ found' = IF n \in Objects THEN Append(found, n) ELSE found
                                     /\ UNCHANGED readerPc
  /\ UNCHANGED <<todo, res, named>>

\* Mutant: walks arrays as it walks maps.
WalkUnordered ==
  /\ readerPc = "walk" /\ frames # <<>>
  /\ \E n \in Nexts(Head(frames)) :
       LET rest == <<Without(Head(frames), n)>> \o Tail(frames)
       IN CASE Type[n] = "null"   -> frames' = rest /\ UNCHANGED <<readerPc, found>>
            [] Type[n] = "scalar" -> readerPc' = "failed" /\ UNCHANGED <<frames, found>>
            [] n \in Objects      -> frames' = rest /\ found' = Append(found, n) /\ UNCHANGED readerPc
            [] OTHER              -> /\ frames' = <<Unordered(ToSet(Array[n]) \cup Fields[n])>> \o rest
                                     /\ UNCHANGED <<readerPc, found>>
  /\ UNCHANGED <<todo, res, named>>

\* jsonWalk, one value at a time.
Walk ==
  /\ readerPc = "walk" /\ frames # <<>>
  /\ \E n \in Nexts(Head(frames)) :
       LET rest == <<Without(Head(frames), n)>> \o Tail(frames)
       IN CASE Type[n] = "null"   -> frames' = rest /\ UNCHANGED <<readerPc, found>>
            [] Type[n] = "scalar" -> readerPc' = "failed" /\ UNCHANGED <<frames, found>>
            [] n \in Objects      -> frames' = rest /\ found' = Append(found, n) /\ UNCHANGED readerPc
            [] Type[n] = "array"  -> frames' = <<Ordered(Array[n])>> \o rest
                                     /\ UNCHANGED <<readerPc, found>>
            [] OTHER              -> frames' = <<Unordered(Fields[n])>> \o rest
                                     /\ UNCHANGED <<readerPc, found>>
  /\ UNCHANGED <<todo, res, named>>

LeaveFrame ==
  /\ readerPc = "walk"
  /\ \/ /\ frames # <<>> /\ Nexts(Head(frames)) = {}
        /\ frames' = Tail(frames) /\ UNCHANGED readerPc
     \/ frames = <<>> /\ readerPc' = "expand" /\ UNCHANGED frames
  /\ UNCHANGED <<todo, found, res, named>>

\* EachListItem and FlattenToV1: the members of a list, which may be lists.
Members(n) == IF n \in Lists THEN Items[n] ELSE <<n>>

\* Mutant: does not look at the members of a list.
ExpandUnchecked ==
  /\ readerPc = "expand"
  /\ res' = res \o FlattenSeq([i \in 1 .. Len(found) |-> Members(found[i])])
  /\ found' = <<>> /\ todo' = Tail(todo) /\ readerPc' = "read"
  /\ UNCHANGED <<frames, named>>

Expand ==
  /\ readerPc = "expand"
  /\ LET members == FlattenSeq([i \in 1 .. Len(found) |-> Members(found[i])])
     IN IF \E n \in ToSet(members) : Type[n] # "map"
        THEN ReadFails
        ELSE /\ res' = res \o members /\ found' = <<>>
             /\ todo' = Tail(todo) /\ readerPc' = "read"
             /\ UNCHANGED <<frames, named>>

\* CheckDuplicates.
Duplicate == \E i, j \in 1 .. Len(res) : i < j /\ Address[res[i]] = Address[res[j]]

Check ==
  /\ readerPc = "read" /\ todo = <<>>
  /\ readerPc' = IF Duplicate THEN "failed" ELSE "done"
  /\ UNCHANGED <<todo, frames, found, res, named>>

ReadingNext == Read \/ Walk \/ LeaveFrame \/ Expand \/ Check
ReadingSpec == ReadingInit /\ [][ReadingNext]_readingVars

----------------------------------------------------------------------------
\* Properties.

\* What jsonWalk should come across below a node: the least set with it that is
\* closed under going into arrays and into maps that are no objects.
Children(n) == IF n \in Objects THEN {} ELSE ToSet(Array[n]) \cup Fields[n]
Below == [n \in Nodes |-> {m \in Nodes : \A S \in SUBSET Nodes :
            (n \in S /\ \A k \in S : Children(k) \subseteq S) => m \in S}]
Within == [p \in Files |-> UNION {Below[n] : n \in ToSet(Documents[p])}]
ObjectsOf(path) == IF Format[path] = "jsonnet" THEN Within[path] \cap Objects
                   ELSE ToSet(Documents[path])

\* Every object that is written down, or the members of it if it is a list, is
\* in the result, nothing else is, and no two have the same address: naming a
\* file twice is refused, too.  A value that is neither an object nor within one
\* makes the command fail.
NothingMissedOrMadeUp ==
  readerPc = "done" =>
    /\ ToSet(res) = UNION {ToSet(Members(n)) : n \in UNION {ObjectsOf(p) : p \in ToSet(named)}}
    /\ \A i, j \in 1 .. Len(res) : Address[res[i]] = Address[res[j]] => i = j
    /\ \A p \in ToSet(named) : Format[p] = "jsonnet" => \A n \in Within[p] : Type[n] # "scalar"

\* Arrays keep their order, though the fields of a map do not: whatever is found
\* anywhere below an earlier element comes before all that is below a later one.
Position(n) == CHOOSE i \in 1 .. Len(res) : res[i] = n
ArrayOrderKept ==
  readerPc = "done" =>
    \A p \in ToSet(named) : Format[p] = "jsonnet" =>
      \A a \in Within[p] \ Objects : \A j \in 1 .. Len(Array[a]) : \A i \in 1 .. j - 1 :
        \A m \in Below[Array[a][i]] \cap Objects, n \in Below[Array[a][j]] \cap Objects :
          \A u \in ToSet(Members(m)), v \in ToSet(Members(n)) : Position(u) < Position(v)
=============================================================================
