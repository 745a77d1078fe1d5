----------------------------- MODULE DiffProofs -----------------------------
(***************************************************************************)
(* Theorems about DiffRun, for any trees, configurations, answers of the   *)
(* server, runs and writes of others.  What an update or the server makes  *)
(* of a tree plays no part in them.                                        *)
(*                                                                         *)
(* What JsonTrees defines by recursion is a function on the nodes of a     *)
(* tree, which exists because trees are shallow (Counted stands in for     *)
(* induction): RemovedIs says what removeFields is at a node, PathsDown    *)
(* and PathsUp carry a fact along the paths of a tree.                     *)
(* The inductive invariants: DiffInv, that a run has found a difference    *)
(* just if one of the objects that it read differed; QuietInv, that the    *)
(* annotation of an object which nobody has written after an untagged      *)
(* update is the configuration of that update.                             *)
(***************************************************************************)
EXTENDS DiffRun, Minimum, TLAPS

----------------------------------------------------------------------------
\* Nodes.

\* The recursive function that Node is defined with.
Descends(f, v, p, n) == f = [i \in 0 .. n |-> IF i = 0 THEN v ELSE At(f[i - 1])[p[i]]]

\* It exists: a least length without one would have a predecessor with one.
LEMMA DescendsExists ==
  ASSUME NEW v, NEW p
  PROVE  \A n \in Nat : \E f : Descends(f, v, p, n)
<1> DEFINE T == {n \in Nat : ~ \E f : Descends(f, v, p, n)}
<1> SUFFICES ASSUME T # {}
             PROVE  FALSE
  OBVIOUS
<1>1. PICK n \in T : \A y \in T : n <= y
  BY Least
<1>2. CASE n = 0
  <2> DEFINE f == [i \in 0 .. 0 |-> v]
  <2>1. f = [i \in 0 .. 0 |-> IF i = 0 THEN v ELSE At(f[i - 1])[p[i]]]
    OBVIOUS
  <2>2. Descends(f, v, p, n)
    BY <2>1, <1>2 DEF Descends
  <2> QED
    BY <2>2
<1>3. CASE n # 0
  <2>1. n \in Nat /\ n - 1 \in Nat /\ n - 1 \notin T
    BY <1>1, <1>3
  <2>2. PICK f : Descends(f, v, p, n - 1)
    BY <2>1
  <2> DEFINE g == [i \in 0 .. n |-> IF i = 0 THEN v ELSE At(f[i - 1])[p[i]]]
  <2>3. ASSUME NEW i \in 0 .. n - 1
        PROVE  g[i] = f[i]
    <3>1. f[i] = IF i = 0 THEN v ELSE At(f[i - 1])[p[i]]
      BY <2>2 DEF Descends
    <3> QED
      BY <3>1, <2>1
  <2>4. ASSUME NEW i \in 0 .. n, i # 0
        PROVE  g[i - 1] = f[i - 1]
    <3>1. i - 1 \in 0 .. n - 1
      BY <2>1, <2>4
    <3> HIDE DEF g
    <3> QED
      BY <3>1, <2>3
  <2>5. g = [i \in 0 .. n |-> IF i = 0 THEN v ELSE At(g[i - 1])[p[i]]]
    BY <2>4
  <2>6. Descends(g, v, p, n)
    BY <2>5 DEF Descends
  <2> QED
    BY <2>6
<1> QED
  BY <1>2, <1>3

\* Two that go the same way arrive at the same nodes.
LEMMA DescendAlike ==
  ASSUME NEW v, NEW p, NEW q, NEW m \in Nat, NEW n \in Nat, m <= n,
         NEW f, Descends(f, v, p, m), NEW g, Descends(g, v, q, n),
         \A i \in 1 .. m : p[i] = q[i]
  PROVE  \A i \in 0 .. m : f[i] = g[i]
<1> DEFINE T == {i \in 0 .. m : f[i] # g[i]}
<1> SUFFICES ASSUME T # {}
             PROVE  FALSE
  OBVIOUS
<1>1. T \in SUBSET Nat
  OBVIOUS
<1>2. PICK i \in T : \A y \in T : i <= y
  BY <1>1, Least
<1>3. i \in 0 .. m /\ i \in 0 .. n
  OBVIOUS
<1>4. /\ f[i] = IF i = 0 THEN v ELSE At(f[i - 1])[p[i]]
      /\ g[i] = IF i = 0 THEN v ELSE At(g[i - 1])[q[i]]
  BY <1>3 DEF Descends
<1>5. i # 0 => i - 1 \in 0 .. m /\ i - 1 \notin T
  BY <1>2, <1>3
<1> QED
  BY <1>2, <1>3, <1>4, <1>5

LEMMA NodeDescends ==
  ASSUME NEW v, NEW p, Len(p) \in Nat
  PROVE  \E f : Descends(f, v, p, Len(p)) /\ Node(v, p) = f[Len(p)]
<1> DEFINE f == CHOOSE g : Descends(g, v, p, Len(p))
<1>1. Node(v, p) = f[Len(p)]
  BY DEF Node, Descends
<1>2. Descends(f, v, p, Len(p))
  <2>1. PICK n \in Nat : n = Len(p)
    OBVIOUS
  <2>2. \E g : Descends(g, v, p, Len(p))
    BY <2>1, DescendsExists
  <2> HIDE DEF Descends
  <2> QED
    BY <2>2
<1> QED
  BY <1>1, <1>2

LEMMA NodeOfNone == \A v : Node(v, <<>>) = v
<1> TAKE v
<1>1. Len(<<>>) = 0
  OBVIOUS
<1>2. PICK f : Descends(f, v, <<>>, Len(<<>>)) /\ Node(v, <<>>) = f[Len(<<>>)]
  BY <1>1, NodeDescends
<1> QED
  BY <1>1, <1>2 DEF Descends

LEMMA NodeOfMore ==
  ASSUME NEW v, NEW S, NEW p \in Seq(S), NEW k \in S
  PROVE  Node(v, Append(p, k)) = At(Node(v, p))[k]
<1> DEFINE q == Append(p, k)
<1>1. /\ Len(p) \in Nat /\ Len(q) = Len(p) + 1 /\ Len(q) \in Nat /\ q[Len(p) + 1] = k
      /\ \A i \in 1 .. Len(p) : p[i] = q[i]
  OBVIOUS
<1> HIDE DEF q
<1>2. PICK f : Descends(f, v, p, Len(p)) /\ Node(v, p) = f[Len(p)]
  BY <1>1, NodeDescends
<1>3. PICK g : Descends(g, v, q, Len(q)) /\ Node(v, q) = g[Len(q)]
  BY <1>1, NodeDescends
<1>4. PICK m \in Nat, n \in Nat : m = Len(p) /\ n = Len(q) /\ m <= n /\ n = m + 1
  BY <1>1
<1>5. \A i \in 0 .. m : f[i] = g[i]
  BY <1>1, <1>2, <1>3, <1>4, DescendAlike
<1>6. f[m] = g[m] /\ g[n] = At(g[n - 1])[q[n]] /\ n - 1 = m
  <2>1. m \in 0 .. m /\ n \in 0 .. n /\ n # 0
    BY <1>4
  <2>2. Descends(g, v, q, n)
    BY <1>3, <1>4
  <2>3. g[n] = At(g[n - 1])[q[n]]
    BY <2>1, <2>2 DEF Descends
  <2> QED
    BY <1>4, <1>5, <2>1, <2>3
<1> QED
  BY <1>1, <1>2, <1>3, <1>4, <1>6 DEF q

----------------------------------------------------------------------------
\* Paths.

\* Induction up to a number, with a set for the statement.
LEMMA Counted ==
  ASSUME NEW n \in Nat, NEW S, 0 \in S,
         \A i \in 0 .. n : i + 1 <= n /\ i \in S => i + 1 \in S
  PROVE  \A i \in 0 .. n : i \in S
<1> DEFINE T == {i \in 0 .. n : i \notin S}
<1> SUFFICES ASSUME T # {}
             PROVE  FALSE
  OBVIOUS
<1>1. T \in SUBSET Nat
  OBVIOUS
<1>2. PICK i \in T : \A y \in T : i <= y
  BY <1>1, Least
<1>3. i # 0 /\ i - 1 \in 0 .. n /\ (i - 1) + 1 = i /\ i - 1 \notin T
  BY <1>2
<1> QED
  BY <1>2, <1>3

\* The recursive function that Paths is defined with.
Longer(v, P) == UNION {{Append(p, k) : k \in Keys(Node(v, p))} : p \in P}
Grows(f, v, n) ==
  f = [d \in 0 .. n |-> IF d = 0 THEN {<<>>} ELSE f[d - 1] \cup Longer(v, f[d - 1])]

LEMMA GrowsExists == \A v : \A n \in Nat : \E f : Grows(f, v, n)
<1> TAKE v
<1> DEFINE T == {n \in Nat : ~ \E f : Grows(f, v, n)}
<1> SUFFICES ASSUME T # {}
             PROVE  FALSE
  OBVIOUS
<1>1. PICK n \in T : \A y \in T : n <= y
  BY Least
<1>2. CASE n = 0
  <2> DEFINE f == [d \in 0 .. 0 |-> {<<>>}]
  <2>1. f = [d \in 0 .. 0 |-> IF d = 0 THEN {<<>>} ELSE f[d - 1] \cup Longer(v, f[d - 1])]
    OBVIOUS
  <2>2. Grows(f, v, n)
    BY <2>1, <1>2 DEF Grows
  <2> QED
    BY <2>2
<1>3. CASE n # 0
  <2>1. n \in Nat /\ n - 1 \in Nat /\ n - 1 \notin T
    BY <1>1, <1>3
  <2>2. PICK f : Grows(f, v, n - 1)
    BY <2>1
  <2> DEFINE g == [d \in 0 .. n |-> IF d = 0 THEN {<<>>} ELSE f[d - 1] \cup Longer(v, f[d - 1])]
  <2>3. ASSUME NEW d \in 0 .. n - 1
        PROVE  g[d] = f[d]
    <3>1. f[d] = IF d = 0 THEN {<<>>} ELSE f[d - 1] \cup Longer(v, f[d - 1])
      BY <2>2 DEF Grows
    <3> QED
      BY <3>1, <2>1
  <2>4. ASSUME NEW d \in 0 .. n, d # 0
        PROVE  g[d - 1] = f[d - 1]
    <3>1. d - 1 \in 0 .. n - 1
      BY <2>1, <2>4
    <3> HIDE DEF g
    <3> QED
      BY <3>1, <2>3
  <2>5. g = [d \in 0 .. n |-> IF d = 0 THEN {<<>>} ELSE g[d - 1] \cup Longer(v, g[d - 1])]
    BY <2>4
  <2>6. Grows(g, v, n)
    BY <2>5 DEF Grows
  <2> QED
    BY <2>6
<1> QED
  BY <1>2, <1>3

LEMMA PathsGrow == \A v : \E f : Grows(f, v, MaxDepth) /\ Paths(v) = f[MaxDepth]
<1> TAKE v
<1> DEFINE f == CHOOSE g : Grows(g, v, MaxDepth)
<1>1. Paths(v) = f[MaxDepth]
  BY DEF Paths, Grows, Longer
<1>2. Grows(f, v, MaxDepth)
  BY GrowsExists, TreesAssumption
<1> QED
  BY <1>1, <1>2

\* What Grows says of one step.
LEMMA GrowsAt ==
  ASSUME NEW v, NEW f, Grows(f, v, MaxDepth)
  PROVE  /\ f[0] = {<<>>}
         /\ \A d \in 0 .. MaxDepth :
              d + 1 <= MaxDepth => f[d + 1] = f[d] \cup Longer(v, f[d])
<1>1. MaxDepth \in Nat /\ 0 \in 0 .. MaxDepth
  BY TreesAssumption
<1>2. f[0] = {<<>>}
  BY <1>1 DEF Grows
<1>3. ASSUME NEW d \in 0 .. MaxDepth, d + 1 <= MaxDepth
      PROVE  f[d + 1] = f[d] \cup Longer(v, f[d])
  <2>1. d + 1 \in 0 .. MaxDepth /\ d + 1 # 0 /\ (d + 1) - 1 = d
    BY <1>1, <1>3
  <2> QED
    BY <2>1 DEF Grows
<1> QED
  BY <1>2, <1>3

\* The paths up to a length are among those up to a greater one.
LEMMA GrowsMore ==
  ASSUME NEW v, NEW f, Grows(f, v, MaxDepth)
  PROVE  \A d \in 0 .. MaxDepth : \A e \in 0 .. MaxDepth : d <= e => f[d] \subseteq f[e]
<1> DEFINE N == 0 .. MaxDepth
<1>1. MaxDepth \in Nat /\ 0 \in N /\ MaxDepth \in N
  BY TreesAssumption
<1>3. /\ f[0] = {<<>>}
      /\ \A d \in N : d + 1 <= MaxDepth => f[d + 1] = f[d] \cup Longer(v, f[d])
  BY GrowsAt
<1>4. \A d \in N : \A e \in N : d <= e => f[d] \subseteq f[e]
  <2> DEFINE S == {e \in N : \A d \in N : d <= e => f[d] \subseteq f[e]}
  <2>1. 0 \in S
    BY <1>1
  <2>2. ASSUME NEW i \in N, i + 1 <= MaxDepth, i \in S
        PROVE  i + 1 \in S
    <3>1. i + 1 \in N /\ f[i] \subseteq f[i + 1]
      BY <1>1, <1>3, <2>2
    <3>2. ASSUME NEW d \in N, d <= i + 1
          PROVE  f[d] \subseteq f[i + 1]
      <4>1. d <= i \/ d = i + 1
        BY <3>2
      <4> QED
        BY <4>1, <3>1, <2>2
    <3> QED
      BY <3>1, <3>2
  <2>3. \A i \in 0 .. MaxDepth : i \in S
    <3> HIDE DEF S
    <3> QED
      BY <1>1, <2>1, <2>2, Counted
  <2> QED
    BY <2>3
<1> QED
  BY <1>4

\* All keys on the paths of a tree.
PathKeys(v) == UNION {Keys(Node(v, p)) : p \in Paths(v)}

\* What the paths of a tree are: the empty one, and those that a key makes longer.
LEMMA PathsAre ==
  ASSUME NEW v
  PROVE  /\ <<>> \in Paths(v)
         /\ \A p \in Paths(v) : p \in Seq(PathKeys(v)) /\ Len(p) \in 0 .. MaxDepth
         /\ \A p \in Paths(v) : \A k \in Keys(Node(v, p)) :
              Len(p) < MaxDepth => Append(p, k) \in Paths(v)
         /\ \A p \in Paths(v) :
              p # <<>> => \E q \in Paths(v) : \E k \in Keys(Node(v, q)) : p = Append(q, k)
<1> DEFINE N == 0 .. MaxDepth
<1>1. MaxDepth \in Nat /\ 0 \in N /\ MaxDepth \in N
  BY TreesAssumption
<1>2. PICK f : Grows(f, v, MaxDepth) /\ Paths(v) = f[MaxDepth]
  BY PathsGrow
<1>3. /\ f[0] = {<<>>}
      /\ \A d \in N : d + 1 <= MaxDepth => f[d + 1] = f[d] \cup Longer(v, f[d])
  BY <1>2, GrowsAt
<1>4. \A d \in N : \A e \in N : d <= e => f[d] \subseteq f[e]
  BY <1>2, GrowsMore
<1>5. \A d \in N : \A p \in f[d] :
        /\ p \in Seq(PathKeys(v)) /\ Len(p) \in 0 .. d /\ p \in f[Len(p)]
        /\ p # <<>> => \E q \in Paths(v) : \E k \in Keys(Node(v, q)) : p = Append(q, k)
  <2> DEFINE G(p, d) ==
        /\ p \in Seq(PathKeys(v)) /\ Len(p) \in 0 .. d /\ p \in f[Len(p)]
        /\ p # <<>> => \E q \in Paths(v) : \E k \in Keys(Node(v, q)) : p = Append(q, k)
      S == {d \in N : \A p \in f[d] : G(p, d)}
  <2>1. 0 \in S
    <3>1. <<>> \in Seq(PathKeys(v)) /\ Len(<<>>) = 0
      OBVIOUS
    <3>2. <<>> \in f[Len(<<>>)] /\ Len(<<>>) \in 0 .. 0
      BY <3>1, <1>3
    <3>3. G(<<>>, 0)
      BY <3>1, <3>2
    <3> HIDE DEF G
    <3> QED
      BY <3>3, <1>1, <1>3
  <2>2. ASSUME NEW i \in N, i + 1 <= MaxDepth, i \in S
        PROVE  i + 1 \in S
    <3>1. i + 1 \in N /\ f[i] \subseteq Paths(v)
      BY <1>1, <1>2, <1>4, <2>2
    <3>2. ASSUME NEW p \in f[i + 1]
          PROVE  G(p, i + 1)
      <4>1. CASE p \in f[i]
        <5>1. G(p, i)
          BY <4>1, <2>2
        <5> QED
          BY <5>1, <3>1
      <4>2. CASE p \notin f[i]
        <5>1a. PICK q \in f[i] : \E k \in Keys(Node(v, q)) : p = Append(q, k)
          BY <4>2, <1>3, <2>2 DEF Longer
        <5>1. PICK k \in Keys(Node(v, q)) : p = Append(q, k)
          BY <5>1a
        <5>2. q \in Paths(v) /\ G(q, i) /\ k \in PathKeys(v)
          BY <5>1, <3>1, <2>2 DEF PathKeys
        <5>3. p \in Seq(PathKeys(v)) /\ Len(p) = Len(q) + 1 /\ Len(p) \in 0 .. i + 1
          BY <5>1, <5>2
        <5>4. Len(q) \in N /\ Len(q) + 1 <= MaxDepth
          BY <5>2, <2>2, <1>1
        <5>5. p \in Longer(v, f[Len(q)])
          BY <5>1, <5>2 DEF Longer
        <5>6. p \in f[Len(p)]
          BY <5>3, <5>4, <5>5, <1>3
        <5> QED
          BY <5>1, <5>2, <5>3, <5>6
      <4> QED
        BY <4>1, <4>2
    <3> QED
      BY <3>1, <3>2
  <2>3. \A i \in 0 .. MaxDepth : i \in S
    <3> HIDE DEF S
    <3> QED
      BY <1>1, <2>1, <2>2, Counted
  <2> QED
    BY <2>3
<1>6. ASSUME NEW p \in Paths(v), NEW k \in Keys(Node(v, p)), Len(p) < MaxDepth
      PROVE  Append(p, k) \in Paths(v)
  <2>1. Len(p) \in N /\ Len(p) + 1 \in N /\ Len(p) + 1 <= MaxDepth /\ p \in f[Len(p)]
    BY <1>1, <1>2, <1>5, <1>6
  <2>2. Append(p, k) \in Longer(v, f[Len(p)])
    BY <2>1 DEF Longer
  <2>3. f[Len(p) + 1] = f[Len(p)] \cup Longer(v, f[Len(p)])
    BY <2>1, <1>3
  <2> QED
    BY <2>1, <2>2, <2>3, <1>1, <1>2, <1>4
<1>7. <<>> \in Paths(v)
  BY <1>1, <1>2, <1>3, <1>4
<1> QED
  BY <1>1, <1>2, <1>5, <1>6, <1>7

\* What holds of the empty path and is passed on from each path to the longer
\* ones holds of all of them.
LEMMA PathsDown ==
  ASSUME NEW v, NEW S, <<>> \in S,
         \A p \in Paths(v) : \A k \in Keys(Node(v, p)) :
           p \in S /\ Append(p, k) \in Paths(v) => Append(p, k) \in S
  PROVE  \A p \in Paths(v) : p \in S
<1>1. MaxDepth \in Nat
  BY TreesAssumption
<1> DEFINE C == {i \in 0 .. MaxDepth : \A p \in Paths(v) : Len(p) = i => p \in S}
<1>2. 0 \in C
  <2>1. ASSUME NEW p \in Paths(v), Len(p) = 0
        PROVE  p = <<>>
    BY <2>1, PathsAre
  <2> QED
    BY <2>1, <1>1
<1>3. ASSUME NEW i \in 0 .. MaxDepth, i + 1 <= MaxDepth, i \in C
      PROVE  i + 1 \in C
  <2>1. ASSUME NEW p \in Paths(v), Len(p) = i + 1
        PROVE  p \in S
    <3>1. p # <<>>
      BY <2>1, <1>3
    <3>2a. PICK q \in Paths(v) : \E k \in Keys(Node(v, q)) : p = Append(q, k)
      BY <3>1, PathsAre
    <3>2. PICK k \in Keys(Node(v, q)) : p = Append(q, k)
      BY <3>2a
    <3>3. q \in Seq(PathKeys(v)) /\ k \in PathKeys(v)
      BY <3>2, PathsAre DEF PathKeys
    <3>4. Len(q) = i
      BY <3>2, <3>3, <2>1, <1>3
    <3> QED
      BY <3>2, <3>4, <2>1, <1>3
  <2> QED
    BY <2>1, <1>1, <1>3
<1>4. \A i \in 0 .. MaxDepth : i \in C
  <2> HIDE DEF C
  <2> QED
    BY <1>1, <1>2, <1>3, Counted
<1> QED
  BY <1>4, PathsAre

\* What holds of a path if it holds of all that are longer by a key holds of
\* all of them, in a tree that is as shallow as trees must be.
LEMMA PathsUp ==
  ASSUME NEW v, NEW S, Shallow(v),
         \A p \in Paths(v) :
           (\A k \in Keys(Node(v, p)) : Append(p, k) \in Paths(v) /\ Append(p, k) \in S) => p \in S
  PROVE  \A p \in Paths(v) : p \in S
<1>1. MaxDepth \in Nat /\ MaxDepth \in 0 .. MaxDepth
  BY TreesAssumption
<1> DEFINE C == {i \in 0 .. MaxDepth : \A p \in Paths(v) : Len(p) >= MaxDepth - i => p \in S}
<1>2. 0 \in C
  <2>1. \A p \in Paths(v) : Len(p) < MaxDepth /\ Len(p) \in Nat
    BY PathsAre DEF Shallow
  <2> QED
    BY <2>1, <1>1
<1>3. ASSUME NEW i \in 0 .. MaxDepth, i + 1 <= MaxDepth, i \in C
      PROVE  i + 1 \in C
  <2>1. ASSUME NEW p \in Paths(v), Len(p) >= MaxDepth - (i + 1)
        PROVE  p \in S
    <3>1. ASSUME NEW k \in Keys(Node(v, p))
          PROVE  Append(p, k) \in Paths(v) /\ Append(p, k) \in S
      <4>0. p \in Seq(PathKeys(v)) /\ Len(p) \in Nat
        BY <1>1, PathsAre
      <4>1. p \in Seq(PathKeys(v)) /\ k \in PathKeys(v) /\ Len(p) < MaxDepth /\ Len(p) \in Nat
        BY <4>0 DEF Shallow, PathKeys
      <4>2. Append(p, k) \in Paths(v)
        BY <4>1, PathsAre
      <4>3. Len(Append(p, k)) = Len(p) + 1
        BY <4>1
      <4>4. Len(Append(p, k)) >= MaxDepth - i
        BY <4>1, <4>3, <2>1, <1>1, <1>3
      <4> QED
        BY <4>2, <4>4, <1>3
    <3> QED
      BY <3>1
  <2> QED
    BY <2>1, <1>1, <1>3
<1>4. \A i \in 0 .. MaxDepth : i \in C
  <2> HIDE DEF C
  <2> QED
    BY <1>1, <1>2, <1>3, Counted
<1>5. \A p \in Paths(v) : Len(p) >= MaxDepth - MaxDepth
  BY <1>1, PathsAre
<1> QED
  BY <1>1, <1>4, <1>5

\* One key further.
LEMMA Further ==
  ASSUME NEW v, NEW p \in Paths(v), NEW k
  PROVE  /\ k \in Keys(Node(v, p)) =>
              /\ Node(v, Append(p, k)) = At(Node(v, p))[k]
              /\ Shallow(v) => Append(p, k) \in Paths(v)
         /\ Append(p, k) \in Paths(v) => k \in Keys(Node(v, p))
         /\ Append(p, k) # <<>> /\ Parent(Append(p, k)) = p
         /\ Len(Append(p, k)) = Len(p) + 1
<1> DEFINE S == PathKeys(v) \cup {k}
<1>1. p \in Seq(PathKeys(v)) /\ p \in Seq(S) /\ k \in S
  BY PathsAre
<1>2. Append(p, k) # <<>> /\ Parent(Append(p, k)) = p /\ Len(Append(p, k)) = Len(p) + 1
  BY <1>1 DEF Parent
<1>3. ASSUME k \in Keys(Node(v, p))
      PROVE  /\ Node(v, Append(p, k)) = At(Node(v, p))[k]
             /\ Shallow(v) => Append(p, k) \in Paths(v)
  <2>1. Node(v, Append(p, k)) = At(Node(v, p))[k]
    BY <1>1, NodeOfMore
  <2>2. ASSUME Shallow(v)
        PROVE  Append(p, k) \in Paths(v)
    BY <1>3, <2>2, PathsAre DEF Shallow
  <2> QED
    BY <2>1, <2>2
<1>4. ASSUME Append(p, k) \in Paths(v)
      PROVE  k \in Keys(Node(v, p))
  <2>1a. PICK q \in Paths(v) : \E j \in Keys(Node(v, q)) : Append(p, k) = Append(q, j)
    BY <1>2, <1>4, PathsAre
  <2>1. PICK j \in Keys(Node(v, q)) : Append(p, k) = Append(q, j)
    BY <2>1a
  <2>2. q \in Seq(PathKeys(v)) /\ j \in PathKeys(v)
    BY <2>1, PathsAre DEF PathKeys
  <2>3. p = q /\ k = j
    <3> DEFINE U == S \cup PathKeys(v)
    <3>1. p \in Seq(U) /\ q \in Seq(U) /\ k \in U /\ j \in U
      BY <1>1, <2>2
    <3>2. Len(p) = Len(q)
      BY <2>1, <3>1
    <3>3. k = j
      BY <2>1, <3>1, <3>2
    <3>4. \A i \in 1 .. Len(p) : p[i] = q[i]
      <4>1. \A i \in 1 .. Len(p) : Append(p, k)[i] = p[i] /\ Append(q, j)[i] = q[i]
        BY <3>1, <3>2
      <4> QED
        BY <4>1, <2>1
    <3> QED
      BY <3>1, <3>2, <3>3, <3>4
  <2> QED
    BY <2>1, <2>3
<1> QED
  BY <1>2, <1>3, <1>4

----------------------------------------------------------------------------
\* Nodes and kinds of nodes.

Children(N) == UNION {{At(n)[k] : k \in Keys(n)} : n \in N}
Lowers(g, v, m) ==
  g = [d \in 0 .. m |-> IF d = 0 THEN {v} ELSE g[d - 1] \cup Children(g[d - 1])]

\* The nodes of a tree are those at its paths.
LEMMA NodesAre == \A v : Nodes(v) = {Node(v, p) : p \in Paths(v)}
<1> TAKE v
<1>1. MaxDepth \in Nat /\ MaxDepth \in 0 .. MaxDepth /\ 0 \in 0 .. MaxDepth
  BY TreesAssumption
<1>2. PICK f : Grows(f, v, MaxDepth) /\ Paths(v) = f[MaxDepth]
  BY PathsGrow
<1> DEFINE NodesOf(P) == {Node(v, p) : p \in P}
<1>3. NodesOf(f[0]) = {v}
  BY <1>2, GrowsAt, NodeOfNone
<1>4. ASSUME NEW d \in 0 .. MaxDepth, d + 1 <= MaxDepth
      PROVE  NodesOf(f[d + 1]) = NodesOf(f[d]) \cup Children(NodesOf(f[d]))
  <2>1. f[d + 1] = f[d] \cup Longer(v, f[d])
    BY <1>2, <1>4, GrowsAt
  <2>2. f[d] \subseteq Paths(v)
    BY <1>1, <1>2, GrowsMore
  <2>3. \A p \in f[d] : \A k \in Keys(Node(v, p)) : Node(v, Append(p, k)) = At(Node(v, p))[k]
    BY <2>2, Further
  <2>4. NodesOf(Longer(v, f[d])) = Children(NodesOf(f[d]))
    <3>1. ASSUME NEW n \in NodesOf(Longer(v, f[d]))
          PROVE  n \in Children(NodesOf(f[d]))
      <4>1. PICK q \in Longer(v, f[d]) : n = Node(v, q)
        OBVIOUS
      <4>2. PICK p \in f[d] : \E k \in Keys(Node(v, p)) : q = Append(p, k)
        BY <4>1 DEF Longer
      <4>3. PICK k \in Keys(Node(v, p)) : q = Append(p, k)
        BY <4>2
      <4>4. n = At(Node(v, p))[k] /\ Node(v, p) \in NodesOf(f[d])
        BY <4>1, <4>3, <2>3
      <4> HIDE DEF NodesOf
      <4> QED
        BY <4>4 DEF Children
    <3>2. ASSUME NEW n \in Children(NodesOf(f[d]))
          PROVE  n \in NodesOf(Longer(v, f[d]))
      <4>1. PICK m \in NodesOf(f[d]) : \E k \in Keys(m) : n = At(m)[k]
        BY DEF Children
      <4>2. PICK p \in f[d] : m = Node(v, p)
        OBVIOUS
      <4>3. PICK k \in Keys(Node(v, p)) : n = At(Node(v, p))[k]
        BY <4>1, <4>2
      <4>4. n = Node(v, Append(p, k)) /\ Append(p, k) \in Longer(v, f[d])
        BY <4>3, <2>3 DEF Longer
      <4> QED
        BY <4>4
    <3> QED
      BY <3>1, <3>2
  <2> QED
    BY <2>1, <2>4
<1> DEFINE g == [d \in 0 .. MaxDepth |-> NodesOf(f[d])]
<1>5. Lowers(g, v, MaxDepth)
  <2>1. ASSUME NEW d \in 0 .. MaxDepth
        PROVE  g[d] = IF d = 0 THEN {v} ELSE g[d - 1] \cup Children(g[d - 1])
    <3>1. CASE d = 0
      BY <3>1, <1>3
    <3>2. CASE d # 0
      <4>1. d - 1 \in 0 .. MaxDepth /\ (d - 1) + 1 = d /\ (d - 1) + 1 <= MaxDepth
        BY <3>2, <1>1
      <4>2. NodesOf(f[(d - 1) + 1]) = NodesOf(f[d - 1]) \cup Children(NodesOf(f[d - 1]))
        BY <4>1, <1>4
      <4>3. g[d] = NodesOf(f[d]) /\ g[d - 1] = NodesOf(f[d - 1])
        BY <4>1
      <4> HIDE DEF g, NodesOf
      <4> QED
        BY <3>2, <4>1, <4>2, <4>3
    <3> QED
      BY <3>1, <3>2
  <2>2. g = [d \in 0 .. MaxDepth |-> g[d]]
    OBVIOUS
  <2> HIDE DEF g
  <2> QED
    BY <2>1, <2>2 DEF Lowers
<1> HIDE DEF g
<1> DEFINE h == CHOOSE x : Lowers(x, v, MaxDepth)
<1>6. Lowers(h, v, MaxDepth)
  BY <1>5
<1>7. Nodes(v) = h[MaxDepth]
  BY DEF Nodes, Lowers, Children
<1> HIDE DEF h
<1>8. \A d \in 0 .. MaxDepth : h[d] = NodesOf(f[d])
  <2> DEFINE S == {d \in 0 .. MaxDepth : h[d] = NodesOf(f[d])}
  <2>1. 0 \in S
    BY <1>1, <1>3, <1>6 DEF Lowers
  <2>2. ASSUME NEW i \in 0 .. MaxDepth, i + 1 <= MaxDepth, i \in S
        PROVE  i + 1 \in S
    <3>1. i + 1 \in 0 .. MaxDepth /\ i + 1 # 0 /\ (i + 1) - 1 = i
      BY <1>1, <2>2
    <3>2. h[i + 1] = h[i] \cup Children(h[i])
      BY <3>1, <1>6 DEF Lowers
    <3> QED
      BY <3>1, <3>2, <1>4, <2>2
  <2>3. \A i \in 0 .. MaxDepth : i \in S
    <3> HIDE DEF S
    <3> QED
      BY <1>1, <2>1, <2>2, Counted
  <2> QED
    BY <2>3
<1> QED
  BY <1>1, <1>2, <1>7, <1>8

\* A map, a list and a leaf are three things.
LEMMA Kinds ==
  /\ \A f : LET n == Map(f) IN IsMap(n) /\ ~IsList(n) /\ ~IsLeaf(n) /\ At(n) = f /\ Keys(n) = DOMAIN f /\ DOMAIN n = {"map"}
  /\ \A s : LET n == List(s) IN IsList(n) /\ ~IsMap(n) /\ ~IsLeaf(n) /\ At(n) = s /\ Keys(n) = DOMAIN s /\ DOMAIN n = {"list"}
  /\ \A x : LET n == Leaf(x) IN IsLeaf(n) /\ ~IsMap(n) /\ ~IsList(n) /\ Keys(n) = {} /\ n.leaf = x /\ DOMAIN n = {"leaf"}
<1>1. ASSUME NEW f
      PROVE  LET n == Map(f) IN IsMap(n) /\ ~IsList(n) /\ ~IsLeaf(n) /\ At(n) = f /\ DOMAIN n = {"map"}
  BY DEF Map, IsMap, IsList, IsLeaf, At
<1>2. ASSUME NEW s
      PROVE  LET n == List(s) IN IsList(n) /\ ~IsMap(n) /\ ~IsLeaf(n) /\ At(n) = s /\ DOMAIN n = {"list"}
  BY DEF List, IsMap, IsList, IsLeaf, At
<1>3. ASSUME NEW x
      PROVE  LET n == Leaf(x) IN IsLeaf(n) /\ ~IsMap(n) /\ ~IsList(n) /\ At(n) = <<>> /\ n.leaf = x /\ DOMAIN n = {"leaf"}
  BY DEF Leaf, IsMap, IsList, IsLeaf, At
<1>4. DOMAIN <<>> = {}
  OBVIOUS
<1> QED
  BY <1>1, <1>2, <1>3, <1>4 DEF Keys

\* Each node is of one kind, and is told by its kind and what is in it.
LEMMA KindOf ==
  ASSUME NEW n, WellFormed(n)
  PROVE  \/ IsMap(n) /\ ~IsList(n) /\ ~IsLeaf(n) /\ n = Map(At(n)) /\ DOMAIN n = {"map"}
            /\ At(n) = [k \in Keys(n) |-> At(n)[k]]
         \/ IsList(n) /\ ~IsMap(n) /\ ~IsLeaf(n) /\ n = List(At(n)) /\ DOMAIN n = {"list"}
            /\ At(n) = [k \in Keys(n) |-> At(n)[k]]
         \/ IsLeaf(n) /\ ~IsMap(n) /\ ~IsList(n) /\ n = Leaf(n.leaf) /\ DOMAIN n = {"leaf"}
            /\ Keys(n) = {}
<1>1. CASE IsMap(n) /\ n = Map(At(n)) /\ At(n) = [k \in Keys(n) |-> At(n)[k]]
  <2> DEFINE f == At(n)
  <2>1. n = Map(f)
    BY <1>1
  <2> HIDE DEF f
  <2>2. IsMap(n) /\ ~IsList(n) /\ ~IsLeaf(n) /\ DOMAIN n = {"map"}
    BY <2>1, Kinds
  <2> QED
    BY <1>1, <2>2
<1>2. CASE IsList(n) /\ n = List(At(n)) /\ At(n) = [k \in Keys(n) |-> At(n)[k]]
  <2> DEFINE f == At(n)
  <2>1. n = List(f)
    BY <1>2
  <2> HIDE DEF f
  <2>2. IsList(n) /\ ~IsMap(n) /\ ~IsLeaf(n) /\ DOMAIN n = {"list"}
    BY <2>1, Kinds
  <2> QED
    BY <1>2, <2>2
<1>3. CASE IsLeaf(n) /\ n = Leaf(n.leaf)
  <2> DEFINE x == n.leaf
  <2>1. n = Leaf(x)
    BY <1>3
  <2> HIDE DEF x
  <2>2. IsLeaf(n) /\ ~IsMap(n) /\ ~IsList(n) /\ DOMAIN n = {"leaf"} /\ Keys(n) = {}
    BY <2>1, Kinds
  <2> QED
    BY <1>3, <2>2
<1> QED
  BY <1>1, <1>2, <1>3 DEF WellFormed

\* The nodes of a tree: those at its paths, well-formed, with all their children.
LEMMA TreeNodes ==
  ASSUME NEW v, IsTree(v)
  PROVE  /\ Shallow(v) /\ v \in Nodes(v)
         /\ \A p \in Paths(v) : Node(v, p) \in Nodes(v)
         /\ \A n \in Nodes(v) : WellFormed(n) /\ \A k \in Keys(n) : At(n)[k] \in Nodes(v)
<1>1. Shallow(v) /\ \A n \in Nodes(v) : WellFormed(n)
  BY DEF IsTree
<1>2. \A p \in Paths(v) : Node(v, p) \in Nodes(v)
  BY NodesAre
<1>3. v \in Nodes(v)
  BY <1>2, PathsAre, NodeOfNone
<1>4. ASSUME NEW n \in Nodes(v), NEW k \in Keys(n)
      PROVE  At(n)[k] \in Nodes(v)
  <2>1. PICK p \in Paths(v) : n = Node(v, p)
    BY NodesAre
  <2>2. Append(p, k) \in Paths(v) /\ Node(v, Append(p, k)) = At(n)[k]
    BY <2>1, <1>1, Further
  <2> QED
    BY <2>2, <1>2
<1> QED
  BY <1>1, <1>2, <1>3, <1>4

----------------------------------------------------------------------------
\* The recursive function of removeFields.

\* The nodes from a depth on, counted from below.
Low(v, i) == {Node(v, p) : p \in {q \in Paths(v) : Len(q) >= MaxDepth - i}}

LEMMA Ranks ==
  ASSUME NEW v, IsTree(v)
  PROVE  /\ Low(v, 0) = {} /\ Low(v, MaxDepth) = Nodes(v)
         /\ \A i \in 0 .. MaxDepth : i + 1 <= MaxDepth =>
              \A n \in Low(v, i + 1) : \A k \in Keys(n) : At(n)[k] \in Low(v, i)
         /\ \A i \in 0 .. MaxDepth : \A n \in Low(v, i) : n \in Nodes(v) /\ (i + 1 <= MaxDepth => n \in Low(v, i + 1))
<1>1. MaxDepth \in Nat /\ Shallow(v)
  BY TreesAssumption DEF IsTree
<1>2. \A p \in Paths(v) : Len(p) \in Nat /\ Len(p) < MaxDepth
  BY <1>1, PathsAre DEF Shallow
<1>3. Low(v, 0) = {}
  BY <1>1, <1>2 DEF Low
<1>4. Low(v, MaxDepth) = Nodes(v)
  <2>1. {q \in Paths(v) : Len(q) >= MaxDepth - MaxDepth} = Paths(v)
    BY <1>1, <1>2
  <2> QED
    BY <2>1, NodesAre DEF Low
<1>5. ASSUME NEW i \in 0 .. MaxDepth, i + 1 <= MaxDepth, NEW n \in Low(v, i + 1), NEW k \in Keys(n)
      PROVE  At(n)[k] \in Low(v, i)
  <2>1. PICK p \in Paths(v) : Len(p) >= MaxDepth - (i + 1) /\ n = Node(v, p)
    BY DEF Low
  <2>2. /\ Append(p, k) \in Paths(v) /\ Node(v, Append(p, k)) = At(n)[k]
        /\ Len(Append(p, k)) = Len(p) + 1
    BY <2>1, <1>1, Further
  <2>3. Len(Append(p, k)) >= MaxDepth - i
    BY <2>1, <2>2, <1>1, <1>2
  <2> QED
    BY <2>2, <2>3 DEF Low
<1>6. ASSUME NEW i \in 0 .. MaxDepth, NEW n \in Low(v, i)
      PROVE  n \in Nodes(v) /\ (i + 1 <= MaxDepth => n \in Low(v, i + 1))
  <2>1. PICK p \in Paths(v) : Len(p) >= MaxDepth - i /\ n = Node(v, p)
    BY DEF Low
  <2>2. Len(p) >= MaxDepth - (i + 1)
    BY <2>1, <1>1, <1>2
  <2> QED
    BY <2>1, <2>2, NodesAre DEF Low
<1> QED
  BY <1>3, <1>4, <1>5, <1>6

\* One step of removeFields, where g is the function that it is.
RemovedAt(g, c, l) ==
  IF IsMap(c) /\ IsMap(l)
    THEN Map([k \in MapKeys(c, l) |->
                IF k \in Keys(l) THEN g[<<At(c)[k], At(l)[k]>>] ELSE At(c)[k]])
  ELSE IF IsList(c) /\ IsList(l)
    THEN List([i \in ListKeys(c, l) |->
                 IF i \in Keys(c) THEN g[<<At(c)[i], At(l)[i]>>] ELSE At(l)[i]])
  ELSE l

LEMMA RemovedAlike ==
  ASSUME NEW g, NEW h, NEW c, NEW l,
         \A k \in Keys(c) \cap Keys(l) : g[<<At(c)[k], At(l)[k]>>] = h[<<At(c)[k], At(l)[k]>>]
  PROVE  RemovedAt(g, c, l) = RemovedAt(h, c, l)
<1>1. ASSUME NEW k \in MapKeys(c, l)
      PROVE  (IF k \in Keys(l) THEN g[<<At(c)[k], At(l)[k]>>] ELSE At(c)[k]) =
             (IF k \in Keys(l) THEN h[<<At(c)[k], At(l)[k]>>] ELSE At(c)[k])
  BY DEF MapKeys
<1>2. ASSUME NEW i \in ListKeys(c, l)
      PROVE  (IF i \in Keys(c) THEN g[<<At(c)[i], At(l)[i]>>] ELSE At(l)[i]) =
             (IF i \in Keys(c) THEN h[<<At(c)[i], At(l)[i]>>] ELSE At(l)[i])
  BY DEF ListKeys
<1>3. [k \in MapKeys(c, l) |-> IF k \in Keys(l) THEN g[<<At(c)[k], At(l)[k]>>] ELSE At(c)[k]] =
      [k \in MapKeys(c, l) |-> IF k \in Keys(l) THEN h[<<At(c)[k], At(l)[k]>>] ELSE At(c)[k]]
  BY <1>1
<1>4. [i \in ListKeys(c, l) |-> IF i \in Keys(c) THEN g[<<At(c)[i], At(l)[i]>>] ELSE At(l)[i]] =
      [i \in ListKeys(c, l) |-> IF i \in Keys(c) THEN h[<<At(c)[i], At(l)[i]>>] ELSE At(l)[i]]
  BY <1>2
<1> QED
  BY <1>3, <1>4 DEF RemovedAt

LEMMA RemovedIs ==
  ASSUME NEW config, NEW live, IsTree(config), IsTree(live)
  PROVE  \E g : /\ \A c \in Nodes(config) : \A l \in Nodes(live) : g[<<c, l>>] = RemovedAt(g, c, l)
                /\ removeFields(config, live) = g[<<config, live>>]
<1> DEFINE D == Nodes(config) \X Nodes(live)
           IsIt(g) == g = [x \in D |-> RemovedAt(g, x[1], x[2])]
           Below(g, i) == \A c \in Low(config, i) : \A l \in Nodes(live) : g[<<c, l>>] = RemovedAt(g, c, l)
           C == {i \in 0 .. MaxDepth : \E g : Below(g, i)}
<1>1. MaxDepth \in Nat /\ MaxDepth \in 0 .. MaxDepth /\ 0 \in 0 .. MaxDepth
  BY TreesAssumption
<1>2. 0 \in C
  BY <1>1, Ranks
<1>3. ASSUME NEW i \in 0 .. MaxDepth, i + 1 <= MaxDepth, i \in C
      PROVE  i + 1 \in C
  <2>1. PICK g : Below(g, i)
    BY <1>3
  <2> DEFINE h == [x \in D |-> IF x[1] \in Low(config, i) THEN g[x] ELSE RemovedAt(g, x[1], x[2])]
  <2>2. ASSUME NEW c \in Low(config, i + 1), NEW l \in Nodes(live)
        PROVE  h[<<c, l>>] = RemovedAt(h, c, l)
    <3>1. <<c, l>> \in D /\ <<c, l>>[1] = c /\ <<c, l>>[2] = l
      BY <1>3, Ranks
    <3>2. h[<<c, l>>] = RemovedAt(g, c, l)
      BY <3>1, <2>1
    <3>3. ASSUME NEW k \in Keys(c) \cap Keys(l)
          PROVE  h[<<At(c)[k], At(l)[k]>>] = g[<<At(c)[k], At(l)[k]>>]
      <4>1. At(c)[k] \in Low(config, i) /\ At(c)[k] \in Nodes(config)
        BY <1>3, Ranks
      <4>2. At(l)[k] \in Nodes(live)
        BY TreeNodes
      <4> QED
        BY <4>1, <4>2
    <3> HIDE DEF h
    <3>4. RemovedAt(g, c, l) = RemovedAt(h, c, l)
      BY <3>3, RemovedAlike
    <3> QED
      BY <3>2, <3>4
  <2>3. Below(h, i + 1)
    <3> HIDE DEF h
    <3> QED
      BY <2>2
  <2>4. i + 1 \in 0 .. MaxDepth
    BY <1>1, <1>3
  <2> HIDE DEF h, Below
  <2> QED
    BY <2>3, <2>4
<1>4. \A i \in 0 .. MaxDepth : i \in C
  <2> HIDE DEF C
  <2> QED
    BY <1>1, <1>2, <1>3, Counted
<1>5. PICK g : Below(g, MaxDepth)
  BY <1>1, <1>4
<1> DEFINE h == [x \in D |-> g[x]]
<1>6. ASSUME NEW x \in D
      PROVE  h[x] = RemovedAt(h, x[1], x[2])
  <2>1. x[1] \in Nodes(config) /\ x[2] \in Nodes(live) /\ x = <<x[1], x[2]>> /\ x[1] \in Low(config, MaxDepth)
    BY Ranks
  <2>2. h[x] = RemovedAt(g, x[1], x[2])
    BY <2>1, <1>5
  <2>3. ASSUME NEW k \in Keys(x[1]) \cap Keys(x[2])
        PROVE  h[<<At(x[1])[k], At(x[2])[k]>>] = g[<<At(x[1])[k], At(x[2])[k]>>]
    <3>1. At(x[1])[k] \in Nodes(config) /\ At(x[2])[k] \in Nodes(live)
      BY <2>1, TreeNodes
    <3> QED
      BY <3>1
  <2> HIDE DEF h
  <2>4. RemovedAt(g, x[1], x[2]) = RemovedAt(h, x[1], x[2])
    BY <2>3, RemovedAlike
  <2> QED
    BY <2>2, <2>4
<1>7. IsIt(h)
  <2>1. h = [x \in D |-> h[x]]
    OBVIOUS
  <2> HIDE DEF h
  <2> QED
    BY <2>1, <1>6
<1> DEFINE f == CHOOSE x : IsIt(x)
<1>8. IsIt(f)
  <2> HIDE DEF h, IsIt
  <2> QED
    BY <1>7
<1>9. removeFields(config, live) = f[<<config, live>>]
  BY DEF removeFields, RemovedAt
<1>10. ASSUME NEW c \in Nodes(config), NEW l \in Nodes(live)
       PROVE  f[<<c, l>>] = RemovedAt(f, c, l)
  <2> HIDE DEF f
  <2>1. <<c, l>> \in D
    OBVIOUS
  <2> QED
    BY <1>8, <2>1
<1> QED
  BY <1>9, <1>10

----------------------------------------------------------------------------
\* removeFields leaves the configuration if and only if the live object says so.

\* An empty value has nothing in it, and a map or list with nothing in it is empty.
LEMMA EmptyKeys ==
  ASSUME NEW n, WellFormed(n)
  PROVE  /\ isEmptyValue(n) => Keys(n) = {}
         /\ ~IsLeaf(n) => (isEmptyValue(n) <=> Keys(n) = {})
BY KindOf DEF isEmptyValue

\* One node of both: they are as the other says.
Says(c, l) ==
  /\ Alike(c, l)
  /\ \A k \in Keys(c) : k \in Keys(l) \/ (IsMap(c) /\ isEmptyValue(At(c)[k]))

LEMMA RemovedAtSays ==
  ASSUME NEW g, NEW c, NEW l, WellFormed(c), WellFormed(l)
  PROVE  RemovedAt(g, c, l) = c <=>
           Says(c, l) /\ \A k \in Keys(c) \cap Keys(l) : g[<<At(c)[k], At(l)[k]>>] = At(c)[k]
<1>1. CASE IsMap(c) /\ IsMap(l)
  <2> DEFINE f == [k \in MapKeys(c, l) |-> IF k \in Keys(l) THEN g[<<At(c)[k], At(l)[k]>>] ELSE At(c)[k]]
  <2>1. RemovedAt(g, c, l) = Map(f)
    BY <1>1 DEF RemovedAt
  <2>2. /\ c = Map(At(c)) /\ At(c) = [k \in Keys(c) |-> At(c)[k]] /\ Alike(c, l)
        /\ ~IsLeaf(c) /\ ~IsList(c)
    BY <1>1, KindOf DEF Alike
  <2>3. RemovedAt(g, c, l) = c <=> f = At(c)
    <3> DEFINE a == At(c)
    <3>1. c = Map(a)
      BY <2>2
    <3> HIDE DEF a, f
    <3>2. At(Map(a)) = a /\ At(Map(f)) = f
      BY Kinds
    <3>3. f = a <=> Map(f) = Map(a)
      BY <3>2
    <3>4. a = At(c)
      BY DEF a
    <3> QED
      BY <2>1, <3>1, <3>3, <3>4
  <2>4. ASSUME f = At(c)
        PROVE  /\ \A k \in Keys(c) : k \in Keys(l) \/ isEmptyValue(At(c)[k])
               /\ \A k \in Keys(c) \cap Keys(l) : g[<<At(c)[k], At(l)[k]>>] = At(c)[k]
    <3>1. DOMAIN f = Keys(c) /\ MapKeys(c, l) = Keys(c)
      BY <2>4 DEF Keys
    <3>2. \A k \in Keys(c) : f[k] = IF k \in Keys(l) THEN g[<<At(c)[k], At(l)[k]>>] ELSE At(c)[k]
      BY <3>1
    <3>3. \A k \in Keys(c) : f[k] = At(c)[k]
      BY <2>4
    <3> HIDE DEF f
    <3> QED
      BY <3>1, <3>2, <3>3 DEF MapKeys
  <2>5. ASSUME \A k \in Keys(c) : k \in Keys(l) \/ isEmptyValue(At(c)[k]),
               \A k \in Keys(c) \cap Keys(l) : g[<<At(c)[k], At(l)[k]>>] = At(c)[k]
        PROVE  f = At(c)
    <3>1. MapKeys(c, l) = Keys(c)
      BY <2>5 DEF MapKeys
    <3>2. \A k \in Keys(c) : (IF k \in Keys(l) THEN g[<<At(c)[k], At(l)[k]>>] ELSE At(c)[k]) = At(c)[k]
      BY <2>5
    <3>3. f = [k \in Keys(c) |-> At(c)[k]]
      BY <3>1, <3>2
    <3> HIDE DEF f
    <3> QED
      BY <2>2, <3>3
  <2> QED
    BY <1>1, <2>2, <2>3, <2>4, <2>5 DEF Says
<1>2. CASE IsList(c) /\ IsList(l)
  <2> DEFINE f == [i \in ListKeys(c, l) |-> IF i \in Keys(c) THEN g[<<At(c)[i], At(l)[i]>>] ELSE At(l)[i]]
  <2>1. /\ c = List(At(c)) /\ At(c) = [k \in Keys(c) |-> At(c)[k]]
        /\ ~IsLeaf(c) /\ ~IsMap(c) /\ DOMAIN c = DOMAIN l
    BY <1>2, KindOf
  <2>2. RemovedAt(g, c, l) = List(f)
    BY <1>2, <2>1 DEF RemovedAt
  <2>3. RemovedAt(g, c, l) = c <=> f = At(c)
    <3> DEFINE a == At(c)
    <3>1. c = List(a)
      BY <2>1
    <3> HIDE DEF a, f
    <3>2. At(List(a)) = a /\ At(List(f)) = f
      BY Kinds
    <3>3. f = a <=> List(f) = List(a)
      BY <3>2
    <3>4. a = At(c)
      BY DEF a
    <3> QED
      BY <2>2, <3>1, <3>3, <3>4
  <2>4. ASSUME f = At(c)
        PROVE  Keys(c) = Keys(l) /\ \A k \in Keys(c) : g[<<At(c)[k], At(l)[k]>>] = At(c)[k]
    <3>1. DOMAIN f = Keys(c) /\ Keys(l) = Keys(c)
      BY <2>4 DEF Keys, ListKeys
    <3>2. \A k \in Keys(c) : f[k] = g[<<At(c)[k], At(l)[k]>>]
      BY <3>1 DEF ListKeys
    <3>3. \A k \in Keys(c) : f[k] = At(c)[k]
      BY <2>4
    <3> HIDE DEF f
    <3> QED
      BY <3>1, <3>2, <3>3
  <2>5. ASSUME Keys(c) = Keys(l), \A k \in Keys(c) : g[<<At(c)[k], At(l)[k]>>] = At(c)[k]
        PROVE  f = At(c)
    <3>1. f = [k \in Keys(c) |-> At(c)[k]]
      BY <2>5 DEF ListKeys
    <3> HIDE DEF f
    <3> QED
      BY <2>1, <3>1
  <2>6. Says(c, l) => Keys(c) = Keys(l)
    BY <1>2 DEF Says, Alike
  <2>7. Keys(c) = Keys(l) => Says(c, l)
    BY <1>2, <2>1 DEF Says, Alike
  <2> QED
    BY <2>3, <2>4, <2>5, <2>6, <2>7
<1>3. CASE ~(IsMap(c) /\ IsMap(l)) /\ ~(IsList(c) /\ IsList(l))
  <2>1. RemovedAt(g, c, l) = l
    BY <1>3 DEF RemovedAt
  <2>2. l = c => IsLeaf(c) /\ Keys(c) = {}
    BY <1>3, KindOf
  <2>3. l = c => Says(c, l) /\ \A k \in Keys(c) \cap Keys(l) : g[<<At(c)[k], At(l)[k]>>] = At(c)[k]
    BY <2>2, KindOf DEF Says, Alike
  <2>4. ASSUME Says(c, l)
        PROVE  l = c
    <3>1. DOMAIN c = DOMAIN l /\ IsLeaf(c) => c.leaf = l.leaf
      BY <2>4 DEF Says, Alike
    <3>2. DOMAIN c = DOMAIN l
      BY <2>4 DEF Says, Alike
    <3>3. IsLeaf(c) /\ IsLeaf(l)
      BY <1>3, <3>2, KindOf DEF IsMap, IsList, IsLeaf
    <3>4. c = Leaf(c.leaf) /\ l = Leaf(l.leaf)
      BY <3>3, KindOf
    <3> QED
      BY <3>1, <3>2, <3>3, <3>4
  <2> QED
    BY <2>1, <2>3, <2>4
<1> QED
  BY <1>1, <1>2, <1>3

\* What Holds says of a path.
HeldAt(c, l, p) ==
  IF p \in Paths(l) THEN Alike(Node(c, p), Node(l, p))
  ELSE /\ p # <<>> /\ Parent(p) \in Paths(l)
       /\ IsMap(Node(c, Parent(p)))
       /\ isEmptyValue(Node(c, p))

\* The comparison of the code and that of the reference definition agree.
LEMMA RemovedIffHolds ==
  ASSUME NEW config, NEW live, IsTree(config), IsTree(live)
  PROVE  removeFields(config, live) = config <=> Holds(config, live)
<1>1. PICK g : /\ \A c \in Nodes(config) : \A l \in Nodes(live) : g[<<c, l>>] = RemovedAt(g, c, l)
               /\ removeFields(config, live) = g[<<config, live>>]
  BY RemovedIs
<1> DEFINE Both(p) == p \in Paths(config) /\ p \in Paths(live)
           c(p) == Node(config, p)
           l(p) == Node(live, p)
           Same(p) == g[<<c(p), l(p)>>] = c(p)
<1>2. ASSUME NEW p, Both(p)
      PROVE  /\ WellFormed(c(p)) /\ WellFormed(l(p))
             /\ Same(p) <=> Says(c(p), l(p)) /\ \A k \in Keys(c(p)) \cap Keys(l(p)) : g[<<At(c(p))[k], At(l(p))[k]>>] = At(c(p))[k]
  <2>1. c(p) \in Nodes(config) /\ l(p) \in Nodes(live) /\ WellFormed(c(p)) /\ WellFormed(l(p))
    BY <1>2, TreeNodes
  <2>2. g[<<c(p), l(p)>>] = RemovedAt(g, c(p), l(p))
    BY <1>1, <2>1
  <2> HIDE DEF c, l
  <2> QED
    BY <2>1, <2>2, RemovedAtSays
<1>3. ASSUME NEW p \in Paths(config), NEW k \in Keys(c(p))
      PROVE  /\ Append(p, k) \in Paths(config) /\ c(Append(p, k)) = At(c(p))[k]
             /\ Append(p, k) # <<>> /\ Parent(Append(p, k)) = p
             /\ p \in Paths(live) => (Append(p, k) \in Paths(live) <=> k \in Keys(l(p)))
             /\ p \in Paths(live) /\ k \in Keys(l(p)) => l(Append(p, k)) = At(l(p))[k]
  BY Further DEF IsTree
<1>4. <<>> \in Paths(config) /\ <<>> \in Paths(live) /\ c(<<>>) = config /\ l(<<>>) = live
  BY PathsAre, NodeOfNone
<1> HIDE DEF c, l
<1>5. ASSUME removeFields(config, live) = config
      PROVE  Holds(config, live)
  <2> DEFINE S == {p \in Paths(config) : IF p \in Paths(live) THEN Same(p) ELSE HeldAt(config, live, p)}
  <2>1. <<>> \in S
    BY <1>1, <1>4, <1>5
  <2>2. ASSUME NEW p \in Paths(config), NEW k \in Keys(c(p)), p \in S, Append(p, k) \in Paths(config)
        PROVE  Append(p, k) \in S
    <3>1. CASE p \notin Paths(live)
      <4>1. isEmptyValue(c(p)) /\ WellFormed(c(p))
        BY <3>1, <2>2, TreeNodes DEF HeldAt, c
      <4> QED
        BY <4>1, <2>2, EmptyKeys
    <3>2. CASE p \in Paths(live)
      <4>1. Same(p)
        BY <3>2, <2>2
      <4>2. /\ Says(c(p), l(p))
            /\ \A j \in Keys(c(p)) \cap Keys(l(p)) : g[<<At(c(p))[j], At(l(p))[j]>>] = At(c(p))[j]
        BY <3>2, <4>1, <1>2
      <4>3. CASE k \in Keys(l(p))
        BY <4>2, <4>3, <3>2, <1>3
      <4>4. CASE k \notin Keys(l(p))
        <5>1. IsMap(c(p)) /\ isEmptyValue(At(c(p))[k])
          BY <4>2, <4>4, <2>2 DEF Says
        <5> QED
          BY <5>1, <4>4, <3>2, <1>3 DEF HeldAt, c
      <4> QED
        BY <4>3, <4>4
    <3> QED
      BY <3>1, <3>2
  <2>3. \A p \in Paths(config) : p \in S
    <3> HIDE DEF S
    <3> QED
      BY <2>1, <2>2, PathsDown DEF c
  <2>4. ASSUME NEW p \in Paths(config)
        PROVE  HeldAt(config, live, p)
    <3>1. CASE p \in Paths(live)
      <4>1. Same(p)
        BY <2>3, <3>1
      <4>2. Alike(c(p), l(p))
        BY <4>1, <3>1, <1>2 DEF Says
      <4> QED
        BY <4>2, <3>1 DEF HeldAt, c, l
    <3>2. CASE p \notin Paths(live)
      BY <2>3, <3>2
    <3> QED
      BY <3>1, <3>2
  <2> QED
    BY <2>4 DEF Holds, HeldAt
<1>6. ASSUME Holds(config, live)
      PROVE  removeFields(config, live) = config
  <2>1. \A p \in Paths(config) : HeldAt(config, live, p)
    BY <1>6 DEF Holds, HeldAt
  <2> DEFINE S == {p \in Paths(config) : p \in Paths(live) => Same(p)}
  <2>2. ASSUME NEW p \in Paths(config),
               \A k \in Keys(c(p)) : Append(p, k) \in Paths(config) /\ Append(p, k) \in S
        PROVE  p \in S
    <3> SUFFICES ASSUME p \in Paths(live)
                 PROVE  Same(p)
      OBVIOUS
    <3>1. Alike(c(p), l(p))
      BY <2>1 DEF HeldAt, c, l
    <3>2. ASSUME NEW k \in Keys(c(p))
          PROVE  IF k \in Keys(l(p)) THEN g[<<At(c(p))[k], At(l(p))[k]>>] = At(c(p))[k]
                 ELSE IsMap(c(p)) /\ isEmptyValue(At(c(p))[k])
      <4>1. CASE k \in Keys(l(p))
        <5>1. Append(p, k) \in S /\ Append(p, k) \in Paths(live)
          BY <4>1, <2>2, <1>3
        <5>2. Same(Append(p, k))
          BY <5>1
        <5> QED
          BY <5>2, <4>1, <1>3
      <4>2. CASE k \notin Keys(l(p))
        <5>1. HeldAt(config, live, Append(p, k)) /\ Append(p, k) \notin Paths(live)
          BY <4>2, <2>1, <1>3
        <5>2. IsMap(c(p)) /\ isEmptyValue(c(Append(p, k)))
          BY <5>1, <1>3 DEF HeldAt, c
        <5> QED
          BY <5>2, <4>2, <1>3
      <4> QED
        BY <4>1, <4>2
    <3>3. Says(c(p), l(p))
      BY <3>1, <3>2 DEF Says
    <3> QED
      BY <3>2, <3>3, <1>2
  <2>3. \A p \in Paths(config) : p \in S
    <3> HIDE DEF S
    <3> QED
      BY <2>2, PathsUp DEF IsTree, c
  <2>4. Same(<<>>)
    BY <2>3, <1>4
  <2> QED
    BY <2>4, <1>1, <1>4
<1> QED
  BY <1>5, <1>6

----------------------------------------------------------------------------
\* The state of the objects and the runs.

ObjectOK(o) ==
  /\ DOMAIN o = {"body", "kubecfg", "kubectl"}
  /\ IsTree(o.body)

StoreOK ==
  /\ store = [n \in Names |-> store[n]] /\ owner = [n \in Names |-> owner[n]]
  /\ \A n \in Names : store[n] # None => ObjectOK(store[n])

Fields == {"pc", "config", "strategy", "todo", "diffFound", "differed", "excuses", "quiet"}

RunOK(s) ==
  /\ DOMAIN s = Fields
  /\ s.diffFound \in BOOLEAN /\ s.quiet \in BOOLEAN
  /\ s.pc \in {"idle", "compare", "same", "differs", "failed"}
  /\ s.pc = "idle" => s.todo = {}
  /\ s.pc # "idle" => s.config \in Configs /\ s.todo \subseteq DOMAIN s.config
  /\ s.pc = "compare" => s.todo # {}
  /\ s.pc = "same" => s.todo = {} /\ ~s.diffFound
  /\ s.pc = "differs" => s.todo = {} /\ s.diffFound
  /\ s.diffFound <=> s.differed # {}

DiffInv ==
  /\ StoreOK
  /\ run = [r \in Runs |-> run[r]] /\ \A r \in Runs : RunOK(run[r])

\* What the assumptions say of a configuration.
LEMMA ConfigIs ==
  ASSUME NEW c \in Configs
  PROVE  DOMAIN c \subseteq Names /\ \A n \in DOMAIN c : c[n] \in Bodies /\ c[n] # None /\ IsMap(c[n]) /\ IsTree(c[n])
<1>1. DOMAIN c \subseteq Names /\ \A n \in DOMAIN c : c[n] \in Bodies
  BY DiffAssumption
<1> QED
  BY <1>1, TreesAssumption

\* There is a first one of the objects that are left to read.
LEMMA CurrentIs ==
  ASSUME NEW r \in Runs, run[r].todo \subseteq Names, run[r].todo # {}
  PROVE  Current(r) \in run[r].todo
<1> DEFINE T == {Place[n] : n \in run[r].todo}
<1>1. T \in SUBSET Nat /\ T # {}
  BY DiffAssumption
<1>2. PICK x \in T : \A y \in T : x <= y
  BY <1>1, Least
<1>3. \E n \in run[r].todo : \A m \in run[r].todo : Place[n] <= Place[m]
  BY <1>2
<1> QED
  BY <1>3 DEF Current

\* What the code compares differs if and only if something is really different.
LEMMA DifferentIff ==
  ASSUME NEW strategy, NEW c \in Bodies, NEW o, o # None, ObjectOK(o)
  PROVE  getLiveObjObject(strategy, c, o) # c <=> Differs(strategy, c, o)
<1>1. IsMap(c) /\ IsTree(c) /\ IsTree(o.body)
  BY TreesAssumption DEF ObjectOK
<1>2. removeFields(c, o.body) = c <=> Holds(c, o.body)
  BY <1>1, RemovedIffHolds
<1>3. CASE strategy = "subset"
  BY <1>2, <1>3 DEF getLiveObjObject, Differs
<1>4. CASE strategy = "last-applied"
  BY <1>4 DEF getLiveObjObject, Differs, origObject
<1>5. CASE strategy # "subset" /\ strategy # "last-applied"
  <2>1. o # c
    <3>1. "body" \in DOMAIN o /\ "map" \in DOMAIN c /\ "map" \notin DOMAIN o
      BY <1>1 DEF ObjectOK, IsMap
    <3> QED
      BY <3>1
  <2>2. origObject(o) = None <=> o.kubecfg = None /\ o.kubectl = None
    BY DEF origObject
  <2>3. getLiveObjObject(strategy, c, o) = IF origObject(o) = None THEN o.body ELSE o
    BY <1>5 DEF getLiveObjObject
  <2>4. Differs(strategy, c, o) <=> c # o.body \/ o.kubecfg # None \/ o.kubectl # None
    BY <1>5 DEF Differs
  <2> QED
    BY <2>1, <2>2, <2>3, <2>4
<1> QED
  BY <1>3, <1>4, <1>5

\* The record of a run after it has compared an object: that of its fields that
\* it changes, and the others.
LEMMA FieldsWith ==
  ASSUME NEW s, DOMAIN s = Fields, NEW t, NEW f, NEW d, NEW v
  PROVE  LET a == [s EXCEPT !.todo = t, !.diffFound = f, !.differed = d, !.excuses = v]
         IN /\ DOMAIN a = Fields /\ a.todo = t /\ a.diffFound = f /\ a.differed = d /\ a.excuses = v
            /\ a.pc = s.pc /\ a.config = s.config /\ a.strategy = s.strategy /\ a.quiet = s.quiet
BY DEF Fields

LEMMA FieldWith ==
  ASSUME NEW s, DOMAIN s = Fields, NEW x
  PROVE  /\ LET a == [s EXCEPT !.pc = x]
            IN /\ DOMAIN a = Fields /\ a.pc = x
               /\ a.todo = s.todo /\ a.diffFound = s.diffFound /\ a.differed = s.differed /\ a.excuses = s.excuses
               /\ a.config = s.config /\ a.strategy = s.strategy /\ a.quiet = s.quiet
         /\ LET a == [s EXCEPT !.quiet = x]
            IN /\ DOMAIN a = Fields /\ a.pc = s.pc
               /\ a.todo = s.todo /\ a.diffFound = s.diffFound /\ a.differed = s.differed /\ a.excuses = s.excuses
               /\ a.config = s.config /\ a.strategy = s.strategy /\ a.quiet = x
BY DEF Fields

LEMMA ComparedIs ==
  ASSUME NEW r \in Runs, NEW n, NEW different, RunOK(run[r]), Compared(r, n, different),
         run = [q \in Runs |-> run[q]]
  PROVE  /\ run' = [q \in Runs |-> run'[q]] /\ \A q \in Runs \ {r} : run'[q] = run[q]
         /\ LET s == run[r]
                a == run'[r]
            IN /\ DOMAIN a = Fields
               /\ a.todo = s.todo \ {n}
               /\ a.diffFound = (s.diffFound \/ different)
               /\ a.differed = IF Differs(s.strategy, s.config[n], store[n]) THEN s.differed \cup {n} ELSE s.differed
               /\ a.excuses = (s.excuses \cup Excuses(n, s.config[n]))
               /\ a.pc = Verdict(a)
               /\ a.config = s.config /\ a.strategy = s.strategy /\ a.quiet = s.quiet
<1> DEFINE s == run[r]
           t == s.todo \ {n}
           f == s.diffFound \/ different
           d == IF Differs(s.strategy, s.config[n], store[n]) THEN s.differed \cup {n} ELSE s.differed
           v == s.excuses \cup Excuses(n, s.config[n])
           b == [s EXCEPT !.todo = t, !.diffFound = f, !.differed = d, !.excuses = v]
           a == [b EXCEPT !.pc = Verdict(b)]
<1>1. run' = [run EXCEPT ![r] = a]
  BY DEF Compared, Found
<1> HIDE DEF t, f, d, v, s
<1>2. DOMAIN s = Fields
  BY DEF RunOK, s
<1>3. /\ DOMAIN b = Fields /\ b.todo = t /\ b.diffFound = f /\ b.differed = d /\ b.excuses = v
      /\ b.pc = s.pc /\ b.config = s.config /\ b.strategy = s.strategy /\ b.quiet = s.quiet
  BY <1>2, FieldsWith
<1> HIDE DEF b
<1>4. /\ DOMAIN a = Fields /\ a.pc = Verdict(b)
      /\ a.todo = t /\ a.diffFound = f /\ a.differed = d /\ a.excuses = v
      /\ a.config = s.config /\ a.strategy = s.strategy /\ a.quiet = s.quiet
  BY <1>3, FieldWith
<1>5. a.todo = b.todo /\ a.diffFound = b.diffFound
  BY <1>3, <1>4
<1>6. Verdict(b) = Verdict(a)
  BY <1>5 DEF Verdict
<1> HIDE DEF a
<1>7. run' = [q \in Runs |-> run'[q]] /\ run'[r] = a /\ \A q \in Runs \ {r} : run'[q] = run[q]
  BY <1>1
<1> QED
  BY <1>4, <1>6, <1>7 DEF t, f, d, v, s

\* The records of objects.
LEMMA ObjectFields ==
  /\ \A b, c, k : LET o == Object(b, c, k)
                  IN DOMAIN o = {"body", "kubecfg", "kubectl"} /\ o.body = b /\ o.kubecfg = c /\ o.kubectl = k
  /\ \A o, b, k : DOMAIN o = {"body", "kubecfg", "kubectl"} =>
       /\ LET a == [o EXCEPT !.body = b]
          IN DOMAIN a = {"body", "kubecfg", "kubectl"} /\ a.body = b /\ a.kubecfg = o.kubecfg /\ a.kubectl = o.kubectl
       /\ LET a == [o EXCEPT !.body = b, !.kubectl = k]
          IN DOMAIN a = {"body", "kubecfg", "kubectl"} /\ a.body = b /\ a.kubecfg = o.kubecfg /\ a.kubectl = k
<1>1. ASSUME NEW b, NEW c, NEW k
      PROVE  LET o == Object(b, c, k)
             IN DOMAIN o = {"body", "kubecfg", "kubectl"} /\ o.body = b /\ o.kubecfg = c /\ o.kubectl = k
  BY DEF Object
<1>2. ASSUME NEW o, NEW b, NEW k, DOMAIN o = {"body", "kubecfg", "kubectl"}
      PROVE  LET a == [o EXCEPT !.body = b]
             IN DOMAIN a = {"body", "kubecfg", "kubectl"} /\ a.body = b /\ a.kubecfg = o.kubecfg /\ a.kubectl = o.kubectl
  BY <1>2
<1>3. ASSUME NEW o, NEW b, NEW k, DOMAIN o = {"body", "kubecfg", "kubectl"}
      PROVE  LET a == [o EXCEPT !.body = b, !.kubectl = k]
             IN DOMAIN a = {"body", "kubecfg", "kubectl"} /\ a.body = b /\ a.kubecfg = o.kubecfg /\ a.kubectl = k
  BY <1>3
<1> QED
  BY <1>1, <1>2, <1>3

\* What a step of those who write puts where: an object or none, whose annotation
\* is the configuration of the update that it is from, unless that had a tag.
Sent(n, o, by) ==
  /\ Put(n, o, by)
  /\ o # None => DOMAIN o = {"body", "kubecfg", "kubectl"}
  /\ by # None => "tag" \in by.excuses \/ o.kubecfg = by.config

Writes(n) == Update(n) \/ KubectlApply(n) \/ OthersEdit(n) \/ OthersCreate(n) \/ OthersRemove(n)

LEMMA WritesAre ==
  ASSUME StoreOK, NEW n \in Names, Writes(n)
  PROVE  \E o, by : Sent(n, o, by)
<1>1. CASE Update(n)
  <2>1. PICK c \in Bodies, tag \in Tags \cup {None} :
          LET o == store[n]
              sent == Tagged(c, tag)
              excuses == (IF tag # None THEN {"tag"} ELSE {})
                           \cup (IF Shared(n, o, c) THEN {"shared"} ELSE {})
          IN /\ Allowed(n, c)
             /\ Put(n, Object(Updated(n, o, sent), sent, IF o = None THEN None ELSE o.kubectl),
                    [config |-> c, excuses |-> excuses])
    BY <1>1 DEF Update
  <2> DEFINE sent == Tagged(c, tag)
             excuses == (IF tag # None THEN {"tag"} ELSE {})
                          \cup (IF Shared(n, store[n], c) THEN {"shared"} ELSE {})
             by == [config |-> c, excuses |-> excuses]
             o == Object(Updated(n, store[n], sent), sent, IF store[n] = None THEN None ELSE store[n].kubectl)
  <2>2. Put(n, o, by)
    BY <2>1
  <2>3. DOMAIN o = {"body", "kubecfg", "kubectl"} /\ o.kubecfg = sent
    BY ObjectFields
  <2>4. by.config = c /\ by.excuses = excuses
    OBVIOUS
  <2>5. "tag" \in excuses \/ sent = c
    BY DEF Tagged
  <2> HIDE DEF o, by, excuses, sent
  <2>6. Sent(n, o, by)
    BY <2>2, <2>3, <2>4, <2>5 DEF Sent
  <2> QED
    BY <2>6
<1>2. CASE KubectlApply(n)
  <2>1. PICK c \in Applied :
          LET o == store[n]
              base == IF o = None \/ o.kubectl = None THEN NoKeys ELSE o.kubectl
          IN /\ Allowed(n, c)
             /\ IF o = None THEN Put(n, Object(Stored(c), None, c), None)
                ELSE Put(n, [o EXCEPT !.body = Stored(Merged(n \in Typed, base, c, o.body)),
                                      !.kubectl = c], None)
    BY <1>2 DEF KubectlApply
  <2>2. CASE store[n] = None
    <3> DEFINE o == Object(Stored(c), None, c)
    <3>1. DOMAIN o = {"body", "kubecfg", "kubectl"}
      BY ObjectFields
    <3>2. Put(n, o, None)
      BY <2>1, <2>2
    <3> HIDE DEF o
    <3>3. Sent(n, o, None)
      BY <3>1, <3>2 DEF Sent
    <3> QED
      BY <3>3
  <2>3. CASE store[n] # None
    <3> DEFINE base == IF store[n].kubectl = None THEN NoKeys ELSE store[n].kubectl
               B == Stored(Merged(n \in Typed, base, c, store[n].body))
               o == [store[n] EXCEPT !.body = B, !.kubectl = c]
    <3>1. Put(n, o, None)
      BY <2>1, <2>3
    <3> HIDE DEF B
    <3>2. DOMAIN o = {"body", "kubecfg", "kubectl"}
      BY <2>3, ObjectFields DEF StoreOK, ObjectOK
    <3> HIDE DEF o
    <3>3. Sent(n, o, None)
      BY <3>1, <3>2 DEF Sent
    <3> QED
      BY <3>3
  <2> QED
    BY <2>2, <2>3
<1>3. CASE OthersEdit(n)
  <2>1. PICK e \in Edits :
          LET live == store[n].body
              keys == IF e.value = None THEN Keys(live) \ {e.key} ELSE Keys(live) \cup {e.key}
              body == Map([k \in keys |-> IF k = e.key THEN e.value ELSE At(live)[k]])
          IN body # live /\ Allowed(n, body) /\ Put(n, [store[n] EXCEPT !.body = Stored(body)], None)
    BY <1>3 DEF OthersEdit
  <2>2. PICK B : Put(n, [store[n] EXCEPT !.body = B], None)
    BY <2>1
  <2> DEFINE o == [store[n] EXCEPT !.body = B]
  <2>3. Put(n, o, None) /\ store[n] # None
    BY <2>2, <1>3 DEF OthersEdit
  <2>4. DOMAIN o = {"body", "kubecfg", "kubectl"}
    BY <2>3, ObjectFields DEF StoreOK, ObjectOK
  <2> HIDE DEF o
  <2>5. Sent(n, o, None)
    BY <2>3, <2>4 DEF Sent
  <2> QED
    BY <2>5
<1>4. CASE OthersCreate(n)
  <2>1. PICK body \in Contents : Put(n, Object(Stored(body), None, None), None)
    BY <1>4 DEF OthersCreate
  <2> DEFINE o == Object(Stored(body), None, None)
  <2>2. DOMAIN o = {"body", "kubecfg", "kubectl"} /\ Put(n, o, None)
    BY <2>1, ObjectFields
  <2> HIDE DEF o
  <2>3. Sent(n, o, None)
    BY <2>2 DEF Sent
  <2> QED
    BY <2>3
<1>5. CASE OthersRemove(n)
  <2>1. Sent(n, None, None)
    BY <1>5 DEF OthersRemove, Sent
  <2> QED
    BY <2>1
<1> QED
  BY <1>1, <1>2, <1>3, <1>4, <1>5 DEF Writes

\* What a write changes.
LEMMA PutIs ==
  ASSUME StoreOK, NEW n \in Names, NEW o, NEW c, Put(n, o, c)
  PROVE  /\ store' = [m \in Names |-> store'[m]] /\ owner' = [m \in Names |-> owner'[m]]
         /\ store'[n] = o /\ owner'[n] = (IF o = None THEN None ELSE c)
         /\ \A m \in Names \ {n} : store'[m] = store[m] /\ owner'[m] = owner[m]
         /\ run' = [r \in Runs |-> run'[r]]
         /\ \A r \in Runs : run'[r] = IF n \in run[r].todo THEN [run[r] EXCEPT !.quiet = FALSE] ELSE run[r]
BY DEF Put, StoreOK

LEMMA QuietKeeps ==
  ASSUME NEW s, RunOK(s)
  PROVE  RunOK([s EXCEPT !.quiet = FALSE])
<1> DEFINE a == [s EXCEPT !.quiet = FALSE]
<1>1. /\ DOMAIN a = Fields /\ a.pc = s.pc /\ a.quiet = FALSE
      /\ a.todo = s.todo /\ a.diffFound = s.diffFound /\ a.differed = s.differed /\ a.excuses = s.excuses
      /\ a.config = s.config /\ a.strategy = s.strategy
  BY FieldWith DEF RunOK
<1> HIDE DEF a
<1> QED
  BY <1>1 DEF RunOK, a

LEMMA DiffInvInit == Init => DiffInv
<1> SUFFICES ASSUME Init
             PROVE  DiffInv
  OBVIOUS
<1>1. DOMAIN Idle = Fields /\ Idle.pc = "idle" /\ Idle.todo = {} /\ Idle.diffFound = FALSE /\ Idle.differed = {}
      /\ Idle.excuses = {} /\ Idle.quiet = FALSE
  BY DEF Idle, Fields
<1>2. RunOK(Idle)
  BY <1>1 DEF RunOK
<1>3. run = [r \in Runs |-> run[r]] /\ \A r \in Runs : run[r] = Idle
  BY DEF Init
<1>4. StoreOK
  BY DEF Init, StoreOK
<1> QED
  BY <1>2, <1>3, <1>4 DEF DiffInv

\* A run that starts has everything left to read, and its verdict if that is nothing.
LEMMA BeginIs ==
  ASSUME DiffInv, NEW r \in Runs, Begin(r)
  PROVE  /\ run' = [q \in Runs |-> run'[q]] /\ \A q \in Runs \ {r} : run'[q] = run[q]
         /\ LET a == run'[r]
            IN /\ DOMAIN a = Fields
               /\ a.config \in Configs /\ a.todo = DOMAIN a.config
               /\ a.diffFound = FALSE /\ a.differed = {} /\ a.excuses = {}
               /\ a.quiet \in BOOLEAN /\ (a.quiet => \A n \in a.todo : owner[n] # None /\ owner[n].config = a.config[n])
               /\ a.pc = Verdict(a)
         /\ UNCHANGED <<store, owner>>
<1>1. PICK c \in Configs, strategy \in Strategies :
        LET s == [Idle EXCEPT !.config = c, !.strategy = strategy, !.todo = DOMAIN c,
                              !.quiet = \A n \in DOMAIN c : owner[n] # None /\ owner[n].config = c[n]]
        IN run' = [run EXCEPT ![r] = [s EXCEPT !.pc = Verdict(s)]]
  BY DEF Begin
<1> DEFINE t == DOMAIN c
           q == \A n \in DOMAIN c : owner[n] # None /\ owner[n].config = c[n]
           s == [Idle EXCEPT !.config = c, !.strategy = strategy, !.todo = t, !.quiet = q]
           a == [s EXCEPT !.pc = Verdict(s)]
<1>2. run' = [run EXCEPT ![r] = a]
  BY <1>1
<1>3. q \in BOOLEAN
  OBVIOUS
<1> HIDE DEF t, q
<1>4. DOMAIN s = Fields /\ s.config = c /\ s.todo = t /\ s.quiet = q /\ s.diffFound = FALSE /\ s.differed = {}
      /\ s.excuses = {}
  BY DEF Idle, Fields
<1> HIDE DEF s
<1>5. DOMAIN a = Fields /\ a.config = c /\ a.todo = t /\ a.quiet = q /\ a.diffFound = s.diffFound /\ a.differed = {}
      /\ a.excuses = {} /\ a.pc = Verdict(s)
  BY <1>4, FieldWith
<1>6. Verdict(s) = Verdict(a)
  <2>1. a.todo = s.todo /\ a.diffFound = s.diffFound
    BY <1>4, <1>5
  <2> QED
    BY <2>1 DEF Verdict
<1> HIDE DEF a
<1>7. run' = [p \in Runs |-> run'[p]] /\ run'[r] = a /\ \A p \in Runs \ {r} : run'[p] = run[p]
  BY <1>2 DEF DiffInv
<1>8. q => \A n \in t : owner[n] # None /\ owner[n].config = c[n]
  BY DEF q, t
<1>9. UNCHANGED <<store, owner>>
  BY DEF Begin
<1> QED
  BY <1>3, <1>4, <1>5, <1>6, <1>7, <1>8, <1>9 DEF t

LEMMA BeginKeeps ==
  ASSUME DiffInv, NEW r \in Runs, Begin(r)
  PROVE  DiffInv'
<1> DEFINE a == run'[r]
<1>1. /\ run' = [q \in Runs |-> run'[q]] /\ \A q \in Runs \ {r} : run'[q] = run[q]
      /\ DOMAIN a = Fields /\ a.config \in Configs /\ a.todo = DOMAIN a.config
      /\ a.diffFound = FALSE /\ a.differed = {} /\ a.excuses = {} /\ a.quiet \in BOOLEAN
      /\ a.pc = Verdict(a)
      /\ UNCHANGED <<store, owner>>
  BY BeginIs
<1> HIDE DEF a
<1>2. a.pc = IF a.todo # {} THEN "compare" ELSE "same"
  BY <1>1 DEF Verdict
<1>3. RunOK(a)
  BY <1>1, <1>2 DEF RunOK
<1>4. \A q \in Runs : RunOK(run'[q])
  <2> TAKE q \in Runs
  <2>1. CASE q = r
    BY <2>1, <1>3 DEF a
  <2>2. CASE q # r
    BY <2>2, <1>1 DEF DiffInv
  <2> QED
    BY <2>1, <2>2
<1>5. StoreOK'
  BY <1>1 DEF DiffInv, StoreOK
<1> QED
  BY <1>1, <1>4, <1>5 DEF DiffInv

\* A comparison that succeeds has found what is really so of the object.
LEMMA CompareIs ==
  ASSUME DiffInv, NEW r \in Runs, Compare(r)
  PROVE  /\ UNCHANGED <<store, owner>>
         /\ run[r].pc = "compare"
         /\ \/ Fail(r)
            \/ \E n \in run[r].todo : \E different :
                 /\ Compared(r, n, different)
                 /\ n \in Names /\ run[r].config[n] \in Bodies
                 /\ different <=> Differs(run[r].strategy, run[r].config[n], store[n])
<1>1. UNCHANGED <<store, owner>> /\ run[r].pc = "compare"
  BY DEF Compare
<1>2. run[r].config \in Configs /\ run[r].todo \subseteq DOMAIN run[r].config /\ run[r].todo # {}
  BY <1>1 DEF DiffInv, RunOK
<1>3. run[r].todo \subseteq Names /\ \A n \in run[r].todo : run[r].config[n] \in Bodies
  BY <1>2, ConfigIs
<1> DEFINE n == Current(r)
           c == run[r].config[n]
           o == store[n]
<1>4. n \in run[r].todo
  BY <1>2, <1>3, CurrentIs
<1>5. CASE Fail(r)
  BY <1>1, <1>5
<1>6. CASE o = None /\ Compared(r, n, TRUE)
  <2>1. Differs(run[r].strategy, c, o)
    BY <1>6 DEF Differs
  <2> HIDE DEF n
  <2> QED
    BY <1>1, <1>3, <1>4, <1>6, <2>1
<1>7. CASE o # None /\ Compared(r, n, getLiveObjObject(run[r].strategy, c, o) # c)
  <2> HIDE DEF n
  <2>1. ObjectOK(o) /\ c \in Bodies /\ n \in Names
    BY <1>3, <1>4, <1>7 DEF DiffInv, StoreOK
  <2>2. getLiveObjObject(run[r].strategy, c, o) # c <=> Differs(run[r].strategy, c, o)
    BY <1>7, <2>1, DifferentIff
  <2> QED
    BY <1>1, <1>4, <1>7, <2>1, <2>2
<1> QED
  BY <1>5, <1>6, <1>7 DEF Compare

LEMMA CompareKeeps ==
  ASSUME DiffInv, NEW r \in Runs, Compare(r)
  PROVE  DiffInv'
<1>1. UNCHANGED <<store, owner>> /\ run[r].pc = "compare"
  BY CompareIs
<1>2. StoreOK'
  BY <1>1 DEF DiffInv, StoreOK
<1>3. RunOK(run[r]) /\ run = [q \in Runs |-> run[q]]
  BY DEF DiffInv
<1>4. CASE Fail(r)
  <2> DEFINE a == [run[r] EXCEPT !.pc = "failed"]
  <2>1. run' = [run EXCEPT ![r] = a]
    BY <1>4 DEF Fail
  <2>2. /\ DOMAIN a = Fields /\ a.pc = "failed"
        /\ a.todo = run[r].todo /\ a.diffFound = run[r].diffFound /\ a.differed = run[r].differed
        /\ a.excuses = run[r].excuses
        /\ a.config = run[r].config /\ a.strategy = run[r].strategy /\ a.quiet = run[r].quiet
    BY <1>3, FieldWith DEF RunOK
  <2> HIDE DEF a
  <2>3. RunOK(a)
    BY <1>1, <1>3, <2>2 DEF RunOK
  <2>4. run' = [q \in Runs |-> run'[q]] /\ \A q \in Runs : RunOK(run'[q])
    BY <1>3, <2>1, <2>3 DEF DiffInv
  <2> QED
    BY <1>2, <2>4 DEF DiffInv
<1>5. ASSUME NEW n \in run[r].todo, NEW different, Compared(r, n, different),
             different <=> Differs(run[r].strategy, run[r].config[n], store[n])
      PROVE  DiffInv'
  <2> DEFINE s == run[r]
             a == run'[r]
             real == Differs(s.strategy, s.config[n], store[n])
  <2>1. /\ run' = [q \in Runs |-> run'[q]] /\ \A q \in Runs \ {r} : run'[q] = run[q]
        /\ DOMAIN a = Fields
        /\ a.todo = s.todo \ {n}
        /\ a.diffFound = (s.diffFound \/ different)
        /\ a.differed = IF real THEN s.differed \cup {n} ELSE s.differed
        /\ a.excuses = (s.excuses \cup Excuses(n, s.config[n]))
        /\ a.pc = Verdict(a)
        /\ a.config = s.config /\ a.strategy = s.strategy /\ a.quiet = s.quiet
    BY <1>3, <1>5, ComparedIs
  <2>2. different <=> real
    BY <1>5
  <2> HIDE DEF a, real
  <2>3. a.diffFound <=> (s.diffFound \/ real)
    BY <2>1, <2>2
  <2>4. a.diffFound <=> a.differed # {}
    <3>1. s.diffFound <=> s.differed # {}
      BY <1>3 DEF RunOK
    <3>2. a.differed # {} <=> (s.differed # {} \/ real)
      BY <2>1
    <3> QED
      BY <2>3, <3>1, <3>2
  <2>5. a.diffFound \in BOOLEAN /\ a.quiet \in BOOLEAN
    BY <2>1, <1>3 DEF RunOK
  <2>6. a.pc = IF a.todo # {} THEN "compare" ELSE IF a.diffFound THEN "differs" ELSE "same"
    BY <2>1 DEF Verdict
  <2>7. s.config \in Configs /\ s.todo \subseteq DOMAIN s.config
    BY <1>1, <1>3 DEF RunOK
  <2>8. RunOK(a)
    BY <2>1, <2>4, <2>5, <2>6, <2>7 DEF RunOK
  <2>9. \A q \in Runs : RunOK(run'[q])
    BY <2>1, <2>8 DEF DiffInv, a
  <2> QED
    BY <1>2, <2>1, <2>9 DEF DiffInv
<1> QED
  BY <1>4, <1>5, CompareIs

LEMMA WritesKeep ==
  ASSUME DiffInv, NEW n \in Names, Writes(n)
  PROVE  DiffInv'
<1>1. StoreOK
  BY DEF DiffInv
<1>2. PICK o, by : Sent(n, o, by)
  BY <1>1, WritesAre
<1>3. Put(n, o, by)
  BY <1>2 DEF Sent
<1>4. /\ store' = [m \in Names |-> store'[m]] /\ owner' = [m \in Names |-> owner'[m]]
      /\ store'[n] = o
      /\ \A m \in Names \ {n} : store'[m] = store[m]
      /\ run' = [r \in Runs |-> run'[r]]
      /\ \A r \in Runs : run'[r] = IF n \in run[r].todo THEN [run[r] EXCEPT !.quiet = FALSE] ELSE run[r]
  BY <1>1, <1>3, PutIs
<1>5. ASSUME o # None
      PROVE  ObjectOK(o)
  BY <1>2, <1>3, <1>5 DEF Sent, Put, ObjectOK
<1>6. StoreOK'
  <2>1. \A m \in Names : store'[m] # None => ObjectOK(store'[m])
    BY <1>1, <1>4, <1>5 DEF StoreOK
  <2> QED
    BY <1>4, <2>1 DEF StoreOK
<1>7. \A r \in Runs : RunOK(run'[r])
  BY <1>4, QuietKeeps DEF DiffInv
<1> QED
  BY <1>4, <1>6, <1>7 DEF DiffInv

LEMMA DiffInvNext == DiffInv /\ [Next]_vars => DiffInv'
<1> SUFFICES ASSUME DiffInv, [Next]_vars
             PROVE  DiffInv'
  OBVIOUS
<1>1. CASE \E r \in Runs : Begin(r) \/ Compare(r)
  BY <1>1, BeginKeeps, CompareKeeps
<1>2. CASE \E n \in Names : Writes(n)
  BY <1>2, WritesKeep
<1>3. CASE UNCHANGED vars
  BY <1>3 DEF vars, DiffInv, StoreOK
<1> QED
  BY <1>1, <1>2, <1>3 DEF Next, Writes

\* The inductive invariant: the objects are trees, and has found a difference if
\* and only if one of those it read differed.
THEOREM RunsAndObjects == Spec => []DiffInv
BY DiffInvInit, DiffInvNext, PTL DEF Spec

\* The verdict of a run is that of the objects as it read them.
THEOREM ExactVerdict == Spec => []VerdictIsExact
<1>1. DiffInv => VerdictIsExact
  BY DEF DiffInv, RunOK, VerdictIsExact
<1> QED
  BY <1>1, RunsAndObjects, PTL

----------------------------------------------------------------------------
\* A run by last-applied that nobody has written to is quiet after an update.

\* What an update that nobody has written after has left in the annotation.
OwnerOK ==
  \A n \in Names : owner[n] # None =>
    store[n] # None /\ ("tag" \in owner[n].excuses \/ store[n].kubecfg = owner[n].config)

\* A quiet run has only such objects left to read, and what it has found is
\* what it may find.
QuietOK(s) ==
  s.quiet => /\ \A n \in s.todo : owner[n] # None /\ owner[n].config = s.config[n]
             /\ s.diffFound /\ s.strategy = "last-applied" => "tag" \in s.excuses

QuietInv == OwnerOK /\ \A r \in Runs : QuietOK(run[r])

LEMMA QuietInit == Init => QuietInv
<1> SUFFICES ASSUME Init
             PROVE  QuietInv
  OBVIOUS
<1>1. Idle.quiet = FALSE
  BY DEF Idle
<1> QED
  BY <1>1 DEF Init, QuietInv, OwnerOK, QuietOK

LEMMA QuietBegin ==
  ASSUME DiffInv, QuietInv, NEW r \in Runs, Begin(r)
  PROVE  QuietInv'
<1> DEFINE a == run'[r]
<1>1. /\ \A q \in Runs \ {r} : run'[q] = run[q]
      /\ a.diffFound = FALSE
      /\ a.quiet => \A n \in a.todo : owner[n] # None /\ owner[n].config = a.config[n]
      /\ UNCHANGED <<store, owner>>
  BY BeginIs
<1> HIDE DEF a
<1>2. QuietOK(a)
  BY <1>1 DEF QuietOK
<1>3. \A q \in Runs : QuietOK(run'[q])
  <2> TAKE q \in Runs
  <2>1. CASE q = r
    BY <2>1, <1>2 DEF a
  <2>2. CASE q # r
    BY <2>2, <1>1 DEF QuietInv
  <2> QED
    BY <2>1, <2>2
<1> QED
  BY <1>1, <1>3 DEF QuietInv, OwnerOK, QuietOK

LEMMA QuietCompare ==
  ASSUME DiffInv, QuietInv, NEW r \in Runs, Compare(r)
  PROVE  QuietInv'
<1>1. UNCHANGED <<store, owner>> /\ run[r].pc = "compare"
  BY CompareIs
<1>2. RunOK(run[r]) /\ run = [q \in Runs |-> run[q]] /\ QuietOK(run[r])
  BY DEF DiffInv, QuietInv
<1>3. OwnerOK'
  BY <1>1 DEF QuietInv, OwnerOK
<1>4. CASE Fail(r)
  <2> DEFINE a == [run[r] EXCEPT !.pc = "failed"]
  <2>1. run' = [run EXCEPT ![r] = a]
    BY <1>4 DEF Fail
  <2>2. /\ a.todo = run[r].todo /\ a.diffFound = run[r].diffFound /\ a.excuses = run[r].excuses
        /\ a.config = run[r].config /\ a.strategy = run[r].strategy /\ a.quiet = run[r].quiet
    BY <1>2, FieldWith DEF RunOK
  <2> HIDE DEF a
  <2>3. QuietOK(a)
    BY <1>2, <2>2 DEF QuietOK
  <2>4. \A q \in Runs : QuietOK(run'[q])
    BY <1>2, <2>1, <2>3 DEF QuietInv
  <2> QED
    BY <1>1, <1>3, <2>4 DEF QuietInv, QuietOK
<1>5. ASSUME NEW n \in run[r].todo, NEW different, Compared(r, n, different),
             n \in Names, run[r].config[n] \in Bodies,
             different <=> Differs(run[r].strategy, run[r].config[n], store[n])
      PROVE  QuietInv'
  <2> DEFINE s == run[r]
             a == run'[r]
             c == s.config[n]
             o == store[n]
             real == Differs(s.strategy, c, o)
  <2>1. /\ \A q \in Runs \ {r} : run'[q] = run[q]
        /\ a.todo = s.todo \ {n}
        /\ a.diffFound = (s.diffFound \/ different)
        /\ a.excuses = (s.excuses \cup Excuses(n, c))
        /\ a.config = s.config /\ a.strategy = s.strategy /\ a.quiet = s.quiet
    BY <1>2, <1>5, ComparedIs
  <2>2. different <=> real
    BY <1>5
  <2>3. ASSUME s.quiet, real, s.strategy = "last-applied"
        PROVE  "tag" \in Excuses(n, c)
    <3>1. owner[n] # None /\ owner[n].config = c /\ c # None
      BY <2>3, <1>2, <1>5, TreesAssumption DEF QuietOK
    <3>2. o # None /\ ("tag" \in owner[n].excuses \/ o.kubecfg = c)
      BY <3>1, <1>5 DEF QuietInv, OwnerOK
    <3>3. o.kubecfg # c
      BY <2>3, <3>1, <3>2 DEF Differs
    <3> QED
      BY <3>1, <3>2, <3>3 DEF Excuses
  <2> HIDE DEF a, real, c, o
  <2>4. a.diffFound <=> (s.diffFound \/ real)
    BY <2>1, <2>2
  <2>6. QuietOK(a)
    <3>1. ASSUME a.quiet
          PROVE  \A m \in a.todo : owner[m] # None /\ owner[m].config = a.config[m]
      BY <3>1, <2>1, <1>2 DEF QuietOK
    <3>2. ASSUME a.quiet, a.diffFound, a.strategy = "last-applied"
          PROVE  "tag" \in a.excuses
      <4>1. s.quiet /\ s.strategy = "last-applied"
        BY <3>2, <2>1
      <4>2. CASE s.diffFound
        BY <4>1, <4>2, <2>1, <1>2 DEF QuietOK
      <4>3. CASE real
        BY <4>1, <4>3, <2>1, <2>3
      <4> QED
        BY <4>2, <4>3, <3>2, <2>4
    <3> QED
      BY <3>1, <3>2 DEF QuietOK
  <2>7. \A q \in Runs : QuietOK(run'[q])
    BY <2>1, <2>6 DEF QuietInv, a
  <2> QED
    BY <1>1, <1>3, <2>7 DEF QuietInv, QuietOK
<1> QED
  BY <1>4, <1>5, CompareIs

LEMMA QuietWrites ==
  ASSUME DiffInv, QuietInv, NEW n \in Names, Writes(n)
  PROVE  QuietInv'
<1>1. StoreOK
  BY DEF DiffInv
<1>2. PICK o, by : Sent(n, o, by)
  BY <1>1, WritesAre
<1>3. Put(n, o, by)
  BY <1>2 DEF Sent
<1>4. /\ store'[n] = o /\ owner'[n] = (IF o = None THEN None ELSE by)
      /\ \A m \in Names \ {n} : store'[m] = store[m] /\ owner'[m] = owner[m]
      /\ \A r \in Runs : run'[r] = IF n \in run[r].todo THEN [run[r] EXCEPT !.quiet = FALSE] ELSE run[r]
  BY <1>1, <1>3, PutIs
<1>5. by # None => "tag" \in by.excuses \/ o.kubecfg = by.config
  BY <1>2 DEF Sent
<1>6. OwnerOK'
  <2>1. ASSUME NEW m \in Names, owner'[m] # None
        PROVE  /\ store'[m] # None
               /\ "tag" \in owner'[m].excuses \/ store'[m].kubecfg = owner'[m].config
    <3>1. CASE m = n
      BY <3>1, <2>1, <1>4, <1>5
    <3>2. CASE m # n
      BY <3>2, <2>1, <1>4 DEF QuietInv, OwnerOK
    <3> QED
      BY <3>1, <3>2
  <2> QED
    BY <2>1 DEF OwnerOK
<1>7. ASSUME NEW r \in Runs
      PROVE  QuietOK(run[r])'
  <2>1. RunOK(run[r]) /\ QuietOK(run[r])
    BY DEF DiffInv, QuietInv
  <2>2. CASE n \in run[r].todo
    <3> DEFINE a == [run[r] EXCEPT !.quiet = FALSE]
    <3>1. run'[r] = a
      BY <2>2, <1>4
    <3>2. DOMAIN run[r] = Fields
      BY <2>1 DEF RunOK
    <3>3. ~a.quiet
      BY <3>2 DEF Fields
    <3> HIDE DEF a
    <3> QED
      BY <3>1, <3>3 DEF QuietOK
  <2>3. CASE n \notin run[r].todo
    <3>1. run'[r] = run[r]
      BY <2>3, <1>4
    <3>2. run[r].todo \subseteq Names
      <4>1. CASE run[r].pc = "idle"
        BY <4>1, <2>1 DEF RunOK
      <4>2. CASE run[r].pc # "idle"
        <5>1. run[r].config \in Configs /\ run[r].todo \subseteq DOMAIN run[r].config
          BY <4>2, <2>1 DEF RunOK
        <5> QED
          BY <5>1, ConfigIs
      <4> QED
        BY <4>1, <4>2
    <3>3. \A m \in run[r].todo : owner'[m] = owner[m]
      BY <3>2, <2>3, <1>4
    <3> QED
      BY <3>1, <3>3, <2>1 DEF QuietOK
  <2> QED
    BY <2>2, <2>3
<1> QED
  BY <1>6, <1>7 DEF QuietInv

LEMMA QuietNext == DiffInv /\ QuietInv /\ [Next]_vars => QuietInv'
<1> SUFFICES ASSUME DiffInv, QuietInv, [Next]_vars
             PROVE  QuietInv'
  OBVIOUS
<1>1. CASE \E r \in Runs : Begin(r) \/ Compare(r)
  BY <1>1, QuietBegin, QuietCompare
<1>2. CASE \E n \in Names : Writes(n)
  BY <1>2, QuietWrites
<1>3. CASE UNCHANGED vars
  BY <1>3 DEF vars, QuietInv, OwnerOK, QuietOK
<1> QED
  BY <1>1, <1>2, <1>3 DEF Next, Writes

\* A quiet run has only objects left to read that the same configuration has made.
THEOREM QuietRuns == Spec => []QuietInv
BY RunsAndObjects, QuietInit, QuietNext, PTL DEF Spec

\* Right after an untagged update with the same configuration `last-applied` finds
\* nothing, however many objects are read and whatever is written in between.
THEOREM QuietByLastApplied == Spec => [](\A r \in Runs : QuietOfLastApplied(run[r]))
<1>1. DiffInv /\ QuietInv => \A r \in Runs : QuietOfLastApplied(run[r])
  BY DEF DiffInv, RunOK, QuietInv, QuietOK, QuietOfLastApplied
<1> QED
  BY <1>1, RunsAndObjects, QuietRuns, PTL
=============================================================================
