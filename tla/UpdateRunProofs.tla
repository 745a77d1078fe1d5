-------------------------- MODULE UpdateRunProofs --------------------------
(***************************************************************************)
(* Theorems about UpdateRun, for any number of runs, objects, items,       *)
(* configurations, listed resources and writes of others.  One inductive   *)
(* invariant, IInv, carries all of them.                                   *)
(***************************************************************************)
EXTENDS UpdateRun, TLAPS

\* No uid and no resourceVersion on the server is ahead of the clock.
ClockBounds ==
  \A o \in Objects : store[o] # Absent => store[o].rv <= clock /\ store[o].uid <= clock

\* Where in the program a run is, and what its variables then hold.
Located(r) ==
  /\ run[r].todo \subseteq DOMAIN config[r]
  /\ run[r].item \in DOMAIN config[r] \cup {NoItem}
  /\ run[r].pc \in {"create", "put", "wait"} => run[r].item # NoItem
  /\ run[r].pc \in {"create", "put"} => ~flags[r].dryRun
  /\ run[r].pc \in {"gc", "done"} => run[r].todo = {}
  /\ run[r].pc # "failed" => run[r].attempts < MaxAttempts

\* The object a run is about to send back is what the server holds, unless
\* it was written since and its resourceVersion differs.
Fresh(r) ==
  LET o    == Target[run[r].item]
      kept == run[r].existing
  IN run[r].pc = "put" =>
       /\ kept # Absent /\ kept.rv <= clock
       /\ Patched(kept, Want(r, run[r].item)) # kept
       /\ store[o] # Absent /\ store[o].rv = kept.rv => store[o] = kept

\* What is left of the first incarnation of an object that was there when
\* the run began is in seenUids once the run is through with its item.
Noted(r) ==
  run[r].pc # "idle" =>
    /\ begun[r] <= clock
    /\ ~flags[r].dryRun =>
         \A i \in DOMAIN config[r] \ run[r].todo :
           LET live == store[Target[i]]
           IN live # Absent /\ live.uid <= begun[r] => live.uid \in run[r].seen

\* What is about to be deleted was listed and not applied.
Condemned(r) ==
  /\ run[r].pc # "gc" \/ flags[r].dryRun => run[r].doomed = {}
  /\ \A d \in run[r].doomed : d.uid \notin run[r].seen /\ d.uid <= listedAt[r]

RunInv(r) == Located(r) /\ Fresh(r) /\ Noted(r) /\ Condemned(r)

IInv == TypeOK /\ ClockBounds /\ \A r \in Runs : RunInv(r)

----------------------------------------------------------------------------
\* What the operators of the model return.

\* Tagging a manifest gives a manifest.
LEMMA WithTagType ==
  ASSUME NEW m \in Manifest, NEW tag \in Values \cup {None}
  PROVE  WithTag(m, tag) \in Manifest
BY FieldsAssumption DEF WithTag, Manifest

\* What a run sends is a manifest that AtomicApply knows.
LEMMA WantType ==
  ASSUME TypeOK, NEW r \in Runs, NEW i \in DOMAIN config[r]
  PROVE  i \in Items /\ Want(r, i) \in Manifest /\ Want(r, i) \in Sendable
<1>1. config[r] \in Configs /\ flags[r] \in FlagSets
  BY DEF TypeOK
<1>2. i \in Items /\ config[r][i] \in Manifest
  BY <1>1, RunAssumption
<1>3. flags[r].gcTag \in Values \cup {None}
  BY <1>1, RunAssumption
<1>4. Want(r, i) \in Manifest
  BY <1>2, <1>3, WithTagType DEF Want
<1>5. Want(r, i) \in Sendable
  BY <1>1 DEF Want, Sendable
<1> QED
  BY <1>2, <1>4, <1>5

\* patch() keeps the identity of the object and the status of others in it.
LEMMA PatchedType ==
  ASSUME NEW live \in Live, NEW m \in Manifest
  PROVE  /\ Patched(live, m) \in Live
         /\ Patched(live, m).uid = live.uid
         /\ Patched(live, m).rv = live.rv
         /\ Patched(live, m).terminating = live.terminating
<1>1. live.fields \in Manifest /\ live.orig \in Manifest \cup {NoOrig}
  BY DEF Live
<1>2. ASSUME NEW f \in Fields
      PROVE  MergeField(live.orig, m, live.fields, f) \in Values \cup {None}
  BY <1>1, <1>2, MarkersAssumption DEF MergeField, Manifest
<1>3. Merge(live.orig, m, live.fields) \in Manifest
  BY <1>2 DEF Merge, Manifest
<1> QED
  BY <1>3 DEF Patched, Live

\* The next incarnation of an object.
LEMMA CreatedType ==
  ASSUME NEW m \in Manifest, NEW n \in Nat
  PROVE  /\ Created(m, n) \in Live
         /\ Created(m, n).uid = n /\ Created(m, n).rv = n
         /\ ~Created(m, n).terminating
BY DEF Created, Live

LEMMA LiveNotAbsent ==
  ASSUME NEW live \in Live
  PROVE  live # Absent
BY AbsentAssumption

\* Stamping an object changes its resourceVersion only.
LEMMA StampedType ==
  ASSUME NEW live \in Live, clock \in Nat
  PROVE  /\ Stamped(live) \in Live
         /\ Stamped(live).rv = clock + 1
         /\ Stamped(live).uid = live.uid
         /\ Stamped(live).terminating = live.terminating
BY DEF Stamped, Live

\* Where the loop goes: what Forward keeps and what it sets.
LEMMA ForwardFacts ==
  ASSUME NEW r \in Runs, NEW s \in RunState
  PROVE  /\ Forward(r, s) \in RunState
         /\ Forward(r, s).todo = s.todo
         /\ Forward(r, s).seen = s.seen
         /\ Forward(r, s).doomed = s.doomed
         /\ Forward(r, s).item = NoItem
         /\ Forward(r, s).attempts = 0
         /\ Forward(r, s).pc \in {"get", "gc", "done"}
         /\ Forward(r, s).pc # "get" => s.todo = {}
<1> DEFINE pc == CASE s.todo # {} -> "get"
                   [] s.todo = {} /\ flags[r].gcTag # None /\ ~flags[r].skipGc -> "gc"
                   [] s.todo = {} /\ (flags[r].gcTag = None \/ flags[r].skipGc) -> "done"
           views == IF s.todo = {} THEN Views ELSE {}
<1>1. /\ pc \in {"get", "gc", "done"}
      /\ pc # "get" => s.todo = {}
  OBVIOUS
<1>2. views \in SUBSET Views
  OBVIOUS
<1>3. Forward(r, s) = [s EXCEPT !.item = NoItem, !.attempts = 0, !.gone = FALSE,
                                !.views = views, !.pc = pc]
  BY DEF Forward
<1> HIDE DEF pc, views
<1>4. /\ Forward(r, s).todo = s.todo
      /\ Forward(r, s).seen = s.seen
      /\ Forward(r, s).doomed = s.doomed
      /\ Forward(r, s).item = NoItem
      /\ Forward(r, s).attempts = 0
      /\ Forward(r, s).pc = pc
  BY <1>3 DEF RunState
<1>5. pc \in {"idle"} \cup Working \cup Ended
  BY <1>1 DEF Working, Ended
<1>6. 0 \in 0 .. MaxAttempts
  BY RunAssumption
<1>7. Forward(r, s) \in RunState
  BY <1>2, <1>3, <1>5, <1>6 DEF RunState
<1> QED
  BY <1>1, <1>4, <1>7

\* What createOrUpdate leaves behind in the run when it succeeds.
LEMMA AppliedFacts ==
  ASSUME NEW r \in Runs, run[r] \in RunState, NEW i \in Items, NEW uid \in Nat,
         NEW settled \in BOOLEAN
  PROVE  /\ Applied(r, i, uid, settled) \in RunState
         /\ Applied(r, i, uid, settled).todo = run[r].todo \ {i}
         /\ Applied(r, i, uid, settled).seen = run[r].seen \cup {uid}
         /\ Applied(r, i, uid, settled).doomed = run[r].doomed
         /\ Applied(r, i, uid, settled).item \in {i, NoItem}
         /\ Applied(r, i, uid, settled).attempts \in {0, run[r].attempts}
         /\ Applied(r, i, uid, settled).pc \in {"get", "gc", "done", "wait"}
         /\ Applied(r, i, uid, settled).pc \in {"gc", "done"} => run[r].todo \ {i} = {}
         /\ Applied(r, i, uid, settled).pc = "wait" => Applied(r, i, uid, settled).item = i
<1> DEFINE s == [run[r] EXCEPT !.todo = @ \ {i}, !.seen = @ \cup {uid}, !.existing = Absent]
           w == [s EXCEPT !.item = i, !.pc = "wait"]
<1>1. /\ s \in RunState
      /\ s.todo = run[r].todo \ {i} /\ s.seen = run[r].seen \cup {uid}
      /\ s.doomed = run[r].doomed /\ s.attempts = run[r].attempts
  BY DEF RunState
<1>2. "wait" \in {"idle"} \cup Working \cup Ended
  BY DEF Working
<1>3. /\ w \in RunState
      /\ w.todo = run[r].todo \ {i} /\ w.seen = run[r].seen \cup {uid}
      /\ w.doomed = run[r].doomed /\ w.attempts = run[r].attempts
      /\ w.item = i /\ w.pc = "wait"
  BY <1>1, <1>2 DEF RunState
<1>4. Applied(r, i, uid, settled) = IF settled \/ flags[r].dryRun THEN Forward(r, s) ELSE w
  BY DEF Applied
<1> HIDE DEF s, w
<1>5. CASE settled \/ flags[r].dryRun
  BY <1>1, <1>4, <1>5, ForwardFacts
<1>6. CASE ~(settled \/ flags[r].dryRun)
  BY <1>3, <1>4, <1>6
<1> QED
  BY <1>5, <1>6

\* What a failure leaves behind.
LEMMA FailingFacts ==
  ASSUME NEW r \in Runs, run[r] \in RunState
  PROVE  /\ Failing(r) \in RunState
         /\ Failing(r).pc = "failed" /\ Failing(r).doomed = {}
         /\ Failing(r).todo = run[r].todo /\ Failing(r).seen = run[r].seen
         /\ Failing(r).item = run[r].item
BY DEF Failing, RunState, Ended

----------------------------------------------------------------------------
\* What a step does to the store, as far as the invariant tells.

Evolves ==
  /\ clock' \in Nat /\ clock <= clock'
  /\ store' \in [Objects -> Live \cup {Absent}]
  /\ \A o \in Objects :
       \/ store'[o] = store[o]
       \/ store'[o] = Absent
       \/ /\ clock' = clock + 1
          /\ store'[o] # Absent /\ store'[o].rv = clock + 1
          /\ \/ store'[o].uid = clock + 1
             \/ store[o] # Absent /\ store'[o].uid = store[o].uid

\* A write evolves the store.
LEMMA WriteEvolves ==
  ASSUME ClusterTypeOK, NEW o \in Objects, NEW live \in Live \cup {Absent},
         live # Absent => /\ live.rv = clock + 1
                          /\ \/ live.uid = clock + 1
                             \/ store[o] # Absent /\ live.uid = store[o].uid,
         Write(o, live)
  PROVE  Evolves /\ store'[o] = live
<1>1. store' = [store EXCEPT ![o] = live] /\ clock' = clock + 1
  BY DEF Write
<1>2. store \in [Objects -> Live \cup {Absent}] /\ clock \in Nat
  BY DEF ClusterTypeOK
<1>3. store'[o] = live /\ \A p \in Objects \ {o} : store'[p] = store[p]
  BY <1>1, <1>2
<1>4. store' \in [Objects -> Live \cup {Absent}]
  BY <1>1, <1>2
<1> QED
  BY <1>1, <1>2, <1>3, <1>4 DEF Evolves

\* So does doing nothing to it.
LEMMA IdleEvolves ==
  ASSUME ClusterTypeOK, UNCHANGED <<store, clock>>
  PROVE  Evolves
BY DEF ClusterTypeOK, Evolves

\* The clock stays ahead of the store.
LEMMA BoundsStep ==
  ASSUME ClusterTypeOK, ClockBounds, Evolves
  PROVE  ClockBounds'
<1> SUFFICES ASSUME NEW o \in Objects, store'[o] # Absent
             PROVE  store'[o].rv <= clock' /\ store'[o].uid <= clock'
  BY DEF ClockBounds
<1>1. clock \in Nat /\ clock' \in Nat /\ clock <= clock'
  BY DEF ClusterTypeOK, Evolves
<1>2. store[o] # Absent => store[o] \in Live
  BY DEF ClusterTypeOK
<1>3. store[o] # Absent => /\ store[o].rv <= clock /\ store[o].uid <= clock
                           /\ store[o].rv \in Nat /\ store[o].uid \in Nat
  BY <1>2 DEF ClockBounds, Live
<1>4. CASE store'[o] = store[o]
  BY <1>1, <1>3, <1>4
<1>5. CASE store'[o] # store[o]
  BY <1>1, <1>3, <1>5 DEF Evolves
<1> QED
  BY <1>4, <1>5

\* A run that does not move keeps its part of the invariant, whatever others
\* do to the store meanwhile.
LEMMA OthersKeep ==
  ASSUME TypeOK, ClockBounds, Evolves, NEW q \in Runs, RunInv(q),
         run'[q] = run[q], UNCHANGED inputs,
         begun'[q] = begun[q], listedAt'[q] = listedAt[q]
  PROVE  RunInv(q)'
<1>1. config' = config /\ flags' = flags
  BY DEF inputs
<1>2. clock \in Nat /\ clock' \in Nat /\ clock <= clock' /\ begun[q] \in Nat
  BY DEF TypeOK, ClusterTypeOK, Evolves
<1>3. run[q] \in RunState /\ store \in [Objects -> Live \cup {Absent}]
  BY DEF TypeOK, ClusterTypeOK
<1>4. Located(q)'
  BY <1>1 DEF RunInv, Located
<1>5. Fresh(q)'
  <2> DEFINE i == run[q].item
             o == Target[i]
             kept == run[q].existing
  <2> SUFFICES ASSUME run[q].pc = "put"
               PROVE  /\ kept # Absent /\ kept.rv <= clock'
                      /\ Patched(kept, Want(q, i)) # kept
                      /\ store'[o] # Absent /\ store'[o].rv = kept.rv => store'[o] = kept
    BY <1>1 DEF Fresh, Want
  <2>1. /\ kept # Absent /\ kept.rv <= clock
        /\ Patched(kept, Want(q, i)) # kept
        /\ store[o] # Absent /\ store[o].rv = kept.rv => store[o] = kept
    BY DEF RunInv, Fresh
  <2>2. kept \in Live
    BY <1>3, <2>1 DEF RunState
  <2>3. kept.rv \in Nat
    BY <2>2 DEF Live
  <2>4. o \in Objects
    <3>1. i \in DOMAIN config[q]
      BY DEF RunInv, Located
    <3> QED
      BY <3>1, WantType, RunAssumption
  <2>5. store'[o] # Absent /\ store'[o].rv = kept.rv => store'[o] = kept
    BY <1>2, <2>1, <2>3, <2>4 DEF Evolves
  <2> QED
    BY <1>2, <2>1, <2>3, <2>5
<1>6. Noted(q)'
  <2> SUFFICES ASSUME run[q].pc # "idle"
               PROVE  /\ begun[q] <= clock'
                      /\ ~flags[q].dryRun =>
                           \A i \in DOMAIN config[q] \ run[q].todo :
                             store'[Target[i]] # Absent /\ store'[Target[i]].uid <= begun[q]
                               => store'[Target[i]].uid \in run[q].seen
    BY <1>1 DEF Noted
  <2>1. begun[q] <= clock
    BY DEF RunInv, Noted
  <2>2. ASSUME ~flags[q].dryRun, NEW i \in DOMAIN config[q] \ run[q].todo,
               store'[Target[i]] # Absent, store'[Target[i]].uid <= begun[q]
        PROVE  store'[Target[i]].uid \in run[q].seen
    <3>1. store[Target[i]] # Absent /\ store[Target[i]].uid <= begun[q]
             => store[Target[i]].uid \in run[q].seen
      BY <2>2 DEF RunInv, Noted
    <3>2. Target[i] \in Objects
      BY WantType, RunAssumption
    <3>3. store[Target[i]] # Absent /\ store'[Target[i]].uid = store[Target[i]].uid
      BY <1>2, <2>1, <2>2, <3>2 DEF Evolves
    <3> QED
      BY <2>2, <3>1, <3>3
  <2> QED
    BY <1>2, <2>1, <2>2
<1>7. Condemned(q)'
  BY <1>1 DEF RunInv, Condemned
<1> QED
  BY <1>4, <1>5, <1>6, <1>7 DEF RunInv

----------------------------------------------------------------------------
\* How the invariant is put together again after a step of one run.

\* It is enough to show that the run that moved keeps its own part.
LEMMA RunMoves ==
  ASSUME IInv, NEW r \in Runs, NEW s \in RunState, Become(r, s), Evolves,
         UNCHANGED envSteps, dirty' \subseteq Runs,
         base' \in [Runs -> [Objects -> Live \cup {Absent}]],
         begun' \in [Runs -> Nat], listedAt' \in [Runs -> Nat],
         \A q \in Runs \ {r} : begun'[q] = begun[q] /\ listedAt'[q] = listedAt[q],
         RunInv(r)'
  PROVE  IInv'
<1>1. run' = [run EXCEPT ![r] = s] /\ UNCHANGED inputs
  BY DEF Become
<1>2. run \in [Runs -> RunState]
  BY DEF IInv, TypeOK
<1>3. run' \in [Runs -> RunState] /\ \A q \in Runs \ {r} : run'[q] = run[q]
  BY <1>1, <1>2
<1>4. ClusterTypeOK'
  BY DEF IInv, TypeOK, ClusterTypeOK, Evolves
<1>5. TypeOK'
  BY <1>1, <1>3, <1>4 DEF IInv, TypeOK, inputs
<1>6. ClockBounds'
  BY BoundsStep DEF IInv, TypeOK
<1>7. ASSUME NEW q \in Runs \ {r} PROVE RunInv(q)'
  BY <1>1, <1>3, OthersKeep DEF IInv
<1> QED
  BY <1>5, <1>6, <1>7 DEF IInv

\* The same for a step that writes nothing and keeps the history.
LEMMA RunMovesAlone ==
  ASSUME IInv, NEW r \in Runs, NEW s \in RunState, Become(r, s), NoWrite,
         RunInv(r)'
  PROVE  IInv'
<1>1. UNCHANGED <<store, clock, envSteps, base, begun, listedAt, dirty>>
  BY DEF NoWrite, clusterVars, history
<1>2. Evolves
  BY <1>1, IdleEvolves DEF IInv, TypeOK
<1> QED
  BY <1>1, <1>2, RunMoves DEF IInv, TypeOK

\* And for a step that writes one object.
LEMMA RunMovesWriting ==
  ASSUME IInv, NEW r \in Runs, NEW s \in RunState, Become(r, s), Evolves,
         NEW o \in Objects, NEW live, Writes(r, o, live), RunInv(r)'
  PROVE  IInv'
<1>1. /\ UNCHANGED <<envSteps, base, begun, listedAt>>
      /\ dirty' = dirty \cup (Runs \ {r})
  BY DEF Writes
<1> QED
  BY <1>1, RunMoves DEF IInv, TypeOK

\* An object with a uid from before is the incarnation that was there before.
LEMMA SameIncarnation ==
  ASSUME Evolves, clock \in Nat, NEW o \in Objects, NEW n \in Nat, n <= clock,
         store'[o] # Absent, store'[o].uid <= n
  PROVE  store[o] # Absent /\ store'[o].uid = store[o].uid
BY DEF Evolves

\* A step that notes nothing and condemns nothing new.
LEMMA SameNotes ==
  ASSUME IInv, NEW r \in Runs, NEW s \in RunState, Become(r, s), Evolves,
         begun' = begun, listedAt' = listedAt,
         run[r].pc # "idle", s.todo = run[r].todo, s.seen = run[r].seen,
         s.doomed \subseteq run[r].doomed, s.pc # "gc" => s.doomed = {}
  PROVE  Noted(r)' /\ Condemned(r)'
<1>1. run'[r] = s /\ config' = config /\ flags' = flags
  BY DEF Become, inputs, IInv, TypeOK
<1>2. /\ clock \in Nat /\ clock' \in Nat /\ clock <= clock'
      /\ begun[r] \in Nat /\ begun[r] <= clock
  BY DEF IInv, RunInv, Noted, TypeOK, ClusterTypeOK, Evolves
<1>3. ASSUME ~flags[r].dryRun, NEW i \in DOMAIN config[r] \ run[r].todo,
             store'[Target[i]] # Absent, store'[Target[i]].uid <= begun[r]
      PROVE  store'[Target[i]].uid \in run[r].seen
  <2>1. Target[i] \in Objects
    BY WantType, RunAssumption DEF IInv
  <2>2. /\ store[Target[i]] # Absent
        /\ store'[Target[i]].uid = store[Target[i]].uid
    BY <1>2, <1>3, <2>1, SameIncarnation
  <2> QED
    BY <1>3, <2>2 DEF IInv, RunInv, Noted
<1>4. Noted(r)'
  BY <1>1, <1>2, <1>3 DEF Noted
<1>5. Condemned(r)'
  BY <1>1 DEF IInv, RunInv, Condemned
<1> QED
  BY <1>4, <1>5

\* createOrUpdate has succeeded for item i: the object that is there now is
\* younger than the run, or its uid has been noted.
LEMMA ItemSettles ==
  ASSUME IInv, NEW r \in Runs, NEW i \in DOMAIN config[r], NEW uid \in Nat,
         NEW settled \in BOOLEAN, Become(r, Applied(r, i, uid, settled)), Evolves,
         begun' = begun, listedAt' = listedAt,
         run[r].pc \in {"get", "create", "put"},
         ~flags[r].dryRun /\ store'[Target[i]] # Absent
           => store'[Target[i]].uid \in {uid, clock + 1}
  PROVE  /\ Applied(r, i, uid, settled) \in RunState
         /\ RunInv(r)'
<1> DEFINE s == Applied(r, i, uid, settled)
<1>1. i \in Items /\ run[r] \in RunState
  BY WantType DEF IInv, TypeOK
<1>2. /\ s \in RunState
      /\ s.todo = run[r].todo \ {i} /\ s.seen = run[r].seen \cup {uid}
      /\ s.doomed = run[r].doomed
      /\ s.item \in {i, NoItem} /\ s.attempts \in {0, run[r].attempts}
      /\ s.pc \in {"get", "gc", "done", "wait"}
      /\ s.pc \in {"gc", "done"} => run[r].todo \ {i} = {}
      /\ s.pc = "wait" => s.item = i
  BY <1>1, AppliedFacts
<1>3. run'[r] = s /\ config' = config /\ flags' = flags
  BY DEF Become, inputs, IInv, TypeOK
<1> HIDE DEF s
<1>4. /\ clock \in Nat /\ clock' \in Nat /\ clock <= clock'
      /\ begun[r] \in Nat /\ begun[r] <= clock
  BY DEF IInv, RunInv, Noted, TypeOK, ClusterTypeOK, Evolves
<1>5. Located(r)'
  <2>1. /\ run[r].todo \subseteq DOMAIN config[r]
        /\ run[r].attempts < MaxAttempts /\ 0 < MaxAttempts
    BY RunAssumption DEF IInv, RunInv, Located
  <2>2. i # NoItem
    BY <1>1, RunAssumption
  <2> QED
    BY <1>2, <1>3, <2>1, <2>2 DEF Located
<1>6. Fresh(r)'
  BY <1>2, <1>3 DEF Fresh
<1>7. Noted(r)'
  <2>1. ASSUME ~flags[r].dryRun, NEW j \in DOMAIN config[r] \ s.todo,
               store'[Target[j]] # Absent, store'[Target[j]].uid <= begun[r]
        PROVE  store'[Target[j]].uid \in s.seen
    <3>1. Target[j] \in Objects
      BY WantType, RunAssumption DEF IInv
    <3>2. /\ store[Target[j]] # Absent
          /\ store'[Target[j]].uid = store[Target[j]].uid
      BY <1>4, <2>1, <3>1, SameIncarnation
    <3>3. CASE j = i
      BY <1>2, <1>4, <2>1, <3>3
    <3>4. CASE j # i
      BY <1>2, <2>1, <3>2, <3>4 DEF IInv, RunInv, Noted
    <3> QED
      BY <3>3, <3>4
  <2> QED
    BY <1>3, <1>4, <2>1 DEF Noted
<1>8. Condemned(r)'
  BY <1>2, <1>3 DEF IInv, RunInv, Condemned
<1> QED
  BY <1>2, <1>5, <1>6, <1>7, <1>8 DEF RunInv, s

----------------------------------------------------------------------------
\* The invariant is inductive: initially ...

LEMMA InitInv == Init => IInv
<1> SUFFICES ASSUME Init PROVE IInv
  OBVIOUS
<1>1. store \in Stores /\ clock = StartClock /\ envSteps = 0
  BY DEF Init, ClusterInit
<1>2. ClusterTypeOK
  BY <1>1, StoresAssumption DEF ClusterTypeOK
<1> DEFINE s0 == [pc |-> "idle", todo |-> {}, item |-> NoItem, attempts |-> 0,
                  existing |-> Absent, gone |-> FALSE, warned |-> FALSE, seen |-> {},
                  views |-> {}, doomed |-> {}]
<1>3. run = [r \in Runs |-> s0]
  BY DEF Init
<1>4. s0 \in RunState
  BY RunAssumption DEF RunState
<1>5. TypeOK
  BY <1>2, <1>3, <1>4 DEF Init, TypeOK
<1>6. ClockBounds
  BY <1>1, StoresAssumption DEF ClockBounds
<1>7. ASSUME NEW r \in Runs PROVE RunInv(r)
  <2>1. run[r] = s0
    BY <1>3
  <2> QED
    BY <2>1, RunAssumption DEF RunInv, Located, Fresh, Noted, Condemned
<1> QED
  BY <1>5, <1>6, <1>7 DEF IInv

\* ... and after every action of a run.  Each lemma below has one action.

LEMMA BeginInv ==
  ASSUME IInv, NEW r \in Runs, Begin(r)
  PROVE  IInv'
<1> DEFINE s1 == [run[r] EXCEPT !.todo = DOMAIN config[r]]
           s == Forward(r, s1)
<1>1. run[r] \in RunState /\ DOMAIN config[r] \subseteq Items /\ clock \in Nat
  BY RunAssumption DEF IInv, TypeOK, ClusterTypeOK
<1>2. /\ s1 \in RunState
      /\ s1.todo = DOMAIN config[r] /\ s1.doomed = run[r].doomed
      /\ s1.seen = run[r].seen
  BY <1>1 DEF RunState
<1> HIDE DEF s1
<1>3. /\ s \in RunState
      /\ s.todo = DOMAIN config[r] /\ s.doomed = run[r].doomed
      /\ s.seen = run[r].seen /\ s.item = NoItem /\ s.attempts = 0
      /\ s.pc \in {"get", "gc", "done"}
      /\ s.pc # "get" => s.todo = {}
  BY <1>2, ForwardFacts
<1>4. /\ Become(r, s) /\ run[r].pc = "idle"
      /\ base' = [base EXCEPT ![r] = store] /\ begun' = [begun EXCEPT ![r] = clock]
      /\ dirty' = dirty \ {r} /\ UNCHANGED <<store, clock, envSteps, listedAt>>
  BY DEF Begin, At, clusterVars, s1
<1> HIDE DEF s
<1>5. /\ run'[r] = s /\ config' = config /\ flags' = flags
      /\ begun'[r] = clock /\ begun' \in [Runs -> Nat]
      /\ \A q \in Runs \ {r} : begun'[q] = begun[q]
  BY <1>1, <1>4 DEF Become, inputs, IInv, TypeOK
<1>6. base' \in [Runs -> [Objects -> Live \cup {Absent}]]
  BY <1>4 DEF IInv, TypeOK, ClusterTypeOK
<1>7. Evolves
  BY <1>4, IdleEvolves DEF IInv, TypeOK
<1>8. RunInv(r)'
  <2>1. Located(r)'
    BY <1>3, <1>5, RunAssumption DEF Located
  <2>2. Fresh(r)'
    BY <1>3, <1>5 DEF Fresh
  <2>3. Noted(r)'
    BY <1>1, <1>3, <1>4, <1>5 DEF Noted
  <2>4. Condemned(r)'
    BY <1>3, <1>4, <1>5 DEF IInv, RunInv, Condemned
  <2> QED
    BY <2>1, <2>2, <2>3, <2>4 DEF RunInv
<1> QED
  BY <1>3, <1>4, <1>5, <1>6, <1>7, <1>8, RunMoves DEF IInv, TypeOK

\* What the items a run may be at are.
LEMMA CurrentFacts ==
  ASSUME IInv, NEW r \in Runs, NEW i \in Current(r)
  PROVE  /\ i \in DOMAIN config[r] /\ i \in Items /\ i # NoItem
         /\ Target[i] \in Objects /\ Want(r, i) \in Manifest
         /\ Want(r, i) \in Sendable
<1>1. i \in DOMAIN config[r]
  BY DEF Current, IInv, RunInv, Located
<1> QED
  BY <1>1, WantType, RunAssumption DEF IInv

\* A step of the run that changes none of its notes nor the server: what is
\* left to show is where it is now.
LEMMA PlainStep ==
  ASSUME IInv, NEW r \in Runs, NEW s \in RunState, Become(r, s), NoWrite,
         run[r].pc # "idle", s.todo = run[r].todo, s.seen = run[r].seen,
         s.doomed \subseteq run[r].doomed, s.pc # "gc" => s.doomed = {},
         Located(r)', Fresh(r)'
  PROVE  IInv'
<1>1. UNCHANGED <<store, clock, begun, listedAt>>
  BY DEF NoWrite, clusterVars, history
<1>2. Evolves
  BY <1>1, IdleEvolves DEF IInv, TypeOK
<1>3. RunInv(r)'
  BY <1>1, <1>2, SameNotes DEF RunInv
<1> QED
  BY <1>3, RunMovesAlone

\* In particular a failure.
LEMMA FailInv ==
  ASSUME IInv, NEW r \in Runs, run[r].pc # "idle", Become(r, Failing(r)), NoWrite
  PROVE  IInv'
<1>1. run[r] \in RunState
  BY DEF IInv, TypeOK
<1>2. /\ Failing(r) \in RunState
      /\ Failing(r).pc = "failed" /\ Failing(r).doomed = {}
      /\ Failing(r).todo = run[r].todo /\ Failing(r).seen = run[r].seen
      /\ Failing(r).item = run[r].item
  BY <1>1, FailingFacts
<1>3. run'[r] = Failing(r) /\ config' = config
  BY DEF Become, inputs, IInv, TypeOK
<1>4. Located(r)'
  BY <1>2, <1>3 DEF Located, IInv, RunInv
<1>5. Fresh(r)'
  BY <1>2, <1>3 DEF Fresh
<1> QED
  BY <1>2, <1>4, <1>5, PlainStep

\* A write whose answer is lost.
LEMMA LostAnswerInv ==
  ASSUME IInv, NEW r \in Runs, run[r].pc # "idle", Become(r, Failing(r)),
         NEW o \in Objects, NEW live, Writes(r, o, live), Evolves
  PROVE  IInv'
<1>1. run[r] \in RunState
  BY DEF IInv, TypeOK
<1>2. /\ Failing(r) \in RunState
      /\ Failing(r).pc = "failed" /\ Failing(r).doomed = {}
      /\ Failing(r).todo = run[r].todo /\ Failing(r).seen = run[r].seen
      /\ Failing(r).item = run[r].item
  BY <1>1, FailingFacts
<1>3. /\ run'[r] = Failing(r) /\ config' = config
      /\ begun' = begun /\ listedAt' = listedAt
  BY DEF Become, inputs, IInv, TypeOK, Writes
<1>4. Located(r)'
  BY <1>2, <1>3 DEF Located, IInv, RunInv
<1>5. Fresh(r)'
  BY <1>2, <1>3 DEF Fresh
<1>6. RunInv(r)'
  BY <1>2, <1>3, <1>4, <1>5, SameNotes DEF RunInv
<1> QED
  BY <1>2, <1>6, RunMovesWriting

LEMMA GetAbsentInv ==
  ASSUME IInv, NEW r \in Runs, NEW i \in Items, GetAbsent(r, i)
  PROVE  IInv'
<1>1. /\ run[r].pc = "get" /\ i \in Current(r) /\ store[Target[i]] = Absent
      /\ NoWrite
  BY DEF GetAbsent, At
<1>2. /\ i \in DOMAIN config[r] /\ i # NoItem /\ Target[i] \in Objects
      /\ run[r] \in RunState
  BY <1>1, CurrentFacts DEF IInv, TypeOK
<1>3. UNCHANGED <<store, clock, begun, listedAt>> /\ run[r].doomed = {}
  BY <1>1 DEF NoWrite, clusterVars, history, IInv, RunInv, Condemned
<1>4. CASE Become(r, [Failing(r) EXCEPT !.item = i])
  <2> DEFINE s == [Failing(r) EXCEPT !.item = i]
  <2>1. /\ s \in RunState /\ s.pc = "failed" /\ s.doomed = {}
        /\ s.todo = run[r].todo /\ s.seen = run[r].seen /\ s.item = i
    BY <1>2, FailingFacts DEF RunState
  <2> HIDE DEF s
  <2>2. Become(r, s) /\ run'[r] = s /\ config' = config
    BY <1>4 DEF Become, inputs, IInv, TypeOK, s
  <2>3. Located(r)'
    BY <1>2, <2>1, <2>2 DEF Located, IInv, RunInv
  <2>4. Fresh(r)'
    BY <2>1, <2>2 DEF Fresh
  <2> QED
    BY <1>1, <2>1, <2>2, <2>3, <2>4, PlainStep
<1>5. CASE flags[r].dryRun /\ Become(r, Applied(r, i, NoUid, TRUE))
  <2>1. Evolves /\ NoUid \in Nat
    BY <1>3, IdleEvolves DEF IInv, TypeOK, NoUid
  <2>2. Applied(r, i, NoUid, TRUE) \in RunState /\ RunInv(r)'
    BY <1>1, <1>2, <1>3, <1>5, <2>1, ItemSettles
  <2> QED
    BY <1>1, <1>5, <2>2, RunMovesAlone
<1>6. CASE ~flags[r].dryRun /\ Become(r, [run[r] EXCEPT !.item = i, !.pc = "create"])
  <2> DEFINE s == [run[r] EXCEPT !.item = i, !.pc = "create"]
  <2>1. /\ s \in RunState /\ s.pc = "create" /\ s.doomed = {}
        /\ s.todo = run[r].todo /\ s.seen = run[r].seen /\ s.item = i
        /\ s.attempts = run[r].attempts
    BY <1>2, <1>3 DEF RunState, Working
  <2> HIDE DEF s
  <2>2. Become(r, s) /\ run'[r] = s /\ config' = config /\ flags' = flags
    BY <1>6 DEF Become, inputs, IInv, TypeOK, s
  <2>3. Located(r)'
    BY <1>1, <1>2, <1>6, <2>1, <2>2 DEF Located, IInv, RunInv
  <2>4. Fresh(r)'
    BY <2>1, <2>2 DEF Fresh
  <2> QED
    BY <1>1, <1>3, <2>1, <2>2, <2>3, <2>4, PlainStep
<1> QED
  BY <1>4, <1>5, <1>6 DEF GetAbsent

LEMMA GetLiveInv ==
  ASSUME IInv, NEW r \in Runs, NEW i \in Items, GetLive(r, i)
  PROVE  IInv'
<1> DEFINE live == store[Target[i]]
<1>1. /\ run[r].pc = "get" /\ i \in Current(r) /\ live # Absent
      /\ NoWrite
  BY DEF GetLive, At
<1>2. /\ i \in DOMAIN config[r] /\ i # NoItem /\ Target[i] \in Objects
      /\ run[r] \in RunState
  BY <1>1, CurrentFacts DEF IInv, TypeOK
<1>3. live \in Live
  BY <1>1, <1>2 DEF IInv, TypeOK, ClusterTypeOK
<1>4. UNCHANGED <<store, clock, begun, listedAt>> /\ run[r].doomed = {}
  BY <1>1 DEF NoWrite, clusterVars, history, IInv, RunInv, Condemned
<1>5. CASE Become(r, Applied(r, i, live.uid, Settled(Target[i], live)))
  <2>1. Evolves
    BY <1>4, IdleEvolves DEF IInv, TypeOK
  <2>2. live.uid \in Nat /\ Settled(Target[i], live) \in BOOLEAN
    BY <1>3 DEF Live, Settled
  <2>3. /\ Applied(r, i, live.uid, Settled(Target[i], live)) \in RunState
        /\ RunInv(r)'
    BY <1>1, <1>2, <1>4, <1>5, <2>1, <2>2, ItemSettles
  <2> QED
    BY <1>1, <1>5, <2>3, RunMovesAlone
<1>6. CASE /\ Patched(live, Want(r, i)) # live /\ ~flags[r].dryRun
           /\ Become(r, [run[r] EXCEPT !.item = i, !.existing = live, !.pc = "put"])
  <2> DEFINE s == [run[r] EXCEPT !.item = i, !.existing = live, !.pc = "put"]
  <2>1. /\ s \in RunState /\ s.pc = "put" /\ s.doomed = {}
        /\ s.todo = run[r].todo /\ s.seen = run[r].seen /\ s.item = i
        /\ s.attempts = run[r].attempts /\ s.existing = live
    BY <1>2, <1>3, <1>4 DEF RunState, Working
  <2>2. Become(r, s) /\ run'[r] = s /\ config' = config /\ flags' = flags
    BY <1>6 DEF Become, inputs, IInv, TypeOK
  <2> HIDE DEF s
  <2>3. Located(r)'
    BY <1>1, <1>2, <1>6, <2>1, <2>2 DEF Located, IInv, RunInv
  <2>4. Fresh(r)'
    <3>1. live.rv <= clock
      BY <1>1, <1>2 DEF IInv, ClockBounds
    <3> QED
      BY <1>1, <1>4, <1>6, <2>1, <2>2, <3>1 DEF Fresh, Want
  <2> QED
    BY <1>1, <1>4, <2>1, <2>2, <2>3, <2>4, PlainStep
<1> QED
  BY <1>5, <1>6 DEF GetLive

\* What Put and Create know of the item they send.
LEMMA SendingFacts ==
  ASSUME IInv, NEW r \in Runs, run[r].pc \in {"create", "put"}
  PROVE  /\ run[r].item \in DOMAIN config[r]
         /\ Target[run[r].item] \in Objects
         /\ Want(r, run[r].item) \in Manifest
         /\ Want(r, run[r].item) \in Sendable
         /\ ~flags[r].dryRun /\ run[r].doomed = {}
<1>1. run[r].item \in DOMAIN config[r]
  BY DEF IInv, RunInv, Located
<1> QED
  BY <1>1, WantType, RunAssumption DEF IInv, RunInv, Located, Condemned

LEMMA CreateInv ==
  ASSUME IInv, NEW r \in Runs, Create(r)
  PROVE  IInv'
<1> DEFINE i == run[r].item
           o == Target[i]
           new == Created(Want(r, i), clock + 1)
<1>1. run[r].pc = "create"
  BY DEF Create, At
<1>2. /\ i \in DOMAIN config[r] /\ o \in Objects /\ Want(r, i) \in Manifest
      /\ clock \in Nat /\ store \in [Objects -> Live \cup {Absent}]
  BY <1>1, SendingFacts DEF IInv, TypeOK, ClusterTypeOK
<1>3. /\ new \in Live /\ new.uid = clock + 1 /\ new.rv = clock + 1
  BY <1>2, CreatedType
<1>4. ASSUME store[o] = Absent, Writes(r, o, new)
      PROVE  Evolves /\ store'[o] = new /\ begun' = begun /\ listedAt' = listedAt
  <2>1. Write(o, new) /\ begun' = begun /\ listedAt' = listedAt
    BY <1>4 DEF Writes
  <2> QED
    BY <1>2, <1>3, <2>1, WriteEvolves DEF IInv, TypeOK
<1>5. CASE /\ store[o] = Absent /\ Writes(r, o, new)
           /\ Become(r, Applied(r, i, clock + 1, Settled(o, new)))
  <2>1. Settled(o, new) \in BOOLEAN
    BY <1>3 DEF Settled, Live
  <2>2. /\ Applied(r, i, clock + 1, Settled(o, new)) \in RunState
        /\ RunInv(r)'
    BY <1>1, <1>2, <1>3, <1>4, <1>5, <2>1, ItemSettles
  <2> QED
    BY <1>2, <1>4, <1>5, <2>2, RunMovesWriting
<1>6. CASE store[o] = Absent /\ Writes(r, o, new) /\ Become(r, Failing(r))
  BY <1>1, <1>2, <1>4, <1>6, LostAnswerInv
<1>7. CASE Become(r, Failing(r)) /\ NoWrite
  BY <1>1, <1>7, FailInv
<1> QED
  BY <1>5, <1>6, <1>7 DEF Create

\* What a Put writes when the server accepts it: the object it is merged
\* with is the one the server holds.
LEMMA AcceptedPut ==
  ASSUME IInv, NEW r \in Runs, run[r].pc = "put",
         store[Target[run[r].item]] # Absent,
         store[Target[run[r].item]].rv = run[r].existing.rv
  PROVE  LET o    == Target[run[r].item]
             want == Want(r, run[r].item)
             new  == Stamped(Patched(run[r].existing, want))
         IN /\ store[o] = run[r].existing /\ store[o] \in Live
            /\ new \in Live /\ new.rv = clock + 1 /\ new.uid = store[o].uid
            /\ new.terminating = store[o].terminating
            /\ Patched(store[o], want) # store[o]
<1> DEFINE o    == Target[run[r].item]
           want == Want(r, run[r].item)
           kept == run[r].existing
<1>1. o \in Objects /\ want \in Manifest /\ clock \in Nat
  BY SendingFacts DEF IInv, TypeOK, ClusterTypeOK
<1>2. store[o] = kept /\ Patched(kept, want) # kept
  BY DEF IInv, RunInv, Fresh
<1>3. kept \in Live
  BY <1>1, <1>2 DEF IInv, TypeOK, ClusterTypeOK
<1>4. /\ Patched(kept, want) \in Live /\ Patched(kept, want).uid = kept.uid
      /\ Patched(kept, want).terminating = kept.terminating
  BY <1>1, <1>3, PatchedType
<1> HIDE DEF o, want, kept
<1>5. /\ Stamped(Patched(kept, want)) \in Live
      /\ Stamped(Patched(kept, want)).rv = clock + 1
      /\ Stamped(Patched(kept, want)).uid = kept.uid
      /\ Stamped(Patched(kept, want)).terminating = kept.terminating
  BY <1>1, <1>4, StampedType
<1> QED
  BY <1>2, <1>3, <1>5 DEF o, want, kept

LEMMA PutInv ==
  ASSUME IInv, NEW r \in Runs, Put(r)
  PROVE  IInv'
<1> DEFINE i    == run[r].item
           o    == Target[i]
           kept == run[r].existing
           new  == Stamped(Patched(kept, Want(r, i)))
           s    == [run[r] EXCEPT !.attempts = @ + 1, !.existing = Absent]
<1>1. run[r].pc = "put"
  BY DEF Put, At
<1>2. /\ i \in DOMAIN config[r] /\ o \in Objects /\ run[r].doomed = {}
      /\ ~flags[r].dryRun /\ run[r] \in RunState
      /\ run[r].attempts < MaxAttempts
  BY <1>1, SendingFacts DEF IInv, TypeOK, RunInv, Located
<1>3. ASSUME store[o] # Absent, store[o].rv = kept.rv, Writes(r, o, new)
      PROVE  /\ Evolves /\ store'[o] = new /\ begun' = begun /\ listedAt' = listedAt
             /\ new.uid = kept.uid /\ kept \in Live
  <2>1. /\ new \in Live /\ new.rv = clock + 1 /\ new.uid = store[o].uid
        /\ store[o] = kept /\ store[o] \in Live
    BY <1>1, <1>3, AcceptedPut
  <2>2. Write(o, new) /\ begun' = begun /\ listedAt' = listedAt
    BY <1>3 DEF Writes
  <2> HIDE DEF new, o, kept
  <2>3. Evolves /\ store'[o] = new
    BY <1>2, <1>3, <2>1, <2>2, WriteEvolves DEF IInv, TypeOK
  <2> QED
    BY <2>1, <2>2, <2>3
<1>4. CASE /\ store[o] # Absent /\ store[o].rv = kept.rv /\ Writes(r, o, new)
           /\ Become(r, Applied(r, i, kept.uid, Settled(o, kept)))
  <2>1. /\ Evolves /\ store'[o] = new /\ begun' = begun /\ listedAt' = listedAt
        /\ new.uid = kept.uid /\ kept \in Live
    BY <1>3, <1>4
  <2>2. kept.uid \in Nat /\ Settled(o, kept) \in BOOLEAN
    BY <2>1 DEF Settled, Live
  <2> HIDE DEF new
  <2>3. /\ Applied(r, i, kept.uid, Settled(o, kept)) \in RunState
        /\ RunInv(r)'
    BY <1>1, <1>2, <1>4, <2>1, <2>2, ItemSettles
  <2> QED
    BY <1>2, <1>4, <2>1, <2>3, RunMovesWriting
<1>5. CASE /\ store[o] # Absent /\ store[o].rv = kept.rv /\ Writes(r, o, new)
           /\ Become(r, Failing(r))
  <2>1. Evolves
    BY <1>3, <1>5
  <2> QED
    BY <1>1, <1>2, <1>5, <2>1, LostAnswerInv
<1>6. CASE NoWrite /\ Become(r, Failing(r))
  BY <1>1, <1>6, FailInv
<1>7. s.attempts = run[r].attempts + 1 /\ s.attempts \in 0 .. MaxAttempts
  BY <1>2, RunAssumption DEF RunState
<1>8. ASSUME NoWrite,
             \/ s.attempts < MaxAttempts /\ Become(r, [s EXCEPT !.pc = "get"])
             \/ ~(s.attempts < MaxAttempts) /\ Become(r, [s EXCEPT !.pc = "failed"])
      PROVE  IInv'
  <2> DEFINE again == [s EXCEPT !.pc = "get"]
             over  == [s EXCEPT !.pc = "failed"]
             more  == s.attempts < MaxAttempts
  <2>0. again.pc = "get" /\ over.pc = "failed"
    BY <1>2 DEF RunState
  <2>1. PICK t \in {again, over} :
          /\ Become(r, t)
          /\ t.pc \in {"get", "failed"}
          /\ t.pc = "get" => more
    <3>1. CASE more /\ Become(r, again)
      <4> HIDE DEF again, over, more
      <4> QED
        BY <2>0, <3>1
    <3>2. CASE ~more /\ Become(r, over)
      <4> HIDE DEF again, over, more
      <4> QED
        BY <2>0, <3>2, Zenon
    <3> HIDE DEF s
    <3> QED
      BY <1>8, <3>1, <3>2
  <2>2. /\ t \in RunState /\ t.doomed = {} /\ t.todo = run[r].todo
        /\ t.seen = run[r].seen /\ t.item = i /\ t.attempts = s.attempts
    <3>1. /\ s \in RunState /\ s.doomed = {} /\ s.todo = run[r].todo
          /\ s.seen = run[r].seen /\ s.item = i
      BY <1>2, <1>7 DEF RunState
    <3> HIDE DEF s
    <3> QED
      BY <3>1 DEF RunState, Working, Ended
  <2> HIDE DEF s
  <2>3. run'[r] = t /\ config' = config /\ flags' = flags
    BY <2>1 DEF Become, inputs, IInv, TypeOK
  <2>4. Located(r)'
    BY <1>2, <2>1, <2>2, <2>3 DEF Located, IInv, RunInv
  <2>5. Fresh(r)'
    BY <2>1, <2>3 DEF Fresh
  <2> QED
    BY <1>1, <1>2, <1>8, <2>1, <2>2, <2>4, <2>5, PlainStep
<1> QED
  BY <1>4, <1>5, <1>6, <1>8 DEF Put

\* The loop moves on from an item it has waited for.
LEMMA ForwardInv ==
  ASSUME IInv, NEW r \in Runs, NEW s \in RunState, run[r].pc = "wait",
         s.todo = run[r].todo, s.seen = run[r].seen, s.doomed = run[r].doomed,
         Become(r, Forward(r, s)), NoWrite
  PROVE  IInv'
<1>1. /\ Forward(r, s) \in RunState
      /\ Forward(r, s).todo = s.todo /\ Forward(r, s).seen = s.seen
      /\ Forward(r, s).doomed = s.doomed /\ Forward(r, s).item = NoItem
      /\ Forward(r, s).attempts = 0
      /\ Forward(r, s).pc \in {"get", "gc", "done"}
      /\ Forward(r, s).pc # "get" => s.todo = {}
  BY ForwardFacts
<1>2. run'[r] = Forward(r, s) /\ config' = config /\ flags' = flags
  BY DEF Become, inputs, IInv, TypeOK
<1>3. run[r].doomed = {}
  BY DEF IInv, RunInv, Condemned
<1>4. Located(r)'
  BY <1>1, <1>2, RunAssumption DEF Located, IInv, RunInv
<1>5. Fresh(r)'
  BY <1>1, <1>2 DEF Fresh
<1> QED
  BY <1>1, <1>3, <1>4, <1>5, PlainStep

LEMMA PollInv ==
  ASSUME IInv, NEW r \in Runs, Poll(r)
  PROVE  IInv'
<1>1. /\ run[r].pc = "wait" /\ NoWrite /\ run[r] \in RunState
      /\ run[r].doomed = {}
  BY DEF Poll, At, IInv, TypeOK, RunInv, Condemned
<1>2. ASSUME NEW s \in {[run[r] EXCEPT !.pc = "panicked"], [run[r] EXCEPT !.gone = TRUE]},
             Become(r, s)
      PROVE  IInv'
  <2>1. /\ s \in RunState /\ s.pc \in {"wait", "panicked"} /\ s.doomed = {}
        /\ s.todo = run[r].todo /\ s.seen = run[r].seen /\ s.item = run[r].item
        /\ s.attempts = run[r].attempts
    BY <1>1, <1>2 DEF RunState, Ended
  <2>2. run'[r] = s /\ config' = config /\ flags' = flags
    BY <1>2 DEF Become, inputs, IInv, TypeOK
  <2>3. Located(r)'
    BY <1>1, <2>1, <2>2 DEF Located, IInv, RunInv
  <2>4. Fresh(r)'
    BY <2>1, <2>2 DEF Fresh
  <2> QED
    BY <1>1, <1>2, <2>1, <2>3, <2>4, PlainStep
<1>3. CASE Become(r, Forward(r, run[r]))
  BY <1>1, <1>3, ForwardInv
<1> QED
  BY <1>2, <1>3 DEF Poll

LEMMA GiveUpInv ==
  ASSUME IInv, NEW r \in Runs, GiveUpWaiting(r)
  PROVE  IInv'
<1> DEFINE s == [run[r] EXCEPT !.warned = TRUE]
<1>1. run[r].pc = "wait" /\ NoWrite /\ Become(r, Forward(r, s)) /\ run[r] \in RunState
  BY DEF GiveUpWaiting, At, IInv, TypeOK
<1>2. /\ s \in RunState /\ s.todo = run[r].todo /\ s.seen = run[r].seen
      /\ s.doomed = run[r].doomed
  BY <1>1 DEF RunState
<1> QED
  BY <1>1, <1>2, ForwardInv

LEMMA ListInv ==
  ASSUME IInv, NEW r \in Runs, List(r)
  PROVE  IInv'
<1>1. /\ run[r].pc = "gc" /\ run[r] \in RunState /\ clock \in Nat
      /\ UNCHANGED <<store, clock, envSteps, base, begun, dirty>>
      /\ listedAt' = [listedAt EXCEPT ![r] = clock]
  BY DEF List, At, clusterVars, IInv, TypeOK, ClusterTypeOK
<1>2. PICK v \in run[r].views :
        LET page == {o \in ListedIn[v] : store[o] # Absent}
            hits == {o \in page : /\ eligibleForGc(store[o], flags[r].gcTag)
                                  /\ store[o].uid \notin run[r].seen
                                  /\ ~flags[r].dryRun}
        IN Become(r, [run[r] EXCEPT
                        !.views = @ \ {v},
                        !.doomed = {[obj |-> o, uid |-> store[o].uid] : o \in hits}])
  BY DEF List
<1> DEFINE hits == {o \in {p \in ListedIn[v] : store[p] # Absent} :
                      /\ eligibleForGc(store[o], flags[r].gcTag)
                      /\ store[o].uid \notin run[r].seen
                      /\ ~flags[r].dryRun}
           doomed == {[obj |-> o, uid |-> store[o].uid] : o \in hits}
           s == [run[r] EXCEPT !.views = @ \ {v}, !.doomed = doomed]
<1>3. ASSUME NEW o \in hits
      PROVE  /\ o \in Objects /\ store[o].uid \in Nat /\ store[o].uid <= clock
             /\ store[o].uid \notin run[r].seen /\ ~flags[r].dryRun
  <2>1. o \in Objects /\ store[o] # Absent
    BY <1>1, RunAssumption DEF RunState
  <2>2. store[o] \in Live
    BY <2>1 DEF IInv, TypeOK, ClusterTypeOK
  <2> QED
    BY <2>1, <2>2 DEF Live, IInv, ClockBounds
<1> HIDE DEF hits
<1>4. /\ doomed \subseteq [obj: Objects, uid: Nat]
      /\ \A d \in doomed : d.uid \notin run[r].seen /\ d.uid <= clock
      /\ flags[r].dryRun => doomed = {}
  BY <1>3
<1>5. Become(r, s)
  BY <1>2 DEF hits
<1> HIDE DEF doomed
<1>6. /\ s \in RunState /\ s.pc = "gc" /\ s.doomed = doomed
      /\ s.todo = run[r].todo /\ s.seen = run[r].seen /\ s.item = run[r].item
      /\ s.attempts = run[r].attempts
  BY <1>1, <1>4 DEF RunState
<1> HIDE DEF s
<1>7. /\ run'[r] = s /\ config' = config /\ flags' = flags /\ listedAt'[r] = clock
      /\ listedAt' \in [Runs -> Nat]
      /\ \A q \in Runs \ {r} : listedAt'[q] = listedAt[q]
  BY <1>1, <1>5 DEF Become, inputs, IInv, TypeOK
<1>8. RunInv(r)'
  <2>1. Located(r)'
    BY <1>1, <1>6, <1>7 DEF Located, IInv, RunInv
  <2>2. Fresh(r)'
    BY <1>6, <1>7 DEF Fresh
  <2>3. Noted(r)'
    BY <1>1, <1>6, <1>7 DEF Noted, IInv, RunInv
  <2>4. Condemned(r)'
    BY <1>4, <1>6, <1>7 DEF Condemned
  <2> QED
    BY <2>1, <2>2, <2>3, <2>4 DEF RunInv
<1>9. Evolves
  BY <1>1, IdleEvolves DEF IInv, TypeOK
<1> QED
  BY <1>1, <1>5, <1>6, <1>7, <1>8, <1>9, RunMoves DEF IInv, TypeOK

LEMMA CollectInv ==
  ASSUME IInv, NEW r \in Runs, Collect(r)
  PROVE  IInv'
<1>1. run[r].pc = "gc" /\ run[r] \in RunState
  BY DEF Collect, At, IInv, TypeOK
<1>2. PICK d \in run[r].doomed :
        LET live == store[d.obj]
            hit  == live # Absent /\ live.uid = d.uid /\ ~live.terminating
            rest == [run[r] EXCEPT !.doomed = @ \ {d}]
        IN \/ /\ hit
              /\ Writes(r, d.obj, Stamped([live EXCEPT !.terminating = TRUE]))
              /\ Become(r, rest) \/ Become(r, Failing(r))
           \/ /\ ~hit
              /\ Become(r, rest)
              /\ NoWrite
  BY DEF Collect
<1> DEFINE o    == d.obj
           new  == Stamped([store[o] EXCEPT !.terminating = TRUE])
           rest == [run[r] EXCEPT !.doomed = @ \ {d}]
<1>3. o \in Objects /\ clock \in Nat
  BY <1>1 DEF RunState, IInv, TypeOK, ClusterTypeOK
<1>4. /\ rest \in RunState /\ rest.pc = "gc" /\ rest.doomed \subseteq run[r].doomed
      /\ rest.todo = run[r].todo /\ rest.seen = run[r].seen
      /\ rest.item = run[r].item /\ rest.attempts = run[r].attempts
  BY <1>1 DEF RunState
<1>5. ASSUME Become(r, rest)
      PROVE  Located(r)' /\ Fresh(r)'
  <2> HIDE DEF rest
  <2>1. run'[r] = rest /\ config' = config /\ flags' = flags
    BY <1>5 DEF Become, inputs, IInv, TypeOK
  <2> QED
    BY <1>1, <1>4, <2>1 DEF Located, Fresh, IInv, RunInv
<1>6. ASSUME store[o] # Absent, Writes(r, o, new)
      PROVE  Evolves
  <2>1. store[o] \in Live
    BY <1>3, <1>6 DEF IInv, TypeOK, ClusterTypeOK
  <2>2. [store[o] EXCEPT !.terminating = TRUE] \in Live
        /\ [store[o] EXCEPT !.terminating = TRUE].uid = store[o].uid
    BY <2>1 DEF Live
  <2>3. new \in Live /\ new.rv = clock + 1 /\ new.uid = store[o].uid
    BY <1>3, <2>2, StampedType
  <2>4. Write(o, new)
    BY <1>6 DEF Writes
  <2> QED
    BY <1>3, <1>6, <2>3, <2>4, WriteEvolves DEF IInv, TypeOK
<1>7. CASE store[o] # Absent /\ Writes(r, o, new) /\ Become(r, rest)
  <2>1. Evolves /\ begun' = begun /\ listedAt' = listedAt
    BY <1>6, <1>7 DEF Writes
  <2> HIDE DEF rest, new
  <2>2. RunInv(r)'
    BY <1>1, <1>4, <1>5, <1>7, <2>1, SameNotes DEF RunInv
  <2> QED
    BY <1>3, <1>4, <1>7, <2>1, <2>2, RunMovesWriting
<1>8. CASE store[o] # Absent /\ Writes(r, o, new) /\ Become(r, Failing(r))
  BY <1>1, <1>3, <1>6, <1>8, LostAnswerInv
<1>9. CASE Become(r, rest) /\ NoWrite
  <2> HIDE DEF rest
  <2> QED
    BY <1>1, <1>4, <1>5, <1>9, PlainStep
<1> QED
  BY <1>2, <1>7, <1>8, <1>9

LEMMA FinishInv ==
  ASSUME IInv, NEW r \in Runs, Finish(r)
  PROVE  IInv'
<1> DEFINE s == [run[r] EXCEPT !.pc = "done"]
<1>1. /\ run[r].pc = "gc" /\ run[r].doomed = {} /\ run[r] \in RunState
      /\ Become(r, s) /\ NoWrite
  BY DEF Finish, At, IInv, TypeOK
<1>2. /\ s \in RunState /\ s.pc = "done" /\ s.doomed = {}
      /\ s.todo = run[r].todo /\ s.seen = run[r].seen
      /\ s.item = run[r].item /\ s.attempts = run[r].attempts
  BY <1>1 DEF RunState, Ended
<1> HIDE DEF s
<1>3. run'[r] = s /\ config' = config /\ flags' = flags
  BY <1>1 DEF Become, inputs, IInv, TypeOK
<1>4. Located(r)'
  BY <1>1, <1>2, <1>3 DEF Located, IInv, RunInv
<1>5. Fresh(r)'
  BY <1>2, <1>3 DEF Fresh
<1> QED
  BY <1>1, <1>2, <1>4, <1>5, PlainStep

LEMMA AbortInv ==
  ASSUME IInv, NEW r \in Runs, Abort(r)
  PROVE  IInv'
BY FailInv DEF Abort, Working

\* A write of others leaves every run where it is.
LEMMA OthersInv ==
  ASSUME IInv, Disturb \/ Establish
  PROVE  IInv'
<1>1. /\ UNCHANGED <<config, flags, run, base, begun, listedAt>>
      /\ dirty' \subseteq Runs
  BY DEF Disturb, Establish, inputs, history, IInv, TypeOK
<1>2. PICK o \in Objects :
        OthersEdit(o) \/ OthersRemove(o) \/ OthersCreate(o) \/ OthersEstablish(o)
  BY DEF Disturb, Establish
<1>3. clock \in Nat /\ store[o] \in Live \cup {Absent} /\ envSteps \in 0 .. MaxEnv
  BY DEF IInv, TypeOK, ClusterTypeOK
<1>4. PICK live \in Live \cup {Absent} :
        /\ OthersWrite(o, live)
        /\ live # Absent => /\ live.rv = clock + 1
                            /\ \/ live.uid = clock + 1
                               \/ store[o] # Absent /\ live.uid = store[o].uid
  <2>1. CASE OthersEdit(o)
    <3>1. PICK e \in Edits :
            OthersWrite(o, Stamped([store[o] EXCEPT !.fields[e.field] = e.value]))
      BY <2>1 DEF OthersEdit
    <3>2. e.field \in Fields /\ e.value \in Values \cup {None}
      BY OthersAssumption
    <3>3. store[o] \in Live /\ store[o] # Absent
      BY <1>3, <2>1 DEF OthersEdit
    <3>4. /\ [store[o] EXCEPT !.fields[e.field] = e.value] \in Live
          /\ [store[o] EXCEPT !.fields[e.field] = e.value].uid = store[o].uid
      BY <3>2, <3>3 DEF Live, Manifest
    <3> DEFINE new == Stamped([store[o] EXCEPT !.fields[e.field] = e.value])
    <3>5. new \in Live /\ new.rv = clock + 1 /\ new.uid = store[o].uid
      BY <1>3, <3>4, StampedType
    <3>6. OthersWrite(o, new)
      BY <3>1
    <3> HIDE DEF new
    <3> QED
      BY <3>3, <3>5, <3>6
  <2>2. CASE OthersRemove(o)
    BY <2>2 DEF OthersRemove
  <2>3. CASE OthersCreate(o)
    <3>1. PICK s \in Seeds :
            OthersWrite(o, [Created(s.fields, clock + 1) EXCEPT
                              !.orig = NoOrig, !.controlled = s.controlled])
      BY <2>3 DEF OthersCreate
    <3>2. s.fields \in Manifest /\ s.controlled \in BOOLEAN /\ clock + 1 \in Nat
      BY <1>3, OthersAssumption
    <3>3. /\ Created(s.fields, clock + 1) \in Live
          /\ Created(s.fields, clock + 1).rv = clock + 1
          /\ Created(s.fields, clock + 1).uid = clock + 1
      BY <3>2, CreatedType
    <3> DEFINE new == [Created(s.fields, clock + 1) EXCEPT
                         !.orig = NoOrig, !.controlled = s.controlled]
    <3>4. new \in Live /\ new.rv = clock + 1 /\ new.uid = clock + 1
      BY <3>2, <3>3 DEF Live
    <3>5. OthersWrite(o, new)
      BY <3>1
    <3> HIDE DEF new
    <3> QED
      BY <3>4, <3>5
  <2>4. CASE OthersEstablish(o)
    <3>1. store[o] \in Live /\ store[o] # Absent
      BY <1>3, <2>4 DEF OthersEstablish
    <3>2. /\ [store[o] EXCEPT !.established = TRUE] \in Live
          /\ [store[o] EXCEPT !.established = TRUE].uid = store[o].uid
      BY <3>1 DEF Live
    <3> DEFINE new == Stamped([store[o] EXCEPT !.established = TRUE])
    <3>3. new \in Live /\ new.rv = clock + 1 /\ new.uid = store[o].uid
      BY <1>3, <3>2, StampedType
    <3>4. OthersWrite(o, new)
      BY <2>4 DEF OthersEstablish
    <3> HIDE DEF new
    <3> QED
      BY <3>1, <3>3, <3>4
  <2> QED
    BY <1>2, <2>1, <2>2, <2>3, <2>4
<1>5. Write(o, live) /\ envSteps' \in 0 .. MaxEnv
  BY <1>3, <1>4, StoresAssumption DEF OthersWrite
<1>6. Evolves
  BY <1>4, <1>5, WriteEvolves DEF IInv, TypeOK
<1>7. TypeOK'
  BY <1>1, <1>5, <1>6 DEF IInv, TypeOK, ClusterTypeOK, Evolves
<1>8. ClockBounds'
  BY <1>6, BoundsStep DEF IInv, TypeOK
<1>9. ASSUME NEW q \in Runs PROVE RunInv(q)'
  BY <1>1, <1>6, OthersKeep DEF IInv, inputs
<1> QED
  BY <1>7, <1>8, <1>9 DEF IInv

LEMMA NextInv == IInv /\ [Next]_vars => IInv'
<1> SUFFICES ASSUME IInv, [Next]_vars PROVE IInv'
  OBVIOUS
<1>1. CASE \E r \in Runs : Begin(r) \/ Progress(r) \/ Abort(r)
  <2>1. PICK r \in Runs : Begin(r) \/ Progress(r) \/ Abort(r)
    BY <1>1
  <2>2. CASE Begin(r) \/ Abort(r)
    BY <2>2, BeginInv, AbortInv
  <2>3. CASE Progress(r)
    BY <2>3, GetAbsentInv, GetLiveInv, CreateInv, PutInv, PollInv, GiveUpInv,
       ListInv, CollectInv, FinishInv DEF Progress
  <2> QED
    BY <2>1, <2>2, <2>3
<1>2. CASE Disturb \/ Establish
  BY <1>2, OthersInv
<1>3. CASE UNCHANGED vars
  BY <1>3 DEF vars, IInv, TypeOK, ClusterTypeOK, ClockBounds, RunInv, Located, Fresh,
              Noted, Condemned, Want
<1> QED
  BY <1>1, <1>2, <1>3 DEF Next

\* IInv holds in every state of every behaviour.
THEOREM Invariance == Spec => []IInv
<1>1. Init => IInv
  BY InitInv
<1>2. IInv /\ [Next]_vars => IInv'
  BY NextInv
<1> QED
  BY <1>1, <1>2, PTL DEF Spec

\* Every variable of the cluster and of the runs keeps its type; in
\* particular a run counts at most MaxAttempts conflicts and its pages name
\* objects of the server.
THEOREM TypeCorrect == Spec => []TypeOK
<1>1. IInv => TypeOK
  BY DEF IInv
<1> QED
  BY <1>1, Invariance, PTL

----------------------------------------------------------------------------
\* What the invariant is for.

\* The only step of a run that marks an object for deletion is Collect, and
\* the object is one it condemned.
LEMMA CollectsCondemned ==
  ASSUME IInv, [Next]_vars, NEW r \in Runs, NEW o \in Objects, Collects(r, o)
  PROVE  /\ run[r].pc = "gc" /\ ~flags[r].dryRun
         /\ \E d \in run[r].doomed : d.uid = store[o].uid
<1>1. /\ run'[r] # run[r]
      /\ store[o] # Absent /\ ~store[o].terminating
      /\ store'[o] # Absent /\ store'[o].terminating
  BY DEF Collects
<1>2. /\ store'[o] # store[o]
      /\ store \in [Objects -> Live \cup {Absent}] /\ run \in [Runs -> RunState]
  BY <1>1 DEF IInv, TypeOK, ClusterTypeOK
<1>3. PICK q \in Runs : Begin(q) \/ Progress(q) \/ Abort(q)
  BY <1>1 DEF Next, vars, Disturb, Establish
<1>4. ASSUME NEW s, Become(q, s) PROVE q = r
  BY <1>1, <1>2, <1>4 DEF Become
<1>5. CASE Create(q)
  <2> DEFINE p == Target[run[q].item]
             new == Created(Want(q, run[q].item), clock + 1)
  <2>1. store[p] = Absent /\ Writes(q, p, new)
    BY <1>2, <1>5 DEF Create, NoWrite, clusterVars
  <2>2. store'[o] = store[o] \/ o = p
    BY <1>2, <2>1 DEF Writes, Write
  <2> QED
    BY <1>1, <1>2, <2>1, <2>2
<1>6. CASE Put(q)
  <2> DEFINE p == Target[run[q].item]
             new == Stamped(Patched(run[q].existing, Want(q, run[q].item)))
  <2>1. /\ run[q].pc = "put"
        /\ store[p] # Absent /\ store[p].rv = run[q].existing.rv /\ Writes(q, p, new)
    BY <1>2, <1>6 DEF Put, At, NoWrite, clusterVars
  <2>2. new.terminating = store[p].terminating
    BY <2>1, AcceptedPut
  <2> HIDE DEF new
  <2>3. store'[o] = store[o] \/ (o = p /\ store'[o] = new)
    BY <1>2, <2>1 DEF Writes, Write
  <2> QED
    BY <1>1, <1>2, <2>2, <2>3
<1>7. CASE Collect(q)
  <2>1. PICK d \in run[q].doomed :
          LET live == store[d.obj]
              hit  == live # Absent /\ live.uid = d.uid /\ ~live.terminating
              rest == [run[q] EXCEPT !.doomed = @ \ {d}]
          IN \/ /\ hit
                /\ Writes(q, d.obj, Stamped([live EXCEPT !.terminating = TRUE]))
                /\ Become(q, rest) \/ Become(q, Failing(q))
             \/ /\ ~hit
                /\ Become(q, rest)
                /\ NoWrite
    BY <1>7 DEF Collect
  <2>2. /\ store[d.obj].uid = d.uid
        /\ Writes(q, d.obj, Stamped([store[d.obj] EXCEPT !.terminating = TRUE]))
        /\ q = r
    BY <1>2, <1>4, <2>1 DEF NoWrite, clusterVars
  <2>3. o = d.obj
    BY <1>2, <2>2 DEF Writes, Write
  <2>4. run[r].pc = "gc"
    BY <1>7, <2>2 DEF Collect, At
  <2>5. ~flags[r].dryRun
    BY <2>1, <2>2 DEF IInv, RunInv, Condemned
  <2> QED
    BY <2>2, <2>3, <2>4, <2>5
<1>8. CASE Begin(q) \/ Abort(q) \/ (\E i \in Items : GetAbsent(q, i) \/ GetLive(q, i))
             \/ Poll(q) \/ GiveUpWaiting(q) \/ List(q) \/ Finish(q)
  BY <1>2, <1>8 DEF Begin, Abort, GetAbsent, GetLive, Poll, GiveUpWaiting, List, Finish,
                    NoWrite, clusterVars
<1> QED
  BY <1>3, <1>5, <1>6, <1>7, <1>8 DEF Progress

\* A run never collects an object of its configuration that was there when it
\* began, nor an incarnation it applied.
THEOREM ConfigSpared == Spec => GcSparesConfig
<1>1. ASSUME IInv, [Next]_vars, NEW r \in Runs, NEW o \in Targets(r), Collects(r, o)
      PROVE  store[o].uid > begun[r] /\ store[o].uid \notin run[r].seen
  <2>1. PICK i \in DOMAIN config[r] : o = Target[i]
    BY DEF Targets
  <2>2. o \in Objects
    BY <1>1, <2>1, WantType, RunAssumption DEF IInv
  <2>3. /\ run[r].pc = "gc" /\ ~flags[r].dryRun
        /\ \E d \in run[r].doomed : d.uid = store[o].uid
    BY <1>1, <2>2, CollectsCondemned
  <2>4. store[o].uid \notin run[r].seen
    BY <1>1, <2>3 DEF IInv, RunInv, Condemned
  <2>5. run[r].todo = {}
    BY <1>1, <2>3 DEF IInv, RunInv, Located
  <2>6. store[o] # Absent /\ store[o] \in Live
    BY <1>1, <2>2 DEF Collects, IInv, TypeOK, ClusterTypeOK
  <2>7. ~(store[o].uid <= begun[r])
    BY <1>1, <2>1, <2>3, <2>4, <2>5, <2>6 DEF IInv, RunInv, Noted
  <2>8. store[o].uid \in Nat /\ begun[r] \in Nat
    BY <1>1, <2>6 DEF Live, IInv, TypeOK
  <2> QED
    BY <2>4, <2>7, <2>8
<1>2. IInv /\ [Next]_vars =>
        [\A r \in Runs : \A o \in Targets(r) :
           Collects(r, o) => store[o].uid > begun[r] /\ store[o].uid \notin run[r].seen]_vars
  BY <1>1
<1> QED
  BY <1>2, Invariance, PTL DEF Spec, GcSparesConfig

\* A run never collects an object younger than the listing that condemned its
\* predecessor of the same name.
THEOREM NewerSpared == Spec => GcSparesNewer
<1>1. ASSUME IInv, [Next]_vars, NEW r \in Runs, NEW o \in Objects, Collects(r, o)
      PROVE  store[o].uid <= listedAt[r]
  BY <1>1, CollectsCondemned DEF IInv, RunInv, Condemned
<1>2. IInv /\ [Next]_vars =>
        [\A r \in Runs, o \in Objects :
           Collects(r, o) => store[o].uid <= listedAt[r]]_vars
  BY <1>1
<1> QED
  BY <1>2, Invariance, PTL DEF Spec, GcSparesNewer

\* A write of a run is a step of AtomicApply.
LEMMA WritesAreAtomic ==
  ASSUME IInv, NEW r \in Runs, Progress(r), ~UNCHANGED <<store, clock, envSteps>>
  PROVE  Atomic!AtomicStep /\ UNCHANGED envSteps /\ ~flags[r].dryRun
<1>1. clock \in Nat /\ store \in [Objects -> Live \cup {Absent}] /\ run[r] \in RunState
  BY DEF IInv, TypeOK, ClusterTypeOK
<1>2. CASE Create(r)
  <2> DEFINE o == Target[run[r].item]
             want == Want(r, run[r].item)
  <2>1. /\ run[r].pc = "create"
        /\ store[o] = Absent /\ Writes(r, o, Created(want, clock + 1))
    BY <1>2 DEF Create, At, NoWrite, clusterVars
  <2>2. o \in Objects /\ want \in Sendable /\ ~flags[r].dryRun
    BY <2>1, SendingFacts
  <2>3. Atomic!CreateObject(o, want) /\ UNCHANGED envSteps
    BY <2>1 DEF Atomic!CreateObject, Atomic!Write, Atomic!Created, Writes, Write, Created
  <2> QED
    BY <2>2, <2>3 DEF Atomic!AtomicStep
<1>3. CASE Put(r)
  <2> DEFINE o == Target[run[r].item]
             want == Want(r, run[r].item)
             kept == run[r].existing
  <2>1. /\ run[r].pc = "put" /\ store[o] # Absent /\ store[o].rv = kept.rv
        /\ Writes(r, o, Stamped(Patched(kept, want)))
    BY <1>3 DEF Put, At, NoWrite, clusterVars
  <2>2. o \in Objects /\ want \in Sendable /\ ~flags[r].dryRun
    BY <2>1, SendingFacts
  <2>3. store[o] = kept /\ Patched(store[o], want) # store[o]
    BY <2>1, AcceptedPut
  <2>4. Atomic!MergeObject(o, want) /\ UNCHANGED envSteps
    BY <2>1, <2>3 DEF Atomic!MergeObject, Atomic!Write, Atomic!Stamped, Atomic!Patched,
       Atomic!Merge, Atomic!MergeField, Atomic!WasApplied, Writes, Write, Stamped, Patched,
       Merge, MergeField, WasApplied
  <2> QED
    BY <2>2, <2>4 DEF Atomic!AtomicStep
<1>4. CASE Collect(r)
  <2>1. PICK d \in run[r].doomed :
          /\ store[d.obj] # Absent /\ ~store[d.obj].terminating
          /\ Writes(r, d.obj, Stamped([store[d.obj] EXCEPT !.terminating = TRUE]))
    BY <1>4 DEF Collect, NoWrite, clusterVars
  <2>2. d.obj \in Objects /\ ~flags[r].dryRun
    BY <1>1, <2>1 DEF RunState, IInv, RunInv, Condemned
  <2>3. Atomic!RetireObject(d.obj) /\ UNCHANGED envSteps
    BY <2>1 DEF Atomic!RetireObject, Atomic!Write, Atomic!Stamped, Writes, Write, Stamped
  <2> QED
    BY <2>2, <2>3 DEF Atomic!AtomicStep
<1>5. CASE (\E i \in Items : GetAbsent(r, i) \/ GetLive(r, i))
             \/ Poll(r) \/ GiveUpWaiting(r) \/ List(r) \/ Finish(r)
  BY <1>5 DEF GetAbsent, GetLive, Poll, GiveUpWaiting, List, Finish, NoWrite, clusterVars
<1> QED
  BY <1>2, <1>3, <1>4, <1>5 DEF Progress

\* So is every write of anyone.
LEMMA StepsAreAtomic ==
  ASSUME IInv, [Next]_vars
  PROVE  [Atomic!AtomicNext]_<<store, clock, envSteps>>
<1> SUFFICES ASSUME Next, ~UNCHANGED <<store, clock, envSteps>>
             PROVE  Atomic!AtomicNext
  BY DEF vars
<1>1. CASE \E r \in Runs : Begin(r) \/ Progress(r) \/ Abort(r)
  <2>1. PICK r \in Runs : Begin(r) \/ Progress(r) \/ Abort(r)
    BY <1>1
  <2>2. Progress(r)
    BY <2>1 DEF Begin, Abort, NoWrite, clusterVars
  <2> QED
    BY <2>2, WritesAreAtomic DEF Atomic!AtomicNext
<1>2. CASE Disturb \/ Establish
  <2>1. PICK o \in Objects :
          OthersEdit(o) \/ OthersRemove(o) \/ OthersCreate(o) \/ OthersEstablish(o)
    BY <1>2 DEF Disturb, Establish
  <2>2. \/ Atomic!OthersEdit(o) \/ Atomic!OthersRemove(o)
        \/ Atomic!OthersCreate(o) \/ Atomic!OthersEstablish(o)
    BY <2>1 DEF OthersEdit, OthersRemove, OthersCreate, OthersEstablish, OthersWrite,
       Write, Stamped, Created, Atomic!OthersEdit, Atomic!OthersRemove,
       Atomic!OthersCreate, Atomic!OthersEstablish, Atomic!OthersWrite,
       Atomic!Write, Atomic!Stamped, Atomic!Created
  <2> QED
    BY <2>2 DEF Atomic!AtomicNext, Atomic!Others
<1> QED
  BY <1>1, <1>2 DEF Next

\* UpdateRun implements AtomicApply: every write of a run merges its manifest
\* into what the server holds at that moment.
THEOREM Refinement == Spec => UpdatesAreAtomic
<1>1. Init => Atomic!ClusterInit
  BY DEF Init, ClusterInit, Atomic!ClusterInit
<1>2. IInv /\ [Next]_vars => [Atomic!AtomicNext]_<<store, clock, envSteps>>
  BY StepsAreAtomic
<1> QED
  BY <1>1, <1>2, Invariance, PTL
     DEF Spec, UpdatesAreAtomic, Atomic!AtomicSpec, Atomic!clusterVars

\* No run with --dry-run changes the server.
THEOREM DryRunHarmless == Spec => DryRunReadOnly
<1>1. ASSUME IInv, [Next]_vars, NEW r \in Runs, flags[r].dryRun, run'[r] # run[r]
      PROVE  UNCHANGED store
  <2>1. PICK q \in Runs : Begin(q) \/ Progress(q) \/ Abort(q)
    BY <1>1 DEF Next, vars, Disturb, Establish
  <2>2. q = r
    <3>1. PICK s : Become(q, s)
      BY <2>1 DEF Begin, Progress, Abort, GetAbsent, GetLive, Create, Put, Poll,
                  GiveUpWaiting, List, Collect, Finish
    <3> QED
      BY <1>1, <3>1 DEF Become, IInv, TypeOK
  <2> QED
    BY <1>1, <2>1, <2>2, WritesAreAtomic DEF Begin, Abort, NoWrite, clusterVars
<1>2. IInv /\ [Next]_vars =>
        [\A r \in Runs :
           flags[r].dryRun /\ run'[r] # run[r] => UNCHANGED store]_vars
  BY <1>1
<1> QED
  BY <1>2, Invariance, PTL DEF Spec, DryRunReadOnly

=============================================================================
