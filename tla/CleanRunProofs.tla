--------------------------- MODULE CleanRunProofs ---------------------------
(***************************************************************************)
(* Theorems about what a run of UpdateRun that is alone leaves on the      *)
(* server: the merge of its configuration wherever it stops, exactly the   *)
(* stale objects marked for deletion, and nothing for a second run to do.  *)
(* CInv is inductive relative to IInv of UpdateRunProofs.                  *)
(***************************************************************************)
EXTENDS UpdateRunProofs

Sending == {"get", "create", "put"}

\* No two objects are one incarnation.
UniqueUids ==
  \A o, p \in Objects :
    (store[o] # Absent /\ store[p] # Absent /\ store[o].uid = store[p].uid) => o = p

\* What Begin may rely on, which item a run is at while it sends and while it
\* waits, and why it walks.
Oriented(r) ==
  /\ run[r].pc = "idle" => run[r].seen = {} /\ run[r].item = NoItem
  /\ run[r].pc \in Sending => run[r].item \in run[r].todo \cup {NoItem}
  /\ run[r].pc = "wait" => run[r].item \notin run[r].todo
  /\ run[r].pc = "gc" => flags[r].gcTag # None /\ ~flags[r].skipGc

\* Object o holds what it held when the run began, but for the status.
Intact(r, o) ==
  /\ store[o] = Absent <=> base[r][o] = Absent
  /\ store[o] # Absent => /\ store[o].fields = base[r][o].fields
                          /\ store[o].orig = base[r][o].orig

\* What CleanPrefix says a field of item i becomes.
MergedField(r, i, f) ==
  LET before == base[r][Target[i]]
      want   == Want(r, i)
  IN IF want[f] # None \/ before = Absent THEN want[f]
     ELSE IF before.orig # NoOrig /\ before.orig[f] # None THEN None
     ELSE before.fields[f]

\* Item i has been applied.
Merged(r, i) ==
  LET now == store[Target[i]]
  IN /\ now # Absent /\ now.orig = Want(r, i)
     /\ \A f \in Fields : now.fields[f] = MergedField(r, i, f)

\* Object o is one that the walk of run r has to delete.
Stale(r, o) ==
  /\ base[r][o] # Absent /\ ~base[r][o].controlled
  /\ flags[r].gcTag # None /\ ~flags[r].skipGc
  /\ base[r][o].fields[TagField] = flags[r].gcTag
  /\ base[r][o].fields[StrategyField] \in {None, GcStrategyAuto}

Listable(o) == \E v \in Views : o \in ListedIn[v]

\* Object o, which is not in the configuration, is as it was, or else it is
\* stale and has been marked, and no item is left to apply.
Kept(r, o) ==
  /\ store[o] = Absent <=> base[r][o] = Absent
  /\ store[o] # Absent =>
       /\ store[o].fields = base[r][o].fields
       /\ store[o].controlled = base[r][o].controlled
       /\ store[o].terminating = base[r][o].terminating \/ (Stale(r, o) /\ run[r].todo = {})

\* Item i is through, its uid noted, and its schema is ready unless it is
\* still waited for or the wait was given up.
Through(r, i) ==
  /\ Merged(r, i)
  /\ store[Target[i]].uid \in run[r].seen
  /\ (Target[i] \in Crds /\ i # run[r].item /\ ~run[r].warned)
       => store[Target[i]].established

\* A noted uid is that of an item that is through.
SeenHeld(r) ==
  \A u \in run[r].seen :
    \E i \in DOMAIN config[r] \ run[r].todo :
      store[Target[i]] # Absent /\ store[Target[i]].uid = u

\* What is about to be deleted, if it is still there, may be.
DoomedStale(r) ==
  \A d \in run[r].doomed :
    /\ Listable(d.obj)
    /\ (store[d.obj] # Absent /\ store[d.obj].uid = d.uid)
         => eligibleForGc(store[d.obj], flags[r].gcTag)

\* During the walk a stale object is marked, on the page or still to be
\* listed; after it, it is marked.
StaleLeft(r) ==
  \A o \in Objects \ Targets(r) :
    (run[r].pc \in {"gc", "done"} /\ Stale(r, o) /\ Listable(o)) =>
      \/ store[o].terminating
      \/ /\ run[r].pc = "gc"
         /\ \/ \E v \in run[r].views : o \in ListedIn[v]
            \/ [obj |-> o, uid |-> store[o].uid] \in run[r].doomed

Clean(r) ==
  /\ \A i \in run[r].todo :
       (i # run[r].item \/ run[r].pc \in Sending) => Intact(r, Target[i])
  /\ \A i \in DOMAIN config[r] \ run[r].todo : Through(r, i)
  /\ \A o \in Objects \ Targets(r) : Kept(r, o)
  /\ SeenHeld(r) /\ DoomedStale(r) /\ StaleLeft(r)

CInv ==
  /\ UniqueUids
  /\ \A r \in Runs : Oriented(r) /\ (Alone(r) => Clean(r))

----------------------------------------------------------------------------
\* What a step does to the store.

\* One object is written at most, and its uid is new or remains.
LEMMA OneWrite ==
  ASSUME IInv, [Next]_vars
  PROVE  \/ store' = store
         \/ \E o \in Objects :
              /\ \A p \in Objects \ {o} : store'[p] = store[p]
              /\ store'[o] # Absent =>
                   \/ store'[o].uid = clock + 1
                   \/ store[o] # Absent /\ store'[o].uid = store[o].uid
<1>0. store \in [Objects -> Live \cup {Absent}] /\ clock \in Nat
  BY DEF IInv, TypeOK, ClusterTypeOK
<1>1. CASE UNCHANGED <<store, clock, envSteps>>
  BY <1>1
<1>2. CASE Atomic!AtomicNext
  <2> USE DEF Atomic!Write
  <2>1. CASE \E o \in Objects, m \in Sendable : Atomic!CreateObject(o, m)
    <3>1. PICK o \in Objects, m \in Sendable : Atomic!CreateObject(o, m)
      BY <2>1
    <3>2. store' = [store EXCEPT ![o] = Atomic!Created(m, clock + 1)]
      BY <3>1 DEF Atomic!CreateObject
    <3>3. Atomic!Created(m, clock + 1).uid = clock + 1
      BY DEF Atomic!Created
    <3> QED
      BY <1>0, <3>2, <3>3
  <2>2. CASE \E o \in Objects, m \in Sendable : Atomic!MergeObject(o, m)
    <3>1. PICK o \in Objects, m \in Sendable : Atomic!MergeObject(o, m)
      BY <2>2
    <3>2. /\ store[o] # Absent /\ store[o] \in Live
          /\ store' = [store EXCEPT ![o] = Atomic!Stamped(Atomic!Patched(store[o], m))]
      BY <1>0, <3>1 DEF Atomic!MergeObject
    <3>3. Atomic!Stamped(Atomic!Patched(store[o], m)).uid = store[o].uid
      BY <3>2 DEF Atomic!Stamped, Atomic!Patched, Live
    <3> QED
      BY <1>0, <3>2, <3>3
  <2>3. CASE \E o \in Objects : Atomic!RetireObject(o)
    <3>1. PICK o \in Objects : Atomic!RetireObject(o)
      BY <2>3
    <3> DEFINE new == Atomic!Stamped([store[o] EXCEPT !.terminating = TRUE])
    <3>2. store[o] # Absent /\ store[o] \in Live /\ store' = [store EXCEPT ![o] = new]
      BY <1>0, <3>1 DEF Atomic!RetireObject
    <3>3. new.uid = store[o].uid
      BY <3>2 DEF Atomic!Stamped, Live
    <3> HIDE DEF new
    <3> QED
      BY <1>0, <3>2, <3>3
  <2>4. CASE Atomic!Others
    <3>1. PICK o \in Objects :
            \/ Atomic!OthersEdit(o) \/ Atomic!OthersRemove(o)
            \/ Atomic!OthersCreate(o) \/ Atomic!OthersEstablish(o)
      BY <2>4 DEF Atomic!Others
    <3>2. CASE Atomic!OthersEdit(o)
      <4>1. PICK e \in Edits :
              store' = [store EXCEPT ![o] =
                          Atomic!Stamped([store[o] EXCEPT !.fields[e.field] = e.value])]
        BY <3>2 DEF Atomic!OthersEdit, Atomic!OthersWrite
      <4> DEFINE new == Atomic!Stamped([store[o] EXCEPT !.fields[e.field] = e.value])
      <4>2. store[o] # Absent /\ store[o] \in Live
        BY <1>0, <3>2 DEF Atomic!OthersEdit
      <4>3. new.uid = store[o].uid
        BY <4>2 DEF Atomic!Stamped, Live
      <4>4. store' = [store EXCEPT ![o] = new]
        BY <4>1
      <4> HIDE DEF new
      <4> QED
        BY <1>0, <4>2, <4>3, <4>4
    <3>3. CASE Atomic!OthersRemove(o)
      BY <1>0, <3>3 DEF Atomic!OthersRemove, Atomic!OthersWrite
    <3>4. CASE Atomic!OthersCreate(o)
      <4>1. PICK s \in Seeds :
              store' = [store EXCEPT ![o] =
                          [Atomic!Created(s.fields, clock + 1) EXCEPT
                             !.orig = NoOrig, !.controlled = s.controlled]]
        BY <3>4 DEF Atomic!OthersCreate, Atomic!OthersWrite
      <4> DEFINE new == [Atomic!Created(s.fields, clock + 1) EXCEPT
                           !.orig = NoOrig, !.controlled = s.controlled]
      <4>2. new.uid = clock + 1
        BY DEF Atomic!Created
      <4>3. store' = [store EXCEPT ![o] = new]
        BY <4>1
      <4> HIDE DEF new
      <4> QED
        BY <1>0, <4>2, <4>3
    <3>5. CASE Atomic!OthersEstablish(o)
      <4> DEFINE new == Atomic!Stamped([store[o] EXCEPT !.established = TRUE])
      <4>1. store' = [store EXCEPT ![o] = new] /\ store[o] # Absent /\ store[o] \in Live
        BY <1>0, <3>5 DEF Atomic!OthersEstablish, Atomic!OthersWrite
      <4>2. new.uid = store[o].uid
        BY <4>1 DEF Atomic!Stamped, Live
      <4> HIDE DEF new
      <4> QED
        BY <1>0, <4>1, <4>2
    <3> QED
      BY <3>1, <3>2, <3>3, <3>4, <3>5
  <2> QED
    BY <1>2, <2>1, <2>2, <2>3, <2>4 DEF Atomic!AtomicNext, Atomic!AtomicStep
<1> QED
  BY <1>1, <1>2, StepsAreAtomic

\* So uids remain unique.
LEMMA UniqueStep ==
  ASSUME IInv, UniqueUids, [Next]_vars
  PROVE  UniqueUids'
<1> SUFFICES ASSUME NEW p \in Objects, NEW q \in Objects,
                    store'[p] # Absent, store'[q] # Absent,
                    store'[p].uid = store'[q].uid
             PROVE  p = q
  BY DEF UniqueUids
<1>1. CASE store' = store
  BY <1>1 DEF UniqueUids
<1>2. ASSUME NEW x \in Objects, store[x] # Absent
      PROVE  store[x].uid \in Nat /\ store[x].uid <= clock /\ clock \in Nat
  <2>1. store[x] \in Live
    BY <1>2 DEF IInv, TypeOK, ClusterTypeOK
  <2> QED
    BY <1>2, <2>1 DEF Live, IInv, ClockBounds, TypeOK, ClusterTypeOK
<1>3. ASSUME NEW o \in Objects,
             \A x \in Objects \ {o} : store'[x] = store[x],
             store'[o] # Absent => \/ store'[o].uid = clock + 1
                                   \/ store[o] # Absent /\ store'[o].uid = store[o].uid
      PROVE  p = q
  <2>1. CASE p # o /\ q # o
    BY <1>3, <2>1 DEF UniqueUids
  <2>2. CASE p = o /\ q # o
    <3>1. store[q] # Absent /\ store[q].uid = store'[o].uid
      BY <1>3, <2>2
    <3>2. store'[o].uid # clock + 1
      BY <1>2, <3>1
    <3> QED
      BY <1>3, <2>2, <3>1, <3>2 DEF UniqueUids
  <2>3. CASE p # o /\ q = o
    <3>1. store[p] # Absent /\ store[p].uid = store'[o].uid
      BY <1>3, <2>3
    <3>2. store'[o].uid # clock + 1
      BY <1>2, <3>1
    <3> QED
      BY <1>3, <2>3, <3>1, <3>2 DEF UniqueUids
  <2> QED
    BY <2>1, <2>2, <2>3
<1> QED
  BY <1>1, <1>3, OneWrite

\* A step that leaves object o alone, but for its status.
Same(o) ==
  /\ store'[o] = Absent <=> store[o] = Absent
  /\ store[o] # Absent =>
       /\ store'[o].uid = store[o].uid
       /\ store'[o].fields = store[o].fields
       /\ store'[o].orig = store[o].orig
       /\ store'[o].controlled = store[o].controlled
       /\ store'[o].terminating = store[o].terminating
       /\ store[o].established => store'[o].established

LEMMA Unwritten ==
  ASSUME NEW o, store'[o] = store[o]
  PROVE  Same(o)
BY DEF Same

\* What Want and the like depend on.
Steady(r) == config' = config /\ flags' = flags /\ base'[r] = base[r]

LEMMA IntactKept ==
  ASSUME NEW r \in Runs, NEW o \in Objects, Steady(r), Same(o), Intact(r, o)
  PROVE  Intact(r, o)'
BY DEF Steady, Same, Intact

LEMMA MergedKept ==
  ASSUME NEW r \in Runs, NEW i, Steady(r), Same(Target[i]), Merged(r, i)
  PROVE  Merged(r, i)'
<1>1. Want(r, i)' = Want(r, i)
  BY DEF Steady, Want
<1>2. \A f \in Fields : MergedField(r, i, f)' = MergedField(r, i, f)
  BY <1>1 DEF MergedField, Steady
<1> QED
  BY <1>1, <1>2 DEF Merged, Same

LEMMA KeptKept ==
  ASSUME NEW r \in Runs, NEW o \in Objects, Steady(r), Same(o), Kept(r, o),
         run'[r].todo \subseteq run[r].todo
  PROVE  Kept(r, o)'
BY DEF Steady, Same, Kept, Stale

LEMMA StaleKept ==
  ASSUME NEW r \in Runs, NEW o, Steady(r)
  PROVE  Stale(r, o)' <=> Stale(r, o)
BY DEF Steady, Stale

\* The objects of a configuration.
LEMMA TargetFacts ==
  ASSUME IInv, NEW r \in Runs, NEW i \in DOMAIN config[r]
  PROVE  Target[i] \in Objects /\ Target[i] \in Targets(r) /\ i # NoItem /\ i \in Items
<1>1. i \in Items
  BY WantType DEF IInv
<1> QED
  BY <1>1, RunAssumption DEF Targets

\* How Clean is put together again after a step of run r that makes it s:
\* items it has not reached, and those it was through with, stay as they
\* are, and what is new has to be shown.
LEMMA CleanStep ==
  ASSUME IInv, NEW r \in Runs, NEW s, Clean(r), Steady(r), run'[r] = s,
         s.todo \subseteq run[r].todo, run[r].seen \subseteq s.seen,
         run[r].warned => s.warned,
         \A i \in s.todo : (i # s.item \/ s.pc \in Sending) =>
           (i # run[r].item \/ run[r].pc \in Sending) /\ Same(Target[i]),
         \A i \in DOMAIN config[r] \ run[r].todo :
           /\ Same(Target[i])
           /\ i # s.item /\ i = run[r].item =>
                s.warned \/ store'[Target[i]].established \/ Target[i] \notin Crds,
         \A i \in run[r].todo \ s.todo : Through(r, i)',
         \A o \in Objects \ Targets(r) : Kept(r, o)',
         \A u \in s.seen \ run[r].seen : \E i \in run[r].todo \ s.todo :
           store'[Target[i]] # Absent /\ store'[Target[i]].uid = u,
         DoomedStale(r)', StaleLeft(r)'
  PROVE  Clean(r)'
<1>0. /\ run[r].todo \subseteq DOMAIN config[r]
      /\ config' = config /\ Targets(r)' = Targets(r)
  BY DEF IInv, RunInv, Located, Steady, Targets
<1>1. ASSUME NEW i \in s.todo, i # s.item \/ s.pc \in Sending
      PROVE  Intact(r, Target[i])'
  <2>1. /\ i # run[r].item \/ run[r].pc \in Sending
        /\ Same(Target[i]) /\ i \in run[r].todo
    BY <1>1
  <2>2. Target[i] \in Objects
    BY <1>0, <2>1, TargetFacts
  <2>3. Intact(r, Target[i])
    BY <2>1 DEF Clean
  <2> QED
    BY <2>1, <2>2, <2>3, IntactKept
<1>2. ASSUME NEW i \in DOMAIN config[r] \ run[r].todo
      PROVE  Through(r, i)'
  <2>1. Through(r, i) /\ Same(Target[i])
    BY <1>2 DEF Clean
  <2>2. Merged(r, i)' /\ store[Target[i]] # Absent
    BY <2>1, MergedKept DEF Through, Merged
  <2>3. store'[Target[i]].uid \in s.seen
    BY <2>1, <2>2 DEF Through, Same
  <2>4. (Target[i] \in Crds /\ i # s.item /\ ~s.warned) => store'[Target[i]].established
    BY <1>2, <2>1, <2>2 DEF Through, Same
  <2> QED
    BY <2>2, <2>3, <2>4 DEF Through
<1>3. ASSUME NEW i \in DOMAIN config[r] \ s.todo
      PROVE  Through(r, i)'
  BY <1>2, <1>3
<1>4. SeenHeld(r)'
  <2> SUFFICES ASSUME NEW u \in s.seen
               PROVE  \E i \in DOMAIN config[r] \ s.todo :
                        store'[Target[i]] # Absent /\ store'[Target[i]].uid = u
    BY <1>0 DEF SeenHeld
  <2>1. CASE u \in run[r].seen
    <3>1. PICK i \in DOMAIN config[r] \ run[r].todo :
            store[Target[i]] # Absent /\ store[Target[i]].uid = u
      BY <2>1 DEF Clean, SeenHeld
    <3>2. Same(Target[i])
      OBVIOUS
    <3> QED
      BY <3>1, <3>2 DEF Same
  <2>2. CASE u \notin run[r].seen
    BY <1>0, <2>2
  <2> QED
    BY <2>1, <2>2
<1>5. \A o \in Objects \ Targets(r)' : Kept(r, o)'
  BY <1>0
<1>6. \A i \in run'[r].todo :
        (i # run'[r].item \/ run'[r].pc \in Sending) => Intact(r, Target[i])'
  BY <1>1
<1>7. \A i \in DOMAIN config'[r] \ run'[r].todo : Through(r, i)'
  BY <1>0, <1>3
<1> QED
  BY <1>4, <1>5, <1>6, <1>7 DEF Clean

\* While nothing is doomed and the run does not walk, nothing is to be shown
\* of the walk.
LEMMA NoWalk ==
  ASSUME NEW r \in Runs, run'[r].doomed = {}, run'[r].pc \notin {"gc", "done"}
  PROVE  DoomedStale(r)' /\ StaleLeft(r)'
BY DEF DoomedStale, StaleLeft

\* Steps of others, and steps that only set the status of a CRD.
LEMMA StillClean ==
  ASSUME IInv, NEW r \in Runs, Clean(r), Steady(r), run'[r] = run[r],
         \A o \in Objects : Same(o)
  PROVE  Clean(r)'
<1>1. \A i \in DOMAIN config[r] : Same(Target[i])
  BY TargetFacts
<1>2. run[r].todo \subseteq DOMAIN config[r] /\ run[r] \in RunState
  BY DEF IInv, RunInv, Located, TypeOK
<1>3. \A o \in Objects \ Targets(r) : Kept(r, o)'
  BY KeptKept DEF Clean
<1>4. DoomedStale(r)'
  <2> SUFFICES ASSUME NEW d \in run[r].doomed
               PROVE  /\ Listable(d.obj)
                      /\ (store'[d.obj] # Absent /\ store'[d.obj].uid = d.uid)
                           => eligibleForGc(store'[d.obj], flags[r].gcTag)
    BY DEF DoomedStale, Steady, Listable
  <2>1. d.obj \in Objects
    BY <1>2 DEF RunState
  <2>2. Same(d.obj)
    BY <2>1
  <2>3. /\ Listable(d.obj)
        /\ (store[d.obj] # Absent /\ store[d.obj].uid = d.uid)
             => eligibleForGc(store[d.obj], flags[r].gcTag)
    BY DEF Clean, DoomedStale
  <2> QED
    BY <2>2, <2>3 DEF Same, eligibleForGc
<1>5. StaleLeft(r)'
  <2> SUFFICES ASSUME NEW o \in Objects \ Targets(r),
                      run[r].pc \in {"gc", "done"}, Stale(r, o), Listable(o)
               PROVE  \/ store'[o].terminating
                      \/ /\ run[r].pc = "gc"
                         /\ \/ \E v \in run[r].views : o \in ListedIn[v]
                            \/ [obj |-> o, uid |-> store'[o].uid] \in run[r].doomed
    BY StaleKept DEF StaleLeft, Steady, Targets, Listable
  <2>1. store[o] # Absent
    BY DEF Clean, Kept, Stale
  <2>2. store'[o].terminating = store[o].terminating /\ store'[o].uid = store[o].uid
    BY <2>1 DEF Same
  <2> QED
    BY <2>2 DEF Clean, StaleLeft
<1> QED
  BY <1>1, <1>2, <1>3, <1>4, <1>5, CleanStep

----------------------------------------------------------------------------
\* Which steps concern a run.

\* A step of a run is one assignment to its state; if it writes, every other
\* run has been disturbed.
LEMMA StepOf ==
  ASSUME NEW q \in Runs, Progress(q) \/ Abort(q)
  PROVE  /\ \E s : Become(q, s)
         /\ run[q].pc \in Working
         /\ base' = base
         /\ \/ UNCHANGED <<store, dirty>>
            \/ dirty' = dirty \cup (Runs \ {q})
<1>1. CASE Abort(q)
  BY <1>1 DEF Abort, NoWrite, clusterVars, history
<1>2. CASE \E i \in Items : GetAbsent(q, i) \/ GetLive(q, i)
  BY <1>2 DEF GetAbsent, GetLive, At, Working, NoWrite, clusterVars, history
<1>3. CASE Create(q)
  BY <1>3 DEF Create, At, Working, NoWrite, clusterVars, history, Writes
<1>4. CASE Put(q)
  <2>1. run[q].pc \in Working
    BY <1>4 DEF Put, At, Working
  <2>2. NoWrite \/ \E o, live : Writes(q, o, live)
    BY <1>4 DEF Put
  <2>3. \E s : Become(q, s)
    BY <1>4 DEF Put
  <2> QED
    BY <2>1, <2>2, <2>3 DEF NoWrite, clusterVars, history, Writes
<1>5. CASE Poll(q) \/ GiveUpWaiting(q) \/ Finish(q)
  BY <1>5 DEF Poll, GiveUpWaiting, Finish, At, Working, NoWrite, clusterVars, history
<1>6. CASE List(q)
  BY <1>6 DEF List, At, Working, clusterVars
<1>7. CASE Collect(q)
  <2>1. run[q].pc \in Working
    BY <1>7 DEF Collect, At, Working
  <2>2. NoWrite \/ \E o, live : Writes(q, o, live)
    BY <1>7 DEF Collect
  <2>3. \E s : Become(q, s)
    BY <1>7 DEF Collect
  <2> QED
    BY <2>1, <2>2, <2>3 DEF NoWrite, clusterVars, history, Writes
<1> QED
  BY <1>1, <1>2, <1>3, <1>4, <1>5, <1>6, <1>7 DEF Progress

\* The controller that establishes a CRD writes its status only.
LEMMA EstablishSame ==
  ASSUME IInv, Establish
  PROVE  /\ \A o \in Objects : Same(o)
         /\ UNCHANGED <<config, flags, run, base, dirty>>
<1>1. PICK o \in Objects : OthersEstablish(o)
  BY DEF Establish
<1> DEFINE new == Stamped([store[o] EXCEPT !.established = TRUE])
<1>2. /\ store[o] # Absent /\ store' = [store EXCEPT ![o] = new]
      /\ store \in [Objects -> Live \cup {Absent}] /\ clock \in Nat
  BY <1>1 DEF OthersEstablish, OthersWrite, Write, IInv, TypeOK, ClusterTypeOK
<1>3. [store[o] EXCEPT !.established = TRUE] \in Live
  BY <1>2 DEF Live
<1>4. new \in Live
  BY <1>2, <1>3, StampedType
<1>5. /\ new.uid = store[o].uid /\ new.fields = store[o].fields
      /\ new.orig = store[o].orig /\ new.controlled = store[o].controlled
      /\ new.terminating = store[o].terminating /\ new.established
  BY <1>2 DEF Stamped, Live
<1> HIDE DEF new
<1>6. Same(o)
  BY <1>2, <1>4, <1>5, LiveNotAbsent DEF Same
<1>7. \A p \in Objects \ {o} : Same(p)
  BY <1>2 DEF Same
<1> QED
  BY <1>6, <1>7 DEF Establish, inputs, history

\* A run that is alone after a step has just begun, or was alone before and
\* has moved, or did not notice the step.
LEMMA AloneSteps ==
  ASSUME IInv, [Next]_vars, NEW r \in Runs, Alone(r)'
  PROVE  \/ Begin(r)
         \/ Alone(r) /\ Steady(r) /\ (Progress(r) \/ Abort(r))
         \/ /\ Alone(r) /\ Steady(r) /\ run'[r] = run[r]
            /\ \A o \in Objects : Same(o)
<1>1. /\ r \notin dirty' /\ run'[r].pc # "idle" /\ ~flags'[r].dryRun
      /\ Distinct(r)'
  BY DEF Alone, At
<1>2. /\ run \in [Runs -> RunState]
      /\ base \in [Runs -> [Objects -> Live \cup {Absent}]]
  BY DEF IInv, TypeOK
<1>3. ASSUME config' = config, flags' = flags, r \notin dirty, run[r].pc # "idle"
      PROVE  Alone(r)
  BY <1>1, <1>3 DEF Alone, At, Distinct
<1>4. ASSUME NEW q \in Runs, Begin(q), q # r
      PROVE  /\ Alone(r) /\ Steady(r) /\ run'[r] = run[r]
             /\ \A o \in Objects : Same(o)
  <2>1. /\ run'[r] = run[r] /\ base'[r] = base[r] /\ store' = store
        /\ config' = config /\ flags' = flags /\ r \notin dirty
    BY <1>1, <1>2, <1>4 DEF Begin, Become, inputs, clusterVars
  <2> QED
    BY <1>1, <1>3, <2>1, Unwritten DEF Steady
<1>5. ASSUME NEW q \in Runs, Progress(q) \/ Abort(q)
      PROVE  \/ Alone(r) /\ Steady(r) /\ q = r
             \/ /\ Alone(r) /\ Steady(r) /\ run'[r] = run[r]
                /\ \A o \in Objects : Same(o)
  <2>1. /\ \E s : Become(q, s)
        /\ run[q].pc \in Working
        /\ base' = base
        /\ \/ UNCHANGED <<store, dirty>>
           \/ dirty' = dirty \cup (Runs \ {q})
    BY <1>5, StepOf
  <2>2. config' = config /\ flags' = flags /\ r \notin dirty /\ Steady(r)
    BY <1>1, <2>1 DEF Become, inputs, Steady
  <2>3. CASE q = r
    BY <1>3, <2>1, <2>2, <2>3 DEF Working
  <2>4. CASE q # r
    <3>1. run'[r] = run[r] /\ store' = store
      BY <1>1, <1>2, <2>1, <2>4 DEF Become
    <3> QED
      BY <1>1, <1>3, <2>2, <3>1, Unwritten
  <2> QED
    BY <2>3, <2>4
<1>6. CASE Disturb
  BY <1>1, <1>6 DEF Disturb
<1>7. CASE Establish
  BY <1>1, <1>3, <1>7, EstablishSame DEF Steady
<1>8. CASE UNCHANGED vars
  BY <1>1, <1>3, <1>8, Unwritten DEF vars, Steady
<1> QED
  BY <1>4, <1>5, <1>6, <1>7, <1>8 DEF Next

----------------------------------------------------------------------------
\* Where the loop goes.

LEMMA ForwardWalk ==
  ASSUME NEW r \in Runs, NEW s \in RunState
  PROVE  /\ Forward(r, s).warned = s.warned
         /\ Forward(r, s).pc = "gc" =>
              /\ flags[r].gcTag # None /\ ~flags[r].skipGc
              /\ Forward(r, s).views = Views
         /\ Forward(r, s).pc = "done" => flags[r].gcTag = None \/ flags[r].skipGc
<1> DEFINE pc == CASE s.todo # {} -> "get"
                   [] s.todo = {} /\ flags[r].gcTag # None /\ ~flags[r].skipGc -> "gc"
                   [] s.todo = {} /\ (flags[r].gcTag = None \/ flags[r].skipGc) -> "done"
           views == IF s.todo = {} THEN Views ELSE {}
<1>1. /\ pc = "gc" => s.todo = {} /\ flags[r].gcTag # None /\ ~flags[r].skipGc
      /\ pc = "done" => flags[r].gcTag = None \/ flags[r].skipGc
  OBVIOUS
<1>2. s.todo = {} => views = Views
  OBVIOUS
<1>3. Forward(r, s) = [s EXCEPT !.item = NoItem, !.attempts = 0, !.gone = FALSE,
                                !.views = views, !.pc = pc]
  BY DEF Forward
<1> HIDE DEF pc, views
<1>4. /\ Forward(r, s).warned = s.warned /\ Forward(r, s).pc = pc
      /\ Forward(r, s).views = views
  BY <1>3 DEF RunState
<1> QED
  BY <1>1, <1>2, <1>4

LEMMA AppliedWalk ==
  ASSUME NEW r \in Runs, run[r] \in RunState, NEW i \in Items, NEW uid \in Nat,
         NEW settled \in BOOLEAN
  PROVE  LET s == Applied(r, i, uid, settled)
         IN /\ s.warned = run[r].warned
            /\ s.pc = "gc" => /\ flags[r].gcTag # None /\ ~flags[r].skipGc
                              /\ s.views = Views
            /\ s.pc = "done" => flags[r].gcTag = None \/ flags[r].skipGc
            /\ settled \/ flags[r].dryRun => s.pc # "wait" /\ s.item = NoItem
            /\ ~(settled \/ flags[r].dryRun) => s.item = i /\ s.pc = "wait"
<1> DEFINE s == [run[r] EXCEPT !.todo = @ \ {i}, !.seen = @ \cup {uid}, !.existing = Absent]
           w == [s EXCEPT !.item = i, !.pc = "wait"]
<1>1. s \in RunState /\ s.warned = run[r].warned
  BY DEF RunState
<1>2. w.item = i /\ w.pc = "wait" /\ w.warned = run[r].warned
  BY <1>1 DEF RunState
<1>3. Applied(r, i, uid, settled) = IF settled \/ flags[r].dryRun THEN Forward(r, s) ELSE w
  BY DEF Applied
<1> HIDE DEF s, w
<1>4. CASE settled \/ flags[r].dryRun
  <2>1. Applied(r, i, uid, settled) = Forward(r, s)
    BY <1>3, <1>4
  <2> QED
    BY <1>1, <1>4, <2>1, ForwardFacts, ForwardWalk
<1>5. CASE ~(settled \/ flags[r].dryRun)
  <2>1. Applied(r, i, uid, settled) = w
    BY <1>3, <1>5
  <2> QED
    BY <1>2, <1>5, <2>1
<1> QED
  BY <1>4, <1>5

\* The walk is about to begin, or there is none.
LEMMA WalkAhead ==
  ASSUME NEW r \in Runs, Steady(r), run'[r].doomed = {},
         run'[r].pc = "gc" => run'[r].views = Views,
         run'[r].pc = "done" => flags[r].gcTag = None \/ flags[r].skipGc
  PROVE  DoomedStale(r)' /\ StaleLeft(r)'
<1>1. DoomedStale(r)'
  BY DEF DoomedStale
<1>2. ASSUME NEW o \in Objects, run'[r].pc \in {"gc", "done"}, Stale(r, o), Listable(o)
      PROVE  run'[r].pc = "gc" /\ \E v \in run'[r].views : o \in ListedIn[v]
  BY <1>2 DEF Stale, Listable
<1>3. StaleLeft(r)'
  BY <1>2, StaleKept DEF StaleLeft, Listable
<1> QED
  BY <1>1, <1>3

----------------------------------------------------------------------------
\* The steps of a run, by what they do.

\* What a step that only moves the run does to the variables.
LEMMA MovedTo ==
  ASSUME IInv, NEW r \in Runs, NEW s, Become(r, s)
  PROVE  run'[r] = s /\ config' = config /\ flags' = flags
BY DEF Become, inputs, IInv, TypeOK

LEMMA Unmoving ==
  ASSUME NoWrite
  PROVE  store' = store /\ base' = base /\ \A o \in Objects : Same(o)
BY Unwritten DEF NoWrite, clusterVars, history

\* A step that writes nothing, notes nothing and does not lead to the walk.
LEMMA QuietClean ==
  ASSUME IInv, NEW r \in Runs, NEW s \in RunState, Oriented(r),
         Become(r, s), NoWrite,
         s.todo = run[r].todo, s.seen = run[r].seen, s.doomed = {},
         run[r].warned => s.warned, s.pc \notin {"idle", "gc", "done"},
         s.item = run[r].item \/ (run[r].pc \in Sending /\ s.item \in run[r].todo),
         s.pc \in Sending => run[r].pc \in Sending,
         s.pc = "wait" => run[r].pc = "wait" /\ s.item = run[r].item
  PROVE  Oriented(r)' /\ (Clean(r) => Clean(r)')
<1>1. run'[r] = s /\ config' = config /\ flags' = flags
  BY MovedTo
<1>2. Steady(r) /\ \A o \in Objects : Same(o)
  BY <1>1, Unmoving DEF Steady
<1>3. Oriented(r)'
  BY <1>1 DEF Oriented
<1>4. ASSUME Clean(r) PROVE Clean(r)'
  <2>1. DoomedStale(r)' /\ StaleLeft(r)'
    BY <1>1, NoWalk
  <2>2. \A i \in DOMAIN config[r] : Same(Target[i]) /\ i # NoItem
    BY <1>2, TargetFacts
  <2>3. run[r].todo \subseteq DOMAIN config[r]
    BY DEF IInv, RunInv, Located
  <2>4. \A o \in Objects \ Targets(r) : Kept(r, o)'
    BY <1>1, <1>2, <1>4, KeptKept DEF Clean
  <2>5. \A i \in s.todo : (i # s.item \/ s.pc \in Sending) =>
           (i # run[r].item \/ run[r].pc \in Sending) /\ Same(Target[i])
    BY <2>2, <2>3
  <2>6. \A i \in DOMAIN config[r] \ run[r].todo :
          Same(Target[i]) /\ (i # s.item => i # run[r].item)
    BY <2>2 DEF Oriented
  <2> QED
    BY <1>1, <1>2, <1>4, <2>1, <2>4, <2>5, <2>6, CleanStep
<1> QED
  BY <1>3, <1>4

\* The run stops.
LEMMA FailClean ==
  ASSUME IInv, NEW r \in Runs, Oriented(r), Become(r, Failing(r)), NoWrite
  PROVE  Oriented(r)' /\ (Clean(r) => Clean(r)')
<1>1. run[r] \in RunState
  BY DEF IInv, TypeOK
<1>2. /\ Failing(r) \in RunState /\ Failing(r).pc = "failed"
      /\ Failing(r).doomed = {} /\ Failing(r).todo = run[r].todo
      /\ Failing(r).seen = run[r].seen /\ Failing(r).item = run[r].item
  BY <1>1, FailingFacts
<1>3. Failing(r).warned = run[r].warned
  BY <1>1 DEF Failing, RunState
<1> QED
  BY <1>2, <1>3, QuietClean DEF Sending

\* What the loop may be at is still to be done.
LEMMA CurrentTodo ==
  ASSUME IInv, NEW r \in Runs, Oriented(r), run[r].pc = "get", NEW i \in Current(r)
  PROVE  i \in run[r].todo /\ run[r].item \in {i, NoItem}
<1>1. run[r].item \in run[r].todo \cup {NoItem}
  BY DEF Oriented, Sending
<1> QED
  BY <1>1 DEF Current

\* createOrUpdate succeeds for item i, having written nothing but its object.
LEMMA ItemClean ==
  ASSUME IInv, NEW r \in Runs, Oriented(r), Alone(r), Clean(r),
         NEW i \in run[r].todo, NEW uid \in Nat, NEW settled \in BOOLEAN,
         run[r].pc \in Sending, run[r].item \in {i, NoItem},
         Become(r, Applied(r, i, uid, settled)), base' = base,
         \A o \in Objects \ {Target[i]} : store'[o] = store[o],
         Merged(r, i)', store'[Target[i]].uid = uid,
         settled /\ Target[i] \in Crds => store'[Target[i]].established
  PROVE  Clean(r)'
<1> DEFINE s == Applied(r, i, uid, settled)
<1>1. run'[r] = s /\ config' = config /\ flags' = flags /\ Steady(r)
  BY MovedTo DEF Steady
<1>2. /\ run[r] \in RunState /\ run[r].todo \subseteq DOMAIN config[r]
      /\ i \in DOMAIN config[r] /\ i \in Items /\ i # NoItem
      /\ ~flags[r].dryRun /\ run[r].doomed = {} /\ Target[i] \in Targets(r)
  BY TargetFacts DEF IInv, TypeOK, RunInv, Located, Condemned, Alone, Sending
<1>3. /\ s.todo = run[r].todo \ {i} /\ s.seen = run[r].seen \cup {uid}
      /\ s.doomed = {}
  BY <1>2, AppliedFacts
<1>4. /\ s.warned = run[r].warned
      /\ s.pc = "gc" => flags[r].gcTag # None /\ ~flags[r].skipGc /\ s.views = Views
      /\ s.pc = "done" => flags[r].gcTag = None \/ flags[r].skipGc
      /\ settled => s.item = NoItem
      /\ ~settled => s.item = i
  BY <1>2, AppliedWalk
<1> HIDE DEF s
<1>5. ASSUME NEW j \in DOMAIN config[r], j # i
      PROVE  Same(Target[j])
  <2>1. Target[j] # Target[i] /\ Target[j] \in Objects
    BY <1>2, <1>5, TargetFacts DEF Alone, Distinct
  <2> QED
    BY <2>1, Unwritten
<1>6. \A j \in s.todo : (j # s.item \/ s.pc \in Sending) =>
        (j # run[r].item \/ run[r].pc \in Sending) /\ Same(Target[j])
  BY <1>2, <1>3, <1>5
<1>7. \A j \in DOMAIN config[r] \ run[r].todo : Same(Target[j]) /\ j # run[r].item
  BY <1>5, TargetFacts
<1>8. ASSUME NEW j \in run[r].todo \ s.todo PROVE Through(r, j)'
  <2>1. j = i
    BY <1>3, <1>8
  <2>2. Merged(r, i)' /\ store'[Target[i]].uid \in s.seen
    BY <1>3
  <2>3. (Target[i] \in Crds /\ i # s.item /\ ~s.warned) => store'[Target[i]].established
    BY <1>4
  <2> QED
    BY <1>1, <2>1, <2>2, <2>3 DEF Through
<1>9. \A o \in Objects \ Targets(r) : Kept(r, o)'
  BY <1>1, <1>2, <1>3, KeptKept, Unwritten DEF Clean
<1>10. \A u \in s.seen \ run[r].seen : \E j \in run[r].todo \ s.todo :
         store'[Target[j]] # Absent /\ store'[Target[j]].uid = u
  <2>1. store'[Target[i]] # Absent
    BY DEF Merged
  <2> QED
    BY <1>3, <2>1
<1>11. DoomedStale(r)' /\ StaleLeft(r)'
  BY <1>1, <1>3, <1>4, WalkAhead
<1> QED
  BY <1>1, <1>3, <1>4, <1>6, <1>7, <1>8, <1>9, <1>10, <1>11, CleanStep

\* createOrUpdate keeps the run oriented.
LEMMA ItemOriented ==
  ASSUME IInv, NEW r \in Runs, NEW i \in DOMAIN config[r], NEW uid \in Nat,
         NEW settled \in BOOLEAN, Become(r, Applied(r, i, uid, settled))
  PROVE  Oriented(r)'
<1> DEFINE s == Applied(r, i, uid, settled)
<1>1. run'[r] = s /\ config' = config /\ flags' = flags
  BY MovedTo
<1>2. i \in Items /\ run[r] \in RunState
  BY TargetFacts DEF IInv, TypeOK
<1>3. /\ s.pc \in {"get", "gc", "done", "wait"}
      /\ s.pc = "gc" => flags[r].gcTag # None /\ ~flags[r].skipGc
      /\ s.pc # "wait" => s.item = NoItem
      /\ s.pc = "wait" => s.item = i
      /\ s.todo = run[r].todo \ {i}
  BY <1>2, AppliedFacts, AppliedWalk
<1> HIDE DEF s
<1> QED
  BY <1>1, <1>3 DEF Oriented, Sending

\* What the merge of an untouched object is.
LEMMA MergedNow ==
  ASSUME IInv, NEW r \in Runs, NEW i \in DOMAIN config[r], Steady(r),
         Intact(r, Target[i]), store[Target[i]] # Absent,
         store'[Target[i]] # Absent, store'[Target[i]].orig = Want(r, i),
         store'[Target[i]].fields =
           Merge(store[Target[i]].orig, Want(r, i), store[Target[i]].fields)
  PROVE  Merged(r, i)'
<1>1. Want(r, i)' = Want(r, i)
  BY DEF Steady, Want
<1>2. ASSUME NEW f \in Fields
      PROVE  store'[Target[i]].fields[f] = MergedField(r, i, f)'
  <2>1. MergedField(r, i, f)' = MergedField(r, i, f)
    BY <1>1 DEF MergedField, Steady
  <2>2. /\ base[r][Target[i]] # Absent
        /\ store[Target[i]].fields = base[r][Target[i]].fields
        /\ store[Target[i]].orig = base[r][Target[i]].orig
    BY DEF Intact
  <2>3. store'[Target[i]].fields[f]
          = MergeField(base[r][Target[i]].orig, Want(r, i), base[r][Target[i]].fields, f)
    BY <2>2 DEF Merge
  <2> QED
    BY <2>1, <2>2, <2>3 DEF MergeField, MergedField, WasApplied
<1> QED
  BY <1>1, <1>2 DEF Merged

LEMMA CreatedNow ==
  ASSUME IInv, NEW r \in Runs, NEW i \in DOMAIN config[r], Steady(r),
         Intact(r, Target[i]), store[Target[i]] = Absent,
         store'[Target[i]] # Absent, store'[Target[i]].orig = Want(r, i),
         store'[Target[i]].fields = Want(r, i)
  PROVE  Merged(r, i)'
<1>1. Want(r, i)' = Want(r, i)
  BY DEF Steady, Want
<1>2. ASSUME NEW f \in Fields
      PROVE  Want(r, i)[f] = MergedField(r, i, f)'
  <2>1. MergedField(r, i, f)' = MergedField(r, i, f)
    BY <1>1 DEF MergedField, Steady
  <2>2. base[r][Target[i]] = Absent
    BY DEF Intact
  <2> QED
    BY <2>1, <2>2 DEF MergedField
<1> QED
  BY <1>1, <1>2 DEF Merged

LEMMA PatchedFields ==
  ASSUME NEW live \in Live, NEW m \in Manifest, clock \in Nat
  PROVE  /\ Patched(live, m).orig = m
         /\ Patched(live, m).fields = Merge(live.orig, m, live.fields)
         /\ Stamped(Patched(live, m)).orig = m
         /\ Stamped(Patched(live, m)).fields = Merge(live.orig, m, live.fields)
         /\ Stamped(Patched(live, m)).established = live.established
<1> DEFINE x == Merge(live.orig, m, live.fields)
           p == [live EXCEPT !.fields = x, !.orig = m]
<1> HIDE DEF x
<1>1. p.orig = m /\ p.fields = x /\ p.established = live.established
  BY DEF Live
<1>2. /\ [p EXCEPT !.rv = clock + 1].orig = p.orig
      /\ [p EXCEPT !.rv = clock + 1].fields = p.fields
      /\ [p EXCEPT !.rv = clock + 1].established = p.established
  BY DEF Live
<1>3. Patched(live, m) = p
  BY DEF Patched, x
<1> HIDE DEF p
<1> QED
  BY <1>1, <1>2, <1>3 DEF Stamped, x

----------------------------------------------------------------------------
\* Each lemma below has one action of a run.

LEMMA GetAbsentClean ==
  ASSUME IInv, NEW r \in Runs, NEW i \in Items, Oriented(r), GetAbsent(r, i)
  PROVE  Oriented(r)' /\ (Alone(r) /\ Clean(r) => Clean(r)')
<1>1. run[r].pc = "get" /\ i \in Current(r) /\ NoWrite /\ run[r] \in RunState
  BY DEF GetAbsent, At, IInv, TypeOK
<1>2. i \in run[r].todo /\ i \in DOMAIN config[r] /\ run[r].doomed = {}
  BY <1>1, CurrentTodo, CurrentFacts DEF IInv, RunInv, Condemned
<1>3. CASE Become(r, [Failing(r) EXCEPT !.item = i])
  <2> DEFINE s == [Failing(r) EXCEPT !.item = i]
  <2>1. /\ s \in RunState /\ s.pc = "failed" /\ s.doomed = {} /\ s.item = i
        /\ s.todo = run[r].todo /\ s.seen = run[r].seen
    BY <1>1, FailingFacts DEF RunState
  <2>2. s.warned = run[r].warned
    BY <1>1 DEF Failing, RunState
  <2>3. Become(r, s)
    BY <1>3
  <2> HIDE DEF s
  <2> QED
    BY <1>1, <1>2, <2>1, <2>2, <2>3, QuietClean DEF Sending
<1>4. CASE flags[r].dryRun /\ Become(r, Applied(r, i, NoUid, TRUE))
  BY <1>2, <1>4, ItemOriented DEF Alone, NoUid
<1>5. CASE Become(r, [run[r] EXCEPT !.item = i, !.pc = "create"])
  <2> DEFINE s == [run[r] EXCEPT !.item = i, !.pc = "create"]
  <2>1. /\ s \in RunState /\ s.pc = "create" /\ s.doomed = {} /\ s.item = i
        /\ s.todo = run[r].todo /\ s.seen = run[r].seen /\ s.warned = run[r].warned
    BY <1>1, <1>2 DEF RunState, Working
  <2>2. Become(r, s)
    BY <1>5
  <2> HIDE DEF s
  <2> QED
    BY <1>1, <1>2, <2>1, <2>2, QuietClean DEF Sending
<1> QED
  BY <1>3, <1>4, <1>5 DEF GetAbsent

LEMMA GetLiveClean ==
  ASSUME IInv, NEW r \in Runs, NEW i \in Items, Oriented(r), GetLive(r, i)
  PROVE  Oriented(r)' /\ (Alone(r) /\ Clean(r) => Clean(r)')
<1> DEFINE live == store[Target[i]]
<1>1. /\ run[r].pc = "get" /\ i \in Current(r) /\ NoWrite /\ run[r] \in RunState
      /\ live # Absent
  BY DEF GetLive, At, IInv, TypeOK
<1>2. /\ i \in run[r].todo /\ i \in DOMAIN config[r] /\ run[r].doomed = {}
      /\ run[r].item \in {i, NoItem} /\ Target[i] \in Objects
      /\ Want(r, i) \in Manifest
  BY <1>1, CurrentTodo, CurrentFacts DEF IInv, RunInv, Condemned
<1>3. live \in Live /\ live.uid \in Nat /\ Settled(Target[i], live) \in BOOLEAN
  BY <1>1, <1>2 DEF IInv, TypeOK, ClusterTypeOK, Live, Settled
<1>4. CASE /\ Patched(live, Want(r, i)) = live \/ flags[r].dryRun
           /\ Become(r, Applied(r, i, live.uid, Settled(Target[i], live)))
  <2>1. Oriented(r)'
    BY <1>2, <1>3, <1>4, ItemOriented
  <2>2. ASSUME Alone(r), Clean(r) PROVE Clean(r)'
    <3>1. Patched(live, Want(r, i)) = live
      BY <1>4, <2>2 DEF Alone
    <3>2. /\ live.orig = Want(r, i)
          /\ live.fields = Merge(live.orig, Want(r, i), live.fields)
      <4> DEFINE p == Patched(live, Want(r, i))
      <4>1. /\ p.orig = Want(r, i)
            /\ p.fields = Merge(live.orig, Want(r, i), live.fields)
        BY <1>2, <1>3, PatchedFields DEF IInv, TypeOK, ClusterTypeOK
      <4> QED
        BY <3>1, <4>1
    <3>3. Intact(r, Target[i])
      BY <1>1, <1>2, <2>2 DEF Clean, Sending
    <3>4. Steady(r) /\ store' = store /\ base' = base
      BY <1>1, <1>4, MovedTo, Unmoving DEF Steady
    <3>5. Merged(r, i)'
      BY <1>1, <1>2, <3>2, <3>3, <3>4, MergedNow
    <3>6. Settled(Target[i], live) /\ Target[i] \in Crds => live.established
      BY DEF Settled
    <3> QED
      BY <1>1, <1>2, <1>3, <1>4, <2>2, <3>4, <3>5, <3>6, ItemClean DEF Sending
  <2> QED
    BY <2>1, <2>2
<1>5. CASE Become(r, [run[r] EXCEPT !.item = i, !.existing = live, !.pc = "put"])
  <2> DEFINE s == [run[r] EXCEPT !.item = i, !.existing = live, !.pc = "put"]
  <2>1. /\ s \in RunState /\ s.pc = "put" /\ s.doomed = {} /\ s.item = i
        /\ s.todo = run[r].todo /\ s.seen = run[r].seen /\ s.warned = run[r].warned
    BY <1>1, <1>2, <1>3 DEF RunState, Working
  <2>2. Become(r, s)
    BY <1>5
  <2> HIDE DEF s
  <2> QED
    BY <1>1, <1>2, <2>1, <2>2, QuietClean DEF Sending
<1> QED
  BY <1>4, <1>5 DEF GetLive

\* The answer to the write of an item is lost.
LEMMA LostClean ==
  ASSUME IInv, NEW r \in Runs, Alone(r), Clean(r),
         run[r].pc \in Sending, run[r].item \in run[r].todo,
         Become(r, Failing(r)), base' = base,
         \A o \in Objects \ {Target[run[r].item]} : store'[o] = store[o]
  PROVE  Clean(r)'
<1> DEFINE i == run[r].item
           s == Failing(r)
<1>1. run[r] \in RunState /\ run'[r] = s /\ Steady(r)
  BY MovedTo DEF IInv, TypeOK, Steady
<1>2. /\ s.pc = "failed" /\ s.doomed = {} /\ s.todo = run[r].todo
      /\ s.seen = run[r].seen /\ s.item = i /\ s.warned = run[r].warned
  BY <1>1, FailingFacts DEF Failing, RunState
<1> HIDE DEF s
<1>3. i \in DOMAIN config[r] /\ Target[i] \in Targets(r)
      /\ run[r].todo \subseteq DOMAIN config[r]
  BY TargetFacts DEF IInv, RunInv, Located
<1>4. ASSUME NEW j \in DOMAIN config[r], j # i
      PROVE  Same(Target[j])
  <2>1. Target[j] # Target[i] /\ Target[j] \in Objects
    BY <1>3, <1>4, TargetFacts DEF Alone, Distinct
  <2> QED
    BY <2>1, Unwritten
<1>5. \A o \in Objects \ Targets(r) : Kept(r, o)'
  BY <1>1, <1>2, <1>3, KeptKept, Unwritten DEF Clean
<1>6. DoomedStale(r)' /\ StaleLeft(r)'
  BY <1>1, <1>2, NoWalk
<1> QED
  BY <1>1, <1>2, <1>3, <1>4, <1>5, <1>6, CleanStep DEF Sending

\* A run that failed knows no more where it is.
LEMMA FailOriented ==
  ASSUME IInv, NEW r \in Runs, Become(r, Failing(r))
  PROVE  Oriented(r)'
<1>1. run'[r] = Failing(r) /\ Failing(r).pc = "failed"
  BY MovedTo, FailingFacts DEF IInv, TypeOK
<1> QED
  BY <1>1 DEF Oriented, Sending

\* A write changes one object and no history of the run.
LEMMA WritesOne ==
  ASSUME IInv, NEW r \in Runs, NEW o \in Objects, NEW live, Writes(r, o, live)
  PROVE  /\ store'[o] = live /\ base' = base
         /\ \A p \in Objects \ {o} : store'[p] = store[p]
BY DEF Writes, Write, IInv, TypeOK, ClusterTypeOK

LEMMA CreateClean ==
  ASSUME IInv, NEW r \in Runs, Oriented(r), Create(r)
  PROVE  Oriented(r)' /\ (Alone(r) /\ Clean(r) => Clean(r)')
<1>0. PICK i \in DOMAIN config[r] : i = run[r].item
  BY SendingFacts DEF Create, At
<1> DEFINE o == Target[i]
           new == Created(Want(r, i), clock + 1)
<1>1. run[r].pc = "create"
  BY DEF Create, At
<1>2. /\ i \in DOMAIN config[r] /\ o \in Objects /\ Want(r, i) \in Manifest
      /\ clock + 1 \in Nat /\ i \in run[r].todo
  BY <1>0, <1>1, SendingFacts, TargetFacts DEF IInv, TypeOK, ClusterTypeOK, Oriented, Sending
<1>3. /\ new \in Live /\ new.uid = clock + 1 /\ new.orig = Want(r, i)
      /\ new.fields = Want(r, i) /\ new.established = FALSE /\ new # Absent
  BY <1>2, CreatedType, LiveNotAbsent DEF Created
<1>4. Settled(o, new) \in BOOLEAN /\ (Settled(o, new) => o \notin Crds)
  BY <1>3 DEF Settled
<1> HIDE DEF new
<1>5. CASE /\ store[o] = Absent /\ Writes(r, o, new)
           /\ Become(r, Applied(r, i, clock + 1, Settled(o, new)))
  <2>1. Oriented(r)'
    BY <1>2, <1>4, <1>5, ItemOriented
  <2>2. ASSUME Alone(r), Clean(r) PROVE Clean(r)'
    <3>1. /\ store'[o] = new /\ base' = base
          /\ \A p \in Objects \ {o} : store'[p] = store[p]
      BY <1>2, <1>5, WritesOne
    <3>2. Steady(r)
      BY <1>5, <3>1, MovedTo DEF Steady
    <3>3. Intact(r, o)
      BY <1>1, <1>2, <2>2 DEF Clean, Sending
    <3>4. Merged(r, i)'
      BY <1>2, <1>3, <1>5, <3>1, <3>2, <3>3, CreatedNow
    <3> QED
      BY <1>0, <1>1, <1>2, <1>3, <1>4, <1>5, <2>2, <3>1, <3>4, ItemClean DEF Sending
  <2> QED
    BY <2>1, <2>2
<1>6. CASE store[o] = Absent /\ Writes(r, o, new) /\ Become(r, Failing(r))
  BY <1>0, <1>1, <1>2, <1>6, WritesOne, LostClean, FailOriented DEF Sending
<1>7. CASE Become(r, Failing(r)) /\ NoWrite
  BY <1>7, FailClean
<1> QED
  BY <1>0, <1>5, <1>6, <1>7 DEF Create, new

LEMMA PutClean ==
  ASSUME IInv, NEW r \in Runs, Oriented(r), Put(r)
  PROVE  Oriented(r)' /\ (Alone(r) /\ Clean(r) => Clean(r)')
<1>0. PICK i \in DOMAIN config[r] : i = run[r].item
  BY SendingFacts DEF Put, At
<1> DEFINE o    == Target[i]
           kept == run[r].existing
           new  == Stamped(Patched(kept, Want(r, i)))
           t    == [run[r] EXCEPT !.attempts = @ + 1, !.existing = Absent]
           again == [t EXCEPT !.pc = "get"]
           over  == [t EXCEPT !.pc = "failed"]
<1>1. run[r].pc = "put"
  BY DEF Put, At
<1>2. /\ i \in DOMAIN config[r] /\ o \in Objects /\ Want(r, i) \in Manifest
      /\ clock \in Nat /\ i \in run[r].todo /\ run[r].doomed = {} /\ run[r] \in RunState
  BY <1>0, <1>1, SendingFacts, TargetFacts DEF IInv, TypeOK, ClusterTypeOK, Oriented, Sending
<1>3. ASSUME store[o] # Absent, store[o].rv = kept.rv
      PROVE  /\ store[o] = kept /\ kept \in Live /\ new # Absent
             /\ new.uid = kept.uid /\ kept.uid \in Nat
             /\ new.orig = Want(r, i)
             /\ new.fields = Merge(kept.orig, Want(r, i), kept.fields)
             /\ new.established = kept.established
             /\ Settled(o, kept) \in BOOLEAN
             /\ Settled(o, kept) /\ o \in Crds => kept.established
  <2>1. /\ store[o] = kept /\ kept \in Live /\ new \in Live /\ new.uid = kept.uid
    BY <1>0, <1>1, <1>3, AcceptedPut
  <2>2. /\ new.orig = Want(r, i)
        /\ new.fields = Merge(kept.orig, Want(r, i), kept.fields)
        /\ new.established = kept.established
    BY <1>2, <2>1, PatchedFields
  <2> HIDE DEF new
  <2>3. kept.uid \in Nat /\ kept.established \in BOOLEAN /\ new # Absent
    BY <2>1, LiveNotAbsent DEF Live
  <2> QED
    BY <2>1, <2>2, <2>3 DEF Settled
<1>4. CASE /\ store[o] # Absent /\ store[o].rv = kept.rv /\ Writes(r, o, new)
           /\ Become(r, Applied(r, i, kept.uid, Settled(o, kept)))
  <2> HIDE DEF new
  <2>1. Oriented(r)'
    BY <1>2, <1>3, <1>4, ItemOriented
  <2>2. ASSUME Alone(r), Clean(r) PROVE Clean(r)'
    <3>1. /\ store'[o] = new /\ base' = base
          /\ \A p \in Objects \ {o} : store'[p] = store[p]
      BY <1>2, <1>4, WritesOne
    <3>2. Steady(r)
      BY <1>4, <3>1, MovedTo DEF Steady
    <3>3. Intact(r, o)
      BY <1>1, <1>2, <2>2 DEF Clean, Sending
    <3>4. Merged(r, i)'
      BY <1>2, <1>3, <1>4, <3>1, <3>2, <3>3, MergedNow
    <3> QED
      BY <1>0, <1>1, <1>2, <1>3, <1>4, <2>2, <3>1, <3>4, ItemClean DEF Sending
  <2> QED
    BY <2>1, <2>2
<1>5. CASE Writes(r, o, new) /\ Become(r, Failing(r))
  <2> HIDE DEF new
  <2> QED
    BY <1>0, <1>1, <1>2, <1>5, WritesOne, LostClean, FailOriented DEF Sending
<1>6. CASE NoWrite /\ Become(r, Failing(r))
  BY <1>6, FailClean
<1>7. t.attempts = run[r].attempts + 1
  BY <1>2 DEF RunState
<1>8. ASSUME NoWrite,
             \/ t.attempts < MaxAttempts /\ Become(r, again)
             \/ ~(t.attempts < MaxAttempts) /\ Become(r, over)
      PROVE  Oriented(r)' /\ (Clean(r) => Clean(r)')
  <2>1. t.attempts \in 0 .. MaxAttempts
    BY <1>1, <1>2, <1>7, RunAssumption DEF IInv, RunInv, Located, RunState
  <2>2. /\ t \in RunState /\ t.doomed = {} /\ t.todo = run[r].todo
        /\ t.seen = run[r].seen /\ t.item = i /\ t.warned = run[r].warned
    BY <1>0, <1>2, <2>1 DEF RunState
  <2> HIDE DEF t
  <2>3. /\ again \in RunState /\ again.doomed = {} /\ again.todo = run[r].todo
        /\ again.seen = run[r].seen /\ again.item = i /\ again.warned = run[r].warned
        /\ again.pc = "get"
    BY <2>2 DEF RunState, Working
  <2>4. /\ over \in RunState /\ over.doomed = {} /\ over.todo = run[r].todo
        /\ over.seen = run[r].seen /\ over.item = i /\ over.warned = run[r].warned
        /\ over.pc = "failed"
    BY <2>2 DEF RunState, Ended
  <2> HIDE DEF again, over
  <2>5. CASE Become(r, again)
    BY <1>0, <1>1, <1>8, <2>3, <2>5, QuietClean DEF Sending
  <2>6. CASE Become(r, over)
    BY <1>0, <1>1, <1>8, <2>4, <2>6, QuietClean DEF Sending
  <2> QED
    BY <1>8, <2>5, <2>6
<1> QED
  BY <1>0, <1>4, <1>5, <1>6, <1>8 DEF Put

\* The loop moves on from an item whose schema is ready or was given up.
LEMMA ForwardClean ==
  ASSUME IInv, NEW r \in Runs, NEW t \in RunState, Oriented(r),
         run[r].pc = "wait", t.todo = run[r].todo, t.seen = run[r].seen,
         t.doomed = run[r].doomed, run[r].warned => t.warned,
         Become(r, Forward(r, t)), NoWrite,
         \/ t.warned
         \/ \A i \in DOMAIN config[r] :
              i = run[r].item => store[Target[i]].established \/ Target[i] \notin Crds
  PROVE  Oriented(r)' /\ (Clean(r) => Clean(r)')
<1> DEFINE s == Forward(r, t)
<1>1. run'[r] = s /\ config' = config /\ flags' = flags /\ Steady(r)
      /\ store' = store /\ \A o \in Objects : Same(o)
  BY MovedTo, Unmoving DEF Steady
<1>2. /\ s.todo = run[r].todo /\ s.seen = run[r].seen /\ s.doomed = {}
      /\ s.item = NoItem /\ s.pc \in {"get", "gc", "done"}
      /\ s.warned = t.warned
      /\ s.pc = "gc" => flags[r].gcTag # None /\ ~flags[r].skipGc /\ s.views = Views
      /\ s.pc = "done" => flags[r].gcTag = None \/ flags[r].skipGc
  BY ForwardFacts, ForwardWalk DEF IInv, RunInv, Condemned
<1> HIDE DEF s
<1>3. Oriented(r)'
  BY <1>1, <1>2 DEF Oriented
<1>4. ASSUME Clean(r) PROVE Clean(r)'
  <2>1. DoomedStale(r)' /\ StaleLeft(r)'
    BY <1>1, <1>2, WalkAhead
  <2>2. \A i \in DOMAIN config[r] : Same(Target[i])
    BY <1>1, TargetFacts
  <2>3. /\ run[r].todo \subseteq DOMAIN config[r]
        /\ run[r].item \in DOMAIN config[r] \ run[r].todo
    <3>1. run[r].item \in DOMAIN config[r] /\ run[r].todo \subseteq DOMAIN config[r]
      BY DEF IInv, RunInv, Located
    <3>2. run[r].item \notin run[r].todo
      BY DEF Oriented
    <3> QED
      BY <3>1, <3>2
  <2>4. \A o \in Objects \ Targets(r) : Kept(r, o)'
    BY <1>1, <1>2, <1>4, KeptKept DEF Clean
  <2>5. \A i \in s.todo : i # run[r].item /\ Same(Target[i])
    BY <1>2, <2>2, <2>3
  <2>6. \A i \in DOMAIN config[r] \ run[r].todo :
          /\ Same(Target[i])
          /\ i # s.item /\ i = run[r].item =>
               s.warned \/ store'[Target[i]].established \/ Target[i] \notin Crds
    BY <1>1, <1>2, <2>2
  <2> QED
    BY <1>1, <1>2, <1>4, <2>1, <2>4, <2>5, <2>6, CleanStep
<1> QED
  BY <1>3, <1>4

LEMMA PollClean ==
  ASSUME IInv, NEW r \in Runs, Oriented(r), Poll(r)
  PROVE  Oriented(r)' /\ (Clean(r) => Clean(r)')
<1>1. run[r].pc = "wait" /\ NoWrite /\ run[r] \in RunState /\ run[r].doomed = {}
  BY DEF Poll, At, IInv, TypeOK, RunInv, Condemned
<1>2. ASSUME NEW s \in {[run[r] EXCEPT !.pc = "panicked"], [run[r] EXCEPT !.gone = TRUE]},
             Become(r, s)
      PROVE  Oriented(r)' /\ (Clean(r) => Clean(r)')
  <2>1. /\ s \in RunState /\ s.pc \in {"wait", "panicked"} /\ s.doomed = {}
        /\ s.todo = run[r].todo /\ s.seen = run[r].seen /\ s.item = run[r].item
        /\ s.warned = run[r].warned
    BY <1>1, <1>2 DEF RunState, Ended
  <2> QED
    BY <1>1, <1>2, <2>1, QuietClean DEF Sending
<1>3. CASE /\ Become(r, Forward(r, run[r]))
           /\ Settled(Target[run[r].item], store[Target[run[r].item]])
  <2>1. \A i \in DOMAIN config[r] :
          i = run[r].item => store[Target[i]].established \/ Target[i] \notin Crds
    BY <1>3 DEF Settled
  <2> QED
    BY <1>1, <1>3, <2>1, ForwardClean
<1> QED
  BY <1>2, <1>3 DEF Poll

LEMMA GiveUpClean ==
  ASSUME IInv, NEW r \in Runs, Oriented(r), GiveUpWaiting(r)
  PROVE  Oriented(r)' /\ (Clean(r) => Clean(r)')
<1> DEFINE t == [run[r] EXCEPT !.warned = TRUE]
<1>1. run[r].pc = "wait" /\ NoWrite /\ Become(r, Forward(r, t)) /\ run[r] \in RunState
  BY DEF GiveUpWaiting, At, IInv, TypeOK
<1>2. /\ t \in RunState /\ t.todo = run[r].todo /\ t.seen = run[r].seen
      /\ t.doomed = run[r].doomed /\ t.warned
  BY <1>1 DEF RunState
<1> HIDE DEF t
<1> QED
  BY <1>1, <1>2, ForwardClean

\* Steps of the walk leave the items alone, and what they do to the others is
\* to be shown.
LEMMA WalkClean ==
  ASSUME IInv, NEW r \in Runs, NEW s \in RunState, Oriented(r), run[r].pc = "gc",
         Become(r, s), base' = base,
         s.todo = run[r].todo, s.seen = run[r].seen, s.warned = run[r].warned,
         s.item = run[r].item, s.pc \in {"gc", "done", "failed"},
         Clean(r) => /\ \A o \in Targets(r) : Same(o)
                     /\ \A o \in Objects \ Targets(r) : Kept(r, o)'
                     /\ DoomedStale(r)' /\ StaleLeft(r)'
  PROVE  Oriented(r)' /\ (Clean(r) => Clean(r)')
<1>1. run'[r] = s /\ config' = config /\ flags' = flags /\ Steady(r)
  BY MovedTo DEF Steady
<1>2. Oriented(r)'
  BY <1>1 DEF Oriented, Sending
<1>3. ASSUME Clean(r) PROVE Clean(r)'
  <2>1. run[r].todo = {}
    BY DEF IInv, RunInv, Located
  <2>2. \A i \in DOMAIN config[r] : Same(Target[i])
    BY <1>3, TargetFacts
  <2> QED
    BY <1>1, <1>3, <2>1, <2>2, CleanStep
<1> QED
  BY <1>2, <1>3

\* What a run that is alone finds outside its configuration.
LEMMA OutsideFacts ==
  ASSUME IInv, NEW r \in Runs, Clean(r), NEW o \in Objects \ Targets(r)
  PROVE  /\ Kept(r, o)
         /\ Stale(r, o) => /\ store[o] # Absent
                           /\ eligibleForGc(store[o], flags[r].gcTag)
         /\ (/\ store[o] # Absent /\ eligibleForGc(store[o], flags[r].gcTag)
             /\ run[r].pc = "gc" /\ Oriented(r)) => Stale(r, o)
<1>1. Kept(r, o)
  BY DEF Clean
<1>2. Stale(r, o) => store[o] # Absent /\ eligibleForGc(store[o], flags[r].gcTag)
  BY <1>1 DEF Kept, Stale, eligibleForGc
<1>3. (/\ store[o] # Absent /\ eligibleForGc(store[o], flags[r].gcTag)
       /\ run[r].pc = "gc" /\ Oriented(r)) => Stale(r, o)
  BY <1>1 DEF Kept, Stale, eligibleForGc, Oriented
<1> QED
  BY <1>1, <1>2, <1>3

\* The uid of what is outside the configuration has not been noted.
LEMMA OutsideUnseen ==
  ASSUME IInv, UniqueUids, NEW r \in Runs, Clean(r), NEW o \in Objects \ Targets(r),
         store[o] # Absent
  PROVE  store[o].uid \notin run[r].seen
<1> SUFFICES ASSUME store[o].uid \in run[r].seen PROVE FALSE
  OBVIOUS
<1>1. PICK i \in DOMAIN config[r] \ run[r].todo :
        store[Target[i]] # Absent /\ store[Target[i]].uid = store[o].uid
  BY DEF Clean, SeenHeld
<1>2. Target[i] \in Objects /\ Target[i] \in Targets(r)
  BY TargetFacts
<1> QED
  BY <1>1, <1>2 DEF UniqueUids

LEMMA ListClean ==
  ASSUME IInv, UniqueUids, NEW r \in Runs, Oriented(r), List(r)
  PROVE  Oriented(r)' /\ (Alone(r) /\ Clean(r) => Clean(r)')
<1>1. /\ run[r].pc = "gc" /\ run[r] \in RunState /\ run[r].doomed = {}
      /\ store' = store /\ base' = base
  BY DEF List, At, clusterVars, IInv, TypeOK
<1>2. PICK v \in run[r].views :
        LET page == {o \in ListedIn[v] : store[o] # Absent}
            hits == {o \in page : /\ eligibleForGc(store[o], flags[r].gcTag)
                                  /\ store[o].uid \notin run[r].seen
                                  /\ ~flags[r].dryRun}
        IN Become(r, [run[r] EXCEPT
                        !.views = @ \ {v},
                        !.doomed = {[obj |-> o, uid |-> store[o].uid] : o \in hits}])
  BY DEF List
<1> DEFINE hits == {o \in {p \in ListedIn[v] : store[p] # Absent} :
                      /\ eligibleForGc(store[o], flags[r].gcTag)
                      /\ store[o].uid \notin run[r].seen
                      /\ ~flags[r].dryRun}
           doomed == {[obj |-> o, uid |-> store[o].uid] : o \in hits}
           s == [run[r] EXCEPT !.views = @ \ {v}, !.doomed = doomed]
<1>3. v \in Views /\ hits \subseteq Objects
  BY <1>1, RunAssumption DEF RunState
<1>4. Become(r, s)
  BY <1>2
<1>5. doomed \subseteq [obj: Objects, uid: Nat]
  <2>1. ASSUME NEW o \in hits PROVE store[o].uid \in Nat
    <3>1. store[o] \in Live
      BY <1>3 DEF IInv, TypeOK, ClusterTypeOK
    <3> QED
      BY <3>1 DEF Live
  <2> HIDE DEF hits
  <2> QED
    BY <1>3, <2>1
<1>6. \A d \in doomed : /\ d.obj \in ListedIn[v]
                        /\ eligibleForGc(store[d.obj], flags[r].gcTag)
  OBVIOUS
<1>7. \A o \in hits : [obj |-> o, uid |-> store[o].uid] \in doomed
  OBVIOUS
<1> HIDE DEF doomed
<1>8. /\ s \in RunState /\ s.pc = "gc" /\ s.doomed = doomed /\ s.item = run[r].item
      /\ s.todo = run[r].todo /\ s.seen = run[r].seen /\ s.warned = run[r].warned
      /\ s.views = run[r].views \ {v}
  BY <1>1, <1>5 DEF RunState
<1> HIDE DEF s
<1>9. run'[r] = s /\ config' = config /\ flags' = flags /\ Steady(r)
  BY <1>1, <1>4, MovedTo DEF Steady
<1>10. DoomedStale(r)'
  BY <1>1, <1>3, <1>6, <1>8, <1>9 DEF DoomedStale, Listable
<1>11. ASSUME Alone(r), Clean(r),
              NEW o \in Objects \ Targets(r), Stale(r, o), Listable(o)
       PROVE  \/ store[o].terminating
              \/ \E w \in s.views : o \in ListedIn[w]
              \/ [obj |-> o, uid |-> store[o].uid] \in s.doomed
  <2>1. store[o].terminating \/ \E w \in run[r].views : o \in ListedIn[w]
    BY <1>1, <1>11 DEF Clean, StaleLeft
  <2>2. CASE o \in ListedIn[v]
    <3>1. store[o] # Absent /\ eligibleForGc(store[o], flags[r].gcTag)
      BY <1>11, OutsideFacts
    <3>2. store[o].uid \notin run[r].seen /\ ~flags[r].dryRun
      BY <1>11, <3>1, OutsideUnseen DEF Alone
    <3>3. o \in hits
      BY <2>2, <3>1, <3>2
    <3> QED
      BY <1>7, <1>8, <3>3
  <2>3. CASE o \notin ListedIn[v]
    BY <1>8, <2>1, <2>3
  <2> QED
    BY <2>2, <2>3
<1>12. Alone(r) /\ Clean(r) => StaleLeft(r)'
  <2> SUFFICES ASSUME Alone(r), Clean(r),
                      NEW o \in Objects \ Targets(r), Stale(r, o), Listable(o)
               PROVE  \/ store'[o].terminating
                      \/ /\ s.pc = "gc"
                         /\ \/ \E w \in s.views : o \in ListedIn[w]
                            \/ [obj |-> o, uid |-> store'[o].uid] \in s.doomed
    BY <1>9, StaleKept DEF StaleLeft, Targets, Listable
  <2> QED
    BY <1>1, <1>8, <1>11
<1>13. (\A o \in Objects : Same(o)) /\ Targets(r) \subseteq Objects
  BY <1>1, Unwritten, TargetFacts DEF Targets
<1>14. Clean(r) => \A o \in Objects \ Targets(r) : Kept(r, o)'
  BY <1>8, <1>9, <1>13, KeptKept DEF Clean
<1>15. CASE Alone(r)
  BY <1>1, <1>4, <1>8, <1>10, <1>12, <1>13, <1>14, <1>15, WalkClean
<1>16. Oriented(r)'
  BY <1>1, <1>8, <1>9 DEF Oriented, Sending
<1> QED
  BY <1>15, <1>16

LEMMA CollectClean ==
  ASSUME IInv, NEW r \in Runs, Oriented(r), Collect(r)
  PROVE  Oriented(r)' /\ (Alone(r) /\ Clean(r) => Clean(r)')
<1>1. run[r].pc = "gc" /\ run[r] \in RunState /\ run[r].todo = {}
  BY DEF Collect, At, IInv, TypeOK, RunInv, Located
<1>2. PICK d \in run[r].doomed :
        LET live == store[d.obj]
            hit  == live # Absent /\ live.uid = d.uid /\ ~live.terminating
            rest == [run[r] EXCEPT !.doomed = @ \ {d}]
        IN \/ /\ hit
              /\ Writes(r, d.obj, Stamped([live EXCEPT !.terminating = TRUE]))
              /\ Become(r, rest) \/ Become(r, Failing(r))
           \/ /\ ~hit
              /\ Become(r, rest)
              /\ NoWrite
  BY DEF Collect
<1>3. PICK o \in Objects : o = d.obj
  BY <1>1 DEF RunState
<1> DEFINE live == store[o]
           hit  == live # Absent /\ live.uid = d.uid /\ ~live.terminating
           new  == Stamped([live EXCEPT !.terminating = TRUE])
           rest == [run[r] EXCEPT !.doomed = @ \ {d}]
<1>4. \/ /\ hit /\ Writes(r, o, new)
         /\ Become(r, rest) \/ Become(r, Failing(r))
      \/ ~hit /\ Become(r, rest) /\ NoWrite
  BY <1>2, <1>3
<1>5. /\ rest \in RunState /\ rest.pc = "gc" /\ rest.doomed = run[r].doomed \ {d}
      /\ rest.todo = run[r].todo /\ rest.seen = run[r].seen
      /\ rest.warned = run[r].warned /\ rest.item = run[r].item
      /\ rest.views = run[r].views
  BY <1>1 DEF RunState
<1>6. /\ Failing(r) \in RunState /\ Failing(r).pc = "failed" /\ Failing(r).doomed = {}
      /\ Failing(r).todo = run[r].todo /\ Failing(r).seen = run[r].seen
      /\ Failing(r).warned = run[r].warned /\ Failing(r).item = run[r].item
  BY <1>1, FailingFacts DEF Failing, RunState
<1>7. base' = base /\ \E s \in {rest, Failing(r)} : Become(r, s)
  BY <1>4 DEF Writes, NoWrite, history
<1>8. PICK s \in {rest, Failing(r)} : Become(r, s)
  BY <1>7
<1> HIDE DEF rest
<1>9. /\ s \in RunState /\ s.pc \in {"gc", "failed"}
      /\ s.todo = run[r].todo /\ s.seen = run[r].seen
      /\ s.warned = run[r].warned /\ s.item = run[r].item
      /\ run'[r] = s /\ config' = config /\ flags' = flags /\ Steady(r)
      /\ s.doomed \subseteq run[r].doomed
      /\ s.pc = "gc" => s.doomed = run[r].doomed \ {d} /\ s.views = run[r].views
  BY <1>5, <1>6, <1>7, <1>8, MovedTo DEF Steady
<1>10. Oriented(r)'
  BY <1>1, <1>9 DEF Oriented, Sending
<1>11. ASSUME Alone(r), Clean(r), hit, Writes(r, o, new)
       PROVE  /\ o \notin Targets(r) /\ Stale(r, o)
              /\ \A p \in Objects \ {o} : store'[p] = store[p]
              /\ store'[o] = new /\ new # Absent /\ new.terminating
              /\ new.uid = live.uid /\ new.fields = live.fields
              /\ new.controlled = live.controlled
  <2>1. /\ store'[o] = new
        /\ \A p \in Objects \ {o} : store'[p] = store[p]
    BY <1>11, WritesOne
  <2>2. live \in Live /\ clock \in Nat
    BY <1>11 DEF IInv, TypeOK, ClusterTypeOK
  <2>3. [live EXCEPT !.terminating = TRUE] \in Live
    BY <2>2 DEF Live
  <2>4. new \in Live
    BY <2>2, <2>3, StampedType
  <2>5. /\ new.terminating /\ new.uid = live.uid /\ new.fields = live.fields
        /\ new.controlled = live.controlled
    BY <2>2 DEF Stamped, Live
  <2>6. live.uid \notin run[r].seen
    BY <1>11 DEF IInv, RunInv, Condemned
  <2>7. o \notin Targets(r)
    <3> SUFFICES ASSUME o \in Targets(r) PROVE FALSE
      OBVIOUS
    <3>1. PICK i \in DOMAIN config[r] : o = Target[i]
      BY DEF Targets
    <3> QED
      BY <1>1, <1>11, <2>6, <3>1 DEF Clean, Through
  <2>8. eligibleForGc(live, flags[r].gcTag)
    BY <1>3, <1>11 DEF Clean, DoomedStale
  <2>9. Stale(r, o)
    BY <1>1, <1>11, <2>7, <2>8, OutsideFacts
  <2> HIDE DEF new
  <2> QED
    BY <2>1, <2>4, <2>5, <2>7, <2>9, LiveNotAbsent
<1> HIDE DEF new
<1>12. (hit /\ Writes(r, o, new)) \/ (~hit /\ store' = store /\ s = rest)
  <2>1. CASE hit
    BY <1>4, <2>1
  <2>2. CASE ~hit
    <3>1. store' = store /\ run'[r] = rest
      BY <1>4, <2>2, MovedTo, Unmoving
    <3> QED
      BY <1>9, <2>2, <3>1
  <2> QED
    BY <2>1, <2>2
<1>13. ASSUME Alone(r), Clean(r)
       PROVE  /\ \A p \in Targets(r) : Same(p)
              /\ \A p \in Objects \ Targets(r) : Kept(r, p)'
              /\ DoomedStale(r)' /\ StaleLeft(r)'
  <2>0. Targets(r) \subseteq Objects
    BY TargetFacts DEF Targets
  <2>1. ASSUME NEW p \in Objects, p # o
        PROVE  Same(p) /\ store'[p] = store[p]
    BY <1>11, <1>12, <1>13, <2>1, Unwritten
  <2>2. ~hit => Same(o) /\ store'[o] = store[o]
    BY <1>12, Unwritten
  <2>3. \A p \in Targets(r) : Same(p)
    BY <1>11, <1>12, <1>13, <2>0, <2>1, <2>2
  <2>4. ASSUME NEW p \in Objects \ Targets(r)
        PROVE  Kept(r, p)'
    <3>1. Kept(r, p)
      BY <1>13 DEF Clean
    <3>2. CASE p # o \/ ~hit
      BY <1>9, <2>1, <2>2, <3>1, <3>2, KeptKept
    <3>3. CASE p = o /\ hit
      BY <1>1, <1>9, <1>11, <1>12, <1>13, <3>1, <3>3, StaleKept DEF Kept, Steady
    <3> QED
      BY <3>2, <3>3
  <2>5. DoomedStale(r)'
    <3> SUFFICES ASSUME NEW e \in s.doomed
                 PROVE  /\ Listable(e.obj)
                        /\ (store'[e.obj] # Absent /\ store'[e.obj].uid = e.uid)
                             => eligibleForGc(store'[e.obj], flags[r].gcTag)
      BY <1>9 DEF DoomedStale, Listable
    <3>1. e \in run[r].doomed /\ e.obj \in Objects
      BY <1>1, <1>9 DEF RunState
    <3>2. /\ Listable(e.obj)
          /\ (store[e.obj] # Absent /\ store[e.obj].uid = e.uid)
               => eligibleForGc(store[e.obj], flags[r].gcTag)
      BY <1>13, <3>1 DEF Clean, DoomedStale
    <3>3. CASE e.obj # o \/ ~hit
      BY <2>1, <2>2, <3>1, <3>2, <3>3
    <3>4. CASE e.obj = o /\ hit
      BY <1>11, <1>12, <1>13, <3>2, <3>4 DEF eligibleForGc
    <3> QED
      BY <3>3, <3>4
  <2>6. StaleLeft(r)'
    <3> SUFFICES ASSUME NEW p \in Objects \ Targets(r),
                        s.pc = "gc", Stale(r, p), Listable(p)
                 PROVE  \/ store'[p].terminating
                        \/ \E v \in s.views : p \in ListedIn[v]
                        \/ [obj |-> p, uid |-> store'[p].uid] \in s.doomed
      BY <1>9, StaleKept DEF StaleLeft, Targets, Listable
    <3>1. \/ store[p].terminating
          \/ \E v \in run[r].views : p \in ListedIn[v]
          \/ [obj |-> p, uid |-> store[p].uid] \in run[r].doomed
      BY <1>1, <1>13 DEF Clean, StaleLeft
    <3>2. CASE p = o /\ hit
      BY <1>11, <1>12, <1>13, <3>2
    <3>3. CASE p # o \/ ~hit
      <4>1. store'[p] = store[p]
        BY <2>1, <2>2, <3>3
      <4>2. CASE [obj |-> p, uid |-> store[p].uid] = d
        <5>1. p = o /\ store[p].uid = d.uid
          BY <1>3, <4>2
        <5>2. store[p] # Absent
          BY <1>13, OutsideFacts
        <5> QED
          BY <3>3, <4>1, <5>1, <5>2
      <4> QED
        BY <1>9, <3>1, <4>1, <4>2
    <3> QED
      BY <3>2, <3>3
  <2> QED
    BY <2>3, <2>4, <2>5, <2>6
<1>14. CASE Alone(r)
  BY <1>1, <1>7, <1>8, <1>9, <1>13, <1>14, WalkClean
<1> QED
  BY <1>10, <1>14

LEMMA FinishClean ==
  ASSUME IInv, NEW r \in Runs, Oriented(r), Finish(r)
  PROVE  Oriented(r)' /\ (Clean(r) => Clean(r)')
<1> DEFINE s == [run[r] EXCEPT !.pc = "done"]
<1>1. /\ run[r].pc = "gc" /\ run[r].doomed = {} /\ run[r].views = {}
      /\ Become(r, s) /\ NoWrite /\ run[r] \in RunState
  BY DEF Finish, At, IInv, TypeOK
<1>2. /\ s \in RunState /\ s.pc = "done" /\ s.doomed = {} /\ s.item = run[r].item
      /\ s.todo = run[r].todo /\ s.seen = run[r].seen /\ s.warned = run[r].warned
  BY <1>1 DEF RunState, Ended
<1> HIDE DEF s
<1>3. /\ run'[r] = s /\ config' = config /\ flags' = flags /\ Steady(r)
      /\ store' = store /\ base' = base /\ \A o \in Objects : Same(o)
  BY <1>1, MovedTo, Unmoving DEF Steady
<1>4. ASSUME Clean(r)
      PROVE  /\ \A o \in Targets(r) : Same(o)
             /\ \A o \in Objects \ Targets(r) : Kept(r, o)'
             /\ DoomedStale(r)' /\ StaleLeft(r)'
  <2>1. Targets(r) \subseteq Objects
    BY TargetFacts DEF Targets
  <2>2. \A o \in Objects \ Targets(r) : Kept(r, o)'
    BY <1>2, <1>3, <1>4, KeptKept DEF Clean
  <2>3. DoomedStale(r)'
    BY <1>2, <1>3 DEF DoomedStale
  <2>4. \A o \in Objects \ Targets(r) :
          Stale(r, o) /\ Listable(o) => store[o].terminating
    BY <1>1, <1>4 DEF Clean, StaleLeft
  <2>5. StaleLeft(r)'
    BY <1>3, <2>4, StaleKept DEF StaleLeft, Targets, Listable
  <2> QED
    BY <1>3, <2>1, <2>2, <2>3, <2>5
<1> QED
  BY <1>1, <1>2, <1>3, <1>4, WalkClean

LEMMA AbortClean ==
  ASSUME IInv, NEW r \in Runs, Oriented(r), Abort(r)
  PROVE  Oriented(r)' /\ (Clean(r) => Clean(r)')
BY FailClean DEF Abort

\* When the run begins everything is as it was then.
LEMMA BeginClean ==
  ASSUME IInv, NEW r \in Runs, Oriented(r), Begin(r)
  PROVE  Oriented(r)' /\ Clean(r)'
<1> DEFINE t == [run[r] EXCEPT !.todo = DOMAIN config[r]]
           s == Forward(r, t)
<1>1. /\ run[r].pc = "idle" /\ Become(r, s) /\ run[r] \in RunState
      /\ base'[r] = store /\ store' = store
      /\ run[r].doomed = {} /\ run[r].seen = {}
  BY DEF Begin, At, IInv, TypeOK, clusterVars, RunInv, Condemned, Oriented
<1>2. DOMAIN config[r] \subseteq Items
  BY RunAssumption DEF IInv, TypeOK
<1>3. /\ t \in RunState /\ t.todo = DOMAIN config[r] /\ t.doomed = {} /\ t.seen = {}
  BY <1>1, <1>2 DEF RunState
<1> HIDE DEF t
<1>4. /\ s.todo = DOMAIN config[r] /\ s.seen = {} /\ s.doomed = {}
      /\ s.item = NoItem /\ s.pc \in {"get", "gc", "done"}
      /\ s.pc = "gc" => flags[r].gcTag # None /\ ~flags[r].skipGc /\ s.views = Views
      /\ s.pc = "done" => flags[r].gcTag = None \/ flags[r].skipGc
  BY <1>3, ForwardFacts, ForwardWalk
<1> HIDE DEF s
<1>5. run'[r] = s /\ config' = config /\ flags' = flags
  BY <1>1, MovedTo
<1>6. Oriented(r)'
  BY <1>4, <1>5 DEF Oriented
<1>7. \A i : Intact(r, Target[i])'
  BY <1>1 DEF Intact
<1>8. \A o \in Objects : Kept(r, o)'
  BY <1>1 DEF Kept
<1>9. SeenHeld(r)' /\ DoomedStale(r)'
  BY <1>4, <1>5 DEF SeenHeld, DoomedStale
<1>10. StaleLeft(r)'
  <2> SUFFICES ASSUME NEW o \in Objects, s.pc \in {"gc", "done"},
                      Stale(r, o)', Listable(o)
               PROVE  s.pc = "gc" /\ \E v \in s.views : o \in ListedIn[v]
    BY <1>5 DEF StaleLeft, Listable
  <2> QED
    BY <1>4, <1>5 DEF Stale, Listable
<1>11. DOMAIN config'[r] \ run'[r].todo = {}
  BY <1>4, <1>5
<1>12. Clean(r)'
  BY <1>7, <1>8, <1>9, <1>10, <1>11 DEF Clean
<1> QED
  BY <1>6, <1>12

----------------------------------------------------------------------------
\* The invariant.

\* A step of run r, other than Begin.
LEMMA MovesClean ==
  ASSUME IInv, UniqueUids, NEW r \in Runs, Oriented(r), Progress(r) \/ Abort(r)
  PROVE  Oriented(r)' /\ (Alone(r) /\ Clean(r) => Clean(r)')
<1>1. CASE \E i \in Items : GetAbsent(r, i)
  BY <1>1, GetAbsentClean
<1>2. CASE \E i \in Items : GetLive(r, i)
  BY <1>2, GetLiveClean
<1>3. CASE Create(r)
  BY <1>3, CreateClean
<1>4. CASE Put(r)
  BY <1>4, PutClean
<1>5. CASE Poll(r)
  BY <1>5, PollClean
<1>6. CASE GiveUpWaiting(r)
  BY <1>6, GiveUpClean
<1>7. CASE List(r)
  BY <1>7, ListClean
<1>8. CASE Collect(r)
  BY <1>8, CollectClean
<1>9. CASE Finish(r)
  BY <1>9, FinishClean
<1>10. CASE Abort(r)
  BY <1>10, AbortClean
<1> QED
  BY <1>1, <1>2, <1>3, <1>4, <1>5, <1>6, <1>7, <1>8, <1>9, <1>10 DEF Progress

\* Steps of others leave a run where it is.
LEMMA OthersOriented ==
  ASSUME IInv, NEW r \in Runs, Oriented(r), [Next]_vars,
         ~Begin(r), ~Progress(r), ~Abort(r)
  PROVE  Oriented(r)'
<1>1. run \in [Runs -> RunState]
  BY DEF IInv, TypeOK
<1>2. run'[r] = run[r] /\ config' = config /\ flags' = flags
  <2>1. ASSUME NEW q \in Runs, q # r, Begin(q)
        PROVE  run'[r] = run[r] /\ config' = config /\ flags' = flags
    BY <1>1, <2>1 DEF Begin, Become, inputs
  <2>2. ASSUME NEW q \in Runs, q # r, Progress(q) \/ Abort(q)
        PROVE  run'[r] = run[r] /\ config' = config /\ flags' = flags
    <3>1. \E s : Become(q, s)
      BY <2>2, StepOf
    <3> QED
      BY <1>1, <2>2, <3>1 DEF Become, inputs
  <2>3. CASE Disturb \/ Establish \/ UNCHANGED vars
    BY <2>3 DEF Disturb, Establish, inputs, vars
  <2> QED
    BY <2>1, <2>2, <2>3 DEF Next
<1> QED
  BY <1>2 DEF Oriented

LEMMA CleanInit == Init => CInv
<1> SUFFICES ASSUME Init PROVE CInv
  OBVIOUS
<1>1. UniqueUids
  BY StoresAssumption DEF Init, ClusterInit, UniqueUids
<1>2. \A r \in Runs : Oriented(r) /\ ~Alone(r)
  BY DEF Init, Oriented, Alone, Sending
<1> QED
  BY <1>1, <1>2 DEF CInv

LEMMA CleanNext == IInv /\ CInv /\ [Next]_vars => CInv'
<1> SUFFICES ASSUME IInv, CInv, [Next]_vars PROVE CInv'
  OBVIOUS
<1>1. UniqueUids /\ UniqueUids'
  BY UniqueStep DEF CInv
<1>2. ASSUME NEW r \in Runs PROVE Oriented(r)'
  <2>1. Oriented(r)
    BY DEF CInv
  <2> QED
    BY <1>1, <2>1, BeginClean, MovesClean, OthersOriented
<1>3. ASSUME NEW r \in Runs, Alone(r)' PROVE Clean(r)'
  <2>1. Oriented(r) /\ (Alone(r) => Clean(r))
    BY DEF CInv
  <2>2. CASE Begin(r)
    BY <2>1, <2>2, BeginClean
  <2>3. CASE Alone(r) /\ (Progress(r) \/ Abort(r))
    BY <1>1, <2>1, <2>3, MovesClean
  <2>4. CASE /\ Alone(r) /\ Steady(r) /\ run'[r] = run[r]
             /\ \A o \in Objects : Same(o)
    BY <2>1, <2>4, StillClean
  <2> QED
    BY <1>3, <2>2, <2>3, <2>4, AloneSteps
<1> QED
  BY <1>1, <1>2, <1>3 DEF CInv

\* At every moment of every behaviour: uids name one object each, every run
\* knows where it is, and a run that is alone has left the server as Clean
\* says, item by item and object by object.
THEOREM CleanInvariance == Spec => []CInv
<1>1. Init /\ []IInv /\ [][Next]_vars => []CInv
  BY CleanInit, CleanNext, PTL
<1> QED
  BY <1>1, Invariance, PTL DEF Spec

----------------------------------------------------------------------------
\* What follows from it.

\* Wherever a run that is alone stops, the items it is through with hold the
\* three-way merge of its configuration into what was there when it began,
\* and the others are untouched.
THEOREM PrefixIsClean == Spec => []CleanPrefix
<1>1. CInv => CleanPrefix
  <2> SUFFICES ASSUME CInv, NEW r \in Runs, Alone(r), NEW i \in DOMAIN config[r]
               PROVE  /\ i \notin run[r].todo => Merged(r, i)
                      /\ i \in run[r].todo /\ i # run[r].item => Intact(r, Target[i])
    BY DEF CleanPrefix, Merged, MergedField, Intact
  <2> QED
    BY DEF CInv, Clean, Through
<1> QED
  BY <1>1, CleanInvariance, PTL

\* A run that is alone marks nothing outside its configuration for deletion
\* but what carries its tag, has no controller and is not marked `ignore`,
\* and all of that once it is done; it changes nothing else there.
THEOREM GcIsClean == Spec => []CleanGc
<1>1. CInv => CleanGc
  <2> SUFFICES ASSUME CInv, NEW r \in Runs, Alone(r), NEW o \in Objects \ Targets(r)
               PROVE  /\ Kept(r, o)
                      /\ Stale(r, o) /\ Listable(o) /\ run[r].pc = "done"
                           => store[o].terminating
    BY DEF CleanGc, Kept, Stale, Listable, At
  <2> QED
    BY DEF CInv, Clean, StaleLeft
<1> QED
  BY <1>1, CleanInvariance, PTL

\* A run that is alone leaves a CRD behind only when its schema is ready, or
\* it has warned.
THEOREM CrdsEstablished == Spec => []EstablishedOrWarned
<1>1. CInv => EstablishedOrWarned
  BY DEF CInv, Clean, Through, EstablishedOrWarned
<1> QED
  BY <1>1, CleanInvariance, PTL

\* Applying a manifest to an object it has been merged into changes nothing.
LEMMA MergeIsIdempotent ==
  ASSUME NEW live \in Live, NEW m \in Manifest, live.orig = m,
         \A f \in Fields : m[f] # None => live.fields[f] = m[f]
  PROVE  Patched(live, m) = live
<1>1. live.fields \in Manifest /\ m # NoOrig
  BY MarkersAssumption DEF Live
<1>2. \A f \in Fields : MergeField(live.orig, m, live.fields, f) = live.fields[f]
  BY DEF MergeField, WasApplied
<1>3. Merge(live.orig, m, live.fields) = live.fields
  BY <1>1, <1>2 DEF Merge, Manifest
<1> QED
  BY <1>3 DEF Patched, Live

\* A write of a run: it creates, sends back or marks one object.
LEMMA WritingSteps ==
  ASSUME NEW q \in Runs, Progress(q), store' # store
  PROVE  \/ Create(q) /\ store[Target[run[q].item]] = Absent
         \/ /\ Put(q) /\ store[Target[run[q].item]] # Absent
            /\ store[Target[run[q].item]].rv = run[q].existing.rv
         \/ /\ run[q].pc = "gc"
            /\ \E d \in run[q].doomed :
                 /\ store[d.obj] # Absent /\ store[d.obj].uid = d.uid
                 /\ ~store[d.obj].terminating
<1>1. CASE Create(q)
  BY <1>1 DEF Create, NoWrite, clusterVars
<1>2. CASE Put(q)
  BY <1>2 DEF Put, NoWrite, clusterVars
<1>3. CASE Collect(q)
  BY <1>3 DEF Collect, At, NoWrite, clusterVars
<1>4. CASE (\E i \in Items : GetAbsent(q, i) \/ GetLive(q, i))
             \/ Poll(q) \/ GiveUpWaiting(q) \/ List(q) \/ Finish(q)
  BY <1>4 DEF GetAbsent, GetLive, Poll, GiveUpWaiting, List, Finish, NoWrite, clusterVars
<1> QED
  BY <1>1, <1>2, <1>3, <1>4 DEF Progress

\* What a run that is alone has left behind when it is done gives a run with
\* the same configuration and flags nothing to write.
LEMMA NothingLeft ==
  ASSUME IInv, CInv, NEW r \in Runs, NEW q \in Runs, r # q,
         run[r].pc = "done", Alone(r), q \notin dirty,
         config[q] = config[r], flags[q] = flags[r], Progress(q)
  PROVE  store' = store
<1> SUFFICES ASSUME store' # store PROVE FALSE
  OBVIOUS
<1>1. Clean(r) /\ run[r].todo = {}
  BY DEF CInv, IInv, RunInv, Located
<1>2. run[q].pc \in Working
  BY StepOf
<1>3. Alone(q) /\ Clean(q) /\ Oriented(q)
  BY <1>2 DEF Alone, Distinct, At, Working, CInv
<1>4. Targets(q) = Targets(r)
  BY DEF Targets
<1>5. \A i \in DOMAIN config[q] : Merged(r, i) /\ Want(q, i) = Want(r, i)
  BY <1>1 DEF Clean, Through, Want
<1>6. CASE Create(q) /\ store[Target[run[q].item]] = Absent
  <2>1. run[q].item \in DOMAIN config[q]
    BY <1>6, SendingFacts DEF Create, At
  <2> QED
    BY <1>5, <1>6, <2>1 DEF Merged
<1>7. CASE /\ Put(q) /\ store[Target[run[q].item]] # Absent
           /\ store[Target[run[q].item]].rv = run[q].existing.rv
  <2>1. PICK i \in DOMAIN config[q] : i = run[q].item
    BY <1>7, SendingFacts DEF Put, At
  <2> DEFINE now == store[Target[i]]
  <2>2. now \in Live /\ Patched(now, Want(q, i)) # now
    BY <1>7, <2>1, AcceptedPut DEF Put, At
  <2>3. Want(q, i) \in Manifest
    BY WantType DEF IInv
  <2>4. /\ now.orig = Want(q, i)
        /\ \A f \in Fields : Want(q, i)[f] # None => now.fields[f] = Want(q, i)[f]
    BY <1>5 DEF Merged, MergedField
  <2> HIDE DEF now
  <2> QED
    BY <2>2, <2>3, <2>4, MergeIsIdempotent
<1>8. CASE /\ run[q].pc = "gc"
           /\ \E d \in run[q].doomed :
                /\ store[d.obj] # Absent /\ store[d.obj].uid = d.uid
                /\ ~store[d.obj].terminating
  <2>1. PICK d \in run[q].doomed :
          /\ store[d.obj] # Absent /\ store[d.obj].uid = d.uid
          /\ ~store[d.obj].terminating
    BY <1>8
  <2>2. PICK o \in Objects : o = d.obj
    BY DEF IInv, TypeOK, RunState
  <2>3. eligibleForGc(store[o], flags[r].gcTag) /\ Listable(o)
    BY <1>3, <2>1, <2>2 DEF Clean, DoomedStale
  <2>4. o \notin Targets(q)
    <3> SUFFICES ASSUME NEW i \in DOMAIN config[q], o = Target[i] PROVE FALSE
      BY DEF Targets
    <3>1. store[o].uid \notin run[q].seen
      BY <2>1, <2>2 DEF IInv, RunInv, Condemned
    <3>2. run[q].todo = {}
      BY <1>8 DEF IInv, RunInv, Located
    <3> QED
      BY <1>3, <3>1, <3>2 DEF Clean, Through
  <2>5. Kept(r, o)
    BY <1>1, <1>4, <2>4 DEF Clean
  <2>6. Stale(r, o)
    BY <1>3, <1>8, <2>1, <2>2, <2>3, <2>5 DEF Kept, Stale, eligibleForGc, Oriented
  <2>7. store[o].terminating
    BY <1>1, <1>4, <2>3, <2>4, <2>6 DEF Clean, StaleLeft
  <2> QED
    BY <2>1, <2>2, <2>7
<1> QED
  BY <1>6, <1>7, <1>8, WritingSteps

\* Once a run has ended well, neither it nor the other having been disturbed,
\* a run with the same configuration and flags writes nothing.
THEOREM SecondRunIdle == Spec => Idempotent
<1>1. ASSUME IInv, CInv, [Next]_vars, NEW r \in Runs, NEW q \in Runs, r # q,
             At(r, "done"), Alone(r), q \notin dirty,
             config[q] = config[r], flags[q] = flags[r], run'[q] # run[q]
      PROVE  UNCHANGED store
  <2>1. PICK p \in Runs : Begin(p) \/ Progress(p) \/ Abort(p)
    BY <1>1 DEF Next, vars, Disturb, Establish
  <2>2. \E s : Become(p, s)
    BY <2>1, StepOf DEF Begin
  <2>3. p = q
    BY <1>1, <2>2 DEF Become, IInv, TypeOK
  <2>4. CASE Progress(q)
    BY <1>1, <2>4, NothingLeft DEF At
  <2>5. CASE Begin(q) \/ Abort(q)
    BY <2>5 DEF Begin, Abort, NoWrite, clusterVars
  <2> QED
    BY <2>1, <2>3, <2>4, <2>5
<1>2. IInv /\ CInv /\ [Next]_vars =>
        [\A r, q \in Runs :
           (/\ r # q /\ At(r, "done") /\ Alone(r) /\ q \notin dirty
            /\ config[q] = config[r] /\ flags[q] = flags[r]
            /\ run'[q] # run[q]) => UNCHANGED store]_vars
  BY <1>1
<1> QED
  BY <1>2, Invariance, CleanInvariance, PTL DEF Spec, Idempotent
=============================================================================
