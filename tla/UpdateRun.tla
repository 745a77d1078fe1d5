----------------------------- MODULE UpdateRun -----------------------------
(***************************************************************************)
(* `kubecfg update`: UpdateCmd.Run, for several invocations (Runs) that    *)
(* work on one cluster at the same time or one after the other.  A run     *)
(* applies the items of its configuration in dependency order, waits for   *)
(* each CustomResourceDefinition to be established, and then deletes the   *)
(* objects that carry its tag and that it did not apply.                   *)
(*                                                                         *)
(* Every API call is one step, so others act between any two of them.  A   *)
(* call may take effect and its answer be lost; a run may be killed        *)
(* anywhere.  A run that stopped is never resumed: the user starts another *)
(* one, which is another element of Runs.                                  *)
(***************************************************************************)
EXTENDS Cluster, FiniteSets

CONSTANTS
  Runs,         \* the invocations of kubecfg
  Items,        \* the objects configurations are made of
  Target,       \* the server object an item addresses, once its namespace is defaulted
  Rank,         \* the tier of an item in the dependency order; ties are in any order
  Configs,      \* the configurations: partial functions from Items to Manifest
  FlagSets,     \* the flag combinations of UpdateCmd
  Views,        \* the resources discovery names, as far as they can be listed
  ListedIn,     \* the objects each of them lists
  MaxAttempts,  \* Steps of retry.DefaultBackoff
  NoItem

ASSUME RunAssumption ==
  /\ Target \in [Items -> Objects]
  /\ Rank \in [Items -> Nat]
  /\ \A c \in Configs : DOMAIN c \subseteq Items /\ \A i \in DOMAIN c : c[i] \in Manifest
  /\ FlagSets \subseteq [create: BOOLEAN, gcTag: Values \cup {None},
                         skipGc: BOOLEAN, dryRun: BOOLEAN]
  /\ ListedIn \in [Views -> SUBSET Objects]
  /\ MaxAttempts \in Nat \ {0}
  /\ NoItem \notin Items

NoUid == 0   \* the uid of an object that was not sent to the server

VARIABLES
  config,     \* the configuration of each run
  flags,      \* its flags
  run,        \* its local state
  \* History, read by the properties only:
  base,       \* the store when the run began
  begun,      \* the clock when the run began
  listedAt,   \* the clock when the run last listed a resource
  dirty       \* the runs since whose begin someone else wrote

inputs  == <<config, flags>>
history == <<base, begun, listedAt, dirty>>
vars    == <<store, clock, envSteps, config, flags, run, base, begun, listedAt, dirty>>

Working == {"get", "create", "put", "wait", "gc"}
Ended   == {"done", "failed", "panicked"}

\* pc and what Run, createOrUpdate, waitForSchemaChange and walkObjects hold
\* in their variables.
RunState ==
  [pc: {"idle"} \cup Working \cup Ended,
   todo: SUBSET Items,               \* apiObjects not reached yet
   item: Items \cup {NoItem},        \* obj
   attempts: 0 .. MaxAttempts,       \* of RetryOnConflict, failed so far
   existing: Live \cup {Absent},     \* what Get returned
   gone: BOOLEAN,                    \* the poll has overwritten obj with nil
   warned: BOOLEAN,                  \* it printed that it gave up waiting
   seen: SUBSET Nat,                 \* seenUids
   views: SUBSET Views,              \* resources still to list
   doomed: SUBSET [obj: Objects, uid: Nat]]  \* rest of the listed page to delete

TypeOK ==
  /\ ClusterTypeOK
  /\ config \in [Runs -> Configs]
  /\ flags \in [Runs -> FlagSets]
  /\ run \in [Runs -> RunState]
  /\ base \in [Runs -> [Objects -> Live \cup {Absent}]]
  /\ begun \in [Runs -> Nat]
  /\ listedAt \in [Runs -> Nat]
  /\ dirty \in SUBSET Runs

Init ==
  /\ ClusterInit
  /\ config \in [Runs -> Configs]
  /\ flags \in [Runs -> FlagSets]
  /\ run = [r \in Runs |->
              [pc |-> "idle", todo |-> {}, item |-> NoItem, attempts |-> 0,
               existing |-> Absent, gone |-> FALSE, warned |-> FALSE, seen |-> {},
               views |-> {}, doomed |-> {}]]
  /\ base = [r \in Runs |-> [o \in Objects |-> Absent]]
  /\ begun = [r \in Runs |-> 0]
  /\ listedAt = [r \in Runs |-> 0]
  /\ dirty = Runs

----------------------------------------------------------------------------
\* Helpers.

At(r, label) == run[r].pc = label
Become(r, s) == run' = [run EXCEPT ![r] = s] /\ UNCHANGED inputs

\* A step that only talks to itself or reads.
NoWrite == UNCHANGED <<clusterVars, history>>

\* A write of run r: every other run has now been disturbed.
Writes(r, o, live) ==
  /\ Write(o, live)
  /\ dirty' = dirty \cup (Runs \ {r})
  /\ UNCHANGED <<envSteps, base, begun, listedAt>>

\* The manifest Run sends for item i, tagged.
Want(r, i) == WithTag(config[r][i], flags[r].gcTag)

\* Mutant: takes every object for one whose schema is ready.
SettledAlways(o, live) == TRUE

Settled(o, live) == o \notin Crds \/ live.established   \* isSchemaEstablished

Failing(r) == [run[r] EXCEPT !.pc = "failed", !.existing = Absent, !.doomed = {}]

\* The items the loop of Run may be at: the one being retried, or any of
\* the lowest tier that is left.
Current(r) ==
  IF run[r].item # NoItem THEN {run[r].item}
  ELSE {i \in run[r].todo : \A j \in run[r].todo : Rank[i] <= Rank[j]}

\* Mutant: leaves the loop one item early.
ForwardEarly(r, s) ==
  LET left == Cardinality(s.todo) > 1
  IN [s EXCEPT !.item = NoItem, !.attempts = 0, !.gone = FALSE,
               !.views = IF left THEN {} ELSE Views,
               !.pc = CASE left -> "get"
                        [] ~left /\ flags[r].gcTag # None /\ ~flags[r].skipGc -> "gc"
                        [] ~left /\ (flags[r].gcTag = None \/ flags[r].skipGc) -> "done"]

\* Where the loop goes after an item: to the next, to the walk, or out.
Forward(r, s) ==
  [s EXCEPT !.item = NoItem, !.attempts = 0, !.gone = FALSE,
            !.views = IF s.todo = {} THEN Views ELSE {},
            !.pc = CASE s.todo # {} -> "get"
                     [] s.todo = {} /\ flags[r].gcTag # None /\ ~flags[r].skipGc -> "gc"
                     [] s.todo = {} /\ (flags[r].gcTag = None \/ flags[r].skipGc) -> "done"]

\* Mutant: does not note the uid of an object that is waited for or settled.
AppliedUnnoted(r, i, uid, settled) ==
  LET s == [run[r] EXCEPT !.todo = @ \ {i}, !.existing = Absent]
  IN IF settled \/ flags[r].dryRun
       THEN Forward(r, s)
       ELSE [s EXCEPT !.item = i, !.pc = "wait"]

\* createOrUpdate returned an object with this uid: its uid is noted, and a
\* CRD that is not established is waited for, except in a dry run.
Applied(r, i, uid, settled) ==
  LET s == [run[r] EXCEPT !.todo = @ \ {i}, !.seen = @ \cup {uid},
                          !.existing = Absent]
  IN IF settled \/ flags[r].dryRun
       THEN Forward(r, s)
       ELSE [s EXCEPT !.item = i, !.pc = "wait"]

----------------------------------------------------------------------------
\* The run.

Begin(r) ==
  /\ At(r, "idle")
  /\ Become(r, Forward(r, [run[r] EXCEPT !.todo = DOMAIN config[r]]))
  /\ base' = [base EXCEPT ![r] = store]
  /\ begun' = [begun EXCEPT ![r] = clock]
  /\ dirty' = dirty \ {r}
  /\ UNCHANGED <<clusterVars, listedAt>>

\* createOrUpdate, up to its first write: Get says NotFound ...
GetAbsent(r, i) ==
  /\ At(r, "get") /\ i \in Current(r)
  /\ store[Target[i]] = Absent
  /\ \/ /\ ~flags[r].create
        /\ Become(r, [Failing(r) EXCEPT !.item = i])
     \/ /\ flags[r].create /\ flags[r].dryRun
        /\ Become(r, Applied(r, i, NoUid, TRUE))
     \/ /\ flags[r].create /\ ~flags[r].dryRun
        /\ Become(r, [run[r] EXCEPT !.item = i, !.pc = "create"])
  /\ NoWrite

\* Mutant: sends the object back although the merge changed nothing.
GetLiveAlwaysPut(r, i) ==
  /\ At(r, "get") /\ i \in Current(r)
  /\ store[Target[i]] # Absent
  /\ \/ /\ flags[r].dryRun
        /\ Become(r, Applied(r, i, store[Target[i]].uid, TRUE))
     \/ /\ ~flags[r].dryRun
        /\ Become(r, [run[r] EXCEPT !.item = i, !.existing = store[Target[i]],
                                    !.pc = "put"])
  /\ NoWrite

\* ... or returns an object, which is sent back if the merge changes it.
GetLive(r, i) ==
  LET live   == store[Target[i]]
      merged == Patched(live, Want(r, i))
  IN /\ At(r, "get") /\ i \in Current(r)
     /\ live # Absent
     /\ \/ /\ merged = live \/ flags[r].dryRun
           /\ Become(r, Applied(r, i, live.uid, Settled(Target[i], live)))
        \/ /\ merged # live /\ ~flags[r].dryRun
           /\ Become(r, [run[r] EXCEPT !.item = i, !.existing = live, !.pc = "put"])
     /\ NoWrite

\* Create.  The answer may be lost, which ends the run.
Create(r) ==
  LET i == run[r].item
      o == Target[i]
  IN /\ At(r, "create")
     /\ \/ /\ store[o] = Absent
           /\ Writes(r, o, Created(Want(r, i), clock + 1))
           /\ \/ Become(r, Applied(r, i, clock + 1, Settled(o, Created(Want(r, i), clock + 1))))
              \/ Become(r, Failing(r))
        \/ /\ store[o] # Absent   \* AlreadyExists is not retried
           /\ Become(r, Failing(r))
           /\ NoWrite

\* Mutant: updates without a resourceVersion, so that nothing conflicts.
PutUnconditional(r) ==
  LET i == run[r].item
      o == Target[i]
  IN /\ At(r, "put")
     /\ store[o] # Absent
     /\ Writes(r, o, Stamped(Patched(run[r].existing, Want(r, i))))
     /\ Become(r, Applied(r, i, run[r].existing.uid, Settled(o, store[o])))

\* Mutant: allows one conflict too many.
PutOneMore(r) ==
  LET o == Target[run[r].item]
      s == [run[r] EXCEPT !.attempts = @ + 1, !.existing = Absent]
  IN \/ PutUnconditional(r) /\ store[o].rv = run[r].existing.rv
     \/ /\ At(r, "put")
        /\ store[o] # Absent /\ store[o].rv # run[r].existing.rv
        /\ Become(r, [s EXCEPT !.pc = IF s.attempts <= MaxAttempts THEN "get" ELSE "failed"])
        /\ NoWrite

\* Update.  The server refuses it when the object was written since Get;
\* RetryOnConflict then starts over from Get, MaxAttempts times in all.
Put(r) ==
  LET i    == run[r].item
      o    == Target[i]
      kept == run[r].existing
  IN /\ At(r, "put")
     /\ \/ /\ store[o] # Absent /\ store[o].rv = kept.rv
           /\ Writes(r, o, Stamped(Patched(kept, Want(r, i))))
           /\ \/ Become(r, Applied(r, i, kept.uid, Settled(o, kept)))
              \/ Become(r, Failing(r))
        \/ /\ store[o] # Absent /\ store[o].rv # kept.rv
           /\ LET s == [run[r] EXCEPT !.attempts = @ + 1, !.existing = Absent]
              IN IF s.attempts < MaxAttempts
                   THEN Become(r, [s EXCEPT !.pc = "get"])
                   ELSE Become(r, [s EXCEPT !.pc = "failed"])
           /\ NoWrite
        \/ /\ store[o] = Absent   \* NotFound
           /\ Become(r, Failing(r))
           /\ NoWrite

\* One round of wait.Poll.  A Get that finds nothing leaves obj nil, and the
\* next round dereferences it.
Poll(r) ==
  LET o == Target[run[r].item]
  IN /\ At(r, "wait")
     /\ \/ run[r].gone /\ Become(r, [run[r] EXCEPT !.pc = "panicked"])
        \/ /\ ~run[r].gone /\ store[o] = Absent
           /\ Become(r, [run[r] EXCEPT !.gone = TRUE])
        \/ /\ ~run[r].gone /\ store[o] # Absent /\ Settled(o, store[o])
           /\ Become(r, Forward(r, run[r]))
     /\ NoWrite

\* Mutant: polls for ever.
NeverGiveUp(r) == FALSE

\* The poll times out or its Get fails: Run warns and goes on.
GiveUpWaiting(r) ==
  /\ At(r, "wait")
  /\ Become(r, Forward(r, [run[r] EXCEPT !.warned = TRUE]))
  /\ NoWrite

\* Mutant: deletes in a dry run, too.
ListForReal(r) ==
  /\ At(r, "gc") /\ run[r].doomed = {}
  /\ \E v \in run[r].views :
       LET hits == {o \in ListedIn[v] : /\ store[o] # Absent
                                        /\ eligibleForGc(store[o], flags[r].gcTag)
                                        /\ store[o].uid \notin run[r].seen}
       IN Become(r, [run[r] EXCEPT
                       !.views = @ \ {v},
                       !.doomed = {[obj |-> o, uid |-> store[o].uid] : o \in hits}])
  /\ listedAt' = [listedAt EXCEPT ![r] = clock]
  /\ UNCHANGED <<clusterVars, base, begun, dirty>>

\* walkObjects lists one more resource, once the page before is dealt with.
List(r) ==
  /\ At(r, "gc") /\ run[r].doomed = {}
  /\ \E v \in run[r].views :
       LET page == {o \in ListedIn[v] : store[o] # Absent}
           hits == {o \in page : /\ eligibleForGc(store[o], flags[r].gcTag)
                                 /\ store[o].uid \notin run[r].seen
                                 /\ ~flags[r].dryRun}
       IN Become(r, [run[r] EXCEPT
                       !.views = @ \ {v},
                       !.doomed = {[obj |-> o, uid |-> store[o].uid] : o \in hits}])
  /\ listedAt' = [listedAt EXCEPT ![r] = clock]
  /\ UNCHANGED <<clusterVars, base, begun, dirty>>

\* Mutant: deletes by name, without the uid as precondition.
CollectByName(r) ==
  /\ At(r, "gc")
  /\ \E d \in run[r].doomed :
       /\ store[d.obj] # Absent /\ ~store[d.obj].terminating
       /\ Writes(r, d.obj, Stamped([store[d.obj] EXCEPT !.terminating = TRUE]))
       /\ Become(r, [run[r] EXCEPT !.doomed = @ \ {d}])

\* gcDelete, with the uid as precondition: a foreground deletion marks the
\* object, which is gone later.  NotFound and Conflict are ignored.
Collect(r) ==
  /\ At(r, "gc")
  /\ \E d \in run[r].doomed :
       LET live == store[d.obj]
           hit  == live # Absent /\ live.uid = d.uid /\ ~live.terminating
           rest == [run[r] EXCEPT !.doomed = @ \ {d}]
       IN \/ /\ hit
             /\ Writes(r, d.obj, Stamped([live EXCEPT !.terminating = TRUE]))
             /\ Become(r, rest) \/ Become(r, Failing(r))
          \/ /\ ~hit
             /\ Become(r, rest)
             /\ NoWrite

Finish(r) ==
  /\ At(r, "gc") /\ run[r].doomed = {} /\ run[r].views = {}
  /\ Become(r, [run[r] EXCEPT !.pc = "done"])
  /\ NoWrite

\* The run is killed, or a call that changed nothing reports an error.
Abort(r) ==
  /\ run[r].pc \in Working
  /\ Become(r, Failing(r))
  /\ NoWrite

\* Everyone else.  The status a controller sets on a CRD disturbs nobody.
Disturb ==
  /\ \E o \in Objects : OthersEdit(o) \/ OthersRemove(o) \/ OthersCreate(o)
  /\ dirty' = Runs
  /\ UNCHANGED <<inputs, run, base, begun, listedAt>>

Establish ==
  /\ \E o \in Objects : OthersEstablish(o)
  /\ UNCHANGED <<inputs, run, history>>

Progress(r) ==
  \/ \E i \in Items : GetAbsent(r, i) \/ GetLive(r, i)
  \/ Create(r) \/ Put(r)
  \/ Poll(r) \/ GiveUpWaiting(r)
  \/ List(r) \/ Collect(r) \/ Finish(r)

Next ==
  \/ \E r \in Runs : Begin(r) \/ Progress(r) \/ Abort(r)
  \/ Disturb
  \/ Establish

Spec == Init /\ [][Next]_vars

\* A run that was started is scheduled, and its calls return or time out.
FairSpec == Spec /\ \A r \in Runs : WF_vars(Progress(r))

----------------------------------------------------------------------------
\* Properties.

Targets(r) == {Target[i] : i \in DOMAIN config[r]}

\* No two items of the configuration address the same object.
Distinct(r) ==
  \A i, j \in DOMAIN config[r] : Target[i] = Target[j] => i = j

\* The step marks o for deletion on behalf of run r.
Collects(r, o) ==
  /\ run'[r] # run[r]
  /\ store[o] # Absent /\ ~store[o].terminating
  /\ store'[o] # Absent /\ store'[o].terminating

\* The manifests the runs may send.
Sendable ==
  UNION {{WithTag(c[i], fl.gcTag) : i \in DOMAIN c, fl \in FlagSets} : c \in Configs}

Atomic == INSTANCE AtomicApply WITH Desired <- Sendable

\* Read, merge and write back with a resourceVersion, retried on conflict,
\* is one atomic merge of what the cluster holds: no write of another run
\* or of anyone else between the Get and the Update is lost.
UpdatesAreAtomic == Atomic!AtomicSpec

\* The walk never deletes an object of its own configuration that was
\* there when the run began, nor an incarnation the run applied, whatever
\* others do meanwhile and under however many resources it is listed.
GcSparesConfig ==
  [][\A r \in Runs : \A o \in Targets(r) :
       Collects(r, o) => store[o].uid > begun[r] /\ store[o].uid \notin run[r].seen]_vars

\* An object created after the listing that condemned its predecessor of
\* the same name is not deleted in its place.
GcSparesNewer ==
  [][\A r \in Runs, o \in Objects :
       Collects(r, o) => store[o].uid <= listedAt[r]]_vars

\* `--dry-run` changes nothing on the server, in any phase of the run.
DryRunReadOnly ==
  [][\A r \in Runs :
       flags[r].dryRun /\ run'[r] # run[r] => UNCHANGED store]_vars

\* Run r is alone: since it began, only status controllers wrote.
Alone(r) == r \notin dirty /\ ~At(r, "idle") /\ ~flags[r].dryRun /\ Distinct(r)

\* At every moment of a run that is alone, and wherever it stops, the items
\* it is through with hold the configuration merged into what was there:
\* fields it names have its values, fields an earlier configuration set and
\* this one dropped are gone, other people's fields are as they were; and
\* the items it has not reached are untouched.
CleanPrefix ==
  \A r \in Runs : Alone(r) =>
    \A i \in DOMAIN config[r] :
      LET o      == Target[i]
          before == base[r][o]
          now    == store[o]
          want   == Want(r, i)
      IN /\ i \notin run[r].todo =>
              /\ now # Absent /\ now.orig = want
              /\ \A f \in Fields :
                   now.fields[f] =
                     IF want[f] # None \/ before = Absent THEN want[f]
                     ELSE IF before.orig # NoOrig /\ before.orig[f] # None THEN None
                     ELSE before.fields[f]
         /\ i \in run[r].todo /\ i # run[r].item =>
              \/ now = before
              \/ now # Absent /\ before # Absent /\ now.fields = before.fields

\* What a run that is alone does to the objects outside its configuration:
\* it deletes those that carry its tag, have no controller and are not
\* marked `ignore`, all of them if it ends well, and none unless it has applied
\* every item; it touches no other.
CleanGc ==
  \A r \in Runs : Alone(r) =>
    \A o \in Objects \ Targets(r) :
      LET before == base[r][o]
          now    == store[o]
          stale  == /\ before # Absent /\ ~before.controlled
                    /\ flags[r].gcTag # None /\ ~flags[r].skipGc
                    /\ before.fields[TagField] = flags[r].gcTag
                    /\ before.fields[StrategyField] \in {None, GcStrategyAuto}
          listed == \E v \in Views : o \in ListedIn[v]
      IN /\ ~stale => now # Absent <=> before # Absent
         /\ ~stale /\ now # Absent => /\ now.terminating = before.terminating
                                      /\ now.fields = before.fields
         /\ stale /\ listed /\ At(r, "done") => now.terminating
         /\ stale /\ now.terminating => before.terminating \/ run[r].todo = {}

\* A custom resource is sent after its CRD: a run that is alone is past a CRD
\* only when the CRD is established, or else it has warned of it.
EstablishedOrWarned ==
  \A r \in Runs : Alone(r) =>
    \A i \in DOMAIN config[r] :
      (/\ Target[i] \in Crds
       /\ i \notin run[r].todo /\ i # run[r].item
       /\ ~run[r].warned) => store[Target[i]].established

\* A second run with the same configuration and flags finds nothing to do:
\* once run r has ended well, neither of the two having been disturbed, run q
\* writes nothing.
Idempotent ==
  [][\A r, q \in Runs :
       (/\ r # q /\ At(r, "done") /\ Alone(r) /\ q \notin dirty
        /\ config[q] = config[r] /\ flags[q] = flags[r]
        /\ run'[q] # run[q]) => UNCHANGED store]_vars

\* Every run that starts ends: conflicts are retried a bounded number of
\* times and the wait for a CRD is given up.
Termination ==
  \A r \in Runs : ~At(r, "idle") ~> run[r].pc \in Ended

----------------------------------------------------------------------------
\* What the documentation says and the code does not do.

\* update.go says of a poll that finds nothing: "continue polling".
PollSurvives == \A r \in Runs : ~At(r, "panicked")

\* update.go says of the mark `ignore`: "never garbage collect this object".
NeverCollectIgnored ==
  [][\A r \in Runs, o \in Objects :
       Collects(r, o) => store[o].fields[StrategyField] \in {None, GcStrategyAuto}]_vars

\* update.go says that objects with the tag "that are *not* in config will
\* be deleted": never one that is.
NeverCollectConfigured ==
  [][\A r \in Runs : \A o \in Targets(r) : ~Collects(r, o)]_vars
=============================================================================
