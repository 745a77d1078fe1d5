----------------------------- MODULE DeleteRun -----------------------------
(***************************************************************************)
(* `kubecfg delete`: DeleteCmd.Run.  A run asks for the server's version,  *)
(* which decides how it deletes, sorts its objects by the reverse of       *)
(* DependencyOrder, and deletes them in that order, one call each, with    *)
(* the kinds that the order's REST mapper knows.  It may be killed and     *)
(* started again; meanwhile others write.                                  *)
(***************************************************************************)
EXTENDS Cluster, Versions, DependencyOrder

CONSTANTS
  Target,     \* the server object an item addresses
  KindScope,  \* the scope of a kind, once it exists
  DefinedBy,  \* the CRD that defines a kind, or None
  Infos,      \* what servers may say of their version, and what it is
  MaxStarts   \* bound: how often the command is started

\* What the server says of the kinds when some CRDs are not there.
ScopeWithout(gone) ==
  [gvk \in Gvks |-> IF DefinedBy[gvk] \in gone THEN "unknown" ELSE KindScope[gvk]]

\* And while the store is s.
ScopeIn(s) == ScopeWithout({crd \in Crds : s[crd] = Absent})

\* The kind of an object is that of a CRD, or is defined by one, or is neither,
\* whichever item addresses the object.
ASSUME DeleteAssumption ==
  /\ None \notin Objects
  /\ Target \in [Items -> Objects] /\ DefinedBy \in [Gvks -> Crds \cup {None}]
  /\ \A i, j \in Items : Target[i] = Target[j] => DefinedBy[GvkOf[i]] = DefinedBy[GvkOf[j]]
  /\ \A i \in Items : Target[i] \in Crds => GvkOf[i] \in CrdKinds /\ DefinedBy[GvkOf[i]] = None
  /\ \A gone \in SUBSET Crds : ScopeWithout(gone) \in Scopes
  /\ MaxStarts \in Nat \ {0}

\* A server may leave out a number, or say what is none, but it does not lie.
ASSUME InfosAssumption ==
  \A i \in Infos :
    /\ i.major \in Text /\ i.minor \in Text
    /\ i.truth \in [major: Nat, minor: Nat]
    /\ Atoi(i.major) \in {-1, i.truth.major}
    /\ Atoi(TrimPlus(i.minor)) \in {-1, i.truth.minor}
    /\ i.git.matches =>
         /\ i.git.major \in Seq(Digits) \ {<<>>} /\ Numeral(i.git.major) = i.truth.major
         /\ i.git.minor \in Seq(Digits) \ {<<>>} /\ Numeral(i.git.minor) = i.truth.minor

VARIABLES
  info,    \* what the server says of its version
  cmd,     \* local state of the command, beside orderVars
  starts,  \* how often it was started
  base,    \* history: the store when it was
  alone    \* history: whether nobody else has written since

deleteVars == <<clusterVars, orderVars, info, cmd, starts, base, alone>>

Command ==
  [pc: {"run", "done", "failed", "killed"},
   i: 1 .. N + 1,            \* the object to delete
   version: [major: Int, minor: Int], default: BOOLEAN,
   foreground: BOOLEAN]      \* deleteOpts: PropagationPolicy or OrphanDependents

\* Nothing is deleted before the order is known, and a command that is through
\* has been through all of it.
DeleteTypeOK ==
  /\ ClusterTypeOK /\ OrderTypeOK
  /\ info \in Infos /\ cmd \in Command
  /\ starts \in 1 .. MaxStarts /\ alone \in BOOLEAN
  /\ cmd.i > 1 => pc = "done"
  /\ cmd.pc = "done" <=> cmd.i = N + 1

\* FetchVersion, which may fail, as may the parser: then the default is taken.
Started ==
  {LET v == IF version = Unparsed THEN GetDefaultVersion ELSE version
   IN [pc |-> IF N = 0 THEN "done" ELSE "run", i |-> 1, version |-> v,
       default |-> version = Unparsed, foreground |-> Compare(v, 1, 6) >= 0]
     : version \in {ParseVersion(info), Unparsed}}

DeleteInit ==
  /\ ClusterInit /\ info \in Infos
  /\ reverse = TRUE /\ OrderInit
  /\ cmd \in Started /\ starts = 1
  /\ base = store /\ alone = TRUE

----------------------------------------------------------------------------
\* The command.

Running == cmd.pc = "run"

\* DependencyOrder and sort.Sort.  The mapper learns the kinds that there are.
Sort ==
  /\ Running /\ OrderNext
  /\ built' # built => scope' = Known(ScopeIn(store))
  /\ UNCHANGED <<clusterVars, info, cmd, starts, base, alone>>

Current == items[cmd.i]

\* Mutant: leaves the loop one object early.
PassedEarly == [cmd EXCEPT !.i = @ + 1, !.pc = IF cmd.i + 1 = N THEN "done" ELSE "run"]

\* The loop goes on, or ends after the last object.
Passed == [cmd EXCEPT !.i = @ + 1, !.pc = IF cmd.i = N THEN "done" ELSE "run"]

\* If the order needed no mapping, the first object that is deleted does.
FindKinds ==
  /\ Running /\ pc = "done"
  /\ LoseKinds \/ BuildMapper(ScopeIn(store))
  /\ UNCHANGED <<clusterVars, info, cmd, starts, base, alone>>

\* ClientForResource: the mapper knows the kinds that it learnt, and no others.
Mapped == scope[GvkOf[Current]] # "unknown"

Unmapped == ~Mapped /\ cmd' = [cmd EXCEPT !.pc = "failed"] /\ UNCHANGED <<store, clock>>

\* Mutant: does not tolerate that the object is gone.
MissingFails ==
  /\ Mapped /\ store[Target[Current]] = Absent
  /\ cmd' = [cmd EXCEPT !.pc = "failed"] /\ UNCHANGED <<store, clock>>

\* NotFound is no error.
Missing ==
  /\ Mapped /\ store[Target[Current]] = Absent
  /\ cmd' = Passed /\ UNCHANGED <<store, clock>>

\* What goes with o: a CRD takes the objects of its kind along.
Removed(o) ==
  /\ store' = [p \in Objects |->
                 IF p = o \/ \E i \in Items : Target[i] = p /\ DefinedBy[GvkOf[i]] = o
                 THEN Absent ELSE store[p]]
  /\ clock' = clock + 1

\* The server deletes the object at once, or marks it; the answer may be lost.
Deleted ==
  LET o == Target[Current]
  IN /\ Mapped /\ store[o] # Absent
     /\ \/ ~store[o].terminating /\ Write(o, Stamped([store[o] EXCEPT !.terminating = TRUE]))
        \/ ~store[o].terminating /\ ~cmd.foreground /\ Removed(o)
        \/ store[o].terminating /\ UNCHANGED <<store, clock>>
     /\ cmd' \in {Passed, [cmd EXCEPT !.pc = "killed"]}

Delete ==
  /\ Running /\ pc = "done" /\ built
  /\ Unmapped \/ Missing \/ Deleted
  /\ UNCHANGED <<envSteps, orderVars, info, starts, base, alone>>

\* The command is killed, or a call fails without effect.  A visit ends with it.
Abort ==
  /\ Running
  /\ cmd' = [cmd EXCEPT !.pc = "killed"]
  /\ pc' = (IF pc = "visit" THEN "classify" ELSE pc) /\ frames' = <<>>
  /\ UNCHANGED <<clusterVars, reverse, mapperVars, items, keys, next, podSpecCache, faults,
                 tier, info, starts, base, alone>>

\* The command is started once more with the same objects, read in any order.
Restart ==
  /\ ~Running /\ starts < MaxStarts /\ starts' = starts + 1
  /\ cmd' \in Started
  /\ items' \in {f \in [Positions -> {items[i] : i \in Positions}] : Injective(f)}
  /\ built' = FALSE /\ scope' = [gvk \in Gvks |-> "unknown"] /\ lost' = {}
  /\ pc' = "classify" /\ next' = 1 /\ frames' = <<>> /\ faults' = 0
  /\ podSpecCache' = [gvk \in Gvks |-> "unknown"]
  /\ keys' = [i \in Positions |-> 0] /\ tier' = [item \in Items |-> 0]
  /\ base' = store /\ alone' = TRUE
  /\ UNCHANGED <<clusterVars, reverse, info>>

----------------------------------------------------------------------------
\* External: the server and those who write to it.

\* A marked object goes once its dependents have; that disturbs nobody.
Vanish ==
  /\ \E o \in Objects : store[o] # Absent /\ store[o].terminating /\ Removed(o)
  /\ UNCHANGED <<envSteps, orderVars, info, cmd, starts, base, alone>>

\* Another client deletes an object, or creates one of a kind that exists.
Disturb ==
  /\ \E o \in Objects :
       \/ /\ store[o] # Absent /\ Removed(o)
          /\ envSteps < MaxEnv /\ envSteps' = envSteps + 1
       \/ /\ \A i \in Items : Target[i] = o => ScopeIn(store)[GvkOf[i]] # "unknown"
          /\ OthersCreate(o)
  /\ alone' = FALSE
  /\ UNCHANGED <<orderVars, info, cmd, starts, base>>

DeleteNext == Sort \/ FindKinds \/ Delete \/ Abort \/ Restart \/ Vanish \/ Disturb

DeleteSpec == DeleteInit /\ [][DeleteNext]_deleteVars

----------------------------------------------------------------------------
\* Properties.

Config == {items[i] : i \in Positions}
Remains(i) == store[Target[i]] # Absent /\ ~store[Target[i]].terminating
Remained(i) == base[Target[i]] # Absent /\ ~base[Target[i]].terminating

\* What others began before the run takes its course: an object that was being
\* deleted then may vanish, and if it is a CRD its custom objects go with it.
Going(o) == base[o] # Absent /\ base[o].terminating
Doomed(i) == DefinedBy[GvkOf[i]] # None /\ Going(DefinedBy[GvkOf[i]])

\* No two objects of the configuration are one object of the server.
Distinct == \A i, j \in Config : Target[i] = Target[j] => i = j

\* Wherever a run stops that nobody disturbed, nothing that is left has lost
\* what it depends on: what comes before it in the order is as it was.  If
\* requests failed while the order was made, that still holds of the types,
\* and of the hooks.
LeavesDependencies ==
  alone /\ Distinct =>
    \A i, j \in Config :
      /\ Place(i) < Place(j) /\ Remains(j) /\ ~Doomed(i)
      /\ faults = 0 \/ Place(i) = 1 \/ Place(j) = 5
      => Remains(i) = Remained(i)

\* A run that ends well without being disturbed has deleted all that its
\* configuration names; and none deletes anything else, but for the custom
\* objects of a CRD that it deletes.
DeletesExactly ==
  alone =>
    /\ cmd.pc = "done" => \A i \in Config : ~Remains(i)
    /\ \A o \in Objects \ {Target[i] : i \in Config} :
         \/ store[o] = base[o] \/ Going(o)
         \/ \E i \in Items :
              /\ Target[i] = o
              /\ Doomed(i) \/ DefinedBy[GvkOf[i]] \in {Target[j] : j \in Config}

\* What another run, a user or a killed run has deleted already is no error: a
\* run fails by itself only for a kind that its mapper missed, as the kind's list
\* could not be had just when the mapper was made; that the server does not know;
\* or whose CRD was gone or going when the run began, as after an earlier run that
\* was killed once it had deleted the CRD, or may have been deleted by others since.
FailsOnlyUnmapped ==
  cmd.pc = "failed" =>
    \E i \in Config :
      LET gvk == GvkOf[i]
          crd == DefinedBy[gvk]
      IN \/ gvk \in lost \/ KindScope[gvk] = "unknown"
         \/ crd # None /\ (base[crd] = Absent \/ Going(crd) \/ ~alone)

\* Only the git version of a server has both numbers.
GitOnly(i) == Atoi(i.major) = -1 \/ Atoi(TrimPlus(i.minor)) = -1

\* A server from 1.6 on is sent the propagation policy, an older one the option
\* that it knows, if the version could be found out at all; except that of the
\* numbers that only the git version has, no more than the last digit is read, so
\* that 1.12 counts as 1.2.
OptionsFit ==
  ~cmd.default =>
    LET Read(n) == IF GitOnly(info) THEN n % 10 ELSE n
        major == Read(info.truth.major)
    IN cmd.foreground <=> major > 1 \/ (major = 1 /\ Read(info.truth.minor) >= 6)
============================================================================
