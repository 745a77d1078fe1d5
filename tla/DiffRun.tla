------------------------------ MODULE DiffRun ------------------------------
(***************************************************************************)
(* `kubecfg diff`: DiffCmd.Run, for several invocations, beside updates    *)
(* with kubecfg or kubectl and other writers.  A run reads the objects one *)
(* by one, in alphabetical order, and compares each with its               *)
(* configuration; that of all of them it makes one verdict.                *)
(***************************************************************************)
EXTENDS JsonTrees

CONSTANTS
  Runs,
  Names,       \* the objects' names
  None,
  Place,       \* the place of a name in the alphabetical order
  Unmapped,    \* names of kinds that discovery does not know
  Nameless,    \* configured objects without a name
  Typed,       \* names of kinds with a schema
  Bodies,      \* the configurations of one object
  Tags,        \* the values of --gc-tag
  TagKey,      \* the key that stands for the tag's label and annotation
  Configs,     \* what a run compares: functions from names to Bodies
  Strategies,  \* the values of --diff-strategy
  Edits,       \* what others write: [key, value], with None for removing it
  Contents,    \* what others create
  Applied,     \* what they apply with kubectl
  MaxWrites    \* bound: how many writes there are in a behaviour

ASSUME DiffAssumption ==
  /\ Place \in [Names -> Nat]
  /\ \A m, n \in Names : Place[m] = Place[n] => m = n
  /\ \A c \in Configs : DOMAIN c \subseteq Names /\ \A n \in DOMAIN c : c[n] \in Bodies
  /\ MaxWrites \in Nat

\* Bodies are maps, an edit sets a tree, and a default is a leaf.
ASSUME TreesAssumption ==
  /\ MaxDepth \in Nat \ {0} /\ Null \in Empties
  /\ None \notin Bodies
  /\ \A b \in Bodies \cup Contents \cup Applied : IsMap(b) /\ IsTree(b)
  /\ \A e \in Edits : e.value = None \/ IsTree(Map([k \in {e.key} |-> e.value]))
  /\ DOMAIN Defaults \cap Omitted = {}
  /\ \A k \in DOMAIN Defaults :
       IsLeaf(Defaults[k]) /\ WellFormed(Defaults[k]) /\ ~IsNull(Defaults[k])

VARIABLES
  store,   \* [Names -> the object or None]
  run,     \* local state of the runs
  writes,  \* how many writes there were
  owner    \* history: the update that made an object and that nobody has
           \* written after, or None

vars == <<store, run, writes, owner>>

\* The annotations of kubecfg and of kubectl hold what was applied, or None; the
\* body is all else.
Object(body, kubecfg, kubectl) == [body |-> body, kubecfg |-> kubecfg, kubectl |-> kubectl]

Idle == [pc |-> "idle", config |-> <<>>, strategy |-> None, todo |-> {},
         diffFound |-> FALSE, differed |-> {}, excuses |-> {}, quiet |-> FALSE]

Init ==
  /\ store = [n \in Names |-> None]
  /\ run = [r \in Runs |-> Idle]
  /\ writes = 0
  /\ owner = [n \in Names |-> None]

----------------------------------------------------------------------------
\* The runs.

Verdict(s) == IF s.todo # {} THEN "compare" ELSE IF s.diffFound THEN "differs" ELSE "same"

Begin(r) ==
  /\ run[r].pc = "idle"
  /\ \E c \in Configs, strategy \in Strategies :
       LET s == [Idle EXCEPT !.config = c, !.strategy = strategy, !.todo = DOMAIN c,
                             !.quiet = \A n \in DOMAIN c : owner[n] # None /\ owner[n].config = c[n]]
       IN run' = [run EXCEPT ![r] = [s EXCEPT !.pc = Verdict(s)]]
  /\ UNCHANGED <<store, writes, owner>>

Current(r) ==
  CHOOSE n \in run[r].todo : \A m \in run[r].todo : Place[n] <= Place[m]

\* origObject: the annotation of kubecfg, or else that of kubectl.
origObject(o) == IF o.kubecfg # None THEN o.kubecfg ELSE o.kubectl

\* getLiveObjObject: what the configuration is compared with.  An annotated object
\* is compared as a whole, and so with the annotation that no body has.
getLiveObjObject(strategy, config, o) ==
  CASE strategy = "subset"       -> removeFields(config, o.body)
    [] strategy = "last-applied" -> origObject(o)
    [] OTHER                     -> IF origObject(o) = None THEN o.body ELSE o

\* Mutant: the last object decides.
FoundLast(s, different) == different

Found(s, different) == s.diffFound \/ different

Fail(r) == run' = [run EXCEPT ![r].pc = "failed"]

\* What is really different, told without the code's operators.
Differs(strategy, config, o) ==
  \/ o = None
  \/ /\ o # None
     /\ CASE strategy = "subset"       -> ~Holds(config, o.body)
          [] strategy = "last-applied" -> config # (IF o.kubecfg = None THEN o.kubectl ELSE o.kubecfg)
          [] OTHER                     -> config # o.body \/ o.kubecfg # None \/ o.kubectl # None

\* The configuration has a null where the live object does not just lack a key.
NullAmiss(config, o) ==
  \E p \in Paths(config) :
    /\ IsNull(Node(config, p))
    /\ p \in Paths(o.body) \/ Parent(p) \notin Paths(o.body) \/ ~IsMap(Node(o.body, Parent(p)))

\* What may differ after an update that nobody has written after.
Excuses(n, config) ==
  (IF store[n] # None /\ NullAmiss(config, store[n]) THEN {"null"} ELSE {})
    \cup (IF owner[n] # None THEN owner[n].excuses ELSE {})

Compared(r, n, different) ==
  LET s == run[r]
      next == [s EXCEPT !.todo = s.todo \ {n}, !.diffFound = Found(s, different),
                        !.differed = IF Differs(s.strategy, s.config[n], store[n])
                                     THEN s.differed \cup {n} ELSE s.differed,
                        !.excuses = s.excuses \cup Excuses(n, s.config[n])]
  IN run' = [run EXCEPT ![r] = [next EXCEPT !.pc = Verdict(next)]]

\* One object: its kind must be known and it must have a name; Get may fail.
Compare(r) ==
  /\ run[r].pc = "compare"
  /\ LET n == Current(r)
         c == run[r].config[n]
         o == store[n]
     IN \/ Fail(r)
        \/ /\ n \notin Unmapped \cup Nameless /\ o = None
           /\ Compared(r, n, TRUE)
        \/ /\ n \notin Unmapped \cup Nameless /\ o # None
           /\ run[r].strategy = "last-applied" => origObject(o) # None
           /\ Compared(r, n, getLiveObjObject(run[r].strategy, c, o) # c)
  /\ UNCHANGED <<store, writes, owner>>

----------------------------------------------------------------------------
\* Those who write.  A run whose objects are written to is not quiet.

\* Bounds: MaxWrites, and that no tree gets deeper than MaxDepth.
Put(n, o, by) ==
  /\ writes < MaxWrites /\ writes' = writes + 1
  /\ o # None => IsTree(o.body)
  /\ store' = [store EXCEPT ![n] = o]
  /\ owner' = [owner EXCEPT ![n] = IF o = None THEN None ELSE by]
  /\ run' = [r \in Runs |->
               IF n \in run[r].todo THEN [run[r] EXCEPT !.quiet = FALSE] ELSE run[r]]

\* A body that the kind's schema allows: others would be refused.
Allowed(n, body) == n \in Typed => Mergeable(body)

\* With --gc-tag the tag is set first, and so is part of what was applied.
Tagged(c, tag) ==
  IF tag = None THEN c
  ELSE Map([k \in Keys(c) \cup {TagKey} |-> IF k = TagKey THEN Leaf(tag) ELSE At(c)[k]])

Original(o) == IF o.kubecfg = None THEN NoKeys ELSE o.kubecfg

\* What is live after the body `sent` is merged into what there was.
Updated(n, o, sent) == IF o = None THEN Stored(sent)
                       ELSE Stored(Merged(n \in Typed, Original(o), sent, o.body))

\* A merged list may end with members that the configuration does not have: those
\* of others, and the merge keys of dropped ones if the whole list was gone.
Shared(n, o, c) ==
  /\ n \in Typed /\ o # None
  /\ \E p \in Paths(c) \ {<<>>} :
       LET k == p[Len(p)]
           members(v) == IF p \in Paths(v) THEN Members(Node(v, Parent(p)), k) ELSE <<>>
           has(v, m) == Has(k, members(v), m)
           orig == Original(o)
       IN /\ IsMap(Node(c, Parent(p))) /\ IsList(Node(c, p)) /\ k \in DOMAIN MergeKey
          /\ IF p \in Paths(o.body)
               THEN \E i \in DOMAIN members(o.body) :
                      LET m == members(o.body)[i] IN ~has(c, m) /\ ~has(orig, m)
               ELSE \E i \in DOMAIN members(orig) : ~has(c, members(orig)[i])

\* `kubecfg update`: the annotation holds the body as it is sent.
Update(n) ==
  /\ n \notin Unmapped \cup Nameless
  /\ \E c \in Bodies, tag \in Tags \cup {None} :
       LET o == store[n]
           sent == Tagged(c, tag)
           excuses == (IF tag # None THEN {"tag"} ELSE {})
                        \cup (IF Shared(n, o, c) THEN {"shared"} ELSE {})
       IN /\ Allowed(n, c)
          /\ Put(n, Object(Updated(n, o, sent), sent, IF o = None THEN None ELSE o.kubectl),
                 [config |-> c, excuses |-> excuses])

\* External: kubectl keeps an annotation of its own, and that of kubecfg.
KubectlApply(n) ==
  /\ n \notin Unmapped \cup Nameless
  /\ \E c \in Applied :
       LET o == store[n]
           base == IF o = None \/ o.kubectl = None THEN NoKeys ELSE o.kubectl
       IN /\ Allowed(n, c)
          /\ IF o = None THEN Put(n, Object(Stored(c), None, c), None)
             ELSE Put(n, [o EXCEPT !.body = Stored(Merged(n \in Typed, base, c, o.body)),
                                   !.kubectl = c], None)

\* External: people and controllers.
OthersEdit(n) ==
  /\ store[n] # None
  /\ \E e \in Edits :
       LET live == store[n].body
           keys == IF e.value = None THEN Keys(live) \ {e.key} ELSE Keys(live) \cup {e.key}
           body == Map([k \in keys |-> IF k = e.key THEN e.value ELSE At(live)[k]])
       IN body # live /\ Allowed(n, body) /\ Put(n, [store[n] EXCEPT !.body = Stored(body)], None)

OthersCreate(n) ==
  /\ n \notin Unmapped \cup Nameless /\ store[n] = None
  /\ \E body \in Contents : Allowed(n, body) /\ Put(n, Object(Stored(body), None, None), None)

OthersRemove(n) == store[n] # None /\ Put(n, None, None)

Next ==
  \/ \E r \in Runs : Begin(r) \/ Compare(r)
  \/ \E n \in Names : \/ Update(n) \/ KubectlApply(n)
                      \/ OthersEdit(n) \/ OthersCreate(n) \/ OthersRemove(n)

Spec == Init /\ [][Next]_vars

----------------------------------------------------------------------------
\* Properties.

\* A run that ends well has read every object of its configuration, and its
\* verdict is that of the objects as each was when it was read, whatever was
\* written meanwhile: it says that there is a difference if and only if one of
\* them was missing or said something else.
VerdictIsExact ==
  \A r \in Runs : /\ run[r].pc \in {"same", "differs"} => run[r].todo = {}
                  /\ run[r].pc = "same" => run[r].differed = {}
                  /\ run[r].pc = "differs" => run[r].differed # {}

QuietOfSubset(s) ==
  s.quiet /\ s.pc = "differs" /\ s.strategy = "subset" => s.excuses \cap {"null", "shared"} # {}
QuietOfLastApplied(s) ==
  s.quiet /\ s.pc = "differs" /\ s.strategy = "last-applied" => "tag" \in s.excuses

\* Right after an update with the same configuration, neither `subset` nor
\* `last-applied` finds anything, whatever the server has added or left out: except
\* that `last-applied` finds the tag of an update with --gc-tag; and `subset` a null
\* that the update did not enforce, or the server has answered with something,
\* and members of a merged list that others have added or removed with the list.
QuietAfterUpdate ==
  /\ \A r \in Runs : QuietOfSubset(run[r])
  /\ \A r \in Runs : QuietOfLastApplied(run[r])

Dropped(o, c, p) ==
  \E i \in 1 .. Len(p) : LET q == SubSeq(p, 1, i)
                         IN q \in Paths(Original(o)) /\ q \notin Paths(c)

WithinList(c, p) ==
  \E i \in 1 .. Len(p) - 2 : LET q == SubSeq(p, 1, i)
                             IN q \in Paths(c) /\ IsList(Node(c, q))

============================================================================
