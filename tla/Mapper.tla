------------------------------ MODULE Mapper ------------------------------
(***************************************************************************)
(* Who uses the discovery client in an update.  Its one thread looks up    *)
(* REST mappings, waits for CRDs and at the end walks over all resources;  *)
(* lookups and the walk start a goroutine (the Callers named like them)    *)
(* per group version.  client-go's deferred mapper keeps what it made of   *)
(* an earlier answer, on top of the client's own cache.                    *)
(***************************************************************************)
EXTENDS Discovery

CONSTANT Main  \* the thread of the command

ASSUME MapperAssumption ==
  /\ Main \notin GVs /\ GVs \cup {Main} \subseteq Callers
  /\ \A s \in SUBSET Pairs : s # None  \* the walk's result is none before it

VARIABLES
  main,      \* what the thread does
  delegate,  \* the mapper's delegate: built or nil, and what it can map
  walked,    \* the resources that the walk lists, or None before it
  \* History, read by the properties only:
  steady,    \* what has been served ever since the last Invalidate
  faultsAt   \* how many requests had failed by then

mapperVars == <<main, delegate, walked, steady, faultsAt>>
updateVars == <<discoveryVars, mapperVars>>

AtRest == [pc |-> "idle", job |-> "none", pair |-> None, groups |-> {}, result |-> "none"]

\* The goroutines that a lookup or the walk starts do not outlive it.
MapperTypeOK ==
  /\ main \in [pc: {"idle", "groups", "join", "consult", "fresh", "reset", "poll"},
               job: {"none", "lookup", "walk", "poll"}, pair: {None} \cup Pairs,
               groups: SUBSET GVs, result: {"none", "found", "nomatch", "failed", "ok"}]
  /\ delegate \in [built: BOOLEAN, pairs: SUBSET Pairs]
  /\ walked \in {None} \cup SUBSET Pairs
  /\ steady \subseteq Pairs /\ faultsAt \in 0 .. MaxFaults
  /\ \A gv \in GVs : call[gv].pc # "idle" => main.pc = "join" /\ gv \in main.groups

MapperInit ==
  /\ DiscoveryInit
  /\ main = AtRest
  /\ delegate = [built |-> FALSE, pairs |-> {}]
  /\ walked = None
  /\ steady = Serves(served) /\ faultsAt = 0

----------------------------------------------------------------------------
At(label) == main.pc = label
\* The thread's call of the client has returned.
Back == call[Main].pc = "idle"
End(result) == main' = [AtRest EXCEPT !.job = main.job, !.pair = main.pair, !.result = result]

\* getDelegate, and ServerResources in the walk.
AskGroups(job, pair) ==
  /\ main' = [AtRest EXCEPT !.pc = "groups", !.job = job, !.pair = pair]
  /\ Begin(Main, "groups", None)

\* ClientForResource asks for the mapping of a kind.  Once the walk has begun,
\* these are the kinds that it lists.
Lookup(pair) ==
  /\ At("idle")
  /\ walked # None => pair \in walked
  /\ IF delegate.built
     THEN /\ main' = [AtRest EXCEPT !.pc = "consult", !.job = "lookup", !.pair = pair]
          /\ UNCHANGED discoveryVars
     ELSE AskGroups("lookup", pair)
  /\ UNCHANGED <<delegate, walked>>

\* One round of the poll of waitForSchemaChange.
Poll ==
  /\ At("idle") /\ walked = None
  /\ main' = [AtRest EXCEPT !.pc = "poll", !.job = "poll"]
  /\ Begin(Main, "invalidate", None)
  /\ UNCHANGED <<delegate, walked>>

Polled ==
  /\ At("poll") /\ Back
  /\ End("ok")
  /\ UNCHANGED <<discoveryVars, delegate, walked>>

\* walkObjects, once, when everything is applied.
Walk ==
  /\ At("idle") /\ walked = None
  /\ AskGroups("walk", None)
  /\ UNCHANGED <<delegate, walked>>

\* ServerGroupsAndResources has the groups.  No list at all is no error: the
\* mapper can map nothing and the walk lists nothing.
GotGroups ==
  /\ At("groups") /\ Back
  /\ LET groups == answer[Main].groups
     IN \/ /\ answer[Main].status = "failed"
           /\ End("failed")
           /\ walked' = IF main.job = "walk" THEN {} ELSE walked
           /\ UNCHANGED <<discoveryVars, delegate>>
        \/ /\ answer[Main].status = "answered" /\ groups = {}
           /\ IF main.job = "walk"
              THEN End("ok") /\ walked' = {} /\ UNCHANGED delegate
              ELSE /\ main' = [main EXCEPT !.pc = "consult"]
                   /\ delegate' = [built |-> TRUE, pairs |-> {}]
                   /\ UNCHANGED walked
           /\ UNCHANGED discoveryVars
        \/ /\ answer[Main].status = "answered" /\ groups # {}
           /\ main' = [main EXCEPT !.pc = "join", !.groups = groups]
           /\ call' = [c \in Callers |-> IF c \in groups
                                         THEN [pc |-> "waiting", op |-> "resources", gv |-> c]
                                         ELSE call[c]]
           /\ answer' = [c \in Callers |-> IF c \in groups THEN NoAnswer ELSE answer[c]]
           /\ calledAt' = [c \in Callers |-> IF c \in groups THEN tick ELSE calledAt[c]]
           /\ UNCHANGED <<serverVars, clientVars, invalidatedAt, concealed, delegate, walked>>

Got(gv) == answer[gv].status = "answered" /\ answer[gv].entry.err = "none"
Gotten == UNION {{gv} \X answer[gv].entry.kinds : gv \in {g \in main.groups : Got(g)}}

\* Mutant: makes do with the groups that answered.
WalkListsLenient == End("ok") /\ walked' = Gotten

\* walkObjects goes over the lists, unless the request for one has failed.
WalkLists ==
  \/ /\ \A gv \in main.groups : Got(gv)
     /\ End("ok") /\ walked' = Gotten
  \/ /\ \E gv \in main.groups : ~Got(gv)
     /\ End("failed") /\ walked' = {}

\* The goroutines are done.  A group version that failed ends the walk, but
\* GetAPIGroupResources builds the mapper without it.
Join ==
  /\ At("join") /\ \A gv \in main.groups : call[gv].pc = "idle"
  /\ IF main.job = "walk"
     THEN WalkLists /\ UNCHANGED delegate
     ELSE /\ main' = [main EXCEPT !.pc = "consult"]
          /\ delegate' = [built |-> TRUE, pairs |-> Gotten]
          /\ UNCHANGED walked
  /\ UNCHANGED <<discoveryVars>>

\* The delegate maps the kind; otherwise, is the client's cache still valid?
Consult ==
  /\ At("consult")
  /\ IF main.pair \in delegate.pairs
     THEN End("found") /\ UNCHANGED discoveryVars
     ELSE main' = [main EXCEPT !.pc = "fresh"] /\ Begin(Main, "fresh", None)
  /\ UNCHANGED <<delegate, walked>>

GotFresh ==
  /\ At("fresh") /\ Back
  /\ IF answer[Main].status = "fresh"
     THEN End("nomatch") /\ UNCHANGED discoveryVars
     ELSE main' = [main EXCEPT !.pc = "reset"] /\ Begin(Main, "invalidate", None)
  /\ UNCHANGED <<delegate, walked>>

\* Reset drops the delegate, and the lookup starts over.
ResetDone ==
  /\ At("reset") /\ Back
  /\ delegate' = [built |-> FALSE, pairs |-> {}]
  /\ AskGroups("lookup", main.pair)
  /\ UNCHANGED <<walked>>

Client == \E c \in Callers : Enter(c) \/ Work(c)
Thread == Polled \/ GotGroups \/ Join \/ Consult \/ GotFresh \/ ResetDone

MapperNext ==
  /\ \/ Thread \/ Poll \/ Walk
     \/ \E pair \in Pairs : Lookup(pair)
     \/ (Change \/ Client) /\ UNCHANGED <<main, delegate, walked>>
  /\ IF \E c \in Callers : Invalidate(c)
     THEN steady' = Serves(served) /\ faultsAt' = faults
     ELSE steady' = steady \cap Serves(served') /\ UNCHANGED faultsAt

MapperSpec == MapperInit /\ [][MapperNext]_updateVars

\* What is begun goes on: the thread runs, requests return, the lock is fair.
MapperFairness ==
  /\ WF_updateVars(Thread /\ MapperNext)
  /\ \A c \in Callers : WF_updateVars(Work(c) /\ MapperNext) /\ SF_updateVars(Enter(c) /\ MapperNext)
FairMapper == MapperSpec /\ MapperFairness

----------------------------------------------------------------------------
\* Properties.

\* While everything is applied, a kind that the server has been serving since the
\* last Invalidate can be mapped if no request has failed since then, though the
\* mapper holds a delegate that is older, or was made of answers that lacked some
\* kinds: it asks again, because the client is not fresh.
SteadyFound ==
  (faults = faultsAt /\ walked = None /\ main.result = "nomatch") => main.pair \notin steady

\* A walk that reports no error lists every resource that the server has been
\* serving since the last Invalidate, whatever failed before or during it, but for
\* those of groups that client-go leaves out without an error: when the request
\* for the core group, or for the others, is answered with a 403 or a 404.
WalkComplete ==
  (main.job = "walk" /\ main.result = "ok")
    => \A p \in steady : p \in walked \/ p[1] \in concealed

\* Once the server goes on naming some group, every lookup, poll and walk ends.
\* (While it names none, a lookup starts over for ever.)
ThreadReturns == <>[](Listed # {}) => (main.pc # "idle" ~> main.pc = "idle")
=============================================================================
