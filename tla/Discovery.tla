------------------------------ MODULE Discovery ------------------------------
(***************************************************************************)
(* memcachedDiscoveryClient: one cache of the API server's groups and of   *)
(* the kinds each group version serves, shared by goroutines (Callers)     *)
(* under one lock.  A refresh fetches the group list, in two requests, and *)
(* then, with one goroutine per group version, the resource lists; the     *)
(* server may change and a request may fail between any two of these steps.*)
(***************************************************************************)
EXTENDS Naturals

CONSTANTS
  GVs,         \* group versions
  Core,        \* those of the legacy group, listed at /api and not at /apis
  Kinds,
  Callers,     \* the goroutines that use the client
  None,        \* no group version, no list of kinds, no holder of the lock
  Faults,      \* what may go wrong with a request
  MaxChanges,  \* bound: how often the server changes
  MaxFaults    \* bound: how many requests fail

ASSUME DiscoveryAssumption ==
  /\ Core \subseteq GVs
  /\ None \notin GVs \cup Callers
  /\ \A s \in SUBSET Kinds : s # None
  \* an error that is transient, one that is not, and one that the caller hides:
  \* a 403 or 404 to one of the requests for groups, for which client-go takes what
  \* the other returned, and NotFound or `not supported` for the OpenAPI document
  /\ Faults \subseteq {"transient", "permanent", "hidden"}
  /\ MaxChanges \in Nat /\ MaxFaults \in Nat

VARIABLES
  served,   \* the server: the kinds of each group version it lists, or None
  tick,     \* how often it has changed
  faults,   \* how many requests have failed
  cache,    \* groupList, groupToServerResources and cacheValid
  refresh,  \* what refreshLocked has fetched so far
  holder,   \* who holds the lock for writing
  call,     \* where each caller is
  answer,   \* what its last call returned
  \* History, read by the properties only:
  invalidatedAt,  \* the tick of the last Invalidate
  calledAt,       \* the tick at which each caller's call began
  concealed       \* the group versions whose list was refused in the last refresh

serverVars == <<served, tick, faults>>
clientVars == <<cache, refresh, holder>>
discoveryVars == <<served, tick, faults, cache, refresh, holder, call, answer,
                   invalidatedAt, calledAt, concealed>>

\* A cacheEntry, and when it was fetched: some kinds, or an error.
Entry == {e \in [kinds: SUBSET Kinds, err: {"absent", "none", "transient", "permanent"},
                 at: 0 .. MaxChanges] : e.err = "none" <=> e.kinds # {}}
NoEntry == [kinds |-> {}, err |-> "absent", at |-> 0]
NoEntries == [gv \in GVs |-> NoEntry]

\* A nil group list is {}: an empty one is never kept.
Fetched == [groups: SUBSET GVs, groupsAt: 0 .. MaxChanges, entries: [GVs -> Entry]]
Nothing == [groups |-> {}, groupsAt |-> 0, entries |-> NoEntries]

Locked == {"refresh", "apis", "fetching", "lookup"}
Call == [pc: {"idle", "waiting"} \cup Locked,
         op: {"none", "groups", "resources", "fresh", "invalidate", "markStale"},
         gv: GVs \cup {None}]
Idle == [pc |-> "idle", op |-> "none", gv |-> None]
Answer == [status: {"none", "failed", "missing", "answered", "fresh", "unfresh"},
           groups: SUBSET GVs, entry: Entry, at: 0 .. MaxChanges]
NoAnswer == [status |-> "none", groups |-> {}, entry |-> NoEntry, at |-> 0]

DiscoveryTypeOK ==
  /\ served \in [GVs -> {None} \cup SUBSET Kinds]
  /\ tick \in 0 .. MaxChanges /\ faults \in 0 .. MaxFaults
  /\ cache \in [valid: BOOLEAN, data: Fetched]
  /\ refresh \in Fetched
  /\ holder \in Callers \cup {None}
  /\ call \in [Callers -> Call] /\ answer \in [Callers -> Answer]
  /\ invalidatedAt \in 0 .. MaxChanges /\ calledAt \in [Callers -> 0 .. MaxChanges]
  /\ concealed \subseteq GVs

Pairs == GVs \X Kinds
Listed == {gv \in GVs : served[gv] # None}
Serves(s) == {gk \in Pairs : s[gk[1]] # None /\ gk[2] \in s[gk[1]]}

DiscoveryInit ==
  /\ served \in [GVs -> {None} \cup SUBSET Kinds]
  /\ tick = 0 /\ faults = 0
  /\ cache = [valid |-> FALSE, data |-> Nothing]
  /\ refresh = Nothing
  /\ holder = None
  /\ call = [c \in Callers |-> Idle]
  /\ answer = [c \in Callers |-> NoAnswer]
  /\ invalidatedAt = 0 /\ calledAt = [c \in Callers |-> 0]
  /\ concealed = {}

----------------------------------------------------------------------------
\* The server, and requests to it.

\* A CRD is established, changed or removed, an aggregated API comes or goes.
Change ==
  /\ tick < MaxChanges /\ tick' = tick + 1
  /\ \E gv \in GVs, s \in {None} \cup SUBSET Kinds :
       /\ s # served[gv]
       /\ served' = [served EXCEPT ![gv] = s]
  /\ UNCHANGED <<faults, clientVars, call, answer, invalidatedAt, calledAt, concealed>>

Outcome(f) ==
  \/ f = "ok" /\ UNCHANGED faults
  \/ f \in Faults /\ faults < MaxFaults /\ faults' = faults + 1

\* Mutant: takes an empty list for an answer.
ReplyEmpty(gv, f) ==
  LET found == f = "ok" /\ served[gv] # None
  IN [kinds |-> IF found THEN served[gv] ELSE {},
      err   |-> IF found THEN "none" ELSE IF f = "transient" THEN f ELSE "permanent",
      at    |-> tick]

\* serverResourcesForGroupVersion: an empty list, and a 404, is an error
\* that does not count as transient.
Reply(gv, f) ==
  LET found == f = "ok" /\ served[gv] \notin {None, {}}
  IN [kinds |-> IF found THEN served[gv] ELSE {},
      err   |-> IF found THEN "none" ELSE IF f = "transient" THEN f ELSE "permanent",
      at    |-> tick]

----------------------------------------------------------------------------
\* The client.

Pc(c, label) == call[c].pc = label
Refreshing(c) == call[c].pc \in {"apis", "fetching"}
Goto(c, label) == call' = [call EXCEPT ![c].pc = label]

\* The call returns and releases the lock.
Return(c, status, groups, entry, at) ==
  /\ call' = [call EXCEPT ![c] = Idle]
  /\ answer' = [answer EXCEPT ![c] = [status |-> status, groups |-> groups,
                                      entry |-> entry, at |-> at]]
  /\ holder' = None

\* A caller calls one of the client's methods, with a group version if need be.
Begin(c, op, gv) ==
  /\ Pc(c, "idle")
  /\ call' = [call EXCEPT ![c] = [pc |-> "waiting", op |-> op, gv |-> gv]]
  /\ answer' = [answer EXCEPT ![c] = NoAnswer]
  /\ calledAt' = [calledAt EXCEPT ![c] = tick]
  /\ UNCHANGED <<serverVars, clientVars, invalidatedAt, concealed>>

\* ServerGroups and ServerResourcesForGroupVersion take the lock.
Acquire(c) ==
  /\ Pc(c, "waiting") /\ call[c].op \in {"groups", "resources"}
  /\ holder = None /\ holder' = c
  /\ Goto(c, IF cache.valid THEN "lookup" ELSE "refresh")
  /\ UNCHANGED <<serverVars, cache, refresh, answer, invalidatedAt, calledAt, concealed>>

\* Mutant: forgets to release the lock.
FailKeepingLock(c) ==
  /\ call' = [call EXCEPT ![c] = Idle]
  /\ answer' = [answer EXCEPT ![c].status = "failed"]
  /\ UNCHANGED holder

\* The groups could not be fetched.
Fail(c) == Return(c, "failed", {}, NoEntry, tick)

\* refreshLocked has ServerGroups ask for the versions of the core group.  A 403
\* or 404 is no error.
FetchCore(c) ==
  /\ Pc(c, "refresh")
  /\ \E f \in {"ok"} \cup Faults :
       /\ Outcome(f)
       /\ \/ /\ f \in {"transient", "permanent"}
             /\ Fail(c)
             /\ UNCHANGED <<refresh, concealed>>
          \/ /\ f \in {"ok", "hidden"}
             /\ refresh' = [groups |-> IF f = "ok" THEN Listed \cap Core ELSE {},
                            groupsAt |-> tick, entries |-> NoEntries]
             /\ concealed' = IF f = "ok" THEN {} ELSE Core
             /\ Goto(c, "apis")
             /\ UNCHANGED <<holder, answer>>
  /\ UNCHANGED <<served, tick, cache, invalidatedAt, calledAt>>

\* Then for the other groups, where a 403 or 404 leaves what the first request
\* brought.  No groups at all end the refresh without an error and leave the
\* cache as it was.
FetchGroups(c) ==
  /\ Pc(c, "apis")
  /\ \E f \in {"ok"} \cup Faults :
       LET groups == refresh.groups \cup (IF f = "ok" THEN Listed \ Core ELSE {})
       IN /\ Outcome(f)
          /\ \/ /\ f \in {"transient", "permanent"}
                /\ Fail(c)
                /\ refresh' = Nothing
             \/ /\ f \in {"ok", "hidden"} /\ groups = {}
                /\ Goto(c, "lookup")
                /\ refresh' = Nothing
                /\ UNCHANGED <<holder, answer>>
             \/ /\ f \in {"ok", "hidden"} /\ groups # {}
                /\ refresh' = [refresh EXCEPT !.groups = groups]
                /\ Goto(c, "fetching")
                /\ UNCHANGED <<holder, answer>>
          /\ concealed' = IF f = "hidden" THEN concealed \cup (GVs \ Core) ELSE concealed
  /\ UNCHANGED <<served, tick, cache, invalidatedAt, calledAt>>

Missing == {gv \in refresh.groups : refresh.entries[gv].err = "absent"}

\* One goroutine of refreshLocked; its failure is kept with the others' lists.
FetchOne(c) ==
  /\ Pc(c, "fetching")
  /\ \E gv \in Missing, f \in {"ok"} \cup (Faults \ {"hidden"}) :
       /\ Outcome(f)
       /\ refresh' = [refresh EXCEPT !.entries[gv] = Reply(gv, f)]
  /\ UNCHANGED <<served, tick, cache, holder, call, answer, invalidatedAt, calledAt, concealed>>

\* Mutant: does not wait for the goroutines.
CommitEarly(c) ==
  /\ Pc(c, "fetching")
  /\ cache' = [valid |-> TRUE, data |-> refresh]
  /\ refresh' = Nothing
  /\ Goto(c, "lookup")
  /\ UNCHANGED <<serverVars, holder, answer, invalidatedAt, calledAt, concealed>>

\* The last goroutine is done.
Commit(c) ==
  /\ Pc(c, "fetching") /\ Missing = {}
  /\ cache' = [valid |-> TRUE, data |-> refresh]
  /\ refresh' = Nothing
  /\ Goto(c, "lookup")
  /\ UNCHANGED <<serverVars, holder, answer, invalidatedAt, calledAt, concealed>>

AnswerGroups(c) ==
  /\ Pc(c, "lookup") /\ call[c].op = "groups"
  /\ Return(c, "answered", cache.data.groups, NoEntry,
            IF cache.data.groups = {} THEN tick ELSE cache.data.groupsAt)
  /\ UNCHANGED <<serverVars, cache, refresh, invalidatedAt, calledAt, concealed>>

\* Mutant: answers a transient failure from the cache.
AnswerAsCached(c) ==
  LET entry == cache.data.entries[call[c].gv]
  IN /\ Pc(c, "lookup") /\ call[c].op = "resources"
     /\ Return(c, "answered", {}, entry, entry.at)
     /\ UNCHANGED <<serverVars, cache, refresh, invalidatedAt, calledAt, concealed>>

\* The cached list; a transient failure is tried again, and the outcome kept.
AnswerResources(c) ==
  LET gv    == call[c].gv
      entry == cache.data.entries[gv]
  IN /\ Pc(c, "lookup") /\ call[c].op = "resources"
     /\ \/ /\ entry.err = "absent"
           /\ Return(c, "missing", {}, NoEntry, tick)
           /\ UNCHANGED <<faults, cache>>
        \/ /\ entry.err = "transient"
           /\ \E f \in {"ok"} \cup (Faults \ {"hidden"}) :
                /\ Outcome(f)
                /\ cache' = [cache EXCEPT !.data.entries[gv] = Reply(gv, f)]
                /\ Return(c, "answered", {}, Reply(gv, f), tick)
        \/ /\ entry.err \in {"none", "permanent"}
           /\ Return(c, "answered", {}, entry, entry.at)
           /\ UNCHANGED <<faults, cache>>
     /\ UNCHANGED <<served, tick, refresh, invalidatedAt, calledAt, concealed>>

\* Mutants: forgets that the cache may have been invalidated, and that it may not.
FreshnessAlways == "fresh"
FreshnessNever == "unfresh"

Freshness == IF cache.valid THEN "fresh" ELSE "unfresh"

Fresh(c) ==
  /\ Pc(c, "waiting") /\ call[c].op = "fresh" /\ holder = None
  /\ Return(c, Freshness, {}, NoEntry, tick)
  /\ UNCHANGED <<serverVars, cache, refresh, invalidatedAt, calledAt, concealed>>

\* Mutant: does not take the lock, so that a refresh under way goes on.
InvalidateUnlocked(c) ==
  /\ Pc(c, "waiting") /\ call[c].op = "invalidate"
  /\ cache' = [valid |-> FALSE, data |-> Nothing]
  /\ call' = [call EXCEPT ![c] = Idle]
  /\ invalidatedAt' = tick
  /\ UNCHANGED <<serverVars, refresh, holder, answer, calledAt, concealed>>

Invalidate(c) ==
  /\ Pc(c, "waiting") /\ call[c].op = "invalidate" /\ holder = None
  /\ cache' = [valid |-> FALSE, data |-> Nothing]
  /\ Return(c, "answered", {}, NoEntry, tick)
  /\ invalidatedAt' = tick
  /\ UNCHANGED <<serverVars, refresh, calledAt, concealed>>

MarkStale(c) ==
  /\ Pc(c, "waiting") /\ call[c].op = "markStale" /\ holder = None
  /\ cache' = [cache EXCEPT !.valid = FALSE]
  /\ Return(c, "answered", {}, NoEntry, tick)
  /\ UNCHANGED <<serverVars, refresh, invalidatedAt, calledAt, concealed>>

Enter(c) == Acquire(c) \/ Fresh(c) \/ Invalidate(c) \/ MarkStale(c)
Work(c) ==
  \/ FetchCore(c) \/ FetchGroups(c) \/ FetchOne(c) \/ Commit(c)
  \/ AnswerGroups(c) \/ AnswerResources(c)

\* A caller may call any method at any time.
Use(c) ==
  \/ \E op \in {"groups", "fresh", "invalidate", "markStale"} : Begin(c, op, None)
  \/ \E gv \in GVs : Begin(c, "resources", gv)
  \/ Enter(c) \/ Work(c)

DiscoveryNext == Change \/ \E c \in Callers : Use(c)

DiscoverySpec == DiscoveryInit /\ [][DiscoveryNext]_discoveryVars

\* Requests return; the lock is handed out fairly (sync.RWMutex lets no one starve).
ClientFairness == \A c \in Callers : WF_discoveryVars(Work(c)) /\ SF_discoveryVars(Enter(c))
FairDiscovery == DiscoverySpec /\ ClientFairness

----------------------------------------------------------------------------
\* Properties.

\* client.go says of Invalidate that "no cached data that is older than the
\* current time is used": whatever is in the cache, or about to be put there
\* by a refresh under way, was fetched after the last Invalidate.
NotOlder(data) ==
  /\ data.groups # {} => data.groupsAt >= invalidatedAt
  /\ \A gv \in GVs : data.entries[gv].err # "absent" => data.entries[gv].at >= invalidatedAt

FreshSinceInvalidate ==
  /\ NotOlder(cache.data)
  /\ \A c \in Callers : Refreshing(c) => NotOlder(refresh)

\* A valid cache is complete: it has an entry for each group version it lists,
\* a failed one if need be, and for no other.
Complete ==
  cache.valid => \A gv \in GVs :
                   gv \in cache.data.groups <=> cache.data.entries[gv].err # "absent"

\* A transient failure is not sticky: one that is answered happened during the
\* call, however long ago the cache was filled.
TransientIsLive ==
  \A c \in Callers :
    (answer[c].status = "answered" /\ answer[c].entry.err = "transient")
      => answer[c].at >= calledAt[c] \/ ~Pc(c, "idle")

\* Every call returns, whatever fails in it and whoever else uses the client.
CallsReturn == \A c \in Callers : Pc(c, "waiting") ~> Pc(c, "idle")
=============================================================================
