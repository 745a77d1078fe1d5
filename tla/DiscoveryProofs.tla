-------------------------- MODULE DiscoveryProofs --------------------------
(***************************************************************************)
(* Theorems about Discovery, for any number of callers, group versions,    *)
(* kinds, changes and failures.  The inductive invariant, DiscoveryInv,    *)
(* rests on the lock: who is at work on the cache holds it, so that no     *)
(* Invalidate comes between the requests of a refresh and its result.      *)
(***************************************************************************)
EXTENDS Discovery, TLAPS

\* The lock is held by exactly the caller that is past it.
LockHeld == \A c \in Callers : call[c].pc \in Locked <=> holder = c

\* Resources are asked of a group version; no history is ahead of the server.
Asked == \A c \in Callers : call[c].op = "resources" => call[c].gv \in GVs
Dated == invalidatedAt <= tick /\ \A c \in Callers : calledAt[c] <= tick

\* A refresh asks for the group versions that it lists, and for no others, and
\* began after the last Invalidate.
Fetching ==
  \A c \in Callers : Refreshing(c) =>
    /\ \A gv \in GVs : refresh.entries[gv].err # "absent" => gv \in refresh.groups
    /\ refresh.groupsAt >= invalidatedAt

DiscoveryInv ==
  /\ DiscoveryTypeOK
  /\ LockHeld /\ Asked /\ Dated /\ Fetching
  /\ FreshSinceInvalidate
  /\ Complete
  /\ TransientIsLive

----------------------------------------------------------------------------
\* Types.

LEMMA NothingType ==
  /\ NoEntry \in Entry /\ NoEntry.err = "absent"
  /\ NoEntries \in [GVs -> Entry] /\ \A gv \in GVs : NoEntries[gv] = NoEntry
  /\ Nothing \in Fetched /\ Nothing.groups = {} /\ Nothing.entries = NoEntries
  /\ Idle \in Call /\ Idle.pc = "idle" /\ Idle.op = "none" /\ NoAnswer \in Answer
<1>1. NoEntry \in Entry /\ NoEntry.err = "absent"
  BY DiscoveryAssumption DEF NoEntry, Entry
<1>2. NoEntries \in [GVs -> Entry] /\ \A gv \in GVs : NoEntries[gv] = NoEntry
  BY <1>1 DEF NoEntries
<1>3. Nothing \in Fetched /\ Nothing.groups = {} /\ Nothing.entries = NoEntries
  BY <1>2, DiscoveryAssumption DEF Nothing, Fetched
<1>4. Idle \in Call /\ Idle.pc = "idle" /\ Idle.op = "none"
  BY DEF Idle, Call
<1>5. NoAnswer \in Answer
  BY <1>1, DiscoveryAssumption DEF NoAnswer, Answer
<1> QED
  BY <1>1, <1>2, <1>3, <1>4, <1>5

\* A reply is an entry that is dated now, and never absent.
LEMMA ReplyType ==
  ASSUME DiscoveryTypeOK, NEW gv \in GVs, NEW f
  PROVE  /\ Reply(gv, f) \in Entry /\ Reply(gv, f).at = tick
         /\ Reply(gv, f).err \in {"none", "transient", "permanent"}
<1>1. served[gv] \in {None} \cup SUBSET Kinds /\ tick \in 0 .. MaxChanges
  BY DEF DiscoveryTypeOK
<1>2. CASE f = "ok" /\ served[gv] \notin {None, {}}
  <2>1. Reply(gv, f) = [kinds |-> served[gv], err |-> "none", at |-> tick]
    BY <1>2 DEF Reply
  <2> QED
    BY <1>1, <1>2, <2>1 DEF Entry
<1>3. CASE ~(f = "ok" /\ served[gv] \notin {None, {}})
  <2>1. \/ Reply(gv, f) = [kinds |-> {}, err |-> "transient", at |-> tick]
        \/ Reply(gv, f) = [kinds |-> {}, err |-> "permanent", at |-> tick]
    BY <1>3 DEF Reply
  <2> QED
    BY <1>1, <2>1 DEF Entry
<1> QED
  BY <1>2, <1>3

\* What a request leaves of the number of failures.
LEMMA OutcomeType ==
  ASSUME DiscoveryTypeOK, NEW f, Outcome(f)
  PROVE  faults' \in 0 .. MaxFaults
BY DiscoveryAssumption DEF Outcome, DiscoveryTypeOK

LEMMA InitInv == DiscoveryInit => DiscoveryInv
<1> SUFFICES ASSUME DiscoveryInit
             PROVE  DiscoveryInv
  OBVIOUS
<1>1. /\ cache.valid = FALSE /\ cache.data = Nothing /\ refresh = Nothing /\ holder = None
      /\ tick = 0 /\ faults = 0 /\ invalidatedAt = 0
      /\ \A c \in Callers : call[c] = Idle /\ answer[c] = NoAnswer /\ calledAt[c] = 0
  BY DEF DiscoveryInit
<1>2. DiscoveryTypeOK
  BY NothingType, DiscoveryAssumption DEF DiscoveryInit, DiscoveryTypeOK
<1>3. LockHeld /\ Asked /\ Dated /\ Fetching
  BY <1>1, NothingType, DiscoveryAssumption DEF LockHeld, Asked, Dated, Fetching, Pc, Refreshing, Locked
<1>4. FreshSinceInvalidate
  BY <1>1, NothingType DEF FreshSinceInvalidate, NotOlder, Pc, Refreshing
<1>5. Complete /\ TransientIsLive
  BY <1>1, NothingType DEF Complete, TransientIsLive, NoAnswer, Pc, Refreshing
<1> QED
  BY <1>2, <1>3, <1>4, <1>5 DEF DiscoveryInv

----------------------------------------------------------------------------
\* The steps.

\* The server changes: time goes on.
LEMMA ChangeInv == DiscoveryInv /\ Change => DiscoveryInv'
<1> SUFFICES ASSUME DiscoveryInv, Change
             PROVE  DiscoveryInv'
  OBVIOUS
<1>1. /\ tick' \in 0 .. MaxChanges /\ tick' = tick + 1 /\ tick \in 0 .. MaxChanges
      /\ served' \in [GVs -> {None} \cup SUBSET Kinds]
      /\ UNCHANGED <<faults, cache, refresh, holder, call, answer, invalidatedAt, calledAt, concealed>>
  BY DiscoveryAssumption DEF Change, clientVars, DiscoveryInv, DiscoveryTypeOK
<1>2. DiscoveryTypeOK'
  BY <1>1 DEF DiscoveryInv, DiscoveryTypeOK
<1>3. Dated'
  BY <1>1 DEF DiscoveryInv, Dated, DiscoveryTypeOK
<1> QED
  BY <1>1, <1>2, <1>3 DEF DiscoveryInv, LockHeld, Asked, Fetching, Pc, Refreshing, FreshSinceInvalidate,
                          NotOlder, Complete, TransientIsLive

\* A call begins.
LEMMA BeginInv ==
  ASSUME DiscoveryInv, NEW c \in Callers,
         NEW op \in {"groups", "resources", "fresh", "invalidate", "markStale"},
         NEW gv \in GVs \cup {None}, op = "resources" => gv \in GVs,
         Begin(c, op, gv)
  PROVE  DiscoveryInv'
<1>1. /\ UNCHANGED <<served, tick, faults, cache, refresh, holder, invalidatedAt, concealed>>
      /\ call' = [call EXCEPT ![c] = [pc |-> "waiting", op |-> op, gv |-> gv]]
      /\ answer' = [answer EXCEPT ![c] = NoAnswer] /\ calledAt' = [calledAt EXCEPT ![c] = tick]
      /\ call[c].pc = "idle" /\ call \in [Callers -> Call] /\ answer \in [Callers -> Answer]
  BY DEF Begin, serverVars, clientVars, Pc, Refreshing, DiscoveryInv, DiscoveryTypeOK
<1>2. [pc |-> "waiting", op |-> op, gv |-> gv] \in Call
  BY DEF Call
<1>3. DiscoveryTypeOK'
  BY <1>1, <1>2, NothingType DEF DiscoveryInv, DiscoveryTypeOK
<1>4. LockHeld' /\ Asked' /\ Fetching'
  BY <1>1 DEF DiscoveryInv, LockHeld, Locked, Asked, Fetching, Pc, Refreshing
<1>5. Dated'
  BY <1>1 DEF DiscoveryInv, Dated, DiscoveryTypeOK
<1>6. FreshSinceInvalidate' /\ Complete'
  BY <1>1 DEF DiscoveryInv, FreshSinceInvalidate, NotOlder, Complete, Pc, Refreshing
<1>7. TransientIsLive'
  BY <1>1 DEF DiscoveryInv, TransientIsLive, NoAnswer, Pc, Refreshing, DiscoveryTypeOK
<1> QED
  BY <1>3, <1>4, <1>5, <1>6, <1>7 DEF DiscoveryInv

\* Who is past the lock holds it, and then nobody else is.
LEMMA Alone ==
  ASSUME DiscoveryInv, NEW c \in Callers
  PROVE  /\ call[c].pc \in Locked => \A d \in Callers \ {c} : call[d].pc \notin Locked
         /\ holder = None => \A d \in Callers : call[d].pc \notin Locked
BY DiscoveryAssumption DEF DiscoveryInv, LockHeld

\* A call that returns leaves nobody past the lock.
LEMMA ReturnStep ==
  ASSUME DiscoveryInv, NEW c \in Callers,
         \A d \in Callers \ {c} : call[d].pc \notin Locked,
         NEW status \in {"failed", "missing", "answered", "fresh", "unfresh"},
         NEW groups \in SUBSET GVs, NEW entry \in Entry, NEW at \in 0 .. MaxChanges,
         status = "answered" /\ entry.err = "transient" => at = tick,
         UNCHANGED <<tick, calledAt>>,
         Return(c, status, groups, entry, at)
  PROVE  /\ call' \in [Callers -> Call] /\ answer' \in [Callers -> Answer] /\ holder' = None
         /\ LockHeld' /\ Asked' /\ TransientIsLive'
         /\ \A d \in Callers : ~Refreshing(d)'
<1>1. /\ call \in [Callers -> Call] /\ answer \in [Callers -> Answer]
      /\ tick \in 0 .. MaxChanges /\ calledAt \in [Callers -> 0 .. MaxChanges]
  BY DEF DiscoveryInv, DiscoveryTypeOK
<1>2. /\ call' = [call EXCEPT ![c] = Idle] /\ holder' = None
      /\ answer' = [answer EXCEPT ![c] = [status |-> status, groups |-> groups,
                                          entry |-> entry, at |-> at]]
  BY DEF Return
<1>3. [status |-> status, groups |-> groups, entry |-> entry, at |-> at] \in Answer
  BY DEF Answer
<1>4. call' \in [Callers -> Call] /\ answer' \in [Callers -> Answer]
  BY <1>1, <1>2, <1>3, NothingType
<1>5. \A d \in Callers : call'[d].pc \notin Locked
  BY <1>1, <1>2, NothingType DEF Locked
<1>6. LockHeld'
  BY <1>2, <1>5, DiscoveryAssumption DEF LockHeld
<1>7. Asked'
  BY <1>1, <1>2, NothingType DEF Asked, DiscoveryInv
<1>8. \A d \in Callers : ~Refreshing(d)'
  BY <1>5 DEF Pc, Refreshing, Locked
<1>9. TransientIsLive'
  <2> SUFFICES ASSUME NEW d \in Callers, answer'[d].status = "answered",
                      answer'[d].entry.err = "transient"
               PROVE  answer'[d].at >= calledAt'[d] \/ ~Pc(d, "idle")'
    BY DEF TransientIsLive
  <2>1. CASE d = c
    <3>1. answer'[d] = [status |-> status, groups |-> groups, entry |-> entry, at |-> at]
      BY <1>1, <1>2, <2>1
    <3>2. at = tick /\ answer'[d].at = tick
      BY <3>1
    <3>3. calledAt[d] <= tick
      BY DEF DiscoveryInv, Dated
    <3> QED
      BY <1>1, <3>2, <3>3
  <2>2. CASE d # c
    BY <1>1, <1>2, <2>2 DEF DiscoveryInv, TransientIsLive, Pc, Refreshing
  <2> QED
    BY <2>1, <2>2
<1> QED
  BY <1>2, <1>4, <1>6, <1>7, <1>8, <1>9

\* The lock is taken.
LEMMA AcquireInv ==
  ASSUME DiscoveryInv, NEW c \in Callers, Acquire(c)
  PROVE  DiscoveryInv'
<1>1. /\ UNCHANGED <<served, tick, faults, cache, refresh, answer, invalidatedAt, calledAt, concealed>>
      /\ call[c].pc = "waiting" /\ holder = None /\ holder' = c
      /\ call \in [Callers -> Call] /\ cache.valid \in BOOLEAN
  BY DEF Acquire, serverVars, Pc, Refreshing, DiscoveryInv, DiscoveryTypeOK
<1>2. PICK label \in {"lookup", "refresh"} : call' = [call EXCEPT ![c].pc = label]
  BY DEF Acquire, Goto
<1>3. call' \in [Callers -> Call]
  BY <1>1, <1>2 DEF Call, Locked
<1>4. DiscoveryTypeOK'
  BY <1>1, <1>3 DEF DiscoveryInv, DiscoveryTypeOK
<1>5. \A d \in Callers : call[d].pc \notin Locked
  BY <1>1, Alone
<1>6. /\ \A d \in Callers \ {c} : call'[d] = call[d]
      /\ call'[c].pc = label /\ call'[c].op = call[c].op /\ call'[c].gv = call[c].gv
  BY <1>1, <1>2 DEF Call
<1>7. LockHeld' /\ Asked' /\ \A d \in Callers : ~Refreshing(d)'
  BY <1>1, <1>2, <1>5, <1>6 DEF LockHeld, Asked, Pc, Refreshing, Locked, DiscoveryInv
<1>8. Dated' /\ Complete' /\ NotOlder(cache.data)'
  BY <1>1 DEF DiscoveryInv, Dated, Complete, FreshSinceInvalidate, NotOlder
<1>9. TransientIsLive'
  BY <1>1, <1>2, <1>6 DEF DiscoveryInv, TransientIsLive, Pc, Refreshing
<1> QED
  BY <1>4, <1>7, <1>8, <1>9 DEF DiscoveryInv, Fetching, FreshSinceInvalidate

\* Fresh only looks.
LEMMA FreshInv ==
  ASSUME DiscoveryInv, NEW c \in Callers, Fresh(c)
  PROVE  DiscoveryInv'
<1>1. /\ UNCHANGED <<served, tick, faults, cache, refresh, invalidatedAt, calledAt, concealed>>
      /\ holder = None /\ tick \in 0 .. MaxChanges
  BY DEF Fresh, serverVars, DiscoveryInv, DiscoveryTypeOK
<1>2. PICK status \in {"fresh", "unfresh"} : Return(c, status, {}, NoEntry, tick)
  BY DEF Fresh, Freshness
<1>3. /\ call' \in [Callers -> Call] /\ answer' \in [Callers -> Answer] /\ holder' = None
      /\ LockHeld' /\ Asked' /\ TransientIsLive' /\ \A d \in Callers : ~Refreshing(d)'
  BY <1>1, <1>2, Alone, NothingType, ReturnStep
<1>4. DiscoveryTypeOK'
  BY <1>1, <1>3 DEF DiscoveryInv, DiscoveryTypeOK
<1>5. Dated' /\ Complete' /\ NotOlder(cache.data)'
  BY <1>1 DEF DiscoveryInv, Dated, Complete, FreshSinceInvalidate, NotOlder
<1> QED
  BY <1>3, <1>4, <1>5 DEF DiscoveryInv, Fetching, FreshSinceInvalidate

\* Invalidate empties the cache while nobody refreshes it.
LEMMA InvalidateInv ==
  ASSUME DiscoveryInv, NEW c \in Callers, Invalidate(c)
  PROVE  DiscoveryInv'
<1>1. /\ UNCHANGED <<served, tick, faults, refresh, calledAt, concealed>> /\ invalidatedAt' = tick
      /\ cache' = [valid |-> FALSE, data |-> Nothing]
      /\ holder = None /\ tick \in 0 .. MaxChanges
  BY DEF Invalidate, serverVars, DiscoveryInv, DiscoveryTypeOK
<1>2. /\ call' \in [Callers -> Call] /\ answer' \in [Callers -> Answer] /\ holder' = None
      /\ LockHeld' /\ Asked' /\ TransientIsLive' /\ \A d \in Callers : ~Refreshing(d)'
  BY <1>1, Alone, NothingType, ReturnStep DEF Invalidate
<1>3. DiscoveryTypeOK'
  BY <1>1, <1>2, NothingType DEF DiscoveryInv, DiscoveryTypeOK
<1>4. Dated'
  BY <1>1 DEF DiscoveryInv, Dated
<1>5. Complete' /\ NotOlder(cache.data)'
  BY <1>1, NothingType DEF Complete, NotOlder
<1> QED
  BY <1>2, <1>3, <1>4, <1>5 DEF DiscoveryInv, Fetching, FreshSinceInvalidate

\* MarkStale keeps what is cached.
LEMMA MarkStaleInv ==
  ASSUME DiscoveryInv, NEW c \in Callers, MarkStale(c)
  PROVE  DiscoveryInv'
<1>1. /\ UNCHANGED <<served, tick, faults, refresh, invalidatedAt, calledAt, concealed>>
      /\ cache' = [cache EXCEPT !.valid = FALSE] /\ cache \in [valid: BOOLEAN, data: Fetched]
      /\ holder = None /\ tick \in 0 .. MaxChanges
  BY DEF MarkStale, serverVars, DiscoveryInv, DiscoveryTypeOK
<1>2. /\ call' \in [Callers -> Call] /\ answer' \in [Callers -> Answer] /\ holder' = None
      /\ LockHeld' /\ Asked' /\ TransientIsLive' /\ \A d \in Callers : ~Refreshing(d)'
  BY <1>1, Alone, NothingType, ReturnStep DEF MarkStale
<1>3. cache' \in [valid: BOOLEAN, data: Fetched] /\ cache'.valid = FALSE /\ cache'.data = cache.data
  BY <1>1
<1>4. DiscoveryTypeOK'
  BY <1>1, <1>2, <1>3 DEF DiscoveryInv, DiscoveryTypeOK
<1>5. Dated' /\ Complete' /\ NotOlder(cache.data)'
  BY <1>1, <1>3 DEF DiscoveryInv, Dated, Complete, FreshSinceInvalidate, NotOlder
<1> QED
  BY <1>2, <1>4, <1>5 DEF DiscoveryInv, Fetching, FreshSinceInvalidate

\* A call that goes on past the lock.
LEMMA GotoStep ==
  ASSUME DiscoveryInv, NEW c \in Callers, call[c].pc \in Locked,
         NEW label \in {"apis", "fetching", "lookup"}, Goto(c, label),
         UNCHANGED <<tick, holder, answer, calledAt>>
  PROVE  /\ call' \in [Callers -> Call] /\ LockHeld' /\ Asked' /\ TransientIsLive'
         /\ \A d \in Callers : Refreshing(d)' => d = c /\ label # "lookup"
<1>1. call \in [Callers -> Call] /\ \A d \in Callers \ {c} : call[d].pc \notin Locked
  BY Alone DEF DiscoveryInv, DiscoveryTypeOK
<1>2. call' \in [Callers -> Call]
  BY <1>1 DEF Goto, Call, Locked
<1>3. /\ \A d \in Callers \ {c} : call'[d] = call[d]
      /\ call'[c].pc = label /\ call'[c].op = call[c].op /\ call'[c].gv = call[c].gv
  BY <1>1 DEF Goto, Call
<1>4. LockHeld' /\ Asked'
  BY <1>1, <1>3 DEF LockHeld, Asked, Locked, DiscoveryInv
<1>5. TransientIsLive'
  BY <1>1, <1>3 DEF TransientIsLive, Pc, DiscoveryInv, Locked
<1>6. \A d \in Callers : Refreshing(d)' => d = c /\ label # "lookup"
  BY <1>1, <1>3 DEF Refreshing, Locked
<1> QED
  BY <1>2, <1>4, <1>5, <1>6

\* The first request for groups: an error, or what a refresh begins with.
LEMMA FetchCoreInv ==
  ASSUME DiscoveryInv, NEW c \in Callers, FetchCore(c)
  PROVE  DiscoveryInv'
<1>1. /\ UNCHANGED <<served, tick, cache, invalidatedAt, calledAt>> /\ call[c].pc = "refresh"
      /\ tick \in 0 .. MaxChanges /\ invalidatedAt \in 0 .. MaxChanges /\ invalidatedAt <= tick
  BY DEF FetchCore, Pc, DiscoveryInv, DiscoveryTypeOK, Dated
<1>2. \A d \in Callers \ {c} : call[d].pc \notin Locked
  BY <1>1, Alone DEF Locked
<1>3. PICK f \in {"ok"} \cup Faults, groups \in SUBSET GVs :
        /\ Outcome(f)
        /\ \/ Fail(c) /\ UNCHANGED <<refresh, concealed>>
           \/ /\ refresh' = [groups |-> groups, groupsAt |-> tick, entries |-> NoEntries]
              /\ concealed' \in {{}, Core}
              /\ Goto(c, "apis")
              /\ UNCHANGED <<holder, answer>>
  <2>1. Listed \cap Core \in SUBSET GVs /\ {} \in SUBSET GVs
    BY DEF Listed
  <2> QED
    BY <2>1 DEF FetchCore
<1>4. faults' \in 0 .. MaxFaults
  BY <1>3, OutcomeType DEF DiscoveryInv
<1>5. Dated' /\ Complete' /\ NotOlder(cache.data)'
  BY <1>1 DEF DiscoveryInv, Dated, Complete, FreshSinceInvalidate, NotOlder
<1>6. CASE Fail(c) /\ UNCHANGED <<refresh, concealed>>
  <2>1. /\ call' \in [Callers -> Call] /\ answer' \in [Callers -> Answer] /\ holder' = None
        /\ LockHeld' /\ Asked' /\ TransientIsLive' /\ \A d \in Callers : ~Refreshing(d)'
    BY <1>1, <1>2, <1>6, NothingType, ReturnStep DEF Fail
  <2>2. DiscoveryTypeOK'
    BY <1>1, <1>4, <1>6, <2>1 DEF DiscoveryInv, DiscoveryTypeOK
  <2> QED
    BY <1>5, <2>1, <2>2 DEF DiscoveryInv, Fetching, FreshSinceInvalidate
<1>7. CASE /\ refresh' = [groups |-> groups, groupsAt |-> tick, entries |-> NoEntries]
           /\ concealed' \in {{}, Core}
           /\ Goto(c, "apis")
           /\ UNCHANGED <<holder, answer>>
  <2>1. call' \in [Callers -> Call] /\ LockHeld' /\ Asked' /\ TransientIsLive'
    BY <1>1, <1>7, GotoStep DEF Locked
  <2>2. refresh' \in Fetched
    BY <1>1, <1>7, NothingType DEF Fetched
  <2>3. DiscoveryTypeOK'
    BY <1>1, <1>4, <1>7, <2>1, <2>2, DiscoveryAssumption DEF DiscoveryInv, DiscoveryTypeOK
  <2>4. Fetching' /\ NotOlder(refresh)'
    BY <1>1, <1>7, NothingType DEF Fetching, NotOlder
  <2> QED
    BY <1>5, <2>1, <2>3, <2>4 DEF DiscoveryInv, FreshSinceInvalidate
<1> QED
  BY <1>3, <1>6, <1>7

\* The second: an error, no groups at all, or the start of the fetching.
LEMMA FetchGroupsInv ==
  ASSUME DiscoveryInv, NEW c \in Callers, FetchGroups(c)
  PROVE  DiscoveryInv'
<1>1. /\ UNCHANGED <<served, tick, cache, invalidatedAt, calledAt>> /\ call[c].pc = "apis"
      /\ tick \in 0 .. MaxChanges /\ invalidatedAt \in 0 .. MaxChanges /\ invalidatedAt <= tick
      /\ refresh \in Fetched /\ refresh.groups \in SUBSET GVs /\ concealed \subseteq GVs
  BY DEF FetchGroups, Pc, DiscoveryInv, DiscoveryTypeOK, Dated, Fetched
<1>2. \A d \in Callers \ {c} : call[d].pc \notin Locked
  BY <1>1, Alone DEF Locked
<1>3. PICK f \in {"ok"} \cup Faults, groups \in SUBSET GVs :
        /\ Outcome(f)
        /\ refresh.groups \subseteq groups
        /\ \/ Fail(c) /\ refresh' = Nothing
           \/ Goto(c, "lookup") /\ refresh' = Nothing /\ UNCHANGED <<holder, answer>>
           \/ /\ refresh' = [refresh EXCEPT !.groups = groups]
              /\ Goto(c, "fetching")
              /\ UNCHANGED <<holder, answer>>
        /\ concealed' \in {concealed, concealed \cup (GVs \ Core)}
  <2>1. PICK f \in {"ok"} \cup Faults :
          LET groups == refresh.groups \cup (IF f = "ok" THEN Listed \ Core ELSE {})
          IN /\ Outcome(f)
             /\ \/ Fail(c) /\ refresh' = Nothing
                \/ Goto(c, "lookup") /\ refresh' = Nothing /\ UNCHANGED <<holder, answer>>
                \/ /\ refresh' = [refresh EXCEPT !.groups = groups]
                   /\ Goto(c, "fetching")
                   /\ UNCHANGED <<holder, answer>>
             /\ concealed' \in {concealed, concealed \cup (GVs \ Core)}
    BY DEF FetchGroups
  <2>2. Listed \subseteq GVs
    BY DEF Listed
  <2>3. PICK groups : groups = refresh.groups \cup (IF f = "ok" THEN Listed \ Core ELSE {})
    OBVIOUS
  <2>4. groups \in SUBSET GVs /\ refresh.groups \subseteq groups
    BY <1>1, <2>2, <2>3
  <2> QED
    BY <2>1, <2>3, <2>4
<1>4. faults' \in 0 .. MaxFaults /\ concealed' \subseteq GVs
  BY <1>1, <1>3, OutcomeType DEF DiscoveryInv
<1>5. Dated' /\ Complete' /\ NotOlder(cache.data)'
  BY <1>1 DEF DiscoveryInv, Dated, Complete, FreshSinceInvalidate, NotOlder
<1>6. CASE Fail(c) /\ refresh' = Nothing
  <2>1. /\ call' \in [Callers -> Call] /\ answer' \in [Callers -> Answer] /\ holder' = None
        /\ LockHeld' /\ Asked' /\ TransientIsLive' /\ \A d \in Callers : ~Refreshing(d)'
    BY <1>1, <1>2, <1>6, NothingType, ReturnStep DEF Fail
  <2>2. DiscoveryTypeOK'
    BY <1>1, <1>4, <1>6, <2>1, NothingType DEF DiscoveryInv, DiscoveryTypeOK
  <2> QED
    BY <1>5, <2>1, <2>2 DEF DiscoveryInv, Fetching, FreshSinceInvalidate
<1>7. CASE Goto(c, "lookup") /\ refresh' = Nothing /\ UNCHANGED <<holder, answer>>
  <2>1. /\ call' \in [Callers -> Call] /\ LockHeld' /\ Asked' /\ TransientIsLive'
        /\ \A d \in Callers : ~Refreshing(d)'
    BY <1>1, <1>7, GotoStep DEF Locked
  <2>2. DiscoveryTypeOK'
    BY <1>1, <1>4, <1>7, <2>1, NothingType DEF DiscoveryInv, DiscoveryTypeOK
  <2> QED
    BY <1>5, <2>1, <2>2 DEF DiscoveryInv, Fetching, FreshSinceInvalidate
<1>8. CASE /\ refresh' = [refresh EXCEPT !.groups = groups]
           /\ Goto(c, "fetching")
           /\ UNCHANGED <<holder, answer>>
  <2>1. call' \in [Callers -> Call] /\ LockHeld' /\ Asked' /\ TransientIsLive'
    BY <1>1, <1>8, GotoStep DEF Locked
  <2>2. /\ refresh' \in Fetched /\ refresh'.groups = groups
        /\ refresh'.groupsAt = refresh.groupsAt /\ refresh'.entries = refresh.entries
    BY <1>1, <1>3, <1>8 DEF Fetched
  <2>3. DiscoveryTypeOK'
    BY <1>1, <1>4, <1>8, <2>1, <2>2 DEF DiscoveryInv, DiscoveryTypeOK
  <2>4. /\ \A gv \in GVs : refresh.entries[gv].err # "absent" => gv \in refresh.groups
        /\ refresh.groupsAt >= invalidatedAt
        /\ NotOlder(refresh)
    BY <1>1 DEF DiscoveryInv, Fetching, FreshSinceInvalidate, Refreshing
  <2>5. Fetching' /\ NotOlder(refresh)'
    BY <1>1, <1>3, <2>2, <2>4 DEF Fetching, NotOlder
  <2> QED
    BY <1>5, <2>1, <2>3, <2>5 DEF DiscoveryInv, FreshSinceInvalidate
<1> QED
  BY <1>3, <1>6, <1>7, <1>8

\* One list of resources arrives.
LEMMA FetchOneInv ==
  ASSUME DiscoveryInv, NEW c \in Callers, FetchOne(c)
  PROVE  DiscoveryInv'
<1>1. /\ UNCHANGED <<served, tick, cache, holder, call, answer, invalidatedAt, calledAt, concealed>>
      /\ call[c].pc = "fetching" /\ refresh \in Fetched /\ refresh.entries \in [GVs -> Entry]
      /\ tick \in 0 .. MaxChanges /\ invalidatedAt \in 0 .. MaxChanges /\ invalidatedAt <= tick
  BY DEF FetchOne, Pc, Refreshing, DiscoveryInv, DiscoveryTypeOK, Dated, Fetched
<1>2. PICK gv \in Missing, f \in {"ok"} \cup (Faults \ {"hidden"}) :
        Outcome(f) /\ refresh' = [refresh EXCEPT !.entries[gv] = Reply(gv, f)]
  BY DEF FetchOne
<1>3. gv \in GVs /\ gv \in refresh.groups
  BY <1>1, <1>2 DEF Missing, Fetched
<1>4. Reply(gv, f) \in Entry /\ Reply(gv, f).at = tick
  BY <1>3, ReplyType DEF DiscoveryInv
<1>5. /\ refresh' \in Fetched
      /\ refresh'.groups = refresh.groups /\ refresh'.groupsAt = refresh.groupsAt
      /\ \A g \in GVs : refresh'.entries[g] = IF g = gv THEN Reply(gv, f) ELSE refresh.entries[g]
  BY <1>1, <1>2, <1>3, <1>4 DEF Fetched
<1>6. faults' \in 0 .. MaxFaults
  BY <1>2, OutcomeType DEF DiscoveryInv
<1>7. DiscoveryTypeOK'
  BY <1>1, <1>5, <1>6 DEF DiscoveryInv, DiscoveryTypeOK
<1>8. Fetching'
  BY <1>1, <1>3, <1>5 DEF Fetching, Pc, Refreshing, DiscoveryInv
<1>9. NotOlder(refresh)'
  <2>1. NotOlder(refresh)
    BY <1>1 DEF DiscoveryInv, FreshSinceInvalidate, Pc, Refreshing
  <2> QED
    BY <1>1, <1>4, <1>5, <2>1 DEF NotOlder
<1>10. LockHeld' /\ Asked' /\ Dated' /\ Complete' /\ TransientIsLive' /\ NotOlder(cache.data)'
  BY <1>1 DEF DiscoveryInv, LockHeld, Asked, Dated, Complete, TransientIsLive,
              FreshSinceInvalidate, NotOlder, Pc
<1> QED
  BY <1>7, <1>8, <1>9, <1>10 DEF DiscoveryInv, FreshSinceInvalidate

\* The refresh is over: what it fetched becomes the cache.
LEMMA CommitInv ==
  ASSUME DiscoveryInv, NEW c \in Callers, Commit(c)
  PROVE  DiscoveryInv'
<1>1. /\ UNCHANGED <<served, tick, faults, holder, answer, invalidatedAt, calledAt, concealed>>
      /\ call[c].pc = "fetching" /\ Missing = {} /\ refresh \in Fetched
      /\ cache' = [valid |-> TRUE, data |-> refresh] /\ refresh' = Nothing
      /\ call' = [call EXCEPT ![c].pc = "lookup"] /\ call \in [Callers -> Call]
  BY DEF Commit, Goto, serverVars, Pc, Refreshing, DiscoveryInv, DiscoveryTypeOK
<1>2. \A d \in Callers \ {c} : call[d].pc \notin Locked
  BY <1>1, Alone DEF Locked
<1>3. call' \in [Callers -> Call]
  BY <1>1 DEF Call, Locked
<1>4. DiscoveryTypeOK'
  BY <1>1, <1>3, NothingType DEF DiscoveryInv, DiscoveryTypeOK
<1>5. /\ \A d \in Callers \ {c} : call'[d] = call[d]
      /\ call'[c].pc = "lookup" /\ call'[c].op = call[c].op /\ call'[c].gv = call[c].gv
  BY <1>1 DEF Call
<1>6. LockHeld' /\ Asked' /\ \A d \in Callers : ~Refreshing(d)'
  BY <1>1, <1>2, <1>5 DEF LockHeld, Asked, Pc, Refreshing, Locked, DiscoveryInv
<1>7. Dated' /\ TransientIsLive'
  BY <1>1, <1>5 DEF Dated, TransientIsLive, Pc, Refreshing, DiscoveryInv
<1>8. NotOlder(cache.data)'
  BY <1>1 DEF DiscoveryInv, FreshSinceInvalidate, NotOlder, Pc, Refreshing
<1>9. Complete'
  <2>1. \A gv \in GVs : refresh.entries[gv].err # "absent" => gv \in refresh.groups
    BY <1>1 DEF DiscoveryInv, Fetching, Pc, Refreshing
  <2>2. \A gv \in GVs : gv \in refresh.groups => refresh.entries[gv].err # "absent"
    BY <1>1 DEF Missing
  <2> QED
    BY <1>1, <2>1, <2>2 DEF Complete
<1> QED
  BY <1>4, <1>6, <1>7, <1>8, <1>9 DEF DiscoveryInv, Fetching, FreshSinceInvalidate

\* The groups are answered from the cache.
LEMMA AnswerGroupsInv ==
  ASSUME DiscoveryInv, NEW c \in Callers, AnswerGroups(c)
  PROVE  DiscoveryInv'
<1>1. /\ UNCHANGED <<served, tick, faults, cache, refresh, invalidatedAt, calledAt, concealed>>
      /\ call[c].pc = "lookup" /\ tick \in 0 .. MaxChanges
      /\ cache.data.groups \in SUBSET GVs /\ cache.data.groupsAt \in 0 .. MaxChanges
  BY DEF AnswerGroups, serverVars, Pc, Refreshing, DiscoveryInv, DiscoveryTypeOK, Fetched
<1>2. PICK at \in 0 .. MaxChanges : Return(c, "answered", cache.data.groups, NoEntry, at)
  BY <1>1 DEF AnswerGroups
<1>3. \A d \in Callers \ {c} : call[d].pc \notin Locked
  BY <1>1, Alone DEF Locked
<1>4. NoEntry \in Entry /\ NoEntry.err # "transient"
  BY NothingType
<1>5. /\ call' \in [Callers -> Call] /\ answer' \in [Callers -> Answer] /\ holder' = None
      /\ LockHeld' /\ Asked' /\ TransientIsLive' /\ \A d \in Callers : ~Refreshing(d)'
  BY <1>1, <1>2, <1>3, <1>4, ReturnStep
<1>6. DiscoveryTypeOK'
  BY <1>1, <1>5 DEF DiscoveryInv, DiscoveryTypeOK
<1>7. Dated' /\ Complete' /\ NotOlder(cache.data)'
  BY <1>1 DEF DiscoveryInv, Dated, Complete, FreshSinceInvalidate, NotOlder
<1> QED
  BY <1>5, <1>6, <1>7 DEF DiscoveryInv, Fetching, FreshSinceInvalidate

\* Resources are answered: not there, from the cache, or asked for again.
LEMMA AnswerResourcesInv ==
  ASSUME DiscoveryInv, NEW c \in Callers, AnswerResources(c)
  PROVE  DiscoveryInv'
<1> DEFINE gv    == call[c].gv
           entry == cache.data.entries[gv]
<1>1. /\ UNCHANGED <<served, tick, refresh, invalidatedAt, calledAt, concealed>>
      /\ call[c].pc = "lookup" /\ gv \in GVs
      /\ tick \in 0 .. MaxChanges /\ faults \in 0 .. MaxFaults
      /\ cache \in [valid: BOOLEAN, data: Fetched]
      /\ invalidatedAt \in 0 .. MaxChanges /\ invalidatedAt <= tick
  BY DEF AnswerResources, Pc, Refreshing, DiscoveryInv, DiscoveryTypeOK, Asked, Dated
<1>2. entry \in Entry /\ entry.at \in 0 .. MaxChanges
  BY <1>1 DEF Fetched, Entry
<1>3. \A d \in Callers \ {c} : call[d].pc \notin Locked
  BY <1>1, Alone DEF Locked
<1>4. \/ /\ entry.err = "absent" /\ UNCHANGED <<faults, cache>>
         /\ Return(c, "missing", {}, NoEntry, tick)
      \/ /\ entry.err = "transient"
         /\ \E f \in {"ok"} \cup (Faults \ {"hidden"}) :
              /\ Outcome(f)
              /\ cache' = [cache EXCEPT !.data.entries[gv] = Reply(gv, f)]
              /\ Return(c, "answered", {}, Reply(gv, f), tick)
      \/ /\ entry.err \in {"none", "permanent"} /\ UNCHANGED <<faults, cache>>
         /\ Return(c, "answered", {}, entry, entry.at)
  BY DEF AnswerResources
<1> HIDE DEF gv, entry
<1>5. ASSUME UNCHANGED <<faults, cache>>,
             NEW status \in {"failed", "missing", "answered", "fresh", "unfresh"},
             NEW reply \in Entry, reply.err # "transient", NEW at \in 0 .. MaxChanges,
             Return(c, status, {}, reply, at)
      PROVE  DiscoveryInv'
  <2>1. /\ call' \in [Callers -> Call] /\ answer' \in [Callers -> Answer] /\ holder' = None
        /\ LockHeld' /\ Asked' /\ TransientIsLive' /\ \A d \in Callers : ~Refreshing(d)'
    BY <1>1, <1>3, <1>5, ReturnStep
  <2>2. DiscoveryTypeOK'
    BY <1>1, <1>5, <2>1 DEF DiscoveryInv, DiscoveryTypeOK
  <2>3. Dated' /\ Complete' /\ NotOlder(cache.data)'
    BY <1>1, <1>5 DEF DiscoveryInv, Dated, Complete, FreshSinceInvalidate, NotOlder
  <2> QED
    BY <2>1, <2>2, <2>3 DEF DiscoveryInv, Fetching, FreshSinceInvalidate
<1>6. CASE UNCHANGED <<faults, cache>> /\ Return(c, "missing", {}, NoEntry, tick)
  BY <1>1, <1>5, <1>6, NothingType
<1>7. CASE /\ entry.err \in {"none", "permanent"} /\ UNCHANGED <<faults, cache>>
           /\ Return(c, "answered", {}, entry, entry.at)
  BY <1>2, <1>5, <1>7
<1>8. ASSUME entry.err = "transient", NEW f, Outcome(f),
             cache' = [cache EXCEPT !.data.entries[gv] = Reply(gv, f)],
             Return(c, "answered", {}, Reply(gv, f), tick)
      PROVE  DiscoveryInv'
  <2>1. /\ Reply(gv, f) \in Entry /\ Reply(gv, f).at = tick /\ Reply(gv, f).err # "absent"
        /\ faults' \in 0 .. MaxFaults
    BY <1>1, <1>8, ReplyType, OutcomeType DEF DiscoveryInv
  <2>2. /\ call' \in [Callers -> Call] /\ answer' \in [Callers -> Answer] /\ holder' = None
        /\ LockHeld' /\ Asked' /\ TransientIsLive' /\ \A d \in Callers : ~Refreshing(d)'
    BY <1>1, <1>3, <1>8, <2>1, ReturnStep
  <2>3. /\ cache' \in [valid: BOOLEAN, data: Fetched] /\ cache'.valid = cache.valid
        /\ cache'.data.groups = cache.data.groups /\ cache'.data.groupsAt = cache.data.groupsAt
        /\ \A g \in GVs : cache'.data.entries[g] =
                            IF g = gv THEN Reply(gv, f) ELSE cache.data.entries[g]
    BY <1>1, <1>8, <2>1 DEF Fetched
  <2>4. DiscoveryTypeOK'
    BY <1>1, <2>1, <2>2, <2>3 DEF DiscoveryInv, DiscoveryTypeOK
  <2>5. Dated'
    BY <1>1 DEF DiscoveryInv, Dated
  <2>6. Complete'
    BY <1>1, <1>8, <2>1, <2>3 DEF DiscoveryInv, Complete, entry
  <2>7. NotOlder(cache.data)'
    BY <1>1, <2>1, <2>3 DEF DiscoveryInv, FreshSinceInvalidate, NotOlder
  <2> QED
    BY <2>2, <2>4, <2>5, <2>6, <2>7 DEF DiscoveryInv, Fetching, FreshSinceInvalidate
<1> QED
  BY <1>4, <1>6, <1>7, <1>8

LEMMA NextInv == DiscoveryInv /\ [DiscoveryNext]_discoveryVars => DiscoveryInv'
<1> SUFFICES ASSUME DiscoveryInv, [DiscoveryNext]_discoveryVars
             PROVE  DiscoveryInv'
  OBVIOUS
<1>1. CASE Change
  BY <1>1, ChangeInv
<1>2. ASSUME NEW c \in Callers, Use(c)
      PROVE  DiscoveryInv'
  <2>1. CASE \E op \in {"groups", "fresh", "invalidate", "markStale"} : Begin(c, op, None)
    BY <2>1, BeginInv
  <2>2. CASE \E gv \in GVs : Begin(c, "resources", gv)
    BY <2>2, BeginInv
  <2>3. CASE Enter(c)
    BY <2>3, AcquireInv, FreshInv, InvalidateInv, MarkStaleInv DEF Enter
  <2>4. CASE Work(c)
    BY <2>4, FetchCoreInv, FetchGroupsInv, FetchOneInv, CommitInv, AnswerGroupsInv, AnswerResourcesInv DEF Work
  <2> QED
    BY <1>2, <2>1, <2>2, <2>3, <2>4 DEF Use
<1>3. CASE UNCHANGED discoveryVars
  BY <1>3 DEF discoveryVars, DiscoveryInv, DiscoveryTypeOK, LockHeld, Asked, Dated, Fetching, Pc, Refreshing,
              FreshSinceInvalidate, NotOlder, Complete, TransientIsLive
<1> QED
  BY <1>1, <1>2, <1>3 DEF DiscoveryNext

----------------------------------------------------------------------------
\* The theorems.

\* The lock invariant and what rests on it hold in every reachable state of
\* the discovery client.
THEOREM DiscoveryInvariance == DiscoverySpec => []DiscoveryInv
<1>1. DiscoveryInit => DiscoveryInv
  BY InitInv
<1>2. DiscoveryInv /\ [DiscoveryNext]_discoveryVars => DiscoveryInv'
  BY NextInv
<1> QED
  BY <1>1, <1>2, PTL DEF DiscoverySpec

\* Every variable of the discovery client keeps to its type.
THEOREM DiscoveryTypeCorrect == DiscoverySpec => []DiscoveryTypeOK
<1>1. DiscoveryInv => DiscoveryTypeOK
  BY DEF DiscoveryInv
<1> QED
  BY <1>1, DiscoveryInvariance, PTL

\* Nothing that was fetched before the last Invalidate is in the cache, or on
\* its way there in a refresh that was under way.
THEOREM FreshCache == DiscoverySpec => []FreshSinceInvalidate
<1>1. DiscoveryInv => FreshSinceInvalidate
  BY DEF DiscoveryInv
<1> QED
  BY <1>1, DiscoveryInvariance, PTL

\* A valid cache has an entry for exactly the group versions that it lists,
\* however the goroutines of the refresh came to their ends.
THEOREM CompleteCache == DiscoverySpec => []Complete
<1>1. DiscoveryInv => Complete
  BY DEF DiscoveryInv
<1> QED
  BY <1>1, DiscoveryInvariance, PTL

\* A transient failure that a call answers happened during that call.
THEOREM TransientLive == DiscoverySpec => []TransientIsLive
<1>1. DiscoveryInv => TransientIsLive
  BY DEF DiscoveryInv
<1> QED
  BY <1>1, DiscoveryInvariance, PTL
=============================================================================
