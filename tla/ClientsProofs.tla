--------------------------- MODULE ClientsProofs ---------------------------
(***************************************************************************)
(* Theorems about those who use the discovery client: the update (Mapper)  *)
(* and the validation (ValidateRun), for any group versions, kinds,        *)
(* objects, changes and failures.  Both rest on one invariant of the       *)
(* client, ClientFits: what it holds fits the kinds that were served all   *)
(* the time since some moment, and those that were served at any time.     *)
(* At the end they are put together with any other callers, as in MCClients.*)
(***************************************************************************)
EXTENDS DiscoveryProofs, MCClients

\* An entry for gv that was fetched while the kinds in always were served, and
\* none but those in ever, after the first n failures: it lists nothing else, and
\* lacks some of them only if it is an error, and then there was another failure.
EntryFits(gv, e, always, ever, n) ==
  /\ \A k \in e.kinds : <<gv, k>> \in ever
  /\ e.err # "absent" =>
       \A k \in Kinds : <<gv, k>> \in always => \/ e.err = "none" /\ k \in e.kinds
                                                \/ e.err # "none" /\ faults # n

\* What a refused list of groups has left out.
Missed(p, n) == p[1] \in concealed /\ faults # n

DataFits(data, always, ever, n) ==
  /\ data.groups # {} => \A p \in always : p[1] \in data.groups \/ Missed(p, n)
  /\ \A gv \in GVs : EntryFits(gv, data.entries[gv], always, ever, n)

\* A refresh that is under way fits, and so does its result.  A call that finds
\* no cache after its refresh has found no groups, or all of them were left out.
ClientFits(always, ever, n) ==
  /\ always \subseteq Serves(served) /\ Serves(served) \subseteq ever /\ n \in 0 .. faults
  /\ IF cache.valid THEN cache.data.groups # {} ELSE cache.data = Nothing
  /\ DataFits(cache.data, always, ever, n)
  /\ \A c \in Callers :
       /\ call[c].pc \in {"refresh", "apis", "fetching"} => ~cache.valid
       /\ Pc(c, "apis") =>
            /\ refresh.entries = NoEntries
            /\ \A p \in always : p[1] \in Core => p[1] \in refresh.groups \/ Missed(p, n)
       /\ Pc(c, "fetching") => refresh.groups # {} /\ DataFits(refresh, always, ever, n)
       /\ Pc(c, "lookup") => cache.valid \/ \A p \in always : Missed(p, n)

\* What a call for the resources of gv returns.
ResourcesFit(gv, a, always, ever, n) ==
  /\ a.status \in {"answered", "missing", "failed"}
  /\ a.status = "answered" => a.entry.err # "absent" /\ EntryFits(gv, a.entry, always, ever, n)
  /\ a.status # "answered" => faults # n \/ \A k \in Kinds : <<gv, k>> \notin always

----------------------------------------------------------------------------
\* Entries.

\* What fits goes on to fit, when more requests fail, fewer kinds were served
\* all the time, and more at some time.
LEMMA FitsLater ==
  ASSUME NEW gv \in GVs, NEW e, NEW always, NEW ever, NEW n \in 0 .. faults,
         NEW always1 \in SUBSET always, NEW ever1, ever \subseteq ever1,
         faults \in Nat, faults' \in Nat, faults <= faults',
         EntryFits(gv, e, always, ever, n)
  PROVE  EntryFits(gv, e, always1, ever1, n)'
BY DEF EntryFits

LEMMA DataFitsLater ==
  ASSUME NEW data, NEW always, NEW ever, NEW n \in 0 .. faults,
         NEW always1 \in SUBSET always, NEW ever1, ever \subseteq ever1,
         faults \in Nat, faults' \in Nat, faults <= faults', UNCHANGED concealed,
         DataFits(data, always, ever, n)
  PROVE  DataFits(data, always1, ever1, n)'
BY FitsLater DEF DataFits, Missed

\* No entries fit anything.
LEMMA NothingFits ==
  ASSUME NEW always, NEW ever, NEW n
  PROVE  /\ DataFits(Nothing, always, ever, n)
         /\ \A gv \in GVs : EntryFits(gv, NoEntry, always, ever, n)
<1>1. \A gv \in GVs : EntryFits(gv, NoEntry, always, ever, n)
  BY DEF EntryFits, NoEntry
<1> QED
  BY <1>1, NothingType DEF DataFits

\* A reply fits.
LEMMA ReplyFits ==
  ASSUME DiscoveryTypeOK, NEW gv \in GVs, NEW f, Outcome(f),
         NEW always \in SUBSET Serves(served), NEW ever, Serves(served) \subseteq ever,
         NEW n \in 0 .. faults, NEW e, e = Reply(gv, f)
  PROVE  EntryFits(gv, e, always, ever, n)' /\ e.err # "absent"
<1>1. /\ faults \in Nat /\ n \in Nat /\ n <= faults
      /\ served[gv] \in {None} \cup SUBSET Kinds
  BY DEF DiscoveryTypeOK
<1>2. CASE f = "ok" /\ served[gv] \notin {None, {}}
  <2>1. e.kinds = served[gv] /\ e.err = "none"
    BY <1>2 DEF Reply
  <2>2. \A k \in Kinds : k \in served[gv] <=> <<gv, k>> \in Serves(served)
    BY <1>2 DEF Serves, Pairs
  <2> QED
    BY <1>1, <1>2, <2>1, <2>2 DEF EntryFits
<1>3. CASE f # "ok"
  <2>1. e.kinds = {} /\ e.err \in {"transient", "permanent"}
    BY <1>3 DEF Reply
  <2>2. faults' = faults + 1
    BY <1>3 DEF Outcome
  <2>3. faults' # n
    BY <1>1, <2>2
  <2> QED
    BY <2>1, <2>3 DEF EntryFits
<1>4. CASE f = "ok" /\ served[gv] \in {None, {}}
  <2>1. e.kinds = {} /\ e.err \in {"transient", "permanent"}
    BY <1>4 DEF Reply
  <2>2. \A k \in Kinds : <<gv, k>> \notin Serves(served)
    BY <1>4 DEF Serves, Pairs
  <2> QED
    BY <2>1, <2>2 DEF EntryFits
<1> QED
  BY <1>2, <1>3, <1>4

----------------------------------------------------------------------------
\* The client keeps what fits.

LEMMA FaultsGrow ==
  ASSUME DiscoveryTypeOK, NEW f, Outcome(f)
  PROVE  faults \in Nat /\ faults' \in Nat /\ faults <= faults' /\ (f # "ok" => faults' = faults + 1)
BY DEF DiscoveryTypeOK, Outcome

\* More failures, and changes of the server, do not hurt.
LEMMA ServerMovesFit ==
  ASSUME NEW always, NEW ever, NEW n, ClientFits(always, ever, n),
         NEW always1 \in SUBSET (always \cap Serves(served')),
         NEW ever1, ever \cup Serves(served') \subseteq ever1,
         faults \in Nat, faults' \in Nat, faults <= faults',
         UNCHANGED <<cache, refresh, call, concealed>>
  PROVE  ClientFits(always1, ever1, n)'
<1>1. n \in 0 .. faults /\ n \in 0 .. faults' /\ (faults # n => faults' # n)
  BY DEF ClientFits
<1>2. \A data : DataFits(data, always, ever, n) => DataFits(data, always1, ever1, n)'
  BY <1>1, DataFitsLater
<1>3. PICK data, data1 : data = cache.data /\ data1 = refresh
  OBVIOUS
<1>4. DataFits(cache.data, always1, ever1, n)'
  BY <1>2, <1>3 DEF ClientFits
<1>5. \A c \in Callers : Pc(c, "fetching")' => refresh'.groups # {} /\ DataFits(refresh, always1, ever1, n)'
  BY <1>2, <1>3 DEF ClientFits, Pc
<1> QED
  BY <1>1, <1>4, <1>5 DEF ClientFits, Pc, Serves, Missed

\* What a client that is at rest, or moves on, keeps if its data stay.
LEMMA RestFits ==
  ASSUME DiscoveryInv, NEW always, NEW ever, NEW n, ClientFits(always, ever, n),
         UNCHANGED <<served, faults, cache, refresh, concealed>>,
         \A c \in Callers :
           /\ call'[c].pc = "refresh" => call[c].pc = "refresh" \/ ~cache.valid
           /\ call'[c].pc = "apis" => call[c].pc = "apis"
           /\ call'[c].pc = "fetching" => call[c].pc = "fetching"
           /\ call'[c].pc = "lookup" => call[c].pc = "lookup" \/ cache.valid
  PROVE  ClientFits(always, ever, n)'
<1>1. n \in 0 .. faults /\ faults \in Nat
  BY DEF ClientFits, DiscoveryInv, DiscoveryTypeOK
<1>2. \A data : DataFits(data, always, ever, n) => DataFits(data, always, ever, n)'
  BY <1>1, DataFitsLater
<1>3. PICK data, data1 : data = cache.data /\ data1 = refresh
  OBVIOUS
<1>4. DataFits(cache.data, always, ever, n)'
  BY <1>2, <1>3 DEF ClientFits
<1>5. \A c \in Callers : Pc(c, "fetching")' => refresh'.groups # {} /\ DataFits(refresh, always, ever, n)'
  BY <1>2, <1>3 DEF ClientFits, Pc
<1> QED
  BY <1>1, <1>4, <1>5 DEF ClientFits, Serves, Pc, Missed

\* The step of a call that returns.
LEMMA ReturnCalls ==
  ASSUME DiscoveryInv, NEW c \in Callers, NEW status, NEW groups, NEW entry, NEW at,
         Return(c, status, groups, entry, at)
  PROVE  /\ call'[c] = Idle
         /\ answer'[c].status = status /\ answer'[c].groups = groups /\ answer'[c].entry = entry
         /\ \A d \in Callers \ {c} : call'[d] = call[d] /\ answer'[d] = answer[d]
<1>1. /\ call'[c] = Idle /\ answer'[c] = [status |-> status, groups |-> groups,
                                          entry |-> entry, at |-> at]
      /\ \A d \in Callers \ {c} : call'[d] = call[d] /\ answer'[d] = answer[d]
  BY DEF Return, DiscoveryInv, DiscoveryTypeOK
<1> QED
  BY <1>1

LEMMA BeginCalls ==
  ASSUME DiscoveryInv, NEW c \in Callers, NEW op, NEW gv, Begin(c, op, gv)
  PROVE  /\ call[c].pc = "idle" /\ call'[c].pc = "waiting" /\ call'[c].op = op /\ call'[c].gv = gv
         /\ answer'[c] = NoAnswer
         /\ \A d \in Callers \ {c} : call'[d] = call[d] /\ answer'[d] = answer[d]
         /\ UNCHANGED <<served, tick, faults, cache, refresh, holder, concealed>>
<1>1. /\ call[c].pc = "idle" /\ call'[c] = [pc |-> "waiting", op |-> op, gv |-> gv]
      /\ answer'[c] = NoAnswer
      /\ \A d \in Callers \ {c} : call'[d] = call[d] /\ answer'[d] = answer[d]
      /\ UNCHANGED <<served, tick, faults, cache, refresh, holder, concealed>>
  BY DEF Begin, Pc, serverVars, clientVars, DiscoveryInv, DiscoveryTypeOK
<1> QED
  BY <1>1

\* A call that goes on keeps its method and its group version.
LEMMA GotoCalls ==
  ASSUME DiscoveryInv, NEW c \in Callers, NEW label, Goto(c, label)
  PROVE  /\ call'[c].pc = label /\ call'[c].op = call[c].op /\ call'[c].gv = call[c].gv
         /\ \A d \in Callers \ {c} : call'[d] = call[d]
<1>1. call \in [Callers -> Call] /\ call[c] \in Call
  BY DEF DiscoveryInv, DiscoveryTypeOK
<1> QED
  BY <1>1 DEF Goto, Call

LEMMA BeginFits ==
  ASSUME DiscoveryInv, NEW always, NEW ever, NEW n, ClientFits(always, ever, n),
         NEW c \in Callers, NEW op, NEW gv, Begin(c, op, gv)
  PROVE  ClientFits(always, ever, n)'
<1>1. /\ call'[c].pc = "waiting" /\ \A d \in Callers \ {c} : call'[d] = call[d]
      /\ UNCHANGED <<served, tick, faults, cache, refresh, holder, concealed>>
  BY BeginCalls
<1> QED
  BY <1>1, RestFits

LEMMA AcquireFits ==
  ASSUME DiscoveryInv, NEW always, NEW ever, NEW n, ClientFits(always, ever, n),
         NEW c \in Callers, Acquire(c)
  PROVE  ClientFits(always, ever, n)'
<1>1. UNCHANGED <<served, tick, faults, cache, refresh, concealed>>
  BY DEF Acquire, serverVars
<1>2. PICK label : label = (IF cache.valid THEN "lookup" ELSE "refresh") /\ Goto(c, label)
  BY DEF Acquire
<1>3. call'[c].pc = label /\ \A d \in Callers \ {c} : call'[d] = call[d]
  BY <1>2, GotoCalls
<1> QED
  BY <1>1, <1>2, <1>3, RestFits

LEMMA FreshFits ==
  ASSUME DiscoveryInv, NEW always, NEW ever, NEW n, ClientFits(always, ever, n),
         NEW c \in Callers, Fresh(c)
  PROVE  /\ ClientFits(always, ever, n)'
         /\ answer'[c].status = "fresh" <=> cache.valid
         /\ answer'[c].status = "unfresh" <=> ~cache.valid
<1>1. UNCHANGED <<served, tick, faults, cache, refresh, concealed>>
  BY DEF Fresh, serverVars
<1>2. PICK status : status = Freshness /\ Return(c, status, {}, NoEntry, tick)
  BY DEF Fresh
<1>3. call'[c] = Idle /\ answer'[c].status = status /\ \A d \in Callers \ {c} : call'[d] = call[d]
  BY <1>2, ReturnCalls
<1>4. ClientFits(always, ever, n)'
  BY <1>1, <1>3, NothingType, RestFits
<1> QED
  BY <1>2, <1>3, <1>4 DEF Freshness

LEMMA InvalidateFits ==
  ASSUME DiscoveryInv, NEW c \in Callers, Invalidate(c),
         NEW always, always = Serves(served), NEW n, n = faults
  PROVE  ClientFits(always, Pairs, n)'
<1>1. /\ UNCHANGED <<served, tick, faults, refresh>> /\ holder = None /\ holder' = None
      /\ cache' = [valid |-> FALSE, data |-> Nothing]
      /\ faults \in Nat
  BY DEF Invalidate, Return, serverVars, DiscoveryInv, DiscoveryTypeOK
<1>2. DiscoveryInv'
  BY InvalidateInv
<1>3. \A d \in Callers : call'[d].pc \notin Locked
  BY <1>1, <1>2, DiscoveryAssumption DEF DiscoveryInv, LockHeld
<1>4. DataFits(Nothing, always, Pairs, n)'
  BY NothingType DEF DataFits, EntryFits, NoEntry
<1>5. PICK data : data = Nothing
  OBVIOUS
<1>6. DataFits(cache.data, always, Pairs, n)'
  BY <1>1, <1>4
<1>7. Serves(served)' = Serves(served) /\ Serves(served) \subseteq Pairs
  BY <1>1 DEF Serves
<1> QED
  BY <1>1, <1>3, <1>6, <1>7 DEF ClientFits, Pc, Locked

\* The core group: what a list lacks was refused.
LEMMA FetchCoreFits ==
  ASSUME DiscoveryInv, NEW always, NEW ever, NEW n, ClientFits(always, ever, n),
         NEW c \in Callers, FetchCore(c)
  PROVE  /\ ClientFits(always, ever, n)'
         /\ faults \in Nat /\ faults' \in Nat /\ faults <= faults' /\ UNCHANGED <<served, tick, cache>>
         /\ \A d \in Callers \ {c} : call'[d] = call[d] /\ answer'[d] = answer[d]
         /\ \/ call'[c] = Idle /\ answer'[c].status = "failed" /\ faults' # n
            \/ /\ call'[c].pc = "apis"
               /\ call'[c].op = call[c].op /\ call'[c].gv = call[c].gv
<1>1. /\ UNCHANGED <<served, tick, cache>> /\ n \in 0 .. faults /\ call[c].pc = "refresh"
      /\ ~cache.valid /\ cache.data = Nothing
  BY DEF FetchCore, ClientFits, Pc
<1>2. PICK f \in {"ok"} \cup Faults :
        /\ Outcome(f)
        /\ \/ f \in {"transient", "permanent"} /\ Fail(c) /\ UNCHANGED <<refresh, concealed>>
           \/ /\ refresh' = [groups |-> IF f = "ok" THEN Listed \cap Core ELSE {},
                             groupsAt |-> tick, entries |-> NoEntries]
              /\ concealed' = IF f = "ok" THEN {} ELSE Core
              /\ Goto(c, "apis")
              /\ UNCHANGED <<holder, answer>>
  BY DEF FetchCore
<1>3. faults \in Nat /\ faults' \in Nat /\ faults <= faults' /\ (f # "ok" => faults' # n)
  BY <1>1, <1>2, FaultsGrow DEF DiscoveryInv
<1>4. PICK data : data = Nothing
  OBVIOUS
<1>5. DataFits(data, always, ever, n)'
  BY <1>4, NothingType DEF DataFits, EntryFits, NoEntry
<1>6. DataFits(cache.data, always, ever, n)'
  BY <1>1, <1>4, <1>5
<1>7. /\ always \subseteq Serves(served)' /\ Serves(served)' \subseteq ever /\ n \in 0 .. faults'
      /\ IF cache'.valid THEN cache'.data.groups # {} ELSE cache'.data = Nothing
  BY <1>1, <1>3 DEF ClientFits, Serves
<1>8. \A d \in Callers \ {c} : call[d].pc \notin Locked
  BY <1>1, Alone DEF Locked
<1>9. CASE f \in {"transient", "permanent"} /\ Fail(c) /\ UNCHANGED <<refresh, concealed>>
  <2>1. /\ call'[c] = Idle /\ answer'[c].status = "failed"
        /\ \A d \in Callers \ {c} : call'[d] = call[d] /\ answer'[d] = answer[d]
    BY <1>9, ReturnCalls DEF Fail
  <2>2. \A d \in Callers : call'[d].pc \notin Locked
    BY <1>8, <2>1, NothingType DEF Locked
  <2> QED
    BY <1>1, <1>3, <1>6, <1>7, <1>9, <2>1, <2>2 DEF ClientFits, Pc, Locked
<1>10. CASE /\ refresh' = [groups |-> IF f = "ok" THEN Listed \cap Core ELSE {},
                           groupsAt |-> tick, entries |-> NoEntries]
            /\ concealed' = IF f = "ok" THEN {} ELSE Core
            /\ Goto(c, "apis")
            /\ UNCHANGED <<holder, answer>>
  <2>1. /\ call'[c].pc = "apis" /\ call'[c].op = call[c].op /\ call'[c].gv = call[c].gv
        /\ \A d \in Callers \ {c} : call'[d] = call[d]
    BY <1>10, GotoCalls
  <2>2. refresh'.groups = (IF f = "ok" THEN Listed \cap Core ELSE {}) /\ refresh'.entries = NoEntries
    BY <1>10
  <2>3. \A p \in always : p[1] \in Listed
    BY DEF ClientFits, Serves, Listed, Pairs
  <2>4. \A p \in always : p[1] \in Core => p[1] \in refresh'.groups \/ Missed(p, n)'
    BY <1>3, <1>10, <2>2, <2>3 DEF Missed
  <2> QED
    BY <1>1, <1>3, <1>6, <1>7, <1>8, <1>10, <2>1, <2>2, <2>4 DEF ClientFits, Pc, Locked
<1> QED
  BY <1>2, <1>9, <1>10

\* The other groups.
LEMMA FetchGroupsFits ==
  ASSUME DiscoveryInv, NEW always, NEW ever, NEW n, ClientFits(always, ever, n),
         NEW c \in Callers, FetchGroups(c)
  PROVE  /\ ClientFits(always, ever, n)'
         /\ faults \in Nat /\ faults' \in Nat /\ faults <= faults' /\ UNCHANGED <<served, tick, cache>>
         /\ \A d \in Callers \ {c} : call'[d] = call[d] /\ answer'[d] = answer[d]
         /\ \/ call'[c] = Idle /\ answer'[c].status = "failed" /\ faults' # n
            \/ /\ call'[c].pc \in {"lookup", "fetching"}
               /\ call'[c].op = call[c].op /\ call'[c].gv = call[c].gv
<1>1. /\ UNCHANGED <<served, tick, cache>> /\ n \in 0 .. faults /\ call[c].pc = "apis"
      /\ ~cache.valid /\ cache.data = Nothing
      /\ refresh \in Fetched /\ refresh.entries = NoEntries
      /\ \A p \in always : p[1] \in Core => p[1] \in refresh.groups \/ Missed(p, n)
  BY DEF FetchGroups, ClientFits, Pc, DiscoveryInv, DiscoveryTypeOK
<1>2. PICK f \in {"ok"} \cup Faults, groups \in SUBSET GVs :
        /\ groups = refresh.groups \cup (IF f = "ok" THEN Listed \ Core ELSE {})
        /\ Outcome(f)
        /\ \/ f \in {"transient", "permanent"} /\ Fail(c) /\ refresh' = Nothing
           \/ /\ f \in {"ok", "hidden"} /\ groups = {}
              /\ Goto(c, "lookup") /\ refresh' = Nothing /\ UNCHANGED <<holder, answer>>
           \/ /\ f \in {"ok", "hidden"} /\ groups # {}
              /\ refresh' = [refresh EXCEPT !.groups = groups]
              /\ Goto(c, "fetching") /\ UNCHANGED <<holder, answer>>
        /\ concealed' = IF f = "hidden" THEN concealed \cup (GVs \ Core) ELSE concealed
  BY <1>1 DEF FetchGroups, Fetched, Listed
<1>3. /\ faults \in Nat /\ faults' \in Nat /\ faults <= faults' /\ (f # "ok" => faults' # n)
      /\ faults # n => faults' # n
  BY <1>1, <1>2, FaultsGrow DEF DiscoveryInv
<1>4. PICK data : data = Nothing
  OBVIOUS
<1>5. DataFits(data, always, ever, n)'
  BY <1>4, NothingType DEF DataFits, EntryFits, NoEntry
<1>6. DataFits(cache.data, always, ever, n)'
  BY <1>1, <1>4, <1>5
<1>7. /\ always \subseteq Serves(served)' /\ Serves(served)' \subseteq ever /\ n \in 0 .. faults'
      /\ IF cache'.valid THEN cache'.data.groups # {} ELSE cache'.data = Nothing
  BY <1>1, <1>3 DEF ClientFits, Serves
<1>8. \A d \in Callers \ {c} : call[d].pc \notin Locked
  BY <1>1, Alone DEF Locked
\* What is served all the time and not in the list was refused.
<1>9. ASSUME f \in {"ok", "hidden"}, NEW p \in always
      PROVE  p[1] \in groups \/ Missed(p, n)'
  <2>1. p[1] \in Listed /\ p[1] \in GVs
    BY DEF ClientFits, Serves, Listed, Pairs
  <2>2. CASE p[1] \in Core
    BY <2>2, <1>1, <1>2, <1>3 DEF Missed
  <2>3. CASE p[1] \notin Core
    BY <2>1, <2>3, <1>2, <1>3, <1>9 DEF Missed
  <2> QED
    BY <2>2, <2>3
<1>10. CASE f \in {"transient", "permanent"} /\ Fail(c) /\ refresh' = Nothing
  <2>1. /\ call'[c] = Idle /\ answer'[c].status = "failed"
        /\ \A d \in Callers \ {c} : call'[d] = call[d] /\ answer'[d] = answer[d]
    BY <1>10, ReturnCalls DEF Fail
  <2>2. \A d \in Callers : call'[d].pc \notin Locked
    BY <1>8, <2>1, NothingType DEF Locked
  <2> QED
    BY <1>1, <1>3, <1>6, <1>7, <1>10, <2>1, <2>2 DEF ClientFits, Pc, Locked
<1>11. CASE /\ f \in {"ok", "hidden"} /\ groups = {}
            /\ Goto(c, "lookup") /\ refresh' = Nothing /\ UNCHANGED <<holder, answer>>
  <2>1. /\ call'[c].pc = "lookup" /\ call'[c].op = call[c].op /\ call'[c].gv = call[c].gv
        /\ \A d \in Callers \ {c} : call'[d] = call[d]
    BY <1>11, GotoCalls
  <2>2. \A p \in always : Missed(p, n)'
    BY <1>9, <1>11
  <2> QED
    BY <1>1, <1>3, <1>6, <1>7, <1>8, <1>11, <2>1, <2>2 DEF ClientFits, Pc, Locked
<1>12. CASE /\ f \in {"ok", "hidden"} /\ groups # {}
            /\ refresh' = [refresh EXCEPT !.groups = groups]
            /\ Goto(c, "fetching") /\ UNCHANGED <<holder, answer>>
  <2>1. /\ call'[c].pc = "fetching" /\ call'[c].op = call[c].op /\ call'[c].gv = call[c].gv
        /\ \A d \in Callers \ {c} : call'[d] = call[d]
    BY <1>12, GotoCalls
  <2>2. refresh'.groups = groups /\ refresh'.entries = NoEntries
    BY <1>1, <1>12 DEF Fetched
  <2>3. \A gv \in GVs : EntryFits(gv, NoEntry, always, ever, n)'
    BY DEF EntryFits, NoEntry
  <2>4. DataFits(refresh, always, ever, n)'
    BY <1>9, <1>12, <2>2, <2>3, NothingType DEF DataFits
  <2> QED
    BY <1>1, <1>3, <1>6, <1>7, <1>8, <1>12, <2>1, <2>2, <2>4 DEF ClientFits, Pc, Locked
<1> QED
  BY <1>2, <1>10, <1>11, <1>12

LEMMA FetchOneFits ==
  ASSUME DiscoveryInv, NEW always, NEW ever, NEW n, ClientFits(always, ever, n),
         NEW c \in Callers, FetchOne(c)
  PROVE  /\ ClientFits(always, ever, n)'
         /\ faults \in Nat /\ faults' \in Nat /\ faults <= faults'
         /\ UNCHANGED <<served, tick, cache, call, answer>>
<1>1. /\ UNCHANGED <<served, tick, cache, call, answer, concealed>> /\ call[c].pc = "fetching"
      /\ refresh \in Fetched /\ refresh.entries \in [GVs -> Entry] /\ n \in 0 .. faults
  BY DEF FetchOne, Pc, DiscoveryInv, DiscoveryTypeOK, Fetched, ClientFits
<1>2. PICK gv \in Missing, f \in {"ok"} \cup (Faults \ {"hidden"}) :
        Outcome(f) /\ refresh' = [refresh EXCEPT !.entries[gv] = Reply(gv, f)]
  BY DEF FetchOne
<1>3. gv \in GVs
  BY <1>1, <1>2 DEF Missing, Fetched
<1>4. PICK e : e = Reply(gv, f)
  OBVIOUS
<1>5. EntryFits(gv, e, always, ever, n)'
  BY <1>2, <1>3, <1>4, ReplyFits DEF ClientFits, DiscoveryInv
<1>6. /\ refresh'.groups = refresh.groups
      /\ \A g \in GVs : refresh'.entries[g] = IF g = gv THEN e ELSE refresh.entries[g]
  BY <1>1, <1>2, <1>3, <1>4 DEF Fetched
<1>7. faults \in Nat /\ faults' \in Nat /\ faults <= faults' /\ (faults # n => faults' # n)
  BY <1>1, <1>2, FaultsGrow DEF DiscoveryInv
<1>8. n \in 0 .. faults'
  BY <1>1, <1>7
<1>9. \A data : DataFits(data, always, ever, n) => DataFits(data, always, ever, n)'
  BY <1>1, <1>7, DataFitsLater
<1>10. PICK data, data1 : data = cache.data /\ data1 = refresh
  OBVIOUS
<1>11. refresh.groups # {} /\ DataFits(refresh, always, ever, n)
  BY <1>1 DEF ClientFits, Pc
<1>12. DataFits(data1, always, ever, n)' /\ DataFits(cache.data, always, ever, n)'
  BY <1>1, <1>9, <1>10, <1>11 DEF ClientFits
<1>13. DataFits(refresh, always, ever, n)'
  <2>1. \A g \in GVs : EntryFits(g, data1.entries[g], always, ever, n)'
    BY <1>12 DEF DataFits
  <2>2. ASSUME NEW g \in GVs
        PROVE  EntryFits(g, refresh.entries[g], always, ever, n)'
    <3>1. CASE g = gv
      BY <3>1, <1>5, <1>6
    <3>2. CASE g # gv
      BY <3>2, <2>1, <1>6, <1>10
    <3> QED
      BY <3>1, <3>2
  <2>3. refresh'.groups # {} => \A p \in always : p[1] \in refresh'.groups \/ Missed(p, n)'
    BY <1>1, <1>6, <1>7, <1>11 DEF DataFits, Missed
  <2> QED
    BY <2>2, <2>3 DEF DataFits
<1>14. \A d \in Callers : ~Pc(d, "apis") /\ ~Pc(d, "lookup")
  BY <1>1, Alone DEF Pc, Locked
<1> QED
  BY <1>1, <1>6, <1>7, <1>8, <1>11, <1>12, <1>13, <1>14 DEF ClientFits, Pc, Serves

LEMMA CommitFits ==
  ASSUME DiscoveryInv, NEW always, NEW ever, NEW n, ClientFits(always, ever, n),
         NEW c \in Callers, Commit(c)
  PROVE  /\ ClientFits(always, ever, n)'
         /\ call'[c].pc = "lookup" /\ call'[c].op = call[c].op /\ call'[c].gv = call[c].gv
         /\ \A d \in Callers \ {c} : call'[d] = call[d]
         /\ cache'.valid /\ UNCHANGED <<served, tick, faults, answer>>
<1>1. /\ UNCHANGED <<served, tick, faults, answer, concealed>> /\ call[c].pc = "fetching"
      /\ cache' = [valid |-> TRUE, data |-> refresh] /\ refresh' = Nothing /\ Goto(c, "lookup")
      /\ n \in 0 .. faults /\ faults \in Nat
  BY DEF Commit, Pc, serverVars, ClientFits, DiscoveryInv, DiscoveryTypeOK
<1>2. /\ call'[c].pc = "lookup" /\ call'[c].op = call[c].op /\ call'[c].gv = call[c].gv
      /\ \A d \in Callers \ {c} : call'[d] = call[d]
  BY <1>1, GotoCalls
<1>3. \A d \in Callers \ {c} : call[d].pc \notin Locked
  BY <1>1, Alone DEF Locked
<1>4. \A data : DataFits(data, always, ever, n) => DataFits(data, always, ever, n)'
  BY <1>1, DataFitsLater
<1>5. PICK data : data = refresh
  OBVIOUS
<1>6. refresh.groups # {} /\ DataFits(refresh, always, ever, n)
  BY <1>1 DEF ClientFits, Pc
<1>7. DataFits(cache.data, always, ever, n)'
  BY <1>1, <1>4, <1>5, <1>6
<1> QED
  BY <1>1, <1>2, <1>3, <1>6, <1>7 DEF ClientFits, Pc, Serves, Locked

LEMMA AnswerGroupsFits ==
  ASSUME DiscoveryInv, NEW always, NEW ever, NEW n, ClientFits(always, ever, n),
         NEW c \in Callers, AnswerGroups(c)
  PROVE  /\ ClientFits(always, ever, n)'
         /\ UNCHANGED <<served, tick, faults, cache>>
         /\ call'[c] = Idle /\ answer'[c].status = "answered"
         /\ answer'[c].groups = cache.data.groups
         /\ \A d \in Callers \ {c} : call'[d] = call[d] /\ answer'[d] = answer[d]
<1>1. UNCHANGED <<served, tick, faults, cache, refresh, concealed>>
  BY DEF AnswerGroups, serverVars
<1>2. PICK at : Return(c, "answered", cache.data.groups, NoEntry, at)
  BY DEF AnswerGroups
<1>3. /\ call'[c] = Idle /\ answer'[c].status = "answered"
      /\ answer'[c].groups = cache.data.groups
      /\ \A d \in Callers \ {c} : call'[d] = call[d] /\ answer'[d] = answer[d]
  BY <1>2, ReturnCalls
<1>4. ClientFits(always, ever, n)'
  BY <1>1, <1>3, NothingType, RestFits
<1> QED
  BY <1>1, <1>3, <1>4

LEMMA AnswerResourcesFits ==
  ASSUME DiscoveryInv, NEW always, NEW ever, NEW n, ClientFits(always, ever, n),
         NEW c \in Callers, AnswerResources(c), NEW gv, gv = call[c].gv
  PROVE  /\ ClientFits(always, ever, n)'
         /\ faults \in Nat /\ faults' \in Nat /\ faults <= faults' /\ UNCHANGED <<served, tick>>
         /\ cache'.valid = cache.valid /\ cache'.data.groups = cache.data.groups
         /\ call'[c] = Idle
         /\ \A d \in Callers \ {c} : call'[d] = call[d] /\ answer'[d] = answer[d]
         /\ ResourcesFit(gv, answer[c], always, ever, n)'
         /\ cache.valid /\ gv \in cache.data.groups => answer'[c].status = "answered"
<1> DEFINE entry == cache.data.entries[gv]
<1>1. /\ UNCHANGED <<served, tick, refresh, concealed>> /\ call[c].pc = "lookup" /\ gv \in GVs
      /\ cache \in [valid: BOOLEAN, data: Fetched] /\ cache.data.entries \in [GVs -> Entry]
      /\ n \in 0 .. faults /\ faults \in Nat
  BY DEF AnswerResources, Pc, DiscoveryInv, DiscoveryTypeOK, Asked, Fetched, ClientFits
<1>2. \/ /\ entry.err = "absent" /\ UNCHANGED <<faults, cache>>
         /\ Return(c, "missing", {}, NoEntry, tick)
      \/ /\ entry.err = "transient"
         /\ \E f \in {"ok"} \cup (Faults \ {"hidden"}) :
              /\ Outcome(f)
              /\ cache' = [cache EXCEPT !.data.entries[gv] = Reply(gv, f)]
              /\ Return(c, "answered", {}, Reply(gv, f), tick)
      \/ /\ entry.err \in {"none", "permanent"} /\ UNCHANGED <<faults, cache>>
         /\ Return(c, "answered", {}, entry, entry.at)
  BY DEF AnswerResources
<1>3. \A d \in Callers \ {c} : call[d].pc \notin Locked
  BY <1>1, Alone DEF Locked
<1>4. cache.valid \/ always = {} \/ faults # n
  BY <1>1 DEF ClientFits, Pc, Missed
<1>5. EntryFits(gv, entry, always, ever, n)
  BY <1>1 DEF ClientFits, DataFits
<1>6. CASE entry.err = "absent" /\ UNCHANGED <<faults, cache>> /\ Return(c, "missing", {}, NoEntry, tick)
  <2>1. /\ call'[c] = Idle /\ answer'[c].status = "missing"
        /\ \A d \in Callers \ {c} : call'[d] = call[d] /\ answer'[d] = answer[d]
    BY <1>6, ReturnCalls
  <2>2. ClientFits(always, ever, n)'
    BY <1>1, <1>6, <2>1, NothingType, RestFits
  <2>3. cache.valid => gv \notin cache.data.groups
    BY <1>1, <1>6 DEF DiscoveryInv, Complete
  <2>4. faults # n \/ \A k \in Kinds : <<gv, k>> \notin always
    BY <1>4, <2>3 DEF ClientFits, DataFits, Missed
  <2> QED
    BY <1>1, <1>6, <2>1, <2>2, <2>3, <2>4 DEF ResourcesFit
<1>7. CASE /\ entry.err \in {"none", "permanent"} /\ UNCHANGED <<faults, cache>>
           /\ Return(c, "answered", {}, entry, entry.at)
  <2>1. /\ call'[c] = Idle /\ answer'[c].status = "answered" /\ answer'[c].entry = entry
        /\ \A d \in Callers \ {c} : call'[d] = call[d] /\ answer'[d] = answer[d]
    BY <1>7, ReturnCalls
  <2>2. ClientFits(always, ever, n)'
    BY <1>1, <1>7, <2>1, NothingType, RestFits
  <2>3. PICK e : e = entry
    OBVIOUS
  <2>4. EntryFits(gv, e, always, ever, n)'
    BY <1>1, <1>5, <1>7, <2>3 DEF EntryFits
  <2>5. EntryFits(gv, answer[c].entry, always, ever, n)'
    BY <2>1, <2>3, <2>4
  <2> QED
    BY <1>1, <1>7, <2>1, <2>2, <2>5 DEF ResourcesFit
<1>8. ASSUME entry.err = "transient", NEW f, Outcome(f),
             cache' = [cache EXCEPT !.data.entries[gv] = Reply(gv, f)],
             Return(c, "answered", {}, Reply(gv, f), tick)
      PROVE  /\ ClientFits(always, ever, n)'
             /\ faults' \in Nat /\ faults <= faults'
             /\ cache'.valid = cache.valid /\ cache'.data.groups = cache.data.groups
             /\ call'[c] = Idle
             /\ \A d \in Callers \ {c} : call'[d] = call[d] /\ answer'[d] = answer[d]
             /\ answer'[c].status = "answered"
             /\ ResourcesFit(gv, answer[c], always, ever, n)'
  <2>1. PICK e : e = Reply(gv, f)
    OBVIOUS
  <2>2. EntryFits(gv, e, always, ever, n)' /\ e.err # "absent"
    BY <1>1, <1>8, <2>1, ReplyFits DEF ClientFits, DiscoveryInv
  <2>3. /\ call'[c] = Idle /\ answer'[c].status = "answered" /\ answer'[c].entry = e
        /\ \A d \in Callers \ {c} : call'[d] = call[d] /\ answer'[d] = answer[d]
    BY <1>8, <2>1, ReturnCalls
  <2>4. EntryFits(gv, answer[c].entry, always, ever, n)'
    BY <2>2, <2>3
  <2>5. ResourcesFit(gv, answer[c], always, ever, n)'
    BY <2>2, <2>3, <2>4 DEF ResourcesFit
  <2>6. faults' \in Nat /\ faults <= faults'
    BY <1>8, FaultsGrow DEF DiscoveryInv
  <2>7. n \in 0 .. faults' /\ (faults # n => faults' # n)
    BY <1>1, <2>6
  <2>8. /\ cache'.valid = cache.valid /\ cache'.data.groups = cache.data.groups
        /\ \A g \in GVs : cache'.data.entries[g] = IF g = gv THEN e ELSE cache.data.entries[g]
    BY <1>1, <1>8, <2>1 DEF Fetched
  <2>9. PICK data : data = cache.data
    OBVIOUS
  <2>10. DataFits(data, always, ever, n)'
    BY <1>1, <2>6, <2>9, DataFitsLater DEF ClientFits
  <2>11. DataFits(cache.data, always, ever, n)'
    <3>1. ASSUME NEW g \in GVs
          PROVE  EntryFits(g, cache.data.entries[g], always, ever, n)'
      <4>1. CASE g = gv
        BY <4>1, <2>2, <2>8
      <4>2. CASE g # gv
        <5>1. EntryFits(g, data.entries[g], always, ever, n)'
          BY <2>10 DEF DataFits
        <5> QED
          BY <5>1, <4>2, <2>8, <2>9
      <4> QED
        BY <4>1, <4>2
    <3> QED
      BY <3>1, <2>7, <2>8, <1>1 DEF DataFits, ClientFits, Missed
  <2>12. cache.data # Nothing /\ cache.valid
    BY <1>1, <1>8, NothingType DEF ClientFits
  <2> QED
    BY <1>1, <1>3, <2>3, <2>5, <2>6, <2>7, <2>8, <2>11, <2>12, NothingType
       DEF ClientFits, Pc, Serves, Locked
<1> HIDE DEF entry
<1>9. CASE \E f \in {"ok"} \cup (Faults \ {"hidden"}) :
             /\ entry.err = "transient" /\ Outcome(f)
             /\ cache' = [cache EXCEPT !.data.entries[gv] = Reply(gv, f)]
             /\ Return(c, "answered", {}, Reply(gv, f), tick)
  BY <1>1, <1>8, <1>9
<1> QED
  BY <1>1, <1>2, <1>6, <1>7, <1>9

----------------------------------------------------------------------------
\* `kubecfg validate`: the invariant.

Validating == ClientFits(Pairs \ seen.unserved, seen.served, 0)

\* What the history knows of the server, and its bounds.
Seeing ==
  /\ seen \in [served: SUBSET Pairs, unserved: SUBSET Pairs,
               schema: SUBSET Pairs, noSchema: SUBSET Pairs]
  /\ schemas \subseteq seen.schema /\ Pairs \ schemas \subseteq seen.noSchema

\* Nobody but the command calls the client, and it awaits one answer at a time.
Asking ==
  /\ \A c \in Callers \ {Validator} : call[c].pc = "idle"
  /\ call[Validator].pc # "idle" =>
       \/ run.pc = "named" /\ call[Validator].op = "groups"
       \/ /\ run.pc = "asked" /\ call[Validator].op = "resources"
          /\ call[Validator].gv = Gvk[Item][1]
  /\ run.pc = "asked" /\ call[Validator].pc = "idle" =>
       ResourcesFit(Gvk[Item][1], answer[Validator], Pairs \ seen.unserved, seen.served, 0)

\* The right verdict on an object, and a reason not to report it.
Exact(o, reported) ==
  /\ Gvk[o] \notin seen.noSchema => (reported <=> o \notin Conforming \cap Named)
  /\ Gvk[o] \notin seen.schema /\ ignoreUnknown => ~reported
  /\ Gvk[o] \notin seen.schema /\ ~ignoreUnknown =>
       /\ Gvk[o] \notin seen.unserved => ~reported
       /\ Gvk[o] \notin seen.served => reported

Checked(o) ==
  \/ Gvk[o] \in seen.schema /\ o \in Conforming \cap Named
  \/ /\ Gvk[o] \in seen.noSchema \/ o \in refused
     /\ ignoreUnknown \/ Gvk[o] \in seen.served

\* No schema was found for an object, and that is not to be ignored.
Unread(o, among, failures) ==
  /\ ~ignoreUnknown
  /\ Gvk[o] \in seen.noSchema \/ o \in among
  /\ failures = 0 => Gvk[o] \in seen.noSchema

\* The objects before the current one have their verdict.
Judged ==
  /\ run \in [pc: {"describe", "named", "fetch", "exists", "asked", "passed", "failed"},
              i: 1 .. Len(Order) + 1, reported: SUBSET Items, known: SUBSET Pairs]
  /\ run.pc \in {"passed", "failed"} <=> run.i = Len(Order) + 1
  /\ run.pc = "passed" => run.reported = {}
  /\ run.reported \subseteq {Order[j] : j \in 1 .. run.i - 1}
  /\ run.known \subseteq seen.served
  /\ run.pc \in {"exists", "asked"} => Unread(Item, refused, faults)
  /\ \A j \in 1 .. run.i - 1 :
       /\ Order[j] \notin run.reported => Checked(Order[j])
       /\ faults = 0 => Exact(Order[j], Order[j] \in run.reported)

ValidateInv ==
  /\ DiscoveryInv /\ Validating
  /\ schemas \subseteq Pairs /\ schemaChanges \in 0 .. MaxSchemaChanges
  /\ ignoreUnknown \in BOOLEAN /\ refused \subseteq Items
  /\ Seeing /\ Asking /\ Judged

----------------------------------------------------------------------------
\* `kubecfg validate`: the objects.

\* A verdict stands, whatever else is seen and fails later.
LEMMA VerdictLater ==
  ASSUME NEW o, NEW reported,
         seen.served \subseteq seen'.served, seen.unserved \subseteq seen'.unserved,
         seen.schema \subseteq seen'.schema, seen.noSchema \subseteq seen'.noSchema,
         refused \subseteq refused', UNCHANGED ignoreUnknown
  PROVE  (Exact(o, reported) => Exact(o, reported)') /\ (Checked(o) => Checked(o)')
BY DEF Exact, Checked

\* The command does not judge anything, and other kinds are seen meanwhile.
LEMMA MovesJudged ==
  ASSUME Judged, NEW label \in {"describe", "named", "fetch", "exists", "asked", "passed", "failed"},
         label # run.pc => {label, run.pc} \cap {"passed", "failed"} = {},
         run' = [run EXCEPT !.pc = label],
         label \in {"exists", "asked"} => Unread(Item, refused', faults'),
         seen.served \subseteq seen'.served, seen.unserved \subseteq seen'.unserved,
         seen.schema \subseteq seen'.schema, seen.noSchema \subseteq seen'.noSchema,
         refused \subseteq refused', UNCHANGED ignoreUnknown,
         faults \in Nat, faults' \in Nat, faults <= faults'
  PROVE  Judged' /\ run'.pc = label /\ Item' = Item
<1>1. /\ run'.pc = label /\ run'.i = run.i /\ run'.reported = run.reported /\ run'.known = run.known
      /\ run' \in [pc: {"describe", "named", "fetch", "exists", "asked", "passed", "failed"},
                   i: 1 .. Len(Order) + 1, reported: SUBSET Items, known: SUBSET Pairs]
  BY DEF Judged
<1>2. Item' = Item
  BY <1>1 DEF Item
<1>3. faults' = 0 => faults = 0
  OBVIOUS
<1>4. ASSUME NEW j \in 1 .. run.i - 1
      PROVE  /\ Order[j] \notin run.reported => Checked(Order[j])'
             /\ faults' = 0 => Exact(Order[j], Order[j] \in run.reported)'
  <2>1. /\ Order[j] \notin run.reported => Checked(Order[j])
        /\ faults = 0 => Exact(Order[j], Order[j] \in run.reported)
    BY DEF Judged
  <2>2. PICK o, b : o = Order[j] /\ b = (Order[j] \in run.reported)
    OBVIOUS
  <2> QED
    BY <1>3, <2>1, <2>2, VerdictLater
<1>5. \A j \in 1 .. run'.i - 1 :
        /\ Order[j] \notin run'.reported => Checked(Order[j])'
        /\ faults' = 0 => Exact(Order[j], Order[j] \in run.reported)'
  BY <1>1, <1>4 DEF Exact
<1>6. run'.pc \in {"exists", "asked"} => Unread(Item, refused, faults)'
  BY <1>1, <1>2 DEF Unread
<1> QED
  BY <1>1, <1>2, <1>5, <1>6 DEF Judged

\* The loop goes on to the next object with a verdict on this one.
LEMMA ItemJudged ==
  ASSUME Judged, ~Over, NEW errors \in BOOLEAN, NEW known \in SUBSET Pairs, known \subseteq seen.served,
         run' = [NextItem(errors) EXCEPT !.known = known],
         UNCHANGED <<seen, ignoreUnknown>>, refused \subseteq refused',
         faults \in Nat, faults' \in Nat, faults <= faults',
         NEW o \in {Item}, ~errors => Checked(o)', faults' = 0 => Exact(Item, errors)
  PROVE  Judged' /\ run'.pc \in {"describe", "passed", "failed"}
<1>1. /\ run.i \in 1 .. Len(Order) /\ Len(Order) \in Nat /\ Item \in Items
      /\ run \in [pc: {"describe", "named", "fetch", "exists", "asked", "passed", "failed"},
                  i: 1 .. Len(Order) + 1, reported: SUBSET Items, known: SUBSET Pairs]
  BY ValidateAssumption DEF Judged, Over, Item
<1>2. PICK reported : reported = IF errors THEN run.reported \cup {Item} ELSE run.reported
  OBVIOUS
<1>3. PICK pc : pc = IF run.i < Len(Order) THEN "describe"
                     ELSE IF reported = {} THEN "passed" ELSE "failed"
  OBVIOUS
<1>4. run' = [pc |-> pc, i |-> run.i + 1, reported |-> reported, known |-> known]
  BY <1>1, <1>2, <1>3 DEF NextItem
<1>5. /\ run'.pc = pc /\ run'.i = run.i + 1 /\ run'.reported = reported /\ run'.known = known
      /\ reported \in SUBSET Items /\ pc \in {"describe", "passed", "failed"}
  <2>1. run'.pc = pc /\ run'.i = run.i + 1 /\ run'.reported = reported /\ run'.known = known
    BY <1>4
  <2>2. pc \in {"describe", "passed", "failed"}
    BY <1>3
  <2>3. reported \in SUBSET Items
    <3>1. run.reported \in SUBSET Items
      BY <1>1
    <3> QED
      BY <3>1, <1>1, <1>2
  <2> QED
    BY <2>1, <2>2, <2>3
<1>6. run' \in [pc: {"describe", "named", "fetch", "exists", "asked", "passed", "failed"},
                i: 1 .. Len(Order) + 1, reported: SUBSET Items, known: SUBSET Pairs]
  <2>1. run.i + 1 \in 1 .. Len(Order) + 1
    BY <1>1
  <2> QED
    BY <2>1, <1>4, <1>5
<1>7. pc \in {"passed", "failed"} <=> run'.i = Len(Order) + 1
  BY <1>1, <1>3, <1>5
<1>8. reported \subseteq {Order[j] : j \in 1 .. run.i}
  <2>1. run.reported \subseteq {Order[j] : j \in 1 .. run.i - 1}
    BY DEF Judged
  <2> QED
    BY <2>1, <1>1, <1>2 DEF Item
<1>9. ASSUME NEW j \in 1 .. run.i
      PROVE  /\ Order[j] \notin reported => Checked(Order[j])'
             /\ faults' = 0 => Exact(Order[j], Order[j] \in reported)
  <2>1. \A h \in 1 .. run.i - 1 :
          /\ Order[h] \notin run.reported => Checked(Order[h])'
          /\ faults' = 0 => Exact(Order[h], Order[h] \in run.reported)
    BY <1>1 DEF Judged, Checked
  <2>2. CASE Order[j] = Item
    <3>1. CASE Item \in run.reported
      <4>1. PICK h \in 1 .. run.i - 1 : Item = Order[h]
        BY <3>1 DEF Judged
      <4> QED
        BY <2>1, <2>2, <3>1, <4>1, <1>2 DEF Exact
    <3>2. CASE Item \notin run.reported
      BY <2>2, <3>2, <1>2 DEF Exact
    <3> QED
      BY <3>1, <3>2
  <2>3. CASE Order[j] # Item
    <3>1. j \in 1 .. run.i - 1 /\ (Order[j] \in reported <=> Order[j] \in run.reported)
      BY <2>3, <1>1, <1>2 DEF Item
    <3> QED
      BY <2>1, <3>1 DEF Exact
  <2> QED
    BY <2>2, <2>3
<1>10. ASSUME NEW j \in 1 .. run'.i - 1
       PROVE  /\ Order[j] \notin run'.reported => Checked(Order[j])'
              /\ faults' = 0 => Exact(Order[j], Order[j] \in run.reported)'
  <2>1. j \in 1 .. run.i
    BY <1>1, <1>5
  <2>2. PICK h : h = Order[j]
    OBVIOUS
  <2> QED
    BY <2>1, <2>2, <1>5, <1>9 DEF Exact
<1>11. pc = "passed" => reported = {}
  BY <1>3
<1> QED
  BY <1>1, <1>5, <1>6, <1>7, <1>8, <1>10, <1>11 DEF Judged

----------------------------------------------------------------------------
\* `kubecfg validate`: the steps.

LEMMA ResourcesLater ==
  ASSUME NEW gv \in GVs, NEW a, NEW always, NEW ever, NEW n \in 0 .. faults,
         NEW always1 \in SUBSET always, NEW ever1, ever \subseteq ever1,
         faults \in Nat, faults' \in Nat, faults <= faults',
         ResourcesFit(gv, a, always, ever, n)
  PROVE  ResourcesFit(gv, a, always1, ever1, n)'
<1>1. EntryFits(gv, a.entry, always, ever, n) => EntryFits(gv, a.entry, always1, ever1, n)'
  BY FitsLater
<1> QED
  BY <1>1 DEF ResourcesFit

\* A request to somebody else may fail.
LEMMA FaultInv ==
  ASSUME DiscoveryInv, NEW f, Outcome(f),
         UNCHANGED <<served, tick, cache, refresh, holder, call, answer, invalidatedAt, calledAt,
                     concealed>>
  PROVE  DiscoveryInv'
<1>1. faults' \in 0 .. MaxFaults
  BY OutcomeType DEF DiscoveryInv
<1> QED
  BY <1>1 DEF DiscoveryInv, DiscoveryTypeOK, LockHeld, Asked, Dated, Fetching, FreshSinceInvalidate,
              NotOlder, Complete, TransientIsLive, Pc, Refreshing

\* The item that is judged.
LEMMA ItemType ==
  ASSUME Judged, ~Over
  PROVE  Item \in Items /\ Gvk[Item] \in Pairs /\ Gvk[Item][1] \in GVs /\ Gvk[Item][2] \in Kinds
         /\ Gvk[Item] = <<Gvk[Item][1], Gvk[Item][2]>>
<1>1. run.i \in 1 .. Len(Order)
  BY ValidateAssumption DEF Judged, Over
<1>2. Item \in Items
  BY <1>1, ValidateAssumption DEF Item
<1> QED
  BY <1>2, ValidateAssumption DEF Pairs

LEMMA ValidateInitInv == ValidateInit => ValidateInv
<1> SUFFICES ASSUME ValidateInit
             PROVE  ValidateInv
  OBVIOUS
<1>1. DiscoveryInv
  BY InitInv DEF ValidateInit
<1>2. /\ seen.served = Serves(served) /\ seen.unserved = Pairs \ Serves(served)
      /\ seen.schema = schemas /\ seen.noSchema = Pairs \ schemas
      /\ schemas \subseteq Pairs /\ Serves(served) \subseteq Pairs
      /\ seen \in [served: SUBSET Pairs, unserved: SUBSET Pairs,
                   schema: SUBSET Pairs, noSchema: SUBSET Pairs]
  BY DEF ValidateInit, Sight, Serves
<1>3. /\ cache.valid = FALSE /\ cache.data = Nothing /\ faults = 0
      /\ \A c \in Callers : call[c] = Idle
  BY DEF ValidateInit, DiscoveryInit
<1>4. Validating
  <2>1. DataFits(cache.data, Pairs \ seen.unserved, seen.served, 0)
    BY <1>3, NothingFits
  <2> QED
    BY <1>2, <1>3, <2>1, NothingType DEF Validating, ClientFits, Pc
<1>5. /\ run.pc = IF Order = <<>> THEN "passed" ELSE "describe"
      /\ run.i = 1 /\ run.reported = {} /\ run.known = {}
      /\ run \in [pc: {"describe", "named", "fetch", "exists", "asked", "passed", "failed"},
                  i: {1}, reported: SUBSET Items, known: SUBSET Pairs]
  BY DEF ValidateInit
<1>6. Judged
  <2>1. Len(Order) \in Nat /\ (Order = <<>> <=> Len(Order) = 0)
    BY ValidateAssumption
  <2> QED
    BY <1>5, <2>1 DEF Judged
<1>7. Asking
  <2>1. run.pc # "asked" /\ \A c \in Callers : call[c].pc = "idle"
    BY <1>3, <1>5, NothingType
  <2> QED
    BY <2>1, ValidateAssumption DEF Asking
<1>8. schemas \subseteq Pairs /\ schemaChanges \in 0 .. MaxSchemaChanges /\ ignoreUnknown \in BOOLEAN
  BY ValidateAssumption DEF ValidateInit
<1>9. Seeing
  BY <1>2 DEF Seeing
<1>10. refused \subseteq Items
  BY DEF ValidateInit
<1> QED
  BY <1>1, <1>4, <1>6, <1>7, <1>8, <1>9, <1>10 DEF ValidateInv

\* The server changes.
LEMMA ServerInv ==
  ASSUME ValidateInv, KindsChange \/ SchemaChange
  PROVE  ValidateInv'
<1>1. /\ DiscoveryInv'
      /\ UNCHANGED <<faults, cache, refresh, call, answer, concealed, ignoreUnknown, run, refused>>
      /\ Witness /\ ~Over
      /\ schemas' \subseteq Pairs /\ schemaChanges' \in 0 .. MaxSchemaChanges
  <2>1. CASE KindsChange
    BY <2>1, ChangeInv DEF KindsChange, Change, clientVars, ValidateInv
  <2>2. CASE SchemaChange
    <3>1. /\ UNCHANGED <<served, tick, faults, cache, refresh, holder, call, answer,
                         invalidatedAt, calledAt, concealed, ignoreUnknown, run, refused>>
          /\ Witness /\ ~Over /\ schemas' \subseteq Pairs
          /\ schemaChanges < MaxSchemaChanges /\ schemaChanges' = schemaChanges + 1
      BY <2>2 DEF SchemaChange, discoveryVars
    <3>2. DiscoveryInv'
      BY <3>1, NextInv DEF discoveryVars, ValidateInv
    <3> QED
      BY <3>1, <3>2, ValidateAssumption DEF ValidateInv
  <2> QED
    BY <2>1, <2>2
<1>2. /\ seen'.served = seen.served \cup Serves(served)'
      /\ seen'.unserved = seen.unserved \cup (Pairs \ Serves(served)')
      /\ seen'.schema = seen.schema \cup schemas'
      /\ seen'.noSchema = seen.noSchema \cup (Pairs \ schemas')
      /\ seen' \in [served: SUBSET Pairs, unserved: SUBSET Pairs,
                    schema: SUBSET Pairs, noSchema: SUBSET Pairs]
  <2>1. Serves(served)' = Serves(served') /\ Serves(served') \subseteq Pairs
    BY DEF Serves
  <2>2. seen \in [served: SUBSET Pairs, unserved: SUBSET Pairs,
                  schema: SUBSET Pairs, noSchema: SUBSET Pairs]
    BY DEF ValidateInv, Seeing
  <2>3. seen' = [served |-> seen.served \cup Serves(served'),
                 unserved |-> seen.unserved \cup (Pairs \ Serves(served')),
                 schema |-> seen.schema \cup schemas',
                 noSchema |-> seen.noSchema \cup (Pairs \ schemas')]
    BY <1>1, <2>2 DEF Witness, Both, Sight
  <2> QED
    BY <1>1, <2>1, <2>2, <2>3
<1>3. faults \in Nat /\ faults' \in Nat /\ faults <= faults'
  BY <1>1 DEF ValidateInv, DiscoveryInv, DiscoveryTypeOK
<1>4. PICK always, ever : always = Pairs \ seen'.unserved /\ ever = seen'.served
  OBVIOUS
<1>5. ClientFits(always, ever, 0)'
  <2>1. always \in SUBSET ((Pairs \ seen.unserved) \cap Serves(served'))
    BY <1>2, <1>4 DEF Serves
  <2>2. seen.served \cup Serves(served') \subseteq ever
    BY <1>2, <1>4 DEF Serves
  <2>3. ClientFits(Pairs \ seen.unserved, seen.served, 0)
    BY DEF ValidateInv, Validating
  <2> QED
    BY <1>1, <1>3, <2>1, <2>2, <2>3, ServerMovesFit
<1>6. Validating'
  BY <1>4, <1>5 DEF Validating
<1>7. Judged' /\ Item' = Item
  <2>1. run' = [run EXCEPT !.pc = run.pc] /\ run.pc \in {"describe", "named", "fetch", "exists", "asked", "passed", "failed"}
    BY <1>1 DEF ValidateInv, Judged
  <2>2. Judged /\ (run.pc \in {"exists", "asked"} => Unread(Item, refused', faults'))
    BY <1>1 DEF ValidateInv, Judged
  <2> QED
    BY <1>1, <1>2, <1>3, <2>1, <2>2, MovesJudged
<1>8. Asking'
  <2>1. ASSUME run.pc = "asked", call[Validator].pc = "idle"
        PROVE  ResourcesFit(Gvk[Item][1], answer[Validator], Pairs \ seen.unserved, seen.served, 0)'
    <3>1. PICK gv, a : gv = Gvk[Item][1] /\ a = answer[Validator]
      OBVIOUS
    <3>2. ResourcesFit(gv, a, Pairs \ seen.unserved, seen.served, 0)
      BY <2>1, <3>1 DEF ValidateInv, Asking
    <3>3. gv \in GVs /\ always \in SUBSET (Pairs \ seen.unserved) /\ seen.served \subseteq ever
          /\ 0 \in 0 .. faults
      BY <1>1, <1>2, <1>3, <1>4, <3>1, ItemType DEF ValidateInv
    <3>4. ResourcesFit(gv, a, always, ever, 0)'
      BY <1>3, <3>2, <3>3, ResourcesLater
    <3> QED
      BY <1>1, <1>4, <1>7, <3>1, <3>4
  <2> QED
    BY <1>1, <1>7, <2>1 DEF ValidateInv, Asking
<1>9. Seeing'
  BY <1>1, <1>2 DEF ValidateInv, Seeing
<1> QED
  BY <1>1, <1>6, <1>7, <1>8, <1>9 DEF ValidateInv

\* A step that the server and the schemas do not notice.
LEMMA CommandStepInv ==
  ASSUME ValidateInv, UNCHANGED <<schemas, schemaChanges, ignoreUnknown, seen>>,
         NEW always, NEW ever, always = Pairs \ seen.unserved, ever = seen.served,
         refused' \subseteq Items, DiscoveryInv', ClientFits(always, ever, 0)', Asking', Judged'
  PROVE  ValidateInv'
<1>1. Validating'
  <2>1. always = Pairs \ seen'.unserved /\ ever = seen'.served
    OBVIOUS
  <2> QED
    BY <2>1 DEF Validating
<1> QED
  BY <1>1 DEF ValidateInv, Seeing

LEMMA QuietInv ==
  ASSUME DiscoveryInv, UNCHANGED discoveryVars, NEW always, NEW ever, NEW n, ClientFits(always, ever, n)
  PROVE  DiscoveryInv' /\ ClientFits(always, ever, n)'
<1>1. UNCHANGED <<served, tick, faults, cache, refresh, holder, call, answer, concealed>>
  BY DEF discoveryVars
<1>2. ClientFits(always, ever, n)'
  BY <1>1, RestFits
<1> QED
  BY <1>2, NextInv

\* The command calls the client, or goes on without it.
LEMMA ProceedInv ==
  ASSUME ValidateInv, Proceed, UNCHANGED <<schemas, schemaChanges, ignoreUnknown, seen>>
  PROVE  ValidateInv'
<1>1. /\ DiscoveryInv /\ Judged /\ Asking /\ faults \in Nat /\ Validator \in Callers
      /\ schemas \subseteq seen.schema /\ Pairs \ schemas \subseteq seen.noSchema
      /\ run.known \subseteq seen.served /\ run.known \in SUBSET Pairs /\ refused \subseteq Items
  BY ValidateAssumption DEF ValidateInv, DiscoveryInv, DiscoveryTypeOK, Seeing, Judged
<1>2. PICK always, ever : always = Pairs \ seen.unserved /\ ever = seen.served
  OBVIOUS
<1>3. ClientFits(always, ever, 0)
  BY <1>2 DEF ValidateInv, Validating
<1>4. /\ seen.served \subseteq seen'.served /\ seen.unserved \subseteq seen'.unserved
      /\ seen.schema \subseteq seen'.schema /\ seen.noSchema \subseteq seen'.noSchema
      /\ UNCHANGED <<seen, ignoreUnknown>>
  OBVIOUS
<1>5. ~Over /\ run.pc \notin {"passed", "failed"}
  BY DEF Proceed, Describe, Described, FetchSchema, Exists, Answered, Over
<1>6. Item \in Items /\ Gvk[Item] \in Pairs /\ Gvk[Item][1] \in GVs /\ Gvk[Item][2] \in Kinds
      /\ Gvk[Item] = <<Gvk[Item][1], Gvk[Item][2]>>
  BY <1>1, <1>5, ItemType
\* A verdict on the object.
<1>7. ASSUME NEW errors \in BOOLEAN, NEW known \in SUBSET Pairs, known \subseteq seen.served,
             run' = [NextItem(errors) EXCEPT !.known = known],
             faults' \in Nat, faults <= faults',
             NEW o \in {Item}, ~errors => Checked(o)', faults' = 0 => Exact(Item, errors),
             refused \subseteq refused', refused' \subseteq Items,
             \A c \in Callers : call'[c].pc = "idle",
             DiscoveryInv', ClientFits(always, ever, 0)'
      PROVE  ValidateInv'
  <2>1. Judged' /\ run'.pc \in {"describe", "passed", "failed"}
    BY <1>1, <1>4, <1>5, <1>7, ItemJudged
  <2>2. Asking'
    BY <2>1, <1>1, <1>7 DEF Asking
  <2> QED
    BY <2>1, <2>2, <1>2, <1>7, CommandStepInv
\* No verdict yet, and no call.
<1>8. ASSUME NEW label \in {"fetch", "exists"}, run' = [run EXCEPT !.pc = label],
             label = "exists" => Unread(Item, refused', faults'),
             refused \subseteq refused', refused' \subseteq Items,
             faults' \in Nat, faults <= faults',
             \A c \in Callers : call'[c].pc = "idle",
             DiscoveryInv', ClientFits(always, ever, 0)'
      PROVE  ValidateInv'
  <2>1. Judged' /\ run'.pc = label
    BY <1>1, <1>4, <1>5, <1>8, MovesJudged
  <2>2. Asking'
    BY <2>1, <1>1, <1>8 DEF Asking
  <2> QED
    BY <2>1, <2>2, <1>2, <1>8, CommandStepInv
\* A call.
<1>9. ASSUME NEW label \in {"named", "asked"}, run' = [run EXCEPT !.pc = label],
             NEW op \in {"groups", "resources"}, NEW gv \in GVs \cup {None},
             label = "named" => op = "groups",
             label = "asked" => /\ op = "resources" /\ gv = Gvk[Item][1]
                                /\ Unread(Item, refused, faults),
             UNCHANGED refused, Begin(Validator, op, gv)
      PROVE  ValidateInv'
  <2>1. /\ call'[Validator].pc = "waiting" /\ call'[Validator].op = op /\ call'[Validator].gv = gv
        /\ \A d \in Callers \ {Validator} : call'[d] = call[d]
        /\ UNCHANGED faults
    BY <1>1, <1>9, BeginCalls
  <2>2. DiscoveryInv'
    BY <1>1, <1>6, <1>9, BeginInv
  <2>3. ClientFits(always, ever, 0)'
    BY <1>1, <1>3, <1>9, BeginFits
  <2>4. Judged' /\ run'.pc = label /\ Item' = Item
    BY <2>1, <1>1, <1>4, <1>5, <1>9, MovesJudged
  <2>5. Asking'
    BY <2>1, <2>4, <1>1, <1>9 DEF Asking
  <2> QED
    BY <2>2, <2>3, <2>4, <2>5, <1>1, <1>2, <1>9, CommandStepInv
<1>10. ASSUME UNCHANGED discoveryVars
       PROVE  UNCHANGED <<faults, call>> /\ DiscoveryInv' /\ ClientFits(always, ever, 0)'
  <2>1. DiscoveryInv' /\ ClientFits(always, ever, 0)'
    BY <1>1, <1>3, <1>10, QuietInv
  <2> QED
    BY <2>1, <1>10 DEF discoveryVars
<1>11. run.pc \in {"describe", "fetch", "exists"} \/ Returned => \A c \in Callers : call[c].pc = "idle"
  BY <1>1 DEF Asking, Returned
<1>12. CASE Describe
  <2>1. CASE run' = [run EXCEPT !.pc = "fetch"] /\ UNCHANGED discoveryVars
    BY <2>1, <1>1, <1>8, <1>10, <1>11, <1>12 DEF Describe
  <2>2. CASE run' = [run EXCEPT !.pc = "named"] /\ Begin(Validator, "groups", None)
    BY <2>2, <1>9, <1>12 DEF Describe
  <2> QED
    BY <2>1, <2>2, <1>12 DEF Describe
<1>13. CASE Described
  BY <1>1, <1>8, <1>10, <1>11, <1>13 DEF Described
<1>14. CASE FetchSchema
  <2>1. PICK f \in {"ok"} \cup Faults :
          /\ Outcome(f)
          /\ \/ /\ f = "ok" /\ Gvk[Item] \in schemas
                /\ run' = NextItem(Item \notin Conforming \/ Item \notin Named)
             \/ /\ f = "hidden" \/ (f = "ok" /\ Gvk[Item] \notin schemas)
                /\ run' = IF ignoreUnknown THEN NextItem(FALSE) ELSE [run EXCEPT !.pc = "exists"]
             \/ f # "ok" /\ run' = NextItem(TRUE)
          /\ refused' = IF f = "hidden" THEN refused \cup {Item} ELSE refused
    BY <1>14 DEF FetchSchema, Unschemed
  <2>2. /\ UNCHANGED <<served, tick, cache, refresh, holder, call, answer, invalidatedAt, calledAt,
                       concealed>>
        /\ \A c \in Callers : call'[c].pc = "idle"
    BY <1>11, <1>14 DEF FetchSchema, clientVars
  <2>3. DiscoveryInv' /\ refused \subseteq refused' /\ refused' \subseteq Items
    BY <2>1, <2>2, <1>1, <1>6, FaultInv
  <2>4. faults' \in Nat /\ faults <= faults' /\ (f # "ok" => faults' # 0)
    BY <2>1, <1>1, FaultsGrow DEF DiscoveryInv
  <2>5. ClientFits(always, ever, 0)'
    <3>1. always \in SUBSET (always \cap Serves(served')) /\ ever \cup Serves(served') \subseteq ever
      BY <2>2, <1>3 DEF ClientFits, Serves
    <3> QED
      BY <3>1, <2>2, <2>4, <1>1, <1>3, ServerMovesFit
  <2>6. PICK o : o = Item
    OBVIOUS
  <2>7. CASE f # "ok" /\ run' = NextItem(TRUE)
    <3>1. run' = [NextItem(TRUE) EXCEPT !.known = run.known]
      BY <2>7, <1>1 DEF NextItem, Judged
    <3> QED
      BY <3>1, <2>2, <2>3, <2>4, <2>5, <2>6, <2>7, <1>1, <1>7
  <2>8. CASE /\ f = "ok" /\ Gvk[Item] \in schemas
             /\ run' = NextItem(Item \notin Conforming \/ Item \notin Named)
    <3>1. PICK errors \in BOOLEAN : errors = (Item \notin Conforming \/ Item \notin Named)
      OBVIOUS
    <3>2. run' = [NextItem(errors) EXCEPT !.known = run.known]
      BY <3>1, <2>8, <1>1 DEF NextItem, Judged
    <3>3. Exact(Item, errors) /\ (~errors => Checked(o)')
      BY <3>1, <2>6, <2>8, <1>1, <1>4, <1>6 DEF Exact, Checked
    <3> QED
      BY <3>2, <3>3, <2>2, <2>3, <2>4, <2>5, <2>6, <1>1, <1>7
  \* No schema, or no document.
  <2>9. CASE f = "hidden" \/ (f = "ok" /\ Gvk[Item] \notin schemas)
    <3>1. /\ Gvk[Item] \in seen.noSchema \/ Item \in refused'
          /\ faults' = 0 => Gvk[Item] \in seen.noSchema
      BY <2>1, <2>4, <2>9, <1>1, <1>6
    <3>2. CASE ignoreUnknown /\ run' = NextItem(FALSE)
      <4>1. run' = [NextItem(FALSE) EXCEPT !.known = run.known]
        BY <3>2, <1>1 DEF NextItem, Judged
      <4>2. (faults' = 0 => Exact(Item, FALSE)) /\ Checked(o)'
        BY <3>1, <3>2, <2>6, <1>4 DEF Exact, Checked
      <4> QED
        BY <4>1, <4>2, <2>2, <2>3, <2>4, <2>5, <2>6, <1>1, <1>7
    <3>3. CASE ~ignoreUnknown /\ run' = [run EXCEPT !.pc = "exists"]
      <4>1. Unread(Item, refused', faults')
        BY <3>1, <3>3 DEF Unread
      <4> QED
        BY <4>1, <3>3, <2>2, <2>3, <2>4, <2>5, <1>8
    <3>4. CASE run' = NextItem(TRUE) /\ f # "ok"
      BY <3>4, <2>7
    <3> QED
      BY <3>2, <3>3, <3>4, <2>1, <2>9
  <2> QED
    BY <2>1, <2>7, <2>8, <2>9
<1>15. CASE Exists
  <2>1. Unread(Item, refused, faults) /\ UNCHANGED refused
    BY <1>1, <1>15 DEF Exists, Judged
  <2>2. CASE Gvk[Item] \in run.known
    <3>1. run' = [NextItem(FALSE) EXCEPT !.known = run.known] /\ UNCHANGED discoveryVars
      BY <2>2, <1>1, <1>15 DEF Exists, NextItem, Judged
    <3>2. PICK o : o = Item
      OBVIOUS
    <3>ok. (faults' = 0 => Exact(Item, FALSE)) /\ Checked(o)'
      BY <3>1, <3>2, <2>1, <2>2, <1>1, <1>4, <1>10 DEF Exact, Checked, Unread
    <3>3. \A c \in Callers : call'[c].pc = "idle"
      BY <3>1, <1>10, <1>11, <1>15 DEF Exists
    <3>4. faults' \in Nat /\ faults <= faults' /\ DiscoveryInv' /\ ClientFits(always, ever, 0)'
      BY <3>1, <1>1, <1>10
    <3> QED
      BY <3>1, <3>2, <3>3, <3>4, <3>ok, <2>1, <1>1, <1>7
  <2>3. CASE Gvk[Item] \notin run.known
    <3>1. run' = [run EXCEPT !.pc = "asked"] /\ Begin(Validator, "resources", Gvk[Item][1])
      BY <2>3, <1>15 DEF Exists
    <3> QED
      BY <3>1, <2>1, <1>6, <1>9
  <2> QED
    BY <2>2, <2>3
<1>16. CASE Answered
  <2>1. PICK known : known = Learnt(answer[Validator])
    OBVIOUS
  <2>2. PICK errors \in BOOLEAN : errors = (Gvk[Item] \notin known)
    OBVIOUS
  <2>3. /\ run' = [NextItem(errors) EXCEPT !.known = known] /\ UNCHANGED discoveryVars
        /\ run.pc = "asked" /\ call[Validator].pc = "idle" /\ UNCHANGED refused
    BY <2>1, <2>2, <1>16 DEF Answered, Returned
  <2>4. PICK gv, a : gv = Gvk[Item][1] /\ a = answer[Validator]
    OBVIOUS
  <2>5. ResourcesFit(gv, a, always, ever, 0) /\ a.entry.kinds \subseteq Kinds
    BY <2>3, <2>4, <1>1, <1>2 DEF Asking, DiscoveryInv, DiscoveryTypeOK, Answer, Entry
  <2>6. known = IF a.status = "answered" /\ a.entry.err = "none"
                THEN run.known \cup ({gv} \X a.entry.kinds) ELSE run.known
    BY <2>1, <2>4 DEF Learnt
  <2>7. known \subseteq seen.served /\ known \in SUBSET Pairs
    <3>1. CASE a.status = "answered" /\ a.entry.err = "none"
      <4>1. \A k \in a.entry.kinds : <<gv, k>> \in ever
        BY <3>1, <2>5 DEF ResourcesFit, EntryFits
      <4>2. {gv} \X a.entry.kinds \subseteq ever
        BY <4>1
      <4>3. {gv} \X a.entry.kinds \subseteq Pairs
        <5>1. gv \in GVs /\ a.entry.kinds \subseteq Kinds
          BY <2>4, <2>5, <1>6
        <5> QED
          BY <5>1 DEF Pairs
      <4> QED
        BY <4>2, <4>3, <3>1, <2>6, <1>1, <1>2
    <3>2. CASE ~(a.status = "answered" /\ a.entry.err = "none")
      BY <3>2, <2>6, <1>1
    <3> QED
      BY <3>1, <3>2
  <2>8. Unread(Item, refused, faults)
    BY <2>3, <1>1 DEF Judged
  <2>9. ASSUME faults = 0, Gvk[Item] \notin seen.unserved
        PROVE  ~errors
    <3>1. <<gv, Gvk[Item][2]>> \in always
      BY <2>4, <2>9, <1>2, <1>6
    <3>2. a.status = "answered"
      BY <3>1, <2>5, <2>9, <1>6 DEF ResourcesFit
    <3>3. a.entry.err = "none" /\ Gvk[Item][2] \in a.entry.kinds
      BY <3>1, <3>2, <2>5, <2>9, <1>6 DEF ResourcesFit, EntryFits
    <3>4. Gvk[Item] \in {gv} \X a.entry.kinds
      BY <3>3, <2>4, <1>6
    <3> QED
      BY <3>2, <3>3, <3>4, <2>2, <2>6
  <2>10. Gvk[Item] \notin seen.served => errors
    BY <2>2, <2>7
  <2>item. PICK o : o = Item
    OBVIOUS
  <2>11. (faults' = 0 => Exact(Item, errors)) /\ (~errors => Checked(o)')
    BY <2>3, <2>8, <2>9, <2>10, <2>item, <1>4, <1>10 DEF Exact, Checked, Unread
  <2>12. \A c \in Callers : call'[c].pc = "idle"
    BY <2>3, <1>10, <1>11 DEF Returned
  <2>13. faults' \in Nat /\ faults <= faults' /\ DiscoveryInv' /\ ClientFits(always, ever, 0)'
    BY <2>3, <1>1, <1>10
  <2> QED
    BY <2>3, <2>7, <2>11, <2>12, <2>13, <2>item, <1>1, <1>7
<1> QED
  BY <1>12, <1>13, <1>14, <1>15, <1>16 DEF Proceed

\* The client works on the command's call.
LEMMA DiscoverInv ==
  ASSUME ValidateInv, Discover(Validator), UNCHANGED <<schemas, schemaChanges, ignoreUnknown, seen>>
  PROVE  ValidateInv'
<1>1. /\ DiscoveryInv /\ Judged /\ Asking /\ Validator \in Callers /\ UNCHANGED <<run, refused>>
      /\ refused \subseteq Items
  BY ValidateAssumption DEF ValidateInv, Discover
<1>2. PICK always, ever : always = Pairs \ seen.unserved /\ ever = seen.served
  OBVIOUS
<1>3. ClientFits(always, ever, 0)
  BY <1>2 DEF ValidateInv, Validating
<1>4. PICK gv : gv = call[Validator].gv
  OBVIOUS
<1>5. /\ call[Validator].pc # "idle"
      /\ \/ run.pc = "named" /\ call[Validator].op = "groups"
         \/ run.pc = "asked" /\ call[Validator].op = "resources" /\ gv = Gvk[Item][1]
  <2>1. call[Validator].pc # "idle"
    BY <1>1 DEF Discover, Acquire, FetchCore, FetchGroups, FetchOne, Commit, AnswerGroups, AnswerResources, Pc
  <2> QED
    BY <2>1, <1>1, <1>4 DEF Asking
<1>6. Item' = Item
  BY <1>1 DEF Item
<1>7. DiscoveryInv'
  BY <1>1, AcquireInv, FetchCoreInv, FetchGroupsInv, FetchOneInv, CommitInv, AnswerGroupsInv,
     AnswerResourcesInv DEF Discover
\* Why it is enough to look at the call.
<1>8. ASSUME faults \in Nat, faults' \in Nat, faults <= faults', ClientFits(always, ever, 0)',
             \A c \in Callers \ {Validator} : call'[c] = call[c],
             \/ /\ call'[Validator].pc # "idle"
                /\ call'[Validator].op = call[Validator].op /\ call'[Validator].gv = gv
             \/ /\ call'[Validator].pc = "idle"
                /\ run.pc = "asked" => ResourcesFit(gv, answer[Validator], always, ever, 0)'
      PROVE  ValidateInv'
  <2>1. Judged'
    <3>1. run' = [run EXCEPT !.pc = run.pc]
      BY <1>1 DEF Judged
    <3>2. run.pc \in {"exists", "asked"} => Unread(Item, refused', faults')
      BY <1>1, <1>8 DEF Judged, Unread
    <3> QED
      BY <3>1, <3>2, <1>1, <1>5, <1>8, MovesJudged
  <2>2. Asking'
    <3>1. always = Pairs \ seen'.unserved /\ ever = seen'.served
      BY <1>2
    <3> QED
      BY <3>1, <1>1, <1>5, <1>6, <1>8 DEF Asking
  <2> QED
    BY <2>1, <2>2, <1>1, <1>2, <1>7, <1>8, CommandStepInv
<1>9. faults \in Nat
  BY <1>1 DEF DiscoveryInv, DiscoveryTypeOK
<1>10. CASE Acquire(Validator)
  <2>1. UNCHANGED faults /\ ClientFits(always, ever, 0)'
    BY <1>1, <1>3, <1>10, AcquireFits DEF Acquire, serverVars
  <2>2. PICK label : label \in {"lookup", "refresh"} /\ Goto(Validator, label)
    BY <1>10 DEF Acquire
  <2>3. /\ call'[Validator].pc # "idle"
        /\ call'[Validator].op = call[Validator].op /\ call'[Validator].gv = gv
        /\ \A c \in Callers \ {Validator} : call'[c] = call[c]
    BY <2>2, <1>1, <1>4, GotoCalls
  <2> QED
    BY <2>1, <2>3, <1>8, <1>9
<1>11. CASE FetchCore(Validator) \/ FetchGroups(Validator)
  <2>1. /\ ClientFits(always, ever, 0)' /\ faults' \in Nat /\ faults <= faults'
        /\ \A d \in Callers \ {Validator} : call'[d] = call[d]
        /\ \/ call'[Validator] = Idle /\ answer'[Validator].status = "failed" /\ faults' # 0
           \/ /\ call'[Validator].pc \in {"apis", "lookup", "fetching"}
              /\ call'[Validator].op = call[Validator].op /\ call'[Validator].gv = gv
    BY <1>1, <1>3, <1>4, <1>11, FetchCoreFits, FetchGroupsFits
  <2>2. call'[Validator] = Idle => /\ call'[Validator].pc = "idle"
                                   /\ ResourcesFit(gv, answer[Validator], always, ever, 0)'
    BY <2>1, NothingType DEF ResourcesFit
  <2> QED
    BY <2>1, <2>2, <1>8, <1>9
<1>12. CASE FetchOne(Validator)
  BY <1>1, <1>3, <1>4, <1>5, <1>8, <1>12, FetchOneFits
<1>13. CASE Commit(Validator)
  BY <1>1, <1>3, <1>4, <1>8, <1>9, <1>13, CommitFits
<1>14. CASE AnswerGroups(Validator)
  <2>1. run.pc = "named"
    BY <1>5, <1>14 DEF AnswerGroups
  <2>2. /\ ClientFits(always, ever, 0)' /\ UNCHANGED faults /\ call'[Validator] = Idle
        /\ \A d \in Callers \ {Validator} : call'[d] = call[d]
    BY <1>1, <1>3, <1>14, AnswerGroupsFits
  <2> QED
    BY <2>1, <2>2, <1>8, <1>9, NothingType
<1>15. CASE AnswerResources(Validator)
  <2>1. /\ ClientFits(always, ever, 0)' /\ faults' \in Nat /\ faults <= faults'
        /\ \A d \in Callers \ {Validator} : call'[d] = call[d]
        /\ call'[Validator] = Idle
        /\ ResourcesFit(gv, answer[Validator], always, ever, 0)'
    BY <1>1, <1>3, <1>4, <1>15, AnswerResourcesFits
  <2> QED
    BY <2>1, <1>8, <1>9, NothingType
<1> QED
  BY <1>10, <1>11, <1>12, <1>13, <1>14, <1>15 DEF Discover

----------------------------------------------------------------------------
\* `kubecfg validate`: the theorems.

LEMMA ValidateNextInv ==
  ValidateInv /\ [ValidateNext]_validateCmdVars => ValidateInv'
<1> SUFFICES ASSUME ValidateInv, [ValidateNext]_validateCmdVars
             PROVE  ValidateInv'
  OBVIOUS
<1>1. CASE KindsChange \/ SchemaChange
  BY <1>1, ServerInv
<1>2. CASE Proceed /\ UNCHANGED <<schemas, schemaChanges, ignoreUnknown, seen>>
  BY <1>2, ProceedInv
<1>3. CASE Discover(Validator) /\ UNCHANGED <<schemas, schemaChanges, ignoreUnknown, seen>>
  BY <1>3, DiscoverInv
<1>4. CASE UNCHANGED validateCmdVars
  <2>1. UNCHANGED <<schemas, schemaChanges, ignoreUnknown, seen, run, refused>> /\ UNCHANGED discoveryVars
        /\ UNCHANGED <<faults, call, answer>>
    BY <1>4 DEF validateCmdVars, validateVars, discoveryVars
  <2>2. PICK always, ever : always = Pairs \ seen.unserved /\ ever = seen.served
    OBVIOUS
  <2>3. DiscoveryInv /\ ClientFits(always, ever, 0)
    BY <2>2 DEF ValidateInv, Validating
  <2>4. DiscoveryInv' /\ ClientFits(always, ever, 0)'
    BY <2>1, <2>3, QuietInv
  <2>5. Judged'
    BY <2>1 DEF ValidateInv, Judged, Item, Exact, Checked, Unread
  <2>6. Asking'
    BY <2>1 DEF ValidateInv, Asking, Item, ResourcesFit, EntryFits
  <2> QED
    BY <2>1, <2>2, <2>4, <2>5, <2>6, CommandStepInv DEF ValidateInv
<1> QED
  BY <1>1, <1>2, <1>3, <1>4 DEF ValidateNext

\* The invariant holds throughout.
THEOREM ValidateInvariance == ValidateSpec => []ValidateInv
<1>1. ValidateInit => ValidateInv
  BY ValidateInitInv
<1>2. ValidateInv /\ [ValidateNext]_validateCmdVars => ValidateInv'
  BY ValidateNextInv
<1> QED
  BY <1>1, <1>2, PTL DEF ValidateSpec

LEMMA ValidateTypes == ValidateInv => ValidateTypeOK
BY DEF ValidateInv, Judged, ValidateTypeOK

\* Every variable of the command keeps to its type; what it takes for known was
\* served, and nothing is reported before its turn.
THEOREM ValidateTypeCorrect == ValidateSpec => []ValidateTypeOK
<1> QED
  BY ValidateTypes, ValidateInvariance, PTL

\* What passes was checked, or did not have to be: however the server changes
\* between two requests, and whatever fails.
THEOREM PassChecked == ValidateSpec => []PassMeansChecked
<1>1. ValidateInv => PassMeansChecked
  <2> SUFFICES ASSUME ValidateInv, run.pc = "passed", NEW j \in 1 .. Len(Order)
               PROVE  Checked(Order[j])
    BY DEF PassMeansChecked, Checked
  <2>1. run.i = Len(Order) + 1 /\ run.reported = {} /\ Len(Order) \in Nat
    BY ValidateAssumption DEF ValidateInv, Judged
  <2>2. j \in 1 .. run.i - 1
    BY <2>1
  <2> QED
    BY <2>1, <2>2 DEF ValidateInv, Judged
<1> QED
  BY <1>1, ValidateInvariance, PTL

\* Without a failed request the report is right about each object whose kind was
\* the same all the time, after however many errors.
THEOREM ReportExact == ValidateSpec => []ReportIsExact
<1>1. ValidateInv => ReportIsExact
  <2> SUFFICES ASSUME ValidateInv, Over, faults = 0, NEW j \in 1 .. Len(Order)
               PROVE  Exact(Order[j], Order[j] \in run.reported)
    BY DEF ReportIsExact, Exact
  <2>1. run.i = Len(Order) + 1 /\ Len(Order) \in Nat
    BY ValidateAssumption DEF ValidateInv, Judged, Over
  <2>2. j \in 1 .. run.i - 1
    BY <2>1
  <2> QED
    BY <2>2 DEF ValidateInv, Judged
<1> QED
  BY <1>1, ValidateInvariance, PTL

----------------------------------------------------------------------------
\* The mapper: the invariant.

\* Who calls the client, and for what.
CallOf(c) ==
  \/ c = Main /\ At("groups") /\ call[c].op = "groups"
  \/ c = Main /\ At("fresh") /\ call[c].op = "fresh" /\ call[c].pc = "waiting"
  \/ c = Main /\ (At("poll") \/ At("reset")) /\ call[c].op = "invalidate" /\ call[c].pc = "waiting"
  \/ /\ c \in GVs /\ At("join") /\ c \in main.groups
     /\ call[c].op = "resources" /\ call[c].gv = c /\ call[c].pc \in {"waiting", "lookup"}

\* The goroutines ask for the group versions of the valid cache, and each gets an
\* answer that fits.
Joined ==
  /\ cache.valid /\ main.groups = cache.data.groups
  /\ \A gv \in main.groups :
       call[gv].pc = "idle" => /\ answer[gv].status = "answered"
                               /\ ResourcesFit(gv, answer[gv], steady, Pairs, faultsAt)

\* The groups that the client has answered are those of its cache; with none, what
\* is served was left out.
Grouped ==
  /\ answer[Main].status \in {"failed", "answered"}
  /\ answer[Main].status = "answered" => /\ answer[Main].groups = cache.data.groups
                                         /\ cache.valid <=> answer[Main].groups # {}
                                         /\ ~cache.valid =>
                                              \A p \in steady : Missed(p, faultsAt)

Calling ==
  /\ \A c \in Callers : call[c].pc # "idle" => CallOf(c)
  /\ At("join") => Joined
  /\ At("groups") /\ Back => Grouped
  /\ At("fresh") /\ Back /\ answer[Main].status = "fresh" => cache.valid

\* What the thread is at fits what it has.  Until the walk, the cache becomes valid
\* only while there is no delegate, so that one beside a valid cache was made of
\* what is in the cache.
Mapping ==
  /\ main.result # "none" => At("idle")
  /\ main.pc \in {"groups", "join"} => /\ main.job \in {"lookup", "walk"}
                                       /\ main.job = "lookup" => ~delegate.built
  /\ main.pc \in {"consult", "fresh"} => delegate.built
  /\ main.pc \in {"consult", "fresh", "reset"} => main.job = "lookup"
  /\ At("poll") => main.job = "poll"
  /\ At("fresh") => main.pair \notin delegate.pairs
  /\ At("idle") /\ main.job = "walk" => walked # None
  /\ (/\ delegate.built /\ cache.valid /\ walked = None
      /\ main.job # "walk" /\ faults = faultsAt) => steady \subseteq delegate.pairs

MapperInv ==
  /\ DiscoveryInv /\ ClientFits(steady, Pairs, faultsAt)
  /\ MapperTypeOK /\ Calling /\ Mapping
  /\ SteadyFound /\ WalkComplete

Mains == [pc: {"idle", "groups", "join", "consult", "fresh", "reset", "poll"},
          job: {"none", "lookup", "walk", "poll"}, pair: {None} \cup Pairs,
          groups: SUBSET GVs, result: {"none", "found", "nomatch", "failed", "ok"}]

----------------------------------------------------------------------------
\* The mapper: the ways to take a step.

LEMMA ThreadNames == GVs \subseteq Callers /\ Main \in Callers /\ Main \notin GVs
BY MapperAssumption

\* Unless goroutines are at work, nobody but the thread calls the client.
LEMMA OthersIdle ==
  ASSUME Calling, main.pc # "join"
  PROVE  \A c \in Callers \ {Main} : call[c].pc = "idle"
BY DEF Calling, CallOf, At

LEMMA MapperInitInv == MapperInit => MapperInv
<1> SUFFICES ASSUME MapperInit
             PROVE  MapperInv
  OBVIOUS
<1>1. DiscoveryInv
  BY InitInv DEF MapperInit
<1>2. /\ cache.valid = FALSE /\ cache.data = Nothing /\ faults = 0
      /\ \A c \in Callers : call[c] = Idle
      /\ steady = Serves(served) /\ faultsAt = 0 /\ walked = None
      /\ main = AtRest /\ delegate = [built |-> FALSE, pairs |-> {}]
  BY DEF MapperInit, DiscoveryInit
<1>3. Serves(served) \subseteq Pairs /\ \A c \in Callers : call[c].pc = "idle"
  BY <1>2, NothingType DEF Serves
<1>4. ClientFits(steady, Pairs, faultsAt)
  <2>1. DataFits(cache.data, steady, Pairs, faultsAt)
    BY <1>2, NothingFits
  <2> QED
    BY <1>2, <1>3, <2>1 DEF ClientFits, Pc
<1>5. /\ main.pc = "idle" /\ main.job = "none" /\ main.result = "none" /\ main \in Mains
      /\ delegate.built = FALSE /\ delegate \in [built: BOOLEAN, pairs: SUBSET Pairs]
  BY <1>2 DEF AtRest, Mains
<1>6. MapperTypeOK
  BY <1>2, <1>3, <1>5, ThreadNames, DiscoveryAssumption DEF MapperTypeOK, Mains
<1>7. Calling
  BY <1>3, <1>5 DEF Calling, At
<1>8. Mapping /\ SteadyFound /\ WalkComplete
  BY <1>5 DEF Mapping, SteadyFound, WalkComplete, At
<1> QED
  BY <1>1, <1>4, <1>6, <1>7, <1>8 DEF MapperInv

\* The thread goes on without the client.
LEMMA QuietStep ==
  ASSUME MapperInv, UNCHANGED discoveryVars, UNCHANGED <<steady, faultsAt>>,
         \A c \in Callers : call[c].pc = "idle",
         main' \in Mains, main'.pc \in {"idle", "consult"},
         delegate' \in [built: BOOLEAN, pairs: SUBSET Pairs], walked' \in {None} \cup SUBSET Pairs,
         Mapping', SteadyFound', WalkComplete'
  PROVE  MapperInv'
<1>1. PICK always, n : always = steady /\ n = faultsAt
  OBVIOUS
<1>2. DiscoveryInv /\ ClientFits(always, Pairs, n)
  BY <1>1 DEF MapperInv
<1>3. DiscoveryInv' /\ ClientFits(always, Pairs, n)'
  BY <1>2, QuietInv
<1>4. ClientFits(steady, Pairs, faultsAt)'
  BY <1>1, <1>3
<1>5. \A c \in Callers : call'[c].pc = "idle"
  BY DEF discoveryVars
<1>6. MapperTypeOK'
  BY <1>5, ThreadNames DEF MapperInv, MapperTypeOK, Mains
<1>7. Calling'
  BY <1>5 DEF Calling, At
<1> QED
  BY <1>3, <1>4, <1>6, <1>7 DEF MapperInv

\* The thread calls the client.
LEMMA BeginStep ==
  ASSUME MapperInv, UNCHANGED <<steady, faultsAt>>, main.pc # "join",
         NEW op \in {"groups", "fresh", "invalidate"}, Begin(Main, op, None),
         main' \in Mains, main'.result = "none",
         \/ op = "groups" /\ main'.pc = "groups"
         \/ op = "fresh" /\ main'.pc = "fresh"
         \/ op = "invalidate" /\ main'.pc \in {"poll", "reset"},
         delegate' \in [built: BOOLEAN, pairs: SUBSET Pairs], UNCHANGED walked,
         Mapping'
  PROVE  MapperInv'
<1>1. PICK always, n : always = steady /\ n = faultsAt
  OBVIOUS
<1>2. DiscoveryInv /\ ClientFits(always, Pairs, n)
  BY <1>1 DEF MapperInv
<1>3. /\ call'[Main].pc = "waiting" /\ call'[Main].op = op
      /\ \A d \in Callers \ {Main} : call'[d] = call[d]
      /\ UNCHANGED <<faults, cache>>
  BY <1>2, ThreadNames, BeginCalls
<1>4. DiscoveryInv' /\ ClientFits(always, Pairs, n)'
  BY <1>2, ThreadNames, BeginInv, BeginFits
<1>5. ClientFits(steady, Pairs, faultsAt)'
  BY <1>1, <1>4
<1>6. \A d \in Callers \ {Main} : call'[d].pc = "idle"
  BY <1>3, OthersIdle DEF MapperInv
<1>7. MapperTypeOK'
  BY <1>6, ThreadNames DEF MapperInv, MapperTypeOK, Mains
<1>8. Calling'
  BY <1>3, <1>6 DEF Calling, CallOf, At, Back
<1>9. SteadyFound' /\ WalkComplete'
  BY DEF SteadyFound, WalkComplete
<1> QED
  BY <1>4, <1>5, <1>7, <1>8, <1>9 DEF MapperInv

\* AskGroups as such a call.
LEMMA AskGroupsMain ==
  ASSUME NEW job \in {"lookup", "walk"}, NEW pair \in {None} \cup Pairs, AskGroups(job, pair)
  PROVE  /\ main' \in Mains /\ main'.pc = "groups" /\ main'.job = job /\ main'.result = "none"
         /\ Begin(Main, "groups", None)
<1>1. /\ main' = [pc |-> "groups", job |-> job, pair |-> pair, groups |-> {}, result |-> "none"]
      /\ Begin(Main, "groups", None)
  BY DEF AskGroups, AtRest
<1> QED
  BY <1>1 DEF Mains

LEMMA EndMain ==
  ASSUME MapperTypeOK, NEW result \in {"found", "nomatch", "failed", "ok"}, End(result)
  PROVE  /\ main' \in Mains /\ main'.pc = "idle" /\ main'.job = main.job /\ main'.pair = main.pair
         /\ main'.result = result
<1>1. main' = [pc |-> "idle", job |-> main.job, pair |-> main.pair, groups |-> {}, result |-> result]
  BY DEF End, AtRest
<1>2. main.job \in {"none", "lookup", "walk", "poll"} /\ main.pair \in {None} \cup Pairs
  BY DEF MapperTypeOK
<1> QED
  BY <1>1, <1>2 DEF Mains

LEMMA GoMain ==
  ASSUME MapperTypeOK, NEW label \in {"groups", "join", "consult", "fresh", "reset"},
         main' = [main EXCEPT !.pc = label]
  PROVE  /\ main' \in Mains /\ main'.pc = label /\ main'.job = main.job /\ main'.pair = main.pair
         /\ main'.groups = main.groups /\ main'.result = main.result
BY DEF MapperTypeOK, Mains

----------------------------------------------------------------------------
\* The mapper: the steps of the thread.

LEMMA AllIdle ==
  ASSUME Calling, main.pc # "join", main.pc \in {"idle", "consult"} \/ Back
  PROVE  \A c \in Callers : call[c].pc = "idle"
<1>1. call[Main].pc = "idle"
  BY ThreadNames DEF Calling, CallOf, At, Back
<1> QED
  BY <1>1, OthersIdle

LEMMA LookupInv ==
  ASSUME MapperInv, NEW pair \in Pairs, Lookup(pair), UNCHANGED <<steady, faultsAt>>
  PROVE  MapperInv'
<1>1. /\ main.pc = "idle" /\ UNCHANGED <<delegate, walked>> /\ Mapping /\ Calling
      /\ delegate \in [built: BOOLEAN, pairs: SUBSET Pairs] /\ walked \in {None} \cup SUBSET Pairs
  BY DEF Lookup, At, MapperInv, MapperTypeOK
<1>2. main.job = "walk" => walked # None
  BY <1>1 DEF Mapping, At
<1>3. CASE delegate.built
  <2>1. main' = [pc |-> "consult", job |-> "lookup", pair |-> pair, groups |-> {}, result |-> "none"]
        /\ UNCHANGED discoveryVars
    BY <1>3 DEF Lookup, AtRest
  <2>2. main' \in Mains
    BY <2>1 DEF Mains
  <2>3. main'.pc = "consult" /\ main'.job = "lookup" /\ main'.result = "none"
    BY <2>1
  <2>4. UNCHANGED <<faults, cache>>
    BY <2>1 DEF discoveryVars
  <2>5. Mapping'
    BY <2>3, <2>4, <1>1, <1>2, <1>3 DEF Mapping, At
  <2>6. SteadyFound' /\ WalkComplete'
    BY <2>3 DEF SteadyFound, WalkComplete
  <2>7. \A c \in Callers : call[c].pc = "idle"
    BY <1>1, AllIdle
  <2> QED
    BY <2>1, <2>2, <2>3, <2>5, <2>6, <2>7, <1>1, QuietStep
<1>4. CASE ~delegate.built
  <2>1. /\ main' \in Mains /\ main'.pc = "groups" /\ main'.job = "lookup" /\ main'.result = "none"
        /\ Begin(Main, "groups", None)
    BY <1>4, AskGroupsMain DEF Lookup
  <2>2. Mapping'
    BY <2>1, <1>1, <1>4 DEF Mapping, At
  <2> QED
    BY <2>1, <2>2, <1>1, BeginStep
<1> QED
  BY <1>3, <1>4

LEMMA PollInv ==
  ASSUME MapperInv, Poll, UNCHANGED <<steady, faultsAt>>
  PROVE  MapperInv'
<1>1. /\ main.pc = "idle" /\ UNCHANGED <<delegate, walked>> /\ Mapping
      /\ delegate \in [built: BOOLEAN, pairs: SUBSET Pairs]
      /\ walked = None /\ Begin(Main, "invalidate", None)
      /\ main' = [pc |-> "poll", job |-> "poll", pair |-> None, groups |-> {}, result |-> "none"]
  BY DEF Poll, At, AtRest, MapperInv, MapperTypeOK
<1>2. main' \in Mains
  BY <1>1 DEF Mains
<1>3. main'.pc = "poll" /\ main'.job = "poll" /\ main'.result = "none" /\ main.job # "walk"
  BY <1>1 DEF Mapping, At
<1>4. UNCHANGED <<faults, cache>>
  BY <1>1 DEF Begin, serverVars, clientVars
<1>5. Mapping'
  BY <1>1, <1>3, <1>4 DEF Mapping, At
<1> QED
  BY <1>1, <1>2, <1>3, <1>5, BeginStep

LEMMA WalkInv ==
  ASSUME MapperInv, Walk, UNCHANGED <<steady, faultsAt>>
  PROVE  MapperInv'
<1>1. /\ main.pc = "idle" /\ UNCHANGED <<delegate, walked>>
      /\ delegate \in [built: BOOLEAN, pairs: SUBSET Pairs]
      /\ main' \in Mains /\ main'.pc = "groups" /\ main'.job = "walk" /\ main'.result = "none"
      /\ Begin(Main, "groups", None)
  BY AskGroupsMain DEF Walk, At, MapperInv, MapperTypeOK
<1>2. Mapping'
  BY <1>1 DEF Mapping, At
<1> QED
  BY <1>1, <1>2, BeginStep

LEMMA PolledInv ==
  ASSUME MapperInv, Polled, UNCHANGED <<steady, faultsAt>>
  PROVE  MapperInv'
<1>1. /\ main.pc = "poll" /\ Back /\ UNCHANGED <<delegate, walked>> /\ UNCHANGED discoveryVars
      /\ Mapping /\ Calling /\ MapperTypeOK /\ End("ok")
      /\ delegate \in [built: BOOLEAN, pairs: SUBSET Pairs] /\ walked \in {None} \cup SUBSET Pairs
  BY DEF Polled, At, MapperInv, MapperTypeOK
<1>2. /\ main' \in Mains /\ main'.pc = "idle" /\ main'.job = main.job /\ main'.result = "ok"
  BY <1>1, EndMain
<1>3. main.job = "poll"
  BY <1>1 DEF Mapping, At
<1>4. UNCHANGED <<faults, cache>>
  BY <1>1 DEF discoveryVars
<1>5. Mapping' /\ SteadyFound' /\ WalkComplete'
  BY <1>1, <1>2, <1>3, <1>4 DEF Mapping, At, SteadyFound, WalkComplete
<1>6. \A c \in Callers : call[c].pc = "idle"
  BY <1>1, AllIdle
<1> QED
  BY <1>1, <1>2, <1>5, <1>6, QuietStep

LEMMA ConsultInv ==
  ASSUME MapperInv, Consult, UNCHANGED <<steady, faultsAt>>
  PROVE  MapperInv'
<1>1. /\ main.pc = "consult" /\ UNCHANGED <<delegate, walked>>
      /\ Mapping /\ Calling /\ MapperTypeOK
      /\ delegate \in [built: BOOLEAN, pairs: SUBSET Pairs] /\ walked \in {None} \cup SUBSET Pairs
  BY DEF Consult, At, MapperInv, MapperTypeOK
<1>2. main.job = "lookup" /\ delegate.built /\ main.result = "none"
  BY <1>1 DEF Mapping, At, MapperTypeOK
<1>3. CASE main.pair \in delegate.pairs
  <2>1. /\ main' \in Mains /\ main'.pc = "idle" /\ main'.job = main.job /\ main'.result = "found"
        /\ UNCHANGED discoveryVars
    BY <1>1, <1>3, EndMain DEF Consult
  <2>2. UNCHANGED <<faults, cache>>
    BY <2>1 DEF discoveryVars
  <2>3. Mapping' /\ SteadyFound' /\ WalkComplete'
    BY <1>1, <1>2, <2>1, <2>2 DEF Mapping, At, SteadyFound, WalkComplete
  <2>4. \A c \in Callers : call[c].pc = "idle"
    BY <1>1, AllIdle
  <2> QED
    BY <1>1, <2>1, <2>3, <2>4, QuietStep
<1>4. CASE main.pair \notin delegate.pairs
  <2>1. main' = [main EXCEPT !.pc = "fresh"] /\ Begin(Main, "fresh", None)
    BY <1>4 DEF Consult
  <2>2. /\ main' \in Mains /\ main'.pc = "fresh" /\ main'.job = main.job /\ main'.pair = main.pair
        /\ main'.result = main.result
    BY <1>1, <2>1, GoMain
  <2>3. UNCHANGED <<faults, cache>>
    BY <2>1 DEF Begin, serverVars, clientVars
  <2>4. Mapping'
    BY <1>1, <1>2, <1>4, <2>2, <2>3 DEF Mapping, At
  <2> QED
    BY <1>1, <1>2, <2>1, <2>2, <2>4, BeginStep
<1> QED
  BY <1>3, <1>4

LEMMA GotFreshInv ==
  ASSUME MapperInv, GotFresh, UNCHANGED <<steady, faultsAt>>
  PROVE  MapperInv'
<1>1. /\ main.pc = "fresh" /\ Back /\ UNCHANGED <<delegate, walked>>
      /\ Mapping /\ Calling /\ MapperTypeOK
      /\ delegate \in [built: BOOLEAN, pairs: SUBSET Pairs] /\ walked \in {None} \cup SUBSET Pairs
  BY DEF GotFresh, At, MapperInv, MapperTypeOK
<1>2. /\ main.job = "lookup" /\ delegate.built /\ main.result = "none"
      /\ main.pair \notin delegate.pairs
  BY <1>1 DEF Mapping, At, MapperTypeOK
<1>3. CASE answer[Main].status = "fresh"
  <2>1. /\ main' \in Mains /\ main'.pc = "idle" /\ main'.job = main.job /\ main'.result = "nomatch"
        /\ main'.pair = main.pair /\ UNCHANGED discoveryVars
    BY <1>1, <1>3, EndMain DEF GotFresh
  <2>2. UNCHANGED <<faults, cache>>
    BY <2>1 DEF discoveryVars
  <2>3. cache.valid
    BY <1>1, <1>3 DEF Calling, At
  <2>4. Mapping'
    BY <1>1, <1>2, <2>1, <2>2 DEF Mapping, At
  <2>5. SteadyFound' /\ WalkComplete'
    BY <1>1, <1>2, <2>1, <2>2, <2>3 DEF Mapping, SteadyFound, WalkComplete
  <2>6. \A c \in Callers : call[c].pc = "idle"
    BY <1>1, AllIdle
  <2> QED
    BY <1>1, <2>1, <2>4, <2>5, <2>6, QuietStep
<1>4. CASE answer[Main].status # "fresh"
  <2>1. main' = [main EXCEPT !.pc = "reset"] /\ Begin(Main, "invalidate", None)
    BY <1>4 DEF GotFresh
  <2>2. /\ main' \in Mains /\ main'.pc = "reset" /\ main'.job = main.job /\ main'.pair = main.pair
        /\ main'.result = main.result
    BY <1>1, <2>1, GoMain
  <2>3. UNCHANGED <<faults, cache>>
    BY <2>1 DEF Begin, serverVars, clientVars
  <2>4. Mapping'
    BY <1>1, <1>2, <2>2, <2>3 DEF Mapping, At
  <2> QED
    BY <1>1, <1>2, <2>1, <2>2, <2>4, BeginStep
<1> QED
  BY <1>3, <1>4

LEMMA ResetDoneInv ==
  ASSUME MapperInv, ResetDone, UNCHANGED <<steady, faultsAt>>
  PROVE  MapperInv'
<1>1. main.pc = "reset" /\ UNCHANGED walked /\ main.pair \in {None} \cup Pairs
  BY DEF ResetDone, At, MapperInv, MapperTypeOK
<1>2. delegate' = [built |-> FALSE, pairs |-> {}]
  BY DEF ResetDone
<1>3. delegate'.built = FALSE /\ delegate' \in [built: BOOLEAN, pairs: SUBSET Pairs]
  BY <1>2
<1>4. /\ main' \in Mains /\ main'.pc = "groups" /\ main'.job = "lookup" /\ main'.result = "none"
      /\ Begin(Main, "groups", None)
  BY <1>1, AskGroupsMain DEF ResetDone
<1>5. Mapping'
  BY <1>3, <1>4 DEF Mapping, At
<1> QED
  BY <1>1, <1>3, <1>4, <1>5, BeginStep

\* The goroutines of a lookup or of the walk start: each calls the client.
Start(groups) ==
  /\ call' = [c \in Callers |-> IF c \in groups
                                THEN [pc |-> "waiting", op |-> "resources", gv |-> c]
                                ELSE call[c]]
  /\ answer' = [c \in Callers |-> IF c \in groups THEN NoAnswer ELSE answer[c]]
  /\ calledAt' = [c \in Callers |-> IF c \in groups THEN tick ELSE calledAt[c]]

LEMMA StartInv ==
  ASSUME DiscoveryInv, NEW groups \in SUBSET GVs, \A c \in groups : call[c].pc = "idle",
         Start(groups), UNCHANGED <<served, tick, faults, cache, refresh, holder, invalidatedAt, concealed>>
  PROVE  /\ DiscoveryInv'
         /\ \A c \in groups : call'[c].pc = "waiting" /\ call'[c].op = "resources" /\ call'[c].gv = c
         /\ \A c \in Callers \ groups : call'[c] = call[c] /\ answer'[c] = answer[c]
<1>1. /\ call \in [Callers -> Call] /\ answer \in [Callers -> Answer]
      /\ calledAt \in [Callers -> 0 .. MaxChanges] /\ tick \in 0 .. MaxChanges
      /\ groups \subseteq Callers
  BY ThreadNames DEF DiscoveryInv, DiscoveryTypeOK
<1>2. /\ \A c \in groups : [pc |-> "waiting", op |-> "resources", gv |-> c] \in Call
      /\ \A c \in groups : call'[c] = [pc |-> "waiting", op |-> "resources", gv |-> c]
      /\ \A c \in groups : answer'[c] = NoAnswer /\ calledAt'[c] = tick
  BY <1>1 DEF Call, Start
<1>3. \A c \in Callers \ groups : call'[c] = call[c] /\ answer'[c] = answer[c] /\ calledAt'[c] = calledAt[c]
  BY <1>1 DEF Start
<1>4. \A c \in groups : /\ call'[c].pc = "waiting" /\ call'[c].op = "resources" /\ call'[c].gv = c
                        /\ answer'[c].status # "answered"
  <2>1. \A c \in groups : call'[c] = [pc |-> "waiting", op |-> "resources", gv |-> c]
    BY <1>2
  <2>2. \A c \in groups : answer'[c] = NoAnswer
    BY <1>2
  <2>3. NoAnswer.status = "none"
    BY DEF NoAnswer
  <2>4. ASSUME NEW c \in groups
        PROVE  call'[c].pc = "waiting" /\ call'[c].op = "resources" /\ call'[c].gv = c
    <3>1. call'[c] = [pc |-> "waiting", op |-> "resources", gv |-> c]
      BY <2>1
    <3> QED
      BY <3>1
  <2>5. \A c \in groups : answer'[c].status # "answered"
    BY <2>2, <2>3
  <2> QED
    BY <2>4, <2>5
<1>5. /\ call' \in [Callers -> Call] /\ answer' \in [Callers -> Answer]
      /\ calledAt' \in [Callers -> 0 .. MaxChanges]
  BY <1>1, <1>2, <1>3, NothingType DEF Start
<1>6. DiscoveryTypeOK'
  BY <1>5 DEF DiscoveryInv, DiscoveryTypeOK
<1>7. \A c \in groups : call'[c].pc \notin Locked /\ call[c].pc \notin Locked
  BY <1>4 DEF Locked
<1>8. LockHeld'
  BY <1>1, <1>3, <1>7 DEF DiscoveryInv, LockHeld
<1>9. Asked' /\ Dated'
  BY <1>1, <1>2, <1>3, <1>4 DEF DiscoveryInv, Asked, Dated
<1>10. \A c \in Callers : /\ Refreshing(c)' => Refreshing(c)
                          /\ Pc(c, "fetching")' => Pc(c, "fetching")
                          /\ Pc(c, "apis")' => Pc(c, "apis")
  BY <1>3, <1>4 DEF Pc, Refreshing
<1>11. Fetching' /\ FreshSinceInvalidate' /\ Complete'
  BY <1>10 DEF DiscoveryInv, Fetching, FreshSinceInvalidate, NotOlder, Complete
<1>12. TransientIsLive'
  BY <1>3, <1>4 DEF DiscoveryInv, TransientIsLive, Pc
<1> QED
  BY <1>3, <1>4, <1>6, <1>8, <1>9, <1>11, <1>12 DEF DiscoveryInv

LEMMA GotGroupsInv ==
  ASSUME MapperInv, GotGroups, UNCHANGED <<steady, faultsAt>>
  PROVE  MapperInv'
<1>1. /\ main.pc = "groups" /\ Back /\ Mapping /\ Calling /\ MapperTypeOK /\ Grouped
      /\ delegate \in [built: BOOLEAN, pairs: SUBSET Pairs] /\ walked \in {None} \cup SUBSET Pairs
  BY DEF GotGroups, At, MapperInv, MapperTypeOK, Calling
<1>2. /\ main.job \in {"lookup", "walk"} /\ main.result = "none"
      /\ main.job = "lookup" => ~delegate.built
  BY <1>1 DEF Mapping, At, MapperTypeOK
<1>3. \A c \in Callers : call[c].pc = "idle"
  BY <1>1, AllIdle
<1>4. {} # None
  BY MapperAssumption
<1> DEFINE groups == answer[Main].groups
<1>5. CASE /\ answer[Main].status = "failed" /\ End("failed")
           /\ walked' = IF main.job = "walk" THEN {} ELSE walked
           /\ UNCHANGED <<discoveryVars, delegate>>
  <2>1. /\ main' \in Mains /\ main'.pc = "idle" /\ main'.job = main.job /\ main'.result = "failed"
    BY <1>1, <1>5, EndMain
  <2>2. UNCHANGED <<faults, cache>> /\ walked' \in {None} \cup SUBSET Pairs
    BY <1>1, <1>5 DEF discoveryVars
  <2>3. Mapping' /\ SteadyFound' /\ WalkComplete'
    BY <1>1, <1>2, <1>4, <1>5, <2>1, <2>2 DEF Mapping, At, SteadyFound, WalkComplete
  <2> QED
    BY <1>1, <1>3, <1>5, <2>1, <2>2, <2>3, QuietStep
<1>6. CASE /\ answer[Main].status = "answered" /\ groups = {} /\ UNCHANGED discoveryVars
           /\ IF main.job = "walk"
              THEN End("ok") /\ walked' = {} /\ UNCHANGED delegate
              ELSE /\ main' = [main EXCEPT !.pc = "consult"]
                   /\ delegate' = [built |-> TRUE, pairs |-> {}]
                   /\ UNCHANGED walked
  <2>1. UNCHANGED <<faults, cache>> /\ UNCHANGED answer /\ ~cache.valid /\ UNCHANGED discoveryVars
    BY <1>1, <1>6 DEF discoveryVars, Grouped
  <2>2. CASE main.job = "walk"
    <3>1. /\ main' \in Mains /\ main'.pc = "idle" /\ main'.job = main.job /\ main'.result = "ok"
          /\ walked' = {} /\ UNCHANGED delegate
      BY <1>1, <1>6, <2>2, EndMain
    <3>2. Mapping' /\ SteadyFound' /\ WalkComplete'
      <4>1. \A p \in steady : p[1] \in concealed
        BY <1>1, <1>6, <2>1 DEF Grouped, Missed
      <4>2. \A p \in steady' : p[1] \in concealed'
        BY <4>1, <2>1 DEF discoveryVars
      <4> QED
        BY <4>2, <1>1, <1>4, <1>6, <2>1, <2>2, <3>1 DEF Mapping, At, SteadyFound, WalkComplete
    <3> QED
      BY <1>1, <1>3, <2>1, <3>1, <3>2, QuietStep
  <2>3. CASE main.job = "lookup"
    <3>1. /\ main' \in Mains /\ main'.pc = "consult" /\ main'.job = main.job /\ main'.result = "none"
          /\ UNCHANGED walked
      BY <1>1, <1>2, <1>6, <2>3, GoMain
    <3>2. delegate' = [built |-> TRUE, pairs |-> {}]
      BY <1>6, <2>3
    <3>3. delegate'.built /\ delegate' \in [built: BOOLEAN, pairs: SUBSET Pairs]
      BY <3>2
    <3>4. Mapping' /\ SteadyFound' /\ WalkComplete'
      BY <1>1, <2>1, <2>3, <3>1, <3>3 DEF Mapping, At, SteadyFound, WalkComplete
    <3> QED
      BY <1>1, <1>3, <2>1, <3>1, <3>3, <3>4, QuietStep
  <2> QED
    BY <1>2, <2>2, <2>3
<1>7. CASE /\ answer[Main].status = "answered" /\ groups # {}
           /\ main' = [main EXCEPT !.pc = "join", !.groups = groups]
           /\ call' = [c \in Callers |-> IF c \in groups
                                         THEN [pc |-> "waiting", op |-> "resources", gv |-> c]
                                         ELSE call[c]]
           /\ answer' = [c \in Callers |-> IF c \in groups THEN NoAnswer ELSE answer[c]]
           /\ calledAt' = [c \in Callers |-> IF c \in groups THEN tick ELSE calledAt[c]]
           /\ UNCHANGED <<serverVars, clientVars, invalidatedAt, concealed, delegate, walked>>
  <2>1. /\ groups \in SUBSET GVs /\ cache.valid /\ groups = cache.data.groups
        /\ UNCHANGED <<served, tick, faults, cache, refresh, holder, invalidatedAt, concealed,
                       delegate, walked>>
    BY <1>1, <1>7, ThreadNames DEF Grouped, MapperInv, DiscoveryInv, DiscoveryTypeOK, Answer, serverVars, clientVars
  <2>2. /\ main' \in Mains /\ main'.pc = "join" /\ main'.job = main.job /\ main'.result = "none"
        /\ main'.groups = groups
    BY <1>1, <1>2, <1>7, <2>1 DEF MapperTypeOK, Mains
  <2>3. groups \subseteq Callers /\ Main \notin groups
    BY <2>1, ThreadNames
  <2>4. /\ DiscoveryInv'
        /\ \A c \in groups : call'[c].pc = "waiting" /\ call'[c].op = "resources" /\ call'[c].gv = c
        /\ \A c \in Callers \ groups : call'[c] = call[c] /\ answer'[c] = answer[c]
    <3>1. Start(groups)
      BY <1>7 DEF Start
    <3> QED
      BY <1>3, <2>1, <2>3, <3>1, StartInv DEF MapperInv
  <2>5. ClientFits(steady, Pairs, faultsAt)'
    <3>1. PICK always, n : always = steady /\ n = faultsAt
      OBVIOUS
    <3>2. \A c \in Callers : call'[c].pc \in {"idle", "waiting"}
      BY <1>3, <2>4
    <3>3. DiscoveryInv /\ ClientFits(always, Pairs, n)
      BY <3>1 DEF MapperInv
    <3>4. ClientFits(always, Pairs, n)'
      BY <2>1, <3>2, <3>3, RestFits
    <3> QED
      BY <3>1, <3>4
  <2>6. MapperTypeOK'
    <3>1. \A gv \in GVs : call'[gv].pc # "idle" => gv \in groups
      BY <1>3, <2>4, ThreadNames
    <3> QED
      BY <1>1, <2>1, <2>2, <3>1 DEF MapperInv, MapperTypeOK, Mains
  <2>7. Calling'
    <3>1. \A c \in Callers : call'[c].pc # "idle" => CallOf(c)'
      BY <1>3, <2>1, <2>2, <2>4 DEF CallOf, At
    <3>2. Joined'
      BY <2>1, <2>2, <2>4 DEF Joined
    <3> QED
      BY <2>2, <3>1, <3>2 DEF Calling, At
  <2>8. Mapping' /\ SteadyFound' /\ WalkComplete'
    BY <1>1, <1>2, <2>1, <2>2 DEF Mapping, At, SteadyFound, WalkComplete
  <2> QED
    BY <2>4, <2>5, <2>6, <2>7, <2>8 DEF MapperInv
<1> QED
  BY <1>5, <1>6, <1>7 DEF GotGroups

\* What the goroutines have got: nothing steady is missing, but for what failed.
LEMMA GottenFits ==
  ASSUME MapperInv, At("join"), \A gv \in main.groups : call[gv].pc = "idle"
  PROVE  /\ Gotten \in SUBSET Pairs
         /\ \A p \in steady :
              \/ p[1] \in main.groups /\ Got(p[1]) /\ p \in Gotten
              \/ p[1] \in main.groups /\ ~Got(p[1]) /\ faults # faultsAt
              \/ Missed(p, faultsAt)
<1>1. /\ Joined /\ main.groups \in SUBSET GVs /\ steady \in SUBSET Pairs
      /\ answer \in [Callers -> Answer] /\ GVs \subseteq Callers
  BY ThreadNames DEF MapperInv, MapperTypeOK, Calling, DiscoveryInv, DiscoveryTypeOK
<1>2. \A gv \in main.groups : answer[gv].entry.kinds \subseteq Kinds
  BY <1>1 DEF Answer, Entry
<1>3. Gotten \in SUBSET Pairs
  BY <1>1, <1>2 DEF Gotten, Pairs
<1>4. ASSUME NEW p \in steady
      PROVE  \/ p[1] \in main.groups /\ Got(p[1]) /\ p \in Gotten
             \/ p[1] \in main.groups /\ ~Got(p[1]) /\ faults # faultsAt
             \/ Missed(p, faultsAt)
  <2>1. p[1] \in GVs /\ p[2] \in Kinds /\ p = <<p[1], p[2]>>
    BY <1>1 DEF Pairs
  <2>9. p[1] \in main.groups \/ Missed(p, faultsAt)
    BY <1>1 DEF Joined, MapperInv, ClientFits, DataFits
  <2>2. SUFFICES ASSUME p[1] \in main.groups
                 PROVE  \/ p[1] \in main.groups /\ Got(p[1]) /\ p \in Gotten
                        \/ p[1] \in main.groups /\ ~Got(p[1]) /\ faults # faultsAt
    BY <2>9
  <2>3. PICK gv, k : gv = p[1] /\ k = p[2]
    OBVIOUS
  <2>4. /\ answer[gv].status = "answered"
        /\ ResourcesFit(gv, answer[gv], steady, Pairs, faultsAt)
    BY <1>1, <2>2, <2>3 DEF Joined
  <2>5. \/ answer[gv].entry.err = "none" /\ k \in answer[gv].entry.kinds
        \/ answer[gv].entry.err # "none" /\ faults # faultsAt
    BY <2>1, <2>3, <2>4 DEF ResourcesFit, EntryFits
  <2>6. Got(gv) <=> answer[gv].entry.err = "none"
    BY <2>4 DEF Got
  <2>7. Got(gv) => p \in {gv} \X answer[gv].entry.kinds
    BY <2>1, <2>3, <2>5, <2>6
  <2>8. Got(gv) => p \in Gotten
    BY <2>2, <2>3, <2>7 DEF Gotten
  <2> QED
    BY <2>2, <2>3, <2>5, <2>6, <2>8
<1> QED
  BY <1>3, <1>4

LEMMA JoinInv ==
  ASSUME MapperInv, Join, UNCHANGED <<steady, faultsAt>>
  PROVE  MapperInv'
<1>1. /\ main.pc = "join" /\ At("join") /\ UNCHANGED discoveryVars
      /\ \A gv \in main.groups : call[gv].pc = "idle"
      /\ Mapping /\ Calling /\ MapperTypeOK
      /\ delegate \in [built: BOOLEAN, pairs: SUBSET Pairs] /\ walked \in {None} \cup SUBSET Pairs
  BY DEF Join, At, MapperInv, MapperTypeOK
<1>2. /\ main.job \in {"lookup", "walk"} /\ main.result = "none"
      /\ main.job = "lookup" => ~delegate.built
  BY <1>1 DEF Mapping, At, MapperTypeOK
<1>3. \A c \in Callers : call[c].pc = "idle"
  BY <1>1 DEF Calling, CallOf, At
<1>4. {} # None /\ Gotten # None /\ Gotten \in SUBSET Pairs
      /\ \A p \in steady : \/ p[1] \in main.groups /\ Got(p[1]) /\ p \in Gotten
                           \/ p[1] \in main.groups /\ ~Got(p[1]) /\ faults # faultsAt
                           \/ Missed(p, faultsAt)
  BY <1>1, GottenFits, MapperAssumption
<1>5. UNCHANGED <<faults, cache, answer, concealed>>
  BY <1>1 DEF discoveryVars
<1>6. CASE main.job = "walk"
  <2>1. UNCHANGED delegate /\ WalkLists
    BY <1>6 DEF Join
  <2>2. CASE (\A gv \in main.groups : Got(gv)) /\ End("ok") /\ walked' = Gotten
    <3>1. /\ main' \in Mains /\ main'.pc = "idle" /\ main'.job = main.job /\ main'.result = "ok"
      BY <1>1, <2>2, EndMain
    <3>2. /\ \A p \in steady : p \in walked' \/ p[1] \in concealed
          /\ walked' # None /\ walked' \in SUBSET Pairs
      BY <1>4, <2>2 DEF Missed
    <3>3. Mapping' /\ SteadyFound' /\ WalkComplete'
      BY <1>5, <1>6, <3>1, <3>2 DEF Mapping, At, SteadyFound, WalkComplete
    <3> QED
      BY <1>1, <1>3, <2>1, <3>1, <3>2, <3>3, QuietStep
  <2>3. CASE End("failed") /\ walked' = {}
    <3>1. /\ main' \in Mains /\ main'.pc = "idle" /\ main'.job = main.job /\ main'.result = "failed"
      BY <1>1, <2>3, EndMain
    <3>2. Mapping' /\ SteadyFound' /\ WalkComplete'
      BY <1>4, <1>6, <2>3, <3>1 DEF Mapping, At, SteadyFound, WalkComplete
    <3> QED
      BY <1>1, <1>3, <2>1, <2>3, <3>1, <3>2, QuietStep
  <2> QED
    BY <2>1, <2>2, <2>3 DEF WalkLists
<1>7. CASE main.job = "lookup"
  <2>1. /\ main' = [main EXCEPT !.pc = "consult"]
        /\ delegate' = [built |-> TRUE, pairs |-> Gotten] /\ UNCHANGED walked
    BY <1>7 DEF Join
  <2>2. /\ main' \in Mains /\ main'.pc = "consult" /\ main'.job = "lookup" /\ main'.result = "none"
    BY <1>1, <1>2, <1>7, <2>1, GoMain
  <2>3. /\ delegate'.built /\ delegate'.pairs = Gotten
        /\ delegate' \in [built: BOOLEAN, pairs: SUBSET Pairs]
    BY <1>4, <2>1
  <2>4. faults = faultsAt => steady \subseteq Gotten
    BY <1>4 DEF Missed
  <2>5. Mapping' /\ SteadyFound' /\ WalkComplete'
    BY <1>5, <2>2, <2>3, <2>4 DEF Mapping, At, SteadyFound, WalkComplete
  <2> QED
    BY <1>1, <1>3, <2>1, <2>2, <2>3, <2>5, QuietStep
<1> QED
  BY <1>2, <1>6, <1>7

----------------------------------------------------------------------------
\* The mapper: the steps of the client and of the server.

\* The client works on calls that somebody awaits.
LEMMA WorkIsAwaited ==
  ASSUME MapperInv, NEW c \in Callers, Enter(c) \/ Work(c)
  PROVE  CallOf(c) /\ main.pc # "idle" /\ main.result = "none"
<1>1. call[c].pc # "idle"
  BY DEF Enter, Acquire, Fresh, Invalidate, MarkStale, Work, FetchCore, FetchGroups, FetchOne,
         Commit, AnswerGroups, AnswerResources, Pc
<1>2. CallOf(c)
  BY <1>1 DEF MapperInv, Calling
<1> QED
  BY <1>2 DEF CallOf, At, MapperInv, Mapping, MapperTypeOK

LEMMA InvalidateMapper ==
  ASSUME MapperInv, NEW c \in Callers, Invalidate(c), UNCHANGED <<main, delegate, walked>>,
         steady' = Serves(served), faultsAt' = faults
  PROVE  MapperInv'
<1>1. /\ main.pc \in {"poll", "reset"} /\ main.result = "none" /\ c = Main
      /\ call[c].op = "invalidate"
  BY WorkIsAwaited DEF Enter, Invalidate, CallOf, At
<1>2. DiscoveryInv' /\ UNCHANGED <<served, faults>>
  BY InvalidateInv DEF MapperInv, Invalidate, serverVars
<1>3. PICK always, n : always = Serves(served) /\ n = faults
  OBVIOUS
<1>4. ClientFits(always, Pairs, n)'
  BY <1>3, InvalidateFits DEF MapperInv
<1>5. ClientFits(steady, Pairs, faultsAt)'
  BY <1>3, <1>4
<1>6. \A d \in Callers : call'[d].pc = "idle"
  <2>1. call'[c] = Idle /\ \A d \in Callers \ {c} : call'[d] = call[d]
    BY ReturnCalls DEF Invalidate, MapperInv
  <2>2. \A d \in Callers \ {Main} : call[d].pc = "idle"
    BY <1>1, OthersIdle DEF MapperInv
  <2> QED
    BY <1>1, <2>1, <2>2, NothingType
<1>7. MapperTypeOK'
  <2>1. Serves(served) \subseteq Pairs /\ faults \in 0 .. MaxFaults
    BY DEF Serves, MapperInv, DiscoveryInv, DiscoveryTypeOK
  <2> QED
    BY <1>6, <2>1, ThreadNames DEF MapperInv, MapperTypeOK
<1>8. Calling'
  BY <1>1, <1>6 DEF Calling, At
<1>9. cache'.valid = FALSE
  BY DEF Invalidate
<1>10. Mapping' /\ SteadyFound' /\ WalkComplete'
  BY <1>1, <1>9 DEF MapperInv, Mapping, At, SteadyFound, WalkComplete
<1> QED
  BY <1>2, <1>5, <1>7, <1>8, <1>10 DEF MapperInv

LEMMA ClientStepInv ==
  ASSUME MapperInv, NEW c \in Callers, Enter(c) \/ Work(c), ~Invalidate(c),
         UNCHANGED <<main, delegate, walked, steady, faultsAt>>
  PROVE  MapperInv'
<1>1. /\ CallOf(c) /\ main.pc # "idle" /\ main.result = "none"
      /\ DiscoveryInv /\ Calling /\ Mapping /\ MapperTypeOK
  BY WorkIsAwaited DEF MapperInv
<1>2. PICK always, n : always = steady /\ n = faultsAt
  OBVIOUS
<1>3. ClientFits(always, Pairs, n) /\ n \in Nat /\ faults \in Nat /\ n <= faults /\ n \in 0 .. faults
  BY <1>2 DEF MapperInv, ClientFits, DiscoveryInv, DiscoveryTypeOK
<1>4. PICK gv : gv = call[c].gv
  OBVIOUS
\* What there is to show of a step.
<1>5. ASSUME DiscoveryInv', ClientFits(always, Pairs, n)', faults' \in Nat, faults <= faults',
             \A d \in Callers \ {c} : call'[d] = call[d] /\ answer'[d] = answer[d],
             \/ At("groups")
             \/ cache'.valid = cache.valid /\ cache'.data.groups = cache.data.groups,
             call'[c].pc # "idle" => CallOf(c)',
             call'[c].pc = "idle" /\ At("groups") => Grouped',
             call'[c].pc = "idle" /\ At("fresh") /\ answer'[c].status = "fresh" => cache'.valid,
             call'[c].pc = "idle" /\ At("join") => /\ answer'[c].status = "answered"
                                                   /\ ResourcesFit(c, answer[c], always, Pairs, n)'
      PROVE  MapperInv'
  <2>1. ClientFits(steady, Pairs, faultsAt)'
    BY <1>2, <1>5
  <2>2. \A d \in Callers : call'[d].pc # "idle" => CallOf(d)'
    <3>1. ASSUME NEW d \in Callers \ {c}, call'[d].pc # "idle"
          PROVE  CallOf(d)'
      BY <3>1, <1>1, <1>5 DEF Calling, CallOf, At
    <3> QED
      BY <3>1, <1>5
  <2>3. MapperTypeOK'
    BY <2>2, <1>1, ThreadNames DEF MapperTypeOK, CallOf, At
  <2>4. ASSUME main.pc = "join"
        PROVE  Joined'
    <3>1. Joined /\ main.groups \subseteq Callers
      BY <2>4, <1>1, ThreadNames DEF Calling, At, MapperTypeOK
    <3>2. cache'.valid /\ main'.groups = cache'.data.groups
      BY <2>4, <3>1, <1>5 DEF Joined, At
    <3>3. ASSUME NEW g \in main.groups, call'[g].pc = "idle"
          PROVE  answer'[g].status = "answered" /\ ResourcesFit(g, answer[g], always, Pairs, n)'
      <4>1. CASE g = c
        BY <4>1, <3>3, <2>4, <1>5 DEF At
      <4>2. CASE g # c
        <5>1. PICK a : a = answer[g] /\ a = answer'[g]
          BY <4>2, <3>1, <1>5
        <5>2. a.status = "answered" /\ ResourcesFit(g, a, always, Pairs, n) /\ g \in GVs
          BY <4>2, <5>1, <3>1, <3>3, <1>1, <1>2, <1>5 DEF Joined, MapperTypeOK
        <5>3. ResourcesFit(g, a, always, Pairs, n)'
          BY <5>2, <1>3, <1>5, ResourcesLater
        <5> QED
          BY <5>1, <5>2, <5>3
      <4> QED
        BY <4>1, <4>2
    <3>4. \A g \in main'.groups : call'[g].pc = "idle" =>
            answer'[g].status = "answered" /\ ResourcesFit(g, answer[g], steady, Pairs, faultsAt)'
      BY <3>3, <1>2
    <3> QED
      BY <3>2, <3>4 DEF Joined
  <2>5. c = Main \/ main.pc = "join"
    BY <1>1 DEF CallOf, At
  <2>6. Calling'
    BY <2>2, <2>4, <2>5, <1>5 DEF Calling, At, Back
  <2>7. Mapping'
    <3>1. faults' = faultsAt => faults = faultsAt
      BY <1>2, <1>3, <1>5
    <3> QED
      BY <3>1, <1>1, <1>5 DEF Mapping, At
  <2>8. SteadyFound' /\ WalkComplete'
    BY <1>1 DEF SteadyFound, WalkComplete
  <2> QED
    BY <2>1, <2>3, <2>6, <2>7, <2>8, <1>5 DEF MapperInv
<1>6. CASE Acquire(c)
  <2>1. /\ ClientFits(always, Pairs, n)' /\ DiscoveryInv'
    BY <1>1, <1>3, <1>6, AcquireFits, AcquireInv
  <2>2. UNCHANGED <<faults, cache, answer>> /\ call[c].pc = "waiting" /\ call[c].op \in {"groups", "resources"}
    BY <1>6 DEF Acquire, serverVars, Pc
  <2>3. PICK label : label = (IF cache.valid THEN "lookup" ELSE "refresh") /\ Goto(c, label)
    BY <1>6 DEF Acquire
  <2>4. /\ call'[c].pc = label /\ call'[c].op = call[c].op /\ call'[c].gv = call[c].gv
        /\ \A d \in Callers \ {c} : call'[d] = call[d]
    BY <1>1, <2>3, GotoCalls
  <2>5. main.pc = "join" => cache.valid
    BY <1>1 DEF Calling, At, Joined
  <2>6. CallOf(c)' /\ call'[c].pc # "idle"
    BY <1>1, <2>2, <2>3, <2>4, <2>5 DEF CallOf, At
  <2> QED
    BY <2>1, <2>2, <2>4, <2>6, <1>3, <1>5
<1>7. CASE Fresh(c)
  <2>1. /\ ClientFits(always, Pairs, n)' /\ DiscoveryInv'
        /\ answer'[c].status = "fresh" <=> cache.valid
    BY <1>1, <1>3, <1>7, FreshFits, FreshInv
  <2>2. UNCHANGED <<faults, cache>> /\ call[c].op = "fresh"
    BY <1>7 DEF Fresh, serverVars
  <2>3. PICK status : Return(c, status, {}, NoEntry, tick)
    BY <1>7 DEF Fresh
  <2>4. call'[c] = Idle /\ \A d \in Callers \ {c} : call'[d] = call[d] /\ answer'[d] = answer[d]
    BY <1>1, <2>3, ReturnCalls
  <2>5. main.pc = "fresh" /\ call'[c].pc = "idle"
    BY <1>1, <2>2, <2>4, NothingType DEF CallOf, At
  <2> QED
    BY <2>1, <2>2, <2>4, <2>5, <1>3, <1>5 DEF At
<1>8. ~MarkStale(c)
  BY <1>1 DEF MarkStale, CallOf
<1>9. call[c].pc \in {"refresh", "apis", "fetching"} \/ (call[c].pc = "lookup" /\ call[c].op = "groups") =>
        /\ main.pc = "groups" /\ At("groups") /\ ~At("fresh") /\ ~At("join")
        /\ c = Main /\ call[c].op = "groups"
  BY <1>1, ThreadNames DEF CallOf, At
<1>10. CASE FetchCore(c) \/ FetchGroups(c)
  <2>1. /\ main.pc = "groups" /\ At("groups") /\ ~At("fresh") /\ ~At("join")
        /\ c = Main /\ call[c].op = "groups"
    <3>1. call[c].pc \in {"refresh", "apis"}
      BY <1>10 DEF FetchCore, FetchGroups, Pc
    <3> QED
      BY <3>1, <1>9
  <2>2. /\ ClientFits(always, Pairs, n)' /\ DiscoveryInv'
        /\ faults' \in Nat /\ faults <= faults'
        /\ \A d \in Callers \ {c} : call'[d] = call[d] /\ answer'[d] = answer[d]
        /\ \/ call'[c] = Idle /\ answer'[c].status = "failed"
           \/ /\ call'[c].pc \in {"apis", "lookup", "fetching"}
              /\ call'[c].op = call[c].op /\ call'[c].gv = call[c].gv
    BY <1>1, <1>3, <1>10, FetchCoreFits, FetchGroupsFits, FetchCoreInv, FetchGroupsInv
  <2>3. call'[c].pc # "idle" => CallOf(c)'
    BY <2>1, <2>2, NothingType DEF CallOf, At
  <2>4. call'[c].pc = "idle" => Grouped'
    BY <2>1, <2>2 DEF Grouped
  <2> QED
    BY <2>1, <2>2, <2>3, <2>4, <1>5
<1>11. CASE FetchOne(c)
  <2>1. /\ main.pc = "groups" /\ At("groups") /\ ~At("fresh") /\ ~At("join")
        /\ c = Main /\ call[c].op = "groups" /\ call[c].pc = "fetching"
    <3>1. call[c].pc = "fetching"
      BY <1>11 DEF FetchOne, Pc
    <3> QED
      BY <3>1, <1>9
  <2>2. /\ ClientFits(always, Pairs, n)' /\ DiscoveryInv'
        /\ faults' \in Nat /\ faults <= faults' /\ UNCHANGED <<call, answer>>
    BY <1>1, <1>3, <1>11, FetchOneFits, FetchOneInv
  <2>3. CallOf(c)' /\ call'[c].pc # "idle"
    BY <1>1, <2>1, <2>2 DEF CallOf, At
  <2> QED
    BY <2>1, <2>2, <2>3, <1>3, <1>5
<1>12. CASE Commit(c)
  <2>1. /\ main.pc = "groups" /\ At("groups") /\ ~At("fresh") /\ ~At("join")
        /\ c = Main /\ call[c].op = "groups" /\ call[c].pc = "fetching"
    <3>1. call[c].pc = "fetching"
      BY <1>12 DEF Commit, Pc
    <3> QED
      BY <3>1, <1>9
  <2>2. /\ ClientFits(always, Pairs, n)' /\ DiscoveryInv' /\ UNCHANGED <<faults, answer>>
        /\ call'[c].pc = "lookup" /\ call'[c].op = call[c].op
        /\ \A d \in Callers \ {c} : call'[d] = call[d]
    BY <1>1, <1>3, <1>12, CommitFits, CommitInv
  <2>3. CallOf(c)' /\ call'[c].pc # "idle"
    BY <2>1, <2>2 DEF CallOf, At
  <2> QED
    BY <2>1, <2>2, <2>3, <1>3, <1>5
<1>13. CASE AnswerGroups(c)
  <2>1. main.pc = "groups" /\ At("groups") /\ ~At("fresh") /\ ~At("join") /\ c = Main
    BY <1>9, <1>13 DEF AnswerGroups, Pc
  <2>2. /\ ClientFits(always, Pairs, n)' /\ DiscoveryInv' /\ UNCHANGED <<faults, cache, concealed>>
        /\ call'[c] = Idle /\ answer'[c].status = "answered"
        /\ answer'[c].groups = cache.data.groups
        /\ \A d \in Callers \ {c} : call'[d] = call[d] /\ answer'[d] = answer[d]
    BY <1>1, <1>3, <1>13, AnswerGroupsFits, AnswerGroupsInv DEF AnswerGroups
  <2>3. cache.valid <=> cache.data.groups # {}
    BY <1>1, <1>3, NothingType DEF ClientFits, DiscoveryInv, DiscoveryTypeOK
  <2>5. ~cache.valid => \A p \in steady : Missed(p, faultsAt)
    BY <1>2, <1>3, <1>13 DEF ClientFits, AnswerGroups
  <2>4. Grouped' /\ call'[c].pc = "idle"
    BY <2>1, <2>2, <2>3, <2>5, NothingType DEF Grouped, Missed
  <2> QED
    BY <2>1, <2>2, <2>4, <1>3, <1>5 DEF At
<1>14. CASE AnswerResources(c)
  <2>1. /\ main.pc = "join" /\ c \in main.groups /\ gv = c /\ c \in GVs
    BY <1>1, <1>4, <1>14 DEF AnswerResources, CallOf, At
  <2>2. cache.valid /\ gv \in cache.data.groups
    BY <1>1, <2>1 DEF Calling, At, Joined
  <2>3. /\ ClientFits(always, Pairs, n)' /\ DiscoveryInv' /\ faults' \in Nat /\ faults <= faults'
        /\ cache'.valid = cache.valid /\ cache'.data.groups = cache.data.groups
        /\ call'[c] = Idle /\ answer'[c].status = "answered"
        /\ ResourcesFit(gv, answer[c], always, Pairs, n)'
        /\ \A d \in Callers \ {c} : call'[d] = call[d] /\ answer'[d] = answer[d]
    BY <1>1, <1>3, <1>4, <1>14, <2>2, AnswerResourcesFits, AnswerResourcesInv
  <2>4. ResourcesFit(c, answer[c], always, Pairs, n)' /\ call'[c].pc = "idle"
    BY <2>1, <2>3, NothingType
  <2> QED
    BY <2>1, <2>3, <2>4, <1>5 DEF At
<1> QED
  BY <1>6, <1>7, <1>8, <1>10, <1>11, <1>12, <1>13, <1>14 DEF Enter, Work

\* The server changes: what is steady shrinks.
LEMMA ChangeMapper ==
  ASSUME MapperInv, Change, UNCHANGED <<main, delegate, walked>>,
         steady' = steady \cap Serves(served'), UNCHANGED faultsAt
  PROVE  MapperInv'
<1>1. /\ DiscoveryInv' /\ UNCHANGED <<faults, cache, refresh, call, answer, concealed>> /\ faults \in Nat
      /\ DiscoveryInv /\ Calling /\ Mapping /\ MapperTypeOK
  <2>1. DiscoveryInv' /\ DiscoveryInv /\ Calling /\ Mapping /\ MapperTypeOK
    BY ChangeInv DEF MapperInv
  <2>2. UNCHANGED <<faults, cache, refresh, call, answer, concealed>>
    BY DEF Change, clientVars
  <2>3. faults \in Nat
    BY <2>1 DEF DiscoveryInv, DiscoveryTypeOK
  <2> QED
    BY <2>1, <2>2, <2>3
<1>2. PICK always, n, always1 : always = steady /\ n = faultsAt /\ always1 = steady'
  OBVIOUS
<1>3. ClientFits(always, Pairs, n) /\ n \in 0 .. faults
  BY <1>2 DEF MapperInv, ClientFits
<1>4. always1 \in SUBSET (always \cap Serves(served')) /\ Pairs \cup Serves(served') \subseteq Pairs
  BY <1>2 DEF Serves
<1>5. ClientFits(always1, Pairs, n)'
  BY <1>1, <1>3, <1>4, ServerMovesFit
<1>6. ClientFits(steady, Pairs, faultsAt)'
  BY <1>2, <1>5
<1>7. MapperTypeOK'
  BY <1>1 DEF MapperTypeOK
<1>8. ASSUME main.pc = "join"
      PROVE  Joined'
  <2>1. Joined /\ main.groups \subseteq GVs
    BY <1>1, <1>8 DEF Calling, At, MapperTypeOK
  <2>2. ASSUME NEW g \in main.groups, call'[g].pc = "idle"
        PROVE  answer'[g].status = "answered" /\ ResourcesFit(g, answer[g], always1, Pairs, n)'
    <3>1. PICK a : a = answer[g] /\ a = answer'[g]
      BY <1>1
    <3>2. a.status = "answered" /\ ResourcesFit(g, a, always, Pairs, n) /\ g \in GVs
      BY <1>1, <1>2, <2>1, <2>2, <3>1 DEF Joined
    <3>3. always1 \in SUBSET always
      BY <1>4
    <3>4. ResourcesFit(g, a, always1, Pairs, n)'
      BY <1>1, <1>3, <3>2, <3>3, ResourcesLater
    <3> QED
      BY <3>1, <3>2, <3>4
  <2>3. \A g \in main'.groups : call'[g].pc = "idle" =>
          answer'[g].status = "answered" /\ ResourcesFit(g, answer[g], steady, Pairs, faultsAt)'
    BY <1>2, <2>2
  <2> QED
    BY <1>1, <2>1, <2>3 DEF Joined
<1>9. Calling'
  BY <1>1, <1>2, <1>4, <1>8 DEF Calling, CallOf, Grouped, Missed, At, Back
<1>10. Mapping' /\ SteadyFound' /\ WalkComplete'
  BY <1>1, <1>2, <1>4 DEF MapperInv, Mapping, At, SteadyFound, WalkComplete
<1> QED
  BY <1>1, <1>6, <1>7, <1>9, <1>10 DEF MapperInv

LEMMA StutterMapper ==
  ASSUME MapperInv, UNCHANGED updateVars
  PROVE  MapperInv'
<1>1. UNCHANGED <<main, delegate, walked, steady, faultsAt>> /\ UNCHANGED discoveryVars
      /\ UNCHANGED <<faults, call, answer, cache, concealed>>
  BY DEF updateVars, mapperVars, discoveryVars
<1>2. PICK always, n : always = steady /\ n = faultsAt
  OBVIOUS
<1>3. DiscoveryInv /\ ClientFits(always, Pairs, n)
  BY <1>2 DEF MapperInv
<1>4. DiscoveryInv' /\ ClientFits(always, Pairs, n)'
  BY <1>1, <1>3, QuietInv
<1>5. ClientFits(steady, Pairs, faultsAt)'
  BY <1>1, <1>2, <1>4
<1>6. MapperTypeOK' /\ Mapping' /\ SteadyFound' /\ WalkComplete'
  BY <1>1 DEF MapperInv, MapperTypeOK, Mapping, At, SteadyFound, WalkComplete
<1>7. Calling'
  BY <1>1 DEF MapperInv, Calling, CallOf, Joined, Grouped, Missed, ResourcesFit, EntryFits, At, Back
<1> QED
  BY <1>4, <1>5, <1>6, <1>7 DEF MapperInv

\* What is steady is what it was, unless the server changes or the client is
\* invalidated.
LEMMA SteadyStays ==
  ASSUME MapperInv, UNCHANGED served, steady' = steady \cap Serves(served')
  PROVE  steady' = steady
<1>1. steady \subseteq Serves(served)
  BY DEF MapperInv, ClientFits
<1> QED
  BY <1>1 DEF Serves

LEMMA MapperNextInv == MapperInv /\ [MapperNext]_updateVars => MapperInv'
<1> SUFFICES ASSUME MapperInv, MapperNext
             PROVE  MapperInv'
  BY StutterMapper
\* Only a poll and a reset invalidate the client, and they await its end.
<1>1. CASE \E c \in Callers : Invalidate(c)
  <2>1. PICK c \in Callers : Invalidate(c)
    BY <1>1
  <2>2. /\ main.pc \in {"poll", "reset"} /\ call[Main].pc = "waiting"
        /\ call' # call
    <3>1. CallOf(c) /\ call[c].pc = "waiting" /\ call[c].op = "invalidate"
      BY <2>1, WorkIsAwaited DEF Enter, Invalidate, Pc
    <3>2. call'[c].pc = "idle"
      BY <2>1, ReturnCalls, NothingType DEF Invalidate, MapperInv
    <3> QED
      BY <3>1, <3>2 DEF CallOf, At
  <2>3. UNCHANGED <<main, delegate, walked>>
    BY <2>2 DEF MapperNext, Thread, Polled, GotGroups, Join, Consult, GotFresh, ResetDone,
                Poll, Walk, Lookup, At, Back
  <2>4. steady' = Serves(served) /\ faultsAt' = faults
    BY <1>1 DEF MapperNext
  <2> QED
    BY <2>1, <2>3, <2>4, InvalidateMapper
<1>2. CASE ~\E c \in Callers : Invalidate(c)
  <2>1. steady' = steady \cap Serves(served') /\ UNCHANGED faultsAt
    BY <1>2 DEF MapperNext
  <2>2. CASE Change /\ UNCHANGED <<main, delegate, walked>>
    BY <2>1, <2>2, ChangeMapper
  <2>3. CASE Client /\ UNCHANGED <<main, delegate, walked>>
    <3>1. PICK c \in Callers : Enter(c) \/ Work(c)
      BY <2>3 DEF Client
    <3>2. UNCHANGED served /\ ~Invalidate(c)
      BY <1>2, <3>1 DEF Enter, Acquire, Fresh, Invalidate, MarkStale, Work, FetchCore, FetchGroups,
                        FetchOne, Commit, AnswerGroups, AnswerResources, serverVars
    <3> QED
      BY <2>1, <2>3, <3>1, <3>2, SteadyStays, ClientStepInv
  <2>4. ASSUME UNCHANGED served
        PROVE  UNCHANGED <<steady, faultsAt>>
    BY <2>1, <2>4, SteadyStays
  <2>5. CASE Thread
    <3>1. UNCHANGED served
      BY <2>5 DEF Thread, Polled, GotGroups, Join, Consult, GotFresh, ResetDone, AskGroups,
                  Begin, serverVars, discoveryVars
    <3> QED
      BY <2>4, <2>5, <3>1, PolledInv, GotGroupsInv, JoinInv, ConsultInv, GotFreshInv, ResetDoneInv
         DEF Thread
  <2>6. CASE Poll
    <3>1. UNCHANGED served
      BY <2>6 DEF Poll, Begin, serverVars
    <3> QED
      BY <2>4, <2>6, <3>1, PollInv
  <2>7. CASE Walk
    <3>1. UNCHANGED served
      BY <2>7 DEF Walk, AskGroups, Begin, serverVars
    <3> QED
      BY <2>4, <2>7, <3>1, WalkInv
  <2>8. CASE \E pair \in Pairs : Lookup(pair)
    <3>1. PICK pair \in Pairs : Lookup(pair)
      BY <2>8
    <3>2. UNCHANGED served
      BY <3>1 DEF Lookup, AskGroups, Begin, serverVars, discoveryVars
    <3> QED
      BY <2>4, <3>1, <3>2, LookupInv
  <2> QED
    BY <2>2, <2>3, <2>5, <2>6, <2>7, <2>8 DEF MapperNext
<1> QED
  BY <1>1, <1>2

----------------------------------------------------------------------------
\* The mapper: the theorems.

THEOREM MapperInvariance == MapperSpec => []MapperInv
<1>1. MapperInit => MapperInv
  BY MapperInitInv
<1>2. MapperInv /\ [MapperNext]_updateVars => MapperInv'
  BY MapperNextInv
<1> QED
  BY <1>1, <1>2, PTL DEF MapperSpec

\* Every variable of the mapper keeps to its type, and no goroutine outlives the
\* lookup or the walk that started it.
THEOREM MapperTypeCorrect == MapperSpec => []MapperTypeOK
<1>1. MapperInv => MapperTypeOK
  BY DEF MapperInv
<1> QED
  BY <1>1, MapperInvariance, PTL

\* A kind that has been served since the last Invalidate is found unless a request
\* has failed since, however old or incomplete the delegate is.
THEOREM SteadyIsFound == MapperSpec => []SteadyFound
<1>1. MapperInv => SteadyFound
  BY DEF MapperInv
<1> QED
  BY <1>1, MapperInvariance, PTL

\* A walk that reports no error has listed everything that has been served since
\* the last Invalidate, but for the groups whose list was refused with a 403 or 404.
THEOREM WalkIsComplete == MapperSpec => []WalkComplete
<1>1. MapperInv => WalkComplete
  BY DEF MapperInv
<1> QED
  BY <1>1, MapperInvariance, PTL

----------------------------------------------------------------------------
\* The three ways together, as the run `clients` has them.

\* Whoever uses the client, what is known of the client holds, and what is known
\* of the user holds while it is the one; the goroutines of an update are at work
\* for nobody else.
ClientsInv ==
  /\ DiscoveryInv /\ MapperTypeOK /\ ValidateTypeOK
  /\ focus = "update" => MapperInv
  /\ focus = "validate" => ValidateInv
  /\ focus # "update" => \A gv \in GVs : call[gv].pc = "idle"

\* A step of one caller is none of another's.
LEMMA OneCaller ==
  ASSUME DiscoveryInv, NEW c \in Callers, Use(c) \/ Discover(c)
  PROVE  \A d \in Callers \ {c} : call'[d] = call[d]
<1>1. call \in [Callers -> Call]
  BY DEF DiscoveryInv, DiscoveryTypeOK
<1>2. CASE \E op, gv : Begin(c, op, gv)
  BY <1>1, <1>2 DEF Begin
<1>3. CASE Acquire(c)
  BY <1>3, GotoCalls DEF Acquire
<1>4. CASE Fresh(c) \/ Invalidate(c) \/ MarkStale(c)
  BY <1>1, <1>4 DEF Fresh, Invalidate, MarkStale, Return
<1>5. CASE FetchCore(c) \/ FetchGroups(c)
  <2>1. \/ \E label : Goto(c, label)
        \/ \E status, groups, entry, at : Return(c, status, groups, entry, at)
    BY <1>5 DEF FetchCore, FetchGroups, Fail
  <2> QED
    BY <2>1, GotoCalls, ReturnCalls
<1>6. CASE FetchOne(c) \/ Commit(c)
  BY <1>1, <1>6 DEF FetchOne, Commit, Goto, Return
<1>7. CASE AnswerGroups(c) \/ AnswerResources(c)
  BY <1>1, <1>7 DEF AnswerGroups, AnswerResources, Return
<1> QED
  BY <1>2, <1>3, <1>4, <1>5, <1>6, <1>7 DEF Use, Work, Discover, Enter

LEMMA ClientsInitInv == Init => ClientsInv
<1> SUFFICES ASSUME Init
             PROVE  ClientsInv
  OBVIOUS
<1>1. MapperInv /\ ValidateInv
  BY MapperInitInv, ValidateInitInv DEF Init
<1>2. \A gv \in GVs : call[gv].pc = "idle"
  BY ThreadNames, NothingType DEF Init, MapperInit, DiscoveryInit
<1> QED
  BY <1>1, <1>2, ValidateTypes DEF ClientsInv, MapperInv

\* Those who rest do not notice.
LEMMA RestStays ==
  /\ MapperTypeOK /\ UNCHANGED mapperVars /\ (\A gv \in GVs : call'[gv].pc = "idle")
       => MapperTypeOK'
  /\ ValidateTypeOK /\ UNCHANGED validateVars => ValidateTypeOK'
<1>1. ASSUME MapperTypeOK, UNCHANGED mapperVars, \A gv \in GVs : call'[gv].pc = "idle"
      PROVE  MapperTypeOK'
  BY <1>1 DEF MapperTypeOK, mapperVars
<1>2. ASSUME ValidateTypeOK, UNCHANGED validateVars
      PROVE  ValidateTypeOK'
  BY <1>2 DEF ValidateTypeOK, validateVars
<1> QED
  BY <1>1, <1>2

LEMMA NextTypes == ValidateInv' => DiscoveryInv' /\ ValidateTypeOK'
<1>1. ValidateInv => DiscoveryInv /\ ValidateTypeOK
  BY ValidateTypes DEF ValidateInv
<1> QED
  BY <1>1, PTL

LEMMA ClientsNextInv == ClientsInv /\ [Next]_allVars => ClientsInv'
<1> SUFFICES ASSUME ClientsInv, [Next]_allVars
             PROVE  ClientsInv'
  OBVIOUS
<1>1. UNCHANGED focus
  BY DEF Next, allVars
<1>2. CASE focus = "update"
  <2>1. [MapperNext]_updateVars /\ UNCHANGED validateVars
    BY <1>2 DEF Next, allVars, updateVars
  <2>2. MapperInv'
    BY <1>2, <2>1, MapperNextInv DEF ClientsInv
  <2> QED
    BY <1>1, <1>2, <2>1, <2>2, RestStays DEF ClientsInv, MapperInv
<1>3. CASE focus = "validate"
  <2>1. [ValidateNext]_validateCmdVars /\ UNCHANGED mapperVars
    BY <1>3 DEF Next, allVars, validateCmdVars
  <2>2. ValidateInv'
    BY <1>3, <2>1, ValidateNextInv DEF ClientsInv
  <2>3. UNCHANGED call \/ Discover(Validator) \/ \E op, gv : Begin(Validator, op, gv)
    BY <2>1 DEF ValidateNext, validateCmdVars, discoveryVars, Proceed, Describe, Described,
                FetchSchema, Exists, Answered, KindsChange, SchemaChange, Change
  <2>4. \A gv \in GVs : call'[gv].pc = "idle"
    <3>1. GVs \subseteq Callers \ {Validator} /\ Validator \in Callers
      BY ThreadNames, ClientsAssumption, ValidateAssumption
    <3>2. \A d \in Callers \ {Validator} : call'[d] = call[d]
      <4>1. DiscoveryInv /\ Validator \in Callers
        BY <3>1 DEF ClientsInv
      <4>2. CASE Discover(Validator)
        BY <4>1, <4>2, OneCaller
      <4>3. ASSUME NEW op, NEW gv, Begin(Validator, op, gv)
            PROVE  \A d \in Callers \ {Validator} : call'[d] = call[d]
        BY <4>1, <4>3, BeginCalls
      <4> QED
        BY <2>3, <4>2, <4>3
    <3> QED
      BY <1>3, <3>1, <3>2 DEF ClientsInv
  <2> QED
    <3>1. DiscoveryInv' /\ ValidateTypeOK'
      BY <2>2, NextTypes
    <3> QED
      BY <1>1, <1>3, <2>1, <2>2, <2>4, <3>1, RestStays DEF ClientsInv
<1>4. CASE focus \notin {"update", "validate"}
  <2>1. (AnyoneNext \/ UNCHANGED discoveryVars) /\ UNCHANGED mapperVars /\ UNCHANGED validateVars
    BY <1>4 DEF Next, allVars
  <2>2. DiscoveryInv'
    BY <2>1, NextInv, ClientsAssumption DEF AnyoneNext, DiscoveryNext, ClientsInv
  <2>3. \A gv \in GVs : call'[gv].pc = "idle"
    <3>1. CASE UNCHANGED call
      BY <1>4, <3>1 DEF ClientsInv
    <3>2. ASSUME NEW c \in Anyone, Use(c)
          PROVE  \A gv \in GVs : call'[gv].pc = "idle"
      <4>1. c \in Callers /\ GVs \subseteq Callers \ {c}
        BY ThreadNames, ClientsAssumption
      <4>2. \A d \in Callers \ {c} : call'[d] = call[d]
        BY <3>2, <4>1, OneCaller DEF ClientsInv
      <4> QED
        BY <1>4, <4>1, <4>2 DEF ClientsInv
    <3> QED
      BY <2>1, <3>1, <3>2 DEF AnyoneNext, Change, discoveryVars
  <2> QED
    BY <1>1, <1>4, <2>1, <2>2, <2>3, RestStays DEF ClientsInv
<1> QED
  BY <1>2, <1>3, <1>4

\* Whoever uses the client and whatever happens to the server, the invariants of
\* the client and of its user hold throughout.
THEOREM ClientsInvariance == Spec => []ClientsInv
<1> QED
  BY ClientsInitInv, ClientsNextInv, PTL DEF Spec

\* ClientsTypeOK: the types of the client and of all its users, and what goes
\* with them.
THEOREM ClientsTypeCorrect == Spec => []ClientsTypeOK
<1>1. ClientsInv => ClientsTypeOK
  BY DEF ClientsInv, DiscoveryInv, ClientsTypeOK
<1> QED
  BY <1>1, ClientsInvariance, PTL

\* FreshSinceInvalidate, Complete and TransientIsLive hold for the client's real
\* users, the mapper of an update and a validation, as for any callers.
THEOREM UsersAreServed == Spec => [](FreshSinceInvalidate /\ Complete /\ TransientIsLive)
<1>1. ClientsInv => FreshSinceInvalidate /\ Complete /\ TransientIsLive
  BY DEF ClientsInv, DiscoveryInv
<1> QED
  BY <1>1, ClientsInvariance, PTL
=============================================================================
