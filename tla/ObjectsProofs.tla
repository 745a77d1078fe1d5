---------------------------- MODULE ObjectsProofs ----------------------------
(***************************************************************************)
(* Theorems about what reads the configuration: Importer, for any files,   *)
(* search path, imports and changes; ImageResolver, for any images,        *)
(* registry, flags, pushes and calls; and Reading, for any files and trees.*)
(* The importer's inductive invariant says what is known of the candidates *)
(* that an import has passed, and that what it returns is in the cache     *)
(* ever after; the resolver's, that no name without a digest is ever in    *)
(* the cache; the reader's, that whatever a file should give is either     *)
(* found or below something that is still on the stack of jsonWalk.  At    *)
(* the end the three are put together, as in MCObjects.                    *)
(***************************************************************************)
EXTENDS MCObjects, Minimum, TLAPS

----------------------------------------------------------------------------
\* The importer.

Contents == [text: Texts, id: Nat]
Result == [from: Dirs, path: Paths, foundAt: Urls, contents: Contents]

Candidates(from, path) == expandImportToCandidateURLs(from, path)

\* What an import has passed is not in the cache.
Passed ==
  importerPc = "probing" =>
    LET c == Candidates(import.from, import.path)
    IN /\ import \in [from: Dirs, path: Paths, i: Nat]
       /\ import.i \in 1 .. Len(c)
       /\ \A h \in 1 .. import.i - 1 : cache[c[h]] = Nothing

\* What an import has returned is in the cache, under one of its candidates.
InCache ==
  /\ results \in Seq(Result)
  /\ \A j \in 1 .. Len(results) :
       LET c == Candidates(results[j].from, results[j].path)
       IN /\ results[j].contents = cache[results[j].foundAt]
          /\ \E i \in 1 .. Len(c) : c[i] = results[j].foundAt

\* OnlyNearerReplaces for two imports, without the choice of a place.
Nearer(r, s) ==
  LET c == Candidates(r.from, r.path)
  IN (r.from = s.from /\ r.path = s.path) =>
       \A p \in 1 .. Len(c) :
         c[p] = r.foundAt => r = s \/ \E q \in 1 .. p - 1 : c[q] = s.foundAt

ImporterInv ==
  /\ ImporterTypeOK
  /\ cache \in [Urls -> Contents \cup {Nothing}]
  /\ NeverPanics
  /\ Passed
  /\ InCache
  /\ \A j, k \in 1 .. Len(results) : j < k => Nearer(results[j], results[k])

----------------------------------------------------------------------------
\* Every import has candidates, and all are URLs.
LEMMA CandidatesType ==
  ASSUME NEW from \in Dirs, NEW path \in Paths
  PROVE  /\ Candidates(from, path) \in Seq(Urls)
         /\ Len(Candidates(from, path)) \in Nat \ {0}
<1>1. BaseSearchURLs \in Seq(Dirs)
  BY ImporterAssumption DEF BaseSearchURLs
<1>2. ASSUME NEW d \in Dirs
      PROVE  Reference[<<d, path>>] \in Urls
  BY ImporterAssumption
<1>3. [i \in 1 .. Len(BaseSearchURLs) |-> Reference[<<BaseSearchURLs[i], path>>]] \in Seq(Urls)
  BY <1>1, <1>2
<1>4. <<Reference[<<from, path>>]>> \in Seq(Urls) /\ <<Reference[<<Start, path>>]>> \in Seq(Urls)
  BY <1>2, ImporterAssumption
<1> QED
  BY <1>3, <1>4 DEF Candidates, expandImportToCandidateURLs

\* The initial states satisfy the invariant: nothing is cached or returned.
LEMMA ImporterInitInv == ImporterInit => ImporterInv
BY ImporterAssumption
   DEF ImporterInit, ImporterInv, ImporterTypeOK, NeverPanics, Passed, InCache, NoImport

\* An import starts with its first candidate.
LEMMA ImportInv == ImporterInv /\ Import => ImporterInv'
<1> SUFFICES ASSUME ImporterInv, Import
             PROVE  ImporterInv'
  OBVIOUS
<1>1. PICK m \in Imports : import' = [from |-> m.from, path |-> m.path, i |-> 1]
  BY DEF Import
<1>2. m.from \in Dirs /\ m.path \in Paths
  BY <1>1, ImporterAssumption
<1>3. UNCHANGED <<files, fileChanges, cache, verified, reads, results>> /\ importerPc' = "probing"
  BY DEF Import
<1>4. import' # NoImport
  BY <1>1 DEF NoImport
<1>5. ImporterTypeOK' /\ NeverPanics'
  BY <1>3, <1>4 DEF ImporterInv, ImporterTypeOK, NeverPanics, NoImport
<1>6. Len(Candidates(m.from, m.path)) \in Nat \ {0}
  BY <1>2, CandidatesType
<1>7. Passed'
  <2>1. import' \in [from: Dirs, path: Paths, i: Nat]
    BY <1>1, <1>2
  <2>2. import'.from = m.from /\ import'.path = m.path /\ import'.i = 1
    BY <1>1
  <2>3. import'.i \in 1 .. Len(Candidates(import'.from, import'.path))
    BY <1>6, <2>2
  <2> QED
    BY <2>1, <2>2, <2>3 DEF Passed, Candidates, expandImportToCandidateURLs, BaseSearchURLs
<1>8. InCache'
  BY <1>3 DEF ImporterInv, InCache
<1>9. \A j, k \in 1 .. Len(results') : j < k => Nearer(results'[j], results'[k])
  BY <1>3 DEF ImporterInv
<1> QED
  BY <1>3, <1>5, <1>7, <1>8, <1>9 DEF ImporterInv

\* What is delivered is in the cache from then on, and was there before or is
\* what was read last; it comes from nearer than what earlier imports found.
LEMMA DeliverInv ==
  ASSUME ImporterInv, importerPc = "probing",
         NEW contents \in Contents, NEW u,
         u = Candidates(import.from, import.path)[import.i],
         Deliver(contents, u),
         cache' = [cache EXCEPT ![u] = contents],
         UNCHANGED <<files, fileChanges>>,
         \/ cache[u] = contents /\ reads' = reads
         \/ cache[u] = Nothing /\ reads' = reads + 1 /\ contents.id = reads + 1
  PROVE  ImporterInv'
<1> DEFINE c == Candidates(import.from, import.path)
           new == [from |-> import.from, path |-> import.path,
                   foundAt |-> u, contents |-> contents]
<1>1. import.from \in Dirs /\ import.path \in Paths /\ import.i \in 1 .. Len(c)
  BY DEF ImporterInv, Passed
<1>2. c \in Seq(Urls) /\ u \in Urls
  BY <1>1, CandidatesType
<1>3. contents # Nothing /\ contents.text \in Texts
  BY ImporterAssumption DEF Contents
<1>4. /\ cache \in [Urls -> Contents \cup {Nothing}]
      /\ verified = cache
      /\ cache'[u] = contents
      /\ \A v \in Urls : v # u => cache'[v] = cache[v]
  BY <1>2 DEF ImporterInv, ImporterTypeOK
<1>5. importerPc' = "idle" /\ import' = NoImport /\ verified' = cache'
  BY <1>4 DEF Deliver
<1>6. results' = Append(results, new) /\ results \in Seq(Result) /\ new \in Result
  BY <1>1, <1>2 DEF Deliver, ImporterInv, InCache, Result
<1>7. ImporterTypeOK'
  <2>1. reads \in Nat /\ reads' \in Nat /\ reads <= reads' /\ contents.id \in 1 .. reads'
    BY <1>3, <1>2 DEF ImporterInv, ImporterTypeOK
  <2>2. \A v \in Urls : cache'[v] # Nothing => cache'[v].text \in Texts /\ cache'[v].id \in 1 .. reads'
    BY <2>1, <1>2, <1>3, <1>4 DEF ImporterInv, ImporterTypeOK
  <2>3. ASSUME NEW v \in Urls, v # u, cache[v] = contents
        PROVE  FALSE
    <3>1. CASE cache[u] = contents
      BY <3>1, <2>3, <1>2, <1>3 DEF ImporterInv, ImporterTypeOK
    <3>2. CASE contents.id = reads + 1
      BY <3>2, <2>1, <2>3, <1>3 DEF ImporterInv, ImporterTypeOK
    <3> QED
      BY <3>1, <3>2
  <2>4. \A v, w \in Urls : cache'[v] # Nothing /\ cache'[v] = cache'[w] => v = w
    BY <2>3, <1>2, <1>4 DEF ImporterInv, ImporterTypeOK
  <2> QED
    BY <2>1, <2>2, <2>4, <1>5 DEF ImporterInv, ImporterTypeOK
<1>8. cache' \in [Urls -> Contents \cup {Nothing}]
  BY <1>2, <1>4
<1>9. /\ NeverPanics'
      /\ Passed'
  BY <1>5 DEF NeverPanics, Passed
<1>10. /\ Len(results') = Len(results) + 1 /\ Len(results) \in Nat
       /\ results' \in Seq(Result)
       /\ results'[Len(results) + 1] = new
       /\ \A j \in 1 .. Len(results) : results'[j] = results[j]
  BY <1>6
<1>11. ASSUME NEW j \in 1 .. Len(results)
       PROVE  /\ results[j] \in Result
              /\ cache[results[j].foundAt] = results[j].contents
              /\ results[j].contents # Nothing
              /\ cache'[results[j].foundAt] = results[j].contents
  <2>1. results[j] \in Result
    BY <1>6
  <2>2. cache[results[j].foundAt] = results[j].contents
    BY DEF ImporterInv, InCache
  <2>3. results[j].contents \in Contents /\ results[j].foundAt \in Urls
    BY <2>1 DEF Result
  <2>4. results[j].contents # Nothing
    BY <2>3, ImporterAssumption DEF Contents
  <2>5. CASE results[j].foundAt = u
    BY <2>1, <2>2, <2>4, <2>5, <1>4
  <2> QED
    BY <2>1, <2>2, <2>3, <2>4, <2>5, <1>4
<1>12. InCache'
  <2>1. ASSUME NEW j \in 1 .. Len(results')
        PROVE  LET d == Candidates(results'[j].from, results'[j].path)
               IN /\ results'[j].contents = cache'[results'[j].foundAt]
                  /\ \E i \in 1 .. Len(d) : d[i] = results'[j].foundAt
    <3>1. CASE j \in 1 .. Len(results)
      <4>1. results'[j] = results[j]
        BY <3>1, <1>10
      <4>2. LET d == Candidates(results[j].from, results[j].path)
            IN \E i \in 1 .. Len(d) : d[i] = results[j].foundAt
        BY <3>1 DEF ImporterInv, InCache
      <4> QED
        BY <4>1, <4>2, <3>1, <1>11
    <3>2. CASE j = Len(results) + 1
      BY <3>2, <1>1, <1>4, <1>10
    <3> QED
      BY <3>1, <3>2, <1>10
  <2> QED
    BY <2>1, <1>10 DEF InCache
<1>13. ASSUME NEW j \in 1 .. Len(results)
       PROVE  Nearer(results[j], new)
  <2> SUFFICES ASSUME results[j].from = new.from, results[j].path = new.path,
                      NEW p \in 1 .. Len(c), c[p] = results[j].foundAt
               PROVE  results[j] = new \/ \E q \in 1 .. p - 1 : c[q] = new.foundAt
    BY DEF Nearer
  <2>1. p >= import.i
    BY <1>1, <1>2, <1>11 DEF ImporterInv, Passed
  <2>2. CASE p = import.i
    <3>1. results[j].foundAt = u
      BY <2>2
    <3>2. results[j].contents = contents
      BY <3>1, <1>4, <1>11
    <3> QED
      BY <3>1, <3>2, <1>11 DEF Result
  <2>3. CASE p > import.i
    BY <2>3, <1>1, <1>2
  <2> QED
    BY <2>1, <2>2, <2>3, <1>1, <1>2
<1>14. ASSUME NEW j \in 1 .. Len(results'), NEW k \in 1 .. Len(results'), j < k
       PROVE  Nearer(results'[j], results'[k])
  <2>1. CASE k \in 1 .. Len(results)
    BY <2>1, <1>14, <1>10 DEF ImporterInv
  <2>2. CASE k = Len(results) + 1
    BY <2>2, <1>14, <1>10, <1>13
  <2> QED
    BY <2>1, <2>2, <1>10
<1> QED
  BY <1>7, <1>8, <1>9, <1>12, <1>14 DEF ImporterInv

\* A request, or a look into the cache, for one candidate.
LEMMA ProbeInv == ImporterInv /\ Probe => ImporterInv'
<1> SUFFICES ASSUME ImporterInv, Probe
             PROVE  ImporterInv'
  OBVIOUS
<1> DEFINE c == Candidates(import.from, import.path)
           u == c[import.i]
<1>1. /\ importerPc = "probing" /\ UNCHANGED <<files, fileChanges>>
      /\ import \in [from: Dirs, path: Paths, i: Nat] /\ import.i \in 1 .. Len(c)
      /\ \A h \in 1 .. import.i - 1 : cache[c[h]] = Nothing
  BY DEF Probe, ImporterInv, Passed
<1>2. c \in Seq(Urls) /\ u \in Urls
  BY <1>1, CandidatesType
<1>3. cache \in [Urls -> Contents \cup {Nothing}] /\ reads \in Nat
  BY DEF ImporterInv, ImporterTypeOK
<1>4. CASE cache[u] # Nothing /\ Deliver(cache[u], u) /\ UNCHANGED <<cache, reads>>
  <2>1. cache[u] \in Contents /\ cache' = [cache EXCEPT ![u] = cache[u]]
    BY <1>2, <1>3, <1>4
  <2> QED
    BY <1>1, <1>4, <2>1, DeliverInv
<1>5. CASE /\ cache[u] = Nothing /\ files[u] \in Texts /\ reads' = reads + 1
           /\ LET contents == [text |-> files[u], id |-> reads + 1]
              IN cache' = Keep(u, contents) /\ Deliver(contents, u)
  <2> DEFINE contents == [text |-> files[u], id |-> reads + 1]
  <2>1. contents \in Contents /\ contents.id = reads + 1
    BY <1>3, <1>5 DEF Contents
  <2>2. cache' = [cache EXCEPT ![u] = contents] /\ Deliver(contents, u)
    BY <1>5 DEF Keep
  <2> HIDE DEF contents
  <2> QED
    BY <1>1, <1>5, <2>1, <2>2, DeliverInv
<1>6. CASE /\ cache[u] = Nothing /\ import.i < Len(c)
           /\ import' = [import EXCEPT !.i = @ + 1]
           /\ UNCHANGED <<importerPc, cache, verified, reads, results>>
  <2>1. /\ import' \in [from: Dirs, path: Paths, i: Nat]
        /\ import'.from = import.from /\ import'.path = import.path
        /\ import'.i = import.i + 1
    BY <1>1, <1>6
  <2>2. Candidates(import'.from, import'.path) = c
    BY <2>1
  <2>3. import'.i \in 1 .. Len(c) /\ \A h \in 1 .. import'.i - 1 : cache[c[h]] = Nothing
    BY <1>1, <1>2, <1>6, <2>1
  <2>4. Passed'
    BY <2>1, <2>2, <2>3, <1>6 DEF Passed
  <2>5. import' # NoImport
    BY <1>1, <2>1 DEF NoImport
  <2>6. ImporterTypeOK' /\ NeverPanics'
    BY <1>1, <1>6, <2>5 DEF ImporterInv, ImporterTypeOK, NeverPanics, NoImport
  <2> QED
    BY <1>6, <2>4, <2>6 DEF ImporterInv, InCache
<1>7. CASE ImportFails
  BY <1>1, <1>7 DEF ImportFails, ImporterInv, ImporterTypeOK, NeverPanics, Passed, InCache
<1> QED
  BY <1>4, <1>5, <1>6, <1>7 DEF Probe, Candidates

\* What happens to the files is nothing to an evaluation.
LEMMA FileChangeInv == ImporterInv /\ FileChange => ImporterInv'
<1> SUFFICES ASSUME ImporterInv, FileChange
             PROVE  ImporterInv'
  OBVIOUS
<1>1. UNCHANGED <<cache, verified, reads, importerPc, import, results>>
  BY DEF FileChange
<1>2. files' \in [Urls -> Texts \cup {Gone, Broken}] /\ fileChanges' \in 0 .. MaxFileChanges
  BY ImporterAssumption DEF FileChange, ImporterInv, ImporterTypeOK
<1>3. ImporterTypeOK'
  BY <1>1, <1>2 DEF ImporterInv, ImporterTypeOK, NoImport
<1> QED
  BY <1>1, <1>3 DEF ImporterInv, NeverPanics, Passed, InCache

\* The invariant holds throughout.
THEOREM ImporterInvariance == ImporterSpec => []ImporterInv
<1>1. ImporterInv /\ [ImporterNext]_importerVars => ImporterInv'
  <2> SUFFICES ASSUME ImporterInv, [ImporterNext]_importerVars
               PROVE  ImporterInv'
    OBVIOUS
  <2>1. CASE UNCHANGED importerVars
    BY <2>1 DEF importerVars, ImporterInv, ImporterTypeOK, NeverPanics, Passed, InCache, NoImport
  <2> QED
    BY <2>1, ImportInv, ProbeInv, FileChangeInv DEF ImporterNext
<1> QED
  BY <1>1, ImporterInitInv, PTL DEF ImporterSpec

\* ImporterTypeOK: what is cached was read, each body once, and go-jsonnet
\* knows of the same instances as the importer's cache.
THEOREM ImporterTypeCorrect == ImporterSpec => []ImporterTypeOK
<1>1. ImporterInv => ImporterTypeOK
  BY DEF ImporterInv
<1> QED
  BY <1>1, ImporterInvariance, PTL

\* NeverPanics: importData never sees two instances of one location, whatever
\* happens to the files while an evaluation runs.
THEOREM NoPanic == ImporterSpec => []NeverPanics
<1>1. ImporterInv => NeverPanics
  BY DEF ImporterInv
<1> QED
  BY <1>1, ImporterInvariance, PTL

----------------------------------------------------------------------------
\* OnlyNearerReplaces: the same import statement finds the same instance each
\* time, or something that stands before it on the search path.
THEOREM OnlyNearer == ImporterSpec => []OnlyNearerReplaces
<1>1. ImporterInv => OnlyNearerReplaces
  <2> SUFFICES ASSUME ImporterInv,
                      NEW j \in 1 .. Len(results), NEW k \in 1 .. Len(results), j < k,
                      results[j].from = results[k].from,
                      results[j].path = results[k].path,
                      results[j] # results[k]
               PROVE  LET c == expandImportToCandidateURLs(results[j].from, results[j].path)
                          Place(r) == CHOOSE i \in 1 .. Len(c) :
                                        /\ c[i] = r.foundAt
                                        /\ \A h \in 1 .. i - 1 : c[h] # r.foundAt
                      IN Place(results[k]) < Place(results[j])
    BY DEF OnlyNearerReplaces
  <2> DEFINE c == expandImportToCandidateURLs(results[j].from, results[j].path)
             First(i, u) == c[i] = u /\ \A h \in 1 .. i - 1 : c[h] # u
             Place(r) == CHOOSE i \in 1 .. Len(c) : First(i, r.foundAt)
  <2>1. results[j].from \in Dirs /\ results[j].path \in Paths
    <3>1. results \in Seq(Result)
      BY DEF ImporterInv, InCache
    <3>2. results[j] \in Result
      BY <3>1
    <3> QED
      BY <3>2 DEF Result
  <2>2. c \in Seq(Urls) /\ Len(c) \in Nat
    BY <2>1, CandidatesType DEF Candidates
  <2>3. ASSUME NEW u, NEW n \in 1 .. Len(c), c[n] = u
        PROVE  \E i \in 1 .. Len(c) : First(i, u)
    <3>1. {i \in 1 .. Len(c) : c[i] = u} \in SUBSET Nat /\ n \in {i \in 1 .. Len(c) : c[i] = u}
      BY <2>2, <2>3
    <3>2. PICK x \in {i \in 1 .. Len(c) : c[i] = u} :
                 \A y \in {i \in 1 .. Len(c) : c[i] = u} : x <= y
      BY <3>1, Least
    <3> QED
      BY <3>2, <2>2
  <2>4. /\ \E i \in 1 .. Len(c) : c[i] = results[j].foundAt
        /\ \E i \in 1 .. Len(c) : c[i] = results[k].foundAt
    BY DEF ImporterInv, InCache, Candidates
  <2>5. /\ Place(results[j]) \in 1 .. Len(c) /\ First(Place(results[j]), results[j].foundAt)
        /\ Place(results[k]) \in 1 .. Len(c) /\ First(Place(results[k]), results[k].foundAt)
    BY <2>3, <2>4
  <2>6. Nearer(results[j], results[k])
    BY DEF ImporterInv
  <2>7. PICK q \in 1 .. Place(results[j]) - 1 : c[q] = results[k].foundAt
    BY <2>5, <2>6 DEF Nearer, Candidates
  <2> DEFINE before == Place(results[j])
             after  == Place(results[k])
  <2>8. /\ before \in Int /\ after \in Int /\ q \in Int
        /\ 1 <= q /\ q <= before - 1
        /\ c[q] = results[k].foundAt
        /\ \A h \in 1 .. after - 1 : c[h] # results[k].foundAt
    <3>1. before \in 1 .. Len(c) /\ after \in 1 .. Len(c) /\ q \in 1 .. before - 1
      BY <2>5
    <3> HIDE DEF before, after, c
    <3>2. before \in Int /\ after \in Int /\ q \in Int /\ 1 <= q /\ q <= before - 1
      BY <2>2, <3>1
    <3>3. \A h \in 1 .. after - 1 : c[h] # results[k].foundAt
      BY <2>5 DEF after
    <3> QED
      BY <2>7, <3>2, <3>3
  <2>9. after < before
    <3> HIDE DEF before, after, c
    <3>1. ~(q <= after - 1)
      BY <2>8
    <3> QED
      BY <2>8, <3>1
  <2> QED
    BY <2>9
<1> QED
  BY <1>1, ImporterInvariance, PTL

----------------------------------------------------------------------------
\* Nearest wins.

\* What was found is there, and what stands before it is not.
IsNearest(r) ==
  LET c == Candidates(r.from, r.path)
  IN \E i \in 1 .. Len(c) : /\ c[i] = r.foundAt /\ files[c[i]] # Gone
                            /\ \A h \in 1 .. i - 1 : files[c[h]] = Gone

\* While no file changes: what is cached is there, what an import has passed is not,
\* and what it has returned stands before all else that is there.
Unchanged ==
  fileChanges = 0 =>
    /\ \A u \in Urls : cache[u] # Nothing => files[u] # Gone
    /\ importerPc = "probing" =>
         \A h \in 1 .. import.i - 1 : files[Candidates(import.from, import.path)[h]] = Gone
    /\ \A j \in 1 .. Len(results) : IsNearest(results[j])

\* A delivery of what is there, when what was passed is not.
LEMMA DeliverNearest ==
  ASSUME ImporterInv, Unchanged, importerPc = "probing", NEW contents, NEW u,
         u = Candidates(import.from, import.path)[import.i], u \in Urls,
         files[u] # Gone, Deliver(contents, u),
         cache' = [cache EXCEPT ![u] = contents], UNCHANGED <<files, fileChanges>>
  PROVE  Unchanged'
<1> SUFFICES ASSUME fileChanges = 0
             PROVE  Unchanged'
  BY DEF Unchanged
<1> DEFINE c == Candidates(import.from, import.path)
<1>1. import.i \in 1 .. Len(c) /\ import \in [from: Dirs, path: Paths, i: Nat]
  BY DEF ImporterInv, Passed
<1>2. \A v \in Urls : cache'[v] # Nothing => files'[v] # Gone
  BY DEF Unchanged, ImporterInv
<1>3. importerPc' # "probing"
  BY DEF Deliver
<1>4. PICK r : r = [from |-> import.from, path |-> import.path, foundAt |-> u, contents |-> contents]
  OBVIOUS
<1>5. r.from = import.from /\ r.path = import.path /\ r.foundAt = u
  BY <1>4
<1>6. results \in Seq(Result) /\ results' = Append(results, r)
  BY <1>4 DEF Deliver, ImporterInv, InCache
<1>7. IsNearest(r)
  <2>1. Candidates(r.from, r.path) = c
    BY <1>5
  <2>2. /\ c[import.i] = r.foundAt /\ files[c[import.i]] # Gone
        /\ \A h \in 1 .. import.i - 1 : files[c[h]] = Gone
    BY <1>5 DEF Unchanged
  <2> HIDE DEF c
  <2>3. \E i \in 1 .. Len(c) : /\ c[i] = r.foundAt /\ files[c[i]] # Gone
                               /\ \A h \in 1 .. i - 1 : files[c[h]] = Gone
    BY <2>2, <1>1
  <2> QED
    BY <2>1, <2>3 DEF IsNearest
<1>8. ASSUME NEW j \in 1 .. Len(results')
      PROVE  IsNearest(results[j])'
  <2>1. PICK s : s = results'[j]
    OBVIOUS
  <2>2. s = r \/ \E k \in 1 .. Len(results) : s = results[k]
    BY <2>1, <1>6
  <2>3. IsNearest(s)
    BY <2>2, <1>7 DEF Unchanged
  <2>4. IsNearest(s)'
    BY <2>3 DEF IsNearest, Candidates, expandImportToCandidateURLs, BaseSearchURLs
  <2> QED
    BY <2>1, <2>4
<1> QED
  BY <1>2, <1>3, <1>8 DEF Unchanged

\* A step keeps what holds while no file changes.
LEMMA UnchangedNext ==
  ASSUME ImporterInv, Unchanged, [ImporterNext]_importerVars
  PROVE  Unchanged'
<1> DEFINE c == Candidates(import.from, import.path)
           u == c[import.i]
<1>1. CASE UNCHANGED importerVars
  <2>1. UNCHANGED <<files, fileChanges, cache, importerPc, import, results>>
    BY <1>1 DEF importerVars
  <2>2. ASSUME NEW r, IsNearest(r)
        PROVE  IsNearest(r)'
    BY <2>1, <2>2 DEF IsNearest, Candidates, expandImportToCandidateURLs, BaseSearchURLs
  <2>3. ASSUME NEW j, IsNearest(results[j])
        PROVE  IsNearest(results[j])'
    <3>1. PICK r : r = results[j] /\ r = results'[j]
      BY <2>1
    <3> QED
      BY <2>3, <3>1, <2>2
  <2>4. PICK m : m = import /\ m = import'
    BY <2>1
  <2>5. ASSUME fileChanges' = 0, importerPc' = "probing", NEW h \in 1 .. m.i - 1
        PROVE  files'[Candidates(m.from, m.path)[h]] = Gone
    BY <2>1, <2>4, <2>5 DEF Unchanged
  <2>6. fileChanges' = 0 => \A v \in Urls : cache'[v] # Nothing => files'[v] # Gone
    BY <2>1 DEF Unchanged
  <2>7. fileChanges' = 0 => \A j \in 1 .. Len(results') : IsNearest(results[j])'
    BY <2>1, <2>3 DEF Unchanged
  <2> QED
    BY <2>4, <2>5, <2>6, <2>7 DEF Unchanged, Candidates, expandImportToCandidateURLs, BaseSearchURLs
<1>2. CASE FileChange
  <2>1. fileChanges' # 0
    BY <1>2, ImporterAssumption DEF FileChange, ImporterInv, ImporterTypeOK
  <2> QED
    BY <2>1 DEF Unchanged
<1>3. CASE Import
  <2>1. import'.i = 1 /\ UNCHANGED <<files, fileChanges, cache, results>>
    BY <1>3 DEF Import
  <2>2. \A h \in 1 .. import'.i - 1 : FALSE
    BY <2>1
  <2>3. \A r : IsNearest(r) => IsNearest(r)'
    BY <2>1 DEF IsNearest, Candidates, expandImportToCandidateURLs, BaseSearchURLs
  <2>4. \A j \in 1 .. Len(results') : IsNearest(results[j]) => IsNearest(results[j])'
    <3>1. ASSUME NEW j, IsNearest(results[j])
          PROVE  IsNearest(results[j])'
      <4>1. PICK r : r = results[j] /\ r = results'[j]
        BY <2>1
      <4> QED
        BY <3>1, <4>1, <2>3
    <3> QED
      BY <3>1
  <2> QED
    BY <2>1, <2>2, <2>4 DEF Unchanged
<1>4. CASE Probe
  <2>1. /\ importerPc = "probing" /\ UNCHANGED <<files, fileChanges>>
        /\ import \in [from: Dirs, path: Paths, i: Nat] /\ import.i \in 1 .. Len(c)
    BY <1>4 DEF Probe, ImporterInv, Passed
  <2>2. c \in Seq(Urls) /\ u \in Urls
    BY <2>1, CandidatesType
  <2>3. cache \in [Urls -> Contents \cup {Nothing}]
    BY DEF ImporterInv
  <2>4. fileChanges = 0 => \A j \in 1 .. Len(results) : IsNearest(results[j])
    BY DEF Unchanged
  <2>5. ASSUME NEW r, IsNearest(r)
        PROVE  IsNearest(r)'
    BY <2>1, <2>5 DEF IsNearest, Candidates, expandImportToCandidateURLs, BaseSearchURLs
  <2>6. CASE UNCHANGED results
    <3>1. ASSUME NEW j, IsNearest(results[j])
          PROVE  IsNearest(results[j])'
      <4>1. PICK r : r = results[j] /\ r = results'[j]
        BY <2>6
      <4> QED
        BY <3>1, <4>1, <2>5
    <3>2. fileChanges' = 0 => \A j \in 1 .. Len(results') : IsNearest(results[j])'
      BY <2>1, <2>4, <2>6, <3>1
    <3>3. CASE /\ cache[u] = Nothing /\ files[u] = Gone
               /\ import' = [import EXCEPT !.i = @ + 1] /\ UNCHANGED cache
      <4>1. /\ import'.from = import.from /\ import'.path = import.path
            /\ import'.i = import.i + 1
        BY <2>1, <3>3
      <4>2. Candidates(import'.from, import'.path) = c
        BY <4>1
      <4>3. fileChanges = 0 => \A h \in 1 .. import.i - 1 : files[c[h]] = Gone
        BY <2>1 DEF Unchanged
      <4>4. fileChanges = 0 => \A h \in 1 .. import.i : files[c[h]] = Gone
        BY <2>1, <3>3, <4>3
      <4>5. fileChanges' = 0 => \A h \in 1 .. import'.i - 1 :
                                  files'[Candidates(import'.from, import'.path)[h]] = Gone
        BY <2>1, <4>1, <4>2, <4>4
      <4>6. fileChanges' = 0 => \A v \in Urls : cache'[v] # Nothing => files'[v] # Gone
        BY <2>1, <3>3 DEF Unchanged
      <4> QED
        BY <3>2, <4>5, <4>6 DEF Unchanged, Candidates, expandImportToCandidateURLs, BaseSearchURLs
    <3>4. CASE ImportFails
      BY <2>1, <3>2, <3>4 DEF ImportFails, Unchanged
    <3>5. CASE \E contents : Deliver(contents, u)
      <4>1. PICK r : results' = Append(results, r)
        BY <3>5 DEF Deliver
      <4>2. Len(results') = Len(results) + 1 /\ Len(results) \in Nat
        BY <4>1 DEF ImporterInv, InCache
      <4> QED
        BY <4>2, <2>6
    <3> QED
      BY <1>4, <3>3, <3>4, <3>5 DEF Probe, Skippable, Candidates
  <2>7. CASE cache[u] # Nothing /\ Deliver(cache[u], u) /\ UNCHANGED <<cache, reads>>
    <3>1. cache' = [cache EXCEPT ![u] = cache[u]]
      BY <2>2, <2>3, <2>7
    <3>2. CASE fileChanges = 0
      <4>1. files[u] # Gone
        BY <2>2, <2>7, <3>2 DEF Unchanged
      <4> QED
        BY <2>1, <2>2, <2>7, <3>1, <4>1, DeliverNearest
    <3>3. CASE fileChanges # 0
      BY <2>1, <3>3 DEF Unchanged
    <3> QED
      BY <3>2, <3>3
  <2>8. CASE /\ cache[u] = Nothing /\ files[u] \in Texts /\ reads' = reads + 1
             /\ LET contents == [text |-> files[u], id |-> reads + 1]
                IN cache' = Keep(u, contents) /\ Deliver(contents, u)
    <3>1. PICK contents : cache' = [cache EXCEPT ![u] = contents] /\ Deliver(contents, u)
      BY <2>8 DEF Keep
    <3>2. files[u] # Gone
      BY <2>8, ImporterAssumption
    <3> QED
      BY <2>1, <2>2, <3>1, <3>2, DeliverNearest
  <2> QED
    BY <1>4, <2>6, <2>7, <2>8 DEF Probe, ImportFails, Candidates
<1> QED
  BY <1>1, <1>2, <1>3, <1>4 DEF ImporterNext

\* NearestWins of one result.
FoundNearest(r) ==
  LET places == IF r.path \in Absolute THEN <<>> ELSE <<r.from>> \o BaseSearchURLs
      there == {n \in 1 .. Len(places) : files[Reference[<<places[n], r.path>>]] # Gone}
  IN IF r.path \in Absolute THEN r.foundAt = Reference[<<Start, r.path>>]
     ELSE \E n \in there : /\ \A k \in there : n <= k
                           /\ r.foundAt = Reference[<<places[n], r.path>>]

\* NearestWins: beside the importing file first, then along the search path.
THEOREM Nearest == ImporterSpec => []NearestWins
<1>1. ImporterInit => Unchanged
  BY ImporterAssumption DEF ImporterInit, Unchanged
<1>2. ImporterInv /\ Unchanged /\ [ImporterNext]_importerVars => Unchanged'
  BY UnchangedNext
<1>3. ImporterInv /\ Unchanged => NearestWins
  <2> SUFFICES ASSUME ImporterInv, Unchanged, fileChanges = 0, NEW j \in 1 .. Len(results)
               PROVE  FoundNearest(results[j])
    BY DEF NearestWins, FoundNearest
  <2> PICK r : r = results[j]
    OBVIOUS
  <2> DEFINE places == IF r.path \in Absolute THEN <<>> ELSE <<r.from>> \o BaseSearchURLs
             there == {n \in 1 .. Len(places) : files[Reference[<<places[n], r.path>>]] # Gone}
  <2> SUFFICES IF r.path \in Absolute THEN r.foundAt = Reference[<<Start, r.path>>]
               ELSE \E n \in there : /\ \A k \in there : n <= k
                                     /\ r.foundAt = Reference[<<places[n], r.path>>]
    BY DEF FoundNearest
  <2>1. PICK c : c = Candidates(r.from, r.path)
    OBVIOUS
  <2>2. PICK i \in 1 .. Len(c) : /\ c[i] = r.foundAt /\ files[c[i]] # Gone
                                 /\ \A h \in 1 .. i - 1 : files[c[h]] = Gone
    BY <2>1 DEF Unchanged, IsNearest
  <2>3. r.from \in Dirs /\ r.path \in Paths
    <3>1. results \in Seq(Result)
      BY DEF ImporterInv, InCache
    <3>2. r \in Result
      BY <3>1
    <3> QED
      BY <3>2 DEF Result
  <2>4. CASE r.path \in Absolute
    <3>1. c = <<Reference[<<Start, r.path>>]>>
      BY <2>1, <2>4 DEF Candidates, expandImportToCandidateURLs
    <3> QED
      BY <2>2, <2>4, <3>1
  <2>5. CASE r.path \notin Absolute
    <3>1. PICK base : base = BaseSearchURLs
      OBVIOUS
    <3>2. base \in Seq(Dirs) /\ Len(base) \in Nat
      BY <3>1, ImporterAssumption DEF BaseSearchURLs
    <3>3. PICK tail : tail = [n \in 1 .. Len(base) |-> Reference[<<base[n], r.path>>]]
      OBVIOUS
    <3>4. tail \in Seq(Urls) /\ Len(tail) = Len(base)
          /\ \A n \in 1 .. Len(base) : tail[n] = Reference[<<base[n], r.path>>]
      BY <2>3, <3>2, <3>3, ImporterAssumption
    <3>5. c = <<Reference[<<r.from, r.path>>]>> \o tail /\ places = <<r.from>> \o base
      BY <2>1, <2>5, <3>1, <3>3 DEF Candidates, expandImportToCandidateURLs
    <3>6. Reference[<<r.from, r.path>>] \in Urls
      BY <2>3, ImporterAssumption
    <3>7. /\ Len(c) = 1 + Len(base) /\ c[1] = Reference[<<r.from, r.path>>]
          /\ \A n \in 2 .. Len(c) : c[n] = tail[n - 1]
      BY <3>2, <3>4, <3>5, <3>6
    <3>8. /\ Len(places) = 1 + Len(base) /\ places[1] = r.from
          /\ \A n \in 2 .. Len(places) : places[n] = base[n - 1]
      BY <2>3, <3>2, <3>5
    <3>9. \A n \in 1 .. Len(c) : c[n] = Reference[<<places[n], r.path>>]
      <4>1. ASSUME NEW n \in 2 .. Len(c)
            PROVE  c[n] = Reference[<<places[n], r.path>>]
        <5>1. n - 1 \in 1 .. Len(base) /\ n \in 2 .. Len(places)
          BY <3>2, <3>7, <3>8
        <5> QED
          BY <5>1, <3>4, <3>7, <3>8
      <4>2. c[1] = Reference[<<places[1], r.path>>]
        BY <3>7, <3>8
      <4> HIDE DEF places
      <4>3. ASSUME NEW n \in 1 .. Len(c)
            PROVE  n = 1 \/ n \in 2 .. Len(c)
        BY <3>2, <3>7
      <4> QED
        BY <4>1, <4>2, <4>3
    <3>10. i \in there /\ r.foundAt = Reference[<<places[i], r.path>>]
      BY <2>2, <3>7, <3>8, <3>9
    <3>11. ASSUME NEW k \in there
           PROVE  i <= k
      <4>1. k \in 1 .. Len(c) /\ files[c[k]] # Gone
        BY <3>7, <3>8, <3>9, <3>11
      <4>2. ~(k <= i - 1)
        BY <2>2, <4>1
      <4> QED
        BY <2>2, <3>2, <3>7, <4>1, <4>2
    <3> QED
      BY <2>5, <3>10, <3>11
  <2> QED
    BY <2>4, <2>5
<1> QED
  BY <1>1, <1>2, <1>3, ImporterInvariance, PTL DEF ImporterSpec

----------------------------------------------------------------------------
\* The image resolver.

Call == [image: Images, out: ImageName]

\* The cache is filled under names with a digest only.
NeverHit == \A n \in ImageName : n.digest = None => resolverCache[n] = None

\* The history knows of what the tags are now.
Witnessed ==
  \A t \in Repos \X Tags : [repo |-> t[1], tag |-> t[2], digest |-> registry[t]] \in was

ResolverInv ==
  /\ ResolverTypeOK
  /\ calls \in Seq(Call)
  /\ NeverHit
  /\ Witnessed
  /\ ResolvedIsTrue
  /\ ErrorMeansPinned

----------------------------------------------------------------------------
\* What is known of a call's result, of an image and of a history.
Exact(image, out) ==
  /\ out.repo = image.repo
  /\ image.digest # None => out.digest = image.digest
  /\ image.digest = None =>
       \/ out.digest = None /\ out.tag = Tag(image)
       \/ [repo |-> image.repo, tag |-> Tag(image), digest |-> out.digest] \in was

Pinned(out) == flags.fail = "error" /\ flags.resolver = "registry" => out.digest # None

\* What the names are made of.
LEMMA NameParts ==
  ASSUME NEW n \in ImageName
  PROVE  n.repo \in Repos /\ n.tag \in Tags \cup {None} /\ n.digest \in Digests \cup {None}
BY DEF ImageName

\* A parsed name has a tag or a digest, and means what it was parsed from.
LEMMA Parsed ==
  ASSUME NEW image \in ImageName
  PROVE  /\ ParseImageName(image) \in ImageName
         /\ ParseImageName(image).repo = image.repo
         /\ ParseImageName(image).digest = image.digest
         /\ ParseImageName(image).digest = None =>
              /\ ParseImageName(image).tag # None
              /\ ParseImageName(image).tag = Tag(image)
BY ResolverAssumption DEF ParseImageName, ImageName, Tag

\* A printed name has a tag or a digest, never both.
LEMMA PrintedParts ==
  ASSUME NEW n \in ImageName, n.digest = None => n.tag # None
  PROVE  /\ Printed(n) \in ImageName
         /\ Printed(n).repo = n.repo /\ Printed(n).digest = n.digest
         /\ Printed(n).digest = None => Printed(n).tag = n.tag
         /\ (Printed(n).tag = None) # (Printed(n).digest = None)
BY ResolverAssumption DEF Printed, ImageName

\* A call that returns keeps the invariant of the calls.
LEMMA ReturnInv ==
  ASSUME ResolverInv,
         NEW image \in Images, NEW n \in ImageName,
         n.digest = None => n.tag # None,
         Exact(image, Printed(n)), Pinned(Printed(n)),
         calls' = Append(calls, [image |-> image, out |-> Printed(n)]),
         UNCHANGED <<registry, pushes, flags, was>>
  PROVE  /\ calls' \in Seq(Call)
         /\ \A i \in 1 .. Len(calls') :
              /\ calls'[i].image \in Images /\ calls'[i].out \in ImageName
              /\ (calls'[i].out.tag = None) # (calls'[i].out.digest = None)
         /\ ResolvedIsTrue'
         /\ flags.fail = "error" /\ flags.resolver = "registry" =>
              \A i \in 1 .. Len(calls') : calls'[i].out.digest # None
<1> DEFINE new == [image |-> image, out |-> Printed(n)]
<1>1. Printed(n) \in ImageName /\ (Printed(n).tag = None) # (Printed(n).digest = None)
  BY PrintedParts
<1>2. new \in Call /\ calls \in Seq(Call)
  BY <1>1 DEF Call, ResolverInv
<1>3. /\ calls' \in Seq(Call) /\ Len(calls') = Len(calls) + 1 /\ Len(calls) \in Nat
      /\ calls'[Len(calls) + 1] = new
      /\ \A i \in 1 .. Len(calls) : calls'[i] = calls[i]
  BY <1>2
<1>4. ASSUME NEW i \in 1 .. Len(calls')
      PROVE  /\ calls'[i].image \in Images /\ calls'[i].out \in ImageName
             /\ (calls'[i].out.tag = None) # (calls'[i].out.digest = None)
             /\ Exact(calls'[i].image, calls'[i].out)
             /\ Pinned(calls'[i].out)
  <2>1. CASE i \in 1 .. Len(calls)
    BY <2>1, <1>3 DEF ResolverInv, ResolverTypeOK, ResolvedIsTrue, ErrorMeansPinned, Exact, Pinned
  <2>2. CASE i = Len(calls) + 1
    BY <2>2, <1>1, <1>3
  <2> QED
    BY <2>1, <2>2, <1>3
<1>5. ResolvedIsTrue'
  BY <1>4 DEF ResolvedIsTrue, Exact, Tag
<1> QED
  BY <1>3, <1>4, <1>5 DEF Pinned

----------------------------------------------------------------------------
LEMMA ResolverInitInv == ResolverInit => ResolverInv
<1> SUFFICES ASSUME ResolverInit
             PROVE  ResolverInv
  OBVIOUS
<1>1. was = {[repo |-> t[1], tag |-> t[2], digest |-> registry[t]] : t \in Repos \X Tags}
  BY DEF ResolverInit, Known
<1>2. was \subseteq ImageName
  BY <1>1 DEF ResolverInit, ImageName
<1>3. Witnessed
  BY <1>1 DEF Witnessed
<1>4. calls = <<>> /\ calls \in Seq(Call) /\ Len(calls) = 0
  BY DEF ResolverInit
<1>5. resolverCache = [n \in ImageName |-> None]
  BY DEF ResolverInit
<1>6. ResolverTypeOK
  <2>1. refused \in BOOLEAN /\ resolverPc \in {"eval", "rejected", "failed"}
    BY DEF ResolverInit
  <2>2. /\ registry \in [Repos \X Tags -> Digests \cup {None}] /\ pushes \in 0 .. MaxPushes
        /\ resolverCache \in [ImageName -> Digests \cup {None}]
    BY <1>5, ResolverAssumption DEF ResolverInit
  <2>3. 1 .. Len(calls) = {}
    BY <1>4
  <2> QED
    BY <1>2, <2>1, <2>2, <2>3 DEF ResolverTypeOK
<1>7. NeverHit
  BY <1>5 DEF NeverHit
<1>8. ResolvedIsTrue /\ ErrorMeansPinned
  BY <1>4 DEF ResolverInit, ResolvedIsTrue, ErrorMeansPinned
<1> QED
  BY <1>3, <1>4, <1>6, <1>7, <1>8 DEF ResolverInv

LEMMA ResolveInv == ResolverInv /\ resolveImage => ResolverInv'
<1> SUFFICES ASSUME ResolverInv, resolverPc = "eval",
                    NEW image \in Images, Resolve(image, ParseImageName(image)),
                    UNCHANGED <<registry, pushes, flags, was>>
             PROVE  ResolverInv'
  BY DEF resolveImage
<1> DEFINE n == ParseImageName(image)
<1>1. /\ image \in ImageName /\ n \in ImageName /\ n.repo = image.repo
      /\ n.digest = image.digest
      /\ n.digest = None => n.tag # None /\ n.tag = Tag(image)
  BY Parsed, ResolverAssumption
<1>2. /\ Printed(n).repo = n.repo /\ Printed(n).digest = n.digest
      /\ Printed(n).digest = None => Printed(n).tag = n.tag
  BY <1>1, PrintedParts
<1>3. Exact(image, Printed(n))
  BY <1>1, <1>2 DEF Exact
<1>4. Witnessed'
  BY DEF ResolverInv, Witnessed
<1>5. ASSUME Returned(image, n), Pinned(n),
             resolverCache' = resolverCache, refused' \in BOOLEAN,
             refused' = refused \/ ~Fatal
      PROVE  ResolverInv'
  <2>1. Pinned(Printed(n))
    BY <1>2, <1>5 DEF Pinned
  <2>2. calls' = Append(calls, [image |-> image, out |-> Printed(n)]) /\ resolverPc' = resolverPc
    BY <1>5 DEF Returned
  <2> QED
    BY <1>1, <1>3, <1>4, <1>5, <2>1, <2>2, ReturnInv
       DEF ResolverInv, ResolverTypeOK, NeverHit, ErrorMeansPinned, Fatal
<1>6. CASE /\ flags.resolver = "noop" \/ HasDigest(n)
           /\ Returned(image, n) /\ UNCHANGED <<resolverCache, refused>>
  BY <1>5, <1>6 DEF Pinned, HasDigest, ResolverInv, ResolverTypeOK
<1>7. CASE flags.resolver = "registry" /\ ~HasDigest(n) /\ resolverCache[CacheKey(n)] # None
  <2>1. Printed(n) = n
    BY <1>7 DEF Printed, HasDigest
  <2> QED
    BY <1>1, <1>7, <2>1 DEF CacheKey, HasDigest, ResolverInv, NeverHit
<1>8. CASE flags.resolver = "registry" /\ ~HasDigest(n) /\ NotResolved(image, n)
  <2>1. CASE Fatal
    BY <1>4, <1>8, <2>1
       DEF NotResolved, ResolverInv, ResolverTypeOK, NeverHit, ResolvedIsTrue, ErrorMeansPinned
  <2>2. CASE ~Fatal
    BY <1>5, <1>8, <2>2 DEF NotResolved, Pinned, Fatal
  <2> QED
    BY <2>1, <2>2
<1>9. ASSUME flags.resolver = "registry", ~HasDigest(n),
             NEW digest, digest = registry[<<n.repo, Tag(n)>>], digest # None,
             Resolved(image, n, digest)
      PROVE  ResolverInv'
  <2> DEFINE m == [n EXCEPT !.digest = digest]
  <2>1. n.digest = None /\ Tag(n) = n.tag /\ n.tag \in Tags /\ n.repo \in Repos
    BY <1>1, <1>9, NameParts DEF HasDigest, Tag
  <2>2. digest \in Digests
    BY <1>9, <2>1 DEF ResolverInv, ResolverTypeOK
  <2>3. m \in ImageName /\ m.digest = digest /\ m.repo = n.repo
    BY <1>1, <2>2 DEF ImageName
  <2>4. [repo |-> n.repo, tag |-> n.tag, digest |-> digest] \in was
    BY <1>9, <2>1 DEF ResolverInv, Witnessed
  <2>5. /\ calls' = Append(calls, [image |-> image, out |-> Printed(m)])
        /\ UNCHANGED <<resolverPc, refused>>
        /\ resolverCache' = [resolverCache EXCEPT ![Printed(m)] = digest]
    BY <1>9 DEF Resolved, Returned, CacheKey
  <2> HIDE DEF m, n
  <2>6. m.digest # None
    BY <1>9, <2>3
  <2>7. /\ Printed(m) \in ImageName /\ Printed(m).repo = m.repo /\ Printed(m).digest = m.digest
    BY <2>3, <2>6, PrintedParts
  <2>8. Exact(image, Printed(m)) /\ Pinned(Printed(m))
    BY <1>1, <2>1, <2>3, <2>4, <2>6, <2>7 DEF Exact, Pinned
  <2>9. resolverCache' \in [ImageName -> Digests \cup {None}] /\ NeverHit'
    BY <2>2, <2>5, <2>6, <2>7 DEF ResolverInv, ResolverTypeOK, NeverHit
  <2> QED
    BY <1>4, <2>3, <2>5, <2>6, <2>8, <2>9, ReturnInv
       DEF ResolverInv, ResolverTypeOK, ErrorMeansPinned
<1> QED
  BY <1>6, <1>7, <1>8, <1>9 DEF Resolve

LEMMA PushInv == ResolverInv /\ Push => ResolverInv'
<1> SUFFICES ASSUME ResolverInv, Push
             PROVE  ResolverInv'
  OBVIOUS
<1>1. registry' \in [Repos \X Tags -> Digests \cup {None}] /\ pushes' \in 0 .. MaxPushes
  BY ResolverAssumption DEF Push, ResolverInv, ResolverTypeOK
<1>2. was' = was \cup {[repo |-> t[1], tag |-> t[2], digest |-> registry'[t]] : t \in Repos \X Tags}
  BY <1>1 DEF Push, Known
<1>3. was' \subseteq ImageName
  BY <1>1, <1>2 DEF ResolverInv, ResolverTypeOK, ImageName
<1>4. Witnessed'
  BY <1>2 DEF Witnessed
<1>5. UNCHANGED <<flags, resolverCache, resolverPc, calls, refused>>
  BY DEF Push
<1>6. ResolvedIsTrue'
  BY <1>2, <1>5 DEF ResolverInv, ResolvedIsTrue, Tag
<1> QED
  BY <1>1, <1>3, <1>4, <1>5, <1>6
     DEF ResolverInv, ResolverTypeOK, NeverHit, ErrorMeansPinned

\* The invariant holds throughout.
THEOREM ResolverInvariance == ResolverSpec => []ResolverInv
<1>1. ResolverInv /\ [ResolverNext]_resolverVars => ResolverInv'
  <2> SUFFICES ASSUME ResolverInv, [ResolverNext]_resolverVars
               PROVE  ResolverInv'
    OBVIOUS
  <2>1. CASE UNCHANGED resolverVars
    BY <2>1 DEF resolverVars, ResolverInv, ResolverTypeOK, NeverHit, Witnessed,
                ResolvedIsTrue, ErrorMeansPinned
  <2>2. CASE ResolveMalformed
    BY <2>2 DEF ResolveMalformed, ResolverInv, ResolverTypeOK, NeverHit, Witnessed,
                ResolvedIsTrue, ErrorMeansPinned
  <2> QED
    BY <2>1, <2>2, ResolveInv, PushInv DEF ResolverNext
<1> QED
  BY <1>1, ResolverInitInv, PTL DEF ResolverSpec

\* ResolverTypeOK: what is returned is a name as it is printed, with a tag or a
\* digest.
THEOREM ResolverTypeCorrect == ResolverSpec => []ResolverTypeOK
<1>1. ResolverInv => ResolverTypeOK
  BY DEF ResolverInv
<1> QED
  BY <1>1, ResolverInvariance, PTL

\* ResolvedIsTrue: a digest is one that the tag had during the evaluation.
THEOREM DigestsAreTrue == ResolverSpec => []ResolvedIsTrue
<1>1. ResolverInv => ResolvedIsTrue
  BY DEF ResolverInv
<1> QED
  BY <1>1, ResolverInvariance, PTL

\* ErrorMeansPinned: under `error` no failure goes unnoticed.
THEOREM FailuresNoticed == ResolverSpec => []ErrorMeansPinned
<1>1. ResolverInv => ErrorMeansPinned
  BY DEF ResolverInv
<1> QED
  BY <1>1, ResolverInvariance, PTL


----------------------------------------------------------------------------
\* Reading: what is found of a file.

\* In a sequence, an occurrence of m before one of n.
Before(s, m, n) == \E x, y \in 1 .. Len(s) : x < y /\ s[x] = m /\ s[y] = n

\* A frame is of an array or of a map.
Proper == {frame \in Frame : frame.ordered = <<>> \/ frame.any = {}}

\* What the first h frames have left to walk, and all that is below that.
Pending(frame) == ToSet(frame.ordered) \cup frame.any
Left(stack, h) == UNION {Pending(stack[g]) : g \in 1 .. h}
Cover(S) == UNION {Below[n] : n \in S}

\* The first k elements of the array a are found, and in order, but for what is
\* still to come, in L, of the last of them.
Settled(s, a, k, L) ==
  /\ \A i \in 1 .. k : \A m \in Below[Array[a][i]] \cap Objects :
       m \in ToSet(s) \/ (i = k /\ m \in Cover(L))
  /\ \A j \in 1 .. k : \A i \in 1 .. j - 1 :
       \A m \in Below[Array[a][i]] \cap Objects, n \in Below[Array[a][j]] \cap Objects :
         Before(s, m, n) \/ (j = k /\ n \in Cover(L))

\* Frame g is in the middle of the array a, the frames above it in its k-th element.
InProgress(s, stack, a, k, g) ==
  /\ Len(stack[g].ordered) = Len(Array[a]) - k
  /\ \A i \in 1 .. Len(Array[a]) - k : stack[g].ordered[i] = Array[a][k + i]
  /\ Settled(s, a, k, Left(stack, g - 1))

\* All that counts in a file is found or still to come, and nothing else is found.
Accounted(s, stack, p) ==
  /\ ToSet(s) \subseteq Objects
  /\ \A n \in Objects \cup {m \in Nodes : Type[m] = "scalar"} :
       n \in Within[p] <=> (n \in ToSet(s) \/ n \in Cover(Left(stack, Len(stack))))

\* So it is with the arrays.
Arranged(s, stack, p) ==
  \A a \in Within[p] \ Objects :
    \/ a \in Cover(Left(stack, Len(stack)))
    \/ Settled(s, a, Len(Array[a]), {})
    \/ \E k \in 0 .. Len(Array[a]), g \in 1 .. Len(stack) : InProgress(s, stack, a, k, g)

\* The same of the paths that the result is made of.
Done == {named[i] : i \in 1 .. Len(named) - Len(todo)}
ResultExact ==
  \A e \in Nodes :
    e \in ToSet(res) <=> \E p \in Done : \E n \in ObjectsOf(p) : e \in ToSet(Members(n))
NoScalar == \A p \in Done : Format[p] = "jsonnet" => \A n \in Within[p] : Type[n] # "scalar"
ResultArranged ==
  \A p \in Done : Format[p] = "jsonnet" =>
    \A a \in Within[p] \ Objects : \A j \in 1 .. Len(Array[a]) : \A i \in 1 .. j - 1 :
      \A m \in Below[Array[a][i]] \cap Objects, n \in Below[Array[a][j]] \cap Objects :
        \A u \in ToSet(Members(m)), v \in ToSet(Members(n)) : Before(res, u, v)

\* The inductive invariant.
ReadingInv ==
  /\ readerPc \in {"read", "walk", "expand", "done", "failed"}
  /\ todo \in Seq(Files) /\ named \in Seq(Files)
  /\ frames \in Seq(Proper) /\ found \in Seq(Nodes) /\ res \in Seq(Nodes)
  /\ \A i \in 1 .. Len(res) : Type[res[i]] = "map"
  /\ Len(todo) <= Len(named)
  /\ \A i \in 1 .. Len(todo) : todo[i] = named[Len(named) - Len(todo) + i]
  /\ ResultExact /\ NoScalar /\ ResultArranged
  /\ readerPc = "read" => found = <<>>
  /\ readerPc = "walk" =>
       /\ todo # <<>> /\ Format[Path] = "jsonnet"
       /\ Accounted(found, frames, Path) /\ Arranged(found, frames, Path)
  /\ readerPc = "expand" =>
       /\ todo # <<>> /\ ToSet(found) = ObjectsOf(Path)
       /\ Format[Path] = "jsonnet" =>
            /\ \A n \in Within[Path] : Type[n] # "scalar"
            /\ \A a \in Within[Path] \ Objects : Settled(found, a, Len(Array[a]), {})
  /\ readerPc = "done" =>
       /\ todo = <<>>
       /\ \A i, j \in 1 .. Len(res) : Address[res[i]] = Address[res[j]] => i = j


----------------------------------------------------------------------------
\* Sequences: the order of occurrences, and what FlattenSeq makes of it.

LEMMA Appended ==
  ASSUME NEW X, NEW s \in Seq(X), NEW e \in X
  PROVE  /\ Append(s, e) \in Seq(X) /\ ToSet(Append(s, e)) = ToSet(s) \cup {e}
         /\ \A m, n : Before(s, m, n) => Before(Append(s, e), m, n)
         /\ \A m \in ToSet(s) : Before(Append(s, e), m, e)
<1> DEFINE t == Append(s, e)
<1>1. /\ Len(s) \in Nat /\ t \in Seq(X) /\ Len(t) = Len(s) + 1 /\ t[Len(s) + 1] = e
      /\ \A i \in 1 .. Len(s) : t[i] = s[i]
  OBVIOUS
<1>2. DOMAIN s = 1 .. Len(s) /\ DOMAIN t = 1 .. Len(t)
  BY <1>1
<1> HIDE DEF t
<1>3. ToSet(t) = ToSet(s) \cup {e}
  BY <1>1, <1>2 DEF ToSet
<1>4. ASSUME NEW m, NEW n, Before(s, m, n)
      PROVE  Before(t, m, n)
  BY <1>1, <1>4 DEF Before
<1>5. ASSUME NEW m \in ToSet(s)
      PROVE  Before(t, m, e)
  <2>1. PICK x \in 1 .. Len(s) : s[x] = m
    BY <1>2 DEF ToSet
  <2> QED
    BY <2>1, <1>1 DEF Before
<1> QED
  BY <1>1, <1>3, <1>4, <1>5 DEF t

LEMMA Concatenated ==
  ASSUME NEW X, NEW s \in Seq(X), NEW t \in Seq(X)
  PROVE  /\ s \o t \in Seq(X) /\ ToSet(s \o t) = ToSet(s) \cup ToSet(t)
         /\ \A m, n : Before(s, m, n) \/ Before(t, m, n) => Before(s \o t, m, n)
         /\ \A m \in ToSet(s), n \in ToSet(t) : Before(s \o t, m, n)
<1> DEFINE w == s \o t
<1>1. /\ Len(s) \in Nat /\ Len(t) \in Nat /\ w \in Seq(X) /\ Len(w) = Len(s) + Len(t)
      /\ \A i \in 1 .. Len(s) : w[i] = s[i]
      /\ \A i \in 1 .. Len(t) : w[Len(s) + i] = t[i]
  OBVIOUS
<1>2. DOMAIN s = 1 .. Len(s) /\ DOMAIN t = 1 .. Len(t) /\ DOMAIN w = 1 .. Len(w)
  BY <1>1
<1> HIDE DEF w
<1>3. ASSUME NEW i \in 1 .. Len(w)
      PROVE  i \in 1 .. Len(s) \/ \E k \in 1 .. Len(t) : i = Len(s) + k
  <2>1. i \in 1 .. Len(s) \/ (i - Len(s) \in 1 .. Len(t) /\ i = Len(s) + (i - Len(s)))
    BY <1>1
  <2> QED
    BY <2>1
<1>4. ToSet(w) = ToSet(s) \cup ToSet(t)
  <2>1. ASSUME NEW e \in ToSet(w)
        PROVE  e \in ToSet(s) \cup ToSet(t)
    <3>1. PICK i \in 1 .. Len(w) : w[i] = e
      BY <1>2 DEF ToSet
    <3> QED
      BY <3>1, <1>1, <1>2, <1>3 DEF ToSet
  <2>2. ASSUME NEW i \in 1 .. Len(s)
        PROVE  s[i] \in ToSet(w)
    <3>1. i \in 1 .. Len(w)
      BY <1>1
    <3> QED
      BY <3>1, <1>1, <1>2 DEF ToSet
  <2>3. ASSUME NEW i \in 1 .. Len(t)
        PROVE  t[i] \in ToSet(w)
    <3>1. Len(s) + i \in 1 .. Len(w)
      BY <1>1
    <3> QED
      BY <3>1, <1>1, <1>2 DEF ToSet
  <2> QED
    BY <2>1, <2>2, <2>3, <1>2 DEF ToSet
<1>5. ASSUME NEW m, NEW n, Before(s, m, n)
      PROVE  Before(w, m, n)
  BY <1>1, <1>5 DEF Before
<1>6. ASSUME NEW m, NEW n, Before(t, m, n)
      PROVE  Before(w, m, n)
  <2>1. PICK x, y \in 1 .. Len(t) : x < y /\ t[x] = m /\ t[y] = n
    BY <1>6 DEF Before
  <2>2. /\ Len(s) + x \in 1 .. Len(w) /\ Len(s) + y \in 1 .. Len(w) /\ Len(s) + x < Len(s) + y
        /\ w[Len(s) + x] = m /\ w[Len(s) + y] = n
    BY <2>1, <1>1
  <2> QED
    BY <2>2 DEF Before
<1>7. ASSUME NEW m \in ToSet(s), NEW n \in ToSet(t)
      PROVE  Before(w, m, n)
  <2>1. PICK x \in 1 .. Len(s) : s[x] = m
    BY <1>2 DEF ToSet
  <2>2. PICK y \in 1 .. Len(t) : t[y] = n
    BY <1>2 DEF ToSet
  <2>3. /\ x \in 1 .. Len(w) /\ Len(s) + y \in 1 .. Len(w) /\ x < Len(s) + y
        /\ w[x] = m /\ w[Len(s) + y] = n
    BY <2>1, <2>2, <1>1
  <2> QED
    BY <2>3 DEF Before
<1> QED
  BY <1>1, <1>4, <1>5, <1>6, <1>7 DEF w

\* The recursive function that FlattenSeq is defined with.
Flattens(g, ss, n) == g = [i \in 1 .. n |-> IF i = 1 THEN ss[i] ELSE g[i - 1] \o ss[i]]

\* It exists: a least length without one would have a predecessor with one.
LEMMA FlattensExists ==
  ASSUME NEW ss
  PROVE  \A n \in Nat : \E g : Flattens(g, ss, n)
<1> DEFINE T == {n \in Nat : ~ \E g : Flattens(g, ss, n)}
<1> SUFFICES ASSUME T # {}
             PROVE  FALSE
  OBVIOUS
<1>1. PICK x \in T : \A y \in T : x <= y
  BY Least
<1>2. CASE x = 0
  <2> DEFINE g == [i \in 1 .. 0 |-> ss]
  <2>1. g = [i \in 1 .. 0 |-> IF i = 1 THEN ss[i] ELSE g[i - 1] \o ss[i]]
    OBVIOUS
  <2>2. Flattens(g, ss, x)
    BY <2>1, <1>2 DEF Flattens
  <2> QED
    BY <2>2
<1>3. CASE x # 0
  <2>1. x \in Nat /\ x - 1 \in Nat /\ x - 1 \notin T
    BY <1>1, <1>3
  <2>2. PICK g : Flattens(g, ss, x - 1)
    BY <2>1
  <2> DEFINE h == [i \in 1 .. x |-> IF i = 1 THEN ss[i] ELSE g[i - 1] \o ss[i]]
  <2>3. ASSUME NEW i \in 1 .. x - 1
        PROVE  h[i] = g[i]
    <3>1. g[i] = IF i = 1 THEN ss[i] ELSE g[i - 1] \o ss[i]
      BY <2>2 DEF Flattens
    <3> QED
      BY <3>1, <2>1
  <2>4. ASSUME NEW i \in 1 .. x, i # 1
        PROVE  h[i - 1] = g[i - 1]
    <3>1. i - 1 \in 1 .. x - 1
      BY <2>1, <2>4
    <3> HIDE DEF h
    <3> QED
      BY <3>1, <2>3
  <2>5. h = [i \in 1 .. x |-> IF i = 1 THEN ss[i] ELSE h[i - 1] \o ss[i]]
    BY <2>4
  <2>6. Flattens(h, ss, x)
    BY <2>5 DEF Flattens
  <2> QED
    BY <2>6
<1> QED
  BY <1>2, <1>3

\* What it makes of the first k sequences: their elements, in their order.
Flattened(w, ss, k) ==
  /\ ToSet(w) = UNION {ToSet(ss[i]) : i \in 1 .. k}
  /\ \A y \in 1 .. k : \A x \in 1 .. y - 1 :
       \A u \in ToSet(ss[x]), v \in ToSet(ss[y]) : Before(w, u, v)

LEMMA FlattensPrefixes ==
  ASSUME NEW X, NEW ss \in Seq(Seq(X)), NEW g, Flattens(g, ss, Len(ss))
  PROVE  \A k \in 1 .. Len(ss) : g[k] \in Seq(X) /\ Flattened(g[k], ss, k)
<1> DEFINE P(k) == g[k] \in Seq(X) /\ Flattened(g[k], ss, k)
           T == {k \in 1 .. Len(ss) : ~ P(k)}
<1> SUFFICES ASSUME T # {}
             PROVE  FALSE
  OBVIOUS
<1>1. T \in SUBSET Nat /\ Len(ss) \in Nat
  OBVIOUS
<1>2. PICK k \in T : \A y \in T : k <= y
  BY <1>1, Least
<1>3. k \in 1 .. Len(ss) /\ ~ P(k) /\ ss[k] \in Seq(X)
  OBVIOUS
<1>4. \A y \in 1 .. Len(ss) : y < k => P(y)
  BY <1>1, <1>2, <1>3
<1> HIDE DEF T, P
<1>5. CASE k = 1
  <2>1. g[1] = ss[1]
    BY <1>3, <1>5 DEF Flattens
  <2>2. \A y \in 1 .. k : \A x \in 1 .. y - 1 : FALSE
    BY <1>5
  <2>3. 1 .. k = {1}
    BY <1>5
  <2>4. UNION {ToSet(ss[i]) : i \in 1 .. k} = ToSet(ss[1])
    BY <2>3
  <2>5. P(k)
    BY <1>3, <1>5, <2>1, <2>2, <2>4 DEF P, Flattened
  <2> QED
    BY <1>3, <2>5
<1>6. CASE k # 1
  <2>0. k - 1 \in 1 .. Len(ss) /\ k - 1 < k
    BY <1>1, <1>3, <1>6
  <2>1. g[k] = g[k - 1] \o ss[k]
    BY <1>3, <1>6 DEF Flattens
  <2>2. g[k - 1] \in Seq(X) /\ Flattened(g[k - 1], ss, k - 1)
    BY <2>0, <1>4 DEF P
  <2>3. PICK s : s = g[k - 1]
    OBVIOUS
  <2>4. /\ g[k] \in Seq(X) /\ ToSet(g[k]) = ToSet(s) \cup ToSet(ss[k])
        /\ \A m, n : Before(s, m, n) => Before(g[k], m, n)
        /\ \A m \in ToSet(s), n \in ToSet(ss[k]) : Before(g[k], m, n)
    BY <2>1, <2>2, <2>3, <1>3, Concatenated
  <2>5. 1 .. k = (1 .. k - 1) \cup {k}
    BY <1>3, <1>1
  <2>6. ToSet(g[k]) = UNION {ToSet(ss[i]) : i \in 1 .. k}
    <3>1. ToSet(s) = UNION {ToSet(ss[i]) : i \in 1 .. k - 1}
      BY <2>2, <2>3 DEF Flattened
    <3> QED
      BY <3>1, <2>4, <2>5
  <2>7. ASSUME NEW y \in 1 .. k, NEW x \in 1 .. y - 1, NEW u \in ToSet(ss[x]), NEW v \in ToSet(ss[y])
        PROVE  Before(g[k], u, v)
    <3>1. CASE y = k
      <4>1. u \in ToSet(s)
        BY <3>1, <2>2, <2>3 DEF Flattened
      <4> QED
        BY <3>1, <4>1, <2>4
    <3>2. CASE y # k
      <4>1. y \in 1 .. k - 1
        BY <3>2, <2>5
      <4>2. Before(s, u, v)
        BY <4>1, <2>2, <2>3 DEF Flattened
      <4> QED
        BY <4>2, <2>4
    <3> QED
      BY <3>1, <3>2
  <2>8. P(k)
    BY <2>4, <2>6, <2>7 DEF P, Flattened
  <2> QED
    BY <1>3, <2>8
<1> QED
  BY <1>5, <1>6

LEMMA FlattenedSeq ==
  ASSUME NEW X, NEW ss \in Seq(Seq(X))
  PROVE  FlattenSeq(ss) \in Seq(X) /\ Flattened(FlattenSeq(ss), ss, Len(ss))
<1>1. CASE Len(ss) = 0
  <2>1. FlattenSeq(ss) = ss /\ ss = <<>>
    BY <1>1 DEF FlattenSeq
  <2>2. ToSet(<<>>) = {} /\ 1 .. Len(ss) = {}
    BY <1>1 DEF ToSet
  <2> QED
    BY <2>1, <2>2 DEF Flattened
<1>2. CASE Len(ss) # 0
  <2> DEFINE f == CHOOSE g : Flattens(g, ss, Len(ss))
  <2>1. FlattenSeq(ss) = f[Len(ss)]
    BY <1>2 DEF FlattenSeq, Flattens
  <2>2. Flattens(f, ss, Len(ss))
    <3>0. PICK n \in Nat : n = Len(ss)
      OBVIOUS
    <3>1. \E g : Flattens(g, ss, Len(ss))
      BY <3>0, FlattensExists
    <3> QED
      BY <3>1
  <2>3. Len(ss) \in 1 .. Len(ss)
    BY <1>2
  <2> HIDE DEF f
  <2> QED
    BY <2>1, <2>2, <2>3, FlattensPrefixes
<1> QED
  BY <1>1, <1>2


----------------------------------------------------------------------------
\* What is below a node.

LEMMA BelowClosed ==
  ASSUME NEW n \in Nodes
  PROVE  /\ Below[n] \in SUBSET Nodes /\ n \in Below[n] /\ Children(n) \in SUBSET Nodes
         /\ \A k \in Below[n] : Children(k) \subseteq Below[n]
         /\ \A S \in SUBSET Nodes : (n \in S /\ \A k \in S : Children(k) \subseteq S) => Below[n] \subseteq S
<1>1. Below[n] = {m \in Nodes : \A S \in SUBSET Nodes :
                    (n \in S /\ \A k \in S : Children(k) \subseteq S) => m \in S}
  BY DEF Below
<1>2. \A k \in Nodes : Children(k) \in SUBSET Nodes
  <2>1. ASSUME NEW k \in Nodes
        PROVE  Children(k) \in SUBSET Nodes
    <3>1. Array[k] \in Seq(Nodes) /\ Fields[k] \in SUBSET Nodes
      BY ReadingAssumption
    <3>2. ToSet(Array[k]) \in SUBSET Nodes
      BY <3>1 DEF ToSet
    <3> QED
      BY <3>1, <3>2 DEF Children
  <2> QED
    BY <2>1
<1> QED
  BY <1>1, <1>2

\* It is the node, and what is below its children.
LEMMA BelowUnfolds ==
  ASSUME NEW n \in Nodes
  PROVE  Below[n] = {n} \cup Cover(Children(n))
<1> DEFINE S == {n} \cup Cover(Children(n))
<1>1. Children(n) \in SUBSET Nodes
  BY BelowClosed
<1>2. ASSUME NEW c \in Children(n)
      PROVE  Below[c] \subseteq Below[n] /\ Below[c] \in SUBSET Nodes
  <2>1. c \in Nodes /\ c \in Below[n] /\ Below[n] \in SUBSET Nodes
        /\ \A k \in Below[n] : Children(k) \subseteq Below[n]
    BY <1>1, BelowClosed
  <2> QED
    BY <2>1, BelowClosed
<1>3. S \subseteq Below[n]
  BY <1>2, BelowClosed DEF Cover
<1>4. ASSUME NEW k \in S
      PROVE  Children(k) \subseteq S
  <2>1. CASE k = n
    <3>1. \A c \in Children(n) : c \in Below[c]
      BY <1>1, BelowClosed
    <3> QED
      BY <2>1, <3>1 DEF Cover
  <2>2. CASE k # n
    <3>1. PICK c \in Children(n) : k \in Below[c]
      BY <2>2 DEF Cover
    <3>2. Children(k) \subseteq Below[c]
      BY <1>1, <3>1, BelowClosed
    <3> QED
      BY <3>2 DEF Cover
  <2> QED
    BY <2>1, <2>2
<1>5. S \in SUBSET Nodes /\ n \in S
  BY <1>2 DEF Cover
<1> HIDE DEF S
<1>6. Below[n] \subseteq S
  BY <1>4, <1>5, BelowClosed
<1> QED
  BY <1>3, <1>6 DEF S

LEMMA CoverJoins == \A S, T : Cover(S \cup T) = Cover(S) \cup Cover(T)
BY DEF Cover

----------------------------------------------------------------------------
\* Steps of jsonWalk.

\* One value n is taken from the first frame; d frames with its children, none or
\* one, are put before it.
Takes(stack, n, stack2, d) ==
  /\ n \in Nodes /\ d \in 0 .. 1 /\ Len(stack2) = Len(stack) + d
  /\ \A h \in 1 .. Len(stack) : Cover(Left(stack, h)) = {n} \cup Cover(Left(stack2, h + d))
  /\ Below[n] = {n} \cup Cover(Left(stack2, d))
  /\ \A g \in 2 .. Len(stack) : stack2[g + d] = stack[g]
  /\ stack2[1 + d] = Without(stack[1], n)
  /\ n \in Nexts(stack[1])
  /\ n \notin Objects => Array[n] = <<>> \/ (d = 1 /\ stack2[1].ordered = Array[n])

\* Taking a value from a frame leaves the rest of it.
LEMMA WithoutRest ==
  ASSUME NEW frame \in Proper, NEW n \in Nexts(frame)
  PROVE  /\ n \in Nodes /\ Without(frame, n) \in Proper
         /\ Pending(frame) = {n} \cup Pending(Without(frame, n))
<1>1. /\ frame.ordered \in Seq(Nodes) /\ frame.any \in SUBSET Nodes
      /\ frame.ordered = <<>> \/ frame.any = {}
  BY DEF Proper, Frame
<1>2. CASE frame.ordered = <<>>
  <2>1. n \in frame.any /\ Without(frame, n) = [ordered |-> <<>>, any |-> frame.any \ {n}]
    <3>1. n \in frame.any
      BY <1>2 DEF Nexts
    <3> QED
      BY <3>1, <1>2 DEF Without, Unordered
  <2>2. Without(frame, n).ordered = <<>> /\ Without(frame, n).any = frame.any \ {n}
    BY <2>1
  <2>3. Without(frame, n) \in Proper
    <3>1. Without(frame, n) \in Frame
      BY <1>1, <2>1 DEF Frame
    <3> QED
      BY <2>2, <3>1 DEF Proper
  <2> QED
    BY <1>1, <1>2, <2>1, <2>2, <2>3 DEF Pending
<1>3. CASE frame.ordered # <<>>
  <2>1. PICK s : s = frame.ordered
    OBVIOUS
  <2>2. /\ n = s[1] /\ s \in Seq(Nodes) /\ s # <<>> /\ Len(s) \in Nat \ {0}
        /\ Tail(s) \in Seq(Nodes) /\ Len(Tail(s)) = Len(s) - 1
        /\ \A i \in 1 .. Len(s) - 1 : Tail(s)[i] = s[i + 1]
    BY <1>1, <1>3, <2>1 DEF Nexts
  <2>3. Without(frame, n) = [ordered |-> Tail(s), any |-> {}]
    BY <1>3, <2>1 DEF Without, Ordered
  <2>4. Without(frame, n).ordered = Tail(s) /\ Without(frame, n).any = {}
    BY <2>3
  <2>5. ToSet(s) = {n} \cup ToSet(Tail(s))
    <3>1. DOMAIN s = 1 .. Len(s) /\ DOMAIN Tail(s) = 1 .. Len(s) - 1
      BY <2>2
    <3>2. ASSUME NEW i \in 1 .. Len(s), i # 1
          PROVE  s[i] \in ToSet(Tail(s))
      <4>1. i - 1 \in 1 .. Len(s) - 1 /\ i = (i - 1) + 1
        BY <2>2, <3>2
      <4>2. Tail(s)[i - 1] = s[i]
        BY <2>2, <4>1
      <4> QED
        BY <3>1, <4>1, <4>2 DEF ToSet
    <3>3. ASSUME NEW i \in 1 .. Len(s) - 1
          PROVE  Tail(s)[i] \in ToSet(s)
      <4>1. i + 1 \in 1 .. Len(s)
        BY <2>2
      <4> QED
        BY <2>2, <3>1, <4>1 DEF ToSet
    <3>4. n \in ToSet(s)
      BY <2>2, <3>1 DEF ToSet
    <3> QED
      BY <2>2, <3>1, <3>2, <3>3, <3>4 DEF ToSet
  <2>6. Without(frame, n) \in Frame /\ n \in Nodes
    BY <2>2, <2>3 DEF Frame
  <2>7. Without(frame, n) \in Proper
    BY <2>4, <2>6 DEF Proper
  <2>8. frame.any = {}
    BY <1>1, <1>3
  <2> QED
    BY <2>1, <2>4, <2>5, <2>6, <2>7, <2>8 DEF Pending
<1> QED
  BY <1>2, <1>3


\* The stack without the value, and with one more frame.
Rest(stack, n) == <<Without(stack[1], n)>> \o Tail(stack)
Pushed(f, rest) == <<f>> \o rest

LEMMA LeftRest ==
  ASSUME NEW stack \in Seq(Proper), stack # <<>>, NEW n \in Nexts(stack[1]),
         NEW rest, rest = Rest(stack, n)
  PROVE  /\ n \in Nodes /\ rest \in Seq(Proper) /\ Len(rest) = Len(stack)
         /\ rest[1] = Without(stack[1], n) /\ \A g \in 2 .. Len(stack) : rest[g] = stack[g]
         /\ \A h \in 1 .. Len(stack) : Left(stack, h) = {n} \cup Left(rest, h)
<1>1. PICK w : w = Without(stack[1], n)
  OBVIOUS
<1>2. /\ n \in Nodes /\ w \in Proper /\ Pending(stack[1]) = {n} \cup Pending(w)
  <2>1. stack[1] \in Proper
    OBVIOUS
  <2> QED
    BY <2>1, <1>1, WithoutRest
<1>3. /\ rest \in Seq(Proper) /\ Len(rest) = Len(stack) /\ rest[1] = w /\ Len(stack) \in Nat
  BY <1>1, <1>2 DEF Rest
<1>4. ASSUME NEW g \in 2 .. Len(stack)
      PROVE  rest[g] = stack[g]
  <2>1. PICK t : t = Tail(stack)
    OBVIOUS
  <2>2. t \in Seq(Proper) /\ Len(t) = Len(stack) - 1 /\ \A i \in 1 .. Len(stack) - 1 : t[i] = stack[i + 1]
    BY <2>1
  <2>3. g - 1 \in 1 .. Len(stack) - 1 /\ (g - 1) + 1 = g
    BY <1>3
  <2>4. rest[g] = t[g - 1]
    BY <2>1, <2>2, <1>1, <1>2, <1>3 DEF Rest
  <2> QED
    BY <2>2, <2>3, <2>4
<1>5. ASSUME NEW h \in 1 .. Len(stack)
      PROVE  Left(stack, h) = {n} \cup Left(rest, h)
  <2>1. 1 .. h = {1} \cup (2 .. h) /\ \A g \in 2 .. h : g \in 2 .. Len(stack)
    BY <1>3
  <2>2. \A g \in 2 .. h : Pending(rest[g]) = Pending(stack[g])
    BY <2>1, <1>4
  <2>3. Left(stack, h) = Pending(stack[1]) \cup UNION {Pending(stack[g]) : g \in 2 .. h}
    BY <2>1 DEF Left
  <2>4. Left(rest, h) = Pending(w) \cup UNION {Pending(rest[g]) : g \in 2 .. h}
    BY <2>1, <1>3 DEF Left
  <2>5. UNION {Pending(stack[g]) : g \in 2 .. h} = UNION {Pending(rest[g]) : g \in 2 .. h}
    BY <2>2
  <2> QED
    BY <2>3, <2>4, <2>5, <1>2
<1> QED
  BY <1>1, <1>2, <1>3, <1>4, <1>5

LEMMA LeftPushed ==
  ASSUME NEW rest \in Seq(Proper), NEW f \in Proper, NEW stack, stack = Pushed(f, rest)
  PROVE  /\ stack \in Seq(Proper) /\ Len(stack) = Len(rest) + 1 /\ stack[1] = f
         /\ \A g \in 1 .. Len(rest) : stack[g + 1] = rest[g]
         /\ \A h \in 0 .. Len(rest) : Left(stack, h + 1) = Pending(f) \cup Left(rest, h)
<1>1. /\ stack \in Seq(Proper) /\ Len(stack) = Len(rest) + 1 /\ stack[1] = f /\ Len(rest) \in Nat
      /\ \A g \in 1 .. Len(rest) : stack[g + 1] = rest[g]
  BY DEF Pushed
<1>2. ASSUME NEW h \in 0 .. Len(rest)
      PROVE  Left(stack, h + 1) = Pending(f) \cup Left(rest, h)
  <2>1. 1 \in 1 .. h + 1
    OBVIOUS
  <2>2. ASSUME NEW g \in 1 .. h + 1
        PROVE  g = 1 \/ \E i \in 1 .. h : g = i + 1
    <3>1. g = 1 \/ (g - 1 \in 1 .. h /\ g = (g - 1) + 1)
      OBVIOUS
    <3> QED
      BY <3>1
  <2>3. \A i \in 1 .. h : i + 1 \in 1 .. h + 1 /\ stack[i + 1] = rest[i]
    BY <1>1
  <2>4. Left(stack, h + 1) \subseteq Pending(f) \cup Left(rest, h)
    BY <1>1, <2>2, <2>3 DEF Left
  <2>5. Pending(f) \subseteq Left(stack, h + 1)
    BY <1>1, <2>1 DEF Left
  <2>6. Left(rest, h) \subseteq Left(stack, h + 1)
    BY <2>3 DEF Left
  <2> QED
    BY <2>4, <2>5, <2>6
<1> QED
  BY <1>1, <1>2

LEMMA LeftNothing == \A stack : Left(stack, 0) = {} /\ Cover({}) = {}
BY DEF Left, Cover

\* A value without children.
LEMMA TakesLeaf ==
  ASSUME NEW stack \in Seq(Proper), stack # <<>>, NEW n \in Nexts(stack[1]),
         NEW rest, rest = Rest(stack, n),
         Children(n) = {}, n \notin Objects => Array[n] = <<>>
  PROVE  rest \in Seq(Proper) /\ Takes(stack, n, rest, 0)
<1>0. Len(stack) \in Nat
  OBVIOUS
<1>1. /\ n \in Nodes /\ rest \in Seq(Proper) /\ Len(rest) = Len(stack)
      /\ rest[1] = Without(stack[1], n) /\ \A g \in 2 .. Len(stack) : rest[g] = stack[g]
      /\ \A h \in 1 .. Len(stack) : Left(stack, h) = {n} \cup Left(rest, h)
  BY LeftRest
<1>2. Below[n] = {n}
  BY <1>1, BelowUnfolds, LeftNothing
<1>3. ASSUME NEW h \in 1 .. Len(stack)
      PROVE  Cover(Left(stack, h)) = {n} \cup Cover(Left(rest, h + 0))
  <2>1. Cover({n}) = {n}
    BY <1>2 DEF Cover
  <2>2. h + 0 = h
    OBVIOUS
  <2>3. Cover(Left(stack, h)) = Cover({n} \cup Left(rest, h))
    BY <1>1
  <2>4. Cover({n} \cup Left(rest, h)) = Cover({n}) \cup Cover(Left(rest, h))
    BY CoverJoins
  <2> QED
    BY <2>1, <2>2, <2>3, <2>4
<1>4. Below[n] = {n} \cup Cover(Left(rest, 0))
  BY <1>2, LeftNothing
<1>5. \A g \in 2 .. Len(stack) : rest[g + 0] = stack[g]
  BY <1>1
<1>6. 0 \in 0 .. 1 /\ Len(rest) = Len(stack) + 0 /\ rest[1 + 0] = Without(stack[1], n)
  BY <1>0, <1>1
<1> QED
  BY <1>1, <1>3, <1>4, <1>5, <1>6 DEF Takes

\* A value whose children are put before the rest.
LEMMA TakesInner ==
  ASSUME NEW stack \in Seq(Proper), stack # <<>>, NEW n \in Nexts(stack[1]),
         NEW f \in Proper, Pending(f) = Children(n), n \notin Objects => f.ordered = Array[n],
         NEW stack2, stack2 = Pushed(f, Rest(stack, n))
  PROVE  stack2 \in Seq(Proper) /\ Takes(stack, n, stack2, 1)
<1>1. PICK rest : rest = Rest(stack, n)
  OBVIOUS
<1>0. Len(stack) \in Nat \ {0}
  OBVIOUS
<1>2. /\ n \in Nodes /\ rest \in Seq(Proper) /\ Len(rest) = Len(stack)
      /\ rest[1] = Without(stack[1], n) /\ \A g \in 2 .. Len(stack) : rest[g] = stack[g]
      /\ \A h \in 1 .. Len(stack) : Left(stack, h) = {n} \cup Left(rest, h)
  BY <1>1, LeftRest
<1>3. /\ stack2 \in Seq(Proper) /\ Len(stack2) = Len(rest) + 1 /\ stack2[1] = f
      /\ \A g \in 1 .. Len(rest) : stack2[g + 1] = rest[g]
      /\ \A h \in 0 .. Len(rest) : Left(stack2, h + 1) = Children(n) \cup Left(rest, h)
  <2>1. stack2 = Pushed(f, rest) /\ rest \in Seq(Proper)
    BY <1>1, <1>2
  <2>2. /\ stack2 \in Seq(Proper) /\ Len(stack2) = Len(rest) + 1 /\ stack2[1] = f
        /\ \A g \in 1 .. Len(rest) : stack2[g + 1] = rest[g]
        /\ \A h \in 0 .. Len(rest) : Left(stack2, h + 1) = Pending(f) \cup Left(rest, h)
    <3>1. \A r \in Seq(Proper) : \A t : t = Pushed(f, r) =>
            /\ t \in Seq(Proper) /\ Len(t) = Len(r) + 1 /\ t[1] = f
            /\ \A g \in 1 .. Len(r) : t[g + 1] = r[g]
            /\ \A h \in 0 .. Len(r) : Left(t, h + 1) = Pending(f) \cup Left(r, h)
      BY LeftPushed
    <3> QED
      BY <2>1, <3>1
  <2> QED
    BY <2>2
<1>4. Below[n] = {n} \cup Cover(Children(n))
  BY <1>2, BelowUnfolds
<1>5. ASSUME NEW h \in 1 .. Len(stack)
      PROVE  Cover(Left(stack, h)) = {n} \cup Cover(Left(stack2, h + 1))
  <2>1. Cover({n}) = Below[n]
    BY DEF Cover
  <2>2. Cover(Left(stack, h)) = Below[n] \cup Cover(Left(rest, h))
    BY <2>1, <1>2, CoverJoins
  <2>3. h \in 0 .. Len(rest)
    BY <1>0, <1>2
  <2>4. Cover(Left(stack2, h + 1)) = Cover(Children(n)) \cup Cover(Left(rest, h))
    BY <2>3, <1>3, CoverJoins
  <2> QED
    BY <2>2, <2>4, <1>4
<1>6. Left(stack2, 1) = Children(n)
  <2>1. 0 \in 0 .. Len(rest) /\ 0 + 1 = 1
    BY <1>0, <1>2
  <2> QED
    BY <2>1, <1>3, LeftNothing
<1>7. ASSUME NEW g \in 2 .. Len(stack)
      PROVE  stack2[g + 1] = stack[g]
  <2>1. g \in 1 .. Len(rest)
    BY <1>0, <1>2
  <2> QED
    BY <2>1, <1>2, <1>3
<1>8. 1 \in 0 .. 1 /\ Len(stack2) = Len(stack) + 1 /\ stack2[1 + 1] = Without(stack[1], n)
  BY <1>0, <1>2, <1>3
<1> QED
  BY <1>2, <1>3, <1>4, <1>5, <1>6, <1>7, <1>8 DEF Takes


\* What is found, with n if that is an object.
With(s, n) == IF n \in Objects THEN Append(s, n) ELSE s

LEMMA WithFacts ==
  ASSUME NEW s \in Seq(Nodes), NEW n \in Nodes
  PROVE  /\ With(s, n) \in Seq(Nodes)
         /\ ToSet(With(s, n)) = ToSet(s) \cup ({n} \cap Objects)
         /\ \A x, y : Before(s, x, y) => Before(With(s, n), x, y)
         /\ n \in Objects => \A x \in ToSet(s) : Before(With(s, n), x, n)
<1>1. CASE n \in Objects
  <2>1. With(s, n) = Append(s, n)
    BY <1>1 DEF With
  <2> QED
    BY <2>1, <1>1, Appended
<1>2. CASE n \notin Objects
  <2>1. With(s, n) = s
    BY <1>2 DEF With
  <2> QED
    BY <2>1, <1>2
<1> QED
  BY <1>1, <1>2

LEMMA WalkAccounts ==
  ASSUME NEW s \in Seq(Nodes), NEW stack \in Seq(Proper), stack # <<>>, NEW stack2 \in Seq(Proper),
         NEW n, NEW d, Takes(stack, n, stack2, d), NEW p, Accounted(s, stack, p), Type[n] # "scalar"
  PROVE  Accounted(With(s, n), stack2, p)
<1>1. /\ n \in Nodes /\ Len(stack2) = Len(stack) + d /\ Len(stack) \in 1 .. Len(stack)
      /\ \A h \in 1 .. Len(stack) : Cover(Left(stack, h)) = {n} \cup Cover(Left(stack2, h + d))
  <2>1. Len(stack) \in 1 .. Len(stack)
    OBVIOUS
  <2> QED
    BY <2>1 DEF Takes
<1>2. Cover(Left(stack, Len(stack))) = {n} \cup Cover(Left(stack2, Len(stack2)))
  BY <1>1
<1>3. ToSet(With(s, n)) = ToSet(s) \cup ({n} \cap Objects)
  BY <1>1, WithFacts
<1>4. ASSUME NEW x \in Objects \cup {m \in Nodes : Type[m] = "scalar"}
      PROVE  x \in Within[p] <=> (x \in ToSet(With(s, n)) \/ x \in Cover(Left(stack2, Len(stack2))))
  <2>1. x \in Within[p] <=> (x \in ToSet(s) \/ x \in Cover(Left(stack, Len(stack))))
    BY DEF Accounted
  <2>2. x = n => n \in Objects
    OBVIOUS
  <2> QED
    BY <2>1, <2>2, <1>2, <1>3
<1> QED
  BY <1>3, <1>4 DEF Accounted

\* What is settled remains so, with less to come.
LEMMA StaysSettled ==
  ASSUME NEW s \in Seq(Nodes), NEW n \in Nodes, NEW a, NEW k \in Nat, NEW L, NEW M,
         Settled(s, a, k, L), Cover(L) \subseteq {n} \cup Cover(M)
  PROVE  Settled(With(s, n), a, k, M)
<1>1. /\ ToSet(With(s, n)) = ToSet(s) \cup ({n} \cap Objects)
      /\ \A x, y : Before(s, x, y) => Before(With(s, n), x, y)
      /\ n \in Objects => \A x \in ToSet(s) : Before(With(s, n), x, n)
  BY WithFacts
<1>2. ASSUME NEW i \in 1 .. k, NEW m \in Below[Array[a][i]] \cap Objects
      PROVE  m \in ToSet(With(s, n)) \/ (i = k /\ m \in Cover(M))
  <2>1. m \in ToSet(s) \/ (i = k /\ m \in Cover(L))
    BY DEF Settled
  <2> QED
    BY <2>1, <1>1
<1>3. ASSUME NEW j \in 1 .. k, NEW i \in 1 .. j - 1, NEW m \in Below[Array[a][i]] \cap Objects,
             NEW x \in Below[Array[a][j]] \cap Objects
      PROVE  Before(With(s, n), m, x) \/ (j = k /\ x \in Cover(M))
  <2>1. Before(s, m, x) \/ (j = k /\ x \in Cover(L))
    BY DEF Settled
  <2>2. m \in ToSet(s)
    <3>1. i \in 1 .. k /\ i # k
      OBVIOUS
    <3> QED
      BY <3>1 DEF Settled
  <2> QED
    BY <2>1, <2>2, <1>1
<1> QED
  BY <1>2, <1>3 DEF Settled

\* One more element is settled but for what is below it.
LEMMA SettlesNext ==
  ASSUME NEW s \in Seq(Nodes), NEW n \in Nodes, NEW a, NEW k \in Nat, NEW M,
         Settled(s, a, k, {}), Array[a][k + 1] = n, Below[n] = {n} \cup Cover(M)
  PROVE  Settled(With(s, n), a, k + 1, M)
<1>1. /\ ToSet(With(s, n)) = ToSet(s) \cup ({n} \cap Objects)
      /\ \A x, y : Before(s, x, y) => Before(With(s, n), x, y)
      /\ n \in Objects => \A x \in ToSet(s) : Before(With(s, n), x, n)
  BY WithFacts
<1>2. ASSUME NEW i \in 1 .. k, NEW m \in Below[Array[a][i]] \cap Objects
      PROVE  m \in ToSet(s)
  BY LeftNothing DEF Settled
<1>3. ASSUME NEW i \in 1 .. k + 1, NEW m \in Below[Array[a][i]] \cap Objects
      PROVE  m \in ToSet(With(s, n)) \/ (i = k + 1 /\ m \in Cover(M))
  <2>1. CASE i = k + 1
    BY <2>1, <1>1
  <2>2. CASE i # k + 1
    <3>1. i \in 1 .. k
      BY <2>2
    <3> QED
      BY <3>1, <1>1, <1>2
  <2> QED
    BY <2>1, <2>2
<1>4. ASSUME NEW j \in 1 .. k + 1, NEW i \in 1 .. j - 1, NEW m \in Below[Array[a][i]] \cap Objects,
             NEW x \in Below[Array[a][j]] \cap Objects
      PROVE  Before(With(s, n), m, x) \/ (j = k + 1 /\ x \in Cover(M))
  <2>1. m \in ToSet(s)
    <3>1. i \in 1 .. k
      OBVIOUS
    <3> QED
      BY <3>1, <1>2
  <2>2. CASE j = k + 1
    <3>1. x = n \/ x \in Cover(M)
      BY <2>2
    <3> QED
      BY <3>1, <2>1, <2>2, <1>1
  <2>3. CASE j # k + 1
    <3>1. j \in 1 .. k
      BY <2>3
    <3>2. Before(s, m, x)
      BY <3>1, LeftNothing DEF Settled
    <3> QED
      BY <3>2, <1>1
  <2> QED
    BY <2>2, <2>3
<1> QED
  BY <1>3, <1>4 DEF Settled


LEMMA WithinNodes ==
  ASSUME NEW p \in Files
  PROVE  Within[p] \in SUBSET Nodes /\ \A a \in Within[p] : Array[a] \in Seq(Nodes) /\ Len(Array[a]) \in Nat
<1>1. Documents[p] \in Seq(Nodes)
  BY ReadingAssumption
<1>2. \A n \in ToSet(Documents[p]) : n \in Nodes /\ Below[n] \in SUBSET Nodes
  BY <1>1, BelowClosed DEF ToSet
<1>3. Within[p] \in SUBSET Nodes
  BY <1>2 DEF Within
<1>4. \A a \in Nodes : Array[a] \in Seq(Nodes)
  BY ReadingAssumption
<1>5. \A s \in Seq(Nodes) : Len(s) \in Nat
  OBVIOUS
<1> QED
  BY <1>3, <1>4, <1>5

\* The array whose frame is the first goes one element on.
LEMMA HeadProgresses ==
  ASSUME NEW s \in Seq(Nodes), NEW stack \in Seq(Proper), stack # <<>>, NEW stack2 \in Seq(Proper),
         NEW n, NEW d, Takes(stack, n, stack2, d),
         NEW a, Array[a] \in Seq(Nodes), NEW k \in 0 .. Len(Array[a]), InProgress(s, stack, a, k, 1)
  PROVE  \/ Settled(With(s, n), a, Len(Array[a]), {})
         \/ \E l \in 0 .. Len(Array[a]), g \in 1 .. Len(stack2) : InProgress(With(s, n), stack2, a, l, g)
<1> DEFINE q == stack[1].ordered
           N == Len(Array[a])
<1>1. /\ n \in Nodes /\ d \in 0 .. 1 /\ Len(stack2) = Len(stack) + d
      /\ Below[n] = {n} \cup Cover(Left(stack2, d))
      /\ stack2[1 + d] = Without(stack[1], n) /\ n \in Nexts(stack[1])
  BY DEF Takes
<1>2. /\ N \in Nat /\ k \in Nat /\ k <= N /\ Len(q) = N - k
      /\ \A i \in 1 .. N - k : q[i] = Array[a][k + i]
  BY DEF InProgress
<1>3. Settled(s, a, k, {})
  <2>1. 1 - 1 = 0
    OBVIOUS
  <2> QED
    BY <2>1, LeftNothing DEF InProgress
<1>4. q \in Seq(Nodes) /\ Len(stack) \in Nat \ {0}
  <2>1. stack[1] \in Proper /\ Len(stack) \in Nat \ {0}
    OBVIOUS
  <2> QED
    BY <2>1 DEF Proper, Frame
<1>5. CASE q = <<>>
  <2>1. k = N
    BY <1>2, <1>5
  <2>2. Cover({}) \subseteq {n} \cup Cover({})
    OBVIOUS
  <2>3. Settled(With(s, n), a, k, {})
    BY <2>2, <1>1, <1>2, <1>3, StaysSettled
  <2> QED
    BY <2>1, <2>3
<1>6. CASE q # <<>>
  <2>1. n = Head(q) /\ stack2[1 + d].ordered = Tail(q)
    <3>1. n = Head(q)
      BY <1>1, <1>6 DEF Nexts
    <3>2. Without(stack[1], n) = [ordered |-> Tail(q), any |-> {}]
      BY <1>6 DEF Without, Ordered
    <3> QED
      BY <3>1, <3>2, <1>1
  <2>2. PICK t : t = Tail(q)
    OBVIOUS
  <2>3. n = q[1] /\ Len(q) \in Nat \ {0} /\ Len(t) = Len(q) - 1 /\ \A i \in 1 .. Len(q) - 1 : t[i] = q[i + 1]
    BY <2>1, <2>2, <1>4, <1>6
  <2> HIDE DEF q, N
  <2>4. k + 1 \in 0 .. N /\ Array[a][k + 1] = n /\ Len(t) = N - (k + 1)
    BY <2>3, <1>2
  <2>5. ASSUME NEW i \in 1 .. N - (k + 1)
        PROVE  t[i] = Array[a][(k + 1) + i]
    <3>1. i \in 1 .. Len(q) - 1 /\ i + 1 \in 1 .. N - k /\ k + (i + 1) = (k + 1) + i
      BY <1>2, <2>3
    <3> QED
      BY <3>1, <1>2, <2>3
  <2>6. Settled(With(s, n), a, k + 1, Left(stack2, d))
    BY <2>4, <1>1, <1>2, <1>3, SettlesNext
  <2>7. PICK g : g = 1 + d
    OBVIOUS
  <2>8. g \in 1 .. Len(stack2) /\ g - 1 = d
    BY <2>7, <1>1, <1>4
  <2>9. InProgress(With(s, n), stack2, a, k + 1, g)
    BY <2>1, <2>2, <2>4, <2>5, <2>6, <2>7, <2>8 DEF InProgress, N
  <2> QED
    BY <2>4, <2>8, <2>9 DEF N
<1> QED
  BY <1>5, <1>6

LEMMA WalkArranges ==
  ASSUME NEW s \in Seq(Nodes), NEW stack \in Seq(Proper), stack # <<>>, NEW stack2 \in Seq(Proper),
         NEW n, NEW d, Takes(stack, n, stack2, d), NEW p \in Files, Arranged(s, stack, p)
  PROVE  Arranged(With(s, n), stack2, p)
<1> SUFFICES ASSUME NEW a \in Within[p] \ Objects
             PROVE  \/ a \in Cover(Left(stack2, Len(stack2)))
                    \/ Settled(With(s, n), a, Len(Array[a]), {})
                    \/ \E l \in 0 .. Len(Array[a]), g \in 1 .. Len(stack2) :
                         InProgress(With(s, n), stack2, a, l, g)
  BY DEF Arranged
<1>1. Array[a] \in Seq(Nodes) /\ Len(Array[a]) \in Nat /\ Len(stack) \in Nat \ {0}
  <2>1. Len(stack) \in Nat \ {0}
    OBVIOUS
  <2> QED
    BY <2>1, WithinNodes
<1>2. /\ n \in Nodes /\ d \in 0 .. 1 /\ Len(stack2) = Len(stack) + d
      /\ \A h \in 1 .. Len(stack) : Cover(Left(stack, h)) = {n} \cup Cover(Left(stack2, h + d))
      /\ \A g \in 2 .. Len(stack) : stack2[g + d] = stack[g]
      /\ n \notin Objects => Array[n] = <<>> \/ (d = 1 /\ stack2[1].ordered = Array[n])
  BY DEF Takes
<1>3. CASE a \in Cover(Left(stack, Len(stack)))
  <2>1. a = n \/ a \in Cover(Left(stack2, Len(stack2)))
    <3>1. Len(stack) \in 1 .. Len(stack)
      BY <1>1
    <3> QED
      BY <3>1, <1>2, <1>3
  <2>2. CASE a = n /\ Array[n] = <<>>
    <3>1. Len(Array[a]) = 0
      BY <2>2
    <3>2. Settled(With(s, n), a, 0, {})
      BY DEF Settled
    <3> QED
      BY <3>1, <3>2
  <2>3. CASE a = n /\ d = 1 /\ stack2[1].ordered = Array[n]
    <3>1. Settled(With(s, n), a, 0, Left(stack2, 1 - 1))
      BY DEF Settled
    <3>2. Len(stack2[1].ordered) = Len(Array[a]) - 0
      BY <2>3, <1>1
    <3>3. \A i \in 1 .. Len(Array[a]) - 0 : stack2[1].ordered[i] = Array[a][0 + i]
      BY <2>3, <1>1
    <3>4. InProgress(With(s, n), stack2, a, 0, 1)
      BY <3>1, <3>2, <3>3 DEF InProgress
    <3>5. 0 \in 0 .. Len(Array[a]) /\ 1 \in 1 .. Len(stack2)
      BY <1>1, <1>2
    <3> QED
      BY <3>4, <3>5
  <2> QED
    BY <2>1, <2>2, <2>3, <1>2
<1>4. CASE Settled(s, a, Len(Array[a]), {})
  <2>1. Cover({}) \subseteq {n} \cup Cover({})
    OBVIOUS
  <2>2. Settled(With(s, n), a, Len(Array[a]), {})
    BY <2>1, <1>1, <1>2, <1>4, StaysSettled
  <2> QED
    BY <2>2
<1>5. ASSUME NEW k \in 0 .. Len(Array[a]), NEW g \in 1 .. Len(stack), InProgress(s, stack, a, k, g)
      PROVE  \/ Settled(With(s, n), a, Len(Array[a]), {})
             \/ \E l \in 0 .. Len(Array[a]), h \in 1 .. Len(stack2) :
                  InProgress(With(s, n), stack2, a, l, h)
  <2>1. CASE g = 1
    BY <2>1, <1>1, <1>5, HeadProgresses
  <2>2. CASE g # 1
    <3>1. g \in 2 .. Len(stack) /\ g - 1 \in 1 .. Len(stack) /\ k \in Nat
      BY <2>2, <1>1
    <3>2. PICK h : h = g + d
      OBVIOUS
    <3>3. h \in 1 .. Len(stack2) /\ h - 1 = (g - 1) + d /\ stack2[h] = stack[g]
      BY <3>1, <3>2, <1>1, <1>2
    <3>4. Cover(Left(stack, g - 1)) \subseteq {n} \cup Cover(Left(stack2, h - 1))
      BY <3>1, <3>3, <1>2
    <3>5. Settled(s, a, k, Left(stack, g - 1))
      BY <1>5 DEF InProgress
    <3>6. Settled(With(s, n), a, k, Left(stack2, h - 1))
      BY <3>1, <3>4, <3>5, <1>2, StaysSettled
    <3>7. InProgress(With(s, n), stack2, a, k, h)
      BY <3>3, <3>6, <1>5 DEF InProgress
    <3> QED
      BY <3>3, <3>7
  <2> QED
    BY <2>1, <2>2
<1> QED
  BY <1>3, <1>4, <1>5 DEF Arranged

\* An empty frame is left.
LEMMA LeftEmpty ==
  ASSUME NEW stack \in Seq(Proper), stack # <<>>, Nexts(stack[1]) = {}
  PROVE  /\ stack[1].ordered = <<>> /\ Tail(stack) \in Seq(Proper) /\ Len(Tail(stack)) = Len(stack) - 1
         /\ \A g \in 2 .. Len(stack) : Tail(stack)[g - 1] = stack[g]
         /\ \A h \in 1 .. Len(stack) : Left(stack, h) = Left(Tail(stack), h - 1)
<1>1. stack[1].ordered = <<>> /\ Pending(stack[1]) = {}
  <2>1. stack[1].ordered = <<>>
    BY DEF Nexts
  <2>2. stack[1].any = {}
    BY <2>1 DEF Nexts
  <2>3. ToSet(<<>>) = {}
    BY DEF ToSet
  <2> QED
    BY <2>1, <2>2, <2>3 DEF Pending
<1>2. PICK t : t = Tail(stack)
  OBVIOUS
<1>3. /\ t \in Seq(Proper) /\ Len(t) = Len(stack) - 1 /\ Len(stack) \in Nat
      /\ \A i \in 1 .. Len(stack) - 1 : t[i] = stack[i + 1]
  BY <1>2
<1>4. ASSUME NEW g \in 2 .. Len(stack)
      PROVE  t[g - 1] = stack[g]
  <2>1. g - 1 \in 1 .. Len(stack) - 1 /\ (g - 1) + 1 = g
    BY <1>3
  <2> QED
    BY <2>1, <1>3
<1>5. ASSUME NEW h \in 1 .. Len(stack)
      PROVE  Left(stack, h) = Left(t, h - 1)
  <2>1. \A g \in 1 .. h - 1 : g + 1 \in 1 .. h /\ Pending(t[g]) = Pending(stack[g + 1])
    BY <1>3
  <2>2. ASSUME NEW g \in 1 .. h, g # 1
        PROVE  g - 1 \in 1 .. h - 1 /\ Pending(stack[g]) = Pending(t[g - 1])
    BY <2>2, <1>3, <1>4
  <2>3. Left(t, h - 1) \subseteq Left(stack, h)
    BY <2>1 DEF Left
  <2>4. Left(stack, h) \subseteq Left(t, h - 1)
    BY <2>2, <1>1 DEF Left
  <2> QED
    BY <2>3, <2>4
<1> QED
  BY <1>1, <1>2, <1>3, <1>4, <1>5


LEMMA LeaveAccounts ==
  ASSUME NEW s, NEW stack \in Seq(Proper), stack # <<>>, Nexts(stack[1]) = {}, NEW p,
         Accounted(s, stack, p)
  PROVE  Accounted(s, Tail(stack), p)
<1>1. Len(stack) \in 1 .. Len(stack)
  OBVIOUS
<1>2. Left(stack, Len(stack)) = Left(Tail(stack), Len(Tail(stack)))
  BY <1>1, LeftEmpty
<1> QED
  BY <1>2 DEF Accounted

LEMMA LeaveArranges ==
  ASSUME NEW s, NEW stack \in Seq(Proper), stack # <<>>, Nexts(stack[1]) = {}, NEW p \in Files,
         Arranged(s, stack, p)
  PROVE  Arranged(s, Tail(stack), p)
<1>1. PICK t : t = Tail(stack)
  OBVIOUS
<1>2. Len(stack) \in Nat \ {0} /\ Len(stack) \in 1 .. Len(stack)
  OBVIOUS
<1>3. /\ stack[1].ordered = <<>> /\ t \in Seq(Proper) /\ Len(t) = Len(stack) - 1
      /\ \A g \in 2 .. Len(stack) : t[g - 1] = stack[g]
      /\ \A h \in 1 .. Len(stack) : Left(stack, h) = Left(t, h - 1)
  BY <1>1, LeftEmpty
<1>4. ASSUME NEW a \in Within[p] \ Objects
      PROVE  \/ a \in Cover(Left(t, Len(t)))
             \/ Settled(s, a, Len(Array[a]), {})
             \/ \E k \in 0 .. Len(Array[a]), g \in 1 .. Len(t) : InProgress(s, t, a, k, g)
  <2>1. CASE a \in Cover(Left(stack, Len(stack)))
    BY <2>1, <1>2, <1>3
  <2>2. ASSUME NEW k \in 0 .. Len(Array[a]), NEW g \in 1 .. Len(stack), InProgress(s, stack, a, k, g)
        PROVE  \/ Settled(s, a, Len(Array[a]), {})
               \/ \E h \in 1 .. Len(t) : InProgress(s, t, a, k, h)
    <3>1. CASE g = 1
      <4>1. Len(stack[1].ordered) = 0 /\ Len(Array[a]) \in Nat
        BY <1>3, WithinNodes
      <4>2. k = Len(Array[a])
        BY <3>1, <4>1, <2>2 DEF InProgress
      <4>3. Settled(s, a, k, Left(stack, 1 - 1))
        BY <3>1, <2>2 DEF InProgress
      <4>4. Left(stack, 1 - 1) = {}
        BY LeftNothing
      <4> QED
        BY <4>2, <4>3, <4>4
    <3>2. CASE g # 1
      <4>1. PICK h : h = g - 1
        OBVIOUS
      <4>2. h \in 1 .. Len(t) /\ h \in 1 .. Len(stack) /\ g \in 2 .. Len(stack)
        BY <3>2, <4>1, <1>2, <1>3
      <4>3. t[h] = stack[g] /\ Left(stack, h) = Left(t, h - 1)
        BY <4>1, <4>2, <1>3
      <4>4. InProgress(s, t, a, k, h)
        BY <4>1, <4>3, <2>2 DEF InProgress
      <4> QED
        BY <4>2, <4>4
    <3> QED
      BY <3>1, <3>2
  <2> QED
    BY <2>1, <2>2 DEF Arranged
<1> QED
  BY <1>1, <1>4 DEF Arranged

----------------------------------------------------------------------------
\* The reader.

LEMMA ReadingStarts == ReadingInit => ReadingInv
<1> SUFFICES ASSUME ReadingInit
             PROVE  ReadingInv
  OBVIOUS
<1>1. named \in Seq(Files) /\ Len(named) \in Nat
  <2>1. named \in UNION {[1 .. m -> Files] : m \in 0 .. MaxFiles}
    BY DEF ReadingInit, BoundedSeq, SeqOf
  <2>2. PICK m \in 0 .. MaxFiles : named \in [1 .. m -> Files]
    BY <2>1
  <2>3. m \in Nat
    BY ReadingAssumption
  <2>4. named \in Seq(Files)
    BY <2>2, <2>3
  <2> QED
    BY <2>4
<1>2. Done = {}
  <2>1. 1 .. Len(named) - Len(todo) = {}
    BY <1>1 DEF ReadingInit
  <2> QED
    BY <2>1 DEF Done
<1>3. ToSet(res) = {}
  BY DEF ReadingInit, ToSet
<1>4. ResultExact /\ NoScalar /\ ResultArranged
  BY <1>2, <1>3 DEF ResultExact, NoScalar, ResultArranged
<1> QED
  BY <1>1, <1>4 DEF ReadingInit, ReadingInv

\* A step that leaves the result alone.
LEMMA SameResult ==
  ASSUME ReadingInv, UNCHANGED <<todo, res, named>>,
         readerPc' \in {"read", "walk", "expand", "done", "failed"},
         frames' \in Seq(Proper), found' \in Seq(Nodes),
         readerPc' = "read" => found' = <<>>,
         readerPc' = "walk" =>
           /\ todo # <<>> /\ Format[Path] = "jsonnet"
           /\ Accounted(found', frames', Path) /\ Arranged(found', frames', Path),
         readerPc' = "expand" =>
           /\ todo # <<>> /\ ToSet(found') = ObjectsOf(Path)
           /\ Format[Path] = "jsonnet" =>
                /\ \A n \in Within[Path] : Type[n] # "scalar"
                /\ \A a \in Within[Path] \ Objects : Settled(found', a, Len(Array[a]), {}),
         readerPc' = "done" =>
           /\ todo = <<>>
           /\ \A i, j \in 1 .. Len(res) : Address[res[i]] = Address[res[j]] => i = j
  PROVE  ReadingInv'
<1>1. Done' = Done /\ Path' = Path
  BY DEF Done, Path
<1>2. ResultExact' /\ NoScalar' /\ ResultArranged'
  BY <1>1 DEF ReadingInv, ResultExact, NoScalar, ResultArranged
<1>3. /\ todo' \in Seq(Files) /\ named' \in Seq(Files) /\ res' \in Seq(Nodes)
      /\ \A i \in 1 .. Len(res') : Type[res'[i]] = "map"
      /\ Len(todo') <= Len(named')
      /\ \A i \in 1 .. Len(todo') : todo'[i] = named'[Len(named') - Len(todo') + i]
  BY DEF ReadingInv
<1> QED
  BY <1>1, <1>2, <1>3 DEF ReadingInv


\* The first path is one of the files, and what it holds are nodes.
LEMMA PathFacts ==
  ASSUME ReadingInv, todo # <<>>
  PROVE  Path \in Files /\ Documents[Path] \in Seq(Nodes)
<1>1. todo \in Seq(Files)
  BY DEF ReadingInv
<1>2. Path \in Files
  BY <1>1 DEF Path
<1> QED
  BY <1>2, ReadingAssumption

LEMMA ReadNext ==
  ASSUME ReadingInv, Read
  PROVE  ReadingInv'
<1>1. /\ readerPc = "read" /\ todo # <<>> /\ Path \in Files /\ Documents[Path] \in Seq(Nodes)
      /\ frames \in Seq(Proper) /\ found \in Seq(Nodes) /\ found = <<>>
  BY PathFacts DEF Read, ReadingInv
<1>2. CASE ReadFails
  <2>1. readerPc' = "failed" /\ UNCHANGED <<todo, frames, found, res, named>>
    BY <1>2 DEF ReadFails
  <2> QED
    BY <2>1, <1>1, SameResult
<1>3. CASE /\ Format[Path] \in {"json", "yaml"}
           /\ found' = Documents[Path] /\ readerPc' = "expand"
           /\ UNCHANGED <<todo, frames, res, named>>
  <2>1. ToSet(found') = ObjectsOf(Path) /\ Format[Path] # "jsonnet"
    BY <1>3 DEF ObjectsOf
  <2> QED
    BY <2>1, <1>1, <1>3, SameResult
<1>4. CASE /\ Format[Path] = "jsonnet"
           /\ frames' = <<Ordered(Documents[Path])>> /\ readerPc' = "walk"
           /\ UNCHANGED <<todo, found, res, named>>
  <2>1. PICK f : f = Ordered(Documents[Path])
    OBVIOUS
  <2>2. f.ordered = Documents[Path] /\ f.any = {} /\ f = [ordered |-> Documents[Path], any |-> {}]
    BY <2>1 DEF Ordered
  <2>3. f \in Proper
    <3>1. f \in Frame
      BY <2>2, <1>1 DEF Frame
    <3> QED
      BY <2>2, <3>1 DEF Proper
  <2>4. Pending(f) = ToSet(Documents[Path])
    BY <2>2 DEF Pending
  <2>5. frames' = <<f>> /\ frames' \in Seq(Proper) /\ Len(frames') = 1
    BY <2>1, <2>3, <1>4
  <2>6. Left(frames', 1) = ToSet(Documents[Path])
    <3>1. 1 .. 1 = {1}
      OBVIOUS
    <3> QED
      BY <3>1, <2>4, <2>5 DEF Left
  <2>7. Cover(Left(frames', Len(frames'))) = Within[Path]
    BY <2>5, <2>6, <1>1 DEF Cover, Within
  <2>8. ToSet(<<>>) = {}
    BY DEF ToSet
  <2>9. Accounted(found', frames', Path) /\ Arranged(found', frames', Path)
    BY <2>7, <2>8, <1>1, <1>4 DEF Accounted, Arranged
  <2> QED
    BY <2>5, <2>9, <1>1, <1>4, SameResult
<1> QED
  BY <1>2, <1>3, <1>4 DEF Read

LEMMA LeaveFrameNext ==
  ASSUME ReadingInv, LeaveFrame
  PROVE  ReadingInv'
<1>1. /\ readerPc = "walk" /\ todo # <<>> /\ Path \in Files /\ Format[Path] = "jsonnet"
      /\ frames \in Seq(Proper) /\ found \in Seq(Nodes)
      /\ Accounted(found, frames, Path) /\ Arranged(found, frames, Path)
      /\ UNCHANGED <<todo, found, res, named>>
  <2>1. readerPc = "walk" /\ todo # <<>>
    BY DEF LeaveFrame, ReadingInv
  <2> QED
    BY <2>1, PathFacts DEF LeaveFrame, ReadingInv
<1>2. CASE frames # <<>> /\ Nexts(Head(frames)) = {} /\ frames' = Tail(frames) /\ UNCHANGED readerPc
  <2>1. Nexts(frames[1]) = {}
    BY <1>2
  <2>2. Tail(frames) \in Seq(Proper)
    BY <1>1, <1>2, <2>1, LeftEmpty
  <2>3. Accounted(found, Tail(frames), Path)
    BY <1>1, <1>2, <2>1, LeaveAccounts
  <2>4. Arranged(found, Tail(frames), Path)
    BY <1>1, <1>2, <2>1, LeaveArranges
  <2> QED
    BY <1>1, <1>2, <2>2, <2>3, <2>4, SameResult
<1>3. CASE frames = <<>> /\ readerPc' = "expand" /\ UNCHANGED frames
  <2>1. Len(frames) = 0 /\ Left(frames, Len(frames)) = {} /\ Cover(Left(frames, Len(frames))) = {}
    BY <1>3, LeftNothing
  <2>2. /\ ToSet(found) \subseteq Objects
        /\ \A n \in Objects \cup {m \in Nodes : Type[m] = "scalar"} : n \in Within[Path] <=> n \in ToSet(found)
    BY <2>1, <1>1 DEF Accounted
  <2>3. ToSet(found) = ObjectsOf(Path)
    BY <2>2, <1>1 DEF ObjectsOf
  <2>4. \A n \in Within[Path] : Type[n] # "scalar"
    <3>1. \A n \in Objects : Type[n] = "map"
      BY ReadingAssumption
    <3>2. Within[Path] \in SUBSET Nodes
      BY <1>1, WithinNodes
    <3> QED
      BY <3>1, <3>2, <2>2
  <2>5. \A a \in Within[Path] \ Objects : Settled(found, a, Len(Array[a]), {})
    <3>1. 1 .. Len(frames) = {}
      BY <2>1
    <3> QED
      BY <3>1, <2>1, <1>1 DEF Arranged
  <2> QED
    BY <1>1, <1>3, <2>3, <2>4, <2>5, SameResult
<1> QED
  BY <1>2, <1>3 DEF LeaveFrame

LEMMA WalkNext ==
  ASSUME ReadingInv, Walk
  PROVE  ReadingInv'
<1>1. /\ readerPc = "walk" /\ todo # <<>> /\ Path \in Files /\ Format[Path] = "jsonnet"
      /\ frames \in Seq(Proper) /\ found \in Seq(Nodes)
      /\ Accounted(found, frames, Path) /\ Arranged(found, frames, Path)
      /\ UNCHANGED <<todo, res, named>> /\ frames # <<>>
  <2>1. readerPc = "walk" /\ todo # <<>>
    BY DEF Walk, ReadingInv
  <2> QED
    BY <2>1, PathFacts DEF Walk, ReadingInv
<1>2. PICK n \in Nexts(Head(frames)) :
        LET rest == <<Without(Head(frames), n)>> \o Tail(frames)
        IN CASE Type[n] = "null"   -> frames' = rest /\ UNCHANGED <<readerPc, found>>
             [] Type[n] = "scalar" -> readerPc' = "failed" /\ UNCHANGED <<frames, found>>
             [] n \in Objects      -> frames' = rest /\ found' = Append(found, n) /\ UNCHANGED readerPc
             [] Type[n] = "array"  -> frames' = <<Ordered(Array[n])>> \o rest
                                      /\ UNCHANGED <<readerPc, found>>
             [] OTHER              -> frames' = <<Unordered(Fields[n])>> \o rest
                                      /\ UNCHANGED <<readerPc, found>>
  BY DEF Walk
<1>3. PICK rest : rest = Rest(frames, n)
  OBVIOUS
<1>4. rest = <<Without(Head(frames), n)>> \o Tail(frames) /\ n \in Nexts(frames[1])
  BY <1>1, <1>3 DEF Rest
<1>5. n \in Nodes /\ rest \in Seq(Proper)
  BY <1>1, <1>3, <1>4, LeftRest
<1>6. /\ Array[n] \in Seq(Nodes) /\ Fields[n] \in SUBSET Nodes
      /\ Type[n] # "array" => Array[n] = <<>>
      /\ Type[n] # "map" => Fields[n] = {}
      /\ n \in Objects => Type[n] = "map"
      /\ Type[n] \in {"null", "scalar", "array", "map"}
  <2>1. n \in Objects => Type[n] = "map"
    BY ReadingAssumption
  <2>2. Array[n] \in Seq(Nodes) /\ Fields[n] \in SUBSET Nodes
    BY <1>5, ReadingAssumption
  <2>3. (Type[n] # "array" => Array[n] = <<>>) /\ (Type[n] # "map" => Fields[n] = {})
    BY <1>5, ReadingAssumption
  <2>4. Type[n] \in {"null", "scalar", "array", "map"}
    BY <1>5, ReadingAssumption
  <2> QED
    BY <2>1, <2>2, <2>3, <2>4
<1>7. ToSet(<<>>) = {}
  BY DEF ToSet
<1>8. CASE Type[n] = "scalar"
  <2>1. readerPc' = "failed" /\ UNCHANGED <<frames, found>>
    BY <1>2, <1>6, <1>8
  <2> QED
    BY <2>1, <1>1, SameResult
<1>9. ASSUME Type[n] # "scalar", NEW d, NEW stack, stack \in Seq(Proper), Takes(frames, n, stack, d),
             frames' = stack, found' = With(found, n), readerPc' = "walk"
      PROVE  ReadingInv'
  <2>1. found' \in Seq(Nodes)
    BY <1>1, <1>5, <1>9, WithFacts
  <2>2. Accounted(found', frames', Path)
    BY <1>1, <1>9, WalkAccounts
  <2>3. Arranged(found', frames', Path)
    BY <1>1, <1>9, WalkArranges
  <2> QED
    BY <1>1, <1>9, <2>1, <2>2, <2>3, SameResult
<1>10. CASE Type[n] = "null"
  <2>1. frames' = rest /\ found' = With(found, n) /\ readerPc' = "walk"
    BY <1>1, <1>2, <1>4, <1>6, <1>10 DEF With
  <2>2. Children(n) = {} /\ Array[n] = <<>>
    BY <1>6, <1>7, <1>10 DEF Children
  <2>3. Takes(frames, n, rest, 0)
    BY <2>2, <1>1, <1>3, <1>4, TakesLeaf
  <2> QED
    BY <2>1, <2>3, <1>5, <1>9, <1>10
<1>11. CASE n \in Objects
  <2>1. frames' = rest /\ found' = With(found, n) /\ readerPc' = "walk"
    BY <1>1, <1>2, <1>4, <1>6, <1>11 DEF With
  <2>2. Children(n) = {}
    BY <1>11 DEF Children
  <2>3. Takes(frames, n, rest, 0)
    BY <2>2, <1>1, <1>3, <1>4, <1>11, TakesLeaf
  <2> QED
    BY <2>1, <2>3, <1>5, <1>6, <1>9, <1>11
<1>12. ASSUME n \notin Objects, Type[n] # "scalar", NEW f \in Proper, Pending(f) = Children(n),
              f.ordered = Array[n], frames' = <<f>> \o rest, UNCHANGED <<readerPc, found>>
       PROVE  ReadingInv'
  <2>1. frames' = Pushed(f, Rest(frames, n))
    BY <1>3, <1>12 DEF Pushed
  <2>2. found' = With(found, n) /\ readerPc' = "walk"
    BY <1>1, <1>12 DEF With
  <2>3. frames' \in Seq(Proper) /\ Takes(frames, n, frames', 1)
    BY <2>1, <1>1, <1>4, <1>12, TakesInner
  <2> QED
    BY <2>2, <2>3, <1>9, <1>12
<1>13. CASE Type[n] = "array"
  <2>1. PICK f : f = Ordered(Array[n])
    OBVIOUS
  <2>2. f = [ordered |-> Array[n], any |-> {}] /\ f.ordered = Array[n] /\ f.any = {}
    BY <2>1 DEF Ordered
  <2>3. f \in Frame
    BY <2>2, <1>6 DEF Frame
  <2>4. f \in Proper
    BY <2>2, <2>3 DEF Proper
  <2>5. n \notin Objects
    BY <1>6, <1>13
  <2>6. Pending(f) = Children(n)
    BY <2>2, <2>5, <1>6, <1>13 DEF Pending, Children
  <2>7. frames' = <<f>> \o rest /\ UNCHANGED <<readerPc, found>>
    BY <2>1, <2>5, <1>2, <1>4, <1>13
  <2> QED
    BY <2>2, <2>4, <2>5, <2>6, <2>7, <1>12, <1>13
<1>14. CASE Type[n] = "map" /\ n \notin Objects
  <2>1. PICK f : f = Unordered(Fields[n])
    OBVIOUS
  <2>2. f = [ordered |-> <<>>, any |-> Fields[n]] /\ f.ordered = <<>> /\ f.any = Fields[n]
    BY <2>1 DEF Unordered
  <2>3. f \in Frame
    BY <2>2, <1>6 DEF Frame
  <2>4. f \in Proper
    BY <2>2, <2>3 DEF Proper
  <2>5. Array[n] = <<>>
    BY <1>6, <1>14
  <2>6. Pending(f) = Children(n)
    BY <2>2, <2>5, <1>7, <1>14 DEF Pending, Children
  <2>7. frames' = <<f>> \o rest /\ UNCHANGED <<readerPc, found>>
    BY <2>1, <1>2, <1>4, <1>14
  <2> QED
    BY <2>2, <2>4, <2>5, <2>6, <2>7, <1>12, <1>14
<1> QED
  BY <1>6, <1>8, <1>10, <1>11, <1>13, <1>14


\* One more path: its members come after all the others.
LEMMA ExpandNext ==
  ASSUME ReadingInv, Expand
  PROVE  ReadingInv'
<1>1. /\ readerPc = "expand" /\ todo # <<>> /\ Path \in Files
      /\ frames \in Seq(Proper) /\ found \in Seq(Nodes) /\ res \in Seq(Nodes)
      /\ todo \in Seq(Files) /\ named \in Seq(Files)
  <2>1. readerPc = "expand" /\ todo # <<>>
    BY DEF Expand, ReadingInv
  <2> QED
    BY <2>1, PathFacts DEF ReadingInv
<1>2. PICK ss : ss = [i \in 1 .. Len(found) |-> Members(found[i])]
  OBVIOUS
<1>3. /\ ss \in Seq(Seq(Nodes)) /\ Len(ss) = Len(found) /\ Len(found) \in Nat
      /\ \A i \in 1 .. Len(found) : ss[i] = Members(found[i])
  <2>1. ASSUME NEW i \in 1 .. Len(found)
        PROVE  Members(found[i]) \in Seq(Nodes)
    <3>1. found[i] \in Nodes
      BY <1>1
    <3>2. Items[found[i]] \in Seq(Nodes) /\ <<found[i]>> \in Seq(Nodes)
      BY <3>1, ReadingAssumption
    <3> QED
      BY <3>2 DEF Members
  <2>2. Len(found) \in Nat
    BY <1>1
  <2> QED
    BY <2>1, <2>2, <1>2
<1>4. PICK members : members = FlattenSeq(ss)
  OBVIOUS
<1>5. members \in Seq(Nodes) /\ Flattened(members, ss, Len(found))
  BY <1>3, <1>4, FlattenedSeq
<1>6. CASE ReadFails
  <2>1. readerPc' = "failed" /\ UNCHANGED <<todo, frames, found, res, named>>
    BY <1>6 DEF ReadFails
  <2> QED
    BY <2>1, <1>1, SameResult
<1>7. CASE /\ \A n \in ToSet(members) : Type[n] = "map"
           /\ res' = res \o members /\ found' = <<>>
           /\ todo' = Tail(todo) /\ readerPc' = "read"
           /\ UNCHANGED <<frames, named>>
  <2>1. /\ res' \in Seq(Nodes) /\ ToSet(res') = ToSet(res) \cup ToSet(members)
        /\ \A m, n : Before(res, m, n) \/ Before(members, m, n) => Before(res', m, n)
    BY <1>1, <1>5, <1>7, Concatenated
  <2>2. ToSet(members) = UNION {ToSet(Members(n)) : n \in ToSet(found)}
    <3>1. ToSet(members) = UNION {ToSet(ss[i]) : i \in 1 .. Len(found)}
      BY <1>5 DEF Flattened
    <3>2. ToSet(found) = {found[i] : i \in 1 .. Len(found)}
      BY <1>1 DEF ToSet
    <3> QED
      BY <3>1, <3>2, <1>3
  <2>3. /\ ToSet(found) = ObjectsOf(Path)
        /\ Format[Path] = "jsonnet" =>
             /\ \A n \in Within[Path] : Type[n] # "scalar"
             /\ \A a \in Within[Path] \ Objects : Settled(found, a, Len(Array[a]), {})
    BY <1>1 DEF ReadingInv
  <2>4. /\ Done' = Done \cup {Path}
        /\ todo' \in Seq(Files) /\ Len(todo') <= Len(named')
        /\ \A i \in 1 .. Len(todo') : todo'[i] = named'[Len(named') - Len(todo') + i]
    <3>1. PICK t : t = todo'
      OBVIOUS
    <3>2. /\ t \in Seq(Files) /\ Len(t) = Len(todo) - 1 /\ Len(todo) \in Nat \ {0} /\ Len(named) \in Nat
          /\ \A i \in 1 .. Len(todo) - 1 : t[i] = todo[i + 1]
      BY <3>1, <1>1, <1>7
    <3>3. /\ Len(todo) <= Len(named)
          /\ \A i \in 1 .. Len(todo) : todo[i] = named[Len(named) - Len(todo) + i]
      BY DEF ReadingInv
    <3>4. ASSUME NEW i \in 1 .. Len(t)
          PROVE  t[i] = named[Len(named) - Len(t) + i]
      <4>1. i \in 1 .. Len(todo) - 1 /\ i + 1 \in 1 .. Len(todo)
            /\ Len(named) - Len(todo) + (i + 1) = Len(named) - Len(t) + i
        BY <3>2
      <4> QED
        BY <4>1, <3>2, <3>3
    <3>5. Path = named[Len(named) - Len(t)]
      <4>1. 1 \in 1 .. Len(todo) /\ Len(named) - Len(todo) + 1 = Len(named) - Len(t)
        BY <3>2
      <4>2. Path = todo[1]
        BY <1>1 DEF Path
      <4> QED
        BY <4>1, <4>2, <3>3
    <3>6. 1 .. Len(named) - Len(t) = (1 .. Len(named) - Len(todo)) \cup {Len(named) - Len(t)}
      BY <3>2, <3>3
    <3>7. Done' = {named[i] : i \in 1 .. Len(named) - Len(t)}
      BY <3>1, <1>7 DEF Done
    <3>8. Done' = Done \cup {Path}
      BY <3>5, <3>6, <3>7 DEF Done
    <3>9. Len(t) <= Len(named)
      BY <3>2, <3>3
    <3>10. named' = named
      BY <1>7
    <3> QED
      BY <3>1, <3>2, <3>4, <3>8, <3>9, <3>10
  <2>5. ResultExact'
    <3>1. ASSUME NEW e \in Nodes
          PROVE  e \in ToSet(res') <=> \E p \in Done' : \E n \in ObjectsOf(p) : e \in ToSet(Members(n))
      <4>1. e \in ToSet(res) <=> \E p \in Done : \E n \in ObjectsOf(p) : e \in ToSet(Members(n))
        BY DEF ReadingInv, ResultExact
      <4>2. e \in ToSet(members) <=> \E n \in ObjectsOf(Path) : e \in ToSet(Members(n))
        BY <2>2, <2>3
      <4>3. (\E p \in Done' : \E n \in ObjectsOf(p) : e \in ToSet(Members(n)))
              <=> \/ \E p \in Done : \E n \in ObjectsOf(p) : e \in ToSet(Members(n))
                  \/ \E n \in ObjectsOf(Path) : e \in ToSet(Members(n))
        BY <2>4
      <4> QED
        BY <4>1, <4>2, <4>3, <2>1
    <3> QED
      BY <3>1 DEF ResultExact, ObjectsOf, Members
  <2>6. NoScalar'
    BY <2>3, <2>4 DEF ReadingInv, NoScalar
  <2>7. ASSUME NEW p \in Done', Format[p] = "jsonnet", NEW a \in Within[p] \ Objects,
               NEW j \in 1 .. Len(Array[a]), NEW i \in 1 .. j - 1,
               NEW m \in Below[Array[a][i]] \cap Objects, NEW n \in Below[Array[a][j]] \cap Objects,
               NEW u \in ToSet(Members(m)), NEW v \in ToSet(Members(n))
        PROVE  Before(res', u, v)
    <3>1. CASE p \in Done
      <4>1. Before(res, u, v)
        BY <3>1, <2>7 DEF ReadingInv, ResultArranged
      <4> QED
        BY <4>1, <2>1
    <3>2. CASE p = Path
      <4>1. Settled(found, a, Len(Array[a]), {})
        BY <3>2, <2>3, <2>7
      <4>2. Before(found, m, n)
        BY <4>1, LeftNothing DEF Settled
      <4>3. PICK x, y \in 1 .. Len(found) : x < y /\ found[x] = m /\ found[y] = n
        BY <4>2 DEF Before
      <4>4. x \in 1 .. y - 1 /\ u \in ToSet(ss[x]) /\ v \in ToSet(ss[y])
        BY <4>3, <1>3
      <4>5. Before(members, u, v)
        BY <4>3, <4>4, <1>5 DEF Flattened
      <4> QED
        BY <4>5, <2>1
    <3> QED
      BY <3>1, <3>2, <2>4
  <2>8. ResultArranged'
    BY <2>7 DEF ResultArranged, Members
  <2>9. \A i \in 1 .. Len(res') : Type[res'[i]] = "map"
    <3>1. \A n \in ToSet(res') : Type[n] = "map"
      <4>1. \A n \in ToSet(res) : Type[n] = "map"
        BY <1>1 DEF ReadingInv, ToSet
      <4> QED
        BY <4>1, <2>1, <1>7
    <3>2. \A i \in 1 .. Len(res') : res'[i] \in ToSet(res')
      BY <2>1 DEF ToSet
    <3> QED
      BY <3>1, <3>2
  <2>10. found' \in Seq(Nodes) /\ frames' \in Seq(Proper) /\ named' \in Seq(Files)
    BY <1>1, <1>7
  <2> QED
    BY <1>7, <2>1, <2>4, <2>5, <2>6, <2>8, <2>9, <2>10 DEF ReadingInv
<1> QED
  BY <1>2, <1>4, <1>6, <1>7 DEF Expand

LEMMA CheckNext ==
  ASSUME ReadingInv, Check
  PROVE  ReadingInv'
<1>1. /\ readerPc = "read" /\ todo = <<>> /\ UNCHANGED <<todo, frames, found, res, named>>
      /\ readerPc' = IF Duplicate THEN "failed" ELSE "done"
      /\ frames \in Seq(Proper) /\ found \in Seq(Nodes) /\ res \in Seq(Nodes)
  BY DEF Check, ReadingInv
<1>2. ASSUME ~Duplicate, NEW i \in 1 .. Len(res), NEW j \in 1 .. Len(res),
             Address[res[i]] = Address[res[j]]
      PROVE  i = j
  <2>1. ~(i < j) /\ ~(j < i)
    BY <1>2 DEF Duplicate
  <2>2. i \in Nat /\ j \in Nat
    BY <1>1
  <2> QED
    BY <2>1, <2>2
<1> QED
  BY <1>1, <1>2, SameResult

\* What is read so far is accounted for, and in order, after every step.
THEOREM ReadingInvariance == ReadingSpec => []ReadingInv
<1>1. ReadingInv /\ [ReadingNext]_readingVars => ReadingInv'
  <2> SUFFICES ASSUME ReadingInv, [ReadingNext]_readingVars
               PROVE  ReadingInv'
    OBVIOUS
  <2>1. CASE UNCHANGED readingVars
    BY <2>1 DEF readingVars, ReadingInv, ResultExact, NoScalar, ResultArranged, Done, Path
  <2> QED
    BY <2>1, ReadNext, WalkNext, LeaveFrameNext, ExpandNext, CheckNext DEF ReadingNext
<1> QED
  BY <1>1, ReadingStarts, PTL DEF ReadingSpec

\* ReadingTypeOK: what is read are maps, whatever the files hold.
THEOREM ReadingTypeCorrect == ReadingSpec => []ReadingTypeOK
<1>1. ReadingInv => ReadingTypeOK
  <2> SUFFICES ASSUME ReadingInv
               PROVE  ReadingTypeOK
    OBVIOUS
  <2>1. \A i \in 1 .. Len(frames) : frames[i] \in Frame
    BY DEF ReadingInv, Proper
  <2> QED
    BY <2>1 DEF ReadingInv, ReadingTypeOK
<1> QED
  BY <1>1, ReadingInvariance, PTL

\* When all is read, all the paths are done.
LEMMA AllDone ==
  ASSUME ReadingInv, readerPc = "done"
  PROVE  Done = ToSet(named)
<1>1. Len(todo) = 0 /\ named \in Seq(Files)
  BY DEF ReadingInv
<1>2. Len(named) - Len(todo) = Len(named) /\ DOMAIN named = 1 .. Len(named)
  BY <1>1
<1> QED
  BY <1>2 DEF Done, ToSet

\* NothingMissedOrMadeUp: the result holds what jsonWalk should find, no more.
THEOREM AllRead == ReadingSpec => []NothingMissedOrMadeUp
<1>1. ReadingInv => NothingMissedOrMadeUp
  <2> SUFFICES ASSUME ReadingInv, readerPc = "done"
               PROVE  NothingMissedOrMadeUp
    BY DEF NothingMissedOrMadeUp
  <2>1. Done = ToSet(named) /\ res \in Seq(Nodes) /\ named \in Seq(Files)
    BY AllDone DEF ReadingInv
  <2>2. ToSet(res) \in SUBSET Nodes /\ ToSet(named) \in SUBSET Files
    BY <2>1 DEF ToSet
  <2>3. ASSUME NEW p \in ToSet(named), NEW n \in ObjectsOf(p), NEW e \in ToSet(Members(n))
        PROVE  e \in Nodes
    <3>1. Within[p] \in SUBSET Nodes /\ Documents[p] \in Seq(Nodes)
      BY <2>2, WithinNodes, ReadingAssumption
    <3>2. n \in Nodes
      BY <3>1 DEF ObjectsOf, ToSet
    <3>3. Items[n] \in Seq(Nodes) /\ <<n>> \in Seq(Nodes)
      BY <3>2, ReadingAssumption
    <3> QED
      BY <3>3 DEF Members, ToSet
  <2>4. \A e \in Nodes :
          e \in ToSet(res) <=> \E p \in ToSet(named) : \E n \in ObjectsOf(p) : e \in ToSet(Members(n))
    BY <2>1 DEF ReadingInv, ResultExact
  <2>5. ToSet(res) = UNION {ToSet(Members(n)) : n \in UNION {ObjectsOf(p) : p \in ToSet(named)}}
    <3>1. ASSUME NEW e
          PROVE  e \in ToSet(res) <=> \E p \in ToSet(named) : \E n \in ObjectsOf(p) : e \in ToSet(Members(n))
      BY <2>2, <2>3, <2>4
    <3>2. ASSUME NEW e
          PROVE  e \in UNION {ToSet(Members(n)) : n \in UNION {ObjectsOf(p) : p \in ToSet(named)}}
                   <=> \E p \in ToSet(named) : \E n \in ObjectsOf(p) : e \in ToSet(Members(n))
      OBVIOUS
    <3> QED
      BY <3>1, <3>2
  <2> QED
    BY <2>1, <2>5 DEF ReadingInv, NoScalar, NothingMissedOrMadeUp
<1> QED
  BY <1>1, ReadingInvariance, PTL

\* ArrayOrderKept: arrays keep their order, at any depth.
THEOREM OrderKept == ReadingSpec => []ArrayOrderKept
<1>1. ASSUME ReadingInv, readerPc = "done", NEW u, NEW v, Before(res, u, v)
      PROVE  Position(u) < Position(v)
  <2>1. PICK x, y \in 1 .. Len(res) : x < y /\ res[x] = u /\ res[y] = v
    BY <1>1 DEF Before
  <2>2. \A i, j \in 1 .. Len(res) : res[i] = res[j] => i = j
    BY <1>1 DEF ReadingInv
  <2>3. Position(u) = x
    BY <2>1, <2>2 DEF Position
  <2>4. Position(v) = y
    BY <2>1, <2>2 DEF Position
  <2> QED
    BY <2>1, <2>3, <2>4
<1>2. ReadingInv => ArrayOrderKept
  <2> SUFFICES ASSUME ReadingInv, readerPc = "done"
               PROVE  ArrayOrderKept
    BY DEF ArrayOrderKept
  <2>1. Done = ToSet(named) /\ ResultArranged
    BY AllDone DEF ReadingInv
  <2> QED
    BY <1>1, <2>1 DEF ResultArranged, ArrayOrderKept
<1> QED
  BY <1>2, ReadingInvariance, PTL

----------------------------------------------------------------------------
\* The parts together, as the run `objects` has them.

\* What is explored there are behaviours of each part, so that all that is proved
\* of the parts holds of it.
THEOREM EachPartRuns == Spec => ImporterSpec /\ ResolverSpec /\ ReadingSpec
<1>1. Init => ImporterInit /\ ResolverInit /\ ReadingInit
  BY DEF Init, ImporterAtRest, ResolverAtRest, ReadingAtRest
<1>2. [Next]_allVars => /\ [ImporterNext]_importerVars
                       /\ [ResolverNext]_resolverVars
                       /\ [ReadingNext]_readingVars
  BY DEF Next, allVars
<1> QED
  BY <1>1, <1>2, PTL DEF Spec, ImporterSpec, ResolverSpec, ReadingSpec

\* ObjectsTypeOK: the types of all parts, and what goes with them.
THEOREM ObjectsTypeCorrect == Spec => []ObjectsTypeOK
<1>1. ImporterTypeOK /\ ResolverTypeOK /\ ReadingTypeOK => ObjectsTypeOK
  BY DEF ObjectsTypeOK
<1> QED
  BY <1>1, EachPartRuns, ImporterTypeCorrect, ResolverTypeCorrect, ReadingTypeCorrect, PTL
=============================================================================
