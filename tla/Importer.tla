------------------------------ MODULE Importer ------------------------------
(***************************************************************************)
(* universalImporter, as one jsonnet evaluation uses it: an import is      *)
(* looked for at one candidate URL after the other, with a request each,   *)
(* while files and pages come, change and go.  What was found is cached,   *)
(* what was not is not.  go-jsonnet (external) checks that a location      *)
(* always gives the very same contents, and panics if not.                 *)
(***************************************************************************)
EXTENDS Naturals, Sequences

CONSTANTS
  Urls,
  Dirs,         \* base URLs, of files and of the search path
  Paths,        \* what import statements say
  Absolute,     \* those that are absolute URLs
  Reference,    \* ResolveReference: a path on a directory, or by itself
  DirOf,        \* the directory of a URL, for the imports of that file
  Start,        \* the directory that the first import is relative to
  JPathEnv, JPath, JUrl, Internal,  \* where the search path is from
  Texts,        \* what a file may say
  Gone,         \* it is not there: 404
  Broken,       \* any other failure
  Nothing,
  Worlds,       \* the files that a behaviour may start from
  Imports,      \* what files import: [from, path]
  MaxFileChanges,  \* bound: how often a file changes
  MaxImports       \* bound: how many imports an evaluation makes

ASSUME ImporterAssumption ==
  /\ Absolute \subseteq Paths
  /\ Reference \in [Dirs \X Paths -> Urls] /\ DirOf \in [Urls -> Dirs]
  /\ \A p \in Absolute : \A d, e \in Dirs : Reference[<<d, p>>] = Reference[<<e, p>>]
  /\ JPathEnv \in Seq(Dirs) /\ JPath \in Seq(Dirs) /\ JUrl \in Seq(Dirs)
  /\ Internal \in Dirs /\ Start \in Dirs
  /\ Worlds \subseteq [Urls -> Texts \cup {Gone, Broken}]
  /\ Imports \subseteq [from: Dirs, path: Paths]
  /\ MaxFileChanges \in Nat /\ MaxImports \in Nat
  /\ Nothing \notin [text: Texts, id: Nat] /\ Gone \notin Texts

VARIABLES
  files,        \* what a request for each URL finds
  fileChanges,  \* how often that has changed
  cache,        \* importer.cache: contents by URL, or Nothing
  verified,     \* go-jsonnet's foundAtVerification
  reads,        \* how many bodies have been read: a body is an instance
  importerPc,   \* idle, probing, failed or panicked
  import,       \* the import under way, with its position among the candidates
  results       \* history: what imports have returned, in order

importerVars == <<files, fileChanges, cache, verified, reads, importerPc, import, results>>

NoImport == [from |-> Nothing, path |-> Nothing, i |-> 0]

\* Everything in the cache was read, each body once, and the two caches agree.
ImporterTypeOK ==
  /\ files \in [Urls -> Texts \cup {Gone, Broken}]
  /\ fileChanges \in 0 .. MaxFileChanges /\ reads \in Nat
  /\ importerPc \in {"idle", "probing", "failed", "panicked"}
  /\ \A u \in Urls : cache[u] # Nothing => cache[u].text \in Texts /\ cache[u].id \in 1 .. reads
  /\ \A u, v \in Urls : cache[u] # Nothing /\ cache[u] = cache[v] => u = v
  /\ verified = cache
  /\ importerPc = "probing" <=> import # NoImport

ImporterInit ==
  /\ files \in Worlds /\ fileChanges = 0
  /\ cache = [u \in Urls |-> Nothing] /\ verified = [u \in Urls |-> Nothing]
  /\ reads = 0 /\ importerPc = "idle" /\ import = NoImport /\ results = <<>>

----------------------------------------------------------------------------
\* JsonnetVM: KUBECFG_JPATH, --jpath, --jurl and what is built in.
BaseSearchURLs == JPathEnv \o JPath \o JUrl \o <<Internal>>

expandImportToCandidateURLs(from, path) ==
  IF path \in Absolute THEN <<Reference[<<Start, path>>]>>
  ELSE <<Reference[<<from, path>>]>>
         \o [i \in 1 .. Len(BaseSearchURLs) |-> Reference[<<BaseSearchURLs[i], path>>]]

\* An import statement of a file that was imported, or of the first one.
Import ==
  /\ importerPc = "idle" /\ Len(results) < MaxImports
  /\ \E m \in Imports :
       /\ \/ m.from = Start
          \/ \E j \in 1 .. Len(results) : DirOf[results[j].foundAt] = m.from
       /\ import' = [from |-> m.from, path |-> m.path, i |-> 1]
  /\ importerPc' = "probing"
  /\ UNCHANGED <<files, fileChanges, cache, verified, reads, results>>

\* importData: the importer returns contents for foundAt.
Deliver(contents, foundAt) ==
  LET same == verified[foundAt] \in {Nothing, contents}
  IN /\ importerPc' = IF same THEN "idle" ELSE "panicked"
     /\ verified' = [verified EXCEPT ![foundAt] = contents]
     /\ import' = NoImport
     /\ results' = Append(results, [from |-> import.from, path |-> import.path,
                                    foundAt |-> foundAt, contents |-> contents])

ImportFails ==
  /\ importerPc' = "failed" /\ import' = NoImport
  /\ UNCHANGED <<cache, verified, reads, results>>

\* Mutant: does not keep what it has read.
KeepNothing(u, contents) == cache

Keep(u, contents) == [cache EXCEPT ![u] = contents]

\* Mutant: takes any failure for "not there".
SkippableAny(u) == files[u] \in {Gone, Broken}

Skippable(u) == files[u] = Gone

\* One candidate: from the cache, or with a request.  If it is not there, the
\* next is tried; any other failure ends the evaluation, as does the last.
Probe ==
  /\ importerPc = "probing"
  /\ LET candidates == expandImportToCandidateURLs(import.from, import.path)
         u == candidates[import.i]
     IN \/ /\ cache[u] # Nothing
           /\ Deliver(cache[u], u)
           /\ UNCHANGED <<cache, reads>>
        \/ /\ cache[u] = Nothing /\ files[u] \in Texts
           /\ LET contents == [text |-> files[u], id |-> reads + 1]
              IN cache' = Keep(u, contents) /\ Deliver(contents, u)
           /\ reads' = reads + 1
        \/ /\ cache[u] = Nothing /\ Skippable(u)
           /\ import.i < Len(candidates)
           /\ import' = [import EXCEPT !.i = @ + 1]
           /\ UNCHANGED <<importerPc, cache, verified, reads, results>>
        \/ /\ cache[u] = Nothing /\ files[u] \notin Texts
           /\ Skippable(u) => import.i = Len(candidates)
           /\ ImportFails
  /\ UNCHANGED <<files, fileChanges>>

\* External: someone writes, publishes, edits or removes a file.
FileChange ==
  /\ fileChanges < MaxFileChanges /\ fileChanges' = fileChanges + 1
  /\ \E u \in Urls, c \in Texts \cup {Gone, Broken} :
       files[u] # c /\ files' = [files EXCEPT ![u] = c]
  /\ UNCHANGED <<cache, verified, reads, importerPc, import, results>>

ImporterNext == Import \/ Probe \/ FileChange

ImporterSpec == ImporterInit /\ [][ImporterNext]_importerVars

----------------------------------------------------------------------------
\* Properties.

\* go-jsonnet's verification never fails: whatever happens to the files, each
\* location gives one and the same instance for the whole evaluation.
NeverPanics == importerPc # "panicked"

\* While nothing changes, an import is what is nearest: beside the importing
\* file first, then along the search path; and a location that answers with an
\* error is not passed over.
NearestWins ==
  fileChanges = 0 =>
    \A j \in 1 .. Len(results) :
      LET r == results[j]
          places == IF r.path \in Absolute THEN <<>> ELSE <<r.from>> \o BaseSearchURLs
          there == {i \in 1 .. Len(places) : files[Reference[<<places[i], r.path>>]] # Gone}
      IN IF r.path \in Absolute THEN r.foundAt = Reference[<<Start, r.path>>]
         ELSE \E i \in there : /\ \A k \in there : i <= k
                               /\ r.foundAt = Reference[<<places[i], r.path>>]

\* A file that was found once is what all later imports of the same path get
\* from the same file, unless something nearer has appeared: what is changed or
\* removed after it was read goes unnoticed.
OnlyNearerReplaces ==
  \A j, k \in 1 .. Len(results) :
    (j < k /\ results[j].from = results[k].from /\ results[j].path = results[k].path
       /\ results[j] # results[k]) =>
      LET candidates == expandImportToCandidateURLs(results[j].from, results[j].path)
          Place(r) == CHOOSE i \in 1 .. Len(candidates) :
                        /\ candidates[i] = r.foundAt
                        /\ \A h \in 1 .. i - 1 : candidates[h] # r.foundAt
      IN Place(results[k]) < Place(results[j])
=============================================================================
