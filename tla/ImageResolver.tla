--------------------------- MODULE ImageResolver ---------------------------
(***************************************************************************)
(* The native function resolveImage in one jsonnet evaluation: it turns    *)
(* image names into names with a digest, asking a registry whose tags      *)
(* move and whose answers may fail.  The flags choose the resolver, and    *)
(* what a failure does.                                                    *)
(***************************************************************************)
EXTENDS Naturals, Sequences

CONSTANTS
  Repos, Tags, Digests,
  Latest,      \* the tag of a name that has neither tag nor digest
  None,
  Images,      \* the arguments of resolveImage: [repo, tag, digest]
  Resolvers,   \* values of --resolve-images
  FailActions, \* values of --resolve-images-error
  MaxPushes,   \* bound: how often a tag moves
  MaxCalls     \* bound: how often an evaluation resolves an image

ImageName == [repo: Repos, tag: Tags \cup {None}, digest: Digests \cup {None}]

ASSUME ResolverAssumption ==
  /\ Latest \in Tags /\ None \notin Tags \cup Digests
  /\ Images \subseteq ImageName
  /\ MaxPushes \in Nat /\ MaxCalls \in Nat

VARIABLES
  registry,       \* the digest of each tag, or None
  pushes,         \* how often that has changed
  flags,          \* the resolver and the fail action
  resolverCache,  \* registryResolver.cache: digests by printed names
  resolverPc,     \* eval, rejected or failed
  calls,          \* history: arguments and results
  was,            \* history: the digests that each tag has had in the evaluation
  refused         \* history: whether a request has failed, or found nothing

resolverVars == <<registry, pushes, flags, resolverCache, resolverPc, calls, was, refused>>

Known(r) == {[repo |-> t[1], tag |-> t[2], digest |-> r[t]] : t \in DOMAIN r}

\* An image is printed with its digest, and then without its tag.
Printed(n) == IF n.digest # None THEN [n EXCEPT !.tag = None] ELSE n

\* What is returned is a printed name.
ResolverTypeOK ==
  /\ registry \in [Repos \X Tags -> Digests \cup {None}]
  /\ pushes \in 0 .. MaxPushes
  /\ resolverCache \in [ImageName -> Digests \cup {None}]
  /\ resolverPc \in {"eval", "rejected", "failed"}
  /\ \A i \in 1 .. Len(calls) :
       /\ calls[i].image \in Images /\ calls[i].out \in ImageName
       /\ (calls[i].out.tag = None) # (calls[i].out.digest = None)
  /\ was \subseteq ImageName /\ refused \in BOOLEAN

\* buildResolver refuses values that it does not know.
ResolverInit ==
  /\ registry \in [Repos \X Tags -> Digests \cup {None}]
  /\ pushes = 0 /\ refused = FALSE
  /\ flags \in [resolver: Resolvers, fail: FailActions]
  /\ resolverPc = IF flags.resolver \in {"noop", "registry"}
             /\ flags.fail \in {"ignore", "warn", "error"}
          THEN "eval" ELSE "rejected"
  /\ resolverCache = [n \in ImageName |-> None] /\ calls = <<>>
  /\ was = Known(registry)

----------------------------------------------------------------------------
\* ParseImageName: a name without tag and digest gets the tag `latest`.
ParseImageName(image) ==
  IF image.tag = None /\ image.digest = None THEN [image EXCEPT !.tag = Latest] ELSE image

HasDigest(n) == n.digest # None

\* Mutant: one digest for all tags of a repository.
CacheKeyRepo(n) == [repo |-> n.repo, tag |-> None, digest |-> None]

\* The cache is read under the name without a digest, and written under the
\* name with it.
CacheKey(n) == Printed(n)

Returned(image, n) ==
  /\ calls' = Append(calls, [image |-> image, out |-> Printed(n)])
  /\ UNCHANGED resolverPc

\* Mutant: a failure is never fatal.
FatalNever == FALSE

\* resolverErrorWrapper: only `error` makes it an error of the function.
Fatal == flags.fail = "error"

\* A request fails, or the tag is not there: then the name stays as it is.
NotResolved(image, n) ==
  /\ refused' = TRUE
  /\ IF Fatal THEN resolverPc' = "failed" /\ UNCHANGED calls ELSE Returned(image, n)
  /\ UNCHANGED resolverCache

Resolved(image, n, digest) ==
  LET m == [n EXCEPT !.digest = digest]
  IN /\ Returned(image, m)
     /\ resolverCache' = [resolverCache EXCEPT ![CacheKey(m)] = digest]
     /\ UNCHANGED refused

\* The printed name is parsed once more for the registry.
Tag(n) == IF n.tag = None THEN Latest ELSE n.tag

Resolve(image, n) ==
  \/ /\ flags.resolver = "noop" \/ HasDigest(n)
     /\ Returned(image, n)
     /\ UNCHANGED <<resolverCache, refused>>
  \/ /\ flags.resolver = "registry" /\ ~HasDigest(n)
     /\ IF resolverCache[CacheKey(n)] # None
        THEN /\ Returned(image, [n EXCEPT !.digest = resolverCache[CacheKey(n)]])
             /\ UNCHANGED <<resolverCache, refused>>
        ELSE \/ NotResolved(image, n)
             \/ LET digest == registry[<<n.repo, Tag(n)>>]
                IN digest # None /\ Resolved(image, n, digest)

resolveImage ==
  /\ resolverPc = "eval" /\ Len(calls) < MaxCalls
  /\ \E image \in Images : Resolve(image, ParseImageName(image))
  /\ UNCHANGED <<registry, pushes, flags, was>>

\* What cannot be parsed never gets to the resolver and its wrapper.
ResolveMalformed ==
  /\ resolverPc = "eval" /\ resolverPc' = "failed"
  /\ UNCHANGED <<registry, pushes, flags, resolverCache, calls, was, refused>>

\* External: someone pushes or deletes a tag.
Push ==
  /\ pushes < MaxPushes /\ pushes' = pushes + 1
  /\ resolverPc = "eval"
  /\ \E t \in Repos \X Tags, d \in Digests \cup {None} :
       registry[t] # d /\ registry' = [registry EXCEPT ![t] = d]
  /\ was' = was \cup Known(registry')
  /\ UNCHANGED <<flags, resolverCache, resolverPc, calls, refused>>

ResolverNext == resolveImage \/ ResolveMalformed \/ Push

ResolverSpec == ResolverInit /\ [][ResolverNext]_resolverVars

----------------------------------------------------------------------------
\* Properties.

\* Whatever an evaluation has resolved before: a digest that a name is given is
\* one that its tag has had meanwhile, one that it has already stays, and without
\* one the name means what it meant.
ResolvedIsTrue ==
  \A i \in 1 .. Len(calls) :
    LET n == calls[i].image
        out == calls[i].out
    IN /\ out.repo = n.repo
       /\ n.digest # None => out.digest = n.digest
       /\ n.digest = None =>
            \/ out.digest = None /\ out.tag = Tag(n)
            \/ [repo |-> n.repo, tag |-> Tag(n), digest |-> out.digest] \in was

\* With `error`, what was returned by `registry` has a digest throughout: a
\* request that failed has not gone unnoticed.
ErrorMeansPinned ==
  flags.fail = "error" =>
    /\ refused => resolverPc = "failed"
    /\ flags.resolver = "registry" =>
         \A i \in 1 .. Len(calls) : calls[i].out.digest # None
=============================================================================
