---------------------------- MODULE ValidateRun ----------------------------
(***************************************************************************)
(* `kubecfg validate`, and the validation in `kubecfg update`:             *)
(* ValidateCmd.Run.  Every object is checked against the schema of its     *)
(* kind, from a document that is fetched anew for each object; whether a   *)
(* kind without a schema exists is asked of the cached discovery client.   *)
(* The server may change between any two requests, the document and the    *)
(* lists of kinds one without the other.                                   *)
(***************************************************************************)
EXTENDS Discovery, Sequences

CONSTANTS
  Validator,        \* the thread of the command
  Items,            \* the objects of the configuration
  Order,            \* the sequence they were read in
  Gvk,              \* the group version and the kind of each
  Conforming,       \* those that conform to their schema, if there is one
  Named,            \* those with a name
  MaxSchemaChanges  \* bound: how often the document changes

ASSUME ValidateAssumption ==
  /\ Validator \in Callers
  /\ Order \in Seq(Items) /\ Gvk \in [Items -> Pairs]
  /\ Conforming \subseteq Items /\ Named \subseteq Items
  /\ MaxSchemaChanges \in Nat

VARIABLES
  schemas,        \* the kinds that the server's OpenAPI document describes
  schemaChanges,  \* how often that has changed
  ignoreUnknown,  \* --ignore-unknown
  run,            \* local state of the command
  \* History, read by the properties only, since the command began:
  seen,           \* kinds that were served or not, that had a schema or not
  refused         \* objects for which there was no document to be found

validateVars == <<schemas, schemaChanges, ignoreUnknown, run, seen, refused>>
validateCmdVars == <<discoveryVars, validateVars>>

Sight(s, d) == [served |-> Serves(s), unserved |-> Pairs \ Serves(s),
                schema |-> d, noSchema |-> Pairs \ d]
Both(a, b) == [f \in DOMAIN a |-> a[f] \cup b[f]]

\* A kind that is known to exist did exist, and what is reported was reached.
ValidateTypeOK ==
  /\ schemas \subseteq Pairs /\ schemaChanges \in 0 .. MaxSchemaChanges
  /\ ignoreUnknown \in BOOLEAN
  /\ run.pc \in {"describe", "named", "fetch", "exists", "asked", "passed", "failed"}
  /\ run.i \in 1 .. Len(Order) + 1
  /\ run.reported \subseteq {Order[j] : j \in 1 .. run.i - 1}
  /\ run.known \subseteq seen.served
  /\ run.pc \in {"passed", "failed"} <=> run.i = Len(Order) + 1
  /\ refused \subseteq Items

ValidateInit ==
  /\ DiscoveryInit
  /\ schemas \in SUBSET Pairs /\ schemaChanges = 0
  /\ ignoreUnknown \in BOOLEAN
  /\ run = [pc |-> IF Order = <<>> THEN "passed" ELSE "describe",
            i |-> 1, reported |-> {}, known |-> {}]
  /\ seen = Sight(served, schemas) /\ refused = {}

----------------------------------------------------------------------------
Returned == call[Validator].pc = "idle"
Item == Order[run.i]

\* Mutant: ends with the first error.
NextItemFailFast(errors) ==
  LET reported == IF errors THEN run.reported \cup {Item} ELSE run.reported
  IN [run EXCEPT !.i = IF errors THEN Len(Order) + 1 ELSE run.i + 1, !.reported = reported,
                 !.pc = IF ~errors /\ run.i < Len(Order) THEN "describe"
                        ELSE IF reported = {} THEN "passed" ELSE "failed"]

\* The loop goes on; its result is hasError, whether anything was reported.
NextItem(errors) ==
  LET reported == IF errors THEN run.reported \cup {Item} ELSE run.reported
  IN [run EXCEPT !.i = run.i + 1, !.reported = reported,
                 !.pc = IF run.i < Len(Order) THEN "describe"
                        ELSE IF reported = {} THEN "passed" ELSE "failed"]

\* ResourceNameFor: the mapper knows, or asks for the groups; a failure only
\* makes the name less pretty.
Describe ==
  /\ run.pc = "describe" /\ UNCHANGED refused
  /\ \/ run' = [run EXCEPT !.pc = "fetch"] /\ UNCHANGED discoveryVars
     \/ run' = [run EXCEPT !.pc = "named"] /\ Begin(Validator, "groups", None)

Described ==
  /\ run.pc = "named" /\ Returned
  /\ run' = [run EXCEPT !.pc = "fetch"]
  /\ UNCHANGED <<discoveryVars, refused>>

\* An object without a schema passes if that is to be ignored; else it is asked
\* whether its kind exists.
Unschemed == IF ignoreUnknown THEN NextItem(FALSE) ELSE [run EXCEPT !.pc = "exists"]

\* NewOpenAPISchemaFor, and Validate if there is a schema.  A server that knows of
\* no document, or says so by mistake, is taken for one without the schema.
FetchSchema ==
  /\ run.pc = "fetch"
  /\ \E f \in {"ok"} \cup Faults :
       /\ Outcome(f)
       /\ \/ /\ f = "ok" /\ Gvk[Item] \in schemas
             /\ run' = NextItem(Item \notin Conforming \/ Item \notin Named)
          \/ /\ f = "hidden" \/ (f = "ok" /\ Gvk[Item] \notin schemas)
             /\ run' = Unschemed
          \/ /\ f \in {"transient", "permanent"}
             /\ run' = NextItem(TRUE)
       /\ refused' = IF f = "hidden" THEN refused \cup {Item} ELSE refused
  /\ UNCHANGED <<served, tick, clientVars, call, answer, invalidatedAt, calledAt, concealed>>

\* gvkExists: from what is known, or from discovery.
Exists ==
  /\ run.pc = "exists" /\ UNCHANGED refused
  /\ IF Gvk[Item] \in run.known
     THEN run' = NextItem(FALSE) /\ UNCHANGED discoveryVars
     ELSE run' = [run EXCEPT !.pc = "asked"] /\ Begin(Validator, "resources", Gvk[Item][1])

\* Mutant: notes the kind that was asked for.
LearntAsked(a) == run.known \cup {Gvk[Item]}

\* All kinds of the list are noted; of an error, none.
Learnt(a) ==
  IF a.status = "answered" /\ a.entry.err = "none"
  THEN run.known \cup ({Gvk[Item][1]} \X a.entry.kinds) ELSE run.known

\* Any error, and a list without the kind, means that it does not exist.
Answered ==
  /\ run.pc = "asked" /\ Returned
  /\ LET known == Learnt(answer[Validator])
     IN run' = [NextItem(Gvk[Item] \notin known) EXCEPT !.known = known]
  /\ UNCHANGED <<discoveryVars, refused>>

----------------------------------------------------------------------------
\* The server, until the command is over.

Over == run.pc \in {"passed", "failed"}
Witness == seen' = Both(seen, Sight(served', schemas'))

KindsChange ==
  /\ ~Over /\ Change
  /\ UNCHANGED <<schemas, schemaChanges, ignoreUnknown, run, refused>>
  /\ Witness

SchemaChange ==
  /\ ~Over
  /\ schemaChanges < MaxSchemaChanges /\ schemaChanges' = schemaChanges + 1
  /\ schemas' \in SUBSET Pairs /\ schemas' # schemas
  /\ UNCHANGED <<discoveryVars, ignoreUnknown, run, refused>>
  /\ Witness

Proceed == Describe \/ Described \/ FetchSchema \/ Exists \/ Answered

Discover(c) ==
  /\ \/ Acquire(c) \/ FetchCore(c) \/ FetchGroups(c) \/ FetchOne(c)
     \/ Commit(c) \/ AnswerGroups(c) \/ AnswerResources(c)
  /\ UNCHANGED <<run, refused>>

ValidateNext ==
  \/ /\ Proceed \/ Discover(Validator)
     /\ UNCHANGED <<schemas, schemaChanges, ignoreUnknown, seen>>
  \/ KindsChange
  \/ SchemaChange

ValidateSpec == ValidateInit /\ [][ValidateNext]_validateCmdVars

----------------------------------------------------------------------------
\* Properties.

\* What passes was checked: while the command ran, the kind of each object had
\* a schema that the object conforms to, or it had none, or there was no document
\* when the object's turn came, and either that was to be ignored or the server did
\* serve the kind.  No other failure lets an object pass.
PassMeansChecked ==
  run.pc = "passed" =>
    \A o \in Items : o \in {Order[j] : j \in 1 .. Len(Order)} =>
      \/ Gvk[o] \in seen.schema /\ o \in Conforming \cap Named
      \/ /\ Gvk[o] \in seen.noSchema \/ o \in refused
         /\ (ignoreUnknown \/ Gvk[o] \in seen.served)

\* Whatever happens to other kinds, and after however many errors: with no
\* failed request, an object whose kind was the same all the time is reported
\* if and only if it does not conform or its kind does not exist.
ReportIsExact ==
  (Over /\ faults = 0) =>
    \A j \in 1 .. Len(Order) :
      LET o == Order[j]
          described == Gvk[o] \notin seen.noSchema
          unknown == Gvk[o] \notin seen.schema
      IN /\ described => (o \in run.reported <=> o \notin Conforming \cap Named)
         /\ unknown /\ ignoreUnknown => o \notin run.reported
         /\ unknown /\ ~ignoreUnknown =>
              /\ Gvk[o] \notin seen.unserved => o \notin run.reported
              /\ Gvk[o] \notin seen.served => o \in run.reported
=============================================================================
