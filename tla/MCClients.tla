----------------------------- MODULE MCClients -----------------------------
(***************************************************************************)
(* Three ways to use the discovery client: two goroutines that call what   *)
(* they like, the thread of an update, and that of a validation.  Each     *)
(* behaviour is about one of them; the variables of the others rest.       *)
(***************************************************************************)
EXTENDS Mapper, ValidateRun

CONSTANTS
  Focuses,
  Anyone,        \* the two goroutines
  AnyoneChanges  \* bound: how often the server changes meanwhile

VARIABLE focus

allVars == <<focus, discoveryVars, mapperVars, validateVars>>

\* Callers of the client are those it is about; the goroutines that a mapper
\* starts, one for each group version, are its own.
ASSUME ClientsAssumption == Validator \notin GVs /\ Anyone \subseteq Callers \ GVs

\* What a validation meets matters to it alone.
Init ==
  /\ focus \in Focuses
  /\ MapperInit /\ ValidateInit
  /\ focus # "validate" => schemas = {} /\ ~ignoreUnknown

AnyoneNext ==
  \/ tick < AnyoneChanges /\ Change
  \/ \E c \in Anyone : Use(c)

Next ==
  /\ \/ focus = "anyone" /\ AnyoneNext /\ UNCHANGED <<mapperVars, validateVars>>
     \/ focus = "update" /\ MapperNext /\ UNCHANGED validateVars
     \/ focus = "validate" /\ ValidateNext /\ UNCHANGED mapperVars
  /\ UNCHANGED focus

Spec == Init /\ [][Next]_allVars

\* The fairness of DiscoverySpec and of MapperSpec, for whom it is about.
Fairness ==
  /\ WF_allVars(focus = "update" /\ Thread /\ Next)
  /\ \A c \in Callers : WF_allVars(Work(c) /\ Next) /\ SF_allVars(Enter(c) /\ Next)

FairSpec == Spec /\ Fairness

----------------------------------------------------------------------------
\* The types, and what goes with them: an update's workers are at work only while
\* their answers are awaited, a kind that a validation has learnt was served, and
\* no object is reported before its turn.
ClientsTypeOK == DiscoveryTypeOK /\ MapperTypeOK /\ ValidateTypeOK

----------------------------------------------------------------------------
OneKind == {"k"}
Threads == GVs \cup {"main", "other"}
Two == {"main", "other"}
AllFaults == {"transient", "permanent", "hidden"}
SomeFaults == {"transient", "hidden"}

\* Three objects: two of one group version, one of another.
MCItems == {"good", "bad", "other"}
MCOrder == <<"bad", "other", "good">>
MCGvk == [o \in MCItems |-> <<IF o = "other" THEN "g2" ELSE "g1", "k">>]
MCConforming == {"good", "other"}
=============================================================================
