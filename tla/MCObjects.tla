----------------------------- MODULE MCObjects -----------------------------
(***************************************************************************)
(* What comes before the first object: files are read, which evaluates     *)
(* jsonnet, which imports files and resolves images.  The three parts      *)
(* share no variable, so each behaviour exercises one of them (its focus)  *)
(* and leaves the others at rest.                                          *)
(***************************************************************************)
EXTENDS Importer, ImageResolver, Reading, TLC

VARIABLE focus

allVars == <<focus, importerVars, resolverVars, readingVars>>

\* What the registry holds while nobody asks it.
Untagged == [t \in Repos \X Tags |-> None]

ImporterAtRest == files = (CHOOSE w \in Worlds : TRUE) /\ ImporterInit
ResolverAtRest ==
  /\ registry = Untagged /\ flags = [resolver |-> "noop", fail |-> "warn"]
  /\ ResolverInit
ReadingAtRest == named = <<>> /\ ReadingInit

Init ==
  \/ focus = "import" /\ ImporterInit /\ ResolverAtRest /\ ReadingAtRest
  \/ focus = "resolve" /\ ImporterAtRest /\ ResolverInit /\ ReadingAtRest
  \/ focus = "read" /\ ImporterAtRest /\ ResolverAtRest /\ ReadingInit

Next ==
  /\ \/ focus = "import" /\ ImporterNext /\ UNCHANGED <<resolverVars, readingVars>>
     \/ focus = "resolve" /\ ResolverNext /\ UNCHANGED <<importerVars, readingVars>>
     \/ focus = "read" /\ ReadingNext /\ UNCHANGED <<importerVars, resolverVars>>
  /\ UNCHANGED focus

Spec == Init /\ [][Next]_allVars

\* The types, and what goes with them: no two locations share an instance, a name
\* has a tag or a digest and not both, and all that is found are maps.
ObjectsTypeOK == ImporterTypeOK /\ ResolverTypeOK /\ ReadingTypeOK

----------------------------------------------------------------------------
\* Imports.  A main file imports a library by name; so does a file in `dir`.
\* The library may be in the working directory, in `dir`, in a --jpath
\* directory, and built in.

MCDirs == {"cwd", "dir", "jpath", "internal"}
MCPaths == {"lib", "url"}
MCUrls == {<<d, "lib">> : d \in MCDirs} \cup {<<"dir", "url">>}
MCReference == [dp \in MCDirs \X MCPaths |-> IF dp[2] = "url" THEN <<"dir", "url">> ELSE dp]
MCDirOf == [u \in MCUrls |-> u[1]]
MCImports == [from: {"cwd", "dir"}, path: {"lib"}] \cup {[from |-> "cwd", path |-> "url"]}
MCJPath == <<"jpath">>
Empty == <<>>
AllWorlds == {w \in [MCUrls -> {"t", Gone, Broken}] : w[<<"dir", "url">>] # Broken
                                                     /\ w[<<"internal", "lib">>] = "t"}

----------------------------------------------------------------------------
\* Images.  One repository with two tags: names with a tag, without, with a
\* digest.

Image(tag, digest) == [repo |-> "r", tag |-> tag, digest |-> digest]
MCImages == {Image("v1", None), Image(None, None), Image(None, "d1"), Image("v1", "d2")}

----------------------------------------------------------------------------
\* Files.  A deeply nested jsonnet file, one with a misplaced value, a YAML
\* file that repeats an object, and lists: one holds a list, another a number.

MCFiles == {"deep", "wrong", "again", "lists", "badlist", "odd"}
MCFormat == [deep |-> "jsonnet", wrong |-> "jsonnet", again |-> "yaml", lists |-> "json",
             badlist |-> "jsonnet", odd |-> "other"]
MCDocuments == [deep |-> <<"top">>, wrong |-> <<"half">>, again |-> <<"c", "c2", "kinded">>,
                lists |-> <<"list">>, badlist |-> <<"badlist">>, odd |-> <<>>]

MCNodes == {"top", "arr", "map", "half", "null", "num", "a", "b", "c", "c2", "d", "e",
            "below", "list", "badlist", "inner", "kinded"}
MCType == [n \in MCNodes |-> CASE n = "null" -> "null" [] n = "num" -> "scalar"
                               [] n = "arr" -> "array" [] OTHER -> "map"]
MCArray == [n \in MCNodes |-> IF n = "arr" THEN <<"a", "map", "null", "b">> ELSE <<>>]
MCFields == [n \in MCNodes |-> CASE n = "top" -> {"arr", "c"} [] n = "map" -> {"d", "null"}
                                 [] n = "half" -> {"e", "num"} [] n = "a" -> {"below"}
                                 [] OTHER -> {}]
MCLists == {"list", "badlist", "inner"}
MCObjectMaps == {"a", "b", "c", "c2", "d", "e", "below"} \cup MCLists
MCKinded == MCObjectMaps \cup {"kinded"}
MCItems == [n \in MCNodes |-> CASE n = "list" -> <<"e", "inner", "d">>
                                [] n = "badlist" -> <<"b", "num">>
                                [] n = "inner" -> <<"b">>
                                [] OTHER -> <<>>]
\* c2 has the address of a.
MCAddress == [n \in MCNodes |-> IF n = "c2" THEN "a" ELSE n]
=============================================================================
