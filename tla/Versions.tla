------------------------------ MODULE Versions ------------------------------
(***************************************************************************)
(* ServerVersion: how the server's version is parsed and compared.  A      *)
(* numeral is a sequence of characters; only its digits, a plus sign and   *)
(* anything else are told apart.                                           *)
(***************************************************************************)
EXTENDS Integers, Sequences, SequencesExt

Plus == 10
Letter == 11
Digits == 0 .. 9
Text == Seq(Digits \cup {Plus, Letter})

Unparsed == [major |-> -1, minor |-> -1]

\* The number that a sequence of digits names.
Numeral(s) ==
  LET value[k \in 0 .. Len(s)] == IF k = 0 THEN 0 ELSE 10 * value[k - 1] + s[k]
  IN value[Len(s)]

\* strconv.Atoi, which takes a sign; -1 stands for an error.
Atoi(s) ==
  LET t == IF s # <<>> /\ Head(s) = Plus THEN Tail(s) ELSE s
  IN IF t # <<>> /\ ToSet(t) \subseteq Digits THEN Numeral(t) ELSE -1

\* The git version's numbers, if it has the form of gitVersionRe: of each the
\* group captures its last repetition, which is one digit.
parseGitVersion(git) ==
  IF git.matches THEN [major |-> Last(git.major), minor |-> Last(git.minor)] ELSE Unparsed

TrimPlus(s) == IF s # <<>> /\ Last(s) = Plus THEN Front(s) ELSE s

ParseVersion(info) ==
  LET major == Atoi(info.major)
      minor == Atoi(TrimPlus(info.minor))
  IN IF major = -1 \/ minor = -1 THEN parseGitVersion(info.git)
     ELSE [major |-> major, minor |-> minor]

GetDefaultVersion == [major |-> 1, minor |-> 8]

\* Mutant: compares the minor versions only.
CompareMinor(v, major, minor) == v.minor - minor

\* Compare, up to its sign.
Compare(v, major, minor) == IF v.major = major THEN v.minor - minor ELSE v.major - major
=============================================================================
