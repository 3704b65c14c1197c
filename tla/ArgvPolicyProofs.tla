-------------------------- MODULE ArgvPolicyProofs --------------------------
(***************************************************************************)
(* The parsers of git_policy.py and cmd_policy.py let run exactly the      *)
(* command lines of their grammars, whatever the words and the commands.   *)
(***************************************************************************)
EXTENDS ArgvPolicy, TLAPS

USE DEF InStage, Enter, Skip, AtEnd, This, argv

GitStages == {"token", "shape", "options", "paths"}
TestStages == {"form", "args", "test_token"}

\* A call keeps to the stages of its tool.
ToolInv ==
    /\ stage \in GitStages => command.tool = "GIT_RUN"
    /\ stage \in TestStages => command.tool = "TEST_RUN"

\* What the check of the shape has found.
Shaped ==
    /\ Len(argv) >= 2 /\ ~HasBlank
    /\ Normal[argv[1]] = "git" /\ Sub \in DOMAIN Flags

LEMMA ShapeIsType ==
  ASSUME ArgvTypeOK
  PROVE  /\ command.argv \in Seq(Word) /\ Len(argv) \in Nat /\ DOMAIN argv = 1 .. Len(argv)
         /\ next \in Nat /\ 1 <= next /\ next <= Len(argv) + 1
         /\ \A k \in 1 .. Len(argv) : argv[k] \in Word
<1>1. command.argv \in Seq(Word) /\ next \in 1 .. (Len(argv) + 1)
  BY DEF ArgvTypeOK
<1> QED
  BY <1>1

\* Types of a call and of the place that its parser has reached: no parser runs
\* beyond the end of argv, also where it takes the value of a flag.
THEOREM ParsersStayInside == ArgvSpec => []ArgvTypeOK
<1>1. ArgvInit => ArgvTypeOK
  <2> SUFFICES ASSUME ArgvInit PROVE ArgvTypeOK
    OBVIOUS
  <2>1. command \in [tool : {"GIT_RUN", "TEST_RUN"}, argv : Seq(Word)]
    BY WordsAreClassified DEF ArgvInit
  <2> QED
    BY <2>1 DEF ArgvInit, ArgvTypeOK, Stages
<1>2. ArgvTypeOK /\ [ArgvNext]_argvVars => ArgvTypeOK'
  <2> SUFFICES ASSUME ArgvTypeOK, [ArgvNext]_argvVars PROVE ArgvTypeOK'
    OBVIOUS
  <2>t. /\ command.argv \in Seq(Word) /\ Len(command.argv) \in Nat /\ stage \in Stages
        /\ next \in Nat /\ 1 <= next /\ next <= Len(command.argv) + 1
    BY ShapeIsType DEF ArgvTypeOK
  <2> SUFFICES UNCHANGED call /\ stage' \in Stages /\ next' \in 1 .. (Len(command.argv) + 1)
    BY DEF ArgvTypeOK, call
  <2>1. ASSUME UNCHANGED argvVars
        PROVE  UNCHANGED call /\ stage' \in Stages /\ next' \in 1 .. (Len(command.argv) + 1)
    BY <2>t, <2>1 DEF argvVars
  <2>2. ASSUME CheckToken \/ CheckShape \/ CheckTestToken
        PROVE  UNCHANGED call /\ stage' \in Stages /\ next' \in 1 .. (Len(command.argv) + 1)
    BY <2>t, <2>2 DEF CheckToken, CheckShape, CheckTestToken, Stages
  <2>3. ASSUME ScanOption \/ ScanPath \/ ScanArg
        PROVE  UNCHANGED call /\ stage' \in Stages /\ next' \in 1 .. (Len(command.argv) + 1)
    BY <2>t, <2>3 DEF ScanOption, ScanPath, ScanArg, Separator, Flag, Path, ValueFollows, Stages
  <2>4. ASSUME CheckForm
        PROVE  UNCHANGED call /\ stage' \in Stages /\ next' \in 1 .. (Len(command.argv) + 1)
    <3>1. command.argv # <<>> => Len(command.argv) >= 1
      BY <2>t
    <3> QED
      BY <2>t, <2>4, <3>1 DEF CheckForm, PytestArgs, Stages
  <2> QED
    BY <2>1, <2>2, <2>3, <2>4 DEF ArgvNext
<1> QED
  BY <1>1, <1>2, PTL DEF ArgvSpec

-----------------------------------------------------------------------------
(***************************************************************************)
(* Tokens.                                                                 *)
(***************************************************************************)

\* The inductive invariant behind ChangesNeedToken: past the check, a command
\* without a token is not one of the mutations, and past the shape it is one
\* of the commands that there are.
TokenInv ==
    /\ ToolInv
    /\ stage \in {"shape", "options", "paths"} => Subcommand \notin Mutating \/ granted
    /\ stage \in {"options", "paths"} => Shaped
    /\ ChangesNeedToken

LEMMA ShapedSubcommand ==
  ASSUME Shaped
  PROVE  Subcommand = Normal[argv[2]] /\ Subcommand \in ReadOnly \cup Mutating
  BY DEF Shaped, Subcommand, Sub, Flags, ReadOnly, Mutating

LEMMA TokenStep ==
  ASSUME ArgvTypeOK, TokenInv, [ArgvNext]_argvVars
  PROVE  TokenInv'
<1> USE DEF GitStages, TestStages
<1>1. CASE UNCHANGED argvVars
  BY <1>1 DEF argvVars, call, TokenInv, ToolInv, ChangesNeedToken, Subcommand, Shaped, HasBlank, Sub
<1>2. CASE ArgvNext
  <2>1. UNCHANGED call
    BY <1>2
       DEF ArgvNext, CheckToken, CheckShape, ScanOption, ScanPath, CheckForm, ScanArg,
           CheckTestToken
  <2>2. UNCHANGED <<Subcommand, Shaped>>
    BY <2>1 DEF call, Subcommand, Shaped, HasBlank, Sub
  <2>3. CASE CheckToken
    BY <2>1, <2>2, <2>3 DEF CheckToken, TokenInv, ToolInv, ChangesNeedToken, call
  <2>4. CASE CheckShape
    BY <2>1, <2>2, <2>4 DEF CheckShape, TokenInv, ToolInv, ChangesNeedToken, call, Shaped
  <2>5. CASE ScanOption \/ ScanPath
    <3>1. stage \in {"options", "paths"} /\ stage' \in {"options", "paths", "ran", "denied"}
      BY <2>5 DEF ScanOption, ScanPath, Separator, Flag, Path
    <3> QED
      BY <2>1, <2>2, <3>1, ShapedSubcommand DEF TokenInv, ToolInv, ChangesNeedToken, call
  <2>6. CASE CheckForm \/ ScanArg \/ CheckTestToken
    <3>1. stage \in TestStages /\ stage' \in TestStages \cup {"ran", "denied"} /\ (stage' = "ran" => granted)
      BY <2>6 DEF CheckForm, ScanArg, CheckTestToken
    <3> QED
      BY <2>1, <2>2, <3>1 DEF TokenInv, ToolInv, ChangesNeedToken, call
  <2> QED
    BY <1>2, <2>3, <2>4, <2>5, <2>6 DEF ArgvNext
<1> QED
  BY <1>1, <1>2

\* A command line that changes something runs only with its token, whatever the
\* words and however the subcommand is written: what git_run takes for a
\* read-only command is what validate_git_run lets run as one.
THEOREM ChangesAreAuthorised == ArgvSpec => []ChangesNeedToken
<1>1. ArgvInit => TokenInv
  <2> SUFFICES ASSUME ArgvInit PROVE TokenInv
    OBVIOUS
  <2>1. command.tool \in {"GIT_RUN", "TEST_RUN"}
    BY WordsAreClassified DEF ArgvInit
  <2> QED
    BY <2>1 DEF ArgvInit, TokenInv, ToolInv, ChangesNeedToken, GitStages, TestStages
<1>2. ArgvTypeOK /\ TokenInv /\ [ArgvNext]_argvVars => TokenInv'
  BY TokenStep
<1>3. TokenInv => ChangesNeedToken
  BY DEF TokenInv
<1> QED
  BY <1>1, <1>2, <1>3, ParsersStayInside, PTL DEF ArgvSpec
-----------------------------------------------------------------------------
(***************************************************************************)
(* The command lines of tests.                                             *)
(***************************************************************************)

\* What the check of the form has found.
PytestForm == argv # <<>> /\ ~HasBlank /\ ~HasForbidden /\ ~IsProbe /\ PytestArgs # 0

\* What is known of a test command on its way through the parser.
TestInv ==
    /\ stage = "args" =>
          /\ PytestForm /\ next >= PytestArgs
          /\ \A k \in PytestArgs .. (next - 1) : IsSafe(argv[k])
    /\ stage = "test_token" => FormFits
    /\ command.tool = "TEST_RUN" /\ stage = "ran" => FormFits
    /\ command.tool = "TEST_RUN" /\ stage = "denied" /\ granted => ~FormFits

\* A pytest command line is in the grammar when all words after its launcher
\* are safe arguments.
LEMMA PytestGrammar ==
  ASSUME ArgvTypeOK, PytestForm
  PROVE  FormFits <=> \A k \in PytestArgs .. Len(argv) : IsSafe(argv[k])
<1>t. Len(argv) \in Nat /\ Len(argv) >= 1 /\ PytestArgs \in {2, 4}
  BY ShapeIsType DEF PytestForm, PytestArgs
<1> DEFINE fits(launcher) ==
              LET n == Len(launcher) IN
              /\ Len(argv) >= n /\ Normal[argv[1]] = launcher[1]
              /\ \A k \in 2 .. n : argv[k] = launcher[k]
              /\ \A k \in (n + 1) .. Len(argv) : IsSafe(argv[k])
           long(l) == <<l, "-m", "pytest">>
           launchers == {<<"pytest">>} \cup {long(l) : l \in Launchers}
<1>1. FormFits <=> \E launcher \in launchers : fits(launcher)
  BY DEF FormFits, PytestForm
<1>2. fits(<<"pytest">>) <=> Normal[argv[1]] = "pytest" /\ \A k \in 2 .. Len(argv) : IsSafe(argv[k])
  <2>1. Len(<<"pytest">>) = 1 /\ 1 + 1 = 2 /\ 2 .. 1 = {} /\ <<"pytest">>[1] = "pytest"
    OBVIOUS
  <2> QED
    BY <1>t, <2>1
<1>3. ASSUME NEW l \in Launchers
      PROVE  fits(long(l)) <=> /\ Len(argv) >= 3 /\ Normal[argv[1]] = l
                               /\ argv[2] = "-m" /\ argv[3] = "pytest"
                               /\ \A k \in 4 .. Len(argv) : IsSafe(argv[k])
  <2>1. /\ Len(long(l)) = 3 /\ long(l)[1] = l /\ long(l)[2] = "-m" /\ long(l)[3] = "pytest"
        /\ 3 + 1 = 4 /\ 2 .. 3 = {2, 3}
    OBVIOUS
  <2> HIDE DEF long
  <2> QED
    BY <1>t, <2>1
<1> HIDE DEF fits, long
<1>4. FormFits <=> fits(<<"pytest">>) \/ \E l \in Launchers : fits(long(l))
  BY <1>1
<1>5. CASE Normal[argv[1]] \in Launchers
  <2>1. Len(argv) >= 3 /\ argv[2] = "-m" /\ argv[3] = "pytest" /\ PytestArgs = 4 /\ Normal[argv[1]] # "pytest"
    BY <1>5 DEF PytestForm, PytestArgs, Launchers
  <2> QED
    BY <1>2, <1>3, <1>4, <1>5, <2>1
<1>6. CASE Normal[argv[1]] \notin Launchers
  <2>1. Normal[argv[1]] = "pytest" /\ PytestArgs = 2
    BY <1>6 DEF PytestForm, PytestArgs
  <2> QED
    BY <1>2, <1>3, <1>4, <1>6, <2>1
<1> QED
  BY <1>5, <1>6

\* Every other form is a probe, or in no grammar.
LEMMA OtherForms ==
  ASSUME ArgvTypeOK, ~PytestForm
  PROVE  FormFits <=> argv # <<>> /\ ~HasBlank /\ ~HasForbidden /\ IsProbe
<1> SUFFICES ASSUME FormFits, ~IsProbe PROVE FALSE
  BY DEF FormFits
<1>1. argv # <<>> /\ PytestArgs = 0
  BY DEF FormFits, PytestForm
<1>2. PICK launcher \in {<<"pytest">>} \cup {<<l, "-m", "pytest">> : l \in Launchers} :
         /\ Len(argv) >= Len(launcher) /\ Normal[argv[1]] = launcher[1]
         /\ \A k \in 2 .. Len(launcher) : argv[k] = launcher[k]
  BY DEF FormFits
<1>3. CASE launcher = <<"pytest">>
  BY <1>1, <1>2, <1>3 DEF PytestArgs, Launchers
<1>4. ASSUME NEW l \in Launchers, launcher = <<l, "-m", "pytest">> PROVE FALSE
  <2>1. Len(launcher) = 3 /\ launcher[1] = l /\ launcher[2] = "-m" /\ launcher[3] = "pytest" /\ 2 .. 3 = {2, 3}
    BY <1>4
  <2>2. Len(argv) >= 3 /\ Normal[argv[1]] = l /\ argv[2] = "-m" /\ argv[3] = "pytest"
    BY <1>2, <2>1
  <2> QED
    BY <1>1, <2>2 DEF PytestArgs
<1> QED
  BY <1>2, <1>3, <1>4

LEMMA TestStep ==
  ASSUME ArgvTypeOK, ToolInv, TestInv, [ArgvNext]_argvVars
  PROVE  TestInv'
<1> USE DEF GitStages, TestStages
<1>t. Len(argv) \in Nat /\ next \in Nat /\ 1 <= next /\ next <= Len(argv) + 1
  BY ShapeIsType
<1>r. UNCHANGED call =>
         UNCHANGED <<command, granted, PytestForm, PytestArgs, FormFits>> /\ \A k : IsSafe(argv'[k]) = IsSafe(argv[k])
  BY DEF call, PytestForm, PytestArgs, FormFits, HasBlank, HasForbidden, IsProbe, IsSafe
<1>1. CASE UNCHANGED argvVars
  BY <1>1, <1>r DEF argvVars, TestInv
<1>2. CASE CheckToken \/ CheckShape \/ ScanOption \/ ScanPath
  <2>1. UNCHANGED call /\ command.tool = "GIT_RUN" /\ stage' \in GitStages \cup {"ran", "denied"}
    BY <1>2 DEF CheckToken, CheckShape, ScanOption, ScanPath, Separator, Flag, Path, ToolInv
  <2> QED
    BY <2>1, <1>r DEF TestInv, call
<1>3. CASE CheckForm
  <2>0. UNCHANGED call /\ command.tool = "TEST_RUN"
    BY <1>3 DEF CheckForm, ToolInv
  <2>1. CASE argv = <<>> \/ HasBlank \/ HasForbidden
    <3>1. ~FormFits /\ stage' = "denied"
      BY <1>3, <2>1 DEF CheckForm, FormFits
    <3> QED
      BY <2>0, <3>1, <1>r DEF TestInv
  <2>2. CASE argv # <<>> /\ ~HasBlank /\ ~HasForbidden /\ IsProbe
    <3>1. FormFits /\ stage' = "test_token"
      BY <1>3, <2>2 DEF CheckForm, FormFits
    <3> QED
      BY <2>0, <3>1, <1>r DEF TestInv
  <2>3. CASE argv # <<>> /\ ~HasBlank /\ ~HasForbidden /\ ~IsProbe /\ PytestArgs = 0
    <3>1. ~FormFits /\ stage' = "denied"
      BY <1>3, <2>3, OtherForms DEF CheckForm, PytestForm
    <3> QED
      BY <2>0, <3>1, <1>r DEF TestInv
  <2>4. CASE PytestForm
    <3>1. stage' = "args" /\ next' = PytestArgs /\ PytestArgs \in {2, 4}
      BY <1>3, <2>4 DEF CheckForm, PytestForm, PytestArgs
    <3>2. PytestArgs .. (next' - 1) = {}
      BY <3>1
    <3>3. PytestForm' /\ next' >= PytestArgs' /\ PytestArgs' .. (next' - 1) = {}
      BY <2>0, <2>4, <3>1, <3>2, <1>r
    <3> QED
      BY <3>1, <3>3 DEF TestInv
  <2> QED
    BY <2>1, <2>2, <2>3, <2>4 DEF PytestForm
<1>4. CASE ScanArg
  <2>0. /\ UNCHANGED call /\ command.tool = "TEST_RUN" /\ PytestForm /\ next >= PytestArgs
        /\ PytestArgs \in {2, 4}
        /\ \A k \in PytestArgs .. (next - 1) : IsSafe(argv[k])
    BY <1>4 DEF ScanArg, ToolInv, TestInv, PytestForm, PytestArgs
  <2>1. CASE AtEnd
    <3>1. stage' = "test_token" /\ PytestArgs .. Len(argv) = PytestArgs .. (next - 1)
      BY <1>4, <1>t, <2>1 DEF ScanArg
    <3>2. FormFits
      BY <2>0, <3>1, PytestGrammar
    <3> QED
      BY <2>0, <3>1, <3>2, <1>r DEF TestInv
  <2>2. CASE ~AtEnd /\ IsSafe(This)
    <3>1. stage' = "args" /\ next' = next + 1
      BY <1>4, <2>2 DEF ScanArg
    <3>2. \A k \in PytestArgs .. (next' - 1) : k \in PytestArgs .. (next - 1) \/ k = next
      BY <1>t, <2>0, <3>1
    <3>3. \A k \in PytestArgs .. (next' - 1) : IsSafe(argv[k])
      BY <2>0, <2>2, <3>2
    <3>4. next' >= PytestArgs
      BY <1>t, <2>0, <3>1
    <3> QED
      BY <2>0, <3>1, <3>3, <3>4, <1>r DEF TestInv
  <2>3. CASE ~AtEnd /\ ~IsSafe(This)
    <3>1. stage' = "denied" /\ next \in PytestArgs .. Len(argv)
      BY <1>4, <1>t, <2>0, <2>3 DEF ScanArg
    <3>2. ~FormFits
      BY <2>0, <2>3, <3>1, PytestGrammar
    <3> QED
      BY <2>0, <3>1, <3>2, <1>r DEF TestInv
  <2> QED
    BY <2>1, <2>2, <2>3
<1>5. CASE CheckTestToken
  <2>1. UNCHANGED call /\ FormFits /\ stage' = (IF granted THEN "ran" ELSE "denied")
    BY <1>5 DEF CheckTestToken, TestInv
  <2> QED
    BY <2>1, <1>r DEF TestInv
<1> QED
  BY <1>1, <1>2, <1>3, <1>4, <1>5 DEF ArgvNext
-----------------------------------------------------------------------------
(***************************************************************************)
(* The command lines of git.  The parser gives the words before the next   *)
(* one roles that fit; and whoever gives all words roles that fit has, at  *)
(* the next one, no choice.                                                *)
(***************************************************************************)
RoleMaps == [3 .. Len(argv) -> Roles]

TakesValue(role, k) == role[k] = "flag" /\ argv[k] \in ValueFlags
Separated(role, n) == \E k \in 3 .. (n - 1) : role[k] = "separator"
Fits(role, n) == \A k \in 3 .. (n - 1) : RoleFits(role, k)

\* A role fits.
FitsAs(role, k, r) ==
    /\ CASE r = "flag" -> argv[k] \in Flags[Sub]
         [] r = "value" -> argv[k] \notin Dashed
         [] r = "path" -> Sub \in PathCommands /\ argv[k] \in Inside \ Dashed
         [] r = "separator" -> Sub \in PathCommands /\ argv[k] = "--"
         [] OTHER -> argv[k] \in Inside
    /\ r = "value" <=> k > 3 /\ TakesValue(role, k - 1)
    /\ r = "flag" /\ argv[k] \in ValueFlags => k < Len(argv)
    /\ r = "operand" <=> Separated(role, k)

LEMMA RoleFitsAs ==
  ASSUME NEW role, NEW k
  PROVE  RoleFits(role, k) <=> FitsAs(role, k, role[k])
  BY DEF RoleFits, FitsAs, TakesValue, Separated

\* Giving the next word a role.
LEMMA PutRole ==
  ASSUME ArgvTypeOK, NEW role \in RoleMaps, NEW n \in 3 .. Len(argv), NEW r \in Roles,
         Fits(role, n), FitsAs(role, n, r)
  PROVE  \E new \in RoleMaps :
            /\ Fits(new, n + 1) /\ new[n] = r
            /\ Separated(new, n + 1) <=> Separated(role, n) \/ r = "separator"
<1> DEFINE new == [role EXCEPT ![n] = r]
<1>1. Len(argv) \in Nat /\ n \in Nat /\ n >= 3 /\ n <= Len(argv)
  BY ShapeIsType
<1>2. new \in RoleMaps /\ new[n] = r /\ \A k \in 3 .. (n - 1) : new[k] = role[k]
  BY <1>1 DEF RoleMaps
<1> HIDE DEF new
<1>3. \A k \in 3 .. n : /\ Separated(new, k) <=> Separated(role, k)
                        /\ k > 3 => (TakesValue(new, k - 1) <=> TakesValue(role, k - 1))
  <2> TAKE k \in 3 .. n
  <2>1. k \in Nat /\ k >= 3 /\ k <= n /\ \A j \in 3 .. (k - 1) : j \in 3 .. (n - 1)
    BY <1>1
  <2>2. Separated(new, k) <=> Separated(role, k)
    BY <1>2, <2>1 DEF Separated
  <2>3. k > 3 => k - 1 \in 3 .. (n - 1)
    BY <1>1, <2>1
  <2> QED
    BY <1>2, <2>2, <2>3 DEF TakesValue
<1>4. ASSUME NEW k \in 3 .. (n - 1) PROVE RoleFits(new, k)
  <2>1. k \in 3 .. n /\ new[k] = role[k]
    BY <1>1, <1>2
  <2>2. FitsAs(role, k, role[k])
    BY RoleFitsAs DEF Fits
  <2>3. FitsAs(new, k, role[k])
    BY <1>3, <2>1, <2>2 DEF FitsAs
  <2> QED
    BY <2>1, <2>3, RoleFitsAs
<1>5. RoleFits(new, n)
  <2>1. n \in 3 .. n
    BY <1>1
  <2>2. FitsAs(new, n, r)
    BY <1>3, <2>1 DEF FitsAs
  <2> QED
    BY <1>2, <2>2, RoleFitsAs
<1>6. \A k \in 3 .. ((n + 1) - 1) : k \in 3 .. (n - 1) \/ k = n
  BY <1>1
<1>7. Fits(new, n + 1)
  BY <1>4, <1>5, <1>6 DEF Fits
<1>8. Separated(new, n + 1) <=> Separated(role, n) \/ r = "separator"
  <2>1. n \in 3 .. ((n + 1) - 1) /\ \A k \in 3 .. (n - 1) : k \in 3 .. ((n + 1) - 1)
    BY <1>1
  <2> QED
    BY <1>2, <1>6, <2>1 DEF Separated
<1> QED
  BY <1>2, <1>7, <1>8

\* Roles for the words before n, the last of which asks for no value.
Prefix(role, n) ==
    /\ role \in RoleMaps /\ Fits(role, n)
    /\ ~(n > 3 /\ TakesValue(role, n - 1))

\* Roles for all words.
Reading(role) == role \in RoleMaps /\ Fits(role, Len(argv) + 1)

\* Before a separator the next word is not a value; after it there are operands.
ReadOptions(n) ==
    /\ \E role : Prefix(role, n) /\ ~Separated(role, n)
    /\ \A role : Reading(role) => ~Separated(role, n) /\ (n <= Len(argv) => role[n] # "value")

ReadPaths(n) ==
    /\ \E role : Prefix(role, n) /\ Separated(role, n)
    /\ \A role : Reading(role) => Separated(role, n)

LEMMA Readings ==
  ASSUME ArgvTypeOK
  PROVE  RolesFit <=> Shaped /\ \E role : Reading(role)
<1>1. \A k : k \in 3 .. ((Len(argv) + 1) - 1) <=> k \in 3 .. Len(argv)
  BY ShapeIsType
<1>2. \A role : Fits(role, Len(argv) + 1) <=> \A k \in 3 .. Len(argv) : RoleFits(role, k)
  BY <1>1 DEF Fits
<1> QED
  BY <1>2 DEF RolesFit, Shaped, Reading, RoleMaps

\* What each role in a reading says.
LEMMA ReadingFits ==
  ASSUME ArgvTypeOK, NEW role, Reading(role), NEW k \in 3 .. Len(argv)
  PROVE  FitsAs(role, k, role[k]) /\ role[k] \in Roles
<1>1. k \in 3 .. ((Len(argv) + 1) - 1)
  BY ShapeIsType
<1> QED
  BY <1>1, RoleFitsAs DEF Reading, Fits, RoleMaps

\* One more word.
LEMMA SeparatedNext ==
  ASSUME NEW role, NEW n \in Nat, n >= 3
  PROVE  Separated(role, n + 1) <=> Separated(role, n) \/ role[n] = "separator"
<1>1. \A k : k \in 3 .. ((n + 1) - 1) <=> k \in 3 .. (n - 1) \/ k = n
  OBVIOUS
<1> QED
  BY <1>1 DEF Separated

\* A prefix of all words is a reading.
LEMMA PrefixAtEnd ==
  ASSUME ArgvTypeOK, AtEnd, Shaped, NEW role, Prefix(role, next)
  PROVE  RolesFit
<1>1. next = Len(argv) + 1
  BY ShapeIsType
<1> QED
  BY <1>1, Readings DEF Prefix, Reading

\* What the parser knows at a word that it has still to read.
Reads == ArgvTypeOK /\ Shaped /\ next >= 3 /\ ~AtEnd

LEMMA ReadsWord ==
  ASSUME Reads
  PROVE  /\ next \in Nat /\ next \in 3 .. Len(argv) /\ Len(argv) \in Nat
         /\ This \in Word /\ (This \in Flags[Sub] => This \in Dashed \ Override)
         /\ "--" \notin Flags[Sub]
<1>1. next \in 3 .. Len(argv) /\ Len(argv) \in Nat /\ This \in Word /\ next \in Nat
  BY ShapeIsType DEF Reads
<1>2. Flags[Sub] \cap Word \subseteq Dashed \ Override
  BY FlagsAreDashed DEF Reads, Shaped
<1>3. "--" \notin Flags[Sub]
  BY DEF Reads, Shaped, Flags
<1> QED
  BY <1>1, <1>2, <1>3

\* The word has the role of an option, if any.
LEMMA OptionRoles ==
  ASSUME Reads, ReadOptions(next), NEW role, Reading(role)
  PROVE  \/ role[next] = "flag" /\ This \in Flags[Sub] /\ (This \in ValueFlags => next < Len(argv))
         \/ role[next] = "path" /\ Sub \in PathCommands /\ This \in Inside \ Dashed
         \/ role[next] = "separator" /\ Sub \in PathCommands /\ This = "--"
<1>1. FitsAs(role, next, role[next]) /\ role[next] \in Roles
  BY ReadsWord, ReadingFits DEF Reads
<1>2. role[next] # "value" /\ role[next] # "operand"
  BY <1>1, ReadsWord DEF ReadOptions, FitsAs
<1> QED
  BY <1>1, <1>2 DEF FitsAs, Roles

\* The word after one that is read.
LEMMA ValueRole ==
  ASSUME Reads, NEW role, Reading(role), next < Len(argv)
  PROVE  /\ next + 1 \in 3 .. Len(argv)
         /\ role[next + 1] = "value" <=> TakesValue(role, next)
<1>1. next + 1 \in 3 .. Len(argv) /\ next + 1 > 3 /\ (next + 1) - 1 = next
  BY ReadsWord
<1>2. FitsAs(role, next + 1, role[next + 1])
  BY <1>1, ReadingFits DEF Reads
<1> QED
  BY <1>1, <1>2 DEF FitsAs

LEMMA ReadFlag ==
  ASSUME Reads, ReadOptions(next), This \in Flags[Sub], This \notin ValueFlags
  PROVE  ReadOptions(next + 1)
<1>1. \E new : Prefix(new, next + 1) /\ ~Separated(new, next + 1)
  <2>1. PICK role : Prefix(role, next) /\ ~Separated(role, next)
    BY DEF ReadOptions
  <2>2. FitsAs(role, next, "flag")
    BY <2>1 DEF FitsAs, Prefix
  <2>3. PICK new \in RoleMaps : Fits(new, next + 1) /\ new[next] = "flag" /\ ~Separated(new, next + 1)
    BY <2>1, <2>2, ReadsWord, PutRole DEF Reads, Prefix, Roles
  <2>4. (next + 1) - 1 = next
    BY ReadsWord
  <2> QED
    BY <2>3, <2>4 DEF Prefix, TakesValue
<1>2. ASSUME NEW role, Reading(role)
      PROVE  ~Separated(role, next + 1) /\ (next + 1 <= Len(argv) => role[next + 1] # "value")
  <2>1. ~Separated(role, next) /\ role[next] # "separator"
    BY <1>2, OptionRoles, ReadsWord DEF ReadOptions
  <2>2. next + 1 <= Len(argv) => role[next + 1] # "value"
    BY <1>2, ReadsWord, ValueRole DEF TakesValue
  <2> QED
    BY <2>1, <2>2, ReadsWord, SeparatedNext
<1> QED
  BY <1>1, <1>2 DEF ReadOptions

LEMMA ReadFlagWithValue ==
  ASSUME Reads, ReadOptions(next), This \in Flags[Sub], This \in ValueFlags, ValueFollows
  PROVE  ReadOptions(next + 2)
<1>0. /\ next < Len(argv) /\ argv[next + 1] \notin Dashed
      /\ next + 1 \in 3 .. Len(argv) /\ next + 1 > 3 /\ (next + 1) - 1 = next /\ next + 1 \in Nat
      /\ (next + 1) + 1 = next + 2 /\ (next + 2) - 1 = next + 1 /\ next + 2 > 3
  BY ReadsWord DEF ValueFollows
<1>1. \E new : Prefix(new, next + 2) /\ ~Separated(new, next + 2)
  <2>1. PICK role : Prefix(role, next) /\ ~Separated(role, next)
    BY DEF ReadOptions
  <2>2. FitsAs(role, next, "flag")
    BY <1>0, <2>1 DEF FitsAs, Prefix
  <2>3. PICK one \in RoleMaps : Fits(one, next + 1) /\ one[next] = "flag" /\ ~Separated(one, next + 1)
    BY <2>1, <2>2, ReadsWord, PutRole DEF Reads, Prefix, Roles
  <2>4. FitsAs(one, next + 1, "value")
    BY <1>0, <2>3 DEF FitsAs, TakesValue
  <2>5. \E new \in RoleMaps :
           /\ Fits(new, (next + 1) + 1) /\ new[next + 1] = "value"
           /\ Separated(new, (next + 1) + 1) <=> Separated(one, next + 1) \/ "value" = "separator"
    BY <1>0, <2>3, <2>4, PutRole DEF Reads, Roles
  <2>6. PICK new \in RoleMaps : Fits(new, next + 2) /\ new[next + 1] = "value" /\ ~Separated(new, next + 2)
    BY <1>0, <2>3, <2>5
  <2> QED
    BY <1>0, <2>6 DEF Prefix, TakesValue
<1>2. ASSUME NEW role, Reading(role)
      PROVE  ~Separated(role, next + 2) /\ (next + 2 <= Len(argv) => role[next + 2] # "value")
  <2>1. ~Separated(role, next) /\ role[next] = "flag"
    BY <1>2, OptionRoles, ReadsWord DEF ReadOptions
  <2>2. role[next + 1] = "value"
    BY <1>0, <1>2, <2>1, ValueRole DEF TakesValue
  <2>3. ~Separated(role, next + 1) /\ ~Separated(role, (next + 1) + 1)
    <3>1. ~Separated(role, next + 1)
      BY <2>1, ReadsWord, SeparatedNext
    <3> QED
      BY <1>0, <2>2, <3>1, SeparatedNext
  <2>4. ASSUME next + 2 <= Len(argv) PROVE role[next + 2] # "value"
    <3>1. next + 2 \in 3 .. Len(argv)
      BY <2>4, ReadsWord
    <3>2. FitsAs(role, next + 2, role[next + 2])
      BY <1>2, <3>1, ReadingFits DEF Reads
    <3> QED
      BY <1>0, <2>2, <3>2 DEF FitsAs, TakesValue
  <2> QED
    BY <1>0, <2>3, <2>4
<1> QED
  BY <1>1, <1>2 DEF ReadOptions

LEMMA ReadPath ==
  ASSUME Reads, ReadOptions(next), This \notin Dashed, Sub \in PathCommands, This \in Inside
  PROVE  ReadOptions(next + 1)
<1>1. \E new : Prefix(new, next + 1) /\ ~Separated(new, next + 1)
  <2>1. PICK role : Prefix(role, next) /\ ~Separated(role, next)
    BY DEF ReadOptions
  <2>2. FitsAs(role, next, "path")
    BY <2>1 DEF FitsAs, Prefix
  <2>3. PICK new \in RoleMaps : Fits(new, next + 1) /\ new[next] = "path" /\ ~Separated(new, next + 1)
    BY <2>1, <2>2, ReadsWord, PutRole DEF Reads, Prefix, Roles
  <2>4. (next + 1) - 1 = next
    BY ReadsWord
  <2> QED
    BY <2>3, <2>4 DEF Prefix, TakesValue
<1>2. ASSUME NEW role, Reading(role)
      PROVE  ~Separated(role, next + 1) /\ (next + 1 <= Len(argv) => role[next + 1] # "value")
  <2>1. ~Separated(role, next) /\ role[next] = "path"
    BY <1>2, OptionRoles, ReadsWord, WordsAreClassified DEF ReadOptions
  <2>2. next + 1 <= Len(argv) => role[next + 1] # "value"
    BY <1>2, <2>1, ReadsWord, ValueRole DEF TakesValue
  <2> QED
    BY <2>1, <2>2, ReadsWord, SeparatedNext
<1> QED
  BY <1>1, <1>2 DEF ReadOptions

LEMMA ReadSeparator ==
  ASSUME Reads, ReadOptions(next), This = "--", Sub \in PathCommands
  PROVE  ReadPaths(next + 1)
<1>1. \E new : Prefix(new, next + 1) /\ Separated(new, next + 1)
  <2>1. PICK role : Prefix(role, next) /\ ~Separated(role, next)
    BY DEF ReadOptions
  <2>2. FitsAs(role, next, "separator")
    BY <2>1 DEF FitsAs, Prefix
  <2>3. PICK new \in RoleMaps : Fits(new, next + 1) /\ new[next] = "separator" /\ Separated(new, next + 1)
    BY <2>1, <2>2, ReadsWord, PutRole DEF Reads, Prefix, Roles
  <2>4. (next + 1) - 1 = next
    BY ReadsWord
  <2> QED
    BY <2>3, <2>4 DEF Prefix, TakesValue
<1>2. ASSUME NEW role, Reading(role) PROVE Separated(role, next + 1)
  <2>1. role[next] = "separator"
    BY <1>2, OptionRoles, ReadsWord, WordsAreClassified
  <2> QED
    BY <2>1, ReadsWord, SeparatedNext
<1> QED
  BY <1>1, <1>2 DEF ReadPaths

LEMMA ReadOperand ==
  ASSUME Reads, ReadPaths(next), This \in Inside
  PROVE  ReadPaths(next + 1)
<1>1. \E new : Prefix(new, next + 1) /\ Separated(new, next + 1)
  <2>1. PICK role : Prefix(role, next) /\ Separated(role, next)
    BY DEF ReadPaths
  <2>2. FitsAs(role, next, "operand")
    BY <2>1 DEF FitsAs, Prefix
  <2>3. PICK new \in RoleMaps : Fits(new, next + 1) /\ new[next] = "operand" /\ Separated(new, next + 1)
    BY <2>1, <2>2, ReadsWord, PutRole DEF Reads, Prefix, Roles
  <2>4. (next + 1) - 1 = next
    BY ReadsWord
  <2> QED
    BY <2>3, <2>4 DEF Prefix, TakesValue
<1>2. ASSUME NEW role, Reading(role) PROVE Separated(role, next + 1)
  BY <1>2, ReadsWord, SeparatedNext DEF ReadPaths
<1> QED
  BY <1>1, <1>2 DEF ReadPaths

\* After a separator, a word is an operand or there is no reading.
LEMMA NoOperand ==
  ASSUME Reads, ReadPaths(next), This \notin Inside
  PROVE  ~RolesFit
<1> SUFFICES ASSUME NEW role, Reading(role) PROVE FALSE
  BY Readings DEF Reads
<1>1. FitsAs(role, next, role[next]) /\ Separated(role, next)
  BY ReadsWord, ReadingFits DEF Reads, ReadPaths
<1> QED
  BY <1>1 DEF FitsAs

\* A word that the parser of the options refuses has no role.
LEMMA NoOption ==
  ASSUME Reads, ReadOptions(next),
         \/ This \in Override
         \/ This = "--" /\ Sub \notin PathCommands
         \/ This \in Dashed \ {"--"} /\ ~(This \in Flags[Sub] /\ (This \in ValueFlags => ValueFollows))
         \/ This \notin Dashed /\ ~(Sub \in PathCommands /\ This \in Inside)
  PROVE  ~RolesFit
<1> SUFFICES ASSUME NEW role, Reading(role) PROVE FALSE
  BY Readings DEF Reads
<1>1. ASSUME role[next] = "flag", This \in Flags[Sub], This \in ValueFlags, next < Len(argv)
      PROVE  ValueFollows
  <2>1. next + 1 \in 3 .. Len(argv) /\ role[next + 1] = "value"
    BY <1>1, ValueRole DEF TakesValue
  <2>2. FitsAs(role, next + 1, "value")
    BY <2>1, ReadingFits DEF Reads
  <2> QED
    BY <1>1, <2>2 DEF FitsAs, ValueFollows
<1> QED
  BY <1>1, OptionRoles, ReadsWord, WordsAreClassified, FlagsAreDashed

\* What is known of a git command on its way through the parser.
GitInv ==
    /\ stage = "options" => next >= 3 /\ ReadOptions(next)
    /\ stage = "paths" => next >= 3 /\ ReadPaths(next)
    /\ command.tool = "GIT_RUN" /\ stage = "ran" => RolesFit
    /\ command.tool = "GIT_RUN" /\ stage = "denied" /\ granted => ~RolesFit

\* What is said of a command line does not change with the parser's place.
LEMMA SameCommand ==
  ASSUME UNCHANGED call
  PROVE  /\ UNCHANGED <<command, granted, RolesFit>>
         /\ \A n : (ReadOptions(n) => ReadOptions(n)') /\ (ReadPaths(n) => ReadPaths(n)')
<1>1. UNCHANGED <<command, granted>>
  BY DEF call
<1>2. UNCHANGED <<RolesFit>>
  BY <1>1 DEF RolesFit, HasBlank, Sub, RoleFits
<1>3. \A role, k : RoleFits(role, k)' <=> RoleFits(role, k)
  BY <1>1 DEF RoleFits, Sub
<1>4. \A role, n : /\ Prefix(role, n)' <=> Prefix(role, n)
                   /\ Reading(role)' <=> Reading(role)
                   /\ Separated(role, n)' <=> Separated(role, n)
  BY <1>1, <1>3 DEF Prefix, Reading, RoleMaps, Fits, TakesValue, Separated
<1>5. \A n : ReadOptions(n) => ReadOptions(n)'
  BY <1>1, <1>4 DEF ReadOptions
<1>6. \A n : ReadPaths(n) => ReadPaths(n)'
  BY <1>4 DEF ReadPaths
<1> QED
  BY <1>1, <1>2, <1>5, <1>6

LEMMA GitStep ==
  ASSUME ArgvTypeOK, TokenInv, GitInv, [ArgvNext]_argvVars
  PROVE  GitInv'
<1> USE DEF GitStages, TestStages
<1>t. next \in Nat
  BY ShapeIsType
<1>1. CASE UNCHANGED argvVars
  BY <1>1, SameCommand DEF argvVars, GitInv
<1>2. CASE CheckForm \/ ScanArg \/ CheckTestToken
  <2>1. UNCHANGED call /\ command.tool = "TEST_RUN" /\ stage' \in TestStages \cup {"ran", "denied"}
    BY <1>2 DEF CheckForm, ScanArg, CheckTestToken, TokenInv, ToolInv
  <2> QED
    BY <2>1, SameCommand DEF GitInv
<1>3. CASE CheckToken
  <2>1. UNCHANGED call /\ stage' \in {"shape", "denied"} /\ (stage' = "denied" => ~granted)
    BY <1>3 DEF CheckToken
  <2> QED
    BY <2>1, SameCommand DEF GitInv
<1>4. CASE CheckShape
  <2>1. CASE Shaped
    <3>1. UNCHANGED call /\ stage' = "options" /\ next' = 3
      BY <1>4, <2>1 DEF CheckShape, Shaped
    <3>2. 3 .. (3 - 1) = {}
      OBVIOUS
    <3>3. [k \in 3 .. Len(argv) |-> "flag"] \in RoleMaps
      BY DEF RoleMaps, Roles
    <3>4. \E role : Prefix(role, 3) /\ ~Separated(role, 3)
      BY <3>2, <3>3 DEF Prefix, Fits, Separated
    <3>5. ASSUME NEW role, Reading(role)
          PROVE  ~Separated(role, 3) /\ (3 <= Len(argv) => role[3] # "value")
      <4>1. ASSUME 3 <= Len(argv) PROVE role[3] # "value"
        <5>1. 3 \in 3 .. Len(argv)
          BY <4>1, ShapeIsType
        <5>2. FitsAs(role, 3, role[3])
          BY <3>5, <5>1, ReadingFits
        <5> QED
          BY <5>2 DEF FitsAs
      <4> QED
        BY <3>2, <4>1 DEF Separated
    <3>6. ReadOptions(3)
      BY <3>4, <3>5 DEF ReadOptions
    <3> QED
      BY <3>1, <3>6, SameCommand DEF GitInv
  <2>2. CASE ~Shaped
    <3>1. UNCHANGED call /\ stage' = "denied" /\ ~RolesFit
      BY <1>4, <2>2, Readings DEF CheckShape, Shaped
    <3> QED
      BY <3>1, SameCommand DEF GitInv
  <2> QED
    BY <2>1, <2>2
<1>5. CASE ScanOption
  <2>1. UNCHANGED call /\ Shaped /\ next >= 3 /\ ReadOptions(next) /\ stage = "options"
    BY <1>5 DEF ScanOption, TokenInv, GitInv
  <2>2. CASE AtEnd
    <3>1. stage' = "ran"
      BY <1>5, <2>2 DEF ScanOption
    <3>2. RolesFit
      BY <2>1, <2>2, PrefixAtEnd DEF ReadOptions
    <3> QED
      BY <2>1, <3>1, <3>2, SameCommand DEF GitInv
  <2>3. ASSUME ~AtEnd, ~RolesFit, stage' = "denied" PROVE GitInv'
    BY <2>1, <2>3, SameCommand DEF GitInv
  <2>4. ASSUME ~AtEnd, NEW n \in Nat, n > 0, stage' = "options", next' = next + n, ReadOptions(next + n)
        PROVE  GitInv'
    BY <1>t, <2>1, <2>4, SameCommand DEF GitInv
  <2>r. ~AtEnd => Reads
    BY <2>1 DEF Reads
  <2>5. CASE ~AtEnd /\ This \in Override
    BY <1>5, <2>1, <2>3, <2>5, <2>r, NoOption DEF ScanOption
  <2>6. CASE ~AtEnd /\ This \notin Override /\ Separator
    <3>1. CASE Sub \in PathCommands
      <4>1. ReadPaths(next + 1) /\ stage' = "paths" /\ next' = next + 1
        BY <2>1, <2>6, <2>r, <3>1, ReadSeparator DEF Separator
      <4> QED
        BY <1>t, <2>1, <4>1, SameCommand DEF GitInv
    <3>2. CASE Sub \notin PathCommands
      BY <2>1, <2>3, <2>6, <2>r, <3>2, NoOption DEF Separator
    <3> QED
      BY <3>1, <3>2
  <2>7. CASE ~AtEnd /\ This \notin Override /\ Flag
    <3>1. CASE This \in Flags[Sub] /\ This \in ValueFlags /\ ValueFollows
      <4>1. ReadOptions(next + 2) /\ next' = next + 2 /\ stage' = "options"
        BY <2>1, <2>7, <2>r, <3>1, ReadFlagWithValue DEF Flag
      <4> QED
        BY <2>4, <2>7, <4>1
    <3>2. CASE This \in Flags[Sub] /\ This \notin ValueFlags
      <4>1. ReadOptions(next + 1) /\ next' = next + 1 /\ stage' = "options"
        BY <2>1, <2>7, <2>r, <3>2, ReadFlag DEF Flag
      <4> QED
        BY <2>4, <2>7, <4>1
    <3>3. CASE ~(This \in Flags[Sub] /\ (This \in ValueFlags => ValueFollows))
      BY <2>1, <2>3, <2>7, <2>r, <3>3, NoOption DEF Flag
    <3> QED
      BY <3>1, <3>2, <3>3
  <2>8. CASE ~AtEnd /\ This \notin Override /\ Path
    <3>1. CASE Sub \in PathCommands /\ This \in Inside
      <4>1. ReadOptions(next + 1) /\ next' = next + 1 /\ stage' = "options"
        BY <2>1, <2>8, <2>r, <3>1, ReadPath DEF Path
      <4> QED
        BY <2>4, <2>8, <4>1
    <3>2. CASE ~(Sub \in PathCommands /\ This \in Inside)
      BY <2>1, <2>3, <2>8, <2>r, <3>2, NoOption DEF Path
    <3> QED
      BY <3>1, <3>2
  <2> QED
    BY <1>5, <2>2, <2>5, <2>6, <2>7, <2>8 DEF ScanOption
<1>6. CASE ScanPath
  <2>1. UNCHANGED call /\ Shaped /\ next >= 3 /\ ReadPaths(next)
    BY <1>6 DEF ScanPath, TokenInv, GitInv
  <2>2. CASE AtEnd
    <3>1. stage' = "ran"
      BY <1>6, <2>2 DEF ScanPath
    <3>2. RolesFit
      BY <2>1, <2>2, PrefixAtEnd DEF ReadPaths
    <3> QED
      BY <2>1, <3>1, <3>2, SameCommand DEF GitInv
  <2>3. CASE ~AtEnd /\ This \in Inside
    <3>1. ReadPaths(next + 1) /\ next' = next + 1 /\ stage' = "paths"
      BY <1>6, <2>1, <2>3, ReadOperand DEF ScanPath, Reads
    <3> QED
      BY <1>t, <2>1, <3>1, SameCommand DEF GitInv
  <2>4. CASE ~AtEnd /\ This \notin Inside
    <3>1. ~RolesFit /\ stage' = "denied"
      BY <1>6, <2>1, <2>4, NoOperand DEF ScanPath, Reads
    <3> QED
      BY <2>1, <3>1, SameCommand DEF GitInv
  <2> QED
    BY <2>2, <2>3, <2>4
<1> QED
  BY <1>1, <1>2, <1>3, <1>4, <1>5, <1>6 DEF ArgvNext

\* The parsers let run exactly the command lines of their grammars and of the
\* two exceptions (an override flag as an operand, a probe of another launcher),
\* and deny all others that come with a token, whatever the words of argv are:
\* going through argv word by word, they never commit themselves wrongly.
THEOREM ParsersRunTheGrammar == ArgvSpec => []RunsTheGrammar
<1>1. ArgvInit => TokenInv /\ TestInv /\ GitInv
  <2> SUFFICES ASSUME ArgvInit PROVE TokenInv /\ TestInv /\ GitInv
    OBVIOUS
  <2>1. command.tool \in {"GIT_RUN", "TEST_RUN"}
    BY WordsAreClassified DEF ArgvInit
  <2> QED
    BY <2>1
       DEF ArgvInit, TokenInv, ToolInv, ChangesNeedToken, GitStages, TestStages, TestInv, GitInv
<1>2. ArgvTypeOK /\ TokenInv /\ TestInv /\ GitInv /\ [ArgvNext]_argvVars
         => TokenInv' /\ TestInv' /\ GitInv'
  BY TokenStep, TestStep, GitStep DEF TokenInv
<1>3. ArgvTypeOK /\ TestInv /\ GitInv => RunsTheGrammar
  <2>1. ArgvTypeOK => (Grammatical \/ OverrideOperand \/ UnlistedProbe
                         <=> IF command.tool = "GIT_RUN" THEN RolesFit ELSE FormFits)
    BY DEF ArgvTypeOK, Grammatical, GitGrammar, TestGrammar, OverrideOperand, UnlistedProbe
  <2> QED
    BY <2>1 DEF ArgvTypeOK, TestInv, GitInv, RunsTheGrammar
<1> QED
  BY <1>1, <1>2, <1>3, ParsersStayInside, PTL DEF ArgvSpec
=============================================================================
