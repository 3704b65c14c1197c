----------------------------- MODULE ArgvPolicy -----------------------------
(***************************************************************************)
(* Which command lines run: git_run and test_run of tools/gateway.py with  *)
(* the parsers of policy/git_policy.py and policy/cmd_policy.py, which go  *)
(* through argv word by word and stop at the first word they refuse.       *)
(*                                                                         *)
(* A word is known by the classes that the code tests it for.              *)
(***************************************************************************)
EXTENDS Naturals, Sequences

CONSTANTS
    Word,
    Normal,     \* the word that strip().lower() makes of each word
    Dashed,     \* words that start with "-", but not "-" itself
    Override,   \* DENY_FLAGS, alone or with "=" and a value
    Inside,     \* words that name a path in the workspace
    Forbidden,  \* words with a DISALLOWED_TOKENS part
    Chained,    \* words with a ";", which only python may be given
    Outside,    \* words with a path that is absolute or goes up, or a "\\" or NUL
    RootOption, \* DISALLOWED_PYTEST_OPTIONS, alone or with "=" and a value
    Inline,     \* words that strip() makes one of ALLOWED_INLINE_PYTHON
    Commands    \* the commands asked for: [tool, argv]

Blank == ""  \* a word of white space is normally this

ASSUME WordsAreClassified ==
    /\ Normal \in [Word -> STRING] /\ Blank \in Word
    /\ Dashed \subseteq Word /\ Override \subseteq Dashed /\ "--" \in Dashed
    /\ Commands \subseteq [tool : {"GIT_RUN", "TEST_RUN"}, argv : Seq(Word)]

VARIABLES
    command,
    granted,  \* validate_token accepts the token of the call
    stage,    \* how far the call has come
    next      \* the index of the next word

call == <<command, granted>>
argvVars == <<call, stage, next>>

argv == command.argv

Stages == {"token", "shape", "options", "paths", "form", "args", "test_token", "ran", "denied"}

\* Types; the parsers never go further than one beyond the last word.
ArgvTypeOK ==
    /\ command \in [tool : {"GIT_RUN", "TEST_RUN"}, argv : Seq(Word)]
    /\ granted \in BOOLEAN
    /\ stage \in Stages
    /\ next \in 1 .. (Len(argv) + 1)

ArgvInit ==
    /\ command \in Commands /\ granted \in BOOLEAN
    /\ stage = (IF command.tool = "GIT_RUN" THEN "token" ELSE "form")
    /\ next = 1

InStage(s) == stage = s
Enter(s) == stage' = s /\ UNCHANGED next
Skip(n) == next' = next + n /\ UNCHANGED stage
AtEnd == next > Len(argv)
This == argv[next]
-----------------------------------------------------------------------------
(* git_run: the token of a mutation, then the policy.                      *)

ReadOnly == {"status", "diff", "log"}
Mutating == {"init", "add", "commit"}

\* Mutant: the subcommand as it was written.
RawSubcommand == IF Len(argv) >= 2 THEN argv[2] ELSE Blank

\* The subcommand by which git_run tells a mutation.
Subcommand == IF Len(argv) >= 2 THEN Normal[argv[2]] ELSE Blank

CheckToken ==
    /\ InStage("token")
    /\ Enter(IF Subcommand \in Mutating /\ ~granted THEN "denied" ELSE "shape")
    /\ UNCHANGED call

\* validate_git_run
Flags == [init   |-> {"--quiet", "-q"},
          status |-> {"--porcelain", "--short", "-s", "--branch", "-b"},
          diff   |-> {"--staged", "--cached", "--stat", "--name-only"},
          log    |-> {"--oneline", "--decorate", "--graph", "--no-decorate", "-n", "--max-count"},
          add    |-> {"-A", "--all", "-p", "--patch", "-N", "--intent-to-add"},
          commit |-> {"-m", "--message", "--allow-empty", "--no-gpg-sign"}]

\* A word that is a flag begins with "-"; none of DENY_FLAGS is a flag of a
\* subcommand, or the separator.
ASSUME FlagsAreDashed ==
    /\ \A sub \in DOMAIN Flags : Flags[sub] \cap Word \subseteq Dashed \ Override
    /\ "--" \notin Override

ValueFlags == {"-n", "--max-count", "-m", "--message"}
PathCommands == {"add", "diff"}
HasBlank == \E k \in DOMAIN argv : Normal[argv[k]] = Blank
Sub == Normal[argv[2]]

CheckShape ==
    /\ InStage("shape")
    /\ IF Len(argv) >= 2 /\ ~HasBlank /\ Normal[argv[1]] = "git" /\ Sub \in DOMAIN Flags
       THEN stage' = "options" /\ next' = 3
       ELSE Enter("denied")
    /\ UNCHANGED call

Separator ==
    /\ This = "--"
    /\ IF Sub \in PathCommands
       THEN stage' = "paths" /\ next' = next + 1
       ELSE Enter("denied")

\* Mutants: whatever follows is the flag's value; a flag at the end has one.
AnyValueFollows == next < Len(argv)
NoFlagFollows == next = Len(argv) \/ argv[next + 1] \notin Dashed

ValueFollows == next < Len(argv) /\ argv[next + 1] \notin Dashed

Flag ==
    /\ This \in Dashed \ {"--"}
    /\ IF This \in Flags[Sub] /\ (This \in ValueFlags => ValueFollows)
       THEN Skip(IF This \in ValueFlags THEN 2 ELSE 1)
       ELSE Enter("denied")

Path ==
    /\ This \notin Dashed
    /\ IF Sub \in PathCommands /\ This \in Inside THEN Skip(1) ELSE Enter("denied")

\* Mutant: a separator does not move on.
ScanOptionStuck ==
    /\ InStage("options")
    /\ \/ AtEnd /\ Enter("ran")
       \/ ~AtEnd /\ This = "--" /\ UNCHANGED <<stage, next>>
       \/ ~AtEnd /\ (Flag \/ Path)
    /\ UNCHANGED call

ScanOption ==
    /\ InStage("options")
    /\ \/ AtEnd /\ Enter("ran")
       \/ ~AtEnd /\ This \in Override /\ Enter("denied")
       \/ ~AtEnd /\ This \notin Override /\ (Separator \/ Flag \/ Path)
    /\ UNCHANGED call

ScanPath ==
    /\ InStage("paths")
    /\ \/ AtEnd /\ Enter("ran")
       \/ ~AtEnd /\ This \in Inside /\ Skip(1)
       \/ ~AtEnd /\ This \notin Inside /\ Enter("denied")
    /\ UNCHANGED call
-----------------------------------------------------------------------------
(* test_run: the policy, then the token.                                   *)

Launchers == {"python", "python3", "py"}

\* Where the arguments of pytest start; 0 if the command is not pytest.
PytestArgs ==
    IF Normal[argv[1]] \in Launchers
    THEN IF Len(argv) >= 3 /\ argv[2] = "-m" /\ argv[3] = "pytest" THEN 4 ELSE 0
    ELSE IF Normal[argv[1]] = "pytest" THEN 2 ELSE 0

\* The two commands of python that are allowed as they are.
IsProbe ==
    /\ Normal[argv[1]] \in Launchers
    /\ \/ Len(argv) = 2 /\ argv[2] = "--version"
       \/ Len(argv) = 3 /\ argv[2] = "-c" /\ argv[3] \in Inline

HasForbidden ==
    \E k \in DOMAIN argv :
        argv[k] \in Forbidden \/ (argv[k] \in Chained /\ Normal[argv[1]] # "python")

\* _is_safe_pytest_arg
IsSafe(word) == word \notin Forbidden \cup Outside \cup RootOption \cup {""}

\* validate_test_run_argv
CheckForm ==
    /\ InStage("form")
    /\ IF argv = <<>> \/ HasBlank \/ HasForbidden
       THEN Enter("denied")
       ELSE \/ IsProbe /\ Enter("test_token")
            \/ ~IsProbe /\ PytestArgs = 0 /\ Enter("denied")
            \/ ~IsProbe /\ PytestArgs # 0 /\ stage' = "args" /\ next' = PytestArgs
    /\ UNCHANGED call

ScanArg ==
    /\ InStage("args")
    /\ \/ AtEnd /\ Enter("test_token")
       \/ ~AtEnd /\ IsSafe(This) /\ Skip(1)
       \/ ~AtEnd /\ ~IsSafe(This) /\ Enter("denied")
    /\ UNCHANGED call

CheckTestToken ==
    /\ InStage("test_token")
    /\ Enter(IF granted THEN "ran" ELSE "denied")
    /\ UNCHANGED call
-----------------------------------------------------------------------------
ArgvNext ==
    \/ CheckToken \/ CheckShape \/ ScanOption \/ ScanPath
    \/ CheckForm \/ ScanArg \/ CheckTestToken

ArgvSpec == ArgvInit /\ [][ArgvNext]_argvVars

\* The call goes on in the thread of its caller.
FairArgvSpec == ArgvSpec /\ WF_argvVars(ArgvNext)
-----------------------------------------------------------------------------
\* Command lines without a scan: every word after the subcommand of git can be
\* given a role such that the roles fit together.
Roles == {"flag", "value", "path", "separator", "operand"}

RoleFits(role, k) ==
    LET word == argv[k]
        takesValue(j) == role[j] = "flag" /\ argv[j] \in ValueFlags
    IN /\ CASE role[k] = "flag" -> word \in Flags[Sub]
            [] role[k] = "value" -> word \notin Dashed
            [] role[k] = "path" -> Sub \in PathCommands /\ word \in Inside \ Dashed
            [] role[k] = "separator" -> Sub \in PathCommands /\ word = "--"
            [] OTHER -> word \in Inside
       /\ (role[k] = "value") <=> (k > 3 /\ takesValue(k - 1))
       /\ takesValue(k) => k < Len(argv)
       /\ (role[k] = "operand") <=> (\E j \in 3 .. (k - 1) : role[j] = "separator")

RolesFit ==
    /\ Len(argv) >= 2 /\ ~HasBlank
    /\ Normal[argv[1]] = "git" /\ Sub \in DOMAIN Flags
    /\ \E role \in [3 .. Len(argv) -> Roles] : \A k \in 3 .. Len(argv) : RoleFits(role, k)

\* What the docstring of validate_git_run allows: no override flags anywhere.
HasOverride == \E k \in 3 .. Len(argv) : argv[k] \in Override
GitGrammar == RolesFit /\ ~HasOverride

FormFits ==
    /\ argv # <<>> /\ ~HasBlank /\ ~HasForbidden
    /\ \/ IsProbe
       \/ \E launcher \in {<<"pytest">>} \cup {<<l, "-m", "pytest">> : l \in Launchers} :
             LET n == Len(launcher) IN
             /\ Len(argv) >= n /\ Normal[argv[1]] = launcher[1]
             /\ \A k \in 2 .. n : argv[k] = launcher[k]
             /\ \A k \in (n + 1) .. Len(argv) : IsSafe(argv[k])

\* What the docstring of validate_test_run_argv lists: only python has probes.
IsForeignProbe == IsProbe /\ Normal[argv[1]] # "python"
TestGrammar == FormFits /\ ~IsForeignProbe

Grammatical == IF command.tool = "GIT_RUN" THEN GitGrammar ELSE TestGrammar

\* What the code allows beyond that: an override flag as an operand, after the
\* separator, and the version probes of the other launchers.
OverrideOperand == command.tool = "GIT_RUN" /\ RolesFit /\ HasOverride
UnlistedProbe == command.tool = "TEST_RUN" /\ FormFits /\ IsForeignProbe

\* The parsers let only the command lines of their grammars run (flags with and
\* without a value, separators, paths) and those of the two named exceptions,
\* and deny none of these when it has its token.
RunsTheGrammar ==
    /\ stage = "ran" => Grammatical \/ OverrideOperand \/ UnlistedProbe
    /\ stage = "denied" /\ granted => ~(Grammatical \/ OverrideOperand \/ UnlistedProbe)

\* Override flags are denied, wherever they stand (validate_git_run).
OverridesAreDenied == stage = "ran" /\ command.tool = "GIT_RUN" => ~HasOverride

\* A command that changes something runs only with its token: what the gateway
\* takes for a read-only command is what the policy lets run as one.
ChangesNeedToken ==
    stage = "ran" /\ ~granted => command.tool = "GIT_RUN" /\ Normal[argv[2]] \in ReadOnly

\* Every command line is decided.
ArgvIsDecided == <>(stage \in {"ran", "denied"})
=============================================================================
