---------------------------- MODULE MCToolGateway ----------------------------
(* A small instance of ToolGateway for TLC: the file steps of               *)
(* MCFileMutation, and every command line of up to three words after a git  *)
(* subcommand, or of up to four words for a test run.                       *)
EXTENDS ToolGateway, MCFileMutation

GitWord == {"--", "-n", "-m", "-A", "--oneline", "-C", "-", "src", "../out"}
TestWord == {"Pytest", "python", "py", "-m", "pytest", "--version", "-c",
             "import sys; sys.exit(1)", "tests", "../out", "--rootdir", "a|b", "a;b"}
Named == {"git", "Git", "ls", "add", "ADD", "diff", "log", "commit", "push", Blank}

MCWord == GitWord \cup TestWord \cup Named

MCNormal ==
    [w \in MCWord |-> CASE w = "Git" -> "git" [] w = "ADD" -> "add" [] w = "Pytest" -> "pytest"
                        [] w = "-A" -> "-a" [] w = "-C" -> "-c" [] OTHER -> w]

MCDashed == {"--", "-n", "-m", "-A", "--oneline", "-C", "--version", "-c", "--rootdir"}
MCOverride == {"-C", "-c"}
MCInside == MCWord \ {"../out", Blank}
MCForbidden == {"a|b"}
MCChained == {"import sys; sys.exit(1)", "a;b"}
MCInline == {"import sys; sys.exit(1)"}
MCOutside == {"../out"}
MCRootOption == {"--rootdir"}

Subcommands == {"add", "ADD", "diff", "log", "commit", "push"}

MCCommands ==
    {[tool |-> "GIT_RUN", argv |-> <<"git", sub>> \o rest] :
        sub \in Subcommands, rest \in Over(GitWord, 3)}
    \cup {[tool |-> "GIT_RUN", argv |-> <<cmd, sub>> \o rest] :
            cmd \in {"Git", "ls"}, sub \in Subcommands, rest \in Over(GitWord, 1)}
    \cup {[tool |-> "GIT_RUN", argv |-> argvs] :
            argvs \in {<<>>, <<"git">>, <<"git", Blank>>, <<"git", "add", Blank>>}}
    \cup {[tool |-> "TEST_RUN", argv |-> argvs] : argvs \in Over(TestWord, 3)}
    \cup {[tool |-> "TEST_RUN", argv |-> <<"python", "-m", "pytest">> \o rest] :
            rest \in Over(TestWord, 2)}
=============================================================================
