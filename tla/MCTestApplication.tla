-------------------------- MODULE MCTestApplication --------------------------
(* TestApplication for TLC: the arguments that command lines are made of.      *)
EXTENDS TestApplication

CONSTANT main, w1, w2

Arg(t, w) == [token |-> t, word |-> w, spaced |-> FALSE]

\* A switch of each kind with each token, a word that is no switch, a switch
\* with blanks around it, a token alone, an absolute path, which begins like a
\* switch, and the empty argument.
Alphabet ==
  {Arg("--", "help"), Arg("-", "default_tests"), Arg("/", "list"), Arg("-", "environ"),
   Arg("--", "unary_from_file"), Arg("/", "binary_from_file"), Arg("--", "specific_test"),
   [token |-> "--", word |-> "list", spaced |-> TRUE],
   Arg("-", ""), Arg("--", "unknown"), Arg("/", "ops.txt"),
   Arg("", "ops.txt"), Arg("", "gone.txt"), Arg("", "a_test"), Arg("", "help"), Arg("", "")}

Program == Arg("", "unknown")

Commands == UNION {[1..n -> Alphabet] : n \in 0..3}

MCCommandLines == {<< >>} \cup {<<Program>> \o c : c \in Commands}

\* No switch at all, the battery among other switches, files and tests by name.
MCExecuted ==
  {<<Program>> \o c : c \in
    {<< >>,
     <<Arg("--", "help"), Arg("-", "default_tests")>>,
     <<Arg("-", "default_tests")>>,
     <<Arg("-", "environ"), Arg("/", "list")>>,
     <<Arg("--", "unary_from_file"), Arg("", "ops.txt"), Arg("/", "list")>>,
     <<Arg("--", "specific_test"), Arg("", "a_test")>>,
     <<Arg("--", "specific_test"), Arg("", "gone.txt")>>}}

MCMain == main
MCWorkers == {w1, w2}
=============================================================================
