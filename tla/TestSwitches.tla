---------------------------- MODULE TestSwitches ----------------------------
(***************************************************************************)
(* The command line of the test application (int128_test_switches.hpp,     *)
(* int128_test_switches.cpp): arguments are trimmed, matched against the   *)
(* table of switches and made into test_switch objects, each with the      *)
(* parameter its mode asks for.  The first thing that is wrong throws, and *)
(* the exceptions keep what their messages complain of.                    *)
(*                                                                         *)
(* An argument is split where starts_with splits it: the token it begins   *)
(* with ("" for none) and the word that follows.  Words are compared       *)
(* without regard to case in the code, so a word stands for its spellings. *)
(* A test_mode is the set of its flags: "|", "&" and "~" are the           *)
(* operations on sets.                                                     *)
(***************************************************************************)
EXTENDS Integers, Sequences, FiniteSets

CONSTANT Names   \* texts that name a file or a test

\* The text without characters.
empty == ""

switch_tokens == {"--", "-", "/"}

text_mode_lookup ==
  [unary_from_file  |-> "execute_unary_from_file",
   binary_from_file |-> "execute_binary_from_file",
   environ          |-> "print_environ_info",
   default_tests    |-> "run_default_tests",
   list             |-> "list_tests",
   specific_test    |-> "run_specific_test",
   help             |-> "help"]

\* The flags in the order of their bits.
individual_specified_flags ==
  <<"execute_unary_from_file", "execute_binary_from_file", "print_environ_info",
    "run_default_tests", "list_tests", "run_specific_test", "help">>

Flags == {individual_specified_flags[n] : n \in 1..7}
FileModes == {{"execute_unary_from_file"}, {"execute_binary_from_file"}}
flags_requiring_parameter == FileModes \cup {{"run_specific_test"}}
unspecified == {}

Words == DOMAIN text_mode_lookup \cup Names \cup {empty, "unknown"}

\* spaced: there are blanks around it.
Arguments == [token : switch_tokens \cup {empty}, word : Words, spaced : BOOLEAN]

\* An optional<bool> or an optional path that has no value, and a unique_ptr
\* that was moved from.
nullopt == "nullopt"

-----------------------------------------------------------------------------
(* Modes *)

is_single_specified_flag(mode) == \E f \in Flags : mode = {f}

default_mode == {"print_environ_info", "run_default_tests"}

-----------------------------------------------------------------------------
(* Exceptions: their type, and what create_message says of which parameter.  *)

Thrown(type, mode, says, parameter) ==
  [throws |-> type, mode |-> mode, says |-> says, about |-> parameter]

\* bad_test_switch::create_message(mode, parameter): it looks at the file
\* system again.
Complaint(mode, parameter, files) ==
  CASE mode = unspecified -> "not_valid"
    [] mode \in FileModes /\ parameter = empty -> "requires_a_file"
    [] mode \in FileModes /\ parameter # empty /\ parameter \notin files -> "not_found"
    [] mode \in FileModes /\ parameter # empty /\ parameter \in files -> "unknown_problem"
    [] mode # unspecified /\ mode \subseteq default_mode /\ parameter # empty ->
         "does_not_permit_parameters"
    [] OTHER -> "unknown_problem"

bad_test_switch(mode, parameter, files) ==
  Thrown("bad_test_switch", mode, Complaint(mode, parameter, files), parameter)

bad_test_switch_with_message(mode, message, parameter) ==
  Thrown("bad_test_switch", mode, message, parameter)

\* A text of the program, where a text of the user belongs.
TheMessage == "mode_requires_specification"

-----------------------------------------------------------------------------
(* test_switch *)

\* create_param_member_if_needed: which alternative of the variant is held.
create_param_member_if_needed(mode, text) ==
  CASE mode \in FileModes              -> [path |-> text]
    [] mode = {"run_specific_test"}    -> [name |-> text]
    [] mode \notin flags_requiring_parameter -> [none |-> empty]

file_path(switch) ==
  IF "path" \in DOMAIN switch.parameter THEN switch.parameter.path ELSE nullopt

test_name(switch) ==
  IF "name" \in DOMAIN switch.parameter THEN switch.parameter.name ELSE empty

\* The constructor: the switch, or what it throws.  The texts about a missing
\* parameter are passed where the parameter is expected.
test_switch(mode, text, files) ==
  CASE mode # unspecified /\ ~ is_single_specified_flag(mode) ->
         bad_test_switch_with_message(mode, "compound", text)
    [] mode = unspecified ->
         Thrown("bad_optional_access", mode, empty, text)
    [] mode \in flags_requiring_parameter /\ text = empty ->
         bad_test_switch(mode, TheMessage, files)
    [] mode \in FileModes /\ text # empty /\ text \notin files ->
         bad_test_switch_with_message(mode, "does_not_exist", text)
    [] OTHER ->
         [mode |-> mode, parameter |-> create_param_member_if_needed(mode, text)]

Fails(result) == "throws" \in DOMAIN result

-----------------------------------------------------------------------------
(* The command line *)

starts_with_switch_token(arg) == arg.token # empty /\ ~ arg.spaced

Trimmed(arg) == [arg EXCEPT !.spaced = FALSE]

\* normalize_and_stringify_console_args: the arguments after the program's name.
normalize_and_stringify_console_args(argv) ==
  IF argv = << >> THEN Thrown("invalid_argument", unspecified, empty, empty)
  ELSE [args |-> [n \in 1..(Len(argv) - 1) |-> Trimmed(argv[n + 1])]]

\* match_switch: the mode of a switch, or what is thrown.
match_switch(arg) ==
  CASE ~ starts_with_switch_token(arg) \/ arg.word = empty ->
         Thrown("not_a_switch", unspecified, "is_not_a_switch", arg.word)
    [] starts_with_switch_token(arg) /\ arg.word # empty
         /\ arg.word \notin DOMAIN text_mode_lookup ->
         Thrown("unrecognized_switch", unspecified, "is_not_recognized", arg.word)
    [] OTHER -> [mode |-> {text_mode_lookup[arg.word]}]

missing_parameter(mode) == Thrown("missing_parameter", mode, "requires_a_file", empty)

\* Mutant of ParameterMissing: another switch is taken for the parameter.
ParameterMissingAtEndOnly(args, it) == it = Len(args)

\* The parameter of the switch at it is the next argument, unless that is a switch.
ParameterMissing(args, it) ==
  it = Len(args) \/ starts_with_switch_token(args[it + 1])

\* A switch and what is read after it, or the first thing that one of them throws.
Then(first, rest) ==
  IF Fails(first) THEN first
  ELSE IF Fails(rest) THEN rest
  ELSE [switches |-> <<first>> \o rest.switches]

\* process_input, from position it.
process_input(args, files) ==
  LET from[it \in 1..(Len(args) + 1)] ==
        IF it = Len(args) + 1 THEN [switches |-> << >>]
        ELSE LET matched == match_switch(args[it])
             IN  IF Fails(matched) THEN matched
                 ELSE IF matched.mode \notin flags_requiring_parameter
                 THEN Then(test_switch(matched.mode, empty, files), from[it + 1])
                 ELSE IF ParameterMissing(args, it) THEN missing_parameter(matched.mode)
                 ELSE Then(test_switch(matched.mode, args[it + 1].word, files), from[it + 2])
  IN  from[1]

-----------------------------------------------------------------------------
(* The language of command lines, without the order in which they are read  *)

Heads(args) == {n \in 1..Len(args) : args[n].token # empty}
ModeOf(arg) == {text_mode_lookup[arg.word]}

\* Every switch is in the table, one that asks for a parameter is followed by
\* one argument that is not a switch, a file that exists or a name, and no other
\* argument is there.
WellFormed(args, files) ==
  LET heads == Heads(args)
      Known(n) == n \in heads /\ args[n].word \in DOMAIN text_mode_lookup
      Asks(n)  == Known(n) /\ ModeOf(args[n]) \in flags_requiring_parameter
  IN  /\ \A n \in heads : Known(n)
      /\ \A n \in 0..Len(args) :
           Asks(n) <=> n + 1 \in (1..Len(args)) \ heads
      /\ \A n \in (1..Len(args)) \ heads :
           /\ args[n].word # empty
           /\ ModeOf(args[n - 1]) \in FileModes => args[n].word \in files

\* The switch a head stands for is the one at its place in the command.
Reads(args, command) ==
  /\ Len(command) = Cardinality(Heads(args))
  /\ \A n \in Heads(args) :
       LET switch == command[Cardinality({k \in Heads(args) : k =< n})]
       IN  /\ switch.mode = ModeOf(args[n])
           /\ switch.mode \in FileModes => file_path(switch) = args[n + 1].word
           /\ switch.mode = {"run_specific_test"} => test_name(switch) = args[n + 1].word
=============================================================================
