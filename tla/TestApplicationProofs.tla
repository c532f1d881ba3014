------------------------ MODULE TestApplicationProofs ------------------------
(***************************************************************************)
(* The safety of the test application, for any battery, any number of      *)
(* worker threads, any command lines, files and names.                     *)
(*                                                                         *)
(* The parser.  process_input reads an argument after those behind it, so  *)
(* what it returns is proved from the end of the command line to its front *)
(* (Obtained): CommandLineIsRead says that it is what the grammar asks.    *)
(*                                                                         *)
(* The script.  Whatever the switches, the list of the statements of the   *)
(* program has one of two shapes (BattleScript, PlainScript): with a       *)
(* battery, the positions of its pauses and restarts are known.            *)
(*                                                                         *)
(* The program.  Four layers of invariants, each inductive given those     *)
(* before it: Prepared (types, the invariants of the queue proved in       *)
(* DedicatedOutputProofs, main in its script), Control (the battery and    *)
(* the pauses go with the script), Voices and Talked (who said what and    *)
(* what of it the queue has taken), Kept (what became of it).              *)
(***************************************************************************)
EXTENDS TestApplication, TLAPS, SequenceTheorems, FiniteSetTheorems, WellFoundedInduction

-----------------------------------------------------------------------------
(* The parser.                                                              *)

Switch == [mode : SUBSET Flags, parameter : [path : Words] \cup [name : Words] \cup [none : {empty}]]

\* Every set of naturals that is not empty has a least member.
LEMMA Least ==
  ASSUME NEW S \in SUBSET Nat, S # {}
  PROVE  \E m \in S : \A k \in S : m =< k
<1> DEFINE R == OpToRel(<, Nat)
<1>1. IsWellFoundedOn(R, Nat)
  BY NatLessThanWellFounded
<1>2. \A k, m \in Nat : k < m => <<k, m>> \in R
  BY DEF OpToRel
<1> HIDE DEF R
<1>3. \E m \in S : \A k \in S : ~ (<<k, m>> \in R)
  BY <1>1, WFMin
<1>4. \E m \in S : \A k \in S : ~ (k < m)
  BY <1>2, <1>3
<1>5. \A k, m \in Nat : ~ (k < m) => m =< k
  OBVIOUS
<1> QED BY <1>4, <1>5

\* Induction from the end of a sequence to its front: a set of places that has
\* the last one, and each one all of whose successors it has, has them all.
LEMMA FromTheEnd ==
  ASSUME NEW N \in Nat, NEW G,
         \A n \in 1..N : (\A k \in (n + 1)..N : k \in G) => n \in G
  PROVE  \A n \in 1..N : n \in G
<1> DEFINE D == {m \in Nat : N - m \in 1..N /\ N - m \notin G}
<1> SUFFICES ASSUME NEW n \in 1..N, n \notin G PROVE FALSE
  OBVIOUS
<1>1. N - n \in D
  <2>1. N - n \in Nat /\ N - (N - n) = n OBVIOUS
  <2> QED BY <2>1
<1>2. D \in SUBSET Nat OBVIOUS
<1>3. PICK m \in D : \A k \in D : m =< k
  <2> HIDE DEF D
  <2> QED BY <1>1, <1>2, Least
<1>4. \A k \in ((N - m) + 1)..N : k \in G
  <2> SUFFICES ASSUME NEW k \in ((N - m) + 1)..N, k \notin G PROVE FALSE
    OBVIOUS
  <2>1. N - k \in Nat /\ N - k < m /\ N - (N - k) = k /\ k \in 1..N BY <1>3
  <2>2. N - k \in D BY <2>1
  <2> QED BY <1>3, <2>1, <2>2
<1> QED BY <1>3, <1>4

\* What process_input does with the argument at it, when the rest is done.
Reading(args, there, it, from) ==
  IF it = Len(args) + 1 THEN [switches |-> << >>]
  ELSE LET matched == match_switch(args[it])
       IN  IF Fails(matched) THEN matched
           ELSE IF matched.mode \notin flags_requiring_parameter
           THEN Then(test_switch(matched.mode, empty, there), from[it + 1])
           ELSE IF ParameterMissing(args, it) THEN missing_parameter(matched.mode)
           ELSE Then(test_switch(matched.mode, args[it + 1].word, there), from[it + 2])
ReadsFrom(args, there, from) ==
  from = [it \in 1..(Len(args) + 1) |-> Reading(args, there, it, from)]

\* process_input reads from the front.
LEMMA ProcessChooses ==
  ASSUME NEW args, NEW there
  PROVE  process_input(args, there) = (CHOOSE from : ReadsFrom(args, there, from))[1]
BY DEF process_input, ReadsFrom, Reading

\* A step of the reading uses only what comes after it.
LEMMA ReadingLocal ==
  ASSUME NEW args, Len(args) \in Nat, NEW there, NEW it \in 1..(Len(args) + 1), NEW f, NEW g,
         it + 1 =< Len(args) + 1 => f[it + 1] = g[it + 1],
         it + 2 =< Len(args) + 1 => f[it + 2] = g[it + 2]
  PROVE  Reading(args, there, it, f) = Reading(args, there, it, g)
<1>1. CASE it = Len(args) + 1 BY <1>1 DEF Reading
<1>2. CASE it = Len(args) 
  <2>1. ParameterMissing(args, it) BY <1>2 DEF ParameterMissing
  <2>2. f[it + 1] = g[it + 1] BY <1>2
  <2> QED BY <2>1, <2>2, <1>2 DEF Reading
<1>3. CASE it < Len(args)
  <2>1. f[it + 1] = g[it + 1] /\ f[it + 2] = g[it + 2] BY <1>3
  <2> QED BY <2>1, <1>3 DEF Reading
<1> QED BY <1>1, <1>2, <1>3

\* The function that process_input reads with is Reading at every place: a place
\* needs only the places behind it.
LEMMA ProcessReads ==
  ASSUME NEW args, Len(args) \in Nat, NEW there
  PROVE  \E from : ReadsFrom(args, there, from) /\ process_input(args, there) = from[1]
<1> DEFINE N == Len(args) + 1
           Solves(f, n) == f = [it \in n..N |-> Reading(args, there, it, f)]
           G == {n \in 1..N : \E f : Solves(f, n)}
<1>1. \A n \in 1..N : n \in G
  <2>1. ASSUME NEW n \in 1..N, \A k \in (n + 1)..N : k \in G
        PROVE  n \in G
    <3>1. PICK f : n + 1 =< N => Solves(f, n + 1)
      <4>1. CASE n + 1 =< N
        <5>1. n + 1 \in G BY <2>1, <4>1
        <5> QED BY <5>1
      <4>2. CASE ~ (n + 1 =< N) BY <4>2
      <4> QED BY <4>1, <4>2
    <3> DEFINE g == [it \in n..N |-> IF it = n THEN Reading(args, there, n, f) ELSE f[it]]
    <3>2. \A it \in (n + 1)..N : g[it] = f[it] OBVIOUS
    <3>3. ASSUME NEW it \in n..N PROVE g[it] = Reading(args, there, it, g)
      <4>1. Reading(args, there, it, f) = Reading(args, there, it, g)
        <5>1. it \in 1..N OBVIOUS
        <5>2. it + 1 =< N => f[it + 1] = g[it + 1] BY <3>2
        <5>3. it + 2 =< N => f[it + 2] = g[it + 2] BY <3>2
        <5> HIDE DEF g
        <5> QED BY <5>1, <5>2, <5>3, ReadingLocal
      <4>2. CASE it = n BY <4>1, <4>2
      <4>3. CASE it # n
        <5>1. it \in (n + 1)..N /\ n + 1 =< N BY <4>3
        <5>2. f = [j \in (n + 1)..N |-> Reading(args, there, j, f)] BY <3>1, <5>1
        <5>3. f[it] = Reading(args, there, it, f) BY <5>1, <5>2
        <5> QED BY <3>2, <4>1, <5>1, <5>3
      <4> QED BY <4>2, <4>3
    <3>4. Solves(g, n)
      <4>1. g = [it \in n..N |-> g[it]] OBVIOUS
      <4> HIDE DEF g
      <4> QED BY <3>3, <4>1
    <3> HIDE DEF Solves
    <3> QED BY <3>4
  <2>2. N \in Nat OBVIOUS
  <2> HIDE DEF G, N
  <2> QED BY <2>1, <2>2, FromTheEnd
<1>2. 1 \in G
  <2>1. 1 \in 1..N OBVIOUS
  <2> HIDE DEF G, N
  <2> QED BY <1>1, <2>1
<1>3. \E f : ReadsFrom(args, there, f) BY <1>2 DEF ReadsFrom
<1>4. ReadsFrom(args, there, CHOOSE from : ReadsFrom(args, there, from)) BY <1>3
<1> QED BY <1>4, ProcessChooses

\* An argument from which the blanks have been trimmed.
Trim == {arg \in Arguments : ~ arg.spaced}
Requires(arg) == ModeOf(arg) \in flags_requiring_parameter
InTable(arg) == arg.token # empty /\ arg.word \in DOMAIN text_mode_lookup
\* What is an exception and what is a result.
LEMMA FailsIs ==
  /\ \A t, m, s, p : /\ Fails(Thrown(t, m, s, p)) /\ Thrown(t, m, s, p).about = p
                     /\ Thrown(t, m, s, p).throws = t
  /\ \A m, p : ~ Fails([mode |-> m, parameter |-> p])
  /\ \A m : ~ Fails([mode |-> m])
  /\ \A s : ~ Fails([switches |-> s])
  /\ \A a : ~ Fails([args |-> a])
BY DEF Fails, Thrown

\* The words of the table, and the mode that each stands for.
LEMMA Table ==
  ASSUME NEW word
  PROVE  /\ word \in DOMAIN text_mode_lookup =>
              word # empty /\ text_mode_lookup[word] \in Flags
         /\ Flags = {"execute_unary_from_file", "execute_binary_from_file", "print_environ_info",
                     "run_default_tests", "list_tests", "run_specific_test", "help"}
<1>1. DOMAIN text_mode_lookup = {"unary_from_file", "binary_from_file", "environ",
        "default_tests", "list", "specific_test", "help"}
  BY DEF text_mode_lookup
<1>2. Flags = {"execute_unary_from_file", "execute_binary_from_file", "print_environ_info",
                     "run_default_tests", "list_tests", "run_specific_test", "help"}
  <2>1. Flags = {individual_specified_flags[n] : n \in {1, 2, 3, 4, 5, 6, 7}}
    <3>1. 1..7 = {1, 2, 3, 4, 5, 6, 7} OBVIOUS
    <3> QED BY <3>1 DEF Flags
  <2> QED BY <2>1 DEF individual_specified_flags
<1>3. word \in DOMAIN text_mode_lookup => text_mode_lookup[word] \in Flags
  BY <1>1, <1>2 DEF text_mode_lookup
<1>4. empty \notin DOMAIN text_mode_lookup
  BY <1>1, Zenon DEF empty
<1> QED BY <1>1, <1>2, <1>3, <1>4

\* match_switch finds the mode of a word of the table and blames any other word.
LEMMA MatchIs ==
  ASSUME NEW arg \in Trim
  PROVE  /\ InTable(arg) => match_switch(arg) = [mode |-> ModeOf(arg)]
         /\ ~ InTable(arg) => Fails(match_switch(arg)) /\ match_switch(arg).about = arg.word
<1>1. starts_with_switch_token(arg) <=> arg.token # empty
  BY DEF Trim, starts_with_switch_token
<1>2. CASE InTable(arg)
  BY <1>1, <1>2, Table DEF InTable, match_switch, ModeOf
<1>3. CASE ~ InTable(arg) /\ (~ starts_with_switch_token(arg) \/ arg.word = empty)
  <2>1. match_switch(arg) = Thrown("not_a_switch", unspecified, "is_not_a_switch", arg.word)
    BY <1>3 DEF match_switch
  <2> QED BY <1>3, <2>1 DEF Fails, Thrown
<1>4. CASE ~ InTable(arg) /\ starts_with_switch_token(arg) /\ arg.word # empty
  <2>1. arg.word \notin DOMAIN text_mode_lookup BY <1>1, <1>4 DEF InTable
  <2>2. match_switch(arg) = Thrown("unrecognized_switch", unspecified, "is_not_recognized", arg.word)
    BY <1>4, <2>1 DEF match_switch
  <2> QED BY <1>4, <2>2 DEF Fails, Thrown
<1> QED BY <1>2, <1>3, <1>4

\* The constructor of a switch of the table.
LEMMA ConstructorIs ==
  ASSUME NEW arg \in Trim, InTable(arg), NEW text \in Words, NEW there,
         ~ Requires(arg) => text = empty
  PROVE  LET result == test_switch(ModeOf(arg), text, there)
             refused == Requires(arg) /\ (text = empty \/ (ModeOf(arg) \in FileModes /\ text \notin there))
         IN  /\ refused => /\ Fails(result)
                           /\ result.about = text \/ (text = empty /\ result.about = TheMessage)
             /\ ~ refused => /\ ~ Fails(result)
                             /\ result \in Switch
                             /\ result.mode = ModeOf(arg)
                             /\ ModeOf(arg) \in FileModes => file_path(result) = text
                             /\ ModeOf(arg) = {"run_specific_test"} => test_name(result) = text
<1> DEFINE mode == ModeOf(arg)
           result == test_switch(mode, text, there)
           refused == Requires(arg) /\ (text = empty \/ (mode \in FileModes /\ text \notin there))
<1>1. is_single_specified_flag(mode) /\ mode # unspecified /\ mode \in SUBSET Flags
  <2>1. text_mode_lookup[arg.word] \in Flags BY Table DEF InTable
  <2> QED BY <2>1 DEF is_single_specified_flag, ModeOf, unspecified
<1> HIDE DEF mode
<1>2. CASE Requires(arg) /\ text = empty
  <2>1. result = bad_test_switch(mode, TheMessage, there)
    <3>1. mode \in flags_requiring_parameter BY <1>2 DEF Requires, mode
    <3> QED BY <1>1, <1>2, <3>1 DEF test_switch
  <2>2. Fails(result) /\ result.about = TheMessage
    BY <2>1 DEF Fails, Thrown, bad_test_switch
  <2> QED BY <1>2, <2>2 DEF mode
<1>3. CASE Requires(arg) /\ text # empty /\ mode \in FileModes /\ text \notin there
  <2>1. result = bad_test_switch_with_message(mode, "does_not_exist", text)
    BY <1>1, <1>3 DEF test_switch
  <2>2. Fails(result) /\ result.about = text
    BY <2>1 DEF Fails, Thrown, bad_test_switch_with_message
  <2> QED BY <1>3, <2>2 DEF mode
<1>4. CASE ~ refused
  <2> DEFINE p == create_param_member_if_needed(mode, text)
  <2>1. result = [mode |-> mode, parameter |-> p]
    <3>1. mode \in flags_requiring_parameter <=> Requires(arg) BY DEF Requires, mode
    <3>2. mode \in FileModes => mode \in flags_requiring_parameter BY DEF flags_requiring_parameter
    <3> QED BY <1>1, <1>4, <3>1, <3>2 DEF test_switch
  <2>2. ~ Fails(result) BY <2>1, FailsIs
  <2>3. /\ mode \in FileModes => p = [path |-> text]
        /\ mode = {"run_specific_test"} => p = [name |-> text]
        /\ mode \notin flags_requiring_parameter => p = [none |-> empty]
    <3>1. mode \in FileModes => mode \in flags_requiring_parameter /\ mode # {"run_specific_test"}
      BY DEF FileModes, flags_requiring_parameter
    <3>2. mode = {"run_specific_test"} => mode \in flags_requiring_parameter
      BY DEF flags_requiring_parameter
    <3> QED BY <3>1, <3>2 DEF create_param_member_if_needed
  <2> HIDE DEF p
  <2>4. p \in [path : Words] \cup [name : Words] \cup [none : {empty}]
    <3>1. mode \in FileModes \/ mode = {"run_specific_test"} \/ mode \notin flags_requiring_parameter
      BY DEF flags_requiring_parameter
    <3> QED BY <2>3, <3>1
  <2> HIDE DEF result
  <2>5. result \in Switch BY <1>1, <2>1, <2>4 DEF Switch
  <2>6. mode \in FileModes => file_path(result) = text
    <3>1. "path" \in DOMAIN [path |-> text] OBVIOUS
    <3> QED BY <2>1, <2>3, <3>1 DEF file_path
  <2>7. mode = {"run_specific_test"} => test_name(result) = text
    <3>1. "name" \in DOMAIN [name |-> text] OBVIOUS
    <3> QED BY <2>1, <2>3, <3>1 DEF test_name
  <2> QED BY <1>4, <2>1, <2>2, <2>5, <2>6, <2>7 DEF mode, result
<1> QED BY <1>2, <1>3, <1>4 DEF mode

\* A switch that was read stands for its head, with the parameter behind it.
Stands(args, switch, n) ==
  /\ switch \in Switch
  /\ switch.mode = ModeOf(args[n])
  /\ switch.mode \in FileModes => file_path(switch) = args[n + 1].word
  /\ switch.mode = {"run_specific_test"} => test_name(switch) = args[n + 1].word

\* An exception tells of an argument, or of a text of the program's own.
Blames(args, result) ==
  \/ result.about = empty
  \/ \E n \in 1..Len(args) : result.about = args[n].word
  \/ (\E n \in 1..Len(args) : args[n].word = empty) /\ result.about = TheMessage

\* The arguments from it on are well formed.
Sound(args, there, it) ==
  LET heads == Heads(args)
      Asks(n) == InTable(args[n]) /\ Requires(args[n])
  IN  /\ it =< Len(args) => it \in heads
      /\ \A n \in it..Len(args) : n \in heads => InTable(args[n])
      /\ \A n \in it..Len(args) : Asks(n) <=> n + 1 \in 1..Len(args) /\ n + 1 \notin heads
      /\ \A n \in (it + 1)..Len(args) : n \notin heads =>
           /\ args[n].word # empty
           /\ ModeOf(args[n - 1]) \in FileModes => args[n].word \in there

\* The heads between two places.
HeadsFrom(args, it, n) == {k \in Heads(args) : it =< k /\ k =< n}

\* What was read from it on.
Obtained(args, there, it, result) ==
  /\ ~ Fails(result) <=> Sound(args, there, it)
  /\ Fails(result) => Blames(args, result)
  /\ ~ Fails(result) =>
       /\ result.switches \in Seq(Switch)
       /\ Len(result.switches) = Cardinality(HeadsFrom(args, it, Len(args)))
       /\ \A n \in Heads(args) : it =< n =>
            Stands(args, result.switches[Cardinality(HeadsFrom(args, it, n))], n)

\* The heads are finitely many, and between two places there is one more than
\* behind the first head.
LEMMA HeadsCount ==
  ASSUME NEW args, Len(args) \in Nat, NEW it \in Heads(args),
         NEW next \in Nat, it < next,
         \A k \in 1..Len(args) : it < k /\ k < next => k \notin Heads(args)
  PROVE  /\ \A n \in Nat : it =< n =>
              Cardinality(HeadsFrom(args, it, n)) = Cardinality(HeadsFrom(args, next, n)) + 1
         /\ \A m, n \in Nat : IsFiniteSet(HeadsFrom(args, m, n))
                              /\ Cardinality(HeadsFrom(args, m, n)) \in Nat
<1>1. ASSUME NEW m \in Nat, NEW n \in Nat
      PROVE  IsFiniteSet(HeadsFrom(args, m, n)) /\ Cardinality(HeadsFrom(args, m, n)) \in Nat
  <2>1. HeadsFrom(args, m, n) \in SUBSET (1..Len(args)) BY DEF HeadsFrom, Heads
  <2>2. IsFiniteSet(1..Len(args)) BY FS_Interval
  <2>3. IsFiniteSet(HeadsFrom(args, m, n)) BY <2>1, <2>2, FS_Subset
  <2> QED BY <2>3, FS_CardinalityType
<1>2. ASSUME NEW n \in Nat, it =< n
      PROVE  Cardinality(HeadsFrom(args, it, n)) = Cardinality(HeadsFrom(args, next, n)) + 1
  <2>1. HeadsFrom(args, it, n) = HeadsFrom(args, next, n) \cup {it}
    BY <1>2 DEF HeadsFrom, Heads
  <2>2. it \notin HeadsFrom(args, next, n) BY DEF HeadsFrom, Heads
  <2> QED BY <1>1, <2>1, <2>2, FS_AddElement
<1> QED BY <1>1, <1>2

\* A head before the others: the switches behind it move by one place.
LEMMA ObtainedBefore ==
  ASSUME NEW args \in Seq(Trim), NEW there, NEW it \in Heads(args),
         NEW next \in {it + 1, it + 2}, next =< Len(args) + 1,
         next = it + 2 => it + 1 \notin Heads(args),
         NEW first, ~ Fails(first), Stands(args, first, it),
         NEW rest, Obtained(args, there, next, rest),
         Sound(args, there, it) <=> Sound(args, there, next)
  PROVE  Obtained(args, there, it, Then(first, rest))
<1>1. Len(args) \in Nat /\ it \in 1..Len(args) BY DEF Heads
<1>2. CASE Fails(rest)
  BY <1>2 DEF Obtained, Then
<1>3. CASE ~ Fails(rest)
  <2> DEFINE all == <<first>> \o rest.switches
  <2>1. Then(first, rest) = [switches |-> all] BY <1>3 DEF Then
  <2>2. ~ Fails(Then(first, rest)) /\ Then(first, rest).switches = all
    BY <2>1 DEF Fails
  <2>3. /\ rest.switches \in Seq(Switch) /\ <<first>> \in Seq(Switch) /\ Len(<<first>>) = 1
        /\ <<first>>[1] = first
    BY <1>3 DEF Obtained, Stands
  <2>4. /\ all \in Seq(Switch) /\ Len(all) = 1 + Len(rest.switches)
        /\ \A i \in 1..(1 + Len(rest.switches)) :
             all[i] = IF i =< 1 THEN <<first>>[i] ELSE rest.switches[i - 1]
    BY <2>3, ConcatProperties
  <2>5. Len(rest.switches) \in Nat BY <2>3
  <2> HIDE DEF all
  <2>6. /\ \A n \in Nat : it =< n =>
              Cardinality(HeadsFrom(args, it, n)) = Cardinality(HeadsFrom(args, next, n)) + 1
        /\ \A m, n \in Nat : IsFiniteSet(HeadsFrom(args, m, n))
                              /\ Cardinality(HeadsFrom(args, m, n)) \in Nat
    <3>1. next \in Nat /\ it < next BY <1>1
    <3>2. \A k \in 1..Len(args) : it < k /\ k < next => k \notin Heads(args)
      <4> SUFFICES ASSUME NEW k \in 1..Len(args), it < k, k < next PROVE k \notin Heads(args)
        OBVIOUS
      <4>1. k = it + 1 /\ next = it + 2 BY <1>1
      <4> QED BY <4>1
    <3> QED BY <1>1, <3>1, <3>2, HeadsCount
  <2>7. Len(all) = Cardinality(HeadsFrom(args, it, Len(args)))
    <3>1. Len(rest.switches) = Cardinality(HeadsFrom(args, next, Len(args))) BY <1>3 DEF Obtained
    <3>2. Cardinality(HeadsFrom(args, it, Len(args))) = Cardinality(HeadsFrom(args, next, Len(args))) + 1
      BY <1>1, <2>6
    <3> HIDE DEF HeadsFrom
    <3> QED BY <2>4, <2>5, <3>1, <3>2
  <2>8. ASSUME NEW n \in Heads(args), it =< n
        PROVE  Stands(args, all[Cardinality(HeadsFrom(args, it, n))], n)
    <3>1. n \in 1..Len(args) BY DEF Heads
    <3>2. Cardinality(HeadsFrom(args, it, n)) = Cardinality(HeadsFrom(args, next, n)) + 1
      BY <2>6, <2>8, <3>1
    <3>3. CASE n = it
      <4>1. HeadsFrom(args, next, n) = {} BY <1>1, <3>3 DEF HeadsFrom, Heads
      <4>2. Cardinality(HeadsFrom(args, next, n)) = 0 BY <4>1, FS_EmptySet
      <4>3. all[1] = first BY <2>3, <2>4, <2>5
      <4> QED BY <3>2, <3>3, <4>2, <4>3
    <3>4. CASE n # it
      <4>1. next =< n
        <5>1. n # it + 1 \/ next = it + 1 BY <1>1
        <5> QED BY <1>1, <2>8, <3>1, <3>4, <5>1
      <4> DEFINE c == Cardinality(HeadsFrom(args, next, n))
      <4>2. Stands(args, rest.switches[c], n) BY <1>3, <4>1 DEF Obtained
      <4>3. c \in 1..Len(rest.switches)
        <5>1. HeadsFrom(args, next, n) \subseteq HeadsFrom(args, next, Len(args))
          BY <1>1, <3>1 DEF HeadsFrom, Heads
        <5>2. /\ IsFiniteSet(HeadsFrom(args, next, n)) /\ c \in Nat
              /\ IsFiniteSet(HeadsFrom(args, next, Len(args)))
          <6>1. next \in Nat /\ n \in Nat BY <1>1, <3>1
          <6> QED BY <1>1, <2>6, <6>1
        <5>3. c =< Cardinality(HeadsFrom(args, next, Len(args)))
          BY <5>1, <5>2, FS_Subset
        <5>4. n \in HeadsFrom(args, next, n) BY <3>1, <4>1 DEF HeadsFrom
        <5>5. c # 0 BY <5>2, <5>4, FS_EmptySet
        <5>6. Len(rest.switches) = Cardinality(HeadsFrom(args, next, Len(args)))
          BY <1>3 DEF Obtained
        <5> QED BY <2>5, <5>2, <5>3, <5>5, <5>6
      <4> HIDE DEF c
      <4>4. all[c + 1] = rest.switches[c]
        <5>1. c + 1 \in 1..(1 + Len(rest.switches)) /\ ~ (c + 1 =< 1) /\ (c + 1) - 1 = c
          BY <2>5, <4>3
        <5> QED BY <2>4, <5>1
      <4>5. Cardinality(HeadsFrom(args, it, n)) = c + 1 BY <3>2 DEF c
      <4> QED BY <4>2, <4>4, <4>5
    <3> QED BY <3>3, <3>4
  <2>9. Sound(args, there, it) BY <1>3 DEF Obtained
  <2> QED BY <2>2, <2>4, <2>7, <2>8, <2>9 DEF Obtained
<1> QED BY <1>2, <1>3

\* The reading of one argument, after that of those behind it.
LEMMA ReadingObtains ==
  ASSUME NEW args \in Seq(Trim), NEW there, NEW it \in 1..Len(args), NEW from,
         Obtained(args, there, it + 1, from[it + 1]),
         it + 2 =< Len(args) + 1 => Obtained(args, there, it + 2, from[it + 2])
  PROVE  Obtained(args, there, it, Reading(args, there, it, from))
<1> DEFINE N == Len(args)  arg == args[it]  result == Reading(args, there, it, from)
<1>1. N \in Nat /\ \A n \in 1..N : args[n] \in Trim BY LenProperties, ElementOfSeq
<1>2. arg \in Trim /\ arg.word \in Words BY <1>1 DEF Trim, Arguments
<1>3. ASSUME ~ Sound(args, there, it), Fails(result), Blames(args, result)
      PROVE  Obtained(args, there, it, result)
  BY <1>3 DEF Obtained
<1>4. CASE ~ InTable(arg)
  <2>1. Fails(match_switch(arg)) /\ match_switch(arg).about = arg.word BY <1>2, <1>4, MatchIs
  <2>2. result = match_switch(arg) BY <1>1, <2>1 DEF Reading
  <2>3. Blames(args, result) BY <2>1, <2>2 DEF Blames
  <2>4. ~ Sound(args, there, it) BY <1>1, <1>4 DEF Sound, Heads
  <2> QED BY <1>3, <2>1, <2>2, <2>3, <2>4
<1>5. CASE InTable(arg)
  <2>1. match_switch(arg) = [mode |-> ModeOf(arg)] BY <1>2, <1>5, MatchIs
  <2>2. ~ Fails(match_switch(arg)) /\ match_switch(arg).mode = ModeOf(arg) BY <2>1, FailsIs
  <2>3. it \in Heads(args) BY <1>5 DEF InTable, Heads
  <2>4. CASE ~ Requires(arg)
    <3> DEFINE first == test_switch(ModeOf(arg), empty, there)
    <3>1. result = Then(first, from[it + 1]) BY <1>1, <2>2, <2>4 DEF Reading, Requires
    <3>2. ~ Fails(first) /\ first \in Switch /\ first.mode = ModeOf(arg)
      BY <1>2, <1>5, <2>4, ConstructorIs DEF Words
    <3>3. Stands(args, first, it)
      <4>1. ModeOf(arg) \notin FileModes /\ ModeOf(arg) # {"run_specific_test"}
        BY <2>4 DEF Requires, flags_requiring_parameter
      <4> QED BY <3>2, <4>1 DEF Stands
    <3>4. Sound(args, there, it) <=> Sound(args, there, it + 1)
      BY <1>1, <1>5, <2>3, <2>4 DEF Sound, Heads
    <3> HIDE DEF first
    <3>5. /\ it + 1 \in {it + 1, it + 2} /\ it + 1 =< Len(args) + 1
          /\ it + 1 = it + 2 => it + 1 \notin Heads(args)
      OBVIOUS
    <3>6. Obtained(args, there, it, Then(first, from[it + 1]))
      BY <2>3, <3>2, <3>3, <3>4, <3>5, ObtainedBefore
    <3> QED BY <3>1, <3>6
  <2>5. CASE Requires(arg) /\ ParameterMissing(args, it)
    <3>1. result = missing_parameter(ModeOf(arg)) BY <1>1, <2>2, <2>5 DEF Reading, Requires
    <3>2. Fails(result) /\ result.about = empty BY <3>1, FailsIs DEF missing_parameter
    <3>3. ~ (it + 1 \in 1..N /\ it + 1 \notin Heads(args))
      BY <1>1, <2>5 DEF ParameterMissing, starts_with_switch_token, Heads, Trim
    <3>4. ~ Sound(args, there, it) BY <1>1, <1>5, <2>5, <3>3 DEF Sound
    <3> QED BY <1>3, <3>2, <3>4 DEF Blames
  <2>6. CASE Requires(arg) /\ ~ ParameterMissing(args, it)
    <3> DEFINE text == args[it + 1].word  first == test_switch(ModeOf(arg), text, there)
               refused == text = empty \/ (ModeOf(arg) \in FileModes /\ text \notin there)
    <3>1. result = Then(first, from[it + 2]) BY <1>1, <2>2, <2>6 DEF Reading, Requires
    <3>2. it + 1 \in 1..N /\ it + 1 \notin Heads(args) /\ args[it + 1].token = empty
      BY <1>1, <2>6 DEF ParameterMissing, starts_with_switch_token, Heads, Trim
    <3>3. text \in Words BY <1>1, <3>2 DEF Trim, Arguments
    <3>4. /\ refused => Fails(first) /\ (first.about = text \/ (text = empty /\ first.about = TheMessage))
          /\ ~ refused => /\ ~ Fails(first) /\ first \in Switch /\ first.mode = ModeOf(arg)
                          /\ ModeOf(arg) \in FileModes => file_path(first) = text
                          /\ ModeOf(arg) = {"run_specific_test"} => test_name(first) = text
      BY <1>2, <1>5, <2>6, <3>3, ConstructorIs
    <3>5. Obtained(args, there, it + 2, from[it + 2]) BY <1>1, <3>2
    <3>6. CASE refused
      <4>1. Fails(first) /\ result = first BY <3>1, <3>4, <3>6 DEF Then
      <4>2. Blames(args, result)
        <5>1. text = empty => \E n \in 1..Len(args) : args[n].word = empty BY <3>2
        <5>2. \E n \in 1..Len(args) : text = args[n].word BY <3>2
        <5> HIDE DEF text, first, result
        <5> QED BY <3>4, <3>6, <4>1, <5>1, <5>2 DEF Blames
      <4>3. ~ Sound(args, there, it)
        <5>1. it + 1 \in (it + 1)..Len(args) /\ args[(it + 1) - 1] = arg BY <1>1, <3>2
        <5> QED BY <3>2, <3>6, <5>1 DEF Sound
      <4> QED BY <1>3, <4>1, <4>2, <4>3
    <3>7. CASE ~ refused
      <4>1. Stands(args, first, it) BY <3>4, <3>7 DEF Stands
      <4>2. Sound(args, there, it) <=> Sound(args, there, it + 2)
        <5>1. ~ InTable(args[it + 1]) BY <3>2 DEF InTable
        <5>2. args[(it + 1) - 1] = arg BY <1>1
        <5> DEFINE Asks(n) == InTable(args[n]) /\ Requires(args[n])
                   Named(n) == n \in Heads(args) => InTable(args[n])
                   Asked(n) == Asks(n) <=> n + 1 \in 1..Len(args) /\ n + 1 \notin Heads(args)
                   Given2(n) == n \notin Heads(args) =>
                     /\ args[n].word # empty
                     /\ ModeOf(args[n - 1]) \in FileModes => args[n].word \in there
        <5>3. Named(it) /\ Named(it + 1) BY <1>5, <3>2
        <5>4. Asked(it) BY <1>5, <2>6, <3>2
        <5>5. Asked(it + 1) <=> (it + 2 =< N => it + 2 \in Heads(args))
          BY <1>1, <5>1
        <5>6. Given2(it + 1) BY <3>7, <5>2
        <5>7. \A i \in Nat : Sound(args, there, i) <=>
                 /\ i =< N => i \in Heads(args)
                 /\ \A n \in i..N : Named(n)
                 /\ \A n \in i..N : Asked(n)
                 /\ \A n \in (i + 1)..N : Given2(n)
          BY DEF Sound
        <5> HIDE DEF Named, Asked, Given2
        <5>8. Asked(it + 1) => (it + 2 \in 1..N => Given2(it + 2))
          <6>1. Asked(it + 1) /\ it + 2 \in 1..N => it + 2 \in Heads(args) BY <5>5
          <6> QED BY <6>1 DEF Given2
        <5> QED BY <1>1, <2>3, <3>2, <5>3, <5>4, <5>5, <5>6, <5>7, <5>8
      <4> HIDE DEF first
      <4>3. /\ it + 2 \in {it + 1, it + 2} /\ it + 2 =< Len(args) + 1 BY <1>1, <3>2
      <4>4. Obtained(args, there, it, Then(first, from[it + 2]))
        BY <2>3, <3>2, <3>4, <3>5, <3>7, <4>1, <4>2, <4>3, ObtainedBefore
      <4> QED BY <3>1, <4>4
    <3> QED BY <3>6, <3>7
  <2> QED BY <2>4, <2>5, <2>6
<1> QED BY <1>4, <1>5

\* process_input on trimmed arguments.
LEMMA ProcessObtains ==
  ASSUME NEW args \in Seq(Trim), NEW there
  PROVE  Obtained(args, there, 1, process_input(args, there))
<1>1. Len(args) \in Nat BY LenProperties
<1>2. PICK from : ReadsFrom(args, there, from) /\ process_input(args, there) = from[1]
  BY <1>1, ProcessReads
<1> DEFINE N == Len(args) + 1  G == {n \in 1..N : Obtained(args, there, n, from[n])}
<1>3. \A n \in 1..N : from[n] = Reading(args, there, n, from)
  BY <1>1, <1>2 DEF ReadsFrom
<1>4. N \in G
  <2>1. from[N] = [switches |-> << >>] BY <1>1, <1>3 DEF Reading
  <2>2. ~ Fails(from[N]) /\ from[N].switches = << >> BY <2>1, FailsIs
  <2>3. Sound(args, there, N) BY <1>1 DEF Sound
  <2>4. HeadsFrom(args, N, Len(args)) = {} BY <1>1 DEF HeadsFrom, Heads
  <2>5. Cardinality(HeadsFrom(args, N, Len(args))) = 0 BY <2>4, FS_EmptySet
  <2>6. Len(<< >>) = 0 /\ << >> \in Seq(Switch) BY EmptySeq
  <2>7. \A n \in Heads(args) : ~ (N =< n) BY <1>1 DEF Heads
  <2>8. Obtained(args, there, N, from[N]) BY <2>2, <2>3, <2>5, <2>6, <2>7 DEF Obtained
  <2> QED BY <1>1, <2>8
<1>5. \A n \in 1..N : n \in G
  <2>1. ASSUME NEW n \in 1..N, \A k \in (n + 1)..N : k \in G PROVE n \in G
    <3>1. CASE n = N BY <1>4, <3>1
    <3>2. CASE n # N
      <4>1. n \in 1..Len(args) BY <1>1, <3>2
      <4>2. n + 1 \in (n + 1)..N /\ (n + 2 =< N => n + 2 \in (n + 1)..N) BY <1>1, <4>1
      <4>3. /\ Obtained(args, there, n + 1, from[n + 1])
            /\ n + 2 =< N => Obtained(args, there, n + 2, from[n + 2])
        BY <2>1, <4>2
      <4>4. Obtained(args, there, n, Reading(args, there, n, from)) BY <4>1, <4>3, ReadingObtains
      <4> QED BY <1>3, <4>4
    <3> QED BY <3>1, <3>2
  <2>2. N \in Nat BY <1>1
  <2> HIDE DEF G, N
  <2> QED BY <2>1, <2>2, FromTheEnd
<1>6. 1 \in 1..N BY <1>1
<1> QED BY <1>2, <1>5, <1>6

\* What process_input has read is what the grammar says.
LEMMA ObtainedIsGrammar ==
  ASSUME NEW args \in Seq(Trim), NEW there, NEW result, Obtained(args, there, 1, result)
  PROVE  /\ ~ Fails(result) <=> WellFormed(args, there)
         /\ ~ Fails(result) => Reads(args, result.switches) /\ result.switches \in Seq(Switch)
         /\ Fails(result) => Blames(args, result)
<1> DEFINE N == Len(args)
<1>1. N \in Nat BY LenProperties
<1>2. Sound(args, there, 1) <=> WellFormed(args, there)
  <2> DEFINE Known(n) == n \in Heads(args) /\ args[n].word \in DOMAIN text_mode_lookup
             Asks(n) == Known(n) /\ ModeOf(args[n]) \in flags_requiring_parameter
             Named(n) == /\ args[n].word # empty
                         /\ ModeOf(args[n - 1]) \in FileModes => args[n].word \in there
  <2>1. \A n \in 1..N : /\ n \in Heads(args) => (InTable(args[n]) <=> Known(n))
                        /\ InTable(args[n]) /\ Requires(args[n]) <=> Asks(n)
    BY DEF InTable, Requires, Heads
  <2>2. ~ Asks(0) BY DEF Heads
  <2>3. Heads(args) \subseteq 1..N BY DEF Heads
  <2>4. WellFormed(args, there) <=>
          /\ \A n \in Heads(args) : Known(n)
          /\ \A n \in 0..N : Asks(n) <=> n + 1 \in (1..N) \ Heads(args)
          /\ \A n \in (1..N) \ Heads(args) : Named(n)
    BY DEF WellFormed
  <2>5. Sound(args, there, 1) <=>
          /\ 1 =< N => 1 \in Heads(args)
          /\ \A n \in 1..N : n \in Heads(args) => InTable(args[n])
          /\ \A n \in 1..N : InTable(args[n]) /\ Requires(args[n])
                               <=> n + 1 \in 1..N /\ n + 1 \notin Heads(args)
          /\ \A n \in 2..N : n \notin Heads(args) => Named(n)
    BY DEF Sound
  <2> HIDE DEF Named, Asks, Known
  <2>6. (\A n \in 0..N : Asks(n) <=> n + 1 \in (1..N) \ Heads(args)) <=>
          /\ 1 =< N => 1 \in Heads(args)
          /\ \A n \in 1..N : InTable(args[n]) /\ Requires(args[n])
                               <=> n + 1 \in 1..N /\ n + 1 \notin Heads(args)
    <3>1. \A n \in 0..N : n = 0 \/ n \in 1..N BY <1>1
    <3>2. 0 \in 0..N /\ (0 + 1 \in (1..N) \ Heads(args) <=> 1 =< N /\ 1 \notin Heads(args)) BY <1>1
    <3>3. \A n \in 1..N : n \in 0..N BY <1>1
    <3> QED BY <2>1, <2>2, <3>1, <3>2, <3>3
  <2>7. (\A n \in Heads(args) : Known(n)) <=>
        (\A n \in 1..N : n \in Heads(args) => InTable(args[n]))
    BY <2>1, <2>3
  <2>8. (1 =< N => 1 \in Heads(args)) =>
          ((\A n \in (1..N) \ Heads(args) : Named(n)) <=>
           (\A n \in 2..N : n \notin Heads(args) => Named(n)))
    <3>1. \A n \in 1..N : n = 1 \/ n \in 2..N BY <1>1
    <3>2. \A n \in 2..N : n \in 1..N BY <1>1
    <3> QED BY <1>1, <3>1, <3>2
  <2> QED BY <2>4, <2>5, <2>6, <2>7, <2>8
<1>3. ASSUME ~ Fails(result) PROVE Reads(args, result.switches)
  <2>1. HeadsFrom(args, 1, N) = Heads(args) BY <1>1 DEF HeadsFrom, Heads
  <2>2. \A n \in Heads(args) : HeadsFrom(args, 1, n) = {k \in Heads(args) : k =< n} /\ 1 =< n
    BY <1>1 DEF HeadsFrom, Heads
  <2>3. Len(result.switches) = Cardinality(Heads(args)) BY <1>3, <2>1 DEF Obtained
  <2>4. \A n \in Heads(args) :
          Stands(args, result.switches[Cardinality({k \in Heads(args) : k =< n})], n)
    BY <1>3, <2>2 DEF Obtained
  <2> QED BY <2>3, <2>4 DEF Reads, Stands
<1> QED BY <1>2, <1>3 DEF Obtained

\* Trimming leaves the words and the tokens.
LEMMA TrimmedIs ==
  ASSUME NEW command \in Seq(Arguments), command # << >>
  PROVE  LET normal == normalize_and_stringify_console_args(command)
         IN  /\ ~ Fails(normal) /\ normal.args \in Seq(Trim) /\ Len(normal.args) = Len(Tail(command))
             /\ \A n \in 1..Len(Tail(command)) : /\ normal.args[n].token = Tail(command)[n].token
                                                 /\ normal.args[n].word = Tail(command)[n].word
<1> DEFINE normal == normalize_and_stringify_console_args(command)
           args == [n \in 1..(Len(command) - 1) |-> Trimmed(command[n + 1])]
<1>1. normal = [args |-> args] BY DEF normalize_and_stringify_console_args
<1>2. ~ Fails(normal) /\ normal.args = args BY <1>1, FailsIs
<1>3. Len(command) \in Nat \ {0} BY LenProperties, EmptySeq
<1>4. /\ Len(Tail(command)) = Len(command) - 1
      /\ \A n \in 1..(Len(command) - 1) : Tail(command)[n] = command[n + 1]
  BY <1>3, HeadTailProperties
<1>5. \A n \in 1..(Len(command) - 1) : command[n + 1] \in Arguments
  BY <1>3, ElementOfSeq
<1>6. \A arg \in Arguments :
        Trimmed(arg) \in Trim /\ Trimmed(arg).token = arg.token /\ Trimmed(arg).word = arg.word
  BY DEF Trimmed, Trim, Arguments
<1>7. Len(command) - 1 \in Nat BY <1>3
<1>8. \A n \in 1..(Len(command) - 1) : args[n] = Trimmed(command[n + 1]) /\ args[n] \in Trim
  BY <1>5, <1>6
<1>9. args \in Seq(Trim) /\ Len(args) = Len(command) - 1
  <2>1. args \in [1..(Len(command) - 1) -> Trim] BY <1>8
  <2> HIDE DEF args
  <2>2. args \in Seq(Trim) BY <1>7, <2>1, SeqDef
  <2>3. DOMAIN args = 1..(Len(command) - 1) BY <2>1
  <2> QED BY <1>7, <2>2, <2>3, LenProperties
<1> QED BY <1>2, <1>4, <1>5, <1>6, <1>8, <1>9

\* The grammar looks at tokens and words only.
LEMMA GrammarOfTrimmed ==
  ASSUME NEW args, NEW given, Len(args) = Len(given), Len(given) \in Nat,
         \A n \in 1..Len(given) : args[n].token = given[n].token /\ args[n].word = given[n].word,
         NEW there
  PROVE  /\ Heads(args) = Heads(given)
         /\ WellFormed(args, there) <=> WellFormed(given, there)
<1>1. Heads(args) = Heads(given) BY DEF Heads
<1>2. Heads(given) \subseteq 1..Len(given) BY DEF Heads
<1>3. \A n \in 1..Len(given) : ModeOf(args[n]) = ModeOf(given[n]) BY DEF ModeOf
<1> DEFINE K(s, n) == n \in Heads(s) /\ s[n].word \in DOMAIN text_mode_lookup
           A(s, n) == K(s, n) /\ ModeOf(s[n]) \in flags_requiring_parameter
           W(s, n) == /\ s[n].word # empty
                      /\ ModeOf(s[n - 1]) \in FileModes => s[n].word \in there
           First(s) == 1 =< Len(s) => 1 \in Heads(s)
<1>4. \A n : (K(args, n) <=> K(given, n)) /\ (A(args, n) <=> A(given, n))
  BY <1>1, <1>2, <1>3
<1>5. \A n \in 2..Len(given) : W(args, n) <=> W(given, n)
  <2>1. \A n \in 2..Len(given) : n \in 1..Len(given) /\ n - 1 \in 1..Len(given) OBVIOUS
  <2> QED BY <1>3, <2>1
<1>6. \A s : WellFormed(s, there) <=>
        /\ \A n \in Heads(s) : K(s, n)
        /\ \A n \in 0..Len(s) : A(s, n) <=> n + 1 \in (1..Len(s)) \ Heads(s)
        /\ \A n \in (1..Len(s)) \ Heads(s) : W(s, n)
  BY DEF WellFormed
<1> HIDE DEF W
<1>7. (\A n \in 0..Len(given) : A(given, n) <=> n + 1 \in (1..Len(given)) \ Heads(given)) => First(given)
  <2>1. ~ A(given, 0) BY <1>2
  <2>2. 0 \in 0..Len(given) /\ 0 + 1 = 1 OBVIOUS
  <2> QED BY <2>1, <2>2
<1>8. First(given) => ((\A n \in (1..Len(given)) \ Heads(given) : W(args, n)) <=>
                       (\A n \in (1..Len(given)) \ Heads(given) : W(given, n)))
  <2>1. \A n \in 1..Len(given) : n = 1 \/ n \in 2..Len(given) OBVIOUS
  <2> QED BY <1>5, <2>1
<1> HIDE DEF K, A
<1> QED BY <1>1, <1>4, <1>6, <1>7, <1>8

\* What the grammar reads of the trimmed arguments it reads of the arguments.
LEMMA ReadsTrimmed ==
  ASSUME NEW args, NEW given, Len(args) = Len(given), Len(given) \in Nat,
         \A n \in 1..Len(given) : args[n].token = given[n].token /\ args[n].word = given[n].word,
         \A n \in 1..Len(given) : n \in Heads(given) => given[n].word \in DOMAIN text_mode_lookup,
         \A n \in 0..Len(given) :
            (n \in Heads(given) /\ ModeOf(given[n]) \in flags_requiring_parameter) => n + 1 \in 1..Len(given),
         NEW command, Reads(args, command)
  PROVE  Reads(given, command)
<1>1. Heads(args) = Heads(given) BY DEF Heads
<1>2. \A n \in Heads(given) : n \in 1..Len(given) /\ n \in 0..Len(given) BY DEF Heads
<1>3. \A n \in 1..Len(given) : ModeOf(args[n]) = ModeOf(given[n]) BY DEF ModeOf
<1>4. ASSUME NEW n \in Heads(given), ModeOf(given[n]) \in flags_requiring_parameter
      PROVE  args[n + 1].word = given[n + 1].word
  BY <1>2, <1>4
<1>5. \A m : m \in FileModes \/ m = {"run_specific_test"} => m \in flags_requiring_parameter
  BY DEF flags_requiring_parameter
<1> QED BY <1>1, <1>2, <1>3, <1>4, <1>5 DEF Reads

\* What the program makes of its command line.
LEMMA CommandLineIsRead ==
  ASSUME NEW command \in Seq(Arguments), NEW exist, NEW result,
         LET normal == normalize_and_stringify_console_args(command)
         IN  result = IF Fails(normal) THEN normal ELSE process_input(normal.args, exist)
  PROVE  /\ command = << >> => Fails(result)
         /\ ~ Fails(result) => result.switches \in Seq(Switch)
         /\ command # << >> =>
              /\ ~ Fails(result) <=> WellFormed(Tail(command), exist)
              /\ ~ Fails(result) => Reads(Tail(command), result.switches)
              /\ Fails(result) =>
                   LET words == {Tail(command)[n].word : n \in 1..Len(Tail(command))}
                   IN  result.about \in words \cup {empty} \/ (empty \in words /\ result.about = TheMessage)
<1> DEFINE normal == normalize_and_stringify_console_args(command)  given == Tail(command)
           args == normal.args
<1>1. CASE command = << >>
  <2>1. Fails(normal) BY <1>1, FailsIs DEF normalize_and_stringify_console_args
  <2> QED BY <1>1, <2>1
<1>2. CASE command # << >>
  <2>1. /\ ~ Fails(normal) /\ args \in Seq(Trim) /\ Len(args) = Len(given)
        /\ \A n \in 1..Len(given) : args[n].token = given[n].token /\ args[n].word = given[n].word
    BY <1>2, TrimmedIs
  <2>2. result = process_input(args, exist) BY <2>1
  <2>3. Len(given) \in Nat BY <2>1, LenProperties
  <2> HIDE DEF normal, given, args
  <2>4. Obtained(args, exist, 1, result) BY <2>1, <2>2, ProcessObtains
  <2>5. /\ ~ Fails(result) <=> WellFormed(args, exist)
        /\ ~ Fails(result) => Reads(args, result.switches) /\ result.switches \in Seq(Switch)
        /\ Fails(result) => Blames(args, result)
    BY <2>1, <2>4, ObtainedIsGrammar
  <2>6. WellFormed(args, exist) <=> WellFormed(given, exist) BY <2>1, <2>3, GrammarOfTrimmed
  <2>7. ASSUME ~ Fails(result) PROVE Reads(given, result.switches)
    <3>1. WellFormed(given, exist) BY <2>5, <2>6, <2>7
    <3>2. \A n \in 1..Len(given) : n \in Heads(given) => given[n].word \in DOMAIN text_mode_lookup
      BY <3>1 DEF WellFormed
    <3>3. \A n \in 0..Len(given) :
            (n \in Heads(given) /\ ModeOf(given[n]) \in flags_requiring_parameter) => n + 1 \in 1..Len(given)
      BY <3>1, <3>2 DEF WellFormed, Heads
    <3> QED BY <2>1, <2>3, <2>5, <2>7, <3>2, <3>3, ReadsTrimmed
  <2>8. ASSUME Fails(result)
        PROVE  LET words == {given[n].word : n \in 1..Len(given)}
               IN  result.about \in words \cup {empty} \/ (empty \in words /\ result.about = TheMessage)
    BY <2>1, <2>5, <2>8 DEF Blames
  <2> QED BY <1>2, <2>5, <2>6, <2>7, <2>8 DEF given
<1> QED BY <1>1, <1>2

(***************************************************************************)
(* The shape of a script.                                                   *)

Restarts == {"restart", "restart_with_file"}
Labels == {"nothing", "help", "environment", "tests", "done", "threads", "summary", "detail",
           "wrote_detail", "unable_to_verify", "file", "named", "test"}
LinesSaid == {l \in [route : Routes, what : Labels, blank : BOOLEAN] :
                /\ l.blank = (l.what = "nothing")
                /\ l.what = "detail" => l.route = "file_out_proxy"
                /\ l.what = "summary" => l.route # "file_out_proxy"}
Results == {"summary", "detail", "wrote_detail", "unable_to_verify", "test"}
Remarks == {l \in LinesSaid : l.what \notin Results}

\* The statements of the scripts of a command.
Talking(command) ==
  {Say(lines) : lines \in Seq(Remarks) \ {<< >>}} \cup {ScriptOf(command[n]) : n \in 1..Len(command)}
Statements(command) ==
  Talking(command) \cup
    {Do(d) : d \in {"pause", "restart", "restart_with_file", "execute", "wait_join",
                    "summarise", "take_path", "announce"}}

HasBattery(command) ==
  command = << >> \/ ({"help"} \notin Modes(command) /\ {"run_default_tests"} \in Modes(command))

\* What comes before the battery, and between its summary and the announcement.
Before(command) ==
  IF command = << >> THEN <<Do("pause"), Do("restart")>>
  ELSE When({"print_environ_info"} \in Modes(command), <<Tell("environment")>>)
         \o When({"list_tests"} \in Modes(command), <<Tell("tests")>>)
         \o <<Do("pause"), Do("restart"), Tell("tests")>>

-----------------------------------------------------------------------------

\* Where the members of a concatenation are.
LEMMA ConcatAt ==
  ASSUME NEW X, NEW s \in Seq(X), NEW t \in Seq(X)
  PROVE  /\ s \o t \in Seq(X) /\ Len(s \o t) = Len(s) + Len(t)
         /\ Len(s) \in Nat /\ Len(t) \in Nat
         /\ \A n \in 1..Len(s) : (s \o t)[n] = s[n]
         /\ \A n \in 1..Len(t) : (s \o t)[Len(s) + n] = t[n]
<1>1. Len(s) \in Nat /\ Len(t) \in Nat BY LenProperties
<1>2. /\ s \o t \in Seq(X) /\ Len(s \o t) = Len(s) + Len(t)
      /\ \A n \in 1..(Len(s) + Len(t)) : (s \o t)[n] = IF n =< Len(s) THEN s[n] ELSE t[n - Len(s)]
  BY ConcatProperties
<1>3. \A n \in 1..Len(s) : (s \o t)[n] = s[n] BY <1>1, <1>2
<1>4. \A n \in 1..Len(t) : (s \o t)[Len(s) + n] = t[n]
  <2> TAKE n \in 1..Len(t)
  <2> HIDE <1>2
  <2>1. Len(s) + n \in 1..(Len(s) + Len(t)) /\ ~ (Len(s) + n =< Len(s)) /\ (Len(s) + n) - Len(s) = n
    BY <1>1
  <2>2. (s \o t)[Len(s) + n] = t[(Len(s) + n) - Len(s)] BY <1>2, <2>1
  <2> QED BY <2>1, <2>2
<1> QED BY <1>1, <1>2, <1>3, <1>4

\* The lines of the program, as statements.
LEMMA RemarksAre ==
  /\ \A r \in Routes : Nothing(r) \in Remarks
  /\ \A r \in Routes, l \in Labels \ (Results \cup {"nothing"}) : Line(r, l) \in Remarks
<1>1. "nothing" \in Labels \ Results BY DEF Labels, Results
<1>2. \A r \in Routes : Nothing(r) = [route |-> r, what |-> "nothing", blank |-> TRUE]
  BY DEF Nothing
<1>3. \A r \in Routes, l \in Labels \ (Results \cup {"nothing"}) :
        /\ Line(r, l) = [route |-> r, what |-> l, blank |-> FALSE] /\ l # "nothing"
        /\ l # "summary" /\ l # "detail" /\ l \notin Results /\ l \in Labels
  BY DEF Line, Results
<1>4. "nothing" # "summary" /\ "nothing" # "detail" OBVIOUS
<1>5. ASSUME NEW r \in Routes PROVE Nothing(r) \in Remarks
  <2>1. Nothing(r) \in [route : Routes, what : Labels, blank : BOOLEAN]
    BY <1>1 DEF Nothing
  <2>2. Nothing(r).blank = TRUE /\ Nothing(r).what = "nothing" BY <1>2
  <2> QED BY <1>1, <1>4, <2>1, <2>2 DEF Remarks, LinesSaid
<1>6. ASSUME NEW r \in Routes, NEW l \in Labels \ (Results \cup {"nothing"})
      PROVE  Line(r, l) \in Remarks
  <2>1. Line(r, l) \in [route : Routes, what : Labels, blank : BOOLEAN]
    BY <1>6 DEF Line
  <2>2. Line(r, l).blank = FALSE /\ Line(r, l).what = l BY <1>3
  <2>3. (l = "nothing") = FALSE BY <1>3
  <2> QED BY <1>3, <2>1, <2>2, <2>3 DEF Remarks, LinesSaid
<1> QED BY <1>5, <1>6

\* The statements that only tell a line, or nothing, belong to every command.
LEMMA TalkingIs ==
  ASSUME NEW command
  PROVE  /\ \A l \in Labels \ (Results \cup {"nothing"}) :
              Tell(l) \in Talking(command) /\ Say(<<Cout(l)>>) \in Talking(command)
         /\ Say(<<Nothing("cerr_proxy")>>) \in Talking(command)
         /\ \A s \in Talking(command) :
              /\ s.do \in {"say", "run_file", "run_test"}
              /\ s.do = "say" => s.lines \in Seq(Remarks) \ {<< >>}
<1>1. "cout_proxy" \in Routes /\ "cerr_proxy" \in Routes BY DEF Routes
<1>2. Nothing("cerr_proxy") \in Remarks /\ Nothing("cout_proxy") \in Remarks
  BY <1>1, RemarksAre
<1>3. \A l \in Labels \ (Results \cup {"nothing"}) : Cout(l) \in Remarks
  BY <1>1, RemarksAre DEF Cout
<1>4. \A r \in Remarks : /\ <<r>> \in Seq(Remarks) \ {<< >>}
                         /\ \A q \in Remarks : <<q, r>> \in Seq(Remarks) \ {<< >>}
  OBVIOUS
<1>5. \A l \in Labels \ (Results \cup {"nothing"}) :
         Tell(l) \in Talking(command) /\ Say(<<Cout(l)>>) \in Talking(command)
  BY <1>2, <1>3, <1>4 DEF Tell, Talking
<1>6. Say(<<Nothing("cerr_proxy")>>) \in Talking(command)
  BY <1>2, <1>4 DEF Talking
<1>7. ASSUME NEW s \in Talking(command)
      PROVE  /\ s.do \in {"say", "run_file", "run_test"}
             /\ s.do = "say" => s.lines \in Seq(Remarks) \ {<< >>}
  <2>1. CASE s \in {Say(lines) : lines \in Seq(Remarks) \ {<< >>}}
    BY <2>1 DEF Say
  <2>2. CASE s \in {ScriptOf(command[n]) : n \in 1..Len(command)}
    <3>1. PICK n \in 1..Len(command) : s = ScriptOf(command[n]) BY <2>2
    <3>2. CASE command[n].mode \in FileModes
      <4>1. command[n].mode # {"run_specific_test"} /\ command[n].mode \in flags_requiring_parameter
        BY <3>2 DEF FileModes, flags_requiring_parameter
      <4>2. s = [do |-> "run_file", path |-> file_path(command[n])]
        BY <3>1, <3>2, <4>1 DEF ScriptOf
      <4> QED BY <4>2
    <3>3. CASE command[n].mode \notin FileModes /\ command[n].mode = {"run_specific_test"}
      <4>1. command[n].mode \in flags_requiring_parameter
        BY <3>3 DEF flags_requiring_parameter
      <4>2. s = [do |-> "run_test", name |-> test_name(command[n])]
        BY <3>1, <3>3, <4>1 DEF ScriptOf
      <4> QED BY <4>2
    <3>4. CASE command[n].mode \notin FileModes /\ command[n].mode # {"run_specific_test"}
      <4>1. command[n].mode \notin flags_requiring_parameter
        BY <3>4 DEF flags_requiring_parameter
      <4>2. s = Say(<<Nothing("cerr_proxy"), Nothing("cout_proxy")>>)
        BY <3>1, <3>4, <4>1 DEF ScriptOf
      <4>3. <<Nothing("cerr_proxy"), Nothing("cout_proxy")>> \in Seq(Remarks) \ {<< >>}
        BY <1>2, <1>4
      <4> QED BY <4>2, <4>3 DEF Say
    <3> QED BY <3>2, <3>3, <3>4
  <2> QED BY <1>7, <2>1, <2>2 DEF Talking
<1> QED BY <1>5, <1>6, <1>7

\* What a script is without a battery: it pauses at the end and only there.
PlainScript(command, S) ==
  /\ S \in Seq(Statements(command)) /\ Len(S) >= 1
  /\ \A n \in 1..(Len(S) - 1) : S[n] \in Talking(command)
  /\ S[Len(S)] = Do("pause")

\* A beginning of a script in which each pause is followed by a restart.
Beginning(command, S, b) ==
  \A n \in 1..b :
    \/ S[n] \in Talking(command)
    \/ S[n] = Do("restart")
    \/ S[n] = Do("pause") /\ n < b /\ S[n + 1] = Do("restart")

\* And with one, b statements before the battery and c before the announcement.
BattleScript(command, S, b, c) ==
  /\ S \in Seq(Statements(command)) /\ b \in Nat /\ Len(S) >= c + 5
  /\ c = b + (IF command = << >> THEN 7 ELSE 8)
  /\ Beginning(command, S, b)
  /\ S[b + 1] = Do("pause") /\ S[b + 2] = Do("restart_with_file")
  /\ S[b + 3] = Say(<<Cout("threads")>>) /\ S[b + 4] = Say(<<Nothing("cerr_proxy")>>)
  /\ S[b + 5] = Do("execute") /\ S[b + 6] = Do("wait_join") /\ S[b + 7] = Do("summarise")
  /\ command # << >> => S[b + 8] = Say(<<Cout("done")>>)
  /\ S[c + 1] = Do("take_path") /\ S[c + 2] = Do("pause")
  /\ S[c + 3] = Do("restart") /\ S[c + 4] = Do("announce")
  /\ \A n \in (c + 5)..(Len(S) - 1) : S[n] \in Talking(command)
  /\ S[Len(S)] = Do("pause")

\* The statements of the battery and the remarks belong to every command.
LEMMA DosAre ==
  ASSUME NEW command
  PROVE  /\ \A d \in {"pause", "restart", "restart_with_file", "execute", "wait_join",
                      "summarise", "take_path", "announce"} : Do(d) \in Statements(command)
         /\ Talking(command) \subseteq Statements(command)
         /\ \A l \in {"environment", "tests", "done", "threads", "help"} :
              Tell(l) \in Talking(command) /\ Say(<<Cout(l)>>) \in Talking(command)
         /\ Say(<<Nothing("cerr_proxy")>>) \in Talking(command)
<1>1. {"environment", "tests", "done", "threads", "help"} \subseteq Labels \ (Results \cup {"nothing"})
  BY DEF Labels, Results
<1> QED BY <1>1, TalkingIs DEF Statements

\* The loop over the switches.
LEMMA EachSwitchIs ==
  ASSUME NEW command, Len(command) \in Nat
  PROVE  EachSwitch(command) \in Seq(Talking(command))
<1>1. EachSwitch(command) \in [1..Len(command) -> Talking(command)]
  BY DEF EachSwitch, Talking
<1> QED BY <1>1, SeqDef

\* The remarks before everything else.
LEMMA WhenIs ==
  ASSUME NEW X, NEW condition, NEW s \in Seq(X)
  PROVE  When(condition, s) \in Seq(X)
<1>1. << >> \in Seq(X) BY EmptySeq
<1> QED BY <1>1 DEF When

\* Without a battery.
LEMMA PlainScripts ==
  ASSUME NEW command, Len(command) \in Nat, ~ HasBattery(command)
  PROVE  PlainScript(command, Script(command))
<1> DEFINE T == Talking(command)  p == Do("pause")
<1>1. ASSUME NEW X \in Seq(T), Script(command) = X \o <<p>>
      PROVE  PlainScript(command, Script(command))
  <2>1. X \in Seq(Statements(command)) /\ <<p>> \in Seq(Statements(command)) /\ Len(<<p>>) = 1
    <3>1. p \in Statements(command) /\ T \subseteq Statements(command) BY DosAre
    <3>2. X \in Seq(Statements(command)) BY <3>1, SeqMonotonic
    <3> HIDE DEF p
    <3> QED BY <3>1, <3>2
  <2>2. /\ X \o <<p>> \in Seq(Statements(command)) /\ Len(X \o <<p>>) = Len(X) + 1
        /\ Len(X) \in Nat /\ \A n \in 1..Len(X) : (X \o <<p>>)[n] = X[n]
        /\ (X \o <<p>>)[Len(X) + 1] = <<p>>[1]
    <3> HIDE DEF p
    <3>1. 1 \in 1..Len(<<p>>) BY <2>1
    <3> QED BY <2>1, <3>1, ConcatAt
  <2>3. \A n \in 1..Len(X) : X[n] \in T BY ElementOfSeq
  <2> HIDE DEF p, T
  <2>4. <<p>>[1] = p OBVIOUS
  <2> DEFINE S == X \o <<p>>
  <2>5. Len(S) - 1 = Len(X) /\ Len(S) >= 1 BY <2>2
  <2>6. S[Len(S)] = p BY <2>2, <2>4
  <2>7. \A n \in 1..(Len(S) - 1) : S[n] \in T BY <2>2, <2>3, <2>5
  <2> QED BY <1>1, <2>2, <2>5, <2>6, <2>7 DEF PlainScript, p, T
<1>2. CASE {"help"} \in Modes(command)
  <2>1. <<Tell("help")>> \in Seq(T)
    <3>1. Tell("help") \in T BY DosAre
    <3> QED BY <3>1
  <2>2. command # << >> BY DEF HasBattery
  <2>3. Script(command) = <<Tell("help"), p>> BY <1>2, <2>2 DEF Script
  <2>4. <<Tell("help"), p>> = <<Tell("help")>> \o <<p>> OBVIOUS
  <2> QED BY <1>1, <2>1, <2>3, <2>4
<1>3. CASE {"help"} \notin Modes(command)
  <2> DEFINE u == When({"print_environ_info"} \in Modes(command), <<Tell("environment")>>)
             v == When({"list_tests"} \in Modes(command), <<Tell("tests")>>)
             e == EachSwitch(command)
  <2>1. command # << >> /\ {"run_default_tests"} \notin Modes(command) BY <1>3 DEF HasBattery
  <2>2. Script(command) = (((u \o v) \o << >>) \o e) \o <<p>>
    BY <1>3, <2>1 DEF Script, When
  <2>3. u \in Seq(T) /\ v \in Seq(T) /\ e \in Seq(T)
    <3>1. Tell("environment") \in T /\ Tell("tests") \in T BY DosAre
    <3>2. <<Tell("environment")>> \in Seq(T) /\ <<Tell("tests")>> \in Seq(T)
      <4> HIDE DEF T
      <4> QED BY <3>1
    <3> QED BY <3>2, WhenIs, EachSwitchIs
  <2> HIDE DEF u, v, e, T, p
  <2>4. ((u \o v) \o << >>) \o e \in Seq(T)
    BY <2>3, ConcatAt, EmptySeq
  <2> QED BY <1>1, <2>2, <2>4
<1> QED BY <1>2, <1>3

\* S is s and then t.
Joined(S, s, t) ==
  /\ Len(S) = Len(s) + Len(t) /\ Len(s) \in Nat /\ Len(t) \in Nat
  /\ \A n \in 1..Len(s) : S[n] = s[n]
  /\ \A n \in 1..Len(t) : S[Len(s) + n] = t[n]

\* A concatenation is the one and then the other.
LEMMA Joining ==
  ASSUME NEW X, NEW s \in Seq(X), NEW t \in Seq(X)
  PROVE  s \o t \in Seq(X) /\ Joined(s \o t, s, t)
BY ConcatAt DEF Joined

\* A word between a beginning and a loop, and a last statement.
Glue(S, y, w, e, p) ==
  /\ Len(S) = ((Len(y) + Len(w)) + Len(e)) + 1
  /\ Len(y) \in Nat /\ Len(w) \in Nat /\ Len(e) \in Nat
  /\ \A n \in 1..Len(y) : S[n] = y[n]
  /\ \A n \in 1..Len(w) : S[Len(y) + n] = w[n]
  /\ \A n \in 1..Len(e) : S[(Len(y) + Len(w)) + n] = e[n]
  /\ S[Len(S)] = p[1]

\* And four of them, the last of one member.
LEMMA Glued ==
  ASSUME NEW X, NEW y \in Seq(X), NEW w \in Seq(X), NEW e \in Seq(X), NEW p \in Seq(X), Len(p) = 1
  PROVE  LET S == ((y \o w) \o e) \o p
         IN  S \in Seq(X) /\ Glue(S, y, w, e, p)
<1> DEFINE yw == y \o w  ywe == yw \o e  S == ywe \o p
<1>1. yw \in Seq(X) /\ Joined(yw, y, w) BY Joining, Zenon
<1> HIDE DEF yw
<1>2. ywe \in Seq(X) /\ Joined(ywe, yw, e) BY <1>1, Joining, Zenon
<1> HIDE DEF ywe
<1>3. S \in Seq(X) /\ Joined(S, ywe, p) BY <1>2, Joining, Zenon
<1> HIDE DEF S
<1>4. \A n \in 1..Len(y) : S[n] = y[n]
  <2> TAKE n \in 1..Len(y)
  <2>1. n \in 1..Len(yw) /\ n \in 1..Len(ywe) BY <1>1, <1>2 DEF Joined
  <2> QED BY <1>1, <1>2, <1>3, <2>1 DEF Joined
<1>5. \A n \in 1..Len(w) : S[Len(y) + n] = w[n]
  <2> TAKE n \in 1..Len(w)
  <2>1. Len(y) + n \in 1..Len(yw) /\ Len(y) + n \in 1..Len(ywe) BY <1>1, <1>2 DEF Joined
  <2> QED BY <1>1, <1>2, <1>3, <2>1 DEF Joined
<1>6. \A n \in 1..Len(e) : S[(Len(y) + Len(w)) + n] = e[n]
  <2> TAKE n \in 1..Len(e)
  <2>1. Len(yw) + n \in 1..Len(ywe) BY <1>1, <1>2 DEF Joined
  <2>2. S[Len(yw) + n] = e[n] BY <1>2, <1>3, <2>1 DEF Joined
  <2> QED BY <1>1, <2>2 DEF Joined
<1>7. S[Len(S)] = p[1]
  <2>1. Len(S) = Len(ywe) + 1 /\ 1 \in 1..Len(p) BY <1>3 DEF Joined
  <2> QED BY <1>3, <2>1 DEF Joined
<1>8. Len(S) = ((Len(y) + Len(w)) + Len(e)) + 1
  BY <1>1, <1>2, <1>3 DEF Joined
<1>9. Len(y) \in Nat /\ Len(w) \in Nat /\ Len(e) \in Nat BY <1>1, <1>2 DEF Joined
<1> QED BY <1>3, <1>4, <1>5, <1>6, <1>7, <1>8, <1>9 DEF Glue, S, ywe, yw

\* Three, seven and four statements, with one between the last two of them.
Fifteens(w, x, m, d, a) ==
  /\ Len(w) = 15
  /\ \A n \in 1..3 : w[n] = x[n]
  /\ \A n \in 1..7 : w[3 + n] = m[n]
  /\ w[11] = d[1]
  /\ \A n \in 1..4 : w[11 + n] = a[n]

\* The statements before, in and after the battery when there are no switches.
LEMMA Fifteen ==
  ASSUME NEW X, NEW x \in Seq(X), Len(x) = 3, NEW m \in Seq(X), Len(m) = 7,
         NEW d \in Seq(X), Len(d) = 1, NEW a \in Seq(X), Len(a) = 4
  PROVE  LET w == ((x \o m) \o d) \o a
         IN  w \in Seq(X) /\ Fifteens(w, x, m, d, a)
<1> DEFINE xm == x \o m  xmd == xm \o d  w == xmd \o a
<1>1. xm \in Seq(X) /\ Joined(xm, x, m) BY Joining, Zenon
<1> HIDE DEF xm
<1>3. xmd \in Seq(X) /\ Joined(xmd, xm, d) BY <1>1, Joining, Zenon
<1> HIDE DEF xmd
<1>5. w \in Seq(X) /\ Joined(w, xmd, a) BY <1>3, Joining, Zenon
<1> HIDE DEF w
<1>6. /\ w \in Seq(X) /\ Len(w) = 15
      /\ \A n \in 1..3 : w[n] = x[n]
      /\ \A n \in 1..7 : w[3 + n] = m[n]
      /\ w[11] = d[1]
      /\ \A n \in 1..4 : w[11 + n] = a[n]
  <2>1. Len(xm) = 10 /\ \A n \in 1..3 : xm[n] = x[n] BY <1>1 DEF Joined
  <2>2. \A n \in 1..7 : xm[3 + n] = m[n] BY <1>1 DEF Joined
  <2>3. Len(xmd) = 11 /\ (\A n \in 1..10 : xmd[n] = xm[n]) /\ xmd[11] = d[1] BY <1>3, <2>1 DEF Joined
  <2>4. Len(w) = 15 /\ (\A n \in 1..11 : w[n] = xmd[n]) /\ \A n \in 1..4 : w[11 + n] = a[n]
    BY <1>5, <2>3 DEF Joined
  <2>5. \A n \in 1..7 : w[3 + n] = m[n]
    <3> TAKE n \in 1..7
    <3>1. 3 + n \in 1..10 /\ 3 + n \in 1..11 OBVIOUS
    <3> QED BY <2>2, <2>3, <2>4, <3>1
  <2>6. \A n \in 1..3 : w[n] = x[n] BY <2>1, <2>3, <2>4
  <2> QED BY <1>5, <2>3, <2>4, <2>5, <2>6
<1> QED BY <1>6 DEF Fifteens, w, xmd, xm

-----------------------------------------------------------------------------

\* What is told first, and the number of statements before the battery and
\* before the announcement.
Opening(command) ==
  When({"print_environ_info"} \in Modes(command), <<Tell("environment")>>)
    \o When({"list_tests"} \in Modes(command), <<Tell("tests")>>)
BattleAt(command) == IF command = << >> THEN 2 ELSE Len(Opening(command)) + 3
AnnouncedAt(command) == BattleAt(command) + (IF command = << >> THEN 7 ELSE 8)

\* The pieces that the battery and the announcement are.
LEMMA FixedPieces ==
  ASSUME NEW command
  PROVE  LET X == Statements(command)
         IN  /\ BatteryScript \in Seq(X) /\ Len(BatteryScript) = 7
             /\ AnnounceScript \in Seq(X) /\ Len(AnnounceScript) = 4
             /\ <<Do("pause")>> \in Seq(X) /\ <<Do("pause"), Do("restart")>> \in Seq(X)
             /\ <<Do("pause"), Do("restart"), Tell("tests")>> \in Seq(X)
             /\ <<Say(<<Cout("done")>>)>> \in Seq(X)
<1> DEFINE X == Statements(command)
<1>1. Say(<<Cout("threads")>>) \in X /\ Say(<<Nothing("cerr_proxy")>>) \in X
      /\ Say(<<Cout("done")>>) \in X /\ Tell("tests") \in X
  BY DosAre
<1>2. Do("pause") \in X /\ Do("restart") \in X /\ Do("restart_with_file") \in X
      /\ Do("execute") \in X /\ Do("wait_join") \in X /\ Do("summarise") \in X
      /\ Do("take_path") \in X /\ Do("announce") \in X
  BY DosAre
<1> HIDE DEF X
<1>3. BatteryScript \in Seq(X) /\ Len(BatteryScript) = 7 BY <1>1, <1>2 DEF BatteryScript
<1>4. AnnounceScript \in Seq(X) /\ Len(AnnounceScript) = 4 BY <1>2 DEF AnnounceScript
<1>5. <<Do("pause")>> \in Seq(X) /\ <<Do("pause"), Do("restart")>> \in Seq(X)
      /\ <<Do("pause"), Do("restart"), Tell("tests")>> \in Seq(X)
      /\ <<Say(<<Cout("done")>>)>> \in Seq(X)
  BY <1>1, <1>2
<1> QED BY <1>3, <1>4, <1>5 DEF X

\* The statements of execute_uint128_tests_threaded, and of the announcement
\* after it, at their places.
LEMMA FixedPlaces ==
  /\ BatteryScript[1] = Do("pause") /\ BatteryScript[2] = Do("restart_with_file")
  /\ BatteryScript[3] = Say(<<Cout("threads")>>)
  /\ BatteryScript[4] = Say(<<Nothing("cerr_proxy")>>)
  /\ BatteryScript[5] = Do("execute") /\ BatteryScript[6] = Do("wait_join")
  /\ BatteryScript[7] = Do("summarise")
  /\ AnnounceScript[1] = Do("take_path") /\ AnnounceScript[2] = Do("pause")
  /\ AnnounceScript[3] = Do("restart") /\ AnnounceScript[4] = Do("announce")
BY DEF BatteryScript, AnnounceScript

\* Without switches.
LEMMA BattleWithout ==
  ASSUME NEW command, command = << >>
  PROVE  BattleScript(command, Script(command), 2, 9)
<1> DEFINE X == Statements(command)  S == Script(command)
           x == <<Do("pause"), Do("restart")>>  m == BatteryScript  a == AnnounceScript
           p == <<Do("pause")>>
<1>1. S = ((x \o m) \o a) \o p BY DEF Script
<1>2. x \in Seq(X) /\ m \in Seq(X) /\ Len(m) = 7 /\ a \in Seq(X) /\ Len(a) = 4 /\ p \in Seq(X)
  BY FixedPieces
<1>3. Len(x) = 2 /\ x[1] = Do("pause") /\ x[2] = Do("restart") /\ Len(p) = 1 /\ p[1] = Do("pause")
  OBVIOUS
<1> HIDE DEF X, S, x, m, a, p
<1>4. S \in Seq(X) /\ Glue(S, x, m, a, p)
  BY <1>1, <1>2, <1>3, Glued, Zenon
<1>5. /\ S \in Seq(X) /\ Len(S) = 14
      /\ S[1] = Do("pause") /\ S[2] = Do("restart") /\ S[14] = Do("pause")
      /\ \A n \in 1..7 : S[2 + n] = m[n]
      /\ \A n \in 1..4 : S[9 + n] = a[n]
  BY <1>2, <1>3, <1>4 DEF Glue
<1>6. /\ S[3] = m[1] /\ S[4] = m[2] /\ S[5] = m[3] /\ S[6] = m[4] /\ S[7] = m[5] /\ S[8] = m[6]
      /\ S[9] = m[7] /\ S[10] = a[1] /\ S[11] = a[2] /\ S[12] = a[3] /\ S[13] = a[4]
  BY <1>5
<1>7. Beginning(command, S, 2)
  BY <1>5 DEF Beginning
<1>8. S \in Seq(Statements(command)) /\ (2 \in Nat) /\ Len(S) >= 9 + 5 BY <1>5 DEF X
<1>9. /\ S[2 + 1] = Do("pause") /\ S[2 + 2] = Do("restart_with_file")
      /\ S[2 + 3] = Say(<<Cout("threads")>>) /\ S[2 + 4] = Say(<<Nothing("cerr_proxy")>>)
      /\ S[2 + 5] = Do("execute") /\ S[2 + 6] = Do("wait_join") /\ S[2 + 7] = Do("summarise")
      /\ S[9 + 1] = Do("take_path") /\ S[9 + 2] = Do("pause")
      /\ S[9 + 3] = Do("restart") /\ S[9 + 4] = Do("announce")
  BY <1>6, FixedPlaces DEF m, a
<1>10. \A n \in (9 + 5)..(Len(S) - 1) : S[n] \in Talking(command) BY <1>5
<1>11. S[Len(S)] = Do("pause") BY <1>5
<1>12. BattleScript(command, S, 2, 9)
  BY <1>7, <1>8, <1>9, <1>10, <1>11 DEF BattleScript
<1> QED BY <1>12 DEF S

\* With a switch for the battery.
LEMMA BattleWith ==
  ASSUME NEW command, command # << >>, Len(command) \in Nat, HasBattery(command)
  PROVE  /\ Len(Opening(command)) \in Nat
         /\ BattleScript(command, Script(command), Len(Opening(command)) + 3,
                         (Len(Opening(command)) + 3) + 8)
<1> DEFINE X == Statements(command)  T == Talking(command)  S == Script(command)
           u == When({"print_environ_info"} \in Modes(command), <<Tell("environment")>>)
           v == When({"list_tests"} \in Modes(command), <<Tell("tests")>>)
           x == <<Do("pause"), Do("restart"), Tell("tests")>>  m == BatteryScript
           d == <<Say(<<Cout("done")>>)>>  a == AnnounceScript  e == EachSwitch(command)
           p == <<Do("pause")>>  w == ((x \o m) \o d) \o a  y == u \o v
<1>1. S = ((y \o w) \o e) \o p
  <2>1. {"help"} \notin Modes(command) /\ {"run_default_tests"} \in Modes(command)
    BY DEF HasBattery
  <2> QED BY <2>1 DEF Script, When
<1>2. x \in Seq(X) /\ m \in Seq(X) /\ Len(m) = 7 /\ d \in Seq(X)
      /\ a \in Seq(X) /\ Len(a) = 4 /\ p \in Seq(X)
  BY FixedPieces
<1>3. /\ Len(x) = 3 /\ x[1] = Do("pause") /\ x[2] = Do("restart") /\ x[3] = Tell("tests")
      /\ Len(d) = 1 /\ d[1] = Say(<<Cout("done")>>) /\ Len(p) = 1 /\ p[1] = Do("pause")
  OBVIOUS
<1>4. y \in Seq(T)
  <2>1. Tell("environment") \in T /\ Tell("tests") \in T BY DosAre
  <2>2. <<Tell("environment")>> \in Seq(T) /\ <<Tell("tests")>> \in Seq(T)
    <3> HIDE DEF T
    <3> QED BY <2>1
  <2>3. u \in Seq(T) /\ v \in Seq(T) BY <2>2, WhenIs
  <2> HIDE DEF T, u, v
  <2> QED BY <2>3, Joining, Zenon
<1>5. e \in Seq(T) BY EachSwitchIs
<1>6. T \subseteq X /\ Tell("tests") \in T /\ Opening(command) = y BY DosAre DEF Opening
<1> HIDE DEF X, T, S, u, v, x, m, d, a, e, p, y
<1>7. y \in Seq(X) /\ e \in Seq(X) BY <1>4, <1>5, <1>6, SeqMonotonic
<1>8. w \in Seq(X) /\ Fifteens(w, x, m, d, a)
  BY <1>2, <1>3, Fifteen, Zenon
<1> HIDE DEF w
<1>9. S \in Seq(X) /\ Glue(S, y, w, e, p) BY <1>1, <1>2, <1>3, <1>7, <1>8, Glued, Zenon
<1> DEFINE k == Len(y)
<1>10. k \in Nat /\ Len(e) \in Nat /\ Len(S) = k + 16 + Len(e) /\ S[Len(S)] = Do("pause")
  BY <1>3, <1>8, <1>9 DEF Glue, Fifteens
<1>11. \A n \in 1..k : S[n] \in T
  <2>1. \A n \in 1..k : y[n] \in T BY <1>4, ElementOfSeq
  <2>2. \A n \in 1..k : S[n] = y[n] BY <1>9 DEF Glue
  <2> QED BY <2>1, <2>2
<1>12. \A n \in 1..15 : S[k + n] = w[n] BY <1>8, <1>9 DEF Glue, Fifteens
<1>13. \A n \in 1..Len(e) : S[(k + 15) + n] \in T
  <2>1. \A n \in 1..Len(e) : e[n] \in T BY <1>5, ElementOfSeq
  <2>2. \A n \in 1..Len(e) : S[(k + 15) + n] = e[n] BY <1>8, <1>9 DEF Glue, Fifteens
  <2> QED BY <2>1, <2>2
<1> HIDE DEF k
<1>14. /\ w[1] = x[1] /\ w[2] = x[2] /\ w[3] = x[3]
       /\ w[4] = m[1] /\ w[5] = m[2] /\ w[6] = m[3] /\ w[7] = m[4] /\ w[8] = m[5] /\ w[9] = m[6]
       /\ w[10] = m[7] /\ w[11] = d[1] /\ w[12] = a[1] /\ w[13] = a[2] /\ w[14] = a[3] /\ w[15] = a[4]
  BY <1>8 DEF Fifteens
<1>15. /\ S[k + 1] = x[1] /\ S[k + 2] = x[2] /\ S[k + 3] = x[3]
       /\ S[k + 4] = m[1] /\ S[k + 5] = m[2] /\ S[k + 6] = m[3] /\ S[k + 7] = m[4]
       /\ S[k + 8] = m[5] /\ S[k + 9] = m[6] /\ S[k + 10] = m[7] /\ S[k + 11] = d[1]
       /\ S[k + 12] = a[1] /\ S[k + 13] = a[2] /\ S[k + 14] = a[3] /\ S[k + 15] = a[4]
  BY <1>12, <1>14
<1>16. Beginning(command, S, k + 3)
  <2> SUFFICES ASSUME NEW n \in 1..(k + 3)
               PROVE  \/ S[n] \in T
                      \/ S[n] = Do("restart")
                      \/ S[n] = Do("pause") /\ n < k + 3 /\ S[n + 1] = Do("restart")
    BY DEF Beginning, T
  <2>1. CASE n \in 1..k BY <1>11, <2>1
  <2>2. CASE n = k + 1
    <3>1. n < k + 3 /\ n + 1 = k + 2 BY <1>10, <2>2
    <3> QED BY <1>3, <1>15, <2>2, <3>1
  <2>3. CASE n = k + 2 BY <1>3, <1>15, <2>3
  <2>4. CASE n = k + 3 BY <1>3, <1>6, <1>15, <2>4
  <2> QED BY <1>10, <2>1, <2>2, <2>3, <2>4
<1> DEFINE b == k + 3  c == b + 8
<1>17. /\ b + 1 = k + 4 /\ b + 2 = k + 5 /\ b + 3 = k + 6 /\ b + 4 = k + 7 /\ b + 5 = k + 8
       /\ b + 6 = k + 9 /\ b + 7 = k + 10 /\ b + 8 = k + 11 /\ b \in Nat
       /\ c + 1 = k + 12 /\ c + 2 = k + 13 /\ c + 3 = k + 14 /\ c + 4 = k + 15 /\ Len(S) >= c + 5
  BY <1>10
<1>18. \A n \in (c + 5)..(Len(S) - 1) : S[n] \in T
  <2> TAKE n \in (c + 5)..(Len(S) - 1)
  <2>1. PICK j \in 1..Len(e) : n = (k + 15) + j
    <3>1. n - (k + 15) \in 1..Len(e) /\ n = (k + 15) + (n - (k + 15)) BY <1>10
    <3> QED BY <3>1
  <2> QED BY <1>13, <2>1
<1> HIDE DEF b, c
<1>19. /\ S[b + 1] = Do("pause") /\ S[b + 2] = Do("restart_with_file")
       /\ S[b + 3] = Say(<<Cout("threads")>>) /\ S[b + 4] = Say(<<Nothing("cerr_proxy")>>)
       /\ S[b + 5] = Do("execute") /\ S[b + 6] = Do("wait_join") /\ S[b + 7] = Do("summarise")
       /\ S[b + 8] = Say(<<Cout("done")>>)
       /\ S[c + 1] = Do("take_path") /\ S[c + 2] = Do("pause")
       /\ S[c + 3] = Do("restart") /\ S[c + 4] = Do("announce")
  <2>1. /\ m[1] = Do("pause") /\ m[2] = Do("restart_with_file")
        /\ m[3] = Say(<<Cout("threads")>>) /\ m[4] = Say(<<Nothing("cerr_proxy")>>)
        /\ m[5] = Do("execute") /\ m[6] = Do("wait_join") /\ m[7] = Do("summarise")
        /\ a[1] = Do("take_path") /\ a[2] = Do("pause") /\ a[3] = Do("restart") /\ a[4] = Do("announce")
    BY FixedPlaces DEF m, a
  <2> QED BY <1>3, <1>15, <1>17, <2>1
<1>20. b = k + 3 /\ c = b + 8 BY DEF b, c
<1>21. BattleScript(command, S, b, c)
  <2>1. S \in Seq(Statements(command)) BY <1>9 DEF X
  <2>2. c = b + (IF command = << >> THEN 7 ELSE 8) BY <1>20
  <2>3. Beginning(command, S, b) BY <1>16, <1>20
  <2>4. \A n \in (c + 5)..(Len(S) - 1) : S[n] \in Talking(command) BY <1>18 DEF T
  <2> QED BY <1>10, <1>17, <1>19, <2>1, <2>2, <2>3, <2>4 DEF BattleScript
<1> QED BY <1>6, <1>10, <1>20, <1>21 DEF S, k

\* Whatever the switches: the script has the shape that the battery needs.
LEMMA BattleScripts ==
  ASSUME NEW command, Len(command) \in Nat, HasBattery(command)
  PROVE  BattleScript(command, Script(command), BattleAt(command), AnnouncedAt(command))
<1>1. CASE command = << >>
  BY <1>1, BattleWithout DEF BattleAt, AnnouncedAt
<1>2. CASE command # << >>
  BY <1>2, BattleWith DEF BattleAt, AnnouncedAt
<1> QED BY <1>1, <1>2

-----------------------------------------------------------------------------
(* The program and its script.                                              *)

Command == parsed.switches
TheScript == Script(Command)
Following == stage # "parsing" /\ ~ Fails(parsed)
Throwing == todo # << >> /\ Head(todo).do = "throw"
Thrower(code) == [do |-> "throw", code |-> code]

\* The statements that the main thread has begun.
Begun == Len(TheScript) - Len(todo)

\* Whether there is a battery, and the number of statements before it and before
\* its announcement.
Battle == HasBattery(Command)
B == BattleAt(Command)
C == AnnouncedAt(Command)

\* The types.
AppTypes ==
  /\ argv \in CommandLines
  /\ stage \in {"parsing", "parsed", "running", "exit_0", "exit_minus_1"}
  /\ files \subseteq Paths
  /\ speech \in [Producers -> Seq(LinesSaid)]
  /\ spoken \in [Producers -> Seq(Labels)]
  /\ doing \in [Workers -> Tests \cup {NoTest}]
  /\ last \subseteq Workers
  /\ path \in BOOLEAN /\ detail \in BOOLEAN
  /\ phase \in {"idle", "running", "returned"}
  /\ reported \subseteq Tests

Queue == Out!IndInv /\ Out!LossInv /\ Out!Conservation

\* Before the command line is parsed, and when it is refused, nothing is said.
Fresh ==
  ~ Following =>
    /\ accepted = << >> /\ output = << >> /\ ~ suppress /\ ~ file
    /\ phase = "idle"
    /\ \A p \in Producers : /\ speech[p] = << >> /\ spoken[p] = << >>
                            /\ made[p] = 0 /\ ppc[p] = "idle"
    /\ \A w \in Workers : doing[w] = NoTest
    /\ stage = "parsing" \/ stage \in {"exit_0", "exit_minus_1"}

\* The main thread is in the script, or an exception leaves it.
InScript ==
  Following =>
    /\ Command \in Seq(Switch)
    /\ \/ /\ todo \in Seq(Statements(Command))
          /\ Len(todo) =< Len(TheScript)
          /\ \A n \in 1..Len(todo) : todo[n] = TheScript[Begun + n]
       \/ \E code \in {"exit_0", "exit_minus_1"} : todo = <<Thrower(code)>>

\* A worker that has left thread_loop has nothing more to do or to say.
Departed == \A w \in Workers : w \in gone => Quiet(w)

Prepared == AppTypes /\ Queue /\ Fresh /\ InScript /\ Departed

\* A thread waits, or leaves thread_loop.
Waiting ==
  /\ UNCHANGED restVars
  /\ gone' # gone => \E w \in Workers : Quiet(w) /\ gone' = gone \cup {w}

\* The queue of the program meets the assumption of DedicatedOutput.
LEMMA OutAssumption == Out!ConstantsAssumption
<1>1. Routes \subseteq Out!ProxyRoutes BY DEF Routes, Out!ProxyRoutes
<1>2. MaxItems \in Nat /\ MaxRestarts \in Nat BY ApplicationAssumption DEF MaxRestarts
<1> QED BY <1>1, <1>2 DEF Out!ConstantsAssumption

\* A statement of a script is no exception.
LEMMA StatementsAre ==
  ASSUME NEW command, NEW s \in Statements(command)
  PROVE  /\ s.do \in {"say", "run_file", "run_test", "pause", "restart", "restart_with_file",
                      "execute", "wait_join", "summarise", "take_path", "announce"}
         /\ s.do = "say" => s.lines \in Seq(Remarks) \ {<< >>}
         /\ s.do \in {"say", "run_file", "run_test"} => s \in Talking(command)
<1>1. CASE s \in Talking(command)
  BY <1>1, TalkingIs
<1>2. CASE s \in {Do(d) : d \in {"pause", "restart", "restart_with_file", "execute", "wait_join",
                    "summarise", "take_path", "announce"}}
  BY <1>2 DEF Do
<1> QED BY <1>1, <1>2 DEF Statements

\* What is left of the program when an exception leaves it.
LEMMA ThrowerIs ==
  ASSUME NEW code
  PROVE  /\ <<Thrower(code)>> # << >> /\ Head(<<Thrower(code)>>) = Thrower(code)
         /\ Thrower(code).do = "throw" /\ Thrower(code).code = code
         /\ Len(<<Thrower(code)>>) = 1
BY DEF Thrower

\* Which of the two the main thread is in.
LEMMA InOrOut ==
  ASSUME InScript, Following
  PROVE  /\ ~ Throwing => /\ todo \in Seq(Statements(Command)) /\ Len(todo) =< Len(TheScript)
                          /\ \A n \in 1..Len(todo) : todo[n] = TheScript[Begun + n]
                          /\ Len(todo) \in Nat
         /\ Throwing => \E code \in {"exit_0", "exit_minus_1"} : todo = <<Thrower(code)>>
         /\ todo # << >> /\ ~ Throwing => /\ Head(todo) \in Statements(Command)
                                          /\ Head(todo) = todo[1]
<1>1. CASE \E code \in {"exit_0", "exit_minus_1"} : todo = <<Thrower(code)>>
  BY <1>1, ThrowerIs DEF Throwing
<1>2. CASE ~ \E code \in {"exit_0", "exit_minus_1"} : todo = <<Thrower(code)>>
  <2>1. /\ todo \in Seq(Statements(Command)) /\ Len(todo) =< Len(TheScript)
        /\ \A n \in 1..Len(todo) : todo[n] = TheScript[Begun + n]
    BY <1>2 DEF InScript
  <2>2. Len(todo) \in Nat BY <2>1, LenProperties
  <2>3. todo # << >> => Head(todo) \in Statements(Command) /\ Head(todo) = todo[1]
    <3>1. todo \in Seq(Statements(Command)) BY <2>1
    <3> QED BY <3>1, HeadTailProperties
  <2>4. todo # << >> => Head(todo).do # "throw"
    BY <2>3, StatementsAre
  <2> QED BY <2>1, <2>2, <2>3, <2>4 DEF Throwing
<1> QED BY <1>1, <1>2

\* Every command has a script.
LEMMA ScriptIs ==
  ASSUME NEW command, Len(command) \in Nat
  PROVE  Script(command) \in Seq(Statements(command)) /\ Len(Script(command)) \in Nat
<1>1. Script(command) \in Seq(Statements(command))
  BY PlainScripts, BattleScripts DEF PlainScript, BattleScript
<1> QED BY <1>1, LenProperties

\* The statement that the main thread has before it.
LEMMA AtHand ==
  ASSUME InScript, Following, ~ Throwing, todo # << >>
  PROVE  /\ Begun \in Nat /\ Begun + 1 \in 1..Len(TheScript) /\ Len(TheScript) \in Nat
         /\ Head(todo) = TheScript[Begun + 1]
<1>1. /\ todo \in Seq(Statements(Command)) /\ Len(todo) =< Len(TheScript) /\ Len(todo) \in Nat
      /\ \A n \in 1..Len(todo) : todo[n] = TheScript[Begun + n]
      /\ Head(todo) = todo[1]
  BY InOrOut
<1>2. Len(TheScript) \in Nat
  <2>1. Len(Command) \in Nat BY LenProperties DEF InScript
  <2> QED BY <2>1, ScriptIs DEF TheScript
<1>3. Len(todo) >= 1
  <2>1. todo \in Seq(Statements(Command)) BY <1>1
  <2>2. Len(todo) # 0 BY <2>1, EmptySeq
  <2> QED BY <1>1, <2>2
<1>4. Begun \in Nat /\ Begun + 1 \in 1..Len(TheScript) BY <1>1, <1>2, <1>3 DEF Begun
<1>5. 1 \in 1..Len(todo) BY <1>1, <1>3
<1> QED BY <1>1, <1>2, <1>4, <1>5

\* The main thread goes on in its script.
LEMMA Advancing ==
  ASSUME InScript, Following, ~ Throwing, todo # << >>, todo' = Tail(todo), Following',
         UNCHANGED parsed
  PROVE  /\ InScript' /\ ~ Throwing' /\ Begun' = Begun + 1 /\ Begun' =< Len(TheScript)
         /\ Begun \in Nat /\ Head(todo) = TheScript[Begun + 1] /\ Len(TheScript) \in Nat
         /\ Head(todo) \in Statements(Command) /\ Begun < Len(TheScript)
         /\ todo' # << >> => Begun + 2 =< Len(TheScript) /\ Head(todo') = TheScript[Begun + 2]
<1>1. /\ todo \in Seq(Statements(Command)) /\ Len(todo) =< Len(TheScript) /\ Len(todo) \in Nat
      /\ \A n \in 1..Len(todo) : todo[n] = TheScript[Begun + n]
      /\ Head(todo) \in Statements(Command) /\ Head(todo) = todo[1]
  BY InOrOut
<1>2. TheScript \in Seq(Statements(Command)) /\ Len(TheScript) \in Nat
  <2>1. Len(Command) \in Nat BY LenProperties DEF InScript
  <2> QED BY <2>1, ScriptIs DEF TheScript
<1>3. /\ todo' \in Seq(Statements(Command)) /\ Len(todo') = Len(todo) - 1
      /\ \A n \in 1..Len(todo') : todo'[n] = todo[n + 1]
  <2>1. todo \in Seq(Statements(Command)) /\ todo # << >> BY <1>1
  <2>2. /\ Tail(todo) \in Seq(Statements(Command)) /\ Len(Tail(todo)) = Len(todo) - 1
        /\ \A n \in 1..Len(Tail(todo)) : Tail(todo)[n] = todo[n + 1]
    BY <2>1, HeadTailProperties
  <2> QED BY <2>2
<1>4. Command' = Command /\ TheScript' = TheScript BY DEF Command, TheScript
<1>5. Len(todo) >= 1
  <2>1. todo \in Seq(Statements(Command)) BY <1>1
  <2>2. Len(todo) # 0 BY <2>1, EmptySeq
  <2> QED BY <1>1, <2>2
<1>6. Begun' = Begun + 1 /\ Begun' =< Len(TheScript) /\ Begun \in Nat /\ Begun < Len(TheScript)
  BY <1>1, <1>2, <1>3, <1>4, <1>5 DEF Begun
<1>7. \A n \in 1..Len(todo') : todo'[n] = TheScript[Begun' + n]
  <2> TAKE n \in 1..Len(todo')
  <2>1. n + 1 \in 1..Len(todo) BY <1>1, <1>3
  <2>2. todo'[n] = todo[n + 1] BY <1>3
  <2>3. todo[n + 1] = TheScript[Begun + (n + 1)] BY <1>1, <2>1
  <2>4. Begun + (n + 1) = Begun' + n BY <1>6, <1>1, <1>3
  <2> QED BY <2>2, <2>3, <2>4
<1>8. Head(todo) = TheScript[Begun + 1]
  <2>1. 1 \in 1..Len(todo) BY <1>1, <1>5
  <2> QED BY <1>1, <2>1
<1>9. InScript'
  <2>1. Len(todo') =< Len(TheScript) BY <1>1, <1>2, <1>3
  <2> QED BY <1>3, <1>4, <1>7, <2>1 DEF InScript
<1>10. ~ Throwing'
  <2> SUFFICES ASSUME todo' # << >> PROVE Head(todo').do # "throw" BY DEF Throwing
  <2>1. Head(todo') \in Statements(Command) BY <1>3, HeadTailProperties
  <2> QED BY <2>1, StatementsAre
<1>11. todo' # << >> => Begun + 2 =< Len(TheScript) /\ Head(todo') = TheScript[Begun + 2]
  <2> SUFFICES ASSUME todo' # << >>
               PROVE  Begun + 2 =< Len(TheScript) /\ Head(todo') = TheScript[Begun + 2]
    OBVIOUS
  <2>1. Head(todo') = todo'[1] /\ Len(todo') # 0
    <3>1. todo' \in Seq(Statements(Command)) BY <1>3
    <3> QED BY <3>1, HeadTailProperties, EmptySeq
  <2>2. 1 \in 1..Len(todo') /\ Begun' + 1 = Begun + 2 BY <1>1, <1>3, <1>6, <2>1
  <2>3. Begun + 2 =< Len(TheScript) BY <1>1, <1>2, <1>3, <2>1 DEF Begun
  <2> QED BY <1>7, <2>1, <2>2, <2>3
<1> QED BY <1>1, <1>2, <1>6, <1>8, <1>9, <1>10, <1>11

-----------------------------------------------------------------------------
(* What is said                                                             *)

WorkerLabels == {"nothing", "test"}

\* The lines of the program are lines.
LEMMA LinesAre ==
  /\ Remarks \subseteq LinesSaid
  /\ \A r \in Routes : Nothing(r) \in LinesSaid
  /\ \A r \in Routes, l \in Labels \ {"nothing", "summary", "detail"} : Line(r, l) \in LinesSaid
  /\ Fout("detail") \in LinesSaid /\ Cout("summary") \in LinesSaid /\ Cerr("summary") \in LinesSaid
  /\ \A r \in Routes, l \in Labels : Line(r, l).what = l /\ Line(r, l).route = r
  /\ \A r \in Routes : Nothing(r).what = "nothing" /\ Nothing(r).route = r
<1>1. Remarks \subseteq LinesSaid BY DEF Remarks
<1>2. \A r \in Routes : Nothing(r) \in LinesSaid BY <1>1, RemarksAre
<1>3. ASSUME NEW r \in Routes, NEW l \in Labels \ {"nothing"}, l = "detail" => r = "file_out_proxy",
             l = "summary" => r # "file_out_proxy"
      PROVE  Line(r, l) \in LinesSaid
  <2>1. Line(r, l) = [route |-> r, what |-> l, blank |-> FALSE] BY DEF Line
  <2>2. Line(r, l).blank = FALSE /\ Line(r, l).what = l /\ Line(r, l).route = r BY <2>1
  <2>3. (l = "nothing") = FALSE OBVIOUS
  <2>4. Line(r, l) \in [route : Routes, what : Labels, blank : BOOLEAN] BY <2>1
  <2> QED BY <1>3, <2>2, <2>3, <2>4 DEF LinesSaid
<1>4. \A r \in Routes, l \in Labels \ {"nothing", "summary", "detail"} : Line(r, l) \in LinesSaid
  BY <1>3
<1>5. Fout("detail") \in LinesSaid /\ Cout("summary") \in LinesSaid /\ Cerr("summary") \in LinesSaid
  <2>1. "file_out_proxy" \in Routes /\ "cout_proxy" \in Routes /\ "cerr_proxy" \in Routes
    BY DEF Routes
  <2>2. "detail" \in Labels \ {"nothing"} /\ "summary" \in Labels \ {"nothing"}
    BY DEF Labels
  <2>3. "cout_proxy" # "file_out_proxy" /\ "cerr_proxy" # "file_out_proxy" /\ "detail" # "summary"
    OBVIOUS
  <2> QED BY <1>3, <2>1, <2>2, <2>3 DEF Fout, Cout, Cerr
<1>6. \A r \in Routes, l \in Labels : Line(r, l).what = l /\ Line(r, l).route = r BY DEF Line
<1>7. \A r \in Routes : Nothing(r).what = "nothing" /\ Nothing(r).route = r BY DEF Nothing
<1> QED BY <1>1, <1>2, <1>4, <1>5, <1>6, <1>7

\* What a worker says.
Talks == {l \in LinesSaid : l.what \in WorkerLabels}

\* What a worker sends of its test is told on behalf of the test.
LEMMA WorkerLines ==
  ASSUME NEW o
  PROVE  TestLines(o) \in Seq(Talks) /\ <<Cerr("test")>> \in Seq(Talks)
<1>1. "file_out_proxy" \in Routes /\ "cout_proxy" \in Routes /\ "cerr_proxy" \in Routes
  BY DEF Routes
<1>2. "test" \in Labels \ {"nothing", "summary", "detail"} /\ "test" \in Labels BY DEF Labels
<1>3. Fout("test") \in Talks /\ Cout("test") \in Talks /\ Cerr("test") \in Talks
  BY <1>1, <1>2, LinesAre DEF Fout, Cout, Cerr, Talks, WorkerLabels
<1>4. Nothing("cerr_proxy") \in Talks
  BY <1>1, LinesAre DEF Talks, WorkerLabels
<1> DEFINE f == Fout("test")  c == Cout("test")  e == Cerr("test")  n == Nothing("cerr_proxy")
<1>5. f \in Talks /\ c \in Talks /\ e \in Talks /\ n \in Talks BY <1>3, <1>4
<1> HIDE DEF f, c, e, n
<1> DEFINE u == When(file, <<f>>)  v == <<IF o = "pass" THEN n ELSE e>>  w == <<c>>
           x == When(o = "error", <<e>>)
<1>6. u \in Seq(Talks) /\ v \in Seq(Talks) /\ w \in Seq(Talks) /\ x \in Seq(Talks)
  <2>1. <<f>> \in Seq(Talks) /\ <<e>> \in Seq(Talks) BY <1>5
  <2>2. (IF o = "pass" THEN n ELSE e) \in Talks BY <1>5
  <2>3. v \in Seq(Talks) /\ w \in Seq(Talks) BY <1>5, <2>2
  <2> QED BY <2>1, <2>3, WhenIs
<1>7. TestLines(o) = ((u \o v) \o w) \o x BY DEF TestLines, f, c, e, n
<1> HIDE DEF u, v, w, x
<1>8. u \o v \in Seq(Talks) BY <1>6, Joining, Zenon
<1>9. (u \o v) \o w \in Seq(Talks) BY <1>6, <1>8, Joining, Zenon
<1>10. ((u \o v) \o w) \o x \in Seq(Talks) BY <1>6, <1>9, Joining, Zenon
<1>11. <<Cerr("test")>> \in Seq(Talks) BY <1>3
<1> QED BY <1>7, <1>10, <1>11

\* The lines of the statements that are no remarks.
LEMMA StatementLines ==
  /\ \A a, b : SummaryLines(a, b) \in Seq(LinesSaid) \ {<< >>}
  /\ \A a, b : ~ file => SummaryLines(a, b) = <<Cerr("summary"), Cout("summary")>>
  /\ Cout("wrote_detail") \in LinesSaid /\ Cerr("unable_to_verify") \in LinesSaid
  /\ Cout("file") \in Remarks /\ Cerr("file") \in Remarks
  /\ Cout("named") \in Remarks /\ Cerr("named") \in Remarks /\ Fout("named") \in Remarks
  /\ Nothing("cout_proxy") \in Remarks /\ Nothing("cerr_proxy") \in Remarks
  /\ Nothing("file_out_proxy") \in Remarks
<1>1. "file_out_proxy" \in Routes /\ "cout_proxy" \in Routes /\ "cerr_proxy" \in Routes
  BY DEF Routes
<1>2. Nothing("cout_proxy") \in Remarks /\ Nothing("cerr_proxy") \in Remarks
      /\ Nothing("file_out_proxy") \in Remarks
  BY <1>1, RemarksAre
<1>3. Cout("wrote_detail") \in LinesSaid /\ Cerr("unable_to_verify") \in LinesSaid
  <2>1. "wrote_detail" \in Labels \ {"nothing", "summary", "detail"}
        /\ "unable_to_verify" \in Labels \ {"nothing", "summary", "detail"}
    BY DEF Labels
  <2> QED BY <1>1, <2>1, LinesAre DEF Cout, Cerr
<1>4. Cout("file") \in Remarks /\ Cerr("file") \in Remarks
      /\ Cout("named") \in Remarks /\ Cerr("named") \in Remarks /\ Fout("named") \in Remarks
  <2>1. "file" \in Labels \ (Results \cup {"nothing"}) /\ "named" \in Labels \ (Results \cup {"nothing"})
    BY DEF Labels, Results
  <2> QED BY <1>1, <2>1, RemarksAre DEF Cout, Cerr, Fout
<1>5. ASSUME NEW a, NEW b PROVE SummaryLines(a, b) \in Seq(LinesSaid) \ {<< >>}
  <2> DEFINE f == Fout("detail")  c == Cout("summary")  e == Cerr("summary")
             n == Nothing("cerr_proxy")  m == Nothing("file_out_proxy")
             x == IF b = {} THEN n ELSE e  y == IF a \cup b = {} THEN m ELSE f
  <2>1. f \in LinesSaid /\ c \in LinesSaid /\ e \in LinesSaid /\ n \in LinesSaid /\ m \in LinesSaid
    BY <1>1, LinesAre
  <2>2. SummaryLines(a, b) = IF ~ file THEN <<e, c>> ELSE <<x, c, y>> BY DEF SummaryLines
  <2> HIDE DEF f, c, e, n, m
  <2>3. x \in LinesSaid /\ y \in LinesSaid BY <2>1
  <2> HIDE DEF x, y
  <2> QED BY <2>1, <2>2, <2>3
<1>6. \A a, b : ~ file => SummaryLines(a, b) = <<Cerr("summary"), Cout("summary")>>
  BY DEF SummaryLines
<1> QED BY <1>2, <1>3, <1>4, <1>5, <1>6

-----------------------------------------------------------------------------
(* Types, the queue and the script.                                         *)

\* Whatever the program does, its queue keeps the invariants proved of it.
LEMMA QueueKept ==
  ASSUME Queue, [Out!Next]_(Out!vars)
  PROVE  Queue'
<1>1. Out!IndInv' BY OutAssumption, Out!NextInductive DEF Queue
<1>2. Out!LossInv' BY OutAssumption, Out!LossInductive DEF Queue
<1>3. Out!Conservation' BY OutAssumption, Out!ConservationInductive DEF Queue, Out!LossInv
<1> QED BY <1>1, <1>2, <1>3 DEF Queue

\* The closing of a proxy is a step of the queue and takes one line of its thread.
LEMMA CloseKept ==
  ASSUME Queue, AppTypes, NEW p \in Producers, CloseProxy(p)
  PROVE  Queue' /\ Head(speech[p]) \in LinesSaid /\ Tail(speech[p]) \in Seq(LinesSaid)
<1> DEFINE l == Head(speech[p])
<1>1. l \in LinesSaid /\ Tail(speech[p]) \in Seq(LinesSaid)
  <2>1. speech[p] \in Seq(LinesSaid) /\ speech[p] # << >> BY DEF AppTypes, CloseProxy
  <2> QED BY <2>1, HeadTailProperties
<1>2. l.route \in Routes /\ l.blank \in BOOLEAN BY <1>1 DEF LinesSaid
<1>3. Out!Offer(p, l.route, l.blank) /\ made[p] < MaxItems /\ ppc[p] # "enqueue"
  BY DEF CloseProxy
<1> HIDE DEF l
<1>4. Out!IndInv' BY <1>2, <1>3, OutAssumption, Out!OfferInductive DEF Queue
<1>5. UNCHANGED <<queue, suppress, file, stop, accepted, mpc, paused, restarts, cpc, held, output>>
  BY <1>3 DEF Out!Offer, Out!mainVars, Out!consumerVars
<1>6. Out!LossInv'
  BY <1>5 DEF Queue, Out!LossInv, Out!LossEndsThread, Out!LossIsLastOfItsThread
<1>7. Out!Conservation'
  BY <1>5 DEF Queue, Out!Conservation, Out!Items
<1> QED BY <1>1, <1>4, <1>6, <1>7 DEF Queue, l

\* What every step that is no closing of a proxy does to the queue.
LEMMA StepsOfTheQueue ==
  ASSUME [Next]_vars, \A p \in Producers : ~ CloseProxy(p)
  PROVE  [Out!Next]_(Out!vars)
<1>2. ASSUME UNCHANGED outVars PROVE [Out!Next]_(Out!vars)
  BY <1>2 DEF outVars, Out!vars
<1>3. CASE UNCHANGED restVars
  <2>1. UNCHANGED outVars BY <1>3 DEF restVars
  <2> QED BY <1>2, <2>1
<1>4. CASE Pause BY <1>4 DEF Pause, Out!Next, Out!MainStep
<1>5. CASE Restart BY <1>5 DEF Restart, Out!Next, Out!MainStep
<1>6. CASE RestartWithFile BY <1>6 DEF RestartWithFile, Out!Next, Out!MainStep
<1>7. CASE \/ Parse \/ SayLines \/ TakePath \/ Announce \/ Execute \/ NoThread \/ WaitJoin \/ Summarise
           \/ (\E o \in Outcomes : RunFile(o) \/ RunNamedTest(o)) \/ Throw \/ Return
           \/ (\E w \in Workers : WorkerStep(w)) \/ (\E f \in Paths : RemoveFile(f)) \/ Terminated
  <2>1. UNCHANGED outVars
    BY <1>7 DEF Parse, SayLines, TakePath, Announce, Execute, NoThread, WaitJoin, Summarise, RunFile,
                RunNamedTest, Throw, Return, WorkerStep, RunTest, Report, PopNothing, RemoveFile,
                Terminated, restVars, vars
  <2> QED BY <1>2, <2>1
<1>8. CASE \/ QueueStep(Out!PauseStep) \/ QueueStep(Out!ConsumerStep) \/ QueueStep(Out!SpuriousWake)
           \/ QueueStep(Out!PauseSpuriousWake)
  BY <1>8 DEF QueueStep, Out!Next, Out!MainStep
<1>9. ASSUME NEW p \in Producers, QueueStep(Out!Enqueue(p)) \/ QueueStep(Out!NotifyOne(p))
      PROVE  [Out!Next]_(Out!vars)
  BY <1>9 DEF QueueStep, Out!Next, Out!ProducerStep
<1>10. Main \in Producers /\ \A w \in Workers : w \in Producers BY DEF Producers
<1>11. CASE MainThread
  <2>1. BeginWait \/ Relock => UNCHANGED restVars BY DEF BeginWait, Relock
  <2> QED BY <1>3, <1>4, <1>5, <1>6, <1>7, <1>8, <1>9, <1>10, <1>11, <2>1 DEF MainThread, MainStep, Talk
<1>12. CASE \E w \in Workers : Worker(w)
  <2>1. \A w : Leave(w) => UNCHANGED restVars BY DEF Leave
  <2> QED BY <1>3, <1>7, <1>9, <1>10, <1>12, <2>1 DEF Worker, Talk
<1>13. NotAllThreads \/ WakeSpuriously \/ UNCHANGED vars => UNCHANGED restVars
  BY DEF NotAllThreads, WakeSpuriously, vars
<1> QED BY <1>3, <1>7, <1>8, <1>11, <1>12, <1>13 DEF Next, OutputThread

\* The threads of the runner run only after the parsing.
LEMMA RunningFollows ==
  ASSUME Fresh, Running
  PROVE  Following
BY DEF Fresh, Running, Following

\* A statement of the script is begun.
LEMMA Stating ==
  ASSUME Prepared, NEW kind, kind # "throw", Statement(kind), todo' = Tail(todo),
         UNCHANGED <<parsed, stage>>
  PROVE  /\ Following /\ Following' /\ ~ Throwing /\ ~ Throwing' /\ InScript'
         /\ Begun' = Begun + 1 /\ Begun \in Nat /\ Begun < Len(TheScript) /\ Len(TheScript) \in Nat
         /\ Head(todo) = TheScript[Begun + 1] /\ Head(todo) \in Statements(Command)
         /\ todo' # << >> => Begun + 2 =< Len(TheScript) /\ Head(todo') = TheScript[Begun + 2]
         /\ Head(todo).do = kind /\ todo # << >> /\ UNCHANGED <<Command, TheScript, Battle, B, C>>
<1>1. Following BY RunningFollows DEF Prepared, Statement
<1>2. Following' BY <1>1 DEF Following
<1>3. todo # << >> /\ Head(todo).do = kind BY DEF Statement
<1>4. ~ Throwing BY <1>3 DEF Throwing
<1>5. UNCHANGED <<Command, TheScript, Battle, B, C>> BY DEF Command, TheScript, Battle, B, C
<1> QED BY <1>1, <1>2, <1>3, <1>4, <1>5, Advancing DEF Prepared

\* What main says with one statement.
LEMMA Speaks ==
  ASSUME AppTypes, NEW lines \in Seq(LinesSaid), SayNow(lines)
  PROVE  /\ speech' \in [Producers -> Seq(LinesSaid)] /\ speech'[Main] = lines
         /\ \A w \in Workers : speech'[w] = speech[w]
<1>1. Main \in Producers /\ Workers \subseteq Producers /\ Main \notin Workers
  BY ApplicationAssumption DEF Producers
<1>2. speech \in [Producers -> Seq(LinesSaid)] BY DEF AppTypes
<1> QED BY <1>1, <1>2 DEF SayNow

\* What each statement says.
LEMMA SaidByStatement ==
  ASSUME Prepared
  PROVE  /\ SayLines => Head(todo).lines \in Seq(Remarks) \ {<< >>}
         /\ \A o : /\ <<IF o = "pass" THEN Nothing("cerr_proxy") ELSE Cerr("file"),
                        IF o = "error" THEN Nothing("cout_proxy") ELSE Cout("file")>>
                            \in Seq(Remarks) \ {<< >>}
                   /\ When(file, <<Fout("named")>>)
                        \o <<IF o = "pass" THEN Nothing("cerr_proxy") ELSE Cerr("named"), Cout("named"),
                             IF o = "error" THEN Cerr("named") ELSE Nothing("cerr_proxy"), Cout("named")>>
                            \in Seq(Remarks) \ {<< >>}
         /\ <<Cerr("named"), Nothing("cout_proxy")>> \in Seq(Remarks) \ {<< >>}
<1>1. SayLines => Head(todo).lines \in Seq(Remarks) \ {<< >>}
  <2> SUFFICES ASSUME SayLines PROVE Head(todo).lines \in Seq(Remarks) \ {<< >>}
    OBVIOUS
  <2>1. Head(todo).do = "say" BY DEF SayLines, Statement
  <2>2. Head(todo) \in Statements(Command)
    <3>1. Following BY RunningFollows DEF Prepared, SayLines, Statement
    <3>2. todo # << >> /\ ~ Throwing BY <2>1 DEF SayLines, Statement, Throwing
    <3> QED BY <3>1, <3>2, InOrOut DEF Prepared
  <2> QED BY <2>1, <2>2, StatementsAre
<1> DEFINE n == Nothing("cerr_proxy")  m == Nothing("cout_proxy")  cf == Cout("file")  ef == Cerr("file")
           cn == Cout("named")  en == Cerr("named")  fn == Fout("named")
<1>2. n \in Remarks /\ m \in Remarks /\ cf \in Remarks /\ ef \in Remarks /\ cn \in Remarks
      /\ en \in Remarks /\ fn \in Remarks
  BY StatementLines
<1> HIDE DEF n, m, cf, ef, cn, en, fn
<1>3. ASSUME NEW o
      PROVE  <<IF o = "pass" THEN n ELSE ef, IF o = "error" THEN m ELSE cf>> \in Seq(Remarks) \ {<< >>}
  <2> DEFINE x == IF o = "pass" THEN n ELSE ef  y == IF o = "error" THEN m ELSE cf
  <2>1. x \in Remarks /\ y \in Remarks BY <1>2
  <2> HIDE DEF x, y
  <2>2. <<x, y>> \in Seq(Remarks) \ {<< >>} BY <2>1
  <2> QED BY <2>2 DEF x, y
<1>4. ASSUME NEW o
      PROVE  When(file, <<fn>>) \o <<IF o = "pass" THEN n ELSE en, cn, IF o = "error" THEN en ELSE n, cn>>
               \in Seq(Remarks) \ {<< >>}
  <2> DEFINE u == When(file, <<fn>>)  x == IF o = "pass" THEN n ELSE en
             y == IF o = "error" THEN en ELSE n  v == <<x, cn, y, cn>>
  <2>1. x \in Remarks /\ y \in Remarks BY <1>2
  <2>2. u \in Seq(Remarks)
    <3>1. <<fn>> \in Seq(Remarks) BY <1>2
    <3> QED BY <3>1, WhenIs
  <2> HIDE DEF x, y, u
  <2>3. v \in Seq(Remarks) /\ Len(v) = 4 BY <1>2, <2>1
  <2> HIDE DEF v
  <2>4. u \o v \in Seq(Remarks) /\ Joined(u \o v, u, v) BY <2>2, <2>3, Joining, Zenon
  <2>5. Len(u \o v) # 0 BY <2>3, <2>4 DEF Joined
  <2>6. u \o v # << >> BY <2>5
  <2> QED BY <2>4, <2>6 DEF u, v, x, y
<1>5. <<en, m>> \in Seq(Remarks) \ {<< >>} BY <1>2
<1> QED BY <1>1, <1>3, <1>4, <1>5 DEF n, m, cf, ef, cn, en, fn

\* Every step but the parsing is one of a program that runs.
LEMMA StepRuns ==
  ASSUME [Next]_vars
  PROVE  Parse \/ UNCHANGED restVars \/ Running
BY DEF Next, MainThread, Worker, OutputThread, Terminated, MainStep, WorkerStep, Talk, Pause,
  vars, NotAllThreads, BeginWait, Relock, WakeSpuriously, Leave, NoThread,
  Restart, RestartWithFile, SayLines, TakePath, Announce, Execute, WaitJoin, Summarise, RunFile,
  RunNamedTest, Throw, Return, CloseProxy, QueueStep, RunTest, Report, PopNothing, RemoveFile,
  Statement

\* The step of an operation, seen from where it is called.
OwnStep == Parse \/ MainStep \/ (\E w \in Workers : WorkerStep(w)) \/ (\E f \in Paths : RemoveFile(f))
QueueMoves ==
  \/ \E p \in Producers : Out!Enqueue(p) \/ Out!NotifyOne(p)
  \/ Out!PauseStep \/ Out!ConsumerStep \/ Out!SpuriousWake \/ Out!PauseSpuriousWake

\* A step is one of the program, the closing of a proxy, one of the queue or none.
LEMMA StepClasses ==
  ASSUME [Next]_vars
  PROVE  \/ OwnStep
         \/ \E p \in Producers : CloseProxy(p)
         \/ QueueStep(QueueMoves)
         \/ Waiting
<1>1. Main \in Producers /\ \A w \in Workers : w \in Producers BY DEF Producers
<1>2. ASSUME NEW p \in Producers, Talk(p)
      PROVE  (\E q \in Producers : CloseProxy(q)) \/ QueueStep(QueueMoves)
  BY <1>2 DEF Talk, QueueStep, QueueMoves
<1>3. BeginWait \/ Relock \/ NotAllThreads \/ WakeSpuriously \/ UNCHANGED vars => Waiting
  BY DEF BeginWait, Relock, NotAllThreads, WakeSpuriously, vars, Waiting
<1>4. \A w \in Workers : Leave(w) => Waiting BY DEF Leave, Waiting
<1>5. CASE MainThread
  BY <1>1, <1>2, <1>3, <1>5 DEF MainThread, OwnStep, QueueStep, QueueMoves
<1>6. CASE \E w \in Workers : Worker(w)
  BY <1>1, <1>2, <1>4, <1>6 DEF Worker, OwnStep
<1>7. CASE OutputThread \/ QueueStep(Out!SpuriousWake) \/ QueueStep(Out!PauseSpuriousWake)
  BY <1>7 DEF OutputThread, QueueStep, QueueMoves
<1>8. CASE Parse \/ (\E f \in Paths : RemoveFile(f))
  BY <1>8 DEF OwnStep
<1>9. CASE Terminated BY <1>3, <1>9 DEF Terminated
<1> QED BY <1>3, <1>5, <1>6, <1>7, <1>8, <1>9 DEF Next

\* The parser yields switches.
LEMMA ParsedSwitches ==
  ASSUME AppTypes, Parse
  PROVE  ~ Fails(parsed') => parsed'.switches \in Seq(Switch)
<1>1. argv \in Seq(Arguments) BY ApplicationAssumption DEF AppTypes
<1>2. LET normal == normalize_and_stringify_console_args(argv)
      IN  parsed' = IF Fails(normal) THEN normal ELSE process_input(normal.args, files)
  BY DEF Parse
<1> QED BY <1>1, <1>2, CommandLineIsRead

\* Every step keeps the types.
LEMMA TypesKept ==
  ASSUME Prepared, [Next]_vars
  PROVE  AppTypes'
<1> DEFINE Rest == /\ argv' \in CommandLines /\ stage' \in {"parsing", "parsed", "running", "exit_0", "exit_minus_1"}
                   /\ files' \subseteq Paths
           Speeches == speech' \in [Producers -> Seq(LinesSaid)] /\ spoken' \in [Producers -> Seq(Labels)]
           Works == /\ doing' \in [Workers -> Tests \cup {NoTest}] /\ last' \subseteq Workers
                    /\ phase' \in {"idle", "running", "returned"} /\ reported' \subseteq Tests
           Marks == path' \in BOOLEAN /\ detail' \in BOOLEAN
<1>1. Main \in Producers /\ \A w \in Workers : w \in Producers BY DEF Producers
<1>2. AppTypes BY DEF Prepared
<1>3. CASE UNCHANGED restVars
  BY <1>2, <1>3 DEF restVars, mainVars, workVars, batteryVars, AppTypes
<1>4. CASE QueueStep(QueueMoves)
  BY <1>2, <1>4 DEF QueueStep, mainVars, workVars, batteryVars, AppTypes
<1>5. CASE \E p \in Producers : CloseProxy(p)
  <2>1. PICK p \in Producers : CloseProxy(p) BY <1>5
  <2>2. Tail(speech[p]) \in Seq(LinesSaid) /\ Head(speech[p]).what \in Labels
    BY <1>2, <2>1, CloseKept DEF Prepared, LinesSaid
  <2>3. speech' = [speech EXCEPT ![p] = Tail(speech[p])]
        /\ spoken' = [spoken EXCEPT ![p] = Append(spoken[p], Head(speech[p]).what)]
    BY <2>1 DEF CloseProxy
  <2>4. Append(spoken[p], Head(speech[p]).what) \in Seq(Labels)
    <3>1. spoken[p] \in Seq(Labels) BY <1>2 DEF AppTypes
    <3> QED BY <2>2, <3>1, AppendProperties
  <2>5. Speeches BY <1>2, <2>2, <2>3, <2>4 DEF AppTypes
  <2>6. Rest /\ Works /\ Marks
    BY <1>2, <2>1 DEF CloseProxy, mainVars, workVars, batteryVars, AppTypes
  <2> QED BY <2>5, <2>6 DEF AppTypes
<1>6. CASE Parse
  BY <1>2, <1>6 DEF Parse, workVars, batteryVars, AppTypes
<1>7. CASE Pause \/ Restart \/ RestartWithFile \/ TakePath
  <2>1. file \in BOOLEAN BY DEF Prepared, Queue, Out!IndInv, Out!TypeOK
  <2> QED
    BY <1>2, <1>7, <2>1 DEF Pause, Restart, RestartWithFile, TakePath, Advance, Silently,
           workVars, batteryVars, AppTypes
<1>8. CASE Execute \/ NoThread \/ WaitJoin
  BY <1>2, <1>8 DEF Execute, NoThread, WaitJoin, Advance, AdvanceOrThrow, Silently, workVars, AppTypes,
         batteryVars, Battery!Start, Battery!Return
<1>9. ASSUME NEW lines \in Seq(LinesSaid), SayNow(lines),
             UNCHANGED <<argv, stage, files, spoken, batteryVars, workVars, path, detail>>
      PROVE  AppTypes'
  <2>1. speech' \in [Producers -> Seq(LinesSaid)] BY <1>2, <1>9, Speaks
  <2> QED BY <1>2, <1>9, <2>1 DEF batteryVars, workVars, AppTypes
<1>10. \A lines : lines \in Seq(Remarks) \ {<< >>} => lines \in Seq(LinesSaid)
  <2>1. Remarks \subseteq LinesSaid BY LinesAre
  <2> QED BY <2>1, SeqMonotonic
<1>11. CASE SayLines
  <2>1. Head(todo).lines \in Seq(LinesSaid) BY <1>10, <1>11, SaidByStatement
  <2> QED BY <1>9, <1>11, <2>1 DEF SayLines, Advance
<1>12. CASE Announce
  <2> DEFINE lines == IF path /\ detail THEN <<Cout("wrote_detail")>> ELSE <<Cerr("unable_to_verify")>>
  <2>1. lines \in Seq(LinesSaid)
    <3>1. Cout("wrote_detail") \in LinesSaid /\ Cerr("unable_to_verify") \in LinesSaid
      BY StatementLines
    <3> QED BY <3>1
  <2>2. SayNow(lines) /\ UNCHANGED <<argv, stage, files, spoken, batteryVars, workVars, path, detail>>
    BY <1>12 DEF Announce, Advance
  <2> HIDE DEF lines
  <2> QED BY <1>9, <2>1, <2>2
<1>13. CASE Summarise
  <2> DEFINE lines == SummaryLines(Ended("pass"), Ended("fail"))
  <2>1. lines \in Seq(LinesSaid) BY StatementLines
  <2>2. SayNow(lines) /\ UNCHANGED <<argv, stage, files, spoken, batteryVars, workVars, path, detail>>
    BY <1>13 DEF Summarise, Advance
  <2> HIDE DEF lines
  <2> QED BY <1>9, <2>1, <2>2
<1>14. ASSUME NEW o \in Outcomes, RunFile(o) PROVE AppTypes'
  <2> DEFINE lines == <<IF o = "pass" THEN Nothing("cerr_proxy") ELSE Cerr("file"),
                        IF o = "error" THEN Nothing("cout_proxy") ELSE Cout("file")>>
  <2>1. lines \in Seq(LinesSaid) BY <1>10, SaidByStatement
  <2>2. SayNow(lines) /\ UNCHANGED <<argv, stage, files, spoken, batteryVars, workVars, path, detail>>
    BY <1>14 DEF RunFile, AdvanceOrThrow
  <2> HIDE DEF lines
  <2> QED BY <1>9, <2>1, <2>2
<1>15. ASSUME NEW o \in Outcomes, RunNamedTest(o) PROVE AppTypes'
  <2>1. PICK lines \in Seq(Remarks) \ {<< >>} : SayNow(lines)
    BY <1>15, SaidByStatement DEF RunNamedTest
  <2>2. UNCHANGED <<argv, stage, files, spoken, batteryVars, workVars, path, detail>>
    BY <1>15 DEF RunNamedTest, Advance
  <2> QED BY <1>9, <1>10, <2>1, <2>2
<1>16. CASE Throw
  <2>1. Following BY <1>16, RunningFollows DEF Prepared, Throw, Statement
  <2>2. Throwing BY <1>16 DEF Throw, Statement, Throwing
  <2>3. Head(todo).code \in {"exit_0", "exit_minus_1"}
    BY <2>1, <2>2, InOrOut, ThrowerIs DEF Prepared
  <2> QED BY <1>2, <1>16, <2>3 DEF Throw, workVars, batteryVars, AppTypes
<1>17. CASE Return
  BY <1>2, <1>17 DEF Return, workVars, batteryVars, AppTypes
<1>18. ASSUME NEW w \in Workers, NEW t \in Tests, NEW o \in TestOutcomes, RunTest(w, t, o)
       PROVE  AppTypes'
  <2>1. TestLines(o) \in Seq(LinesSaid)
    <3>1. Talks \subseteq LinesSaid BY DEF Talks
    <3> QED BY <3>1, WorkerLines, SeqMonotonic
  <2>2. /\ speech' = [speech EXCEPT ![w] = TestLines(o)] /\ doing' = [doing EXCEPT ![w] = t]
        /\ last' = last \/ last' = last \cup {w}
        /\ UNCHANGED <<mainVars, files, spoken, phase, reported>>
    BY <1>18 DEF RunTest, Battery!RunTest
  <2>3. speech' \in [Producers -> Seq(LinesSaid)] BY <1>1, <1>2, <2>1, <2>2 DEF AppTypes
  <2> QED BY <1>2, <2>2, <2>3 DEF mainVars, AppTypes
<1>19. ASSUME NEW w \in Workers, Report(w) PROVE AppTypes'
  <2>1. doing[w] \in Tests BY <1>2, <1>19 DEF AppTypes, Report
  <2>2. /\ doing' = [doing EXCEPT ![w] = NoTest] /\ reported' = reported \cup {doing[w]}
        /\ UNCHANGED <<mainVars, files, speech, spoken, phase, last>>
    BY <1>19 DEF Report, Battery!Report
  <2> QED BY <1>2, <2>1, <2>2 DEF mainVars, AppTypes
<1>20. ASSUME NEW w \in Workers, PopNothing(w) PROVE AppTypes'
  <2>1. <<Cerr("test")>> \in Seq(LinesSaid)
    <3>1. Talks \subseteq LinesSaid BY DEF Talks
    <3> QED BY <3>1, WorkerLines, SeqMonotonic
  <2>2. /\ speech' = [speech EXCEPT ![w] = <<Cerr("test")>>] /\ last' = last \cup {w}
        /\ UNCHANGED <<mainVars, files, spoken, phase, reported, doing>>
    BY <1>20 DEF PopNothing, batteryVars
  <2>3. speech' \in [Producers -> Seq(LinesSaid)] BY <1>1, <1>2, <2>1, <2>2 DEF AppTypes
  <2> QED BY <1>2, <2>2, <2>3 DEF mainVars, AppTypes
<1>21. CASE \E f \in Paths : RemoveFile(f)
  BY <1>2, <1>21 DEF RemoveFile, mainVars, workVars, batteryVars, AppTypes
<1>22. CASE MainStep
  BY <1>7, <1>8, <1>11, <1>12, <1>13, <1>14, <1>15, <1>16, <1>17, <1>22 DEF MainStep
<1>23. CASE \E w \in Workers : WorkerStep(w)
  BY <1>18, <1>19, <1>20, <1>23 DEF WorkerStep
<1> QED BY <1>3, <1>4, <1>5, <1>6, <1>21, <1>22, <1>23, StepClasses DEF OwnStep, Waiting

\* Every step leaves the main thread in its script or out of it by an exception.
LEMMA ScriptKept ==
  ASSUME Prepared, [Next]_vars
  PROVE  InScript'
<1>1. InScript /\ Fresh BY DEF Prepared
<1>2. ASSUME UNCHANGED <<parsed, todo>>, Following' => Following PROVE InScript'
  BY <1>1, <1>2 DEF InScript, Following, Command, TheScript, Begun
<1>3. ASSUME Running PROVE Following BY <1>1, <1>3, RunningFollows
<1>4. CASE Parse
  <2>1. CASE Fails(parsed') BY <2>1 DEF InScript, Following
  <2>2. CASE ~ Fails(parsed')
    <3>1. Command' \in Seq(Switch) /\ todo' = TheScript'
      BY <1>4, <2>2, ParsedSwitches DEF Prepared, Command, TheScript, Parse
    <3>2. TheScript' \in Seq(Statements(Command')) /\ Len(TheScript') \in Nat
      <4>1. Len(Command') \in Nat BY <3>1, LenProperties
      <4> QED BY <4>1, ScriptIs DEF TheScript
    <3>3. Begun' = 0 BY <3>1, <3>2 DEF Begun
    <3>4. \A n \in 1..Len(todo') : todo'[n] = TheScript'[Begun' + n]
      <4> TAKE n \in 1..Len(todo')
      <4>1. Begun' + n = n BY <3>1, <3>2, <3>3
      <4> QED BY <3>1, <4>1
    <3>5. Len(todo') =< Len(TheScript') BY <3>1, <3>2
    <3> QED BY <3>1, <3>2, <3>4, <3>5 DEF InScript
  <2> QED BY <2>1, <2>2
<1>5. CASE QueueStep(QueueMoves) \/ (\E p \in Producers : CloseProxy(p)) \/ UNCHANGED restVars
           \/ Throw \/ Return \/ (\E f \in Paths : RemoveFile(f))
  <2>1. UNCHANGED <<parsed, todo>>
    BY <1>5 DEF QueueStep, CloseProxy, restVars, mainVars, Throw, Return, RemoveFile
  <2>2. UNCHANGED <<parsed, stage>> \/ Running
    BY <1>5 DEF QueueStep, CloseProxy, restVars, mainVars, Throw, Return, RemoveFile, Statement
  <2>3. Following' => Following BY <1>3, <2>2 DEF Following
  <2> QED BY <1>2, <2>1, <2>3
<1>6. CASE \E w \in Workers : WorkerStep(w)
  <2>1. UNCHANGED <<parsed, todo>> /\ Running
    BY <1>6 DEF WorkerStep, RunTest, Report, PopNothing, mainVars
  <2> QED BY <1>2, <1>3, <2>1
<1>7. ASSUME NEW kind, kind # "throw", Statement(kind), Advance
      PROVE  InScript'
  BY <1>7, Stating DEF Advance
<1>8. CASE \/ Pause \/ Restart \/ RestartWithFile \/ SayLines \/ TakePath \/ Announce
           \/ Execute \/ WaitJoin \/ Summarise \/ \E o \in Outcomes : RunNamedTest(o)
  BY <1>7, <1>8 DEF Pause, Restart, RestartWithFile, SayLines, TakePath, Announce, Execute,
                    WaitJoin, Summarise, RunNamedTest
<1>9. ASSUME NEW o \in Outcomes, RunFile(o) PROVE InScript'
  <2>1. Statement("run_file") /\ UNCHANGED <<parsed, stage>> BY <1>9 DEF RunFile, AdvanceOrThrow
  <2>2. CASE o = "pass"
    <3>1. todo' = Tail(todo) BY <1>9, <2>2 DEF RunFile, AdvanceOrThrow
    <3> QED BY <2>1, <3>1, Stating
  <2>3. CASE o # "pass"
    <3>1. \E code \in {"exit_0", "exit_minus_1"} : todo' = <<Thrower(code)>>
      BY <1>9, <2>3 DEF RunFile, AdvanceOrThrow, Thrower
    <3>2. Following BY <2>1, <1>3 DEF Statement
    <3>3. Command' \in Seq(Switch) BY <1>1, <2>1, <3>2 DEF InScript, Command
    <3> QED BY <3>1, <3>3 DEF InScript
  <2> QED BY <2>2, <2>3
<1>10. CASE NoThread
  <2>1. Statement("execute") /\ UNCHANGED <<parsed, stage>> BY <1>10 DEF NoThread, AdvanceOrThrow
  <2>2. todo' = <<Thrower("exit_minus_1")>> BY <1>10 DEF NoThread, AdvanceOrThrow, Thrower
  <2>3. Following BY <2>1, <1>3 DEF Statement
  <2>4. Command' \in Seq(Switch) BY <1>1, <2>1, <2>3 DEF InScript, Command
  <2> QED BY <2>2, <2>4 DEF InScript
<1> QED BY <1>4, <1>5, <1>6, <1>8, <1>9, <1>10, StepClasses DEF OwnStep, Waiting, MainStep

\* Nothing is said before the command line is accepted.
LEMMA FreshKept ==
  ASSUME Prepared, [Next]_vars
  PROVE  Fresh'
<1>1. CASE UNCHANGED restVars
  BY <1>1 DEF Prepared, Fresh, restVars, outVars, batteryVars, workVars, mainVars, Following
<1>2. CASE Parse
  BY <1>2 DEF Prepared, Fresh, Parse, outVars, batteryVars, workVars, Following
<1>3. CASE Running
  <2>1. Following BY <1>3, RunningFollows DEF Prepared
  <2>2. (parsed' = parsed /\ stage' # "parsing") \/ UNCHANGED restVars \/ Parse
    <3>1. CASE Throw
      <4>1. Throwing BY <3>1 DEF Throw, Statement, Throwing
      <4>2. Head(todo).code \in {"exit_0", "exit_minus_1"}
        BY <2>1, <4>1, InOrOut, ThrowerIs DEF Prepared
      <4> QED BY <3>1, <4>2 DEF Throw
    <3>2. CASE MainStep /\ ~ Throw
      BY <1>3, <3>2 DEF MainStep, Pause, Restart, RestartWithFile, SayLines, TakePath, Announce,
        Execute, NoThread, WaitJoin, Summarise, RunNamedTest, RunFile, Return, Advance, AdvanceOrThrow,
        Running
    <3>3. CASE QueueStep(QueueMoves) \/ (\E p \in Producers : CloseProxy(p))
               \/ (\E f \in Paths : RemoveFile(f)) \/ \E w \in Workers : WorkerStep(w)
      BY <1>3, <3>3 DEF QueueStep, CloseProxy, RemoveFile, WorkerStep, RunTest, Report,
                        PopNothing, mainVars, Running
    <3> QED BY <3>1, <3>2, <3>3, StepClasses DEF OwnStep, Waiting
  <2>3. CASE parsed' = parsed /\ stage' # "parsing"
    BY <2>1, <2>3 DEF Following, Fresh
  <2> QED BY <1>1, <1>2, <2>2, <2>3
<1> QED BY <1>1, <1>2, <1>3, StepRuns

\* What the queue does by itself.
LEMMA MovesAre ==
  ASSUME Queue, QueueMoves
  PROVE  /\ UNCHANGED <<suppress, made>>
         /\ \A p \in Producers : /\ ppc'[p] = "enqueue" => ppc[p] = "enqueue"
                                 /\ ppc'[p] # "idle" => ppc[p] # "idle"
<1>1. ppc \in [Producers -> Out!ProducerPCs] BY DEF Queue, Out!IndInv, Out!TypeOK
<1>2. ASSUME NEW q \in Producers, Out!Enqueue(q) \/ Out!NotifyOne(q)
      PROVE  /\ UNCHANGED <<suppress, made>>
             /\ \A p \in Producers : /\ ppc'[p] = "enqueue" => ppc[p] = "enqueue"
                                     /\ ppc'[p] # "idle" => ppc[p] # "idle"
  BY <1>1, <1>2 DEF Out!Enqueue, Out!Push, Out!NotifyOne
<1>3. CASE Out!PauseStep \/ Out!ConsumerStep \/ Out!SpuriousWake \/ Out!PauseSpuriousWake
  <2>1. UNCHANGED <<suppress, made, ppc>>
    BY <1>3 DEF Out!PauseStep, Out!PauseRelock, Out!PauseRequestStop, Out!PauseNotify, Out!PauseJoin,
         Out!ConsumerStep, Out!LoopTop, Out!LockAndLook, Out!Block, Out!NotifyEmpty, Out!CheckStop,
         Out!Write, Out!WriteFile, Out!SpuriousWake, Out!PauseSpuriousWake, Out!MainUnchanged,
         Out!ConsumerUnchanged, Out!producerVars
  <2> QED BY <2>1
<1> QED BY <1>2, <1>3 DEF QueueMoves

\* Whoever has left thread_loop stays out of it.
LEMMA DepartedKept ==
  ASSUME Prepared, [Next]_vars
  PROVE  Departed'
<1>1. Main \in Producers /\ Main \notin Workers /\ \A w \in Workers : w \in Producers
  BY ApplicationAssumption DEF Producers
<1>2. /\ speech \in [Producers -> Seq(LinesSaid)] /\ ppc \in [Producers -> Out!ProducerPCs]
      /\ doing \in [Workers -> Tests \cup {NoTest}] /\ Departed
  BY DEF Prepared, AppTypes, Queue, Out!IndInv, Out!TypeOK
<1>3. CASE Waiting
  <2>1. UNCHANGED <<doing, speech, ppc>> BY <1>3 DEF Waiting, restVars, outVars
  <2>2. \A w \in Workers : Quiet(w) => Quiet(w)' BY <2>1 DEF Quiet
  <2>3. gone' = gone \/ \E w \in Workers : Quiet(w) /\ gone' = gone \cup {w} BY <1>3 DEF Waiting
  <2> QED BY <1>2, <2>2, <2>3 DEF Departed
<1>4. ASSUME gone' = gone,
             \A w \in Workers : w \in gone /\ Quiet(w) =>
               doing'[w] = doing[w] /\ speech'[w] = speech[w] /\ (ppc'[w] # "idle" => ppc[w] # "idle")
      PROVE  Departed'
  BY <1>2, <1>4 DEF Departed, Quiet
<1>5. CASE QueueStep(QueueMoves)
  <2>1. UNCHANGED <<gone, doing, speech>> BY <1>5 DEF QueueStep, workVars
  <2>2. \A w \in Workers : ppc'[w] # "idle" => ppc[w] # "idle"
    BY <1>1, <1>5, MovesAre DEF QueueStep, Prepared
  <2> QED BY <1>4, <2>1, <2>2
<1>6. CASE \E p \in Producers : CloseProxy(p)
  <2>1. PICK p \in Producers : CloseProxy(p) BY <1>6
  <2>2. /\ UNCHANGED <<gone, doing>> /\ speech[p] # << >>
        /\ \A q \in Producers \ {p} : speech'[q] = speech[q] /\ ppc'[q] = ppc[q]
    BY <1>2, <2>1 DEF CloseProxy, workVars, Out!Offer
  <2>3. \A w \in Workers : Quiet(w) => w \in Producers \ {p} BY <1>1, <2>2 DEF Quiet
  <2> QED BY <1>4, <2>2, <2>3
<1>7. CASE \E w \in Workers : WorkerStep(w)
  <2>1. PICK w \in Workers : WorkerStep(w) BY <1>7
  <2>2. /\ UNCHANGED <<gone, ppc>> /\ (w \notin gone \/ ~ Quiet(w))
        /\ \A v \in Workers \ {w} : doing'[v] = doing[v] /\ speech'[v] = speech[v]
    BY <1>1, <1>2, <2>1 DEF WorkerStep, RunTest, Report, PopNothing, outVars, Quiet
  <2> QED BY <1>4, <2>2
<1>8. \A lines : SayNow(lines) => \A w \in Workers : speech'[w] = speech[w]
  BY <1>1, <1>2 DEF SayNow
<1>9. CASE \/ SayLines \/ Announce \/ Summarise \/ \E o \in Outcomes : RunFile(o) \/ RunNamedTest(o)
  <2>1. UNCHANGED <<gone, doing, ppc>> /\ \E lines : SayNow(lines)
    BY <1>9 DEF SayLines, Announce, Summarise, RunFile, RunNamedTest, workVars, outVars
  <2> QED BY <1>4, <1>8, <2>1
<1>10. CASE \/ Parse \/ Pause \/ Restart \/ RestartWithFile \/ TakePath \/ Execute \/ NoThread
            \/ WaitJoin \/ Throw \/ Return \/ \E f \in Paths : RemoveFile(f)
  <2>1. UNCHANGED <<gone, doing, speech, ppc>>
    BY <1>10 DEF Parse, Pause, Restart, RestartWithFile, TakePath, Execute, NoThread, WaitJoin, Throw,
      Return, RemoveFile, Silently, workVars, outVars, Out!PauseEnter, Out!RestartWithSameFile,
      Out!Restart, Out!MainUnchanged, Out!producerVars
  <2> QED BY <1>4, <2>1
<1> QED BY <1>3, <1>5, <1>6, <1>7, <1>9, <1>10, StepClasses DEF OwnStep, MainStep

\* Prepared is inductive.
LEMMA PreparedInductive == Prepared /\ [Next]_vars => Prepared'
<1> SUFFICES ASSUME Prepared, [Next]_vars PROVE Prepared'
  OBVIOUS
<1>1. Queue'
  <2>1. CASE \E p \in Producers : CloseProxy(p) BY <2>1, CloseKept DEF Prepared
  <2>2. CASE ~ \E p \in Producers : CloseProxy(p)
    BY <2>2, StepsOfTheQueue, QueueKept DEF Prepared
  <2> QED BY <2>1, <2>2
<1> QED BY <1>1, TypesKept, ScriptKept, FreshKept, DepartedKept DEF Prepared

\* Prepared holds at first.
LEMMA PreparedFirst == Init => Prepared
<1> SUFFICES ASSUME Init PROVE Prepared
  OBVIOUS
<1>1. Queue
  <2>1. Out!IndInv BY Out!InitInductive, OutAssumption DEF Init
  <2>2. Out!LossInv
    BY DEF Init, Out!Init, Out!LossInv, Out!LossEndsThread, Out!LossIsLastOfItsThread
  <2>3. Out!Conservation BY DEF Init, Out!Init, Out!Conservation, Out!Items
  <2> QED BY <2>1, <2>2, <2>3 DEF Queue
<1>2. AppTypes
  <2>1. \A S : << >> \in Seq(S) BY EmptySeq
  <2> QED BY <2>1 DEF Init, Battery!Init, AppTypes
<1>3. ~ Following BY DEF Init, Following
<1>4. Fresh
  BY DEF Init, Out!Init, Battery!Init, Fresh
<1>5. Departed BY DEF Init, Departed
<1> QED BY <1>1, <1>2, <1>3, <1>4, <1>5 DEF Prepared, InScript

-----------------------------------------------------------------------------
(* Where the statements are.                                                *)

\* In a script with a battery, b statements before it, c before the announcement.
StatedAt(S, b, c, n) ==
  /\ S[n].do = "execute" <=> n = b + 5
  /\ S[n].do = "wait_join" <=> n = b + 6
  /\ S[n].do = "summarise" <=> n = b + 7
  /\ S[n].do = "take_path" <=> n = c + 1
  /\ S[n].do = "announce" <=> n = c + 4
  /\ S[n].do = "restart_with_file" <=> n = b + 2
  /\ S[n].do = "restart" => n =< b \/ n = c + 3
  /\ S[n].do = "pause" => n =< b \/ n \in {b + 1, c + 2, Len(S)}
  /\ S[n].do = "pause" /\ n < Len(S) => S[n + 1].do \in Restarts
  /\ S[n].do \in {"run_file", "run_test"} => n =< b \/ n >= c + 5

\* In a script with a battery each kind of statement is at its place.
LEMMA BattlePositions ==
  ASSUME NEW command, NEW S, NEW b \in Nat, NEW c \in Nat, BattleScript(command, S, b, c),
         NEW n \in 1..Len(S)
  PROVE  StatedAt(S, b, c, n)
<1> DEFINE At == StatedAt(S, b, c, n)
           kind == S[n].do
<1>1. \A d : Do(d).do = d BY DEF Do
<1>2. \A l : Say(l).do = "say" BY DEF Say
<1>3. \A s \in Talking(command) : s.do \in {"say", "run_file", "run_test"} BY TalkingIs
<1>4. (c = b + 7 \/ c = b + 8) /\ Len(S) >= c + 5 /\ Len(S) \in Nat
  BY LenProperties DEF BattleScript
<1>5. CASE n =< b
  <2>1. n \in 1..b BY <1>5
  <2>2. \/ S[n] \in Talking(command)
        \/ S[n] = Do("restart")
        \/ S[n] = Do("pause") /\ S[n + 1] = Do("restart")
    BY <2>1 DEF BattleScript, Beginning
  <2>3. /\ n # b + 5 /\ n # b + 6 /\ n # b + 7 /\ n # c + 1 /\ n # c + 4 /\ n # b + 2
    BY <1>4, <1>5
  <2>4. /\ kind \in {"say", "run_file", "run_test", "restart", "pause"}
        /\ kind = "pause" => S[n + 1].do = "restart"
    BY <1>1, <1>3, <2>2
  <2> QED BY <1>5, <2>3, <2>4 DEF StatedAt, Restarts
<1>6. CASE n >= c + 5 /\ n < Len(S)
  <2>1. n \in (c + 5)..(Len(S) - 1) BY <1>4, <1>6
  <2>2. S[n] \in Talking(command) BY <2>1 DEF BattleScript
  <2>3. /\ n # b + 5 /\ n # b + 6 /\ n # b + 7 /\ n # c + 1 /\ n # c + 4 /\ n # b + 2
    BY <1>4, <1>6
  <2>4. kind \in {"say", "run_file", "run_test"} BY <1>3, <2>2
  <2> QED BY <1>6, <2>3, <2>4 DEF StatedAt
<1>7. CASE n = Len(S)
  <2>1. S[n] = Do("pause") BY <1>7 DEF BattleScript
  <2>2. /\ n # b + 5 /\ n # b + 6 /\ n # b + 7 /\ n # c + 1 /\ n # c + 4 /\ n # b + 2
    BY <1>4, <1>7
  <2>3. kind = "pause" BY <1>1, <2>1
  <2> QED BY <1>7, <2>2, <2>3 DEF StatedAt
<1>8. CASE n \in {b + 1, b + 2, b + 3, b + 4, b + 5, b + 6, b + 7}
  <2>1. /\ S[b + 1] = Do("pause") /\ S[b + 2] = Do("restart_with_file")
        /\ S[b + 3] = Say(<<Cout("threads")>>) /\ S[b + 4] = Say(<<Nothing("cerr_proxy")>>)
        /\ S[b + 5] = Do("execute") /\ S[b + 6] = Do("wait_join") /\ S[b + 7] = Do("summarise")
    BY DEF BattleScript
  <2>2. /\ S[b + 1].do = "pause" /\ S[b + 2].do = "restart_with_file" /\ S[b + 3].do = "say"
        /\ S[b + 4].do = "say" /\ S[b + 5].do = "execute" /\ S[b + 6].do = "wait_join"
        /\ S[b + 7].do = "summarise"
    BY <1>1, <1>2, <2>1
  <2>4. n \in {b + 1, b + 2, b + 3, b + 4, b + 5, b + 6, b + 7} BY <1>8
  <2>5. n # c + 1 /\ n # c + 4 BY <1>4, <1>8
  <2>6. CASE n = b + 1 BY <1>4, <2>2, <2>5, <2>6 DEF StatedAt, Restarts
  <2>7. CASE n = b + 2 BY <1>4, <2>2, <2>5, <2>7 DEF StatedAt
  <2>8. CASE n = b + 3 BY <1>4, <2>2, <2>5, <2>8 DEF StatedAt
  <2>9. CASE n = b + 4 BY <1>4, <2>2, <2>5, <2>9 DEF StatedAt
  <2>10. CASE n = b + 5 BY <1>4, <2>2, <2>5, <2>10 DEF StatedAt
  <2>11. CASE n = b + 6 BY <1>4, <2>2, <2>5, <2>11 DEF StatedAt
  <2>12. CASE n = b + 7 BY <1>4, <2>2, <2>5, <2>12 DEF StatedAt
  <2> QED BY <2>4, <2>6, <2>7, <2>8, <2>9, <2>10, <2>11, <2>12
<1>9. CASE n = b + 8 /\ c = b + 8
  <2>1. S[n] = Say(<<Cout("done")>>) BY <1>9 DEF BattleScript
  <2>2. kind = "say" BY <1>2, <2>1
  <2>3. /\ n # b + 5 /\ n # b + 6 /\ n # b + 7 /\ n # c + 1 /\ n # c + 4 /\ n # b + 2
    BY <1>9
  <2> QED BY <2>2, <2>3 DEF StatedAt
<1>10. CASE n \in {c + 1, c + 2, c + 3, c + 4}
  <2>1. /\ S[c + 1] = Do("take_path") /\ S[c + 2] = Do("pause")
        /\ S[c + 3] = Do("restart") /\ S[c + 4] = Do("announce")
    BY DEF BattleScript
  <2>2. /\ S[c + 1].do = "take_path" /\ S[c + 2].do = "pause"
        /\ S[c + 3].do = "restart" /\ S[c + 4].do = "announce"
    BY <1>1, <2>1
  <2>3. n # b + 5 /\ n # b + 6 /\ n # b + 7 /\ n # b + 2 BY <1>4, <1>10
  <2>4. CASE n = c + 1 BY <1>4, <2>2, <2>3, <2>4 DEF StatedAt
  <2>5. CASE n = c + 2
    <3>1. S[n + 1].do = "restart"
      <4>1. n + 1 = c + 3 BY <2>5
      <4> QED BY <2>2, <4>1
    <3>2. kind = "pause" BY <2>2, <2>5
    <3> QED BY <1>4, <2>3, <2>5, <3>1, <3>2 DEF StatedAt, Restarts
  <2>6. CASE n = c + 3 BY <1>4, <2>2, <2>3, <2>6 DEF StatedAt
  <2>7. CASE n = c + 4 BY <1>4, <2>2, <2>3, <2>7 DEF StatedAt
  <2> QED BY <1>10, <2>4, <2>5, <2>6, <2>7
<1>11. \/ n =< b \/ n \in {b + 1, b + 2, b + 3, b + 4, b + 5, b + 6, b + 7}
       \/ (n = b + 8 /\ c = b + 8) \/ n \in {c + 1, c + 2, c + 3, c + 4}
       \/ (n >= c + 5 /\ n < Len(S)) \/ n = Len(S)
  BY <1>4
<1> QED BY <1>5, <1>6, <1>7, <1>8, <1>9, <1>10, <1>11

\* A script without one only talks until its last statement.
LEMMA PlainPositions ==
  ASSUME NEW command, NEW S, PlainScript(command, S), NEW n \in 1..Len(S)
  PROVE  S[n].do \in {"say", "run_file", "run_test"} \/ (S[n].do = "pause" /\ n = Len(S))
<1>1. Len(S) \in Nat BY LenProperties DEF PlainScript
<1>2. CASE n = Len(S) BY <1>2 DEF PlainScript, Do
<1>3. CASE n # Len(S)
  <2>1. n \in 1..(Len(S) - 1) BY <1>1, <1>3
  <2> QED BY <2>1, TalkingIs DEF PlainScript
<1> QED BY <1>2, <1>3

\* The announcement comes after the battery, its summary and the remark between.
LEMMA Places ==
  ASSUME NEW command
  PROVE  /\ BattleAt(command) \in Nat /\ AnnouncedAt(command) \in Nat
         /\ AnnouncedAt(command) >= BattleAt(command) + 7
         /\ AnnouncedAt(command) =< BattleAt(command) + 8
<1>1. Len(Opening(command)) \in Nat
  <2>1. Tell("environment") \in Talking(command) /\ Tell("tests") \in Talking(command) BY DosAre
  <2> DEFINE T == Talking(command)
             u == When({"print_environ_info"} \in Modes(command), <<Tell("environment")>>)
             v == When({"list_tests"} \in Modes(command), <<Tell("tests")>>)
  <2>2. <<Tell("environment")>> \in Seq(T) /\ <<Tell("tests")>> \in Seq(T)
    <3> HIDE DEF T
    <3> QED BY <2>1 DEF T
  <2>3. u \in Seq(T) /\ v \in Seq(T) BY <2>2, WhenIs
  <2> HIDE DEF T, u, v
  <2>4. u \o v \in Seq(T) BY <2>3, Joining, Zenon
  <2>5. Len(u \o v) \in Nat BY <2>4, LenProperties
  <2> QED BY <2>5 DEF Opening, u, v
<1> QED BY <1>1 DEF BattleAt, AnnouncedAt

\* What the script of the program is like.
LEMMA TheScriptIs ==
  ASSUME Prepared, Following
  PROVE  /\ B \in Nat /\ C \in Nat /\ Len(TheScript) \in Nat /\ C >= B + 7 /\ C =< B + 8
         /\ Battle => /\ Len(TheScript) >= C + 5
                      /\ BattleScript(Command, TheScript, B, C)
                      /\ \A n \in 1..Len(TheScript) : StatedAt(TheScript, B, C, n)
         /\ ~ Battle => \A n \in 1..Len(TheScript) :
               \/ TheScript[n].do \in {"say", "run_file", "run_test"}
               \/ TheScript[n].do = "pause" /\ n = Len(TheScript)
<1>1. Len(Command) \in Nat BY LenProperties DEF Prepared, InScript
<1>2. Len(TheScript) \in Nat BY <1>1, ScriptIs DEF TheScript
<1>3. B \in Nat /\ C \in Nat /\ C >= B + 7 /\ C =< B + 8 BY Places DEF B, C
<1>4. CASE Battle
  <2>1. BattleScript(Command, TheScript, B, C)
    BY <1>1, <1>4, BattleScripts DEF Battle, TheScript, B, C
  <2>2. Len(TheScript) >= C + 5 BY <2>1 DEF BattleScript
  <2>3. \A n \in 1..Len(TheScript) : StatedAt(TheScript, B, C, n)
    BY <1>3, <2>1, BattlePositions
  <2> QED BY <1>2, <1>3, <1>4, <2>1, <2>2, <2>3
<1>5. CASE ~ Battle
  <2>1. PlainScript(Command, TheScript) BY <1>1, <1>5, PlainScripts DEF Battle, TheScript
  <2> QED BY <1>2, <1>3, <1>5, <2>1, PlainPositions
<1> QED BY <1>4, <1>5

-----------------------------------------------------------------------------
(* The battery and the pauses.                                              *)

\* The phase of the runner is that of the script.
Phases ==
  /\ Following /\ ~ Throwing =>
       phase = (IF ~ Battle \/ Begun < B + 5 THEN "idle"
                ELSE IF Begun = B + 5 THEN "running" ELSE "returned")
  /\ Following /\ Throwing => phase # "running"

\* Only the battery makes the workers talk.
Active ==
  \A w \in Workers : doing[w] # NoTest \/ speech[w] # << >> \/ ppc[w] # "idle" => phase = "running"

\* Behind a pause there is a restart or the end, and the main thread says nothing
\* from the one to the other.
OpenToSpeak ==
  /\ suppress => ~ Throwing /\ (todo = << >> \/ Head(todo).do \in Restarts)
  /\ speech[Main] # << >> \/ ppc[Main] = "enqueue" => ~ suppress

Control == Phases /\ Active /\ OpenToSpeak

\* A statement of a battery comes at its place.
LEMMA Placing ==
  ASSUME Prepared, NEW kind, kind # "throw", Statement(kind), todo' = Tail(todo),
         UNCHANGED <<parsed, stage>>
  PROVE  /\ Battle => StatedAt(TheScript, B, C, Begun + 1)
         /\ ~ Battle => kind \in {"say", "run_file", "run_test"}
                        \/ (kind = "pause" /\ Begun + 1 = Len(TheScript))
         /\ TheScript[Begun + 1].do = kind
         /\ B \in Nat /\ C \in Nat /\ C >= B + 7 /\ C =< B + 8
         /\ todo' # << >> => Begun + 2 =< Len(TheScript) /\ Head(todo') = TheScript[Begun + 2]
<1>1. /\ Following /\ Following' /\ ~ Throwing /\ ~ Throwing' /\ InScript'
      /\ Begun' = Begun + 1 /\ Begun \in Nat /\ Begun < Len(TheScript) /\ Len(TheScript) \in Nat
      /\ Head(todo) = TheScript[Begun + 1] /\ Head(todo).do = kind
      /\ UNCHANGED <<Command, TheScript, Battle, B, C>>
      /\ todo' # << >> => Begun + 2 =< Len(TheScript) /\ Head(todo') = TheScript[Begun + 2]
  BY Stating
<1>2. Begun + 1 \in 1..Len(TheScript) BY <1>1
<1> QED BY <1>1, <1>2, TheScriptIs

\* The phase of the battery goes with the script.
LEMMA PhaseOfStatement ==
  ASSUME Prepared, Phases, NEW kind, kind # "throw", Statement(kind), todo' = Tail(todo),
         UNCHANGED <<parsed, stage>>,
         kind = "execute" => phase = "idle" /\ phase' = "running",
         kind = "wait_join" => phase' = "returned",
         kind \notin {"execute", "wait_join"} => phase' = phase
  PROVE  Phases'
<1>1. /\ Following /\ ~ Throwing /\ ~ Throwing' /\ Begun' = Begun + 1 /\ Begun \in Nat
      /\ UNCHANGED <<Battle, B>>
  BY Stating
<1>2. /\ Battle => StatedAt(TheScript, B, C, Begun + 1)
      /\ ~ Battle => kind \in {"say", "run_file", "run_test", "pause"}
      /\ TheScript[Begun + 1].do = kind /\ B \in Nat
  BY Placing
<1>3. phase = IF ~ Battle \/ Begun < B + 5 THEN "idle"
              ELSE IF Begun = B + 5 THEN "running" ELSE "returned"
  BY <1>1 DEF Phases
<1>4. CASE ~ Battle
  BY <1>1, <1>2, <1>3, <1>4 DEF Phases
<1>5. CASE Battle
  <2>1. (kind = "execute" <=> Begun + 1 = B + 5) /\ (kind = "wait_join" <=> Begun + 1 = B + 6)
    BY <1>2, <1>5 DEF StatedAt
  <2> QED BY <1>1, <1>2, <1>3, <1>5, <2>1 DEF Phases
<1> QED BY <1>4, <1>5

\* Nobody speaks behind a pause.
LEMMA UnlessRestarting ==
  ASSUME OpenToSpeak, NEW kind, Statement(kind), kind \notin Restarts
  PROVE  ~ suppress
BY DEF OpenToSpeak, Statement

\* A statement that is neither a pause nor an exception keeps Control.
LEMMA ControlOfStatement ==
  ASSUME Prepared, Control, NEW kind, kind \notin {"throw", "pause"}, Statement(kind), Advance,
         kind = "execute" => phase = "idle" /\ phase' = "running",
         kind = "wait_join" => phase' = "returned" /\ \A w \in Workers : Quiet(w),
         kind \notin {"execute", "wait_join"} => phase' = phase,
         kind \in Restarts => ~ suppress',
         kind \notin Restarts => suppress' = suppress,
         UNCHANGED <<ppc, doing>>, \A w \in Workers : speech'[w] = speech[w]
  PROVE  Control'
<1>1. Phases' BY PhaseOfStatement DEF Control, Advance
<1>2. ~ suppress' BY UnlessRestarting DEF Control
<1>3. OpenToSpeak' BY <1>2 DEF OpenToSpeak
<1>4. Active'
  <2>1. CASE kind = "wait_join" BY <2>1 DEF Active, Quiet
  <2>2. CASE kind # "wait_join" BY <2>2 DEF Active, Control
  <2> QED BY <2>1, <2>2
<1> QED BY <1>1, <1>3, <1>4 DEF Control

\* A pause keeps Control.
LEMMA ControlOfPause ==
  ASSUME Prepared, Control, Pause
  PROVE  Control'
<1>1. Statement("pause") /\ todo' = Tail(todo) /\ UNCHANGED <<parsed, stage, phase, ppc, doing, speech>>
  BY DEF Pause, Advance, Silently, batteryVars, workVars, Out!PauseEnter, Out!MainUnchanged,
         Out!producerVars
<1>2. Phases' BY <1>1, PhaseOfStatement DEF Control
<1>3. Active' BY <1>1 DEF Control, Active
<1>4. OpenToSpeak'
  <2>1. ~ Throwing' BY <1>1, Stating
  <2>2. speech'[Main] = << >> /\ ppc'[Main] = "idle" BY <1>1 DEF Statement
  <2>3. todo' # << >> => Head(todo').do \in Restarts
    <3> SUFFICES ASSUME todo' # << >> PROVE Head(todo').do \in Restarts
      OBVIOUS
    <3>1. /\ Battle => StatedAt(TheScript, B, C, Begun + 1)
          /\ ~ Battle => Begun + 1 = Len(TheScript)
          /\ TheScript[Begun + 1].do = "pause"
          /\ Begun + 2 =< Len(TheScript) /\ Head(todo') = TheScript[Begun + 2]
      BY <1>1, Placing
    <3>2. Begun \in Nat /\ Len(TheScript) \in Nat BY <1>1, Stating
    <3>3. Battle /\ Begun + 1 < Len(TheScript) /\ (Begun + 1) + 1 = Begun + 2 BY <3>1, <3>2
    <3> QED BY <3>1, <3>3 DEF StatedAt
  <2> QED BY <2>1, <2>2, <2>3 DEF OpenToSpeak
<1> QED BY <1>2, <1>3, <1>4 DEF Control

\* Where no thread can be created the battery has not begun.
LEMMA ControlOfNoThread ==
  ASSUME Prepared, Control, NoThread
  PROVE  Control'
<1>1. /\ Statement("execute") /\ UNCHANGED <<parsed, stage, phase, ppc, doing, suppress, speech>>
      /\ \E code : todo' = <<Thrower(code)>>
  BY DEF NoThread, AdvanceOrThrow, Thrower, Silently, batteryVars, workVars, outVars
<1>2. ~ suppress' BY <1>1, UnlessRestarting DEF Control, Restarts
<1>3. OpenToSpeak' BY <1>2 DEF OpenToSpeak
<1>4. Active' BY <1>1 DEF Active, Control
<1>5. Throwing' BY <1>1, ThrowerIs DEF Throwing
<1>6. phase # "running"
  <2>1. Following BY <1>1, RunningFollows DEF Prepared, Statement
  <2>2. todo # << >> /\ Head(todo).do = "execute" /\ ~ Throwing BY <1>1 DEF Statement, Throwing
  <2>3. Begun \in Nat /\ Begun + 1 \in 1..Len(TheScript) /\ TheScript[Begun + 1].do = "execute"
    BY <2>1, <2>2, AtHand DEF Prepared
  <2>4. ~ (Battle /\ Begun = B + 5)
    <3> SUFFICES ASSUME Battle, Begun = B + 5 PROVE FALSE
      OBVIOUS
    <3>1. StatedAt(TheScript, B, C, Begun + 1) /\ B \in Nat BY <2>1, <2>3, TheScriptIs
    <3>2. Begun + 1 = B + 6 BY <3>1
    <3> QED BY <2>3, <3>1, <3>2 DEF StatedAt
  <2> QED BY <2>1, <2>2, <2>4 DEF Control, Phases
<1> QED BY <1>1, <1>3, <1>4, <1>5, <1>6 DEF Control, Phases

\* An exception leaves the script outside the battery.
LEMMA ControlOfFile ==
  ASSUME Prepared, Control, NEW o \in Outcomes, RunFile(o)
  PROVE  Control'
<1>1. Statement("run_file") /\ UNCHANGED <<parsed, stage, phase, ppc, doing, suppress>>
  BY DEF RunFile, AdvanceOrThrow, batteryVars, workVars, outVars
<1>2. ~ suppress' BY <1>1, UnlessRestarting DEF Control, Restarts
<1>3. OpenToSpeak' BY <1>2 DEF OpenToSpeak
<1>4. Active'
  <2>1. \A w \in Workers : speech'[w] = speech[w]
    <3>1. Main \notin Workers /\ Workers \subseteq Producers BY ApplicationAssumption DEF Producers
    <3>2. speech \in [Producers -> Seq(LinesSaid)] BY DEF Prepared, AppTypes
    <3> QED BY <3>1, <3>2 DEF RunFile, SayNow
  <2> QED BY <1>1, <2>1 DEF Active, Control
<1>5. Phases'
  <2>1. CASE o = "pass"
    <3>1. todo' = Tail(todo) BY <2>1 DEF RunFile, AdvanceOrThrow
    <3> QED BY <1>1, <3>1, PhaseOfStatement DEF Control
  <2>2. CASE o # "pass"
    <3>1. \E code : todo' = <<Thrower(code)>> BY <2>2 DEF RunFile, AdvanceOrThrow, Thrower
    <3>2. Throwing' BY <3>1, ThrowerIs DEF Throwing
    <3>3. phase # "running"
      <4>1. Following BY <1>1, RunningFollows DEF Prepared, Statement
      <4>2. todo # << >> /\ Head(todo).do = "run_file" /\ ~ Throwing BY <1>1 DEF Statement, Throwing
      <4>3. Begun \in Nat /\ Begun + 1 \in 1..Len(TheScript) /\ TheScript[Begun + 1].do = "run_file"
        BY <4>1, <4>2, AtHand DEF Prepared
      <4>4. ~ (Battle /\ Begun = B + 5)
        <5> SUFFICES ASSUME Battle, Begun = B + 5 PROVE FALSE
          OBVIOUS
        <5>1. StatedAt(TheScript, B, C, Begun + 1) /\ B \in Nat BY <4>1, <4>3, TheScriptIs
        <5>2. Begun + 1 = B + 6 BY <5>1
        <5> QED BY <4>3, <5>1, <5>2 DEF StatedAt
      <4> QED BY <4>1, <4>2, <4>4 DEF Control, Phases
    <3> QED BY <1>1, <3>2, <3>3 DEF Phases
  <2> QED BY <2>1, <2>2
<1> QED BY <1>3, <1>4, <1>5 DEF Control

\* Every step keeps Control.
LEMMA ControlKept ==
  ASSUME Prepared, Control, [Next]_vars
  PROVE  Control'
<1>1. Main \in Producers /\ Main \notin Workers /\ \A w \in Workers : w \in Producers
  BY ApplicationAssumption DEF Producers
<1>2. speech \in [Producers -> Seq(LinesSaid)] /\ ppc \in [Producers -> Out!ProducerPCs]
  BY DEF Prepared, AppTypes, Queue, Out!IndInv, Out!TypeOK
<1>3. ASSUME UNCHANGED <<parsed, todo, phase, suppress>>, Following' => Following
      PROVE  Phases' /\ (suppress' => ~ Throwing' /\ (todo' = << >> \/ Head(todo').do \in Restarts))
  BY <1>3 DEF Control, Phases, OpenToSpeak, Following, Throwing, Battle, Begun, TheScript, Command, B
<1>4. ASSUME Running PROVE Following BY <1>4, RunningFollows DEF Prepared
<1>5. CASE UNCHANGED restVars
  BY <1>5 DEF restVars, outVars, batteryVars, workVars, mainVars, Control, Phases, OpenToSpeak, Active,
              Following, Throwing, Battle, Begun, TheScript, Command, B
<1>6. CASE Throw \/ Return \/ (\E f \in Paths : RemoveFile(f))
  <2>1. UNCHANGED <<parsed, todo, phase, suppress, speech, ppc, doing>> /\ Running
    BY <1>6 DEF Throw, Return, RemoveFile, Statement, outVars, batteryVars, workVars, mainVars
  <2> QED BY <1>3, <1>4, <2>1 DEF Control, OpenToSpeak, Active
<1>7. CASE \E w \in Workers : WorkerStep(w)
  <2>1. PICK w \in Workers : WorkerStep(w) BY <1>7
  <2>2. /\ UNCHANGED <<parsed, todo, phase, suppress, ppc>> /\ Running /\ speech'[Main] = speech[Main]
        /\ phase = "running" \/ doing[w] # NoTest
    BY <1>1, <1>2, <2>1 DEF WorkerStep, RunTest, Report, PopNothing, mainVars, outVars, batteryVars,
      Battery!RunTest, Battery!Report
  <2>3. phase = "running" BY <2>2 DEF Control, Active
  <2> QED BY <1>3, <1>4, <2>2, <2>3 DEF Control, OpenToSpeak, Active
<1>8. CASE \E p \in Producers : CloseProxy(p)
  <2>1. PICK p \in Producers : CloseProxy(p) BY <1>8
  <2>2. /\ UNCHANGED <<parsed, todo, phase, suppress, doing>> /\ Running /\ speech[p] # << >>
        /\ \A q \in Producers \ {p} : speech'[q] = speech[q] /\ ppc'[q] = ppc[q]
    BY <1>1, <1>2, <2>1 DEF CloseProxy, mainVars, batteryVars, workVars, Out!Offer
  <2>3. OpenToSpeak'
    <3>1. CASE p = Main BY <1>3, <1>4, <2>2, <3>1 DEF Control, OpenToSpeak
    <3>2. CASE p # Main BY <1>1, <1>3, <1>4, <2>2, <3>2 DEF Control, OpenToSpeak
    <3> QED BY <3>1, <3>2
  <2>4. Active' BY <1>1, <2>2 DEF Control, Active
  <2> QED BY <1>3, <1>4, <2>2, <2>3, <2>4 DEF Control
<1>9. CASE QueueStep(QueueMoves)
  <2>1. UNCHANGED <<parsed, todo, phase, doing, speech>> /\ Running /\ QueueMoves
    BY <1>9 DEF QueueStep, mainVars, batteryVars, workVars
  <2>2. /\ UNCHANGED <<suppress, made>>
        /\ \A p \in Producers : /\ ppc'[p] = "enqueue" => ppc[p] = "enqueue"
                                /\ ppc'[p] # "idle" => ppc[p] # "idle"
    BY <2>1, MovesAre DEF Prepared
  <2> QED BY <1>1, <1>3, <1>4, <2>1, <2>2 DEF Control, OpenToSpeak, Active
<1>10. CASE Parse
  <2>1. UNCHANGED <<suppress, speech, ppc, phase, doing>> /\ ~ Following
    BY <1>10 DEF Parse, Following, outVars, batteryVars, workVars
  <2>2. /\ ~ suppress /\ phase = "idle"
        /\ \A w \in Workers : doing[w] = NoTest /\ speech[w] = << >> /\ ppc[w] = "idle"
    BY <1>1, <2>1 DEF Prepared, Fresh
  <2>3. OpenToSpeak' /\ Active' BY <2>1, <2>2 DEF OpenToSpeak, Active
  <2>4. Phases'
    <3>1. CASE Fails(parsed') BY <3>1 DEF Phases, Following
    <3>2. CASE ~ Fails(parsed')
      <4>1. Prepared' BY PreparedInductive
      <4>2. Following' BY <1>10, <3>2 DEF Parse, Following
      <4>3. todo' = TheScript' BY <1>10, <3>2 DEF Parse, TheScript, Command
      <4>4. Command' \in Seq(Switch) BY <4>1, <4>2 DEF Prepared, InScript
      <4>5. Len(Command') \in Nat BY <4>4, LenProperties
      <4>6. TheScript' \in Seq(Statements(Command')) /\ Len(TheScript') \in Nat
        BY <4>5, ScriptIs DEF TheScript
      <4>7. Begun' = 0 BY <4>3, <4>6 DEF Begun
      <4>8. Battle' => B' \in Nat
        BY <4>5, BattleScripts DEF Battle, B, BattleScript
      <4> QED BY <2>1, <2>2, <4>7, <4>8 DEF Phases
    <3> QED BY <3>1, <3>2
  <2> QED BY <2>3, <2>4 DEF Control
<1>11. \A lines : SayNow(lines) => \A w \in Workers : speech'[w] = speech[w]
  BY <1>1, <1>2 DEF SayNow
<1>12. CASE Pause BY <1>12, ControlOfPause
<1>13. CASE Restart \/ RestartWithFile
  <2>1. \E kind \in Restarts : Statement(kind) BY <1>13 DEF Restart, RestartWithFile, Restarts
  <2>2. Advance /\ UNCHANGED <<phase, ppc, doing, speech>> /\ ~ suppress'
    BY <1>13 DEF Restart, RestartWithFile, Silently, batteryVars, workVars, Out!RestartWithSameFile,
         Out!Restart, Out!MainUnchanged, Out!producerVars
  <2>3. PICK kind \in Restarts : Statement(kind) BY <2>1
  <2>4. kind \notin {"throw", "pause", "execute", "wait_join"} BY DEF Restarts
  <2> QED BY <2>2, <2>3, <2>4, ControlOfStatement
<1>14. CASE SayLines \/ Announce \/ Summarise \/ \E o \in Outcomes : RunNamedTest(o)
  <2>1. \E kind \in {"say", "announce", "summarise", "run_test"} : Statement(kind)
    BY <1>14 DEF SayLines, Announce, Summarise, RunNamedTest
  <2>2. PICK kind \in {"say", "announce", "summarise", "run_test"} : Statement(kind) BY <2>1
  <2>3. Advance /\ UNCHANGED <<phase, ppc, doing, suppress>> /\ \E lines : SayNow(lines)
    BY <1>14 DEF SayLines, Announce, Summarise, RunNamedTest, outVars, batteryVars, workVars
  <2>4. kind \notin {"throw", "pause", "execute", "wait_join"} /\ kind \notin Restarts
    BY DEF Restarts
  <2>5. \A w \in Workers : speech'[w] = speech[w] BY <1>11, <2>3
  <2> QED BY <2>2, <2>3, <2>4, <2>5, ControlOfStatement
<1>15. CASE TakePath
  <2>1. Statement("take_path") /\ Advance /\ UNCHANGED <<phase, ppc, doing, suppress, speech>>
    BY <1>15 DEF TakePath, Silently, outVars, batteryVars, workVars
  <2>2. "take_path" \notin Restarts BY DEF Restarts
  <2> QED BY <2>1, <2>2, ControlOfStatement
<1>16. CASE Execute
  <2>1. Statement("execute") /\ Advance /\ UNCHANGED <<ppc, doing, suppress, speech>>
        /\ phase = "idle" /\ phase' = "running"
    BY <1>16 DEF Execute, Silently, outVars, workVars, Battery!Start
  <2>2. "execute" \notin Restarts BY DEF Restarts
  <2> QED BY <2>1, <2>2, ControlOfStatement
<1>17. CASE WaitJoin
  <2>1. Statement("wait_join") /\ Advance /\ UNCHANGED <<ppc, doing, suppress, speech>>
        /\ phase' = "returned" /\ gone = Workers
    BY <1>17 DEF WaitJoin, Silently, outVars, Battery!Return
  <2>2. "wait_join" \notin Restarts BY DEF Restarts
  <2>3. \A w \in Workers : Quiet(w) BY <2>1 DEF Prepared, Departed
  <2> QED BY <2>1, <2>2, <2>3, ControlOfStatement
<1>18. CASE \E o \in Outcomes : RunFile(o) BY <1>18, ControlOfFile
<1>19. CASE MainStep
  BY <1>6, <1>12, <1>13, <1>14, <1>15, <1>16, <1>17, <1>18, <1>19, ControlOfNoThread DEF MainStep
<1> QED BY <1>5, <1>6, <1>7, <1>8, <1>9, <1>10, <1>19, StepClasses DEF OwnStep, Waiting

\* Control holds at first.
LEMMA ControlFirst == Init => Control
BY ApplicationAssumption DEF Init, Out!Init, Battery!Init, Control, Phases, Active, OpenToSpeak, Following,
  Producers

-----------------------------------------------------------------------------
(* What was said and what the queue has taken of it.                        *)

\* The thread is about to offer an item.
Pending(p) == ppc[p] = "enqueue"

\* What a thread offers, it has said last.
Voices ==
  \A p \in Producers :
    /\ made[p] = Len(spoken[p])
    /\ Pending(p) => item[p][1].from = p /\ item[p][1].no = made[p]

\* Nobody talks to a queue that refuses.
LEMMA OpenWhenTalking ==
  ASSUME Prepared, Control, NEW p \in Producers, speech[p] # << >> \/ Pending(p)
  PROVE  ~ suppress /\ Following
<1>1. Following
  <2>1. Pending(p) => ppc[p] # "idle" BY DEF Pending
  <2> QED BY <2>1 DEF Prepared, Fresh
<1>2. CASE p = Main BY <1>1, <1>2 DEF Control, OpenToSpeak, Pending
<1>3. CASE p # Main
  <2>1. p \in Workers BY <1>3 DEF Producers
  <2>2. phase = "running" BY <2>1 DEF Control, Active, Pending
  <2>3. ~ Throwing BY <1>1, <2>2 DEF Control, Phases
  <2>4. Battle /\ Begun = B + 5 BY <1>1, <2>2, <2>3 DEF Control, Phases
  <2>5. /\ B \in Nat /\ C >= B + 7 /\ C \in Nat /\ Len(TheScript) >= C + 5 /\ Len(TheScript) \in Nat
        /\ \A n \in 1..Len(TheScript) : StatedAt(TheScript, B, C, n)
    BY <1>1, <2>4, TheScriptIs
  <2>6. todo # << >>
    <3> SUFFICES ASSUME todo = << >> PROVE FALSE
      OBVIOUS
    <3>1. Len(todo) = 0 BY EmptySeq
    <3>2. Begun = Len(TheScript) BY <2>5, <3>1 DEF Begun
    <3> QED BY <2>4, <2>5, <3>2
  <2>7. Head(todo) = TheScript[Begun + 1] /\ Begun + 1 \in 1..Len(TheScript)
    BY <1>1, <2>3, <2>6, AtHand DEF Prepared
  <2>8. Head(todo).do = "wait_join"
    <3>1. Begun + 1 = B + 6 BY <2>4, <2>5
    <3> QED BY <2>5, <2>7, <3>1 DEF StatedAt
  <2> QED BY <1>1, <2>6, <2>8 DEF Control, OpenToSpeak, Restarts
<1> QED BY <1>2, <1>3

New(p) == [from |-> p, no |-> made[p] + 1, route |-> Head(speech[p]).route, blank |-> Head(speech[p]).blank]

\* A line is said and offered.
Tells(p) ==
  /\ CloseProxy(p) /\ ~ suppress /\ speech[p] # << >> /\ ppc[p] = "idle"
  /\ made' = [made EXCEPT ![p] = @ + 1] /\ ppc' = [ppc EXCEPT ![p] = "enqueue"]
  /\ item' = [item EXCEPT ![p] = <<New(p)>>]
  /\ spoken' = [spoken EXCEPT ![p] = Append(@, Head(speech[p]).what)]
  /\ speech' = [speech EXCEPT ![p] = Tail(@)]
  /\ UNCHANGED <<accepted, output, suppress, file, paused, cpc, held, queue, batteryVars, workVars,
                 mainVars, files>>

\* The queue takes it.
Takes(p) ==
  /\ ~ suppress /\ Pending(p) /\ item[p] # << >>
  /\ accepted' = Append(accepted, item[p][1])
  /\ ppc' = [ppc EXCEPT ![p] = "notify"] /\ item' = [item EXCEPT ![p] = << >>]
  /\ UNCHANGED <<made, output, suppress, file, paused, cpc, held, batteryVars, workVars, mainVars,
                 files, speech, spoken>>

\* Everything else.
Listens ==
  /\ UNCHANGED <<accepted, made, item, spoken>>
  /\ \A p \in Producers : Pending(p)' <=> Pending(p)

\* The closing of a proxy says a line: the queue does not refuse it.
LEMMA TellsIt ==
  ASSUME Prepared, Control, NEW p \in Producers, CloseProxy(p)
  PROVE  Tells(p) /\ New(p) \in Out!Item
<1>1. speech[p] # << >> /\ ppc[p] = "idle" /\ made[p] < MaxItems BY DEF CloseProxy
<1>2. ~ suppress BY <1>1, OpenWhenTalking
<1>3. Head(speech[p]) \in LinesSaid BY CloseKept DEF Prepared
<1>4. Out!Offer(p, Head(speech[p]).route, Head(speech[p]).blank) BY DEF CloseProxy
<1>5. New(p) \in Out!Item
  <2>1. made[p] \in Nat /\ MaxItems \in Nat
    BY ApplicationAssumption DEF Prepared, Queue, Out!IndInv, Out!TypeOK
  <2>2. made[p] + 1 \in 1..MaxItems BY <1>1, <2>1
  <2> QED BY <1>3, <2>2 DEF LinesSaid, New, Out!Item
<1>6. /\ made' = [made EXCEPT ![p] = @ + 1] /\ ppc' = [ppc EXCEPT ![p] = "enqueue"]
      /\ item' = [item EXCEPT ![p] = <<New(p)>>]
      /\ UNCHANGED <<accepted, output, suppress, file, paused, cpc, held, queue>>
  BY <1>2, <1>4 DEF Out!Offer, New, Out!mainVars, Out!consumerVars
<1> QED BY <1>1, <1>2, <1>5, <1>6 DEF Tells, CloseProxy

\* What a thread offers the queue takes, at its end.
LEMMA TakesIt ==
  ASSUME Prepared, Control, NEW p \in Producers, QueueStep(Out!Enqueue(p))
  PROVE  /\ Takes(p) /\ item[p][1] \in Out!Item
         /\ accepted \in Seq(Out!Item) /\ Len(accepted) \in Nat /\ Len(accepted') = Len(accepted) + 1
         /\ accepted'[Len(accepted) + 1] = item[p][1]
         /\ \A n \in 1..Len(accepted) : accepted'[n] = accepted[n]
<1>1. Pending(p) BY DEF QueueStep, Out!Enqueue, Pending
<1>2. ~ suppress BY <1>1, OpenWhenTalking
<1>3. PICK i \in Out!Item : item[p] = <<i>>
  BY <1>1 DEF Pending, Prepared, Queue, Out!IndInv, Out!TypeOK, Out!ProducersReady
<1>4. accepted' = accepted \o item[p]
  BY <1>2 DEF QueueStep, Out!Enqueue, Out!Push
<1>5. accepted \in Seq(Out!Item) /\ Len(accepted) \in Nat
  BY LenProperties DEF Prepared, Queue, Out!IndInv, Out!TypeOK
<1>6. accepted' = Append(accepted, i)
  BY <1>3, <1>4, <1>5
<1>7. item[p] # << >> /\ item[p][1] = i BY <1>3
<1>8. /\ Len(accepted') = Len(accepted) + 1 /\ accepted'[Len(accepted) + 1] = i
      /\ \A n \in 1..Len(accepted) : accepted'[n] = accepted[n]
  BY <1>5, <1>6, AppendProperties
<1>9. Takes(p)
  BY <1>1, <1>2, <1>6, <1>7 DEF Takes, QueueStep, Out!Enqueue, Out!Push, Out!mainVars, Out!consumerVars
<1> QED BY <1>5, <1>7, <1>8, <1>9

\* A step says a line, has a line taken, or does neither.
LEMMA Histories ==
  ASSUME Prepared, Control, [Next]_vars
  PROVE  \/ \E p \in Producers : CloseProxy(p)
         \/ \E p \in Producers : QueueStep(Out!Enqueue(p))
         \/ Listens
<1>1. ppc \in [Producers -> Out!ProducerPCs] BY DEF Prepared, Queue, Out!IndInv, Out!TypeOK
<1>2. CASE UNCHANGED restVars BY <1>2 DEF restVars, outVars, Listens, Pending
<1>3. CASE OwnStep
  <2>1. UNCHANGED <<accepted, made, item, spoken, ppc>>
    BY <1>3 DEF OwnStep, Parse, MainStep, WorkerStep, RemoveFile, Pause, Restart, RestartWithFile,
      SayLines, TakePath, Announce, Execute, NoThread, WaitJoin, Summarise, RunFile, RunNamedTest, Throw,
      Return, RunTest, Report, PopNothing, Advance, AdvanceOrThrow, outVars, Out!PauseEnter,
      Out!RestartWithSameFile, Out!Restart, Out!MainUnchanged, Out!producerVars
  <2> QED BY <2>1 DEF Listens, Pending
<1>4. ASSUME NEW p \in Producers, QueueStep(Out!NotifyOne(p)) PROVE Listens
  BY <1>1, <1>4 DEF QueueStep, Out!NotifyOne, Listens, Pending
<1>5. CASE QueueStep(Out!PauseStep \/ Out!ConsumerStep \/ Out!SpuriousWake \/ Out!PauseSpuriousWake)
  <2>1. UNCHANGED <<accepted, made, item, ppc>>
    BY <1>5 DEF QueueStep, Out!PauseStep, Out!PauseRelock, Out!PauseRequestStop, Out!PauseNotify,
      Out!PauseJoin, Out!ConsumerStep, Out!LoopTop, Out!LockAndLook, Out!Block, Out!NotifyEmpty,
      Out!CheckStop, Out!Write, Out!WriteFile, Out!SpuriousWake, Out!PauseSpuriousWake,
      Out!MainUnchanged, Out!ConsumerUnchanged, Out!producerVars
  <2> QED BY <1>5, <2>1 DEF QueueStep, Listens, Pending
<1>6. CASE QueueStep(QueueMoves)
  BY <1>4, <1>5, <1>6 DEF QueueStep, QueueMoves
<1> QED BY <1>2, <1>3, <1>6, StepClasses DEF Waiting

-----------------------------------------------------------------------------
(* Nothing is refused.                                                      *)

\* The items that come from a thread are finitely many.
LEMMA FromIsFinite ==
  ASSUME Prepared
  PROVE  \A p \in Producers : IsFiniteSet(From(p))
<1>1. Len(accepted) \in Nat BY LenProperties DEF Prepared, Queue, Out!IndInv, Out!TypeOK
<1>2. IsFiniteSet(1..Len(accepted)) BY <1>1, FS_Interval
<1>3. \A p \in Producers : From(p) \subseteq 1..Len(accepted) BY DEF From
<1> QED BY <1>2, <1>3, FS_Subset

\* Every step keeps Voices.
LEMMA VoicesKept ==
  ASSUME Prepared, Control, Voices, [Next]_vars
  PROVE  Voices'
<1>1. /\ ppc \in [Producers -> Out!ProducerPCs] /\ made \in [Producers -> 0..MaxItems]
      /\ spoken \in [Producers -> Seq(Labels)]
      /\ DOMAIN item = Producers
  BY DEF Prepared, AppTypes, Queue, Out!IndInv, Out!TypeOK
<1>2. CASE \E p \in Producers : CloseProxy(p)
  <2>1. PICK p \in Producers : CloseProxy(p) BY <1>2
  <2>2. Tells(p) BY <2>1, TellsIt
  <2>3. /\ made' = [made EXCEPT ![p] = @ + 1] /\ ppc' = [ppc EXCEPT ![p] = "enqueue"]
        /\ item' = [item EXCEPT ![p] = <<New(p)>>]
        /\ spoken' = [spoken EXCEPT ![p] = Append(@, Head(speech[p]).what)]
    BY <2>2 DEF Tells
  <2>4. \A q \in Producers \ {p} : /\ made'[q] = made[q] /\ spoken'[q] = spoken[q]
                                   /\ ppc'[q] = ppc[q] /\ item'[q] = item[q]
    BY <1>1, <2>3
  <2>5. /\ made'[p] = made[p] + 1 /\ ppc'[p] = "enqueue" /\ item'[p][1] = New(p)
        /\ spoken'[p] = Append(spoken[p], Head(speech[p]).what)
    BY <1>1, <2>3
  <2>6. Len(spoken'[p]) = Len(spoken[p]) + 1
    <3>1. spoken[p] \in Seq(Labels) /\ Head(speech[p]).what \in Labels
      BY <1>1, <2>1, CloseKept DEF Prepared, LinesSaid
    <3> HIDE DEF Labels
    <3> QED BY <2>5, <3>1, AppendProperties
  <2>7. New(p).from = p /\ New(p).no = made[p] + 1 BY DEF New
  <2> QED BY <2>4, <2>5, <2>6, <2>7 DEF Voices, Pending
<1>3. CASE \E p \in Producers : QueueStep(Out!Enqueue(p))
  <2>1. PICK p \in Producers : QueueStep(Out!Enqueue(p)) BY <1>3
  <2>2. Takes(p) BY <2>1, TakesIt
  <2>3. /\ ppc' = [ppc EXCEPT ![p] = "notify"] /\ item' = [item EXCEPT ![p] = << >>]
        /\ UNCHANGED <<made, spoken>>
    BY <2>2 DEF Takes
  <2>4. \A q \in Producers \ {p} : ppc'[q] = ppc[q] /\ item'[q] = item[q]
    BY <1>1, <2>3
  <2>5. ppc'[p] = "notify" BY <1>1, <2>3
  <2> QED BY <2>3, <2>4, <2>5 DEF Voices, Pending
<1>4. CASE Listens
  BY <1>4 DEF Listens, Voices
<1> QED BY <1>2, <1>3, <1>4, Histories

\* Every step keeps NothingIsRefused.
LEMMA NothingRefusedKept ==
  ASSUME Prepared, Control, Voices, NothingIsRefused, [Next]_vars
  PROVE  NothingIsRefused'
<1>1. ppc \in [Producers -> Out!ProducerPCs] /\ made \in [Producers -> 0..MaxItems] /\ MaxItems \in Nat
  BY ApplicationAssumption DEF Prepared, Queue, Out!IndInv, Out!TypeOK
<1>2. CASE \E p \in Producers : CloseProxy(p)
  <2>1. PICK p \in Producers : CloseProxy(p) BY <1>2
  <2>2. Tells(p) BY <2>1, TellsIt
  <2>3. /\ made' = [made EXCEPT ![p] = @ + 1] /\ ppc' = [ppc EXCEPT ![p] = "enqueue"]
        /\ UNCHANGED accepted /\ ppc[p] = "idle"
    BY <2>2 DEF Tells
  <2>4. \A q \in Producers : UNCHANGED From(q) BY <2>3 DEF From
  <2>5. \A q \in Producers : Cardinality(From(q)) \in Nat BY FromIsFinite, FS_CardinalityType
  <2>6. \A q \in Producers \ {p} : ppc'[q] = ppc[q] /\ made'[q] = made[q] BY <1>1, <2>3
  <2>7. ppc'[p] = "enqueue" /\ made'[p] = made[p] + 1 BY <1>1, <2>3
  <2>8. made[p] = Cardinality(From(p)) BY <2>3, <2>5 DEF NothingIsRefused
  <2> QED BY <2>4, <2>5, <2>6, <2>7, <2>8 DEF NothingIsRefused
<1>3. CASE \E p \in Producers : QueueStep(Out!Enqueue(p))
  <2>1. PICK p \in Producers : QueueStep(Out!Enqueue(p)) BY <1>3
  <2>2. Takes(p) BY <2>1, TakesIt
  <2>3. /\ Len(accepted) \in Nat /\ Len(accepted') = Len(accepted) + 1
        /\ accepted'[Len(accepted) + 1] = item[p][1]
        /\ \A n \in 1..Len(accepted) : accepted'[n] = accepted[n]
    BY <2>1, TakesIt
  <2>4. item[p][1].from = p /\ ppc[p] = "enqueue" BY <2>2 DEF Takes, Voices, Pending
  <2>5. ppc' = [ppc EXCEPT ![p] = "notify"] /\ UNCHANGED made BY <2>2 DEF Takes
  <2>6. From(p)' = From(p) \cup {Len(accepted) + 1} /\ Len(accepted) + 1 \notin From(p)
    BY <2>3, <2>4 DEF From
  <2>7. \A q \in Producers \ {p} : From(q)' = From(q)
    BY <2>3, <2>4 DEF From
  <2>8. \A q \in Producers : IsFiniteSet(From(q)) /\ Cardinality(From(q)) \in Nat
    BY FromIsFinite, FS_CardinalityType
  <2>9. Cardinality(From(p)') = Cardinality(From(p)) + 1 BY <2>6, <2>8, FS_AddElement
  <2>10. made'[p] = Cardinality(From(p)') /\ ppc'[p] = "notify"
    BY <1>1, <2>4, <2>5, <2>8, <2>9 DEF NothingIsRefused
  <2>11. \A q \in Producers \ {p} : ppc'[q] = ppc[q] BY <1>1, <2>5
  <2>12. Cardinality(From(p)') \in Nat BY <2>8, <2>9
  <2> QED BY <2>5, <2>7, <2>10, <2>11, <2>12 DEF NothingIsRefused
<1>4. CASE Listens
  <2>1. \A q \in Producers : UNCHANGED From(q) BY <1>4 DEF Listens, From
  <2> QED BY <1>4, <2>1 DEF Listens, NothingIsRefused, Pending
<1> QED BY <1>2, <1>3, <1>4, Histories

\* And they hold at first.
LEMMA NothingRefusedFirst == Init => Voices /\ NothingIsRefused
<1> SUFFICES ASSUME Init PROVE Voices /\ NothingIsRefused
  OBVIOUS
<1>1. /\ accepted = << >> /\ \A p \in Producers : made[p] = 0 /\ ppc[p] = "idle" /\ spoken[p] = << >>
  BY DEF Init, Out!Init
<1>2. Voices BY <1>1, EmptySeq DEF Voices, Pending
<1>3. \A p \in Producers : From(p) = {} BY <1>1, EmptySeq DEF From
<1>4. \A p \in Producers : Cardinality(From(p)) = 0 BY <1>3, FS_EmptySet
<1>5. NothingIsRefused BY <1>1, <1>4 DEF NothingIsRefused
<1> QED BY <1>2, <1>5

\* The program is well typed, its queue keeps the invariants of DedicatedOutput and
\* the main thread is in its script, always.
THEOREM PreparedAlways == Spec => []Prepared
BY PreparedFirst, PreparedInductive, PTL DEF Spec

\* The battery runs, and the queue refuses, only where the script says.
THEOREM ControlAlways == Spec => []Control
<1>1. Prepared /\ Control /\ [Next]_vars => Control' BY ControlKept
<1> QED BY <1>1, ControlFirst, PreparedAlways, PTL DEF Spec

\* Nobody talks to the queue while it refuses: between pause() and restart() the
\* main thread says nothing and no worker runs, so each proxy that was closed has
\* its item in the queue (send() returns true each time).
THEOREM NothingIsEverRefused == Spec => [](Voices /\ NothingIsRefused)
<1>1. Prepared /\ Control /\ Voices /\ NothingIsRefused /\ [Next]_vars => (Voices /\ NothingIsRefused)'
  BY VoicesKept, NothingRefusedKept
<1> QED BY <1>1, NothingRefusedFirst, PreparedAlways, ControlAlways, PTL DEF Spec

-----------------------------------------------------------------------------
(* The steps, as the script, the threads and the queue see them.            *)

\* A statement is begun.
Pace(kind) == Statement(kind) /\ todo' = Tail(todo) /\ UNCHANGED <<parsed, stage>>

Announcement == IF path /\ detail THEN <<Cout("wrote_detail")>> ELSE <<Cerr("unable_to_verify")>>

\* It says something.
Saying(kind, lines) ==
  /\ kind \in {"say", "summarise", "announce", "run_test", "run_file"}
  /\ Pace(kind) /\ SayNow(lines) /\ lines \in Seq(LinesSaid) \ {<< >>}
  /\ kind = "say" => lines = Head(todo).lines
  /\ kind \notin {"summarise", "announce"} => lines \in Seq(Remarks)
  /\ kind = "summarise" => \E a, b : lines = SummaryLines(a, b)
  /\ kind = "announce" => lines = Announcement
  /\ UNCHANGED <<outVars, path, detail, phase, spoken>>

\* It is left by an exception.
Leaving(lines) ==
  /\ \E kind \in {"run_file", "execute"} : Statement(kind)
  /\ Throwing' /\ UNCHANGED <<parsed, stage>>
  /\ SayNow(lines) /\ lines \in Seq(Remarks)
  /\ UNCHANGED <<outVars, path, detail, phase, spoken>>

\* It says nothing.
Silent(kind) ==
  /\ kind \in {"pause", "restart", "restart_with_file", "take_path", "execute", "wait_join"}
  /\ Pace(kind)
  /\ kind = "pause" => Out!PauseEnter
  /\ kind = "restart" => Out!Restart(file)
  /\ kind = "restart_with_file" => Out!Restart(TRUE)
  /\ kind \notin {"pause", "restart", "restart_with_file"} => UNCHANGED outVars
  /\ detail' = detail \/ kind = "restart_with_file"
  /\ path' = IF kind = "take_path" THEN file ELSE path
  /\ phase' = CASE kind = "execute" -> "running" [] kind = "wait_join" -> "returned"
                [] kind \notin {"execute", "wait_join"} -> phase
  /\ UNCHANGED <<speech, spoken, accepted, made, item, ppc, queue, held, output>>

\* The main thread begins nothing.
Still ==
  UNCHANGED <<parsed, todo, path, detail, phase>> /\ (Following' <=> Following)

\* A worker does its work.
Working(w) ==
  /\ Still /\ phase = "running" /\ UNCHANGED <<outVars, spoken>>
  /\ \A p \in Producers \ {w} : speech'[p] = speech[p]
  /\ speech'[w] = speech[w] \/ speech'[w] \in Seq(Talks)

\* The queue moves by itself.
Moving ==
  /\ Still /\ UNCHANGED <<speech, spoken, accepted, made, item, suppress>>
  /\ \A p \in Producers : Pending(p)' <=> Pending(p)
  /\ Out!PauseStep \/ Out!ConsumerStep \/ UNCHANGED <<file, paused, output>>

\* Nothing that is said or written.
Idling == Still /\ UNCHANGED <<outVars, speech, spoken>>

\* What a step of the main thread does, as the script sees it.
LEMMA MainDeeds ==
  ASSUME Prepared, Control, MainStep
  PROVE  \/ \E kind, lines : Saying(kind, lines)
         \/ \E lines : Leaving(lines)
         \/ \E kind : Silent(kind)
         \/ Idling
<1>1. CASE SayLines
  <2>1. Head(todo).lines \in Seq(Remarks) \ {<< >>} BY <1>1, SaidByStatement
  <2>2. Head(todo).lines \in Seq(LinesSaid)
    <3>1. Remarks \subseteq LinesSaid BY LinesAre
    <3> QED BY <2>1, <3>1, SeqMonotonic
  <2>3. Saying("say", Head(todo).lines)
    BY <1>1, <2>1, <2>2 DEF SayLines, Saying, Pace, Advance, batteryVars
  <2> QED BY <2>3
<1>2. CASE Announce
  <2>1. Announcement \in Seq(LinesSaid) \ {<< >>}
    <3>1. Cout("wrote_detail") \in LinesSaid /\ Cerr("unable_to_verify") \in LinesSaid BY StatementLines
    <3> DEFINE x == Cout("wrote_detail")  y == Cerr("unable_to_verify")
    <3>2. Announcement = <<x>> \/ Announcement = <<y>> BY DEF Announcement
    <3>3. x \in LinesSaid /\ y \in LinesSaid BY <3>1
    <3> HIDE DEF x, y
    <3>4. <<x>> \in Seq(LinesSaid) \ {<< >>} /\ <<y>> \in Seq(LinesSaid) \ {<< >>} BY <3>3
    <3> QED BY <3>2, <3>4
  <2>2. Saying("announce", Announcement)
    BY <1>2, <2>1 DEF Announce, Saying, Pace, Advance, batteryVars, Announcement
  <2> QED BY <2>2
<1>3. CASE Summarise
  <2>1. PICK a, b : SayNow(SummaryLines(a, b)) BY <1>3 DEF Summarise
  <2>2. SummaryLines(a, b) \in Seq(LinesSaid) \ {<< >>} BY StatementLines
  <2>3. Saying("summarise", SummaryLines(a, b))
    BY <1>3, <2>1, <2>2 DEF Summarise, Saying, Pace, Advance, batteryVars
  <2> QED BY <2>3
<1>4. ASSUME NEW o, RunNamedTest(o) PROVE \E lines : Saying("run_test", lines)
  <2>1. PICK lines \in Seq(Remarks) \ {<< >>} : SayNow(lines)
    BY <1>4, SaidByStatement DEF RunNamedTest
  <2>2. lines \in Seq(LinesSaid)
    <3>1. Remarks \subseteq LinesSaid BY LinesAre
    <3> QED BY <2>1, <3>1, SeqMonotonic
  <2>3. Saying("run_test", lines)
    BY <1>4, <2>1, <2>2 DEF RunNamedTest, Saying, Pace, Advance, batteryVars
  <2> QED BY <2>3
<1>5. ASSUME NEW o, RunFile(o)
      PROVE  (\E lines : Saying("run_file", lines)) \/ \E lines : Leaving(lines)
  <2>1. PICK lines \in Seq(Remarks) \ {<< >>} : SayNow(lines)
    BY <1>5, SaidByStatement DEF RunFile
  <2>2. lines \in Seq(LinesSaid)
    <3>1. Remarks \subseteq LinesSaid BY LinesAre
    <3> QED BY <2>1, <3>1, SeqMonotonic
  <2>3. CASE o = "pass"
    <3>1. Saying("run_file", lines)
      BY <1>5, <2>1, <2>2, <2>3 DEF RunFile, Saying, Pace, AdvanceOrThrow, batteryVars
    <3> QED BY <3>1
  <2>4. CASE o # "pass"
    <3>1. PICK code : todo' = <<Thrower(code)>> BY <1>5, <2>4 DEF RunFile, AdvanceOrThrow, Thrower
    <3>2. Throwing' BY <3>1, ThrowerIs DEF Throwing
    <3>3. Leaving(lines)
      BY <1>5, <2>1, <3>2 DEF RunFile, Leaving, AdvanceOrThrow, batteryVars
    <3> QED BY <3>3
  <2> QED BY <2>3, <2>4
<1>6. CASE Pause
  <2>1. Silent("pause")
    BY <1>6 DEF Pause, Silent, Pace, Advance, Silently, batteryVars, Out!PauseEnter, Out!MainUnchanged,
      Out!producerVars
  <2> QED BY <2>1
<1>7. CASE Restart
  <2>1. Silent("restart")
    BY <1>7 DEF Restart, Silent, Pace, Advance, Silently, batteryVars, Out!RestartWithSameFile,
      Out!Restart, Out!MainUnchanged, Out!producerVars
  <2> QED BY <2>1
<1>8. CASE RestartWithFile
  <2>1. Silent("restart_with_file")
    BY <1>8 DEF RestartWithFile, Silent, Pace, Advance, Silently, batteryVars, Out!Restart,
      Out!MainUnchanged, Out!producerVars
  <2> QED BY <2>1
<1>9. CASE TakePath
  <2>1. Silent("take_path")
    BY <1>9 DEF TakePath, Silent, Pace, Advance, Silently, batteryVars, outVars
  <2> QED BY <2>1
<1>10. CASE Execute
  <2>1. Silent("execute")
    BY <1>10 DEF Execute, Silent, Pace, Advance, Silently, outVars, Battery!Start
  <2> QED BY <2>1
<1>11. CASE WaitJoin
  <2>1. Silent("wait_join")
    BY <1>11 DEF WaitJoin, Silent, Pace, Advance, Silently, outVars, Battery!Return
  <2> QED BY <2>1
<1>12. CASE NoThread
  <2>1. Statement("execute") /\ UNCHANGED <<parsed, stage, path, detail, phase, spoken, speech, outVars>>
    BY <1>12 DEF NoThread, AdvanceOrThrow, Silently, batteryVars
  <2>2. todo' = <<Thrower("exit_minus_1")>> BY <1>12 DEF NoThread, AdvanceOrThrow, Thrower
  <2>3. Throwing' BY <2>2, ThrowerIs DEF Throwing
  <2>4. SayNow(<< >>)
    <3>1. Main \in Producers /\ speech[Main] = << >> BY <2>1 DEF Statement, Producers
    <3>2. speech \in [Producers -> Seq(LinesSaid)] BY DEF Prepared, AppTypes
    <3> QED BY <2>1, <3>1, <3>2 DEF SayNow
  <2>5. Leaving(<< >>) BY <2>1, <2>3, <2>4, EmptySeq DEF Leaving
  <2> QED BY <2>5
<1>13. CASE Throw \/ Return
  <2>1. Following BY <1>13, RunningFollows DEF Throw, Return, Statement, Prepared
  <2>2. stage' # "parsing" /\ UNCHANGED <<outVars, parsed, todo, path, detail, phase, speech, spoken>>
    <3>1. CASE Return BY <3>1 DEF Return, batteryVars
    <3>2. CASE Throw
      <4>1. todo # << >> /\ Throwing BY <3>2 DEF Throw, Statement, Throwing
      <4>2. \E code \in {"exit_0", "exit_minus_1"} : todo = <<Thrower(code)>>
        BY <2>1, <4>1, InOrOut DEF Prepared, InScript
      <4>3. stage' \in {"exit_0", "exit_minus_1"} BY <3>2, <4>2, ThrowerIs DEF Throw
      <4> QED BY <3>2, <4>3 DEF Throw, batteryVars
    <3> QED BY <1>13, <3>1, <3>2
  <2> QED BY <2>1, <2>2 DEF Idling, Still, Following
<1> QED BY <1>1, <1>2, <1>3, <1>4, <1>5, <1>6, <1>7, <1>8, <1>9, <1>10, <1>11, <1>12, <1>13 DEF MainStep

\* A worker only works.
LEMMA WorkerDeeds ==
  ASSUME Prepared, Control, NEW w \in Workers, WorkerStep(w)
  PROVE  Working(w)
<1>1. Running /\ UNCHANGED <<outVars, spoken, parsed, todo, path, detail, stage>>
  BY DEF WorkerStep, RunTest, Report, PopNothing, mainVars
<1>2. Following BY <1>1, RunningFollows DEF Prepared
<1>3. phase = "running" /\ phase' = phase
  <2>1. ASSUME doing[w] # NoTest PROVE phase = "running" BY <2>1 DEF Control, Active
  <2> QED BY <2>1 DEF WorkerStep, RunTest, Report, PopNothing, Battery!RunTest, Battery!Report, batteryVars
<1>4. speech \in [Producers -> Seq(LinesSaid)] /\ w \in Producers
  BY DEF Prepared, AppTypes, Producers
<1>5. /\ \A p \in Producers \ {w} : speech'[p] = speech[p]
      /\ speech'[w] = speech[w] \/ speech'[w] \in Seq(Talks)
  BY <1>4, WorkerLines DEF WorkerStep, RunTest, Report, PopNothing
<1> QED BY <1>1, <1>2, <1>3, <1>5 DEF Working, Still, Following

\* A step of the queue takes an item or moves one that was taken.
LEMMA QueueDeeds ==
  ASSUME Prepared, Control, QueueStep(QueueMoves)
  PROVE  (\E p \in Producers : QueueStep(Out!Enqueue(p)) /\ Still) \/ Moving
<1>1. Still /\ UNCHANGED <<speech, spoken>>
  BY RunningFollows DEF QueueStep, Still, Following, mainVars, batteryVars
<1>2. ppc \in [Producers -> Out!ProducerPCs] BY DEF Prepared, Queue, Out!IndInv, Out!TypeOK
<1>3. ASSUME NEW p \in Producers, Out!NotifyOne(p) PROVE Moving
  BY <1>1, <1>2, <1>3 DEF Out!NotifyOne, Moving, Pending, Out!mainVars
<1>4. CASE Out!PauseStep
  <2>1. UNCHANGED <<accepted, made, item, suppress, ppc>>
    BY <1>4 DEF Out!PauseStep, Out!PauseRelock, Out!PauseRequestStop, Out!PauseNotify,
      Out!PauseJoin, Out!MainUnchanged, Out!producerVars
  <2> QED BY <1>1, <1>4, <2>1 DEF Moving, Pending
<1>5. CASE Out!ConsumerStep
  <2>1. UNCHANGED <<accepted, made, item, suppress, ppc>>
    BY <1>5 DEF Out!ConsumerStep, Out!LoopTop, Out!LockAndLook, Out!Block, Out!NotifyEmpty,
      Out!CheckStop, Out!Write, Out!WriteFile, Out!ConsumerUnchanged, Out!producerVars
  <2> QED BY <1>1, <1>5, <2>1 DEF Moving, Pending
<1>6. CASE Out!SpuriousWake \/ Out!PauseSpuriousWake
  <2>1. UNCHANGED <<accepted, made, item, suppress, ppc, file, paused, output>>
    BY <1>6 DEF Out!SpuriousWake, Out!PauseSpuriousWake, Out!ConsumerUnchanged, Out!MainUnchanged,
      Out!producerVars
  <2> QED BY <1>1, <2>1 DEF Moving, Pending
<1> QED BY <1>1, <1>3, <1>4, <1>5, <1>6 DEF QueueStep, QueueMoves

\* What a step can be.
LEMMA Deeds ==
  ASSUME Prepared, Control, [Next]_vars
  PROVE  \/ Parse
         \/ \E kind, lines : Saying(kind, lines)
         \/ \E lines : Leaving(lines)
         \/ \E kind : Silent(kind)
         \/ \E w \in Workers : Working(w)
         \/ \E p \in Producers : CloseProxy(p) /\ Still
         \/ \E p \in Producers : QueueStep(Out!Enqueue(p)) /\ Still
         \/ Moving
         \/ Idling
<1>1. CASE OwnStep
  <2>1. ASSUME NEW f, RemoveFile(f) PROVE Idling
    BY <2>1, RunningFollows DEF RemoveFile, Idling, Still, Following, mainVars, batteryVars
  <2> QED BY <1>1, <2>1, MainDeeds, WorkerDeeds DEF OwnStep
<1>2. ASSUME NEW p \in Producers, CloseProxy(p) PROVE Still
  BY <1>2 DEF CloseProxy, Still, Following, mainVars, batteryVars
<1>3. CASE UNCHANGED restVars
  BY <1>3 DEF restVars, mainVars, batteryVars, Idling, Still, Following
<1> QED BY <1>1, <1>2, <1>3, QueueDeeds, StepClasses DEF Waiting

-----------------------------------------------------------------------------
(* What the queue has taken keeps what was said of it.                      *)

Told(n) == LabelOf(accepted[n])
LastSaid(p) == spoken[p][made[p]]

\* Each item bears the number of a thing that its thread said.
Numbered ==
  \A n \in 1..Len(accepted) :
    accepted[n].from \in Producers /\ accepted[n].no \in 1..made[accepted[n].from]

\* The types of the histories.
LEMMA Counting ==
  ASSUME Prepared
  PROVE  /\ made \in [Producers -> Nat] /\ spoken \in [Producers -> Seq(Labels)]
         /\ speech \in [Producers -> Seq(LinesSaid)] /\ ppc \in [Producers -> Out!ProducerPCs]
         /\ DOMAIN item = Producers
         /\ accepted \in Seq(Out!Item) /\ Len(accepted) \in Nat
         /\ Main \in Producers /\ Main \notin Workers /\ Workers \subseteq Producers
<1>1. MaxItems \in Nat /\ made \in [Producers -> 0..MaxItems]
  BY ApplicationAssumption DEF Prepared, Queue, Out!IndInv, Out!TypeOK
<1>2. made \in [Producers -> Nat] BY <1>1
<1>3. accepted \in Seq(Out!Item) /\ Len(accepted) \in Nat
  BY LenProperties DEF Prepared, Queue, Out!IndInv, Out!TypeOK
<1> QED BY <1>2, <1>3, ApplicationAssumption
      DEF Prepared, AppTypes, Queue, Out!IndInv, Out!TypeOK, Producers

\* A line is said: the last thing said is it, and what was said before stays.
LEMMA Telling ==
  ASSUME Prepared, Control, Voices, NEW p \in Producers, CloseProxy(p)
  PROVE  /\ ~ suppress /\ UNCHANGED <<accepted, output, suppress, file, paused, cpc, held, queue, doing>>
         /\ Head(speech[p]) \in LinesSaid /\ speech[p] # << >> /\ speech'[p] = Tail(speech[p])
         /\ speech[p] \in Seq(LinesSaid)
         /\ \A q \in Producers \ {p} : speech'[q] = speech[q]
         /\ Pending(p)' /\ \A q \in Producers \ {p} : Pending(q)' <=> Pending(q)
         /\ made'[p] = made[p] + 1 /\ \A q \in Producers \ {p} : made'[q] = made[q]
         /\ spoken'[p] = Append(spoken[p], Head(speech[p]).what)
         /\ LastSaid(p)' = Head(speech[p]).what
         /\ \A k \in 1..made[p] : spoken'[p][k] = spoken[p][k]
         /\ \A q \in Producers \ {p} : spoken'[q] = spoken[q] /\ item'[q] = item[q]
         /\ item'[p][1] = New(p)
<1>1. Tells(p) BY TellsIt
<1>2. Head(speech[p]) \in LinesSaid BY CloseKept DEF Prepared
<1>3. /\ made' = [made EXCEPT ![p] = @ + 1] /\ ppc' = [ppc EXCEPT ![p] = "enqueue"]
      /\ item' = [item EXCEPT ![p] = <<New(p)>>]
      /\ spoken' = [spoken EXCEPT ![p] = Append(@, Head(speech[p]).what)]
      /\ speech' = [speech EXCEPT ![p] = Tail(@)]
  BY <1>1 DEF Tells
<1>4. /\ ppc'[p] = "enqueue" /\ \A q \in Producers \ {p} : ppc'[q] = ppc[q]
      /\ made'[p] = made[p] + 1 /\ \A q \in Producers \ {p} : made'[q] = made[q]
      /\ speech'[p] = Tail(speech[p]) /\ \A q \in Producers \ {p} : speech'[q] = speech[q]
      /\ item'[p] = <<New(p)>> /\ \A q \in Producers \ {p} : item'[q] = item[q]
      /\ spoken'[p] = Append(spoken[p], Head(speech[p]).what)
      /\ \A q \in Producers \ {p} : spoken'[q] = spoken[q]
  BY <1>3, Counting
<1>5. spoken[p] \in Seq(Labels) /\ made[p] = Len(spoken[p]) /\ Head(speech[p]).what \in Labels
  BY <1>2, Counting DEF Voices, LinesSaid
<1>6. /\ spoken'[p][Len(spoken[p]) + 1] = Head(speech[p]).what
      /\ \A k \in 1..Len(spoken[p]) : spoken'[p][k] = spoken[p][k]
  <2> HIDE DEF Labels
  <2> QED BY <1>4, <1>5, AppendProperties
<1>7. LastSaid(p)' = Head(speech[p]).what BY <1>4, <1>5, <1>6 DEF LastSaid
<1>8. \A k \in 1..made[p] : spoken'[p][k] = spoken[p][k] BY <1>5, <1>6
<1>9. Pending(p)' /\ \A q \in Producers \ {p} : Pending(q)' <=> Pending(q) BY <1>4 DEF Pending
<1>10. /\ ~ suppress /\ UNCHANGED <<accepted, output, suppress, file, paused, cpc, held, queue, doing>>
       /\ speech[p] # << >>
  BY <1>1 DEF Tells, workVars
<1>11. item'[p][1] = New(p) BY <1>4
<1>12. speech[p] \in Seq(LinesSaid) BY Counting
<1> QED BY <1>2, <1>4, <1>7, <1>8, <1>9, <1>10, <1>11, <1>12

\* When the queue takes an item, it is the last thing its thread said.
LEMMA Taking ==
  ASSUME Prepared, Control, Voices, NEW p \in Producers, QueueStep(Out!Enqueue(p))
  PROVE  /\ ~ suppress /\ Pending(p)
         /\ UNCHANGED <<made, spoken, speech, output, suppress, file, paused, cpc, held, doing>>
         /\ ~ Pending(p)' /\ \A q \in Producers \ {p} : (Pending(q)' <=> Pending(q)) /\ item'[q] = item[q]
         /\ item[p][1] \in Out!Item /\ item[p][1].from = p /\ item[p][1].no = made[p]
         /\ Len(accepted') = Len(accepted) + 1 /\ accepted'[Len(accepted) + 1] = item[p][1]
         /\ \A n : n = Len(accepted) + 1 => Told(n)' = LastSaid(p)
         /\ \A n \in 1..Len(accepted) : accepted'[n] = accepted[n]
<1>1. /\ Takes(p) /\ item[p][1] \in Out!Item
      /\ Len(accepted') = Len(accepted) + 1 /\ accepted'[Len(accepted) + 1] = item[p][1]
      /\ \A n \in 1..Len(accepted) : accepted'[n] = accepted[n]
  BY TakesIt
<1>2. item[p][1].from = p /\ item[p][1].no = made[p] BY <1>1 DEF Takes, Voices
<1>3. /\ ~ suppress /\ Pending(p)
      /\ UNCHANGED <<made, spoken, speech, output, suppress, file, paused, cpc, held, doing>>
      /\ ppc' = [ppc EXCEPT ![p] = "notify"] /\ item' = [item EXCEPT ![p] = << >>]
  BY <1>1 DEF Takes, workVars
<1>4. ~ Pending(p)' /\ \A q \in Producers \ {p} : (Pending(q)' <=> Pending(q)) /\ item'[q] = item[q]
  BY <1>3, Counting DEF Pending
<1>5. \A n : n = Len(accepted) + 1 => Told(n)' = LastSaid(p)
  BY <1>1, <1>2, <1>3 DEF Told, LabelOf, LastSaid
<1> QED BY <1>1, <1>2, <1>3, <1>4, <1>5

\* Every step keeps Numbered.
LEMMA NumberedKept ==
  ASSUME Prepared, Control, Voices, Numbered, [Next]_vars
  PROVE  Numbered'
<1>1. CASE \E p \in Producers : CloseProxy(p)
  <2>1. PICK p \in Producers : CloseProxy(p) BY <1>1
  <2>2. \A q \in Producers : made'[q] \in Nat /\ made[q] \in Nat /\ made'[q] >= made[q]
    <3>1. made'[p] = made[p] + 1 /\ \A q \in Producers \ {p} : made'[q] = made[q] BY <2>1, Telling
    <3>2. \A q \in Producers : made[q] \in Nat BY Counting
    <3> QED BY <3>1, <3>2
  <2>3. UNCHANGED accepted BY <2>1, Telling
  <2> QED BY <2>2, <2>3 DEF Numbered
<1>2. CASE \E p \in Producers : QueueStep(Out!Enqueue(p))
  <2>1. PICK p \in Producers : QueueStep(Out!Enqueue(p)) BY <1>2
  <2>2. /\ item[p][1] \in Out!Item /\ item[p][1].from = p /\ item[p][1].no = made[p]
        /\ Len(accepted') = Len(accepted) + 1 /\ accepted'[Len(accepted) + 1] = item[p][1]
        /\ \A n \in 1..Len(accepted) : accepted'[n] = accepted[n]
    BY <2>1, Taking
  <2>3. UNCHANGED made BY <2>1, Taking
  <2>4. made[p] \in 1..made[p]
    <3>1. item[p][1].no \in 1..MaxItems /\ MaxItems \in Nat BY <2>2, ApplicationAssumption DEF Out!Item
    <3> QED BY <2>2, <3>1
  <2>5. Len(accepted) \in Nat BY Counting
  <2> QED BY <2>2, <2>3, <2>4, <2>5 DEF Numbered
<1>3. CASE Listens BY <1>3 DEF Listens, Numbered
<1> QED BY <1>1, <1>2, <1>3, Histories

\* What the queue has taken, and what was said of it, stays.
LEMMA ToldStays ==
  ASSUME Prepared, Control, Voices, Numbered, [Next]_vars
  PROVE  /\ Len(accepted) \in Nat /\ Len(accepted') \in Nat /\ Len(accepted') >= Len(accepted)
         /\ \A n \in 1..Len(accepted) : accepted'[n] = accepted[n] /\ Told(n)' = Told(n)
<1>0. Len(accepted) \in Nat BY Counting
<1>1. CASE \E p \in Producers : CloseProxy(p)
  <2>1. PICK p \in Producers : CloseProxy(p) BY <1>1
  <2>2. /\ UNCHANGED accepted /\ \A k \in 1..made[p] : spoken'[p][k] = spoken[p][k]
        /\ \A q \in Producers \ {p} : spoken'[q] = spoken[q]
    BY <2>1, Telling
  <2>3. \A n \in 1..Len(accepted) : Told(n)' = Told(n)
    BY <2>2 DEF Numbered, Told, LabelOf
  <2> QED BY <1>0, <2>2, <2>3
<1>2. CASE \E p \in Producers : QueueStep(Out!Enqueue(p))
  <2>1. PICK p \in Producers : QueueStep(Out!Enqueue(p)) BY <1>2
  <2>2. /\ Len(accepted') = Len(accepted) + 1
        /\ \A n \in 1..Len(accepted) : accepted'[n] = accepted[n] /\ UNCHANGED spoken
    BY <2>1, Taking
  <2>3. \A n \in 1..Len(accepted) : Told(n)' = Told(n)
    BY <2>2 DEF Told, LabelOf
  <2> QED BY <1>0, <2>2, <2>3
<1>3. CASE Listens
  <2>1. UNCHANGED <<accepted, spoken>> BY <1>3 DEF Listens
  <2> QED BY <1>0, <2>1 DEF Told, LabelOf
<1> QED BY <1>1, <1>2, <1>3, Histories

-----------------------------------------------------------------------------
(* What the threads say.                                                    *)

\* Workers talk of tests only.
WorkersSay == \A w \in Workers : spoken[w] \in Seq(WorkerLabels) /\ speech[w] \in Seq(Talks)

\* What the main thread may have said so far.
Due(label) ==
  /\ label # "test"
  /\ label \in {"summary", "detail"} => Battle /\ (Throwing \/ Begun >= B + 7)
  /\ label \in {"wrote_detail", "unable_to_verify"} => Battle /\ (Throwing \/ Begun >= C + 4)
  /\ label = "wrote_detail" => detail
  /\ label = "unable_to_verify" => ~ detail

\* The results are on the way only in the statement that tells them.
ResultsNow(label) == label \in {"summary", "detail"} => Begun = B + 7 /\ ~ Throwing

\* The main thread has said, and is about to say, what is due.
MainTalks ==
  Following =>
    /\ \A n \in 1..Len(spoken[Main]) : Due(spoken[Main][n])
    /\ \A n \in 1..Len(speech[Main]) : Due(speech[Main][n].what) /\ ResultsNow(speech[Main][n].what)
    /\ Pending(Main) => ResultsNow(LastSaid(Main))

\* The result file is open from the restart before the battery to the pause
\* before the announcement.
FileThere ==
  Following /\ Battle /\ ~ Throwing =>
    /\ B + 2 =< Begun /\ Begun =< C + 2 /\ ~ (Begun = C + 2 /\ paused) => file
    /\ Begun >= C + 1 => path

\* The number of threads is told before the battery starts.
ThreadsTold ==
  Following /\ Battle /\ ~ Throwing =>
    /\ Begun = B + 3 => \/ speech[Main] = <<Cout("threads")>>
                        \/ Pending(Main) /\ LastSaid(Main) = "threads"
                        \/ \E n \in 1..Len(accepted) : Told(n) = "threads"
    /\ Begun >= B + 4 => \E n \in 1..Len(accepted) : Told(n) = "threads"

\* What the beginning of a statement says of the script.
LEMMA Pacing ==
  ASSUME Prepared, NEW kind, kind # "throw", Pace(kind)
  PROVE  /\ Following /\ Following' /\ ~ Throwing /\ ~ Throwing' /\ Begun' = Begun + 1 /\ Begun \in Nat
         /\ UNCHANGED <<Command, TheScript, Battle, B, C>>
         /\ B \in Nat /\ C \in Nat /\ C = B + (IF Command = << >> THEN 7 ELSE 8)
         /\ Battle => StatedAt(TheScript, B, C, Begun + 1) /\ BattleScript(Command, TheScript, B, C)
         /\ ~ Battle => kind \in {"say", "run_file", "run_test"}
                        \/ (kind = "pause" /\ Begun + 1 = Len(TheScript))
         /\ TheScript[Begun + 1].do = kind /\ Head(todo) = TheScript[Begun + 1]
         /\ speech[Main] = << >> /\ ~ Pending(Main) /\ mpc = "idle" /\ Len(TheScript) \in Nat
         /\ Begun + 1 =< Len(TheScript)
         /\ Battle => Len(TheScript) >= C + 5
<1>1. /\ Following /\ Following' /\ ~ Throwing /\ ~ Throwing' /\ Begun' = Begun + 1 /\ Begun \in Nat
      /\ UNCHANGED <<Command, TheScript, Battle, B, C>>
      /\ Head(todo) = TheScript[Begun + 1] /\ Len(TheScript) \in Nat /\ Begun < Len(TheScript)
  BY Stating DEF Pace
<1>2. /\ B \in Nat /\ C \in Nat
      /\ Battle => StatedAt(TheScript, B, C, Begun + 1)
      /\ ~ Battle => kind \in {"say", "run_file", "run_test"}
                        \/ (kind = "pause" /\ Begun + 1 = Len(TheScript))
      /\ TheScript[Begun + 1].do = kind
  BY Placing DEF Pace
<1>3. speech[Main] = << >> /\ ~ Pending(Main) /\ mpc = "idle" BY DEF Pace, Statement, Pending
<1>4. C = B + (IF Command = << >> THEN 7 ELSE 8) BY DEF C, B, AnnouncedAt
<1>5. Battle => BattleScript(Command, TheScript, B, C) /\ Len(TheScript) >= C + 5
  BY <1>1, TheScriptIs
<1> QED BY <1>1, <1>2, <1>3, <1>4, <1>5

\* Who begins nothing stays in his place of the script.
LEMMA Standing ==
  ASSUME Still
  PROVE  /\ UNCHANGED <<Command, TheScript, Battle, B, C, Begun, Throwing, path, detail, phase>>
         /\ (Following' <=> Following)
BY DEF Still, Command, TheScript, Battle, B, C, Begun, Throwing

\* An exception is thrown outside the battery.
LEMMA LeavingTheScript ==
  ASSUME Prepared, NEW lines, Leaving(lines)
  PROVE  /\ Following /\ Following' /\ ~ Throwing /\ Throwing'
         /\ UNCHANGED <<Command, Battle, B, C, detail>>
         /\ speech[Main] = << >> /\ ~ Pending(Main) /\ UNCHANGED <<accepted, spoken, made, ppc, item>>
         /\ B \in Nat /\ C \in Nat /\ C >= B + 7 /\ Begun \in Nat
         /\ Battle => Begun + 1 =< B + 5 \/ Begun + 1 >= C + 5
<1>1. Following BY RunningFollows DEF Prepared, Leaving, Statement
<1>2. Following' BY <1>1 DEF Following, Leaving
<1>3. todo # << >> /\ Head(todo).do \in {"run_file", "execute"} /\ ~ Throwing
  BY DEF Leaving, Statement, Throwing
<1>4. /\ speech[Main] = << >> /\ ~ Pending(Main)
      /\ Throwing' /\ UNCHANGED <<Command, Battle, B, C, detail, accepted, spoken, made, ppc, item>>
  BY DEF Leaving, Statement, Pending, Command, Battle, B, C, outVars
<1>5. Begun \in Nat /\ Begun + 1 \in 1..Len(TheScript) /\ TheScript[Begun + 1].do \in {"run_file", "execute"}
  BY <1>1, <1>3, AtHand DEF Prepared
<1>6. B \in Nat /\ C \in Nat /\ C >= B + 7 BY <1>1, TheScriptIs
<1>7. Battle => Begun + 1 =< B + 5 \/ Begun + 1 >= C + 5
  <2> SUFFICES ASSUME Battle PROVE Begun + 1 =< B + 5 \/ Begun + 1 >= C + 5
    OBVIOUS
  <2>1. StatedAt(TheScript, B, C, Begun + 1) BY <1>1, <1>5, TheScriptIs
  <2> QED BY <1>5, <1>6, <2>1 DEF StatedAt
<1> QED BY <1>1, <1>2, <1>3, <1>4, <1>5, <1>6, <1>7

\* What is due stays so.
LEMMA DueStays ==
  ASSUME Prepared, Control, [Next]_vars, Following, NEW label, Due(label)
  PROVE  Due(label)' /\ Following'
<1>1. ASSUME NEW kind, kind # "throw", Pace(kind), detail' = detail \/ kind = "restart_with_file"
      PROVE  Due(label)' /\ Following'
  <2>1. /\ Following' /\ ~ Throwing /\ ~ Throwing' /\ Begun' = Begun + 1 /\ Begun \in Nat
        /\ UNCHANGED <<Battle, B, C>> /\ B \in Nat /\ C \in Nat /\ C >= B + 7
    BY <1>1, Pacing
  <2>2. CASE detail' = detail
    BY <2>1, <2>2 DEF Due
  <2>3. CASE kind = "restart_with_file"
    <3>1. Battle => Begun + 1 = B + 2 BY <1>1, <2>3, Pacing DEF StatedAt
    <3>2. label \notin {"wrote_detail", "unable_to_verify"} BY <2>1, <3>1 DEF Due
    <3> QED BY <2>1, <3>2 DEF Due
  <2> QED BY <1>1, <2>2, <2>3
<1>2. ASSUME NEW kind, NEW lines, Saying(kind, lines) PROVE Due(label)' /\ Following'
  <2>1. kind # "throw" /\ Pace(kind) /\ detail' = detail BY <1>2 DEF Saying
  <2> QED BY <1>1, <2>1
<1>3. ASSUME NEW kind, Silent(kind) PROVE Due(label)' /\ Following'
  <2>1. kind # "throw" /\ Pace(kind) /\ (detail' = detail \/ kind = "restart_with_file")
    BY <1>3 DEF Silent
  <2> QED BY <1>1, <2>1
<1>4. ASSUME NEW lines, Leaving(lines) PROVE Due(label)' /\ Following'
  BY <1>4, LeavingTheScript DEF Due
<1>5. ASSUME Still PROVE Due(label)' /\ Following'
  BY <1>5, Standing DEF Due
<1>6. CASE Parse
  BY <1>6 DEF Parse, Following
<1>7. ASSUME NEW w \in Workers, Working(w) PROVE Still BY <1>7 DEF Working
<1>8. Moving \/ Idling => Still BY DEF Moving, Idling
<1> QED BY <1>2, <1>3, <1>4, <1>5, <1>6, <1>7, <1>8, Deeds

\* Every step keeps WorkersSay.
LEMMA WorkersSayKept ==
  ASSUME Prepared, Control, Voices, WorkersSay, [Next]_vars
  PROVE  WorkersSay'
<1>1. ASSUME NEW lines, SayNow(lines), UNCHANGED spoken PROVE WorkersSay'
  <2>1. \A w \in Workers : speech'[w] = speech[w] BY <1>1, Counting DEF SayNow
  <2> QED BY <1>1, <2>1 DEF WorkersSay
<1>2. ASSUME UNCHANGED <<speech, spoken>> PROVE WorkersSay'
  BY <1>2 DEF WorkersSay
<1>3. ASSUME NEW w \in Workers, Working(w) PROVE WorkersSay'
  BY <1>3, Counting DEF Working, WorkersSay
<1>4. ASSUME NEW p \in Producers, CloseProxy(p) PROVE WorkersSay'
  <2>1. /\ \A q \in Producers \ {p} : speech'[q] = speech[q] /\ spoken'[q] = spoken[q]
        /\ speech[p] # << >> /\ speech'[p] = Tail(speech[p])
        /\ spoken'[p] = Append(spoken[p], Head(speech[p]).what)
    BY <1>4, Telling
  <2>2. p \in Workers => spoken'[p] \in Seq(WorkerLabels) /\ speech'[p] \in Seq(Talks)
    <3> SUFFICES ASSUME p \in Workers PROVE spoken'[p] \in Seq(WorkerLabels) /\ speech'[p] \in Seq(Talks)
      OBVIOUS
    <3>1. spoken[p] \in Seq(WorkerLabels) /\ speech[p] \in Seq(Talks) BY DEF WorkersSay
    <3>2. Head(speech[p]) \in Talks /\ Tail(speech[p]) \in Seq(Talks)
      BY <2>1, <3>1, HeadTailProperties
    <3>3. Head(speech[p]).what \in WorkerLabels BY <3>2 DEF Talks
    <3> HIDE DEF WorkerLabels
    <3> QED BY <2>1, <3>1, <3>2, <3>3, AppendProperties
  <2>3. Workers \subseteq Producers BY Counting
  <2> QED BY <2>1, <2>2, <2>3 DEF WorkersSay
<1>5. ASSUME NEW p \in Producers, QueueStep(Out!Enqueue(p)) PROVE WorkersSay'
  <2>1. UNCHANGED <<speech, spoken>> BY <1>5, Taking
  <2> QED BY <1>2, <2>1
<1>6. ASSUME NEW kind, NEW lines, Saying(kind, lines) PROVE WorkersSay'
  BY <1>1, <1>6 DEF Saying
<1>7. ASSUME NEW lines, Leaving(lines) PROVE WorkersSay'
  BY <1>1, <1>7 DEF Leaving
<1>8. Parse \/ (\E kind : Silent(kind)) \/ Moving \/ Idling => UNCHANGED <<speech, spoken>>
  BY DEF Parse, Silent, Moving, Idling
<1> QED BY <1>2, <1>3, <1>4, <1>5, <1>6, <1>7, <1>8, Deeds

\* The summary tells results, and with a file it does not end with their number.
LEMMA SummaryLabels ==
  ASSUME NEW a, NEW b, NEW n \in 1..Len(SummaryLines(a, b))
  PROVE  /\ SummaryLines(a, b)[n].what \in {"nothing", "summary", "detail"}
         /\ file /\ n = Len(SummaryLines(a, b)) => SummaryLines(a, b)[n].what # "summary"
<1>1. \A r, l : Line(r, l).what = l BY DEF Line
<1>2. \A r : Nothing(r).what = "nothing" BY DEF Nothing
<1> DEFINE f == Fout("detail")  c == Cout("summary")  e == Cerr("summary")
           k == Nothing("cerr_proxy")  m == Nothing("file_out_proxy")
           x == IF b = {} THEN k ELSE e  y == IF a \cup b = {} THEN m ELSE f
<1>3. f.what = "detail" /\ c.what = "summary" /\ e.what = "summary" /\ k.what = "nothing" /\ m.what = "nothing"
  BY <1>1, <1>2 DEF Fout, Cout, Cerr
<1>4. SummaryLines(a, b) = IF ~ file THEN <<e, c>> ELSE <<x, c, y>> BY DEF SummaryLines
<1> HIDE DEF f, c, e, k, m
<1>5. x.what \in {"nothing", "summary"} /\ y.what \in {"nothing", "detail"} BY <1>3
<1> HIDE DEF x, y
<1>6. CASE ~ file
  <2>1. SummaryLines(a, b) = <<e, c>> BY <1>4, <1>6
  <2>2. n \in 1..2 BY <2>1
  <2>3. n = 1 \/ n = 2 BY <2>2
  <2>4. SummaryLines(a, b)[n] = e \/ SummaryLines(a, b)[n] = c BY <2>1, <2>3
  <2> QED BY <1>3, <1>6, <2>4
<1>7. CASE file
  <2>1. SummaryLines(a, b) = <<x, c, y>> BY <1>4, <1>7
  <2>2. n \in 1..3 /\ Len(SummaryLines(a, b)) = 3 BY <2>1
  <2>3. n = 1 \/ n = 2 \/ n = 3 BY <2>2
  <2>4. /\ SummaryLines(a, b)[n] \in {x, c, y}
        /\ n = 3 => SummaryLines(a, b)[n] = y
    BY <2>1, <2>3
  <2>5. \A l \in {x, c, y} : l.what \in {"nothing", "summary", "detail"} BY <1>3, <1>5
  <2> QED BY <1>5, <2>2, <2>4, <2>5
<1> QED BY <1>6, <1>7

\* Each statement says what is due.
LEMMA DueLines ==
  ASSUME Prepared, FileThere, NEW kind, NEW lines, Saying(kind, lines), NEW n \in 1..Len(lines)
  PROVE  Due(lines[n].what)' /\ ResultsNow(lines[n].what)'
<1> DEFINE l == lines[n].what
<1>1. kind # "throw" /\ Pace(kind) /\ UNCHANGED detail BY DEF Saying
<1>2. /\ Following /\ ~ Throwing /\ ~ Throwing' /\ Begun' = Begun + 1 /\ Begun \in Nat
      /\ UNCHANGED <<Battle, B, C>> /\ B \in Nat /\ C \in Nat /\ C >= B + 7
      /\ Battle => StatedAt(TheScript, B, C, Begun + 1)
      /\ ~ Battle => kind \in {"say", "run_file", "run_test", "pause"}
      /\ TheScript[Begun + 1].do = kind
  BY <1>1, Pacing
<1>3. CASE kind \notin {"summarise", "announce"}
  <2>1. lines \in Seq(Remarks) BY <1>3 DEF Saying
  <2>2. lines[n] \in Remarks BY <2>1, ElementOfSeq
  <2>3. l \notin Results BY <2>2 DEF Remarks
  <2> QED BY <2>3 DEF Results, Due, ResultsNow
<1>4. CASE kind = "summarise"
  <2>1. PICK a, b : lines = SummaryLines(a, b) BY <1>4 DEF Saying
  <2>2. l \in {"nothing", "summary", "detail"} BY <2>1, SummaryLabels
  <2>3. Battle /\ Begun + 1 = B + 7 BY <1>2, <1>4 DEF StatedAt
  <2> HIDE DEF l
  <2>4. Due(l)' BY <1>2, <2>2, <2>3 DEF Due
  <2>5. ResultsNow(l)' BY <1>2, <2>2, <2>3 DEF ResultsNow
  <2> QED BY <2>4, <2>5 DEF l
<1>5. CASE kind = "announce"
  <2>1. lines = Announcement BY <1>5 DEF Saying
  <2>2. Battle /\ Begun + 1 = C + 4 BY <1>2, <1>5 DEF StatedAt
  <2>3. path BY <1>2, <2>2 DEF FileThere
  <2>4. l = IF detail THEN "wrote_detail" ELSE "unable_to_verify"
    <3>1. Cout("wrote_detail").what = "wrote_detail" /\ Cerr("unable_to_verify").what = "unable_to_verify"
      BY DEF Cout, Cerr, Line
    <3> DEFINE x == Cout("wrote_detail")  y == Cerr("unable_to_verify")
    <3>2. lines = IF detail THEN <<x>> ELSE <<y>> BY <2>1, <2>3 DEF Announcement
    <3>3. x.what = "wrote_detail" /\ y.what = "unable_to_verify" BY <3>1
    <3> HIDE DEF x, y
    <3>4. n = 1 BY <3>2
    <3>5. lines[1] = IF detail THEN x ELSE y BY <3>2
    <3> QED BY <3>3, <3>4, <3>5
  <2> HIDE DEF l
  <2>5. Due(l)' BY <1>1, <1>2, <2>2, <2>4 DEF Due
  <2>6. ResultsNow(l)' BY <2>4 DEF ResultsNow
  <2> QED BY <2>5, <2>6 DEF l
<1> QED BY <1>3, <1>4, <1>5

\* Every step keeps MainTalks.
LEMMA MainTalksKept ==
  ASSUME Prepared, Control, Voices, FileThere, MainTalks, [Next]_vars
  PROVE  MainTalks'
<1>1. Main \in Producers /\ speech \in [Producers -> Seq(LinesSaid)]
      /\ \A p \in Producers : made[p] = Len(spoken[p])
  BY Counting DEF Voices
<1>2. \A label : Following /\ Due(label) => Due(label)' /\ Following' BY DueStays
<1>3. ASSUME NEW kind, NEW lines, Saying(kind, lines) PROVE MainTalks'
  <2>1. kind # "throw" /\ Pace(kind) /\ UNCHANGED <<spoken, ppc>> BY <1>3 DEF Saying, outVars
  <2>2. speech'[Main] = lines BY <1>1, <1>3 DEF Saying, SayNow
  <2>3. Following /\ ~ Pending(Main) BY <2>1, Pacing
  <2>4. \A n \in 1..Len(lines) : Due(lines[n].what)' /\ ResultsNow(lines[n].what)'
    BY <1>3, DueLines
  <2> QED BY <1>2, <2>1, <2>2, <2>3, <2>4 DEF MainTalks, Pending
<1>4. ASSUME NEW kind, Silent(kind) PROVE MainTalks'
  <2>1. kind # "throw" /\ Pace(kind) /\ UNCHANGED <<speech, spoken, ppc>> BY <1>4 DEF Silent
  <2>2. Following /\ ~ Pending(Main) /\ speech[Main] = << >> BY <2>1, Pacing
  <2>3. Len(speech'[Main]) = 0 BY <2>1, <2>2, EmptySeq
  <2> QED BY <1>2, <2>1, <2>2, <2>3 DEF MainTalks, Pending
<1>5. ASSUME NEW lines, Leaving(lines) PROVE MainTalks'
  <2>1. Following /\ ~ Pending(Main) /\ UNCHANGED <<spoken, ppc>> BY <1>5, LeavingTheScript
  <2>2. speech'[Main] = lines BY <1>1, <1>5 DEF Leaving, SayNow
  <2>3. \A n \in 1..Len(lines) : lines[n].what \notin Results
    <3>1. lines \in Seq(Remarks) BY <1>5 DEF Leaving
    <3> QED BY <3>1, ElementOfSeq DEF Remarks
  <2>4. \A n \in 1..Len(lines) : Due(lines[n].what)' /\ ResultsNow(lines[n].what)'
    BY <2>3 DEF Results, Due, ResultsNow
  <2> QED BY <1>2, <2>1, <2>2, <2>4 DEF MainTalks, Pending
<1>6. ASSUME Still PROVE (Following' <=> Following) /\ \A label : ResultsNow(label)' <=> ResultsNow(label)
  BY <1>6, Standing DEF ResultsNow
<1>7. ASSUME NEW p \in Producers, CloseProxy(p), Still PROVE MainTalks'
  <2> SUFFICES ASSUME Following PROVE MainTalks'
    BY <1>6, <1>7 DEF MainTalks
  <2>1. CASE p # Main
    <3>1. speech'[Main] = speech[Main] /\ spoken'[Main] = spoken[Main] /\ made'[Main] = made[Main]
          /\ (Pending(Main)' <=> Pending(Main))
      BY <1>1, <1>7, <2>1, Telling
    <3> QED BY <1>2, <1>6, <1>7, <3>1 DEF MainTalks, LastSaid
  <2>2. CASE p = Main
    <3> DEFINE h == Head(speech[Main]).what
    <3>1. /\ speech[Main] # << >> /\ speech'[Main] = Tail(speech[Main]) /\ speech[Main] \in Seq(LinesSaid)
          /\ made'[Main] = made[Main] + 1 /\ LastSaid(Main)' = h
          /\ \A k \in 1..made[Main] : spoken'[Main][k] = spoken[Main][k]
      BY <1>7, <2>2, Telling
    <3>2. /\ Len(speech[Main]) \in Nat \ {0} /\ Head(speech[Main]) = speech[Main][1]
          /\ Len(Tail(speech[Main])) = Len(speech[Main]) - 1
          /\ \A n \in 1..(Len(speech[Main]) - 1) : Tail(speech[Main])[n] = speech[Main][n + 1]
      BY <3>1, HeadTailProperties, LenProperties, EmptySeq
    <3>3. Due(h) /\ ResultsNow(h) BY <3>2 DEF MainTalks
    <3>4. \A n \in 1..Len(speech'[Main]) : Due(speech'[Main][n].what) /\ ResultsNow(speech'[Main][n].what)
      BY <3>1, <3>2 DEF MainTalks
    <3>5. made'[Main] = Len(spoken'[Main])
      <4>1. Voices' BY VoicesKept
      <4> QED BY <1>1, <4>1 DEF Voices
    <3>6. made[Main] \in Nat BY Counting
    <3>7. \A n \in 1..Len(spoken'[Main]) : Due(spoken'[Main][n])
      <4> SUFFICES ASSUME NEW n \in 1..Len(spoken'[Main]) PROVE Due(spoken'[Main][n])
        OBVIOUS
      <4>1. CASE n = made[Main] + 1 BY <3>1, <3>3, <4>1 DEF LastSaid
      <4>2. CASE n # made[Main] + 1
        <5>1. n \in 1..made[Main] BY <3>1, <3>5, <3>6, <4>2
        <5> QED BY <1>1, <3>1, <5>1 DEF MainTalks
      <4> QED BY <4>1, <4>2
    <3> HIDE DEF h
    <3> QED BY <1>2, <1>6, <1>7, <3>1, <3>3, <3>4, <3>7 DEF MainTalks
  <2> QED BY <2>1, <2>2
<1>8. ASSUME Still, UNCHANGED <<spoken, made>>, speech'[Main] = speech[Main],
             Pending(Main)' => Pending(Main)
      PROVE  MainTalks'
  BY <1>2, <1>6, <1>8 DEF MainTalks, LastSaid
<1>9. ASSUME NEW p \in Producers, QueueStep(Out!Enqueue(p)), Still PROVE MainTalks'
  <2>1. UNCHANGED <<spoken, made, speech>> /\ ~ Pending(p)'
        /\ \A q \in Producers \ {p} : Pending(q)' <=> Pending(q)
    BY <1>9, Taking
  <2> QED BY <1>1, <1>8, <1>9, <2>1
<1>10. ASSUME NEW w \in Workers, Working(w) PROVE MainTalks'
  <2>1. UNCHANGED <<spoken, made, ppc>> /\ speech'[Main] = speech[Main] /\ Still
    BY <1>1, <1>10, Counting DEF Working, outVars
  <2> QED BY <1>8, <2>1 DEF Pending
<1>11. CASE Moving
  BY <1>1, <1>8, <1>11 DEF Moving
<1>12. CASE Idling
  <2>1. UNCHANGED <<spoken, made, ppc, speech>> /\ Still BY <1>12 DEF Idling, outVars
  <2> QED BY <1>8, <2>1 DEF Pending
<1>13. CASE Parse
  <2>1. ~ Following /\ UNCHANGED <<spoken, speech, ppc>> BY <1>13 DEF Parse, Following, outVars
  <2>2. spoken[Main] = << >> /\ speech[Main] = << >> /\ ~ Pending(Main)
    BY <1>1, <2>1 DEF Prepared, Fresh, Pending
  <2>3. Len(spoken'[Main]) = 0 /\ Len(speech'[Main]) = 0 /\ ~ Pending(Main)'
    BY <2>1, <2>2, EmptySeq DEF Pending
  <2> QED BY <2>3 DEF MainTalks
<1> QED BY <1>3, <1>4, <1>5, <1>7, <1>9, <1>10, <1>11, <1>12, <1>13, Deeds

-----------------------------------------------------------------------------
(* The battery has its file and its bracket.                                *)

\* Where the main thread is while the queue refuses.
LEMMA WhereSuppressed ==
  ASSUME Prepared, Control, Following, Battle, suppress
  PROVE  /\ ~ Throwing /\ Begun \in Nat
         /\ Begun + 1 =< B \/ Begun = B + 1 \/ Begun = C + 2 \/ Begun >= C + 5
<1>1. ~ Throwing /\ (todo = << >> \/ Head(todo).do \in Restarts) BY DEF Control, OpenToSpeak
<1>2. B \in Nat /\ C \in Nat /\ Len(TheScript) \in Nat /\ Len(TheScript) >= C + 5
  BY TheScriptIs
<1>3. CASE todo = << >>
  <2>1. Len(todo) = 0 BY <1>3, EmptySeq
  <2>2. Begun = Len(TheScript) BY <1>2, <2>1 DEF Begun
  <2> QED BY <1>1, <1>2, <2>2
<1>4. CASE todo # << >>
  <2>1. Begun \in Nat /\ Begun + 1 \in 1..Len(TheScript) /\ TheScript[Begun + 1].do \in Restarts
    BY <1>1, <1>4, AtHand DEF Prepared
  <2>2. StatedAt(TheScript, B, C, Begun + 1) BY <2>1, TheScriptIs
  <2> QED BY <1>1, <1>2, <2>1, <2>2 DEF StatedAt, Restarts
<1> QED BY <1>3, <1>4

\* The file goes away behind a pause that has stopped the thread.
LEMMA FileOfTheQueue ==
  ASSUME Prepared, Moving
  PROVE  \/ UNCHANGED <<file, paused>>
         \/ suppress /\ paused'
<1>1. CASE Out!PauseStep
  BY <1>1 DEF Out!PauseStep, Out!PauseRelock, Out!PauseRequestStop, Out!PauseNotify, Out!PauseJoin,
    Prepared, Queue, Out!IndInv, Out!RefusedOnlyWhilePausing
<1>2. CASE Out!ConsumerStep
  BY <1>2 DEF Out!ConsumerStep, Out!LoopTop, Out!LockAndLook, Out!Block, Out!NotifyEmpty,
    Out!CheckStop, Out!Write, Out!WriteFile, Out!ConsumerUnchanged
<1> QED BY <1>1, <1>2 DEF Moving

\* The script begins.
LEMMA Parsing ==
  ASSUME Prepared, Parse, [Next]_vars
  PROVE  /\ ~ Following
         /\ Following' => Begun' = 0 /\ B' \in Nat /\ C' \in Nat /\ C' >= B' + 7
<1>1. ~ Following BY DEF Parse, Following
<1>2. ASSUME Following' PROVE Begun' = 0 /\ B' \in Nat /\ C' \in Nat /\ C' >= B' + 7
  <2>1. Prepared' BY PreparedInductive
  <2>2. todo' = TheScript' BY <1>2 DEF Parse, Following, TheScript, Command
  <2>3. Command' \in Seq(Switch) BY <1>2, <2>1 DEF Prepared, InScript
  <2>4. Len(Command') \in Nat BY <2>3, LenProperties
  <2>5. Len(TheScript') \in Nat BY <2>4, ScriptIs DEF TheScript
  <2>6. \A c : /\ BattleAt(c) \in Nat /\ AnnouncedAt(c) \in Nat /\ AnnouncedAt(c) >= BattleAt(c) + 7
    BY Places
  <2>7. B' \in Nat /\ C' \in Nat /\ C' >= B' + 7 BY <2>6, Zenon DEF B, C
  <2>8. Begun' = 0 BY <2>2, <2>5 DEF Begun
  <2> QED BY <2>7, <2>8
<1> QED BY <1>1, <1>2

\* Every step keeps FileThere.
LEMMA FileThereKept ==
  ASSUME Prepared, Control, Voices, FileThere, [Next]_vars
  PROVE  FileThere'
<1>1. ASSUME Still, UNCHANGED <<file, paused>> PROVE FileThere'
  BY <1>1, Standing DEF FileThere
<1>2. ASSUME NEW kind, kind # "throw", Pace(kind),
             kind = "pause" => UNCHANGED <<file, paused>> \/ paused',
             kind = "restart_with_file" => file',
             kind \notin {"pause", "restart", "restart_with_file"} => UNCHANGED <<file, paused>>,
             path' = IF kind = "take_path" THEN file ELSE path
      PROVE  FileThere'
  <2>1. /\ Following /\ ~ Throwing /\ Begun' = Begun + 1 /\ Begun \in Nat
        /\ UNCHANGED <<Battle, B, C>> /\ B \in Nat /\ C \in Nat /\ C >= B + 7
        /\ TheScript[Begun + 1].do = kind /\ Begun + 1 =< Len(TheScript) /\ Len(TheScript) \in Nat
        /\ Battle => StatedAt(TheScript, B, C, Begun + 1) /\ Len(TheScript) >= C + 5
    BY <1>2, Pacing
  <2> SUFFICES ASSUME Battle PROVE FileThere'
    BY <2>1 DEF FileThere
  <2>2. /\ kind = "take_path" <=> Begun + 1 = C + 1
        /\ kind = "restart_with_file" <=> Begun + 1 = B + 2
        /\ kind = "restart" => Begun + 1 =< B \/ Begun + 1 = C + 3
        /\ kind = "pause" => Begun + 1 =< B \/ Begun + 1 \in {B + 1, C + 2, Len(TheScript)}
        /\ Len(TheScript) >= C + 5
    BY <2>1 DEF StatedAt
  <2>3. /\ B + 2 =< Begun /\ Begun =< C + 1 => file
        /\ Begun >= C + 1 => path
    BY <2>1 DEF FileThere
  <2>4. Begun' >= C + 1 => path'
    BY <1>2, <2>1, <2>2, <2>3
  <2>5. B + 2 =< Begun' /\ Begun' =< C + 2 /\ ~ (Begun' = C + 2 /\ paused') => file'
    <3>1. CASE kind = "pause" BY <1>2, <2>1, <2>2, <2>3, <3>1
    <3>2. CASE kind = "restart" BY <2>1, <2>2, <3>2
    <3>3. CASE kind = "restart_with_file" BY <1>2, <3>3
    <3>4. CASE kind \notin {"pause", "restart", "restart_with_file"}
      BY <1>2, <2>1, <2>2, <2>3, <3>4
    <3> QED BY <3>1, <3>2, <3>3, <3>4
  <2> QED BY <2>1, <2>4, <2>5 DEF FileThere
<1>3. ASSUME NEW kind, NEW lines, Saying(kind, lines) PROVE FileThere'
  <2>1. /\ kind \notin {"throw", "pause", "restart", "restart_with_file", "take_path"} /\ Pace(kind)
        /\ UNCHANGED <<file, paused, path>>
    BY <1>3 DEF Saying, outVars
  <2> QED BY <1>2, <2>1
<1>4. ASSUME NEW kind, Silent(kind) PROVE FileThere'
  <2>1. kind # "throw" /\ Pace(kind) /\ path' = IF kind = "take_path" THEN file ELSE path
    BY <1>4 DEF Silent
  <2>2. kind = "pause" => UNCHANGED <<file, paused>> \/ paused'
    BY <1>4 DEF Silent, Out!PauseEnter
  <2>3. kind = "restart_with_file" => file'
    BY <1>4 DEF Silent, Out!Restart
  <2>4. kind \notin {"pause", "restart", "restart_with_file"} => UNCHANGED <<file, paused>>
    BY <1>4 DEF Silent, outVars
  <2> QED BY <1>2, <2>1, <2>2, <2>3, <2>4
<1>5. ASSUME NEW lines, Leaving(lines) PROVE FileThere'
  BY <1>5, LeavingTheScript DEF FileThere
<1>6. ASSUME NEW w, Working(w) PROVE FileThere'
  BY <1>1, <1>6 DEF Working, outVars
<1>7. CASE Moving
  <2>1. Still BY <1>7 DEF Moving
  <2>2. CASE UNCHANGED <<file, paused>> BY <1>1, <2>1, <2>2
  <2>3. CASE suppress /\ paused'
    <3> SUFFICES ASSUME Following, Battle, ~ Throwing PROVE FileThere'
      BY <2>1, Standing DEF FileThere
    <3>1. Begun \in Nat /\ (Begun + 1 =< B \/ Begun = B + 1 \/ Begun = C + 2 \/ Begun >= C + 5)
      BY <2>3, WhereSuppressed
    <3>2. UNCHANGED <<Begun, B, C, path>> /\ B \in Nat /\ C \in Nat /\ C >= B + 7
      BY <2>1, Standing, TheScriptIs
    <3> QED BY <2>3, <3>1, <3>2 DEF FileThere
  <2> QED BY <1>7, <2>2, <2>3, FileOfTheQueue
<1>8. CASE Idling BY <1>1, <1>8 DEF Idling, outVars
<1>9. ASSUME NEW p \in Producers, CloseProxy(p), Still PROVE FileThere'
  BY <1>1, <1>9, Telling
<1>10. ASSUME NEW p \in Producers, QueueStep(Out!Enqueue(p)), Still PROVE FileThere'
  BY <1>1, <1>10, Taking
<1>11. CASE Parse
  <2> SUFFICES ASSUME Following', Battle' PROVE FileThere'
    BY DEF FileThere
  <2>1. Begun' = 0 /\ B' \in Nat /\ C' \in Nat BY <1>11, Parsing
  <2>3. \A b, c \in Nat : ~ (b + 2 =< 0) /\ ~ (0 >= c + 1) OBVIOUS
  <2>2. ~ (B' + 2 =< Begun') /\ ~ (Begun' >= C' + 1) BY <2>1, <2>3, Zenon
  <2> QED BY <2>2 DEF FileThere
<1> QED BY <1>3, <1>4, <1>5, <1>6, <1>7, <1>8, <1>9, <1>10, <1>11, Deeds

\* A label that the queue has taken stays taken.
Heard(label) == \E n \in 1..Len(accepted) : Told(n) = label

\* What the queue was told it was told for good.
LEMMA HeardStays ==
  ASSUME Prepared, Control, Voices, Numbered, [Next]_vars, NEW label, Heard(label)
  PROVE  Heard(label)'
<1>1. PICK n \in 1..Len(accepted) : Told(n) = label BY DEF Heard
<1>2. n \in 1..Len(accepted') BY <1>1, ToldStays
<1>3. Told(n)' = label BY <1>1, ToldStays
<1> QED BY <1>2, <1>3 DEF Heard

\* Every step keeps ThreadsTold.
LEMMA ThreadsToldKept ==
  ASSUME Prepared, Control, Voices, Numbered, ThreadsTold, [Next]_vars
  PROVE  ThreadsTold'
<1>1. Heard("threads") => Heard("threads")' BY HeardStays
<1> DEFINE Underway == speech[Main] = <<Cout("threads")>> \/ (Pending(Main) /\ LastSaid(Main) = "threads")
<1>2. ASSUME Still, Underway => Underway' \/ Heard("threads")' PROVE ThreadsTold'
  <2> HIDE DEF Underway
  <2> SUFFICES ASSUME Following, Battle, ~ Throwing PROVE ThreadsTold'
    BY <1>2, Standing DEF ThreadsTold
  <2>1. /\ Begun = B + 3 => Underway \/ Heard("threads")
        /\ Begun >= B + 4 => Heard("threads")
    BY DEF ThreadsTold, Heard, Underway
  <2>2. UNCHANGED <<Begun, B>> BY <1>2, Standing
  <2>3. /\ Begun' = B' + 3 => Underway' \/ Heard("threads")'
        /\ Begun' >= B' + 4 => Heard("threads")'
    BY <1>1, <1>2, <2>1, <2>2
  <2> QED BY <2>3 DEF ThreadsTold, Heard, Underway
<1>3. ASSUME NEW kind, kind # "throw", Pace(kind),
             kind = "say" => SayNow(Head(todo).lines)
      PROVE  ThreadsTold'
  <2>1. /\ Following /\ ~ Throwing /\ Begun' = Begun + 1 /\ Begun \in Nat
        /\ UNCHANGED <<Battle, B>> /\ B \in Nat /\ Head(todo) = TheScript[Begun + 1]
        /\ Battle => StatedAt(TheScript, B, C, Begun + 1) /\ BattleScript(Command, TheScript, B, C)
        /\ TheScript[Begun + 1].do = kind /\ speech[Main] = << >> /\ ~ Pending(Main)
    BY <1>3, Pacing
  <2> SUFFICES ASSUME Battle PROVE ThreadsTold'
    BY <2>1 DEF ThreadsTold
  <2>2. CASE Begun + 1 = B + 3
    <3>1. Head(todo) = Say(<<Cout("threads")>>) BY <2>1, <2>2 DEF BattleScript
    <3>2. kind = "say" /\ Head(todo).lines = <<Cout("threads")>> BY <2>1, <3>1 DEF Say
    <3>3. speech'[Main] = <<Cout("threads")>> BY <1>3, <3>2, Counting DEF SayNow
    <3>4. Begun' = B' + 3 /\ ~ (Begun' >= B' + 4) BY <2>1, <2>2
    <3> QED BY <3>3, <3>4 DEF ThreadsTold
  <2>3. CASE Begun + 1 # B + 3
    <3>1. Begun + 1 >= B + 4 => Heard("threads")
      <4> SUFFICES ASSUME Begun + 1 >= B + 4 PROVE Heard("threads")
        OBVIOUS
      <4>1. Begun = B + 3 \/ Begun >= B + 4 BY <2>1
      <4>2. << >> # <<Cout("threads")>> OBVIOUS
      <4> QED BY <2>1, <4>1, <4>2 DEF ThreadsTold, Heard
    <3>2. /\ Begun' # B' + 3
          /\ Begun' >= B' + 4 => Heard("threads")'
      BY <1>1, <2>1, <2>3, <3>1
    <3> QED BY <3>2 DEF ThreadsTold, Heard
  <2> QED BY <2>2, <2>3
<1>4. ASSUME NEW kind, NEW lines, Saying(kind, lines) PROVE ThreadsTold'
  BY <1>3, <1>4 DEF Saying
<1>5. ASSUME NEW kind, Silent(kind) PROVE ThreadsTold'
  BY <1>3, <1>5 DEF Silent
<1>6. ASSUME NEW lines, Leaving(lines) PROVE ThreadsTold'
  BY <1>6, LeavingTheScript DEF ThreadsTold
<1>7. ASSUME NEW p \in Producers, CloseProxy(p), Still PROVE ThreadsTold'
  <2>1. CASE p # Main
    <3>1. speech'[Main] = speech[Main] /\ spoken'[Main] = spoken[Main] /\ made'[Main] = made[Main]
          /\ (Pending(Main)' <=> Pending(Main))
      BY <1>7, <2>1, Telling, Counting
    <3> QED BY <1>2, <1>7, <3>1 DEF LastSaid
  <2>2. CASE p = Main
    <3>1. /\ speech[Main] # << >> /\ LastSaid(Main)' = Head(speech[Main]).what /\ Pending(Main)'
      BY <1>7, <2>2, Telling
    <3>2. ~ Pending(Main) BY <1>7, <2>2 DEF CloseProxy, Pending
    <3>3. speech[Main] = <<Cout("threads")>> => LastSaid(Main)' = "threads"
      <4>1. Cout("threads").what = "threads" BY DEF Cout, Line
      <4> DEFINE t == Cout("threads")
      <4> HIDE DEF t
      <4>2. Head(<<t>>) = t OBVIOUS
      <4> QED BY <3>1, <4>1, <4>2 DEF t
    <3> QED BY <1>2, <1>7, <3>1, <3>2, <3>3
  <2> QED BY <2>1, <2>2
<1>8. ASSUME NEW p \in Producers, QueueStep(Out!Enqueue(p)), Still PROVE ThreadsTold'
  <2>1. /\ UNCHANGED <<made, spoken, speech>>
        /\ Len(accepted') = Len(accepted) + 1 /\ Len(accepted) \in Nat
        /\ \A n : n = Len(accepted) + 1 => Told(n)' = LastSaid(p)
        /\ \A q \in Producers \ {p} : Pending(q)' <=> Pending(q)
    BY <1>8, Taking, Counting
  <2>2. CASE p # Main
    <3>1. Pending(Main)' <=> Pending(Main) BY <2>1, <2>2, Counting
    <3> QED BY <1>2, <1>8, <2>1, <3>1 DEF LastSaid
  <2>3. CASE p = Main
    <3>1. Pending(Main) /\ LastSaid(Main) = "threads" => Heard("threads")'
      BY <2>1, <2>3 DEF Heard
    <3> QED BY <1>2, <1>8, <2>1, <3>1
  <2> QED BY <2>2, <2>3
<1>9. ASSUME NEW w \in Workers, Working(w) PROVE ThreadsTold'
  <2>1. Still /\ speech'[Main] = speech[Main] /\ UNCHANGED <<spoken, made, ppc>>
    BY <1>9, Counting DEF Working, outVars
  <2> QED BY <1>2, <2>1 DEF LastSaid, Pending
<1>10. CASE Moving
  BY <1>2, <1>10, Counting DEF Moving, LastSaid
<1>11. CASE Idling
  BY <1>2, <1>11 DEF Idling, LastSaid, outVars, Pending
<1>12. CASE Parse
  <2> SUFFICES ASSUME Following', Battle' PROVE ThreadsTold'
    BY DEF ThreadsTold
  <2>1. Begun' = 0 /\ B' \in Nat BY <1>12, Parsing
  <2>2. \A b \in Nat : b + 3 # 0 /\ ~ (0 >= b + 4) OBVIOUS
  <2>3. Begun' # B' + 3 /\ ~ (Begun' >= B' + 4) BY <2>1, <2>2, Zenon
  <2> QED BY <2>3 DEF ThreadsTold
<1> QED BY <1>4, <1>5, <1>6, <1>7, <1>8, <1>9, <1>10, <1>11, <1>12, Deeds

\* Who said what the queue has taken.
LEMMA SaidBy ==
  ASSUME Prepared, Voices, Numbered, WorkersSay, MainTalks, NEW n \in 1..Len(accepted)
  PROVE  /\ Following
         /\ accepted[n].from = Main => Due(Told(n))
         /\ accepted[n].from # Main => accepted[n].from \in Workers /\ Told(n) \in WorkerLabels
<1>1. Following
  <2> SUFFICES ASSUME ~ Following PROVE FALSE
    OBVIOUS
  <2>1. accepted = << >> BY DEF Prepared, Fresh
  <2> QED BY <2>1, EmptySeq
<1>2. /\ accepted[n].from \in Producers /\ accepted[n].no \in 1..made[accepted[n].from]
      /\ made[accepted[n].from] = Len(spoken[accepted[n].from])
  BY DEF Numbered, Voices
<1>3. accepted[n].from = Main => Due(Told(n))
  BY <1>1, <1>2 DEF MainTalks, Told, LabelOf
<1>4. ASSUME accepted[n].from # Main PROVE accepted[n].from \in Workers /\ Told(n) \in WorkerLabels
  <2>1. accepted[n].from \in Workers BY <1>2, <1>4 DEF Producers
  <2>2. spoken[accepted[n].from] \in Seq(WorkerLabels) BY <2>1 DEF WorkersSay
  <2> HIDE DEF WorkerLabels
  <2>3. Told(n) \in WorkerLabels BY <1>2, <2>2, ElementOfSeq DEF Told, LabelOf
  <2> QED BY <2>1, <2>3
<1> QED BY <1>1, <1>3, <1>4

\* BatteryIsBracketed, as the queue has taken the items.
Bracketed ==
  \A n \in 1..Len(accepted) : accepted[n].from \in Workers =>
    /\ \E k \in 1..(n - 1) : Told(k) = "threads"
    /\ \A k \in 1..(n - 1) : Told(k) # "summary"

\* Where the main thread is while a worker talks.
LEMMA WhereActive ==
  ASSUME Prepared, Control, phase = "running"
  PROVE  Following /\ Battle /\ ~ Throwing /\ Begun = B + 5 /\ B \in Nat /\ C \in Nat /\ C >= B + 7
<1>1. Following BY DEF Prepared, Fresh
<1>2. ~ Throwing /\ Battle /\ Begun = B + 5 
  <2>1. B \in Nat BY <1>1, TheScriptIs
  <2> QED BY <1>1, <2>1 DEF Control, Phases
<1> QED BY <1>1, <1>2, TheScriptIs

\* Every step keeps Bracketed: the number of threads is told before the workers run
\* and the summary after they were joined.
LEMMA BracketedKept ==
  ASSUME Prepared, Control, Voices, Numbered, WorkersSay, MainTalks, ThreadsTold, Bracketed, [Next]_vars
  PROVE  Bracketed'
<1>1. /\ Len(accepted) \in Nat /\ Len(accepted') \in Nat
      /\ \A n \in 1..Len(accepted) : accepted'[n] = accepted[n] /\ Told(n)' = Told(n)
  BY ToldStays
<1>2. ASSUME NEW n \in 1..Len(accepted), accepted[n].from \in Workers
      PROVE  /\ \E k \in 1..(n - 1) : Told(k)' = "threads"
             /\ \A k \in 1..(n - 1) : Told(k)' # "summary"
  <2>1. \A k \in 1..(n - 1) : k \in 1..Len(accepted) BY <1>1
  <2> QED BY <1>1, <1>2, <2>1 DEF Bracketed
<1>3. CASE accepted' = accepted
  <2>1. Bracketed' <=> \A n \in 1..Len(accepted) : accepted[n].from \in Workers =>
           /\ \E k \in 1..(n - 1) : Told(k)' = "threads"
           /\ \A k \in 1..(n - 1) : Told(k)' # "summary"
    BY <1>3 DEF Bracketed
  <2> QED BY <1>2, <2>1
<1>4. ASSUME NEW p \in Producers, QueueStep(Out!Enqueue(p)) PROVE Bracketed'
  <2>1. /\ Len(accepted') = Len(accepted) + 1 /\ Pending(p)
        /\ item[p][1].from = p /\ accepted'[Len(accepted) + 1] = item[p][1]
    BY <1>4, Taking
  <2>2. ASSUME p \in Workers
        PROVE  /\ \E k \in 1..Len(accepted) : Told(k)' = "threads"
               /\ \A k \in 1..Len(accepted) : Told(k)' # "summary"
    <3>1. phase = "running" BY <2>1, <2>2 DEF Control, Active, Pending
    <3>2. Following /\ Battle /\ ~ Throwing /\ Begun = B + 5 /\ B \in Nat BY <3>1, WhereActive
    <3>3. Heard("threads") BY <3>2 DEF ThreadsTold, Heard
    <3>4. \A k \in 1..Len(accepted) : Told(k) # "summary"
      <4> SUFFICES ASSUME NEW k \in 1..Len(accepted), Told(k) = "summary" PROVE FALSE
        OBVIOUS
      <4>1. CASE accepted[k].from = Main
        <5>1. Due("summary") BY <4>1, SaidBy
        <5> QED BY <3>2, <5>1 DEF Due
      <4>2. CASE accepted[k].from # Main
        <5>1. "summary" \in WorkerLabels BY <4>2, SaidBy
        <5> QED BY <5>1 DEF WorkerLabels
      <4> QED BY <4>1, <4>2
    <3> QED BY <1>1, <3>3, <3>4 DEF Heard
  <2>3. ASSUME NEW n \in 1..Len(accepted'), accepted'[n].from \in Workers
        PROVE  /\ \E k \in 1..(n - 1) : Told(k)' = "threads"
               /\ \A k \in 1..(n - 1) : Told(k)' # "summary"
    <3>1. CASE n = Len(accepted) + 1
      <4>1. n - 1 = Len(accepted) /\ p \in Workers BY <1>1, <2>1, <2>3, <3>1
      <4> QED BY <2>2, <4>1
    <3>2. CASE n # Len(accepted) + 1
      <4>1. n \in 1..Len(accepted) BY <1>1, <2>1, <3>2
      <4>2. accepted[n].from \in Workers BY <1>1, <2>3, <4>1
      <4> QED BY <1>2, <4>1, <4>2
    <3> QED BY <3>1, <3>2
  <2> QED BY <2>3 DEF Bracketed
<1>5. ASSUME NEW p \in Producers, CloseProxy(p) PROVE Bracketed'
  BY <1>3, <1>5, Telling
<1>6. CASE Listens BY <1>3, <1>6 DEF Listens
<1> QED BY <1>4, <1>5, <1>6, Histories

\* What holds of the words at every moment.
Talked == Numbered /\ WorkersSay /\ MainTalks /\ FileThere /\ ThreadsTold /\ Bracketed

\* Talked holds at first.
LEMMA TalkFirst == Init => Talked
<1> SUFFICES ASSUME Init PROVE Talked
  OBVIOUS
<1>1. /\ accepted = << >> /\ ~ Following /\ \A p \in Producers : spoken[p] = << >> /\ speech[p] = << >>
  BY DEF Init, Out!Init, Following
<1>2. Len(accepted) = 0 BY <1>1, EmptySeq
<1>3. WorkersSay
  <2>1. \A S : << >> \in Seq(S) BY EmptySeq
  <2> QED BY <1>1, <2>1 DEF WorkersSay, Producers
<1>4. Numbered /\ Bracketed BY <1>2 DEF Numbered, Bracketed
<1>5. MainTalks /\ FileThere /\ ThreadsTold BY <1>1 DEF MainTalks, FileThere, ThreadsTold
<1> QED BY <1>3, <1>4, <1>5 DEF Talked

\* What each thread says is what its place in the program allows, always.
THEOREM TalkAlways == Spec => []Talked
<1>1. Prepared /\ Control /\ Voices /\ Talked /\ [Next]_vars => Talked'
  BY NumberedKept, WorkersSayKept, MainTalksKept, FileThereKept, ThreadsToldKept, BracketedKept DEF Talked
<1>2. Spec => []Voices BY NothingIsEverRefused, PTL
<1> QED BY <1>1, <1>2, TalkFirst, PreparedAlways, ControlAlways, PTL DEF Spec

\* Whatever the workers send comes, in the order of the queue, after the number of
\* threads and before the summary (execute_uint128_tests_threaded tells the first
\* before execute(), the second after wait_join()), for every battery and number
\* of threads.
THEOREM TheBatteryIsBracketed == Spec => []BatteryIsBracketed
<1>1. Prepared /\ Control /\ Talked => BatteryIsBracketed
  <2> SUFFICES ASSUME Prepared, Control, Talked PROVE BatteryIsBracketed
    OBVIOUS
  <2>1. ASSUME NEW w \in Workers, doing[w] # NoTest PROVE file
    <3>1. phase = "running" BY <2>1 DEF Control, Active
    <3>2. Following /\ Battle /\ ~ Throwing /\ Begun = B + 5 /\ B \in Nat /\ C \in Nat /\ C >= B + 7
      BY <3>1, WhereActive
    <3> QED BY <3>2 DEF Talked, FileThere
  <2> QED BY <2>1 DEF Talked, Bracketed, Told, BatteryIsBracketed
<1> QED BY <1>1, PreparedAlways, ControlAlways, TalkAlways, PTL

-----------------------------------------------------------------------------
(* What a pause can lose is none of the results.                            *)

\* An item is as its line was.
Fits(i, what) ==
  /\ i.blank = (what = "nothing")
  /\ what = "detail" => i.route = "file_out_proxy"
  /\ what = "summary" => i.route # "file_out_proxy"

\* Every item is as its line was.
Faithful ==
  /\ \A n \in 1..Len(accepted) : Fits(accepted[n], Told(n))
  /\ \A p \in Producers : Pending(p) => Fits(item[p][1], LastSaid(p))

\* Every step keeps Faithful.
LEMMA FaithfulKept ==
  ASSUME Prepared, Control, Voices, Numbered, Faithful, [Next]_vars
  PROVE  Faithful'
<1>1. /\ Len(accepted) \in Nat
      /\ \A n \in 1..Len(accepted) : accepted'[n] = accepted[n] /\ Told(n)' = Told(n)
  BY ToldStays
<1>2. ASSUME NEW p \in Producers, CloseProxy(p) PROVE Faithful'
  <2>1. /\ UNCHANGED accepted /\ item'[p][1] = New(p) /\ LastSaid(p)' = Head(speech[p]).what
        /\ Head(speech[p]) \in LinesSaid
        /\ \A q \in Producers \ {p} : /\ item'[q] = item[q] /\ spoken'[q] = spoken[q]
                                      /\ made'[q] = made[q] /\ (Pending(q)' <=> Pending(q))
    BY <1>2, Telling
  <2>2. Fits(New(p), Head(speech[p]).what)
    BY <2>1 DEF New, LinesSaid, Fits
  <2>3. \A q \in Producers : Pending(q)' => Fits(item'[q][1], LastSaid(q)')
    BY <2>1, <2>2 DEF Faithful, LastSaid
  <2>4. \A n \in 1..Len(accepted') : Fits(accepted'[n], Told(n)')
    BY <1>1, <2>1 DEF Faithful
  <2> QED BY <2>3, <2>4 DEF Faithful, Fits
<1>3. ASSUME NEW p \in Producers, QueueStep(Out!Enqueue(p)) PROVE Faithful'
  <2>1. /\ UNCHANGED <<made, spoken>> /\ Pending(p) /\ ~ Pending(p)'
        /\ \A q \in Producers \ {p} : (Pending(q)' <=> Pending(q)) /\ item'[q] = item[q]
        /\ Len(accepted') = Len(accepted) + 1 /\ accepted'[Len(accepted) + 1] = item[p][1]
        /\ \A n : n = Len(accepted) + 1 => Told(n)' = LastSaid(p)
    BY <1>3, Taking
  <2>2. \A q \in Producers : Pending(q)' => Fits(item'[q][1], LastSaid(q)')
    BY <2>1 DEF Faithful, LastSaid
  <2>3. \A n \in 1..Len(accepted') : Fits(accepted'[n], Told(n)')
    <3> SUFFICES ASSUME NEW n \in 1..Len(accepted') PROVE Fits(accepted'[n], Told(n)')
      OBVIOUS
    <3>1. CASE n = Len(accepted) + 1 BY <2>1, <3>1 DEF Faithful
    <3>2. CASE n # Len(accepted) + 1
      <4>1. n \in 1..Len(accepted) BY <1>1, <2>1, <3>2
      <4> QED BY <1>1, <4>1 DEF Faithful
    <3> QED BY <3>1, <3>2
  <2> QED BY <2>2, <2>3 DEF Faithful, Fits
<1>4. CASE Listens
  <2>1. UNCHANGED <<accepted, made, item, spoken>> /\ \A p \in Producers : Pending(p)' <=> Pending(p)
    BY <1>4 DEF Listens
  <2> QED BY <1>1, <2>1 DEF Faithful, Fits, LastSaid
<1> QED BY <1>2, <1>3, <1>4, Histories

\* Before the battery only the main thread is heard.
Hush == phase = "idle" => \A n \in 1..Len(accepted) : accepted[n].from = Main

\* Every step keeps Hush.
LEMMA HushKept ==
  ASSUME Prepared, Control, Voices, Hush, [Next]_vars
  PROVE  Hush'
<1>1. phase' = "idle" => phase = "idle"
  <2>1. ASSUME NEW kind, Silent(kind) PROVE phase' = "idle" => phase = "idle"
    BY <2>1 DEF Silent
  <2>2. ASSUME Still PROVE phase' = phase BY <2>2 DEF Still
  <2>3. Parse => phase' = phase BY DEF Parse, batteryVars
  <2> QED BY <2>1, <2>2, <2>3, Deeds DEF Saying, Leaving, Working, Moving, Idling
<1>2. CASE accepted' = accepted BY <1>1, <1>2 DEF Hush
<1>3. ASSUME NEW p \in Producers, QueueStep(Out!Enqueue(p)) PROVE Hush'
  <2>1. /\ Pending(p) /\ item[p][1].from = p /\ Len(accepted) \in Nat
        /\ Len(accepted') = Len(accepted) + 1 /\ accepted'[Len(accepted) + 1] = item[p][1]
        /\ \A n \in 1..Len(accepted) : accepted'[n] = accepted[n]
    BY <1>3, Taking, Counting
  <2>2. p # Main => phase = "running"
    <3>1. p # Main => p \in Workers BY DEF Producers
    <3> QED BY <2>1, <3>1 DEF Control, Active, Pending
  <2>3. phase' = phase BY <1>3 DEF QueueStep, batteryVars
  <2>4. \A n \in 1..Len(accepted') : n \in 1..Len(accepted) \/ n = Len(accepted) + 1 BY <2>1
  <2> QED BY <2>1, <2>2, <2>3, <2>4 DEF Hush
<1>4. ASSUME NEW p \in Producers, CloseProxy(p) PROVE Hush'
  BY <1>2, <1>4, Telling
<1>5. CASE Listens BY <1>2, <1>5 DEF Listens
<1> QED BY <1>3, <1>4, <1>5, Histories

\* The results that a pause must not lose, in all and up to a statement.
Lost == {"summary", "test"}
Keys == IF Command = << >> THEN Lost ELSE Lost \cup {"detail"}
KeysAt == IF Begun >= B + 8 THEN Keys ELSE Lost
LastLine == speech[Main][Len(speech[Main])].what
LastTold == Told(Len(accepted))

\* From the summary on, the main thread closes no result last.
LastWords ==
  Following /\ Battle /\ ~ Throwing /\ Begun >= B + 7 =>
    /\ speech[Main] # << >> => LastLine \notin KeysAt
    /\ speech[Main] = << >> => LastSaid(Main) \notin KeysAt
    /\ speech[Main] = << >> /\ ~ Pending(Main) => LastTold = LastSaid(Main)

\* While the queue refuses, the last item it took is no result.
Spared == suppress /\ accepted # << >> => LastTold \notin Keys

\* Every step keeps LastWords.
LEMMA LastWordsKept ==
  ASSUME Prepared, Control, Voices, Numbered, FileThere, LastWords, [Next]_vars
  PROVE  LastWords'
<1>1. ASSUME NEW kind, NEW lines, Saying(kind, lines) PROVE LastWords'
  <2>1. kind # "throw" /\ Pace(kind) BY <1>1 DEF Saying
  <2>2. /\ Following /\ ~ Throwing /\ Begun' = Begun + 1 /\ Begun \in Nat
        /\ UNCHANGED <<Battle, B, C, Command>> /\ B \in Nat /\ C \in Nat /\ C >= B + 7
        /\ Battle => StatedAt(TheScript, B, C, Begun + 1)
        /\ TheScript[Begun + 1].do = kind
        /\ ~ Battle => kind \in {"say", "run_file", "run_test", "pause"}
    BY <2>1, Pacing
  <2>3. speech'[Main] = lines /\ lines # << >> /\ lines \in Seq(LinesSaid)
    BY <1>1, Counting DEF Saying, SayNow
  <2>4. Len(lines) \in 1..Len(lines)
    <3>1. Len(lines) \in Nat /\ Len(lines) # 0 BY <2>3, EmptySeq, LenProperties
    <3> QED BY <3>1
  <2>5. Battle /\ Begun' >= B + 7 => LastLine' \notin KeysAt'
    <3> SUFFICES ASSUME Battle, Begun' >= B + 7 PROVE LastLine' \notin KeysAt'
      OBVIOUS
    <3>1. LastLine' = lines[Len(lines)].what BY <2>3 DEF LastLine
    <3>2. CASE kind = "summarise"
      <4>1. Begun + 1 = B + 7 BY <2>2, <3>2 DEF StatedAt
      <4>2. file BY <2>2, <4>1 DEF FileThere
      <4>3. PICK a, b : lines = SummaryLines(a, b) BY <1>1, <3>2 DEF Saying
      <4>4. LastLine' \in {"nothing", "detail"} BY <2>4, <3>1, <4>2, <4>3, SummaryLabels
      <4>5. KeysAt' = Lost BY <2>2, <4>1 DEF KeysAt
      <4> QED BY <4>4, <4>5 DEF Lost
    <3>3. CASE kind # "summarise"
      <4>1. PICK n \in 1..Len(lines) : n = Len(lines) BY <2>4
      <4>2. Due(lines[n].what)' /\ ResultsNow(lines[n].what)' BY <1>1, DueLines
      <4>3. lines[n].what # "test" BY <4>2 DEF Due
      <4>4. lines[n].what \in {"summary", "detail"} => Begun' = B' + 7 BY <4>2 DEF ResultsNow
      <4>5. Begun + 1 # B + 7 BY <2>2, <3>3 DEF StatedAt
      <4>6. lines[n].what \notin {"summary", "detail", "test"} BY <2>2, <4>3, <4>4, <4>5
      <4>7. KeysAt' \subseteq {"summary", "detail", "test"} BY DEF KeysAt, Keys, Lost
      <4> QED BY <3>1, <4>1, <4>6, <4>7
    <3> QED BY <3>2, <3>3
  <2> QED BY <2>2, <2>3, <2>5 DEF LastWords
<1>2. ASSUME UNCHANGED <<accepted, spoken, made>>
      PROVE  LastTold' = LastTold /\ LastSaid(Main)' = LastSaid(Main)
  BY <1>2 DEF LastTold, LastSaid, Told, LabelOf
<1>3. ASSUME NEW kind, Silent(kind) PROVE LastWords'
  <2>1. kind # "throw" /\ Pace(kind) /\ UNCHANGED <<speech, spoken, made, accepted, ppc>>
        /\ kind \notin {"say", "summarise"}
    BY <1>3 DEF Silent
  <2>2. /\ Following /\ ~ Throwing /\ Begun' = Begun + 1 /\ Begun \in Nat
        /\ UNCHANGED <<Battle, B, C, Command>> /\ B \in Nat
        /\ Battle => StatedAt(TheScript, B, C, Begun + 1) /\ BattleScript(Command, TheScript, B, C)
        /\ TheScript[Begun + 1].do = kind /\ speech[Main] = << >> /\ ~ Pending(Main)
    BY <2>1, Pacing
  <2> SUFFICES ASSUME Battle, Begun + 1 >= B + 7 PROVE LastWords'
    BY <2>2 DEF LastWords
  <2>3. Begun + 1 # B + 7 BY <2>1, <2>2 DEF StatedAt
  <2>4. Begun >= B + 7 BY <2>2, <2>3
  <2>5. KeysAt' = KeysAt
    <3>1. CASE Begun = B + 7
      <4>1. Command = << >>
        <5> SUFFICES ASSUME Command # << >> PROVE FALSE
          OBVIOUS
        <5>1. TheScript[B + 8] = Say(<<Cout("done")>>) /\ Begun + 1 = B + 8
          BY <2>2, <3>1 DEF BattleScript
        <5>2. Say(<<Cout("done")>>).do = "say" BY DEF Say
        <5> QED BY <2>1, <2>2, <5>1, <5>2
      <4> QED BY <2>2, <4>1 DEF KeysAt, Keys
    <3>2. CASE Begun # B + 7
      BY <2>2, <2>4, <3>2 DEF KeysAt, Keys
    <3> QED BY <3>1, <3>2
  <2>6. LastSaid(Main) \notin KeysAt /\ LastTold = LastSaid(Main) BY <2>2, <2>4 DEF LastWords
  <2>7. LastTold' = LastTold /\ LastSaid(Main)' = LastSaid(Main) BY <1>2, <2>1
  <2>8. speech'[Main] = << >> BY <2>1, <2>2
  <2> QED BY <2>5, <2>6, <2>7, <2>8 DEF LastWords
<1>4. ASSUME NEW lines, Leaving(lines) PROVE LastWords'
  BY <1>4, LeavingTheScript DEF LastWords
<1> DEFINE Late == Following /\ Battle /\ ~ Throwing /\ Begun >= B + 7
<1>5. ASSUME Still PROVE /\ Late' <=> Late
                         /\ KeysAt' = KeysAt
  <2>1. UNCHANGED <<Command, Battle, B, Begun, Throwing>> /\ (Following' <=> Following)
    BY <1>5, Standing
  <2> QED BY <2>1 DEF KeysAt, Keys
<1>6. Late => phase # "running"
  <2> SUFFICES ASSUME Late, phase = "running" PROVE FALSE
    OBVIOUS
  <2> QED BY WhereActive
<1> HIDE DEF Late
<1>7. LastWords <=> (Late => /\ speech[Main] # << >> => LastLine \notin KeysAt
                             /\ speech[Main] = << >> => LastSaid(Main) \notin KeysAt
                             /\ speech[Main] = << >> /\ ~ Pending(Main) => LastTold = LastSaid(Main))
  BY DEF LastWords, Late
<1>8. LastWords' <=> (Late' => /\ speech'[Main] # << >> => LastLine' \notin KeysAt'
                               /\ speech'[Main] = << >> => LastSaid(Main)' \notin KeysAt'
                               /\ speech'[Main] = << >> /\ ~ Pending(Main)' => LastTold' = LastSaid(Main)')
  BY DEF LastWords, Late
<1>9. ASSUME Still, speech'[Main] = speech[Main], Pending(Main)' <=> Pending(Main),
             UNCHANGED <<accepted, spoken, made>>
      PROVE  LastWords'
  <2>1. LastLine' = LastLine BY <1>9 DEF LastLine
  <2> QED BY <1>2, <1>5, <1>7, <1>8, <1>9, <2>1
<1>10. ASSUME NEW p \in Producers, CloseProxy(p), Still PROVE LastWords'
  <2> SUFFICES ASSUME Late PROVE LastWords'
    BY <1>5, <1>8, <1>10
  <2>1. p = Main
    <3>1. speech[p] # << >> BY <1>10 DEF CloseProxy
    <3>2. p \notin Workers BY <1>6, <3>1 DEF Control, Active
    <3> QED BY <3>2 DEF Producers
  <2> DEFINE s == speech[Main]
  <2>2. /\ s # << >> /\ speech'[Main] = Tail(s) /\ LastSaid(Main)' = Head(s).what /\ Pending(Main)'
        /\ s \in Seq(LinesSaid)
    BY <1>10, <2>1, Telling
  <2>3. s[Len(s)].what \notin KeysAt BY <1>7, <2>2 DEF LastLine
  <2> HIDE DEF s
  <2>4. /\ Len(s) \in Nat \ {0} /\ Head(s) = s[1] /\ Len(Tail(s)) = Len(s) - 1 /\ Tail(s) \in Seq(LinesSaid)
        /\ \A n \in 1..(Len(s) - 1) : Tail(s)[n] = s[n + 1]
    BY <2>2, HeadTailProperties, LenProperties, EmptySeq
  <2>5. CASE Tail(s) = << >>
    <3>1. Len(Tail(s)) = 0 BY <2>5, EmptySeq
    <3>2. Len(s) = 1
      <4>1. Len(s) \in Nat /\ 0 = Len(s) - 1 BY <2>4, <3>1, Zenon
      <4> QED BY <4>1
    <3>3. Head(s) = s[Len(s)] BY <2>4, <3>2
    <3>4. LastSaid(Main)' \notin KeysAt BY <2>2, <2>3, <3>3, Zenon
    <3> QED BY <1>5, <1>8, <1>10, <2>2, <2>5, <3>4
  <2>6. CASE Tail(s) # << >>
    <3>1. Len(Tail(s)) \in Nat \ {0} BY <2>4, <2>6, EmptySeq, LenProperties
    <3>2. Tail(s)[Len(Tail(s))] = s[Len(s)] BY <2>4, <3>1
    <3>3. LastLine' \notin KeysAt BY <2>2, <2>3, <3>2 DEF LastLine
    <3> QED BY <1>5, <1>8, <1>10, <2>2, <2>6, <3>3
  <2> QED BY <2>5, <2>6
<1>11. ASSUME NEW p \in Producers, QueueStep(Out!Enqueue(p)), Still PROVE LastWords'
  <2> SUFFICES ASSUME Late PROVE LastWords'
    BY <1>5, <1>8, <1>11
  <2>1. /\ Pending(p) /\ UNCHANGED <<made, spoken, speech>>
        /\ Len(accepted') = Len(accepted) + 1
        /\ \A n : n = Len(accepted) + 1 => Told(n)' = LastSaid(p)
    BY <1>11, Taking
  <2>2. p = Main
    <3>1. p \notin Workers BY <1>6, <2>1 DEF Control, Active, Pending
    <3> QED BY <3>1 DEF Producers
  <2>3. LastTold' = LastSaid(Main) /\ LastSaid(Main)' = LastSaid(Main)
    BY <2>1, <2>2 DEF LastTold, LastSaid, Told, LabelOf
  <2>4. LastLine' = LastLine BY <2>1 DEF LastLine
  <2> QED BY <1>5, <1>7, <1>8, <1>11, <2>1, <2>3, <2>4
<1>12. ASSUME NEW w \in Workers, Working(w) PROVE LastWords'
  <2>1. Still /\ speech'[Main] = speech[Main] /\ UNCHANGED <<spoken, made, ppc, accepted>>
    BY <1>12, Counting DEF Working, outVars
  <2> QED BY <1>9, <2>1 DEF Pending
<1>13. CASE Moving
  BY <1>9, <1>13, Counting DEF Moving
<1>14. CASE Idling
  BY <1>9, <1>14 DEF Idling, outVars, Pending
<1>15. CASE Parse
  <2> SUFFICES ASSUME Following' PROVE LastWords'
    BY DEF LastWords
  <2>1. Begun' = 0 /\ B' \in Nat BY <1>15, Parsing
  <2>2. \A b \in Nat : ~ (0 >= b + 7) OBVIOUS
  <2>3. ~ (Begun' >= B' + 7) BY <2>1, <2>2, Zenon
  <2> QED BY <2>3 DEF LastWords
<1> QED BY <1>1, <1>3, <1>4, <1>10, <1>11, <1>12, <1>13, <1>14, <1>15, Deeds

\* Every step keeps Spared: what a pause can lose is the last item only, and the
\* program says something of no consequence before each pause.
LEMMA SparedKept ==
  ASSUME Prepared, Control, Voices, Numbered, WorkersSay, MainTalks, Hush, LastWords, Spared, [Next]_vars
  PROVE  Spared'
<1>1. ASSUME UNCHANGED <<accepted, spoken>> PROVE LastTold' = LastTold
  BY <1>1 DEF LastTold, Told, LabelOf
<1>2. ASSUME UNCHANGED <<accepted, spoken, Command>>, suppress' => suppress PROVE Spared'
  BY <1>1, <1>2 DEF Spared, Keys
<1>3. ASSUME Silent("pause") PROVE Spared'
  <2>1. Pace("pause") /\ UNCHANGED <<accepted, spoken>> BY <1>3 DEF Silent
  <2>2. /\ Following /\ ~ Throwing /\ Begun \in Nat
        /\ UNCHANGED <<Battle, B, C, Command>> /\ B \in Nat /\ C \in Nat /\ C >= B + 7
        /\ C = B + (IF Command = << >> THEN 7 ELSE 8)
        /\ Battle => StatedAt(TheScript, B, C, Begun + 1) /\ Len(TheScript) >= C + 5
        /\ TheScript[Begun + 1].do = "pause" /\ speech[Main] = << >> /\ ~ Pending(Main)
        /\ Len(TheScript) \in Nat
    BY <2>1, Pacing
  <2> SUFFICES ASSUME accepted # << >> PROVE LastTold \notin Keys
    BY <1>1, <2>1, <2>2 DEF Spared, Keys
  <2>3. Len(accepted) \in 1..Len(accepted)
    <3>1. Len(accepted) \in Nat /\ Len(accepted) # 0 BY Counting, EmptySeq
    <3> QED BY <3>1
  <2>4. CASE phase = "idle" /\ (~ Battle \/ Begun < B + 7)
    <3>1. accepted[Len(accepted)].from = Main BY <2>3, <2>4 DEF Hush
    <3>2. Due(LastTold) BY <2>3, <3>1, SaidBy DEF LastTold
    <3>3. LastTold \notin {"summary", "detail", "test"} BY <2>2, <2>4, <3>2 DEF Due
    <3> QED BY <3>3 DEF Keys, Lost
  <2>5. CASE ~ Battle
    BY <2>2, <2>4, <2>5 DEF Control, Phases
  <2>6. CASE Battle
    <3>1. Begun + 1 =< B \/ Begun + 1 = B + 1 \/ Begun + 1 = C + 2 \/ Begun + 1 >= C + 5
      BY <2>2, <2>6 DEF StatedAt
    <3>2. CASE Begun < B + 5
      <4>1. phase = "idle" BY <2>2, <2>6, <3>2 DEF Control, Phases
      <4>2. Begun < B + 7 BY <2>2, <3>2
      <4> QED BY <2>4, <4>1, <4>2
    <3>3. CASE ~ (Begun < B + 5)
      <4>1. Begun >= C + 1 /\ Begun >= B + 8 BY <2>2, <3>1, <3>3
      <4>2. Begun >= B + 7 BY <2>2, <4>1
      <4>3. LastTold = LastSaid(Main) /\ LastSaid(Main) \notin KeysAt
        BY <2>2, <2>6, <4>2 DEF LastWords
      <4> QED BY <4>1, <4>3 DEF KeysAt
    <3> QED BY <3>2, <3>3
  <2> QED BY <2>5, <2>6
<1>4. ASSUME NEW kind, Silent(kind), kind # "pause" PROVE Spared'
  <2>1. /\ kind # "throw" /\ Pace(kind) /\ UNCHANGED <<accepted, spoken>> BY <1>4 DEF Silent
  <2>2. suppress' => suppress BY <1>4 DEF Silent, Out!Restart, outVars
  <2>3. UNCHANGED Command BY <2>1, Pacing
  <2> QED BY <1>2, <2>1, <2>2, <2>3
<1>5. ASSUME NEW kind, NEW lines, Saying(kind, lines) PROVE Spared'
  <2>1. kind # "throw" /\ Pace(kind) /\ UNCHANGED <<accepted, spoken, suppress>>
    BY <1>5 DEF Saying, outVars
  <2>2. UNCHANGED Command BY <2>1, Pacing
  <2> QED BY <1>2, <2>1, <2>2
<1>6. ASSUME NEW lines, Leaving(lines) PROVE Spared'
  BY <1>2, <1>6 DEF Leaving, outVars, Command
<1>7. ASSUME Still PROVE UNCHANGED Command BY <1>7, Standing
<1>8. ASSUME NEW p \in Producers, CloseProxy(p) PROVE Spared'
  BY <1>8, Telling DEF Spared
<1>9. ASSUME NEW p \in Producers, QueueStep(Out!Enqueue(p)) PROVE Spared'
  BY <1>9, Taking DEF Spared
<1>10. CASE Moving
  BY <1>2, <1>7, <1>10 DEF Moving
<1>11. ASSUME NEW w \in Workers, Working(w) PROVE Spared'
  BY <1>2, <1>7, <1>11 DEF Working, outVars
<1>12. CASE Idling BY <1>2, <1>7, <1>12 DEF Idling, outVars
<1>13. CASE Parse
  <2>1. ~ suppress /\ UNCHANGED suppress
    BY <1>13 DEF Parse, Following, Prepared, Fresh, outVars
  <2> QED BY <2>1 DEF Spared
<1> QED BY <1>3, <1>4, <1>5, <1>6, <1>8, <1>9, <1>10, <1>11, <1>12, <1>13, Deeds

\* They hold at first.
LEMMA SparedFirst == Init => Faithful /\ Hush /\ LastWords /\ Spared
<1> SUFFICES ASSUME Init PROVE Faithful /\ Hush /\ LastWords /\ Spared
  OBVIOUS
<1>1. /\ accepted = << >> /\ ~ Following /\ ~ suppress /\ \A p \in Producers : ppc[p] = "idle"
  BY DEF Init, Out!Init, Following
<1>2. Len(accepted) = 0 BY <1>1, EmptySeq
<1> QED BY <1>1, <1>2 DEF Faithful, Pending, Hush, LastWords, Spared

-----------------------------------------------------------------------------
(* What becomes of the items.                                               *)

\* A thread writes to the file only what is meant for it.
Streaming == cpc = "write_file" => Out!TargetOf(held[1].route) = "file_out"

\* Every step keeps Streaming.
LEMMA StreamingKept ==
  ASSUME Prepared, Control, Voices, Streaming, [Next]_vars
  PROVE  Streaming'
<1>1. ASSUME NEW p \in Producers, CloseProxy(p) PROVE Streaming'
  <2>1. UNCHANGED <<cpc, held>> BY <1>1, Telling
  <2> QED BY <2>1 DEF Streaming, Out!TargetOf
<1>2. CASE \A p \in Producers : ~ CloseProxy(p)
  <2>1. cpc' = "write_file" => cpc \in {"write", "write_file"} /\ UNCHANGED held
                                /\ (cpc = "write" => Out!TargetOf(held[1].route) = "file_out")
    <3>1. [Out!Next]_(Out!vars) BY <1>2, StepsOfTheQueue
    <3>2. CASE Out!ConsumerStep
      BY <3>2 DEF Out!ConsumerStep, Out!LoopTop, Out!LockAndLook, Out!Block, Out!NotifyEmpty,
        Out!CheckStop, Out!Write, Out!WriteFile
    <3>3. CASE \E p \in Producers : Out!ProducerStep(p)
      BY <3>3 DEF Out!ProducerStep, Out!OpenProxy, Out!CloseProxy, Out!EnqueueDirectly, Out!Offer,
        Out!Enqueue, Out!NotifyOne, Out!NotifyNotEmpty, Out!consumerVars
    <3>4. CASE Out!MainStep
      BY <3>4 DEF Out!MainStep, Out!PauseEnter, Out!PauseStep, Out!PauseRelock, Out!PauseRequestStop,
        Out!PauseNotify, Out!PauseJoin, Out!Restart, Out!RestartWithSameFile, Out!MainUnchanged,
        Out!NotifyNotEmpty
    <3>5. CASE Out!SpuriousWake \/ Out!PauseSpuriousWake \/ UNCHANGED Out!vars
      BY <3>5 DEF Out!SpuriousWake, Out!PauseSpuriousWake, Out!MainUnchanged, Out!vars
    <3> QED BY <3>1, <3>2, <3>3, <3>4, <3>5 DEF Out!Next
  <2> QED BY <2>1 DEF Streaming, Out!TargetOf
<1> QED BY <1>1, <1>2

\* The output thread is done with the item it holds.
Finishing(fate) ==
  /\ held # << >> /\ output' = Append(output, [item |-> held[1], to |-> fate, thread |-> restarts])
  /\ fate \in Out!Fates
  /\ fate \in {"dropped", "lost"} => paused
  /\ fate = "blank" => held[1].blank
  /\ fate = "file_out" => Out!TargetOf(held[1].route) = "file_out"
  /\ fate \in {"std_out", "std_err"} =>
       /\ ~ held[1].blank
       /\ \/ Out!TargetOf(held[1].route) = fate
          \/ Out!TargetOf(held[1].route) = "file_out" /\ ~ file /\ fate = "std_out"

\* The output grows by the item in the hands of the output thread only.
LEMMA Outgoing ==
  ASSUME Prepared, Control, Voices, Streaming, [Next]_vars
  PROVE  UNCHANGED output \/ (Still /\ UNCHANGED accepted /\ \E fate : Finishing(fate))
<1>1. ASSUME Moving PROVE UNCHANGED output \/ \E fate : Finishing(fate)
  <2>0. held # << >> <=> cpc \in {"notify_empty", "check", "write", "write_file"}
    BY DEF Prepared, Queue, Out!IndInv, Out!HeldWhilePopped
  <2>1. CASE Out!CheckStop
    <3>1. stop => paused BY DEF Prepared, Queue, Out!IndInv, Out!PausedBeforeStop
    <3>2. stop => Finishing("dropped")
      BY <2>0, <2>1, <3>1 DEF Out!CheckStop, Out!Finish, Finishing, Out!Fates
    <3>3. ~ stop => UNCHANGED output BY <2>1 DEF Out!CheckStop
    <3> QED BY <3>2, <3>3
  <2>2. CASE Out!Write
    <3> DEFINE target == Out!TargetOf(held[1].route)
    <3>1. held # << >> BY <2>0, <2>2 DEF Out!Write
    <3>2. \/ held[1].blank /\ Out!Finish("blank")
          \/ ~ held[1].blank /\ target \in {"std_out", "std_err"} /\ Out!Finish(target)
          \/ UNCHANGED output
          \/ ~ held[1].blank /\ target = "file_out" /\ ~ file /\ Out!Finish("std_out")
      BY <2>2 DEF Out!Write
    <3> HIDE DEF target
    <3>3. held[1].blank /\ Out!Finish("blank") => Finishing("blank")
      BY <3>1 DEF Out!Finish, Finishing, Out!Fates
    <3>4. ~ held[1].blank /\ target \in {"std_out", "std_err"} /\ Out!Finish(target) => Finishing(target)
      BY <3>1 DEF Out!Finish, Finishing, Out!Fates, target
    <3>5. ~ held[1].blank /\ target = "file_out" /\ ~ file /\ Out!Finish("std_out") => Finishing("std_out")
      BY <3>1 DEF Out!Finish, Finishing, Out!Fates, target
    <3> QED BY <3>2, <3>3, <3>4, <3>5
  <2>3. CASE Out!WriteFile
    <3>1. cpc = "write_file" /\ ~ file => paused
      BY DEF Prepared, Queue, Out!LossInv, Out!LossEndsThread
    <3>2. cpc = "write_file" /\ (Out!Finish("file_out") \/ (~ file /\ Out!Finish("lost")))
      BY <2>3 DEF Out!WriteFile
    <3>3. Out!Finish("file_out") => Finishing("file_out")
      BY <2>0, <3>2 DEF Out!Finish, Finishing, Out!Fates, Streaming
    <3>4. ~ file /\ Out!Finish("lost") => Finishing("lost")
      BY <2>0, <3>1, <3>2 DEF Out!Finish, Finishing, Out!Fates
    <3> QED BY <3>2, <3>3, <3>4
  <2>4. CASE Out!LoopTop \/ Out!LockAndLook \/ Out!Block \/ Out!NotifyEmpty
    BY <2>4 DEF Out!LoopTop, Out!LockAndLook, Out!Block, Out!NotifyEmpty
  <2>5. CASE Out!PauseStep
    BY <2>5 DEF Out!PauseStep, Out!PauseRelock, Out!PauseRequestStop, Out!PauseNotify, Out!PauseJoin,
      Out!MainUnchanged
  <2> QED BY <1>1, <2>1, <2>2, <2>3, <2>4, <2>5 DEF Moving, Out!ConsumerStep
<1>2. ASSUME NEW p \in Producers, CloseProxy(p) \/ QueueStep(Out!Enqueue(p)) PROVE UNCHANGED output
  BY <1>2, Telling, Taking
<1>3. ASSUME Parse \/ (\E kind, lines : Saying(kind, lines)) \/ (\E lines : Leaving(lines))
             \/ (\E kind : Silent(kind)) \/ (\E w \in Workers : Working(w)) \/ Idling
      PROVE  UNCHANGED output
  BY <1>3 DEF Parse, Saying, Leaving, Silent, Working, Idling, outVars
<1> QED BY <1>1, <1>2, <1>3, Deeds DEF Moving

\* What the queue has taken is finished, held or queued, in this order.
LEMMA Where ==
  ASSUME Prepared
  PROVE  /\ Len(output) \in Nat /\ Len(accepted) \in Nat /\ Len(output) =< Len(accepted)
         /\ \A n \in 1..Len(output) : accepted[n] = output[n].item
         /\ held # << >> => /\ Len(output) + 1 \in 1..Len(accepted)
                            /\ accepted[Len(output) + 1] = held[1] /\ held[1] \in Out!Item
                            /\ queue = << >> => Len(accepted) = Len(output) + 1
         /\ held = << >> /\ queue = << >> => Len(accepted) = Len(output)
<1> DEFINE items == Out!Items(output)
<1>1. /\ queue \in Seq(Out!Item) /\ held \in Seq(Out!Item) /\ output \in Seq(Out!Outcome)
      /\ items \in Seq(Out!Item) /\ Len(items) = Len(output)
  BY Out!ItemsType, Out!PayloadIsSeq, OutAssumption DEF Prepared, Queue, Out!IndInv, Out!TypeOK
<1>2. Len(queue) \in Nat /\ Len(held) \in Nat /\ Len(output) \in Nat BY <1>1, LenProperties
<1>3. \A n \in 1..Len(output) : items[n] = output[n].item BY <1>2 DEF Out!Items
<1>4. accepted = (items \o held) \o queue
  <2>1. accepted = items \o held \o queue BY DEF Prepared, Queue, Out!Conservation
  <2> QED BY <2>1
<1> HIDE DEF items
<1> DEFINE done == items \o held
<1>5. done \in Seq(Out!Item) /\ Joined(done, items, held) BY <1>1, Joining, Zenon
<1> HIDE DEF done
<1>6. accepted \in Seq(Out!Item) /\ Joined(accepted, done, queue)
  BY <1>1, <1>4, <1>5, Joining, Zenon DEF done
<1>7. /\ Len(done) = Len(output) + Len(held)
      /\ \A n \in 1..Len(output) : done[n] = items[n]
      /\ Len(held) = 1 => done[Len(output) + 1] = held[1]
  BY <1>1, <1>2, <1>5 DEF Joined
<1>8. /\ Len(accepted) = Len(output) + Len(held) + Len(queue)
      /\ \A n \in 1..(Len(output) + Len(held)) : accepted[n] = done[n]
  BY <1>2, <1>6, <1>7 DEF Joined
<1>9. held = << >> \/ (\E i \in Out!Item : held = <<i>>)
  BY DEF Prepared, Queue, Out!IndInv, Out!TypeOK
<1>10. queue = << >> => Len(queue) = 0 BY EmptySeq
<1>11. held = << >> => Len(held) = 0 BY EmptySeq
<1>12. held # << >> => Len(held) = 1 /\ held[1] \in Out!Item BY <1>9
<1>13. \A n \in 1..Len(output) : accepted[n] = output[n].item
  BY <1>2, <1>3, <1>7, <1>8
<1>14. held # << >> => accepted[Len(output) + 1] = held[1]
  BY <1>2, <1>7, <1>8, <1>12
<1>15. Len(accepted) \in Nat /\ Len(output) =< Len(accepted) BY <1>2, <1>8
<1>16. held # << >> => /\ Len(output) + 1 \in 1..Len(accepted)
                       /\ queue = << >> => Len(accepted) = Len(output) + 1
  <2>1. ASSUME held # << >> PROVE Len(accepted) = Len(output) + 1 + Len(queue)
    BY <1>2, <1>8, <1>12, <2>1
  <2> QED BY <1>2, <1>10, <2>1
<1>17. held = << >> /\ queue = << >> => Len(accepted) = Len(output)
  BY <1>2, <1>8, <1>10, <1>11
<1> QED BY <1>2, <1>12, <1>13, <1>14, <1>15, <1>16, <1>17

\* The results come to where they belong.
Fated ==
  \A n \in 1..Len(output) :
    /\ Told(n) = "summary" => output[n].to = "std_out"
    /\ Told(n) = "test" => output[n].to \in {"std_out", "file_out"}
    /\ Told(n) = "detail" /\ Command # << >> => output[n].to = "file_out"

\* With a switch for the battery the detail is written before its announcement.
DetailOut ==
  Following /\ Battle /\ Command # << >> /\ (Throwing \/ Begun >= C + 3) =>
    \A n \in 1..Len(accepted) : Told(n) = "detail" => n =< Len(output)

\* The switches stay as they are.
LEMMA CommandStays ==
  ASSUME Prepared, Control, [Next]_vars, Following
  PROVE  Command' = Command /\ Following'
<1>1. ASSUME NEW kind, kind # "throw", Pace(kind) PROVE Command' = Command /\ Following'
  BY <1>1, Pacing
<1>2. \A kind, lines : Saying(kind, lines) => kind # "throw" /\ Pace(kind) BY DEF Saying
<1>3. \A kind : Silent(kind) => kind # "throw" /\ Pace(kind) BY DEF Silent
<1>4. ASSUME NEW lines, Leaving(lines) PROVE Command' = Command /\ Following'
  BY <1>4, LeavingTheScript
<1>5. ASSUME Still PROVE Command' = Command /\ Following'
  BY <1>5, Standing
<1>6. ~ Parse BY DEF Parse, Following
<1> QED BY <1>1, <1>2, <1>3, <1>4, <1>5, <1>6, Deeds DEF Working, Moving, Idling

\* What a pause sees of the queue.
LEMMA PausedQueue ==
  ASSUME Prepared, paused
  PROVE  suppress /\ queue = << >> /\ (mpc = "idle" => held = << >>)
BY DEF Prepared, Queue, Out!IndInv, Out!PausedMeansDrained, Out!PausedBeforeStop, Out!HeldWhilePopped

\* The fate of the item in the hands of the output thread.
LEMMA FateOfHeld ==
  ASSUME Prepared, Control, Voices, Numbered, WorkersSay, MainTalks, FileThere, Faithful, Spared,
         DetailOut, NEW fate, Finishing(fate), NEW n, n = Len(output) + 1
  PROVE  /\ Told(n) = "summary" => fate = "std_out"
         /\ Told(n) = "test" => fate \in {"std_out", "file_out"}
         /\ Told(n) = "detail" /\ Command # << >> => fate = "file_out"
<1>1. /\ n \in 1..Len(accepted) /\ accepted[n] = held[1] /\ held[1] \in Out!Item
      /\ queue = << >> => n = Len(accepted)
      /\ Len(output) \in Nat
  BY Where DEF Finishing
<1>2. Fits(held[1], Told(n)) BY <1>1 DEF Faithful
<1>3. paused => Told(n) \notin Keys
  <2>1. paused => n = Len(accepted) /\ suppress BY <1>1, PausedQueue
  <2>2. accepted # << >>
    <3> SUFFICES ASSUME accepted = << >> PROVE FALSE
      OBVIOUS
    <3>1. Len(accepted) = 0 BY EmptySeq
    <3> QED BY <1>1, <3>1
  <2> QED BY <2>1, <2>2 DEF Spared, LastTold
<1>4. /\ held[1].route \in Routes
      /\ Out!TargetOf(held[1].route) = IF held[1].route = "file_out_proxy" THEN "file_out" ELSE "std_out"
  BY <1>1 DEF Out!Item, Out!TargetOf, Routes
<1>5. ASSUME Told(n) = "detail", ~ file PROVE paused \/ Command = << >>
  <2>1. Following /\ Due("detail")
    <3>1. "detail" \notin WorkerLabels BY DEF WorkerLabels
    <3> QED BY <1>1, <1>5, <3>1, SaidBy
  <2>2. Battle /\ (Throwing \/ Begun >= B + 7) BY <2>1 DEF Due
  <2>3. B \in Nat /\ C \in Nat /\ C >= B + 7 /\ Len(TheScript) \in Nat
    BY <2>1, <2>2, TheScriptIs
  <2> SUFFICES ASSUME Command # << >> PROVE paused
    OBVIOUS
  <2>4. ~ Throwing /\ ~ (Begun >= C + 3) BY <1>1, <1>5, <2>1, <2>2 DEF DetailOut
  <2>5. Begun \in Int
    <3>1. todo \in Seq(Statements(Command)) BY <2>1, <2>4, InOrOut DEF Prepared
    <3>2. Len(todo) \in Nat BY <3>1, LenProperties
    <3> QED BY <2>3, <3>2 DEF Begun
  <2>6. B + 2 =< Begun /\ Begun =< C + 2 BY <2>2, <2>3, <2>4, <2>5
  <2> QED BY <1>5, <2>1, <2>2, <2>4, <2>6 DEF FileThere
<1>6. fate \in {"std_out", "std_err", "file_out", "blank", "dropped", "lost"}
  BY DEF Finishing, Out!Fates
<1>7. CASE fate \in {"dropped", "lost"}
  BY <1>3, <1>7 DEF Finishing, Keys, Lost
<1>8. CASE fate = "blank"
  BY <1>2, <1>8 DEF Finishing, Fits
<1>9. CASE fate = "file_out"
  BY <1>2, <1>4, <1>9 DEF Finishing, Fits
<1>10. CASE fate \in {"std_out", "std_err"}
  <2>1. fate = "std_out" BY <1>4, <1>10 DEF Finishing
  <2>2. Told(n) = "detail" => ~ file BY <1>2, <1>4, <2>1 DEF Finishing, Fits
  <2> QED BY <1>3, <1>5, <2>1, <2>2 DEF Keys, Lost
<1> QED BY <1>6, <1>7, <1>8, <1>9, <1>10

\* Every step keeps Fated.
LEMMA FatedKept ==
  ASSUME Prepared, Control, Voices, Numbered, WorkersSay, MainTalks, FileThere, Faithful, Spared,
         DetailOut, Streaming, Fated, [Next]_vars
  PROVE  Fated'
<1>1. /\ Len(output) \in Nat /\ Len(output) =< Len(accepted) /\ Len(accepted) \in Nat
      /\ \A n \in 1..Len(accepted) : Told(n)' = Told(n)
  BY Where, ToldStays
<1>2. Len(output) # 0 => Following
  <2> SUFFICES ASSUME ~ Following PROVE Len(output) = 0
    OBVIOUS
  <2>1. output = << >> BY DEF Prepared, Fresh
  <2> QED BY <2>1, EmptySeq
<1>3. CASE UNCHANGED output
  <2>1. ASSUME NEW n \in 1..Len(output)
        PROVE  /\ Told(n)' = "summary" => output[n].to = "std_out"
               /\ Told(n)' = "test" => output[n].to \in {"std_out", "file_out"}
               /\ Told(n)' = "detail" /\ Command' # << >> => output[n].to = "file_out"
    <3>1. Following BY <1>1, <1>2
    <3>2. Command' = Command BY <3>1, CommandStays
    <3>3. n \in 1..Len(accepted) BY <1>1
    <3> QED BY <1>1, <3>2, <3>3 DEF Fated
  <2> QED BY <1>3, <2>1 DEF Fated
<1>4. ASSUME NEW fate, Finishing(fate), Still PROVE Fated'
  <2>1. /\ output \in Seq(Out!Outcome) /\ [item |-> held[1], to |-> fate, thread |-> restarts] \in Out!Outcome
        /\ output' = Append(output, [item |-> held[1], to |-> fate, thread |-> restarts])
    BY <1>4, Where DEF Finishing, Prepared, Queue, Out!IndInv, Out!TypeOK, Out!Outcome
  <2>2. /\ Len(output') = Len(output) + 1 /\ output'[Len(output) + 1].to = fate
        /\ \A n \in 1..Len(output) : output'[n] = output[n]
    BY <2>1, AppendProperties
  <2>3. Len(output) + 1 \in 1..Len(accepted) BY <1>4, Where DEF Finishing
  <2>4. Command' = Command BY <1>4, Standing
  <2>5. ASSUME NEW n \in 1..Len(output')
        PROVE  /\ Told(n)' = "summary" => output'[n].to = "std_out"
               /\ Told(n)' = "test" => output'[n].to \in {"std_out", "file_out"}
               /\ Told(n)' = "detail" /\ Command' # << >> => output'[n].to = "file_out"
    <3>1. n \in 1..Len(accepted) BY <1>1, <2>2, <2>3
    <3>2. CASE n = Len(output) + 1
      BY <1>1, <1>4, <2>2, <2>4, <3>1, <3>2, FateOfHeld
    <3>3. CASE n # Len(output) + 1
      <4>1. n \in 1..Len(output) BY <1>1, <2>2, <3>3
      <4> QED BY <1>1, <2>2, <2>4, <3>1, <4>1 DEF Fated
    <3> QED BY <3>2, <3>3
  <2> QED BY <2>5 DEF Fated
<1> QED BY <1>3, <1>4, Outgoing

\* Every step keeps DetailOut: the pause before the announcement waits for the
\* items before the last.
LEMMA DetailOutKept ==
  ASSUME Prepared, Control, Voices, Numbered, WorkersSay, MainTalks, Streaming, DetailOut, [Next]_vars
  PROVE  DetailOut'
<1>1. /\ Len(accepted) \in Nat /\ Len(output) \in Nat
      /\ \A n \in 1..Len(accepted) : Told(n)' = Told(n)
  BY Where, ToldStays
<1>2. ASSUME NEW kind, kind # "throw", Pace(kind), UNCHANGED <<accepted, output>>,
             kind = "restart" => paused /\ mpc = "idle"
      PROVE  DetailOut'
  <2>1. /\ Following /\ ~ Throwing /\ Begun' = Begun + 1 /\ Begun \in Nat
        /\ UNCHANGED <<Command, Battle, C>> /\ C \in Nat
        /\ Battle => BattleScript(Command, TheScript, B, C)
        /\ TheScript[Begun + 1].do = kind
    BY <1>2, Pacing
  <2> SUFFICES ASSUME Battle, Command # << >>, Begun + 1 >= C + 3 PROVE DetailOut'
    BY <1>2, <2>1, Pacing DEF DetailOut
  <2>2. CASE Begun >= C + 3
    BY <1>1, <1>2, <2>1, <2>2 DEF DetailOut
  <2>3. CASE Begun = C + 2
    <3>1. TheScript[Begun + 1] = Do("restart")
      <4>1. Begun + 1 = C + 3 BY <2>1, <2>3
      <4> QED BY <2>1, <4>1 DEF BattleScript
    <3>2. kind = "restart" BY <2>1, <3>1 DEF Do
    <3>3. Len(accepted) = Len(output) BY <1>2, <3>2, PausedQueue, Where
    <3> QED BY <1>2, <3>3 DEF DetailOut
  <2> QED BY <2>1, <2>2, <2>3
<1>3. ASSUME NEW kind, NEW lines, Saying(kind, lines) PROVE DetailOut'
  <2>1. kind \notin {"throw", "restart"} /\ Pace(kind) /\ UNCHANGED <<accepted, output>>
    BY <1>3 DEF Saying, outVars
  <2> QED BY <1>2, <2>1
<1>4. ASSUME NEW kind, Silent(kind) PROVE DetailOut'
  <2>1. kind # "throw" /\ Pace(kind) /\ UNCHANGED <<accepted, output>>
        /\ (kind = "restart" => paused /\ mpc = "idle")
    BY <1>4 DEF Silent, Out!Restart
  <2> QED BY <1>2, <2>1
<1>5. ASSUME NEW lines, Leaving(lines) PROVE DetailOut'
  <2>1. /\ Following /\ ~ Throwing /\ UNCHANGED <<Command, Battle, C, accepted, output>>
        /\ B \in Nat /\ C \in Nat /\ Begun \in Nat
        /\ Battle => Begun + 1 =< B + 5 \/ Begun + 1 >= C + 5
    BY <1>5, LeavingTheScript DEF Leaving, outVars
  <2> SUFFICES ASSUME Battle, Command # << >>,
                      NEW n \in 1..Len(accepted), Told(n) = "detail"
               PROVE  n =< Len(output)
    BY <1>1, <2>1 DEF DetailOut
  <2>2. CASE Begun + 1 >= C + 5 BY <2>1, <2>2 DEF DetailOut
  <2>3. CASE Begun + 1 =< B + 5
    <3>1. Due("detail")
      <4>1. "detail" \notin WorkerLabels BY DEF WorkerLabels
      <4> QED BY <4>1, SaidBy
    <3>2. Begun >= B + 7 BY <2>1, <3>1 DEF Due
    <3> QED BY <2>1, <2>3, <3>2
  <2> QED BY <2>1, <2>2, <2>3
<1>6. ASSUME Still, UNCHANGED accepted, UNCHANGED output \/ Len(output') = Len(output) + 1
      PROVE  DetailOut'
  <2>1. UNCHANGED <<Command, Battle, C, Begun, Throwing>> /\ (Following' <=> Following)
    BY <1>6, Standing
  <2>2. \A n \in Nat : n =< Len(output) => n =< Len(output') BY <1>1, <1>6
  <2> QED BY <1>1, <1>6, <2>1, <2>2 DEF DetailOut
<1>7. ASSUME NEW fate, Finishing(fate) PROVE Len(output') = Len(output) + 1
  <2>1. output \in Seq(Out!Outcome) /\ [item |-> held[1], to |-> fate, thread |-> restarts] \in Out!Outcome
    BY <1>7, Where DEF Finishing, Prepared, Queue, Out!IndInv, Out!TypeOK, Out!Outcome
  <2> QED BY <1>7, <2>1, AppendProperties DEF Finishing
<1>8. ASSUME NEW p \in Producers, QueueStep(Out!Enqueue(p)), Still PROVE DetailOut'
  <2>1. /\ UNCHANGED output /\ Pending(p) /\ Len(accepted') = Len(accepted) + 1
        /\ \A n : n = Len(accepted) + 1 => Told(n)' = LastSaid(p)
    BY <1>8, Taking
  <2>2. UNCHANGED <<Command, Battle, C, Begun, Throwing>> /\ (Following' <=> Following)
    BY <1>8, Standing
  <2> SUFFICES ASSUME Following, Battle, Command # << >>, Throwing \/ Begun >= C + 3 PROVE DetailOut'
    BY <2>2 DEF DetailOut
  <2>3. B \in Nat /\ C \in Nat /\ C >= B + 7 BY TheScriptIs
  <2>4. p = Main
    <3>1. ASSUME phase = "running" PROVE FALSE BY <2>3, <3>1, WhereActive
    <3>2. p \notin Workers BY <2>1, <3>1 DEF Control, Active, Pending
    <3> QED BY <3>2 DEF Producers
  <2>5. LastSaid(Main) # "detail"
    <3>1. ResultsNow(LastSaid(Main)) BY <2>1, <2>4 DEF MainTalks
    <3>2. Throwing \/ Begun # B + 7 BY <2>3
    <3> QED BY <3>1, <3>2 DEF ResultsNow
  <2>6. \A n \in 1..Len(accepted') : n \in 1..Len(accepted) \/ n = Len(accepted) + 1
    BY <1>1, <2>1
  <2>7. \A n \in 1..Len(accepted') : Told(n)' = "detail" => n \in 1..Len(accepted) /\ Told(n) = "detail"
    BY <1>1, <2>1, <2>4, <2>5, <2>6
  <2> QED BY <2>1, <2>7 DEF DetailOut
<1>9. ASSUME NEW p \in Producers, CloseProxy(p), Still PROVE DetailOut'
  BY <1>6, <1>9, Telling
<1>10. ASSUME Moving PROVE DetailOut'
  <2>1. Still /\ UNCHANGED accepted BY <1>10 DEF Moving
  <2> QED BY <1>6, <1>7, <2>1, Outgoing
<1>11. ASSUME Idling \/ \E w \in Workers : Working(w) PROVE DetailOut'
  BY <1>6, <1>11 DEF Idling, Working, outVars
<1>12. CASE Parse
  <2>1. accepted' = << >> BY <1>12 DEF Parse, Prepared, Fresh, Following, outVars
  <2>2. Len(accepted') = 0 BY <2>1, EmptySeq
  <2> QED BY <2>2 DEF DetailOut
<1> QED BY <1>3, <1>4, <1>5, <1>8, <1>9, <1>10, <1>11, <1>12, Deeds

\* What holds of the words and of the output at every moment.
Kept == Faithful /\ Hush /\ LastWords /\ Spared /\ Streaming /\ DetailOut /\ Fated

\* Kept holds at first.
LEMMA KeptFirst == Init => Kept
<1> SUFFICES ASSUME Init PROVE Kept
  OBVIOUS
<1>1. Faithful /\ Hush /\ LastWords /\ Spared BY SparedFirst
<1>2. cpc = "top" /\ output = << >> /\ ~ Following BY DEF Init, Out!Init, Following
<1>3. Len(output) = 0 BY <1>2, EmptySeq
<1>4. Streaming /\ DetailOut /\ Fated BY <1>2, <1>3 DEF Streaming, DetailOut, Fated
<1> QED BY <1>1, <1>4 DEF Kept

\* What became of each item is what its line was for, always.
THEOREM KeptAlways == Spec => []Kept
<1>1. Prepared /\ Control /\ Voices /\ Talked /\ Kept /\ [Next]_vars => Kept'
  <2> SUFFICES ASSUME Prepared, Control, Voices, Talked, Kept, [Next]_vars PROVE Kept'
    OBVIOUS
  <2> USE DEF Talked, Kept
  <2>1. Faithful' BY FaithfulKept
  <2>2. Hush' BY HushKept
  <2>3. LastWords' BY LastWordsKept
  <2>4. Spared' BY SparedKept
  <2>5. Streaming' BY StreamingKept
  <2>6. DetailOut' BY DetailOutKept
  <2>7. Fated' BY FatedKept
  <2> QED BY <2>1, <2>2, <2>3, <2>4, <2>5, <2>6, <2>7
<1>2. Spec => []Voices BY NothingIsEverRefused, PTL
<1> QED BY <1>1, <1>2, KeptFirst, PreparedAlways, ControlAlways, TalkAlways, PTL DEF Spec

\* The fates of the lines of a kind.
LEMMA FatesAre ==
  ASSUME Prepared, NEW what
  PROVE  Fates(what) = {output[n].to : n \in {k \in 1..Len(output) : Told(k) = what}}
BY Where DEF Fates, Told

\* When the result file is announced, its lines are in it.
LEMMA AnnouncedNow ==
  ASSUME Prepared, Voices, Talked, Kept
  PROVE  AnnouncedDetailIsWritten
<1>1. ASSUME NEW what, what \notin WorkerLabels, Said(what) PROVE Following /\ Due(what)
  <2>1. PICK n \in 1..Len(accepted) : Told(n) = what BY <1>1 DEF Said, Told
  <2> QED BY <1>1, <2>1, SaidBy DEF Talked
<1>2. /\ "wrote_detail" \notin WorkerLabels /\ "unable_to_verify" \notin WorkerLabels
  BY DEF WorkerLabels
<1>3. Said("wrote_detail") => detail BY <1>1, <1>2 DEF Due
<1>4. Said("unable_to_verify") => ~ detail BY <1>1, <1>2 DEF Due
<1>5. ASSUME Said("wrote_detail"), Said("detail"), Command # << >>
      PROVE  Fates("detail") = {"file_out"}
  <2>1. Following /\ Battle /\ (Throwing \/ Begun >= C + 4) BY <1>1, <1>2, <1>5 DEF Due
  <2>2. Throwing \/ Begun >= C + 3
    <3> SUFFICES ASSUME ~ Throwing PROVE Begun >= C + 3
      OBVIOUS
    <3>1. todo \in Seq(Statements(Command)) /\ Len(todo) \in Nat BY <2>1, InOrOut DEF Prepared
    <3>2. C \in Nat /\ Len(TheScript) \in Nat BY <2>1, TheScriptIs
    <3> QED BY <2>1, <3>1, <3>2 DEF Begun
  <2>3. PICK n \in 1..Len(accepted) : Told(n) = "detail" BY <1>5 DEF Said, Told
  <2>4. n =< Len(output) BY <1>5, <2>1, <2>2, <2>3 DEF Kept, DetailOut
  <2>5. n \in 1..Len(output) BY <2>3, <2>4, Where
  <2>6. \A k \in 1..Len(output) : Told(k) = "detail" => output[k].to = "file_out"
    BY <1>5 DEF Kept, Fated
  <2>7. Fates("detail") = {output[k].to : k \in {m \in 1..Len(output) : Told(m) = "detail"}}
    BY FatesAre
  <2> QED BY <2>3, <2>5, <2>6, <2>7
<1> QED BY <1>3, <1>4, <1>5 DEF AnnouncedDetailIsWritten, Command

\* The program says that the detail was written only if the result file could be
\* created, and then, with a switch for the battery, each line of the detail has
\* been written to it: none was lost by a pause or a restart.
THEOREM TheDetailIsAsAnnounced == Spec => []AnnouncedDetailIsWritten
<1>1. Spec => []Voices BY NothingIsEverRefused, PTL
<1> QED BY <1>1, AnnouncedNow, PreparedAlways, TalkAlways, KeptAlways, PTL

\* The summary is shown and the tests report, in a pause and a restart too: none of
\* these lines is dropped or lost.
THEOREM TheResultsAreShown == Spec => []ResultsAreShown
<1>1. Prepared /\ Kept => ResultsAreShown
  <2> SUFFICES ASSUME Prepared, Kept
    PROVE Fates("summary") \subseteq {"std_out"} /\ Fates("test") \subseteq {"std_out", "file_out"}
    BY DEF ResultsAreShown
  <2> QED BY FatesAre DEF Kept, Fated
<1> QED BY <1>1, PreparedAlways, KeptAlways, PTL

-----------------------------------------------------------------------------
(* The command line.                                                        *)

\* The command line is parsed while all the files are still there.
Grammatical == (stage = "parsing" => files = Paths) /\ ParsesTheGrammar

\* Every step keeps Grammatical.
LEMMA GrammaticalKept ==
  ASSUME Prepared, Grammatical, [Next]_vars
  PROVE  Grammatical'
<1>1. CASE Parse
  <2>1. argv \in Seq(Arguments) BY ApplicationAssumption DEF Prepared, AppTypes
  <2>2. stage = "parsing" /\ stage' # "parsing" /\ files = Paths /\ UNCHANGED <<argv, files>>
    BY <1>1 DEF Parse, Grammatical
  <2>3. LET normal == normalize_and_stringify_console_args(argv)
        IN  parsed' = IF Fails(normal) THEN normal ELSE process_input(normal.args, Paths)
    BY <1>1, <2>2 DEF Parse
  <2>4. argv # << >> =>
          /\ ~ Fails(parsed') <=> WellFormed(Tail(argv), Paths)
          /\ ~ Fails(parsed') => Reads(Tail(argv), parsed'.switches)
          /\ Fails(parsed') =>
               LET words == {Tail(argv)[n].word : n \in 1..Len(Tail(argv))}
               IN  parsed'.about \in words \cup {empty} \/ (empty \in words /\ parsed'.about = TheMessage)
    BY <2>1, <2>3, CommandLineIsRead
  <2>5. Given' = Tail(argv) BY <2>2 DEF Given
  <2>6. ParsesTheGrammar' <=> (stage' # "parsing" /\ argv' # << >> =>
          /\ ~ Fails(parsed') <=> WellFormed(Given', Paths)
          /\ ~ Fails(parsed') => Reads(Given', parsed'.switches)
          /\ Fails(parsed') =>
               LET words == {Given'[n].word : n \in 1..Len(Given')}
               IN  parsed'.about \in words \cup {empty} \/ (empty \in words /\ parsed'.about = TheMessage))
    BY DEF ParsesTheGrammar
  <2> QED BY <2>2, <2>4, <2>5, <2>6 DEF Grammatical
<1>2. ASSUME UNCHANGED <<argv, parsed>>, stage = "parsing" <=> stage' = "parsing",
             stage = "parsing" => UNCHANGED files
      PROVE  Grammatical'
  <2>1. Given' = Given BY <1>2 DEF Given
  <2>2. ParsesTheGrammar' <=> (stage' # "parsing" /\ argv' # << >> =>
          /\ ~ Fails(parsed') <=> WellFormed(Given', Paths)
          /\ ~ Fails(parsed') => Reads(Given', parsed'.switches)
          /\ Fails(parsed') =>
               LET words == {Given'[n].word : n \in 1..Len(Given')}
               IN  parsed'.about \in words \cup {empty} \/ (empty \in words /\ parsed'.about = TheMessage))
    BY DEF ParsesTheGrammar
  <2> QED BY <1>2, <2>1, <2>2 DEF Grammatical, ParsesTheGrammar
<1>3. CASE UNCHANGED restVars
  BY <1>2, <1>3 DEF restVars, mainVars
<1>4. CASE MainStep
  <2>1. Running /\ UNCHANGED <<argv, parsed, files>>
    BY <1>4 DEF MainStep, Statement, Pause, Restart, RestartWithFile, SayLines, TakePath, Announce,
      Execute, NoThread, WaitJoin, Summarise, RunFile, RunNamedTest, Throw, Return, Advance,
      AdvanceOrThrow
  <2>2. stage' # "parsing"
    <3>1. CASE Throw
      <4>1. Following BY <2>1, RunningFollows DEF Prepared
      <4>2. todo # << >> /\ Throwing /\ stage' = Head(todo).code BY <3>1 DEF Throw, Statement, Throwing
      <4>3. \E code \in {"exit_0", "exit_minus_1"} : todo = <<Thrower(code)>>
        BY <4>1, <4>2, InOrOut DEF Prepared, InScript
      <4> QED BY <4>2, <4>3, ThrowerIs
    <3>2. CASE ~ Throw
      BY <1>4, <2>1, <3>2 DEF MainStep, Running, Pause, Restart, RestartWithFile, SayLines, TakePath,
        Announce, Execute, NoThread, WaitJoin, Summarise, RunFile, RunNamedTest, Return, Advance,
        AdvanceOrThrow
    <3> QED BY <3>1, <3>2
  <2> QED BY <1>2, <2>1, <2>2 DEF Running
<1>5. ASSUME NEW w \in Workers, WorkerStep(w) PROVE Grammatical'
  BY <1>2, <1>5 DEF WorkerStep, RunTest, Report, PopNothing, mainVars
<1>6. ASSUME NEW f, RemoveFile(f) PROVE Grammatical'
  BY <1>2, <1>6 DEF RemoveFile, Running, mainVars
<1>7. ASSUME NEW p \in Producers, CloseProxy(p) PROVE Grammatical'
  BY <1>2, <1>7 DEF CloseProxy, mainVars
<1>8. CASE QueueStep(QueueMoves)
  BY <1>2, <1>8 DEF QueueStep, mainVars
<1> QED BY <1>1, <1>3, <1>4, <1>5, <1>6, <1>7, <1>8, StepClasses DEF OwnStep, Waiting

\* For every command line: process_input accepts those that the grammar accepts,
\* reads them as the grammar does, and blames one of the arguments otherwise.
THEOREM TheGrammarIsParsed == Spec => []ParsesTheGrammar
<1>1. Init => Grammatical BY DEF Init, Grammatical, ParsesTheGrammar
<1>2. Prepared /\ Grammatical /\ [Next]_vars => Grammatical' BY GrammaticalKept
<1>3. Grammatical => ParsesTheGrammar BY DEF Grammatical
<1> QED BY <1>1, <1>2, <1>3, PreparedAlways, PTL DEF Spec
=============================================================================
