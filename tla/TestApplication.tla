--------------------------- MODULE TestApplication ---------------------------
(***************************************************************************)
(* The test application as a whole (execute_test_program of                *)
(* uint128_test_program.cpp, run_test_application and                      *)
(* execute_uint128_tests_threaded of int128_tests.cpp): the main thread    *)
(* parses the command line and follows the switches, talks through the     *)
(* proxies of the dedicated output queue, which it pauses and restarts     *)
(* around the battery of tests, and the threads of the runner talk through *)
(* the same queue meanwhile.                                               *)
(*                                                                         *)
(* The queue is DedicatedOutput with all its threads and interleavings.    *)
(* What the runner makes of the tests is what TestBattery promises of it,  *)
(* but of its own steps those are kept that decide whether it comes back:  *)
(* the creation of its threads, the notification of the last one, the wait *)
(* for it, and the joins.  The program is straight code once the switches  *)
(* are known: Script is the list of its statements.  Assertions are off,   *)
(* as in a release build.                                                  *)
(***************************************************************************)
EXTENDS TestSwitches

CONSTANTS
  Main,          \* the main thread
  Workers,       \* the threads of the runner
  Tests,         \* the battery
  TestOutcomes,  \* the ways its tests may end in this instance
  TestNames,     \* the names of tests that can be asked for
  Paths,         \* the files that exist when the program starts
  CommandLines,  \* bound: the command lines explored
  Executed,      \* bound: those whose execution is explored after the parsing
  MaxItems       \* bound: items a thread may offer

NoTest == "no_test"

ASSUME ApplicationAssumption ==
  /\ Main \notin Workers
  /\ NoTest \notin Tests
  /\ TestNames \subseteq Names /\ Paths \subseteq Names
  /\ CommandLines \subseteq Seq(Arguments)
  /\ Executed \subseteq CommandLines
  /\ MaxItems \in Nat
  /\ TestOutcomes \subseteq {"pass", "fail", "error"}

MaxRestarts == 3
Producers == Workers \cup {Main}
Routes == {"cout_proxy", "cerr_proxy", "file_out_proxy"}
Outcomes == {"pass", "fail", "error"}

VARIABLES
  queue, suppress, paused, file, stop, cpc, held, mpc, ppc, route, made, item,
  restarts, accepted, output,   \* the queue, as in DedicatedOutput
  phase, outcome, reported,     \* the runner, as in TestBattery
  argv,       \* the command line, with the name of the program
  parsed,     \* what process_input returned or threw
  files,      \* the files that exist
  stage,      \* "parsing", "parsed" and no further (bound), "running" or the exit code
  todo,       \* the statements that the main thread has before it
  speech,     \* the proxies each thread has open, in the order of their closing
  spoken,     \* history: what each thread has sent, the n-th item being the n-th
  doing,      \* the test each worker runs
  last,       \* workers whose last pop is behind them
  gone,       \* workers that have left thread_loop
  join,       \* where the main thread is in execute_and_wait_join
  path,       \* file_out_path.has_value()
  detail      \* whether the result file could be created

outVars == <<queue, suppress, paused, file, stop, cpc, held, mpc, ppc, route,
             made, item, restarts, accepted, output>>
batteryVars == <<phase, outcome, reported>>
workVars == <<doing, last, gone, join>>
mainVars == <<argv, parsed, stage, todo, path, detail>>
\* What a thread that only waits, or comes to its end, leaves alone.
restVars == <<outVars, batteryVars, doing, last, mainVars, files, speech, spoken>>
vars == <<restVars, gone, join>>

\* With its theorems, which TestApplicationProofs applies to the queue of the
\* program.
Out == INSTANCE DedicatedOutputProofs
Battery == INSTANCE TestBattery

Init ==
  /\ Out!Init /\ ~ file
  /\ Battery!Init
  /\ argv \in CommandLines
  /\ parsed = [switches |-> << >>]
  /\ files = Paths
  /\ stage = "parsing"
  /\ todo = << >>
  /\ speech = [p \in Producers |-> << >>]
  /\ spoken = [p \in Producers |-> << >>]
  /\ doing = [w \in Workers |-> NoTest]
  /\ last = {}
  /\ gone = {}
  /\ join = "none"
  /\ path = FALSE
  /\ detail = FALSE

-----------------------------------------------------------------------------
(* The statements of the program.  The proxies of a block are closed in the *)
(* opposite order of their declaration, so its lines are listed from the    *)
(* proxy that was declared last.                                            *)

Line(r, what)  == [route |-> r, what |-> what, blank |-> FALSE]
Nothing(r)     == [route |-> r, what |-> "nothing", blank |-> TRUE]
Cout(what)     == Line("cout_proxy", what)
Cerr(what)     == Line("cerr_proxy", what)
Fout(what)     == Line("file_out_proxy", what)
Say(lines)     == [do |-> "say", lines |-> lines]
Do(statement)  == [do |-> statement]

\* cout and cerr of a block of which only cout is used.
Tell(what) == Say(<<Nothing("cerr_proxy"), Cout(what)>>)

\* execute_uint128_tests_threaded
BatteryScript ==
  <<Do("pause"), Do("restart_with_file"), Say(<<Cout("threads")>>),
    Say(<<Nothing("cerr_proxy")>>), Do("execute"), Do("wait_join"), Do("summarise")>>

\* Mutant of AnnounceScript: the path is asked for when the queue is paused.
AnnounceScriptPathLate == <<Do("pause"), Do("take_path"), Do("restart"), Do("announce")>>

\* The path, a pause and a restart, and whether there is a file.
AnnounceScript == <<Do("take_path"), Do("pause"), Do("restart"), Do("announce")>>

Modes(command) == {command[n].mode : n \in 1..Len(command)}
When(condition, script) == IF condition THEN script ELSE << >>

ScriptOf(switch) ==
  CASE switch.mode \in FileModes -> [do |-> "run_file", path |-> file_path(switch)]
    [] switch.mode = {"run_specific_test"} -> [do |-> "run_test", name |-> test_name(switch)]
    [] switch.mode \notin flags_requiring_parameter ->
         Say(<<Nothing("cerr_proxy"), Nothing("cout_proxy")>>)

EachSwitch(command) == [n \in 1..Len(command) |-> ScriptOf(command[n])]

\* run_test_application.  get_dedicated makes a queue that runs, so the
\* restart under "if not running" has nothing to do.
Script(command) ==
  CASE command = << >> ->
         <<Do("pause"), Do("restart")>> \o BatteryScript \o AnnounceScript \o <<Do("pause")>>
    [] command # << >> /\ {"help"} \in Modes(command) ->
         <<Tell("help"), Do("pause")>>
    [] command # << >> /\ {"help"} \notin Modes(command) ->
         When({"print_environ_info"} \in Modes(command), <<Tell("environment")>>)
           \o When({"list_tests"} \in Modes(command), <<Tell("tests")>>)
           \o When({"run_default_tests"} \in Modes(command),
                   <<Do("pause"), Do("restart"), Tell("tests")>> \o BatteryScript
                     \o <<Say(<<Cout("done")>>)>> \o AnnounceScript)
           \o EachSwitch(command)
           \o <<Do("pause")>>

-----------------------------------------------------------------------------
(* execute_test_program: the command line, and the end of the program       *)

\* The switches are followed, or the mistake is told on std::cerr: exit code 0
\* for a runtime_error and -1 for the other exceptions.
Parse ==
  /\ stage = "parsing"
  /\ LET normal == normalize_and_stringify_console_args(argv)
     IN  parsed' = IF Fails(normal) THEN normal ELSE process_input(normal.args, files)
  /\ \/ /\ Fails(parsed')
        /\ stage' = IF parsed'.throws = "invalid_argument" THEN "exit_minus_1" ELSE "exit_0"
        /\ UNCHANGED todo
     \/ /\ ~ Fails(parsed')
        /\ stage' = IF argv \in Executed THEN "running" ELSE "parsed"
        /\ todo' = Script(parsed'.switches)
  /\ UNCHANGED <<outVars, batteryVars, workVars, argv, path, detail, files, speech, spoken>>

Running == stage = "running"

\* The main thread is between two statements, and the next one is this.
Statement(kind) ==
  /\ Running
  /\ mpc = "idle" /\ ppc[Main] = "idle" /\ speech[Main] = << >>
  /\ todo # << >> /\ Head(todo).do = kind

Advance == todo' = Tail(todo) /\ UNCHANGED <<argv, parsed, stage, files, spoken>>
SayNow(lines) == speech' = [speech EXCEPT ![Main] = lines]
Silently == UNCHANGED speech

\* The last pause has returned.
Return ==
  /\ Running
  /\ mpc = "idle" /\ ppc[Main] = "idle" /\ speech[Main] = << >>
  /\ todo = << >>
  /\ stage' = "exit_0"
  /\ UNCHANGED <<outVars, batteryVars, workVars, argv, parsed, todo, path, detail,
                 files, speech, spoken>>

\* An exception leaves run_test_application, without a pause: a failed test
\* gives the exit code 0, everything else -1.
Throw ==
  /\ Statement("throw")
  /\ stage' = Head(todo).code
  /\ UNCHANGED <<outVars, batteryVars, workVars, argv, parsed, todo, path, detail,
                 files, speech, spoken>>

-----------------------------------------------------------------------------
(* The queue                                                                *)

Pause ==
  /\ Statement("pause") /\ Advance /\ Silently
  /\ Out!PauseEnter
  /\ UNCHANGED <<batteryVars, workVars, path, detail>>

\* restart(): with the file that is open, none after a pause.
Restart ==
  /\ Statement("restart") /\ Advance /\ Silently
  /\ Out!RestartWithSameFile
  /\ UNCHANGED <<batteryVars, workVars, path, detail>>

\* restart(create_test_battery_results_filename()): a stream that could not be
\* opened is kept all the same.
RestartWithFile ==
  /\ Statement("restart_with_file") /\ Advance /\ Silently
  /\ Out!Restart(TRUE)
  /\ detail' \in BOOLEAN
  /\ UNCHANGED <<batteryVars, workVars, path>>

SayLines ==
  /\ Statement("say") /\ Advance
  /\ SayNow(Head(todo).lines)
  /\ UNCHANGED <<outVars, batteryVars, workVars, path, detail>>

\* get_file_out_proxy_path
TakePath ==
  /\ Statement("take_path") /\ Advance /\ Silently
  /\ path' = file
  /\ UNCHANGED <<outVars, batteryVars, workVars, detail>>

Announce ==
  /\ Statement("announce") /\ Advance
  /\ SayNow(IF path /\ detail THEN <<Cout("wrote_detail")>> ELSE <<Cerr("unable_to_verify")>>)
  /\ UNCHANGED <<outVars, batteryVars, workVars, path, detail>>

\* The runner's m_mutex: a worker holds it while the line about an error is on
\* its way, and the main thread while it joins.
Holds(w) == doing[w] # NoTest /\ outcome[doing[w]] = "error" /\ speech[w] = << >>
MutexFree == join # "joining" /\ \A w \in Workers : ~ Holds(w)

ErrorLine(p) ==
  p \in Workers /\ doing[p] # NoTest /\ outcome[doing[p]] = "error" /\ Len(speech[p]) = 1

\* The next proxy of a block is destroyed, with the text streamed into it.
CloseProxy(p) ==
  /\ Running
  /\ speech[p] # << >> /\ ppc[p] = "idle" /\ made[p] < MaxItems
  /\ ErrorLine(p) => MutexFree
  /\ Out!Offer(p, Head(speech[p]).route, Head(speech[p]).blank)
  /\ spoken' = [spoken EXCEPT ![p] = Append(@, Head(speech[p]).what)]
  /\ speech' = [speech EXCEPT ![p] = Tail(@)]
  /\ UNCHANGED <<batteryVars, workVars, mainVars, files>>

QueueStep(A) ==
  Running /\ A /\ UNCHANGED <<batteryVars, workVars, mainVars, files, speech, spoken>>

-----------------------------------------------------------------------------
(* The battery                                                              *)

AdvanceOrThrow(failed, code) ==
  /\ todo' = IF failed THEN <<[do |-> "throw", code |-> code]>> ELSE Tail(todo)
  /\ UNCHANGED <<argv, parsed, stage, files, spoken>>

\* Mutant of Execute: m_can_start is not set, and the threads never begin.
ExecuteHeldBack ==
  /\ Statement("execute") /\ Advance /\ Silently
  /\ join = "none"
  /\ UNCHANGED <<outVars, batteryVars, workVars, path, detail>>

\* execute(): the threads are created and let go.
Execute ==
  /\ Statement("execute") /\ Advance /\ Silently
  /\ join = "none"
  /\ Battery!Start
  /\ UNCHANGED <<outVars, workVars, path, detail>>

\* The first thread cannot be created: execute() throws.
NoThread ==
  /\ Statement("execute") /\ AdvanceOrThrow(TRUE, "exit_minus_1") /\ Silently
  /\ join = "none"
  /\ UNCHANGED <<outVars, batteryVars, workVars, path, detail>>

\* A later one cannot be created: the exception destroys the vector of those before
\* it, which joins them, and they wait for m_can_start.
NotAllThreads ==
  /\ Statement("execute")
  /\ join = "none" /\ join' = "unwinding"
  /\ UNCHANGED <<restVars, gone>>

Quiet(w) == doing[w] = NoTest /\ speech[w] = << >> /\ ppc[w] = "idle"

\* What perform_execute sends when its proxies are destroyed, and the line of
\* thread_loop about an error; the text goes to cout where there is no file.
TestLines(o) ==
  When(file, <<Fout("test")>>)
    \o <<IF o = "pass" THEN Nothing("cerr_proxy") ELSE Cerr("test")>>
    \o <<Cout("test")>>
    \o When(o = "error", <<Cerr("test")>>)

NotRun == {t \in Tests : outcome[t] = "none"}

\* A worker pops a test and runs it; after the last one it finds the queue done.
RunTest(w, t, o) ==
  /\ Running
  /\ Quiet(w) /\ w \notin gone
  /\ Battery!RunTest(t, o)
  /\ last' = IF NotRun = {t} THEN last \cup {w} ELSE last
  /\ doing' = [doing EXCEPT ![w] = t]
  /\ speech' = [speech EXCEPT ![w] = TestLines(o)]
  /\ UNCHANGED <<outVars, gone, join, mainVars, files, spoken>>

\* A worker records the result under m_mutex, or has told of the error under it.
Report(w) ==
  /\ Running
  /\ doing[w] # NoTest /\ speech[w] = << >> /\ ppc[w] = "idle"
  /\ Holds(w) \/ MutexFree
  /\ Battery!Report(doing[w])
  /\ doing' = [doing EXCEPT ![w] = NoTest]
  /\ UNCHANGED <<outVars, last, gone, join, mainVars, files, speech, spoken>>

\* A worker pops nothing: another one took the last test since it looked.
PopNothing(w) ==
  /\ Running
  /\ phase = "running" /\ NotRun = {}
  /\ Quiet(w) /\ w \notin last \cup gone
  /\ last' = last \cup {w}
  /\ speech' = [speech EXCEPT ![w] = <<Cerr("test")>>]
  /\ UNCHANGED <<outVars, batteryVars, doing, gone, join, mainVars, files, spoken>>

\* A worker finds the queue empty and leaves thread_loop; the last one notifies.
Leave(w) ==
  /\ Running
  /\ phase = "running" /\ NotRun = {}
  /\ Quiet(w) /\ w \notin gone
  /\ MutexFree
  /\ gone' = gone \cup {w}
  /\ join' = IF gone' = Workers /\ join = "waiting" THEN "woken" ELSE join
  /\ UNCHANGED restVars

\* wait_join(): m_all_threads_done.wait(lck) has no predicate.  Whoever comes after
\* the notification waits for another one.
BeginWait ==
  /\ Statement("wait_join")
  /\ MutexFree
  /\ join = "none" /\ join' = IF gone = Workers THEN "late" ELSE "waiting"
  /\ UNCHANGED <<restVars, gone>>

WakeSpuriously ==
  /\ Running
  /\ join \in {"waiting", "late"} /\ join' = "woken"
  /\ UNCHANGED <<restVars, gone>>

\* Woken, the main thread locks m_mutex and keeps it while it joins.
Relock ==
  /\ Running
  /\ MutexFree
  /\ join = "woken" /\ join' = "joining"
  /\ UNCHANGED <<restVars, gone>>

\* Mutant of WaitJoin: the threads are not joined.
WaitJoinUnjoined ==
  /\ Statement("wait_join") /\ Advance /\ Silently
  /\ join = "joining" /\ join' = "none"
  /\ phase = "running" /\ phase' = "returned"
  /\ UNCHANGED <<outcome, reported, outVars, doing, last, gone, path, detail>>

\* All joined: the results are handed over.
WaitJoin ==
  /\ Statement("wait_join") /\ Advance /\ Silently
  /\ join = "joining" /\ join' = "none"
  /\ gone = Workers
  /\ Battery!Return
  /\ UNCHANGED <<outVars, doing, last, gone, path, detail>>

\* Mutant of SummaryLines: cout is declared last, so that it is closed first.
SummaryLinesCoutFirst(passing, failing) ==
  <<IF passing = {} THEN Nothing("file_out_proxy") ELSE Fout("detail"),
    Nothing("cerr_proxy"), Cout("summary")>>

\* The three proxies of the results with a file: the details are told of the
\* tests that passed and of those that failed, none of those that ended with
\* another error.
SummaryLines(passing, failing) ==
  IF ~ file THEN <<Cerr("summary"), Cout("summary")>>
  ELSE <<IF failing = {} THEN Nothing("cerr_proxy") ELSE Cerr("summary"),
         Cout("summary"),
         IF passing \cup failing = {} THEN Nothing("file_out_proxy") ELSE Fout("detail")>>

Ended(o) == {t \in Tests : outcome[t] = o}

Summarise ==
  /\ Statement("summarise") /\ Advance
  /\ SayNow(SummaryLines(Ended("pass"), Ended("fail")))
  /\ UNCHANGED <<outVars, batteryVars, workVars, path, detail>>

-----------------------------------------------------------------------------
(* The switches that name a file or a test                                  *)

\* execute_test_file: the file cannot be opened, its contents are no operations
\* (error), an operation has the wrong result (fail), or all are right.
RunFile(o) ==
  /\ Statement("run_file")
  /\ Head(todo).path \notin files => o = "error"
  /\ AdvanceOrThrow(o # "pass", IF o = "fail" THEN "exit_0" ELSE "exit_minus_1")
  /\ SayNow(<<IF o = "pass" THEN Nothing("cerr_proxy") ELSE Cerr("file"),
              IF o = "error" THEN Nothing("cout_proxy") ELSE Cout("file")>>)
  /\ UNCHANGED <<outVars, batteryVars, workVars, path, detail>>

\* execute_specified_test: the test's own proxies are closed before those of the
\* loop; a name that is no test is told on cerr.
RunNamedTest(o) ==
  /\ Statement("run_test") /\ Advance
  /\ SayNow(IF Head(todo).name \in TestNames
            THEN When(file, <<Fout("named")>>)
                   \o <<IF o = "pass" THEN Nothing("cerr_proxy") ELSE Cerr("named"), Cout("named"),
                        IF o = "error" THEN Cerr("named") ELSE Nothing("cerr_proxy"), Cout("named")>>
            ELSE <<Cerr("named"), Nothing("cout_proxy")>>)
  /\ UNCHANGED <<outVars, batteryVars, workVars, path, detail>>

\* The environment: a file that is still to be read goes away after process_input
\* has looked at it.
RemoveFile(f) ==
  /\ Running
  /\ f \in files
  /\ [do |-> "run_file", path |-> f] \in {todo[n] : n \in 1..Len(todo)}
  /\ files' = files \ {f}
  /\ UNCHANGED <<outVars, batteryVars, workVars, mainVars, speech, spoken>>

-----------------------------------------------------------------------------

MainStep ==
  \/ Pause \/ Restart \/ RestartWithFile \/ SayLines \/ TakePath \/ Announce
  \/ Execute \/ NoThread \/ WaitJoin \/ Summarise
  \/ \E o \in Outcomes : RunFile(o) \/ RunNamedTest(o)
  \/ Throw \/ Return

WorkerStep(w) ==
  \/ \E t \in Tests, o \in TestOutcomes : RunTest(w, t, o)
  \/ Report(w)
  \/ PopNothing(w)

Talk(p) ==
  \/ CloseProxy(p)
  \/ QueueStep(Out!Enqueue(p))
  \/ QueueStep(Out!NotifyOne(p))

MainThread == MainStep \/ BeginWait \/ Relock \/ Talk(Main) \/ QueueStep(Out!PauseStep)
Worker(w) == WorkerStep(w) \/ Leave(w) \/ Talk(w)
OutputThread == QueueStep(Out!ConsumerStep)

\* A program that has ended does nothing more.
Terminated == ~ Running /\ stage # "parsing" /\ UNCHANGED vars

Next ==
  \/ Parse
  \/ MainThread
  \/ \E w \in Workers : Worker(w)
  \/ OutputThread
  \/ QueueStep(Out!SpuriousWake)
  \/ QueueStep(Out!PauseSpuriousWake)
  \/ NotAllThreads
  \/ WakeSpuriously
  \/ \E f \in Paths : RemoveFile(f)
  \/ Terminated

\* The output thread is scheduled when it can run, and so are the others: a thread
\* that asks for m_mutex again and again gets it.  Fairness among the others need
\* not be asked for, as they talk no more than they have to.  Files need not go
\* away, nor need there be spurious wakeups.
Fairness ==
  /\ SF_vars(MainThread \/ \E w \in Workers : Worker(w))
  /\ WF_vars(OutputThread)

Spec == Init /\ [][Next]_vars
FairSpec == Spec /\ Fairness

-----------------------------------------------------------------------------
(* Properties                                                               *)


\* The arguments after the name of the program.
Given == Tail(argv)

\* A command line is accepted exactly when it belongs to the language of
\* switches and parameters, and then each switch is read with the parameter
\* that follows it.  Otherwise the exception tells of an argument of the user,
\* except about an empty parameter, where it tells of a text of its own.
ParsesTheGrammar ==
  stage # "parsing" /\ argv # << >> =>
    /\ ~ Fails(parsed) <=> WellFormed(Given, Paths)
    /\ ~ Fails(parsed) => Reads(Given, parsed.switches)
    /\ Fails(parsed) =>
         LET words == {Given[n].word : n \in 1..Len(Given)}
         IN  parsed.about \in words \cup {empty} \/ (empty \in words /\ parsed.about = TheMessage)

LabelOf(i) == spoken[i.from][i.no]
From(p) == {n \in 1..Len(accepted) : accepted[n].from = p}

\* Nothing that the program says is refused by its queue: no pause begins while
\* a thread still talks, and everything after a pause waits for the restart.
NothingIsRefused ==
  \A p \in Producers :
    made[p] = Cardinality(From(p)) + (IF ppc[p] = "enqueue" THEN 1 ELSE 0)

\* What the tests say lies between the line that opens the battery and its
\* summary, and no test runs without its file: runner and main thread agree on
\* when the battery is over.
BatteryIsBracketed ==
  /\ \A n \in 1..Len(accepted) : accepted[n].from \in Workers =>
       /\ \E k \in 1..(n - 1) : LabelOf(accepted[k]) = "threads"
       /\ \A k \in 1..(n - 1) : LabelOf(accepted[k]) # "summary"
  /\ \A w \in Workers : doing[w] # NoTest => file

Fates(what) == {output[n].to : n \in {k \in 1..Len(output) : LabelOf(output[k].item) = what}}
Said(what) == \E n \in 1..Len(accepted) : LabelOf(accepted[n]) = what

\* The program says that it wrote the detail exactly if the file is there.  With a
\* switch for the battery the detail is in it then; without switches the detail
\* is the last line before the pause, which may have lost it or, the stream being
\* gone, sent it to the console.
AnnouncedDetailIsWritten ==
  /\ Said("wrote_detail") => detail
  /\ Said("unable_to_verify") => ~ detail
  /\ Said("wrote_detail") /\ Said("detail") /\ parsed.switches # << >> =>
       Fates("detail") = {"file_out"}

Returned == stage = "exit_0" /\ ~ Fails(parsed) /\ todo = << >>

\* A program that ends by itself has shown the summary of the battery and what
\* the tests said: of each pause only the last line can be lost, and it is
\* neither.  What is written to a result file that could not be opened counts as
\* shown there: the stream is present, and its failure changes nothing here.
ResultsAreShown ==
  Returned =>
    /\ Fates("summary") \subseteq {"std_out"}
    /\ Fates("test") \subseteq {"std_out", "file_out"}

\* The main thread never comes back, if nothing wakes a thread that nobody has
\* notified: from the join of a pause whose request to stop came between the
\* predicate and the wait of the output thread; from the wait for the threads of the
\* battery, if they had all ended before it began; from joining those that still
\* need the mutex, after a spurious wakeup; from joining those that were created
\* before one that could not be.
Hung ==
  \/ mpc = "join" /\ cpc = "waiting"
  \/ join = "late"
  \/ join = "joining" /\ gone # Workers
  \/ join = "unwinding"

\* The program ends, or hangs in one of four known ways and not merely for a while:
\* in particular, a wait for the battery that begins in time is notified, and
\* nothing that the workers and the main thread have still to say holds them up.
ProgramEnds == <>[](Running => Hung)
=============================================================================
