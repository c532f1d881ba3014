---------------------------- MODULE ExampleRunner ----------------------------
(***************************************************************************)
(* The runner of the example code (example_code_runner/Program.cs): it     *)
(* looks for the executable of every build configuration, starts a task    *)
(* for each one it finds, which starts the program and reads what it       *)
(* writes, waits for the tasks one after the other and logs what they      *)
(* returned.                                                               *)
(*                                                                         *)
(* The programs are external: each writes its output in chunks to two      *)
(* pipes that can fill up, and ends with some exit code.  Configurations   *)
(* are numbered in the order of their names, in which the dictionary of    *)
(* the files found is sorted.                                              *)
(***************************************************************************)
EXTENDS Naturals, Sequences

CONSTANTS
  NumConfigs,  \* Configurations.Count
  Chunks,      \* bound: what a program writes to each of its streams
  Capacity     \* bound: what a pipe holds

ASSUME RunnerAssumption ==
  NumConfigs \in Nat \ {0} /\ Chunks \in Nat /\ Capacity \in Nat \ {0}

Configurations == 1..NumConfigs
Streams == {"out", "err"}
Empty == [s \in Streams |-> 0]

VARIABLES
  pc,         \* where the main thread is
  directory,  \* whether the working directory exists
  dict,       \* the configurations whose file is found
  tasks,      \* the configurations whose task it has still to wait for
  results,    \* taskResults
  log,        \* what output.txt holds, << >> before it is written
  task,       \* where the task of each configuration is
  answer,     \* the tuple it returns
  proc,       \* the program: "none", "running" or "exited"
  code,       \* its exit code
  unwritten,  \* chunks it has still to write to each stream
  pipe,       \* chunks in each pipe
  read        \* chunks that the asynchronous reads of the task have got

mainVars == <<pc, directory, dict, tasks, results, log>>
procVars == <<proc, code, unwritten>>
vars == <<mainVars, task, answer, procVars, pipe, read>>

NoAnswer == [ok |-> FALSE, out |-> 0, err |-> 0]

Init ==
  /\ pc = "arguments"
  /\ directory \in BOOLEAN
  /\ dict = {}
  /\ tasks = {}
  /\ results = << >>
  /\ log = << >>
  /\ task = [c \in Configurations |-> "none"]
  /\ answer = [c \in Configurations |-> NoAnswer]
  /\ proc = [c \in Configurations |-> "none"]
  /\ code = [c \in Configurations |-> 0]
  /\ unwritten = [c \in Configurations |-> [s \in Streams |-> Chunks]]
  /\ pipe = [c \in Configurations |-> Empty]
  /\ read = [c \in Configurations |-> Empty]

-----------------------------------------------------------------------------
(* The task of a configuration: RunProgramAsync                             *)

At(c, from) == task[c] = from
Continue(c, to) == task' = [task EXCEPT ![c] = to]

\* p.Start(), and the two reads begin.
StartProgram(c) ==
  /\ At(c, "starting") /\ Continue(c, "exit awaited")
  /\ proc' = [proc EXCEPT ![c] = "running"]
  /\ UNCHANGED <<mainVars, answer, code, unwritten, pipe, read>>

\* Mutant of Reading: the reads begin when the program has ended.
ReadingAfterExit(c) == task[c] \in {"out awaited", "err awaited"}

\* While this holds the asynchronous reads of a task empty its pipes.
Reading(c) == task[c] \in {"exit awaited", "out awaited", "err awaited"}

ReadChunk(c, s) ==
  /\ Reading(c)
  /\ pipe[c][s] > 0
  /\ pipe' = [pipe EXCEPT ![c][s] = @ - 1]
  /\ read' = [read EXCEPT ![c][s] = @ + 1]
  /\ UNCHANGED <<mainVars, task, answer, procVars>>

AwaitExit(c) ==
  /\ At(c, "exit awaited") /\ Continue(c, "out awaited")
  /\ proc[c] = "exited"
  /\ UNCHANGED <<mainVars, answer, procVars, pipe, read>>

\* Mutant of ReadToEnd: a read is over when the program is.
ReadSoFar(c, s) == proc[c] = "exited"

\* A read is over when the pipe is empty and nobody can write to it.
ReadToEnd(c, s) == proc[c] = "exited" /\ pipe[c][s] = 0

AwaitOutput(c) ==
  /\ At(c, "out awaited") /\ Continue(c, "err awaited")
  /\ ReadToEnd(c, "out")
  /\ answer' = [answer EXCEPT ![c].out = read[c]["out"]]
  /\ UNCHANGED <<mainVars, procVars, pipe, read>>

AwaitError(c) ==
  /\ At(c, "err awaited") /\ Continue(c, "done")
  /\ ReadToEnd(c, "err")
  /\ answer' = [answer EXCEPT ![c].err = read[c]["err"], ![c].ok = (code[c] = 0)]
  /\ UNCHANGED <<mainVars, procVars, pipe, read>>

\* Whatever throws in the task is caught: it returns what it has, not ok.
CatchException(c) ==
  /\ task[c] \notin {"none", "done"} /\ Continue(c, "done")
  /\ UNCHANGED <<mainVars, answer, procVars, pipe, read>>

-----------------------------------------------------------------------------
(* The programs                                                             *)

WriteChunk(c, s) ==
  /\ proc[c] = "running"
  /\ unwritten[c][s] > 0 /\ pipe[c][s] < Capacity
  /\ unwritten' = [unwritten EXCEPT ![c][s] = @ - 1]
  /\ pipe' = [pipe EXCEPT ![c][s] = @ + 1]
  /\ UNCHANGED <<mainVars, task, answer, proc, code, read>>

\* With the exit code 0 when it has written everything, or with another one.
Exit(c, exitCode) ==
  /\ proc[c] = "running"
  /\ exitCode = 0 => unwritten[c] = Empty
  /\ proc' = [proc EXCEPT ![c] = "exited"]
  /\ code' = [code EXCEPT ![c] = exitCode]
  /\ UNCHANGED <<mainVars, task, answer, unwritten, pipe, read>>

-----------------------------------------------------------------------------
(* The main thread                                                          *)

taskAndProcVars == <<task, answer, procVars, pipe, read>>

\* ProcessInputArgs and GetRunInfo: the directory, and the files found in it.
FindFiles ==
  /\ pc = "arguments"
  /\ \/ ~ directory /\ pc' = "exit -1" /\ UNCHANGED dict
     \/ directory /\ pc' = "start" /\ dict' \in SUBSET Configurations
  /\ UNCHANGED <<directory, tasks, results, log, taskAndProcVars>>

StartTasks ==
  /\ pc = "start"
  /\ task' = [c \in Configurations |-> IF c \in dict THEN "starting" ELSE task[c]]
  /\ tasks' = dict
  /\ pc' = IF dict = {} THEN "log" ELSE "wait"
  /\ UNCHANGED <<directory, dict, results, log, answer, procVars, pipe, read>>

\* The configuration whose task is waited for: the loop over the tasks goes through
\* them in the order of the names.
Awaited == CHOOSE c \in tasks : \A d \in tasks : c =< d

\* task.Wait(maxTime): what it returns, whether the task is done or the ten
\* seconds are over, is not looked at.
Wait ==
  /\ pc = "wait"
  /\ pc' = "result"
  /\ UNCHANGED <<directory, dict, tasks, results, log, taskAndProcVars>>

\* Mutant of TakeResult: a task that is not done in time is given up.
TakeResultInTime ==
  /\ pc = "result"
  /\ tasks' = tasks \ {Awaited}
  /\ results' = Append(results, [config |-> Awaited, answer |-> answer[Awaited]])
  /\ pc' = IF tasks' = {} THEN "log" ELSE "wait"
  /\ UNCHANGED <<directory, dict, log, taskAndProcVars>>

\* task.Result waits for the task, without a limit.
TakeResult ==
  /\ pc = "result"
  /\ task[Awaited] = "done"
  /\ tasks' = tasks \ {Awaited}
  /\ results' = Append(results, [config |-> Awaited, answer |-> answer[Awaited]])
  /\ pc' = IF tasks' = {} THEN "log" ELSE "wait"
  /\ UNCHANGED <<directory, dict, log, taskAndProcVars>>

\* output.txt cannot be created: the exception is nobody's.
NoLogFile ==
  /\ pc = "log" /\ pc' = "failed"
  /\ UNCHANGED <<directory, dict, tasks, results, log, taskAndProcVars>>

\* output.txt
WriteLog ==
  /\ pc = "log"
  /\ log' = results
  /\ pc' = "returned"
  /\ UNCHANGED <<directory, dict, tasks, results, taskAndProcVars>>

-----------------------------------------------------------------------------

MainStep == FindFiles \/ StartTasks \/ Wait \/ TakeResult \/ NoLogFile \/ WriteLog

TaskStep(c) ==
  \/ StartProgram(c)
  \/ \E s \in Streams : ReadChunk(c, s)
  \/ AwaitExit(c) \/ AwaitOutput(c) \/ AwaitError(c)

ProgramStep(c) ==
  \/ \E s \in Streams : WriteChunk(c, s)
  \/ \E exitCode \in 0..1 : Exit(c, exitCode)

\* The main thread is gone, and with it the tasks are.
Over == pc \in {"returned", "exit -1", "failed"}

Terminated == Over /\ UNCHANGED vars

Next ==
  \/ MainStep
  \/ /\ ~ Over
     /\ \E c \in Configurations : TaskStep(c) \/ CatchException(c) \/ ProgramStep(c)
  \/ Terminated

\* The main thread and the tasks are scheduled, and a program that can write or
\* has written everything goes on; nobody has to fail.
Fairness ==
  /\ WF_vars(MainStep)
  /\ \A c \in Configurations :
       /\ WF_vars(TaskStep(c))
       /\ WF_vars((\E s \in Streams : WriteChunk(c, s)) \/ Exit(c, 0))

Spec == Init /\ [][Next]_vars
FairSpec == Spec /\ Fairness

-----------------------------------------------------------------------------
(* Properties                                                               *)

\* However the tasks interleave, output.txt has one entry for each configuration
\* found, in the order of the names, with the answer of its own task; an entry
\* that is ok has everything its program wrote to either stream.
LogIsComplete ==
  pc = "returned" =>
    /\ {log[n].config : n \in 1..Len(log)} = dict
    /\ \A m, n \in 1..Len(log) : m < n => log[m].config < log[n].config
    /\ \A n \in 1..Len(log) :
         /\ log[n].answer = answer[log[n].config]
         /\ log[n].answer.ok => log[n].answer.out = Chunks /\ log[n].answer.err = Chunks

\* A stream is in an entry as a whole or not at all: also where the program has
\* failed, or an exception has ended the task between its awaits, no entry has a part
\* of what a program wrote, or what one wrote that was still running; and standard
\* error is there only beside all of standard output.
StreamsAreWhole ==
  \A n \in 1..Len(results) :
    LET c == results[n].config
        got == results[n].answer
        Whole(s, count) == proc[c] = "exited" /\ count = Chunks - unwritten[c][s]
    IN  /\ got.out = 0 \/ Whole("out", got.out)
        /\ got.err = 0 \/ (Whole("out", got.out) /\ Whole("err", got.err))

\* A run ends if its programs do: none of them is left writing to a full pipe
\* while the runner waits for its exit.
RunEnds == (pc = "start") ~> (pc \in {"returned", "failed"})
=============================================================================
