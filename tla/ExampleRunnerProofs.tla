-------------------------- MODULE ExampleRunnerProofs --------------------------
(***************************************************************************)
(* Proofs about ExampleRunner, for any number of configurations, any output *)
(* and any size of the pipes.                                               *)
(***************************************************************************)
EXTENDS ExampleRunner, TLAPS, WellFoundedInduction

Answers == [ok : BOOLEAN, out : Nat, err : Nat]
Entries == [config : Configurations, answer : Answers]

TypeOK ==
  /\ pc \in {"arguments", "exit -1", "start", "wait", "result", "log", "returned", "failed"}
  /\ directory \in BOOLEAN
  /\ dict \in SUBSET Configurations
  /\ tasks \in SUBSET dict
  /\ results \in Seq(Entries)
  /\ log \in Seq(Entries)
  /\ task \in [Configurations -> {"none", "starting", "exit awaited", "out awaited",
                                  "err awaited", "done"}]
  /\ answer \in [Configurations -> Answers]
  /\ proc \in [Configurations -> {"none", "running", "exited"}]
  /\ code \in [Configurations -> Nat]
  /\ unwritten \in [Configurations -> [Streams -> Nat]]
  /\ pipe \in [Configurations -> [Streams -> Nat]]
  /\ read \in [Configurations -> [Streams -> Nat]]

\* The loop over the tasks goes up through the files that were found, and what is
\* before it is recorded.
Loop ==
  /\ pc \in {"arguments", "exit -1", "start"} =>
       /\ results = << >>
       /\ \A c \in Configurations : task[c] = "none"
  /\ pc \in {"arguments", "exit -1"} => tasks = {}
  /\ pc \in {"wait", "result"} => tasks # {}
  /\ pc \in {"log", "returned"} => tasks = {}
  /\ pc \in {"wait", "result", "log", "returned"} =>
       {results[n].config : n \in 1..Len(results)} \cup tasks = dict
  /\ \A n \in 1..Len(results) : \A c \in tasks : results[n].config < c
  /\ \A m, n \in 1..Len(results) : m < n => results[m].config < results[n].config
  /\ pc = "returned" => log = results

\* What has been recorded of a task is what it returned.
Recorded ==
  \A n \in 1..Len(results) :
    /\ task[results[n].config] = "done"
    /\ results[n].answer = answer[results[n].config]

\* A chunk is still to be written, in a pipe or read; a program with the exit code
\* 0 has written everything.
Programs ==
  \A c \in Configurations :
    /\ \A s \in Streams : unwritten[c][s] + pipe[c][s] + read[c][s] = Chunks
    /\ proc[c] = "exited" /\ code[c] = 0 => unwritten[c] = Empty

\* What a task knows at each of its awaits.
Awaits ==
  \A c \in Configurations :
    /\ task[c] \in {"out awaited", "err awaited"} => proc[c] = "exited"
    /\ task[c] = "err awaited" => pipe[c]["out"] = 0 /\ answer[c].out = read[c]["out"]
    /\ answer[c].ok => task[c] = "done" /\ answer[c].out = Chunks /\ answer[c].err = Chunks

\* What the answer of a task has of a stream is all that its program wrote to it,
\* and nobody writes or reads there any more.
HasAll(c, s, count) == proc[c] = "exited" /\ pipe[c][s] = 0 /\ count = read[c][s]

Answered ==
  \A c \in Configurations :
    /\ answer[c].out = 0 \/ HasAll(c, "out", answer[c].out)
    /\ answer[c].err = 0 \/ (HasAll(c, "out", answer[c].out) /\ HasAll(c, "err", answer[c].err))

\* Nothing runs for a task that has not begun.
Unstarted == \A c \in Configurations : task[c] \in {"none", "starting"} => proc[c] = "none"

IInv == TypeOK /\ Loop /\ Recorded /\ Programs /\ Awaits

-----------------------------------------------------------------------------

\* The initial states satisfy the invariant.
LEMMA Initially == Init => IInv
<1> SUFFICES ASSUME Init PROVE IInv
  OBVIOUS
<1> USE DEF Init
<1>1. TypeOK
  BY RunnerAssumption DEF TypeOK, Answers, NoAnswer, Empty, Streams
<1>2. Loop /\ Recorded /\ Awaits
  BY DEF Loop, Recorded, Awaits, NoAnswer
<1>3. Programs
  BY RunnerAssumption DEF Programs, Empty, Streams
<1> QED
  BY <1>1, <1>2, <1>3 DEF IInv

\* Configurations are numbers.
LEMMA TasksAreNumbers == TypeOK => tasks \in SUBSET Nat
<1>1. \A c \in Configurations : c \in Nat
  BY RunnerAssumption DEF Configurations
<1> QED
  BY <1>1 DEF TypeOK

\* An entry of the results, and the configuration it is about.
LEMMA EntryOf ==
  ASSUME TypeOK, NEW n \in 1..Len(results)
  PROVE  results[n] \in Entries /\ results[n].config \in Configurations
<1>0. results \in Seq(Entries)
  BY DEF TypeOK
<1>1. results[n] \in Entries
  BY <1>0
<1> QED
  BY <1>1 DEF Entries

\* The types of what the program writes and the task reads.
LEMMA Counts ==
  ASSUME TypeOK
  PROVE  /\ unwritten \in [Configurations -> [Streams -> Nat]]
         /\ pipe \in [Configurations -> [Streams -> Nat]]
         /\ read \in [Configurations -> [Streams -> Nat]]
         /\ answer \in [Configurations -> Answers]
BY DEF TypeOK

\* One count of one configuration changes.
LEMMA CountChanged ==
  ASSUME NEW f \in [Configurations -> [Streams -> Nat]], NEW c \in Configurations,
         NEW s \in Streams, NEW v \in Nat, NEW g, g = [f EXCEPT ![c][s] = v]
  PROVE  /\ g \in [Configurations -> [Streams -> Nat]]
         /\ g[c][s] = v
         /\ \A t \in Streams : t # s => g[c][t] = f[c][t]
         /\ \A d \in Configurations \ {c} : g[d] = f[d]
<1>1. g = [f EXCEPT ![c] = [f[c] EXCEPT ![s] = v]]
  OBVIOUS
<1>2. f[c] \in [Streams -> Nat]
  OBVIOUS
<1> DEFINE h == [f[c] EXCEPT ![s] = v]
<1>3. h \in [Streams -> Nat] /\ h[s] = v /\ \A t \in Streams : t # s => h[t] = f[c][t]
  BY <1>2
<1> HIDE DEF h
<1>4. g = [f EXCEPT ![c] = h]
  BY <1>1 DEF h
<1> QED
  BY <1>3, <1>4

\* The task that is waited for is the first of those that are left.
LEMMA AwaitedIsFirst ==
  ASSUME TypeOK, tasks # {}
  PROVE  Awaited \in tasks /\ \A d \in tasks : Awaited =< d
<1>1. tasks \in SUBSET Nat
  BY TasksAreNumbers
<1> DEFINE R == OpToRel(<, Nat)
<1>2. IsWellFoundedOn(R, Nat)
  BY NatLessThanWellFounded
<1>3. \A c, d \in Nat : d < c => <<d, c>> \in R
  BY DEF OpToRel
<1> HIDE DEF R
<1>4. \E c \in tasks : \A d \in tasks : ~ (<<d, c>> \in R)
  BY <1>1, <1>2, WFMin
<1>5. \E c \in tasks : \A d \in tasks : ~ (d < c)
  BY <1>1, <1>3, <1>4
<1>6. \E c \in tasks : \A d \in tasks : c =< d
  BY <1>1, <1>5
<1> QED
  BY <1>6 DEF Awaited

\* Appending an entry keeps the entries before it.
LEMMA Appended ==
  ASSUME NEW s \in Seq(Entries), NEW e \in Entries, NEW t, t = Append(s, e)
  PROVE  /\ t \in Seq(Entries)
         /\ Len(t) = Len(s) + 1
         /\ \A n \in 1..Len(s) : t[n] = s[n]
         /\ t[Len(s) + 1] = e
OBVIOUS

\* The steps of the main thread keep the invariant.
LEMMA MainKeeps ==
  ASSUME IInv, MainStep
  PROVE  IInv'
<1> USE DEF IInv
<1>1. CASE FindFiles
  <2> USE <1>1 DEF FindFiles, taskAndProcVars, procVars
  <2>1. tasks = {} /\ results = << >>
    BY DEF TypeOK, Loop
  <2>2. TypeOK'
    BY <2>1 DEF TypeOK
  <2>4. Loop'
    BY <2>1 DEF Loop
  <2>3. Recorded' /\ Programs' /\ Awaits'
    BY DEF Recorded, Programs, Awaits
  <2> QED
    BY <2>2, <2>3, <2>4
<1>2. CASE StartTasks
  <2> USE <1>2 DEF StartTasks, procVars
  <2>1. TypeOK'
    BY DEF TypeOK
  <2>5. results = << >>
    BY DEF Loop
  <2>6. {results[n].config : n \in 1..Len(results)} = {}
    BY <2>5
  <2>2. Loop'
    BY <2>5, <2>6 DEF Loop
  <2>3. Recorded' /\ Programs'
    BY DEF Recorded, Programs, Loop
  <2>4. Awaits'
    BY DEF Awaits, Loop, TypeOK
  <2> QED
    BY <2>1, <2>2, <2>3, <2>4
<1>3. CASE Wait
  <2> USE <1>3 DEF Wait, taskAndProcVars, procVars
  <2>1. TypeOK'
    BY DEF TypeOK
  <2>2. Loop'
    BY DEF Loop
  <2>3. Recorded' /\ Programs' /\ Awaits'
    BY DEF Recorded, Programs, Awaits
  <2> QED
    BY <2>1, <2>2, <2>3
<1>4. CASE TakeResult
  <2> USE <1>4
  <2> DEFINE a == Awaited
             e == [config |-> a, answer |-> answer[a]]
  <2>1. a \in tasks /\ \A d \in tasks : a =< d
    BY AwaitedIsFirst DEF TakeResult, Loop
  <2>2. /\ pc = "result" /\ task[a] = "done" /\ tasks' = tasks \ {a}
        /\ results' = Append(results, e)
        /\ pc' = IF tasks' = {} THEN "log" ELSE "wait"
        /\ UNCHANGED <<directory, dict, log>>
    BY DEF TakeResult
  <2>3. UNCHANGED <<task, answer, proc, code, unwritten, pipe, read>>
    BY DEF TakeResult, taskAndProcVars, procVars
  <2>4. a \in Configurations /\ e \in Entries /\ results \in Seq(Entries)
    BY <2>1 DEF TypeOK, Entries
  <2> DEFINE k == Len(results)
  <2>5. /\ results' \in Seq(Entries) /\ Len(results') = k + 1 /\ k \in Nat
        /\ \A n \in 1..k : results'[n] = results[n]
        /\ results'[k + 1] = e
    BY <2>2, <2>4, Appended
  <2>6. TypeOK'
    BY <2>2, <2>3, <2>5 DEF TypeOK
  <2>7. e.config = a /\ e.answer = answer[a]
    OBVIOUS
  <2> HIDE DEF a, e, k
  <2>8. Recorded'
    BY <2>2, <2>3, <2>5, <2>7 DEF Recorded
  <2>9. Loop'
    <3>1. \A n \in 1..(k + 1) : n \in 1..k \/ n = k + 1
      BY <2>5
    <3>2. \A n \in 1..Len(results') :
            results'[n].config = IF n = k + 1 THEN a ELSE results[n].config
      BY <2>5, <2>7, <3>1
    <3>3. {results'[n].config : n \in 1..Len(results')} \cup tasks' = dict'
      <4>1. {results[n].config : n \in 1..k} \cup tasks = dict
        BY <2>2 DEF Loop, k
      <4>2. {results'[n].config : n \in 1..Len(results')}
              = {results[n].config : n \in 1..k} \cup {a}
        <5>1. \A n \in 1..k : n \in 1..(k + 1) /\ n # k + 1
          BY <2>5
        <5>2. k + 1 \in 1..(k + 1)
          BY <2>5
        <5> QED
          BY <2>5, <3>1, <3>2, <5>1, <5>2
      <4> QED
        BY <2>1, <2>2, <4>1, <4>2
    <3>4. tasks \in SUBSET Nat
      BY TasksAreNumbers
    <3>5. \A n \in 1..k : \A c \in tasks : results[n].config < c
      BY DEF Loop, k
    <3>6. \A n \in 1..Len(results') : \A c \in tasks' : results'[n].config < c
      <4>1. \A c \in tasks' : a < c
        BY <2>1, <2>2, <3>4
      <4> QED
        BY <2>2, <2>5, <3>1, <3>2, <3>5, <4>1
    <3>7. \A m, n \in 1..Len(results') : m < n => results'[m].config < results'[n].config
      <4> TAKE m, n \in 1..Len(results')
      <4> HAVE m < n
      <4>1. m \in 1..k /\ m # k + 1
        BY <2>5
      <4>2. CASE n = k + 1
        BY <2>1, <2>5, <3>2, <3>5, <4>1, <4>2
      <4>3. CASE n # k + 1
        <5>1. n \in 1..k
          BY <3>1, <2>5, <4>3
        <5> QED
          BY <2>5, <4>1, <4>3, <5>1, <3>2 DEF Loop, k
      <4> QED
        BY <4>2, <4>3
    <3>8. pc' \in {"log", "wait"} /\ (pc' = "log" <=> tasks' = {})
      BY <2>2
    <3> QED
      BY <3>3, <3>6, <3>7, <3>8 DEF Loop
  <2>10. Programs' /\ Awaits'
    BY <2>3 DEF Programs, Awaits
  <2> QED
    BY <2>6, <2>8, <2>9, <2>10
<1>5. CASE NoLogFile
  <2> USE <1>5 DEF NoLogFile, taskAndProcVars, procVars
  <2>1. TypeOK'
    BY DEF TypeOK
  <2>2. Loop'
    BY DEF Loop
  <2>3. Recorded' /\ Programs' /\ Awaits'
    BY DEF Recorded, Programs, Awaits
  <2> QED
    BY <2>1, <2>2, <2>3
<1>6. CASE WriteLog
  <2> USE <1>6 DEF WriteLog, taskAndProcVars, procVars
  <2>1. TypeOK'
    BY DEF TypeOK
  <2>2. Loop'
    BY DEF Loop
  <2>3. Recorded' /\ Programs' /\ Awaits'
    BY DEF Recorded, Programs, Awaits
  <2> QED
    BY <2>1, <2>2, <2>3
<1> QED
  BY <1>1, <1>2, <1>3, <1>4, <1>5, <1>6 DEF MainStep

\* The loop is where it was if neither the main thread nor a task has moved.
LEMMA LoopStays ==
  ASSUME Loop, Recorded, UNCHANGED mainVars, UNCHANGED <<task, answer>>
  PROVE  Loop' /\ Recorded'
<1> USE DEF mainVars
<1>1. Loop'
  BY DEF Loop
<1>2. Recorded'
  BY DEF Recorded
<1> QED
  BY <1>1, <1>2

\* A task that goes on has not been recorded: what is recorded stays as it is.
LEMMA RecordedStays ==
  ASSUME IInv, NEW c \in Configurations, task[c] # "done", UNCHANGED mainVars,
         \A d \in Configurations \ {c} : task'[d] = task[d] /\ answer'[d] = answer[d],
         pc \in {"arguments", "exit -1", "start"} => task'[c] = "none"
  PROVE  Loop' /\ Recorded'
<1> USE DEF IInv, mainVars
<1>1. Loop'
  BY DEF Loop
<1>2. \A n \in 1..Len(results) : results[n].config \in Configurations \ {c}
  BY EntryOf DEF Recorded
<1>3. Recorded'
  BY <1>2 DEF Recorded
<1> QED
  BY <1>1, <1>3

\* The steps of a task keep the invariant.
LEMMA TaskKeeps ==
  ASSUME IInv, NEW c \in Configurations, TaskStep(c) \/ CatchException(c)
  PROVE  IInv'
<1> USE DEF IInv, mainVars, procVars
<1>1. CASE StartProgram(c)
  <2> USE <1>1 DEF StartProgram, At, Continue
  <2>1. TypeOK'
    BY DEF TypeOK
  <2>2. Loop' /\ Recorded'
    BY RecordedStays DEF TypeOK, Loop
  <2>3. Programs' /\ Awaits'
    BY DEF Programs, Awaits, TypeOK
  <2> QED
    BY <2>1, <2>2, <2>3
<1>2. ASSUME NEW s \in Streams, ReadChunk(c, s)
      PROVE  IInv'
  <2>1. /\ pipe[c][s] \in Nat /\ pipe[c][s] > 0 /\ read[c][s] \in Nat
        /\ pipe[c][s] - 1 \in Nat /\ read[c][s] + 1 \in Nat
    <3>1. pipe[c][s] \in Nat /\ read[c][s] \in Nat
      BY Counts
    <3> QED
      BY <1>2, <3>1 DEF ReadChunk
  <2>2. /\ pipe' = [pipe EXCEPT ![c][s] = pipe[c][s] - 1]
        /\ read' = [read EXCEPT ![c][s] = read[c][s] + 1]
    BY <1>2 DEF ReadChunk
  <2>3. /\ pipe' \in [Configurations -> [Streams -> Nat]]
        /\ pipe'[c][s] = pipe[c][s] - 1
        /\ \A t \in Streams : t # s => pipe'[c][t] = pipe[c][t]
        /\ \A d \in Configurations \ {c} : pipe'[d] = pipe[d]
    BY <2>1, <2>2, Counts, CountChanged
  <2>4. /\ read' \in [Configurations -> [Streams -> Nat]]
        /\ read'[c][s] = read[c][s] + 1
        /\ \A t \in Streams : t # s => read'[c][t] = read[c][t]
        /\ \A d \in Configurations \ {c} : read'[d] = read[d]
    BY <2>1, <2>2, Counts, CountChanged
  <2>5. UNCHANGED <<pc, directory, dict, tasks, results, log, task, answer, proc, code, unwritten>>
    BY <1>2 DEF ReadChunk
  <2>6. TypeOK'
    BY <2>3, <2>4, <2>5 DEF TypeOK
  <2>7. Loop' /\ Recorded'
    BY <2>5, LoopStays
  <2>8. Programs'
    <3>1. \A d \in Configurations, t \in Streams :
            /\ unwritten[d][t] \in Nat /\ pipe[d][t] \in Nat /\ read[d][t] \in Nat
            /\ unwritten[d][t] + pipe[d][t] + read[d][t] = Chunks
      BY Counts DEF Programs
    <3>2. \A d \in Configurations, t \in Streams :
            unwritten[d][t] + pipe'[d][t] + read'[d][t] = Chunks
      <4> TAKE d \in Configurations, t \in Streams
      <4>1. CASE d = c /\ t = s
        <5>1. \A u, p, q \in Nat : u + p + q = Chunks => u + (p - 1) + (q + 1) = Chunks
          OBVIOUS
        <5>2. unwritten[c][s] + (pipe[c][s] - 1) + (read[c][s] + 1) = Chunks
          BY <3>1, <5>1
        <5>3. unwritten[c][s] + pipe'[c][s] + read'[c][s] = Chunks
          BY <2>3, <2>4, <5>2
        <5> QED
          BY <4>1, <5>3
      <4>2. CASE d = c /\ t # s
        BY <2>3, <2>4, <3>1, <4>2
      <4>3. CASE d # c
        BY <2>3, <2>4, <3>1, <4>3
      <4> QED
        BY <4>1, <4>2, <4>3
    <3> QED
      BY <2>5, <3>2 DEF Programs
  <2>9. Awaits'
    <3>1. task[c] = "err awaited" => pipe[c]["out"] = 0
      BY DEF Awaits
    <3>2. task[c] = "err awaited" => s # "out"
      <4>1. s = "out" => pipe[c][s] = pipe[c]["out"]
        BY Zenon
      <4>2. pipe[c][s] # 0
        BY <2>1
      <4> QED
        BY <3>1, <4>1, <4>2, Zenon
    <3>3. "out" \in Streams
      BY DEF Streams
    <3>4. task[c] = "err awaited" =>
            pipe'[c]["out"] = pipe[c]["out"] /\ read'[c]["out"] = read[c]["out"]
      BY <2>3, <2>4, <3>2, <3>3
    <3>5. \A d \in Configurations : task[d] = "err awaited" =>
            pipe'[d]["out"] = pipe[d]["out"] /\ read'[d]["out"] = read[d]["out"]
      BY <2>3, <2>4, <3>4
    <3> QED
      BY <2>5, <3>5 DEF Awaits
  <2> QED
    BY <2>6, <2>7, <2>8, <2>9
<1>3. CASE AwaitExit(c)
  <2> USE <1>3 DEF AwaitExit, At, Continue
  <2>1. TypeOK'
    BY DEF TypeOK
  <2>2. Loop' /\ Recorded'
    BY RecordedStays DEF TypeOK, Loop
  <2>3. Programs' /\ Awaits'
    BY DEF Programs, Awaits, TypeOK
  <2> QED
    BY <2>1, <2>2, <2>3
<1>4. CASE AwaitOutput(c)
  <2> USE <1>4 DEF AwaitOutput, At, Continue, ReadToEnd
  <2>1. TypeOK'
    BY DEF TypeOK, Answers, Streams
  <2>2. Loop' /\ Recorded'
    BY RecordedStays DEF TypeOK, Loop
  <2>3. Programs'
    BY DEF Programs
  <2>4. Awaits'
    BY DEF Awaits, TypeOK, Answers
  <2> QED
    BY <2>1, <2>2, <2>3, <2>4
<1>5. CASE AwaitError(c)
  <2> DEFINE a == [answer[c] EXCEPT !.err = read[c]["err"], !.ok = (code[c] = 0)]
  <2>1. /\ task[c] = "err awaited" /\ task' = [task EXCEPT ![c] = "done"]
        /\ proc[c] = "exited" /\ pipe[c]["err"] = 0
        /\ answer' = [answer EXCEPT ![c] = a]
        /\ UNCHANGED <<pc, directory, dict, tasks, results, log, proc, code, unwritten, pipe, read>>
    BY <1>5 DEF AwaitError, At, Continue, ReadToEnd
  <2>2. read[c]["err"] \in Nat /\ answer[c] \in Answers
    BY Counts DEF Streams
  <2>3. /\ a \in Answers /\ a.out = answer[c].out /\ a.err = read[c]["err"]
        /\ a.ok <=> code[c] = 0
    BY <2>2 DEF Answers
  <2> HIDE DEF a
  <2>4. TypeOK'
    BY <2>1, <2>3 DEF TypeOK
  <2>5. Loop' /\ Recorded'
    BY <2>1, RecordedStays DEF TypeOK, Loop
  <2>6. Programs'
    BY <2>1 DEF Programs
  <2>7. code[c] = 0 => read[c]["out"] = Chunks /\ read[c]["err"] = Chunks
    <3>1. "out" \in Streams /\ "err" \in Streams
      BY DEF Streams
    <3>2. pipe[c]["out"] = 0 /\ read[c]["out"] \in Nat /\ read[c]["err"] \in Nat
      BY <2>1, <3>1, Counts DEF Awaits
    <3>3. code[c] = 0 => unwritten[c]["out"] = 0 /\ unwritten[c]["err"] = 0
      BY <2>1, <3>1 DEF Programs, Empty
    <3>4. /\ unwritten[c]["out"] + pipe[c]["out"] + read[c]["out"] = Chunks
          /\ unwritten[c]["err"] + pipe[c]["err"] + read[c]["err"] = Chunks
      BY <3>1 DEF Programs
    <3>5. \A m, n, k \in Nat : m + n + k = Chunks /\ m = 0 /\ n = 0 => k = Chunks
      OBVIOUS
    <3>6. 0 \in Nat
      OBVIOUS
    <3> QED
      BY <2>1, <3>2, <3>3, <3>4, <3>5, <3>6, Zenon
  <2>8. Awaits'
    <3>1. answer[c].out = read[c]["out"]
      BY <2>1 DEF Awaits
    <3>2. task'[c] = "done" /\ answer'[c] = a
      BY <2>1 DEF TypeOK
    <3>3. \A d \in Configurations \ {c} : task'[d] = task[d] /\ answer'[d] = answer[d]
      BY <2>1 DEF TypeOK
    <3>4. a.ok => a.out = Chunks /\ a.err = Chunks
      BY <2>3, <2>7, <3>1, Zenon
    <3>5. UNCHANGED <<proc, pipe, read>>
      BY <2>1
    <3> QED
      BY <3>2, <3>3, <3>4, <3>5 DEF Awaits
  <2> QED
    BY <2>4, <2>5, <2>6, <2>8
<1>6. CASE CatchException(c)
  <2> USE <1>6 DEF CatchException, Continue
  <2>1. TypeOK'
    BY DEF TypeOK
  <2>2. Loop' /\ Recorded'
    BY RecordedStays DEF TypeOK, Loop
  <2>3. Programs' /\ Awaits'
    BY DEF Programs, Awaits, TypeOK
  <2> QED
    BY <2>1, <2>2, <2>3
<1> QED
  BY <1>1, <1>2, <1>3, <1>4, <1>5, <1>6 DEF TaskStep

\* The steps of a program keep the invariant.
LEMMA ProgramKeeps ==
  ASSUME IInv, NEW c \in Configurations, ProgramStep(c)
  PROVE  IInv'
<1> USE DEF IInv, mainVars
<1>1. ASSUME NEW s \in Streams, WriteChunk(c, s)
      PROVE  IInv'
  <2> USE <1>1 DEF WriteChunk
  <2>1. /\ pipe[c][s] \in Nat /\ unwritten[c][s] \in Nat /\ unwritten[c][s] > 0
        /\ pipe[c][s] + 1 \in Nat /\ unwritten[c][s] - 1 \in Nat
    <3>1. pipe[c][s] \in Nat /\ unwritten[c][s] \in Nat
      BY Counts
    <3> QED
      BY <3>1
  <2>2. /\ pipe' = [pipe EXCEPT ![c][s] = pipe[c][s] + 1]
        /\ unwritten' = [unwritten EXCEPT ![c][s] = unwritten[c][s] - 1]
    OBVIOUS
  <2>3. /\ pipe' \in [Configurations -> [Streams -> Nat]]
        /\ pipe'[c][s] = pipe[c][s] + 1
        /\ \A t \in Streams : t # s => pipe'[c][t] = pipe[c][t]
        /\ \A d \in Configurations \ {c} : pipe'[d] = pipe[d]
    BY <2>1, <2>2, Counts, CountChanged
  <2>4. /\ unwritten' \in [Configurations -> [Streams -> Nat]]
        /\ unwritten'[c][s] = unwritten[c][s] - 1
        /\ \A t \in Streams : t # s => unwritten'[c][t] = unwritten[c][t]
        /\ \A d \in Configurations \ {c} : unwritten'[d] = unwritten[d]
    BY <2>1, <2>2, Counts, CountChanged
  <2>5. TypeOK'
    BY <2>3, <2>4 DEF TypeOK, procVars
  <2>6. Loop' /\ Recorded'
    BY LoopStays
  <2>7. Programs'
    <3>1. \A d \in Configurations, t \in Streams :
            /\ unwritten[d][t] \in Nat /\ pipe[d][t] \in Nat /\ read[d][t] \in Nat
            /\ unwritten[d][t] + pipe[d][t] + read[d][t] = Chunks
      BY Counts DEF Programs
    <3>2. \A d \in Configurations, t \in Streams :
            unwritten'[d][t] + pipe'[d][t] + read'[d][t] = Chunks
      <4> TAKE d \in Configurations, t \in Streams
      <4>1. CASE d = c /\ t = s
        BY <2>1, <2>3, <2>4, <3>1, <4>1
      <4>2. CASE d = c /\ t # s
        BY <2>3, <2>4, <3>1, <4>2
      <4>3. CASE d # c
        BY <2>3, <2>4, <3>1, <4>3
      <4> QED
        BY <4>1, <4>2, <4>3
    <3>3. proc[c] # "exited"
      OBVIOUS
    <3> QED
      BY <2>4, <3>2, <3>3 DEF Programs
  <2>8. Awaits'
    <3>1. task[c] # "err awaited"
      BY DEF Awaits
    <3> QED
      BY <2>3, <3>1 DEF Awaits
  <2> QED
    BY <2>5, <2>6, <2>7, <2>8
<1>2. ASSUME NEW exitCode \in 0..1, Exit(c, exitCode)
      PROVE  IInv'
  <2> USE <1>2 DEF Exit
  <2>4. exitCode \in Nat
    OBVIOUS
  <2>1. TypeOK'
    BY <2>4 DEF TypeOK
  <2>2. Loop' /\ Recorded'
    BY LoopStays
  <2>3. Programs' /\ Awaits'
    BY DEF Programs, Awaits, TypeOK
  <2> QED
    BY <2>1, <2>2, <2>3
<1> QED
  BY <1>1, <1>2 DEF ProgramStep

\* The invariant holds in every reachable state, for any number of configurations,
\* any output and any size of the pipes.
THEOREM Inductive == Spec => []IInv
<1>1. IInv /\ [Next]_vars => IInv'
  <2> SUFFICES ASSUME IInv, [Next]_vars PROVE IInv'
    OBVIOUS
  <2>1. CASE MainStep
    BY <2>1, MainKeeps
  <2>2. ASSUME NEW c \in Configurations, TaskStep(c) \/ CatchException(c) \/ ProgramStep(c)
        PROVE  IInv'
    BY <2>2, TaskKeeps, ProgramKeeps
  <2>3. CASE UNCHANGED vars
    <3>1. UNCHANGED <<pc, directory, dict, tasks, results, log, task, answer, proc, code,
                      unwritten, pipe, read>>
      BY <2>3 DEF vars, mainVars, procVars
    <3>2. TypeOK'
      BY <3>1 DEF IInv, TypeOK
    <3>3. Loop'
      BY <3>1 DEF IInv, Loop
    <3>4. Recorded' /\ Programs' /\ Awaits'
      BY <3>1 DEF IInv, Recorded, Programs, Awaits
    <3> QED
      BY <3>2, <3>3, <3>4 DEF IInv
  <2> QED
    BY <2>1, <2>2, <2>3 DEF Next, Terminated
<1> QED
  BY <1>1, Initially, PTL DEF Spec

\* However the tasks interleave, the log has one entry for each configuration found,
\* in the order of the names, with the answer of its own task, and an entry that is
\* ok has everything its program wrote (Program.cs:50-91).
THEOREM LogCompletes == Spec => []LogIsComplete
<1>1. IInv => LogIsComplete
  <2> SUFFICES ASSUME IInv, pc = "returned"
               PROVE  /\ {log[n].config : n \in 1..Len(log)} = dict
                      /\ \A m, n \in 1..Len(log) : m < n => log[m].config < log[n].config
                      /\ \A n \in 1..Len(log) :
                           /\ log[n].answer = answer[log[n].config]
                           /\ log[n].answer.ok =>
                                log[n].answer.out = Chunks /\ log[n].answer.err = Chunks
    BY DEF LogIsComplete
  <2> USE DEF IInv
  <2>1. log = results /\ tasks = {}
    BY DEF Loop
  <2>2. \A n \in 1..Len(results) : results[n].config \in Configurations
    BY EntryOf
  <2>3. {log[n].config : n \in 1..Len(log)} = dict
    BY <2>1 DEF Loop
  <2>4. \A m, n \in 1..Len(log) : m < n => log[m].config < log[n].config
    BY <2>1 DEF Loop
  <2>5. ASSUME NEW n \in 1..Len(log)
        PROVE  /\ log[n].answer = answer[log[n].config]
               /\ log[n].answer.ok =>
                    log[n].answer.out = Chunks /\ log[n].answer.err = Chunks
    <3>1. n \in 1..Len(results) /\ log[n] = results[n]
      BY <2>1
    <3>2. results[n].answer = answer[results[n].config]
      BY <3>1 DEF Recorded
    <3>3. results[n].config \in Configurations
      BY <2>2, <3>1
    <3>4. log[n].answer = answer[log[n].config]
      BY <3>1, <3>2
    <3>5. log[n].config \in Configurations
      BY <3>1, <3>3
    <3> QED
      BY <3>4, <3>5 DEF Awaits
  <2> QED
    BY <2>3, <2>4, <2>5
<1> QED
  BY <1>1, Inductive, PTL

\* Every step keeps Unstarted.
LEMMA UnstartedKept ==
  ASSUME IInv, Unstarted, [Next]_vars
  PROVE  Unstarted'
<1>1. /\ proc \in [Configurations -> {"none", "running", "exited"}]
      /\ task \in [Configurations -> {"none", "starting", "exit awaited", "out awaited",
                                      "err awaited", "done"}]
  BY DEF IInv, TypeOK
<1>2. CASE MainStep \/ UNCHANGED vars
  <2>1. CASE StartTasks
    <3>1. \A c \in Configurations : task[c] = "none" /\ proc'[c] = proc[c]
      BY <2>1 DEF StartTasks, IInv, Loop, procVars
    <3> QED BY <3>1 DEF Unstarted
  <2>2. CASE UNCHANGED <<task, proc>> BY <2>2 DEF Unstarted
  <2> QED
    BY <1>2, <2>1, <2>2 DEF MainStep, FindFiles, Wait, TakeResult, NoLogFile, WriteLog, taskAndProcVars,
      procVars, vars
<1>3. ASSUME NEW c \in Configurations, TaskStep(c) \/ CatchException(c) \/ ProgramStep(c)
      PROVE  Unstarted'
  <2>1. CASE TaskStep(c) \/ CatchException(c)
    BY <1>1, <2>1 DEF Unstarted, TaskStep, CatchException, StartProgram, ReadChunk, AwaitExit,
      AwaitOutput, AwaitError, At, Continue, procVars
  <2>2. CASE ProgramStep(c)
    BY <1>1, <2>2 DEF Unstarted, ProgramStep, WriteChunk, Exit
  <2> QED BY <1>3, <2>1, <2>2
<1> QED BY <1>2, <1>3 DEF Next, Terminated

\* Every step keeps Answered: the program has ended, so nobody writes to the pipe, and
\* the pipe is empty, so nobody reads from it.
LEMMA AnsweredKept ==
  ASSUME IInv, Unstarted, Answered, [Next]_vars
  PROVE  Answered'
<1>1. /\ pipe \in [Configurations -> [Streams -> Nat]] /\ read \in [Configurations -> [Streams -> Nat]]
      /\ proc \in [Configurations -> {"none", "running", "exited"}]
      /\ answer \in [Configurations -> Answers]
  BY DEF IInv, TypeOK
<1>2. "out" \in Streams /\ "err" \in Streams BY DEF Streams
<1>3. ASSUME UNCHANGED answer,
             \A c \in Configurations, s \in Streams :
               proc[c] = "exited" /\ pipe[c][s] = 0 =>
                 proc'[c] = "exited" /\ pipe'[c][s] = 0 /\ read'[c][s] = read[c][s]
      PROVE  Answered'
  BY <1>2, <1>3 DEF Answered, HasAll
<1>4. CASE UNCHANGED <<answer, proc, pipe, read>>
  BY <1>3, <1>4
<1>5. CASE MainStep \/ UNCHANGED vars
  BY <1>4, <1>5 DEF MainStep, FindFiles, StartTasks, Wait, TakeResult, NoLogFile, WriteLog, taskAndProcVars,
    procVars, vars
<1>6. ASSUME NEW c \in Configurations, TaskStep(c) \/ CatchException(c) \/ ProgramStep(c)
      PROVE  Answered'
  <2>1. CASE StartProgram(c)
    BY <1>1, <1>3, <2>1 DEF StartProgram, At, Unstarted
  <2>2. ASSUME NEW s \in Streams, ReadChunk(c, s) \/ WriteChunk(c, s) PROVE Answered'
    <3>1. CASE ReadChunk(c, s)
      <4>1. UNCHANGED <<answer, proc>> /\ pipe[c][s] # 0 BY <1>1, <3>1 DEF ReadChunk, procVars
      <4>2. \A d \in Configurations, t \in Streams :
              d # c \/ t # s => pipe'[d][t] = pipe[d][t] /\ read'[d][t] = read[d][t]
        BY <1>1, <3>1 DEF ReadChunk
      <4> QED BY <1>3, <4>1, <4>2
    <3>2. CASE WriteChunk(c, s)
      <4>1. UNCHANGED <<answer, proc, read>> /\ proc[c] = "running" BY <3>2 DEF WriteChunk
      <4>2. \A d \in Configurations \ {c} : pipe'[d] = pipe[d] BY <1>1, <3>2 DEF WriteChunk
      <4> QED BY <1>3, <4>1, <4>2
    <3> QED BY <2>2, <3>1, <3>2
  <2>3. CASE AwaitExit(c) \/ CatchException(c)
    BY <1>4, <2>3 DEF AwaitExit, CatchException, procVars
  <2>4. ASSUME NEW x \in Answers, answer' = [answer EXCEPT ![c] = x], UNCHANGED <<proc, pipe, read>>,
               HasAll(c, "out", x.out), x.err = 0 \/ HasAll(c, "err", x.err)
        PROVE  Answered'
    <3>1. answer'[c] = x /\ \A d \in Configurations \ {c} : answer'[d] = answer[d] BY <1>1, <2>4
    <3> QED BY <2>4, <3>1 DEF Answered, HasAll
  <2>5. CASE AwaitOutput(c)
    <3> DEFINE x == [answer[c] EXCEPT !.out = read[c]["out"]]
    <3>1. /\ answer' = [answer EXCEPT ![c] = x] /\ UNCHANGED <<proc, pipe, read>>
          /\ proc[c] = "exited" /\ pipe[c]["out"] = 0
      BY <2>5 DEF AwaitOutput, ReadToEnd, procVars
    <3>2. x \in Answers /\ x.out = read[c]["out"] /\ x.err = answer[c].err
      BY <1>1, <1>2 DEF Answers
    <3> HIDE DEF x
    <3>3. x.err = 0 \/ HasAll(c, "err", x.err) BY <3>2 DEF Answered
    <3> QED BY <2>4, <3>1, <3>2, <3>3 DEF HasAll
  <2>6. CASE AwaitError(c)
    <3> DEFINE x == [answer[c] EXCEPT !.err = read[c]["err"], !.ok = (code[c] = 0)]
    <3>1. /\ answer' = [answer EXCEPT ![c] = x] /\ UNCHANGED <<proc, pipe, read>>
          /\ proc[c] = "exited" /\ pipe[c]["err"] = 0 /\ task[c] = "err awaited"
      BY <2>6 DEF AwaitError, ReadToEnd, procVars, At
    <3>2. x \in Answers /\ x.out = answer[c].out /\ x.err = read[c]["err"]
      <4>1. answer[c] \in Answers /\ read[c]["err"] \in Nat BY <1>1, <1>2
      <4> QED BY <4>1 DEF Answers
    <3> HIDE DEF x
    <3>3. HasAll(c, "out", x.out) BY <3>1, <3>2 DEF IInv, Awaits, HasAll
    <3> QED BY <2>4, <3>1, <3>2, <3>3 DEF HasAll
  <2>7. ASSUME NEW exitCode \in 0..1, Exit(c, exitCode) PROVE Answered'
    BY <1>1, <1>3, <2>7 DEF Exit
  <2> QED BY <1>6, <2>1, <2>2, <2>3, <2>5, <2>6, <2>7 DEF TaskStep, ProgramStep
<1> QED BY <1>5, <1>6 DEF Next, Terminated

\* A stream is recorded as a whole or not at all, also of a program that failed and of
\* a task that an exception ended, and standard error only beside all of standard
\* output (Program.cs:96-121).
THEOREM StreamsStayWhole == Spec => []StreamsAreWhole
<1>1. Init => Unstarted /\ Answered
  BY DEF Init, Unstarted, Answered, NoAnswer
<1>2. IInv /\ Unstarted /\ Answered /\ [Next]_vars => Unstarted' /\ Answered'
  BY UnstartedKept, AnsweredKept
<1>3. IInv /\ Answered => StreamsAreWhole
  <2> SUFFICES ASSUME IInv, Answered, NEW n \in 1..Len(results)
               PROVE  LET c == results[n].config
                          got == results[n].answer
                          Whole(s, count) == proc[c] = "exited" /\ count = Chunks - unwritten[c][s]
                      IN  /\ got.out = 0 \/ Whole("out", got.out)
                          /\ got.err = 0 \/ (Whole("out", got.out) /\ Whole("err", got.err))
    BY DEF StreamsAreWhole
  <2> DEFINE c == results[n].config
  <2>1. c \in Configurations /\ results[n].answer = answer[c]
    BY EntryOf DEF IInv, Recorded
  <2>2. \A s \in Streams, count \in Nat :
          HasAll(c, s, count) => proc[c] = "exited" /\ count = Chunks - unwritten[c][s]
    <3> TAKE s \in Streams, count \in Nat
    <3> HAVE HasAll(c, s, count)
    <3>1. unwritten[c][s] \in Nat /\ unwritten[c][s] + pipe[c][s] + read[c][s] = Chunks
      BY <2>1, Counts DEF IInv, Programs
    <3>2. pipe[c][s] = 0 /\ count = read[c][s] /\ proc[c] = "exited" BY DEF HasAll
    <3> HIDE DEF c
    <3> QED BY <3>1, <3>2
  <2>3. answer[c].out \in Nat /\ answer[c].err \in Nat
    BY <2>1, Counts DEF IInv, Answers
  <2>4. "out" \in Streams /\ "err" \in Streams BY DEF Streams
  <2> HIDE DEF c
  <2>5. /\ answer[c].out = 0 \/ HasAll(c, "out", answer[c].out)
        /\ answer[c].err = 0 \/ (HasAll(c, "out", answer[c].out) /\ HasAll(c, "err", answer[c].err))
    BY <2>1 DEF Answered
  <2> QED BY <2>1, <2>2, <2>3, <2>4, <2>5 DEF c
<1> QED
  BY <1>1, <1>2, <1>3, Inductive, PTL DEF Spec
=============================================================================
