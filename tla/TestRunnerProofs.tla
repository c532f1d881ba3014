-------------------------- MODULE TestRunnerProofs --------------------------
(***************************************************************************)
(* The safety of the pool for any number of tests and threads.  IndInv is   *)
(* inductive: it says what the runner is before execute() lets its threads  *)
(* go and after, where each test is, what the two counters count, and when  *)
(* a thread may leave the loop.  On it rests the refinement of the battery  *)
(* (TestBattery), a test of which has the outcome that the worker who holds *)
(* it has found, or the side it was recorded on.                            *)
(***************************************************************************)
EXTENDS TestRunner, TLAPS, FiniteSetTheorems

WorkerPCs == {"none", "await_start", "count", "announce", "loop", "stopping", "pop", "run",
              "push", "report", "queue_empty", "decrement", "notify_done", "exited"}

MainPCs == {"idle", "spawn", "unwinding", "start", "await_started", "executed", "waiting",
            "woken", "joining", "returned", "destroying", "destroyed"}

TypeOK ==
  /\ status \in {"ready", "running", "done", "moved_from"}
  /\ remaining \in 0..NumTests
  /\ canStart \in BOOLEAN
  /\ allStarted \in BOOLEAN
  /\ threads \in 0..NumThreads
  /\ threadVec \in 0..NumThreads
  /\ stopped \in 0..NumThreads
  /\ running \in Int
  /\ started \in Int
  /\ passing \in SUBSET Tests
  /\ failing \in SUBSET Tests
  /\ errors \in SUBSET Tests
  /\ wpc \in [Workers -> WorkerPCs]
  /\ test \in [Workers -> Tests \cup {NoTest}]
  /\ outcome \in [Workers -> AllOutcomes \cup {"none"}]
  /\ mpc \in MainPCs
  /\ runs \in Nat

AllExited == \A w \in Workers : wpc[w] = "exited"

\* Until the threads are let go nothing has happened but their creation.
Fresh ==
  ~ canStart =>
    /\ mpc \in {"idle", "spawn", "unwinding", "start", "destroying", "destroyed"}
    /\ status = "ready" /\ ~ allStarted
    /\ threadVec = 0 /\ stopped = 0 /\ running = 0 /\ started = 0
    /\ remaining = NumTests /\ Recorded = {}
    /\ \A w \in Workers : wpc[w] = IF w =< threads THEN "await_start" ELSE "none"
    /\ mpc = "spawn" => threads < NumThreads
    /\ mpc = "start" => threads = NumThreads
    /\ mpc \in {"idle", "destroying", "destroyed"} => threads = 0

\* A runner that was started: running, being destroyed, or done with its threads.
Executing ==
  /\ mpc \in {"await_started", "executed", "waiting", "woken", "joining"}
  /\ status = "running" /\ threadVec = NumThreads /\ stopped = 0

Stopping ==
  /\ mpc = "destroying"
  /\ status = "running" /\ threadVec = NumThreads
  /\ \A w \in Workers : w < stopped => wpc[w] = "exited"

Joined ==
  /\ mpc \in {"returned", "destroying", "destroyed"}
  /\ mpc # "destroyed" => status = "done"
  /\ status \in {"done", "moved_from"}
  /\ threads = 0 /\ threadVec = 0 /\ stopped = 0
  /\ AllExited

Pool ==
  canStart =>
    /\ Executing \/ Stopping \/ Joined
    /\ \A w \in Workers : wpc[w] # "none"

\* A worker holds a test, and an outcome, where it should.
Hands ==
  \A w \in Workers :
    /\ test[w] # NoTest <=> wpc[w] \in {"run", "push", "report"}
    /\ wpc[w] = "push" => outcome[w] \in {"pass", "fail"}
    /\ wpc[w] = "report" => outcome[w] = "error"
    /\ wpc[w] \notin {"push", "report"} => outcome[w] = "none"

\* Every test is in the queue, in the hands of one worker, or recorded once.
Custody ==
  /\ \A w \in Workers : test[w] # NoTest => test[w] > remaining /\ test[w] \notin Recorded
  /\ \A v, w \in Workers : test[v] # NoTest /\ test[v] = test[w] => v = w
  /\ \A t \in Recorded : t > remaining
  /\ \A t \in Tests : t > remaining => t \in Recorded \/ \E w \in Workers : test[w] = t
  /\ passing \cap failing = {} /\ passing \cap errors = {} /\ failing \cap errors = {}

Arrived == {w \in Workers : wpc[w] \notin {"none", "await_start", "count"}}

Counts ==
  canStart => running = Cardinality(Live) /\ started = Cardinality(Arrived)

\* Whoever announces has found the count complete.
Barrier ==
  /\ allStarted \/ (\E w \in Workers : wpc[w] = "announce") => canStart /\ Arrived = Workers
  /\ mpc \in {"executed", "waiting"} => allStarted

\* A thread leaves an empty queue, unless it was told to stop.
Leaving ==
  \A w \in Workers :
    /\ wpc[w] = "stopping" => stopped > 0
    /\ wpc[w] = "queue_empty" => remaining = 0
    /\ stopped = 0 /\ wpc[w] \in {"decrement", "notify_done", "exited"} => remaining = 0

\* All of them are gone only when there is nothing left to do.
AllDone == canStart /\ AllExited => remaining = 0 /\ Recorded = Tests

IndInv ==
  /\ TypeOK /\ Fresh /\ Pool /\ Hands /\ Custody
  /\ Counts /\ Barrier /\ LastThreadNotifies /\ Leaving /\ AllDone

-----------------------------------------------------------------------------

\* The pool has at least one thread and no fewer than there are tests.
LEMMA NumThreadsType == NumThreads \in Nat \ {0} /\ NumTests =< NumThreads
BY ConstantsAssumption DEF NumThreads

\* A runner that has just been made satisfies the invariant.
LEMMA InitInductive == Init => IndInv
<1> SUFFICES ASSUME Init PROVE IndInv
  OBVIOUS
<1> USE NumThreadsType, ConstantsAssumption DEF Init
<1>1. TypeOK
  <2>1. wpc \in [Workers -> WorkerPCs] /\ test \in [Workers -> Tests \cup {NoTest}]
        /\ outcome \in [Workers -> AllOutcomes \cup {"none"}]
    BY DEF WorkerPCs
  <2>2. remaining \in 0..NumTests /\ runs \in Nat
    OBVIOUS
  <2>3. threads \in 0..NumThreads /\ threadVec \in 0..NumThreads /\ stopped \in 0..NumThreads
    OBVIOUS
  <2>4. running \in Int /\ started \in Int
    OBVIOUS
  <2>5. passing \in SUBSET Tests /\ failing \in SUBSET Tests /\ errors \in SUBSET Tests
    OBVIOUS
  <2>6. status \in {"ready", "running", "done", "moved_from"} /\ mpc \in MainPCs
        /\ canStart \in BOOLEAN /\ allStarted \in BOOLEAN
    BY DEF MainPCs
  <2> QED BY ONLY <2>1, <2>2, <2>3, <2>4, <2>5, <2>6 DEF TypeOK
<1>2. Fresh
  BY DEF Fresh, Workers, Recorded
<1>3. Pool /\ Counts /\ AllDone
  BY DEF Pool, Counts, AllDone
<1>4. Hands
  BY DEF Hands
<1>5. Custody
  BY DEF Custody, Recorded, Tests
<1>6. Barrier /\ LastThreadNotifies /\ Leaving
  BY DEF Barrier, LastThreadNotifies, Leaving
<1> QED BY <1>1, <1>2, <1>3, <1>4, <1>5, <1>6 DEF IndInv

\* Before the threads are let go none of them takes a step.
LEMMA WorkersAreStarted ==
  ASSUME IndInv, NEW w \in Workers, WorkerStep(w)
  PROVE  canStart
<1>1. Fresh /\ canStart \in BOOLEAN
  BY DEF IndInv, TypeOK
<1>2. ~ canStart => wpc[w] \in {"none", "await_start"}
  BY <1>1 DEF Fresh
<1> QED
  BY <1>1, <1>2 DEF WorkerStep, AwaitStart, CountStarted, AnnounceStarted, LoopTest, StoppingTest,
     TryPop, RunTest, PushResult, ReportError, NotifyQueueEmpty, DecrementRunning, NotifyDone, Goto

\* What a worker's step leaves alone.
LEMMA WorkerFrame ==
  ASSUME TypeOK, NEW w \in Workers, WorkerStep(w)
  PROVE  /\ UNCHANGED <<status, canStart, threads, threadVec, stopped, runs>>
         /\ mpc' = mpc \/ (mpc = "waiting" /\ mpc' = "woken")
         /\ wpc[w] \notin {"none", "exited"}
         /\ wpc'[w] \in WorkerPCs \ {"none", "await_start"}
         /\ wpc'[w] = "count" => wpc[w] = "await_start"
         /\ wpc' = [wpc EXCEPT ![w] = wpc'[w]]
<1> USE DEF TypeOK, WorkerPCs
<1>1. wpc' = [wpc EXCEPT ![w] = wpc'[w]] /\ wpc[w] \notin {"none", "exited"}
      /\ wpc'[w] \in WorkerPCs \ {"none", "await_start"}
      /\ (wpc'[w] = "count" => wpc[w] = "await_start")
  BY DEF WorkerStep, AwaitStart, CountStarted, AnnounceStarted, LoopTest, StoppingTest,
     TryPop, RunTest, PushResult, ReportError, NotifyQueueEmpty, DecrementRunning, NotifyDone, Goto
<1>2. UNCHANGED <<status, canStart, threads, threadVec, stopped, runs>>
  BY DEF WorkerStep, AwaitStart, CountStarted, AnnounceStarted, LoopTest, StoppingTest,
     TryPop, RunTest, PushResult, ReportError, NotifyQueueEmpty, DecrementRunning, NotifyDone,
     WorkerUnchanged, flagVars
<1>3. mpc' = mpc \/ (mpc = "waiting" /\ mpc' = "woken")
  BY DEF WorkerStep, AwaitStart, CountStarted, AnnounceStarted, LoopTest, StoppingTest,
     TryPop, RunTest, PushResult, ReportError, NotifyQueueEmpty, DecrementRunning, NotifyDone,
     WorkerUnchanged, flagVars
<1> QED BY <1>1, <1>2, <1>3

\* Every step keeps the types.
LEMMA TypeInductive == IndInv /\ [Next]_vars => TypeOK'
<1> SUFFICES ASSUME TypeOK, Fresh, Pool, Hands, [Next]_vars PROVE TypeOK'
  BY DEF IndInv
<1> USE NumThreadsType, ConstantsAssumption
   DEF TypeOK, WorkerPCs, MainPCs, flagVars, countVars, resultVars
<1>1. ASSUME NEW w \in Workers, WorkerStep(w) PROVE TypeOK'
  <2>1. CASE AwaitStart(w) \/ AnnounceStarted(w) \/ LoopTest(w) \/ StoppingTest(w)
               \/ NotifyQueueEmpty(w)
    BY <2>1 DEF AwaitStart, AnnounceStarted, LoopTest, StoppingTest, NotifyQueueEmpty, Goto,
                WorkerUnchanged
  <2>2. CASE CountStarted(w) \/ DecrementRunning(w)
    BY <2>2 DEF CountStarted, DecrementRunning, Goto
  <2>3. CASE TryPop(w)
    BY <2>3 DEF TryPop, Goto, Tests
  <2>4. CASE \E o \in Outcomes : RunTest(w, o)
    BY <2>4 DEF RunTest, Goto
  <2>5. CASE PushResult(w) \/ ReportError(w)
    <3>1. test[w] \in Tests
      BY <2>5 DEF PushResult, ReportError, Goto, Hands
    <3>2. passing' \in SUBSET Tests /\ failing' \in SUBSET Tests /\ errors' \in SUBSET Tests
      BY <2>5, <3>1 DEF PushResult, ReportError
    <3> QED BY <2>5, <3>2 DEF PushResult, ReportError, DropObject, Goto
  <2>6. CASE NotifyDone(w)
    BY <2>6 DEF NotifyDone, Goto
  <2> QED BY <1>1, <2>1, <2>2, <2>3, <2>4, <2>5, <2>6 DEF WorkerStep
<1>2. CASE ExecuteEnter \/ AwaitAllStarted \/ WaitDone \/ RelockAndJoin \/ Unwind
             \/ WakeSpuriously \/ SpawnFails \/ Destroy
  BY <1>2 DEF ExecuteEnter, AwaitAllStarted, WaitDone, RelockAndJoin, Unwind, WakeSpuriously,
              SpawnFails, Destroy, MainGoto
<1>3. CASE SpawnThread
  <2>1. ~ canStart /\ threads < NumThreads
    BY <1>3 DEF SpawnThread, Pool, Executing, Stopping, Joined, Fresh
  <2>2. threads' \in 0..NumThreads
    BY <1>3, <2>1 DEF SpawnThread
  <2>3. wpc' \in [Workers -> WorkerPCs]
    BY <1>3 DEF SpawnThread
  <2> QED BY <1>3, <2>2, <2>3 DEF SpawnThread
<1>4. CASE StartAll
  BY <1>4 DEF StartAll, MainGoto
<1>5. CASE JoinAll
  BY <1>5 DEF JoinAll, MainGoto
<1>6. CASE StopNext
  BY <1>6 DEF StopNext
<1>7. CASE Destroyed
  BY <1>7 DEF Destroyed, MainGoto
<1>8. CASE Reset
  <2>1. wpc' \in [Workers -> WorkerPCs] /\ test' \in [Workers -> Tests \cup {NoTest}]
        /\ outcome' \in [Workers -> AllOutcomes \cup {"none"}]
    BY <1>8 DEF Reset
  <2>2. remaining' \in 0..NumTests /\ runs' \in Nat
    BY <1>8 DEF Reset
  <2>3. threads' \in 0..NumThreads /\ threadVec' \in 0..NumThreads /\ stopped' \in 0..NumThreads
    BY <1>8 DEF Reset
  <2>4. running' \in Int /\ started' \in Int
    BY <1>8 DEF Reset
  <2>5. passing' \in SUBSET Tests /\ failing' \in SUBSET Tests /\ errors' \in SUBSET Tests
    BY <1>8 DEF Reset
  <2>6. status' \in {"ready", "running", "done", "moved_from"} /\ mpc' \in MainPCs
        /\ canStart' \in BOOLEAN /\ allStarted' \in BOOLEAN
    BY <1>8 DEF Reset
  <2> QED BY ONLY <2>1, <2>2, <2>3, <2>4, <2>5, <2>6 DEF TypeOK
<1>9. CASE UNCHANGED vars BY <1>9 DEF vars
<1> QED
  BY <1>1, <1>2, <1>3, <1>4, <1>5, <1>6, <1>7, <1>8, <1>9 DEF Next, MainStep

\* Until m_can_start is set all threads stand at the barrier.
LEMMA FreshInductive == IndInv /\ [Next]_vars => Fresh'
<1> SUFFICES ASSUME IndInv, [Next]_vars PROVE Fresh'
  OBVIOUS
<1> TypeOK /\ Fresh /\ Pool
  BY DEF IndInv
<1> USE NumThreadsType DEF flagVars, countVars, resultVars, MainGoto
<1>1. ASSUME NEW w \in Workers, WorkerStep(w) PROVE Fresh'
  BY <1>1, WorkersAreStarted, WorkerFrame DEF Fresh
<1>2. CASE ExecuteEnter \/ SpawnFails \/ Destroy
  <2>1. canStart => mpc \notin {"idle", "spawn"}
    BY DEF Pool, Executing, Stopping, Joined
  <2> QED BY <1>2, <2>1 DEF ExecuteEnter, SpawnFails, Destroy, Fresh, Recorded
<1>3. CASE SpawnThread
  <2>1. ~ canStart /\ threads < NumThreads /\ threads \in 0..NumThreads
    BY <1>3 DEF SpawnThread, Pool, Executing, Stopping, Joined, Fresh, TypeOK
  <2>2. threads + 1 \in Workers
    BY <2>1 DEF Workers
  <2>3. ASSUME NEW v \in Workers
        PROVE  wpc'[v] = IF v =< threads' THEN "await_start" ELSE "none"
    BY <1>3, <2>1, <2>2 DEF SpawnThread, Fresh, Workers, TypeOK
  <2> QED BY <1>3, <2>1, <2>3 DEF SpawnThread, Fresh, Recorded, TypeOK
<1>4. CASE Unwind
  <2>1. ~ canStart
    BY <1>4 DEF Unwind, Pool, Executing, Stopping, Joined, TypeOK
  <2>2. threads = 0
    <3>1. SUFFICES ASSUME threads # 0 PROVE FALSE
      OBVIOUS
    <3>2. 1 \in Workers /\ 1 \in 1..threads
      BY <3>1 DEF Workers, TypeOK
    <3> QED BY <1>4, <2>1, <3>2 DEF Unwind, Fresh
  <2> QED BY <1>4, <2>1, <2>2 DEF Unwind, Fresh, Recorded
<1>5. CASE StartAll
  BY <1>5 DEF StartAll, Fresh
<1>6. CASE AwaitAllStarted \/ WaitDone \/ RelockAndJoin \/ WakeSpuriously \/ JoinAll
  BY <1>6 DEF AwaitAllStarted, WaitDone, RelockAndJoin, WakeSpuriously, JoinAll, Fresh
<1>7. CASE StopNext
  <2>1. canStart
    BY <1>7 DEF StopNext, Fresh, TypeOK
  <2> QED BY <1>7, <2>1 DEF StopNext, Fresh
<1>8. CASE Destroyed
  BY <1>8 DEF Destroyed, Fresh, Recorded
<1>9. CASE Reset
  <2>1. canStart
    BY <1>9 DEF Reset, Fresh, TypeOK
  <2>2. threads = 0 /\ threadVec = 0 /\ stopped = 0
    BY <1>9, <2>1 DEF Reset, Pool, Executing, Stopping, Joined
  <2> QED BY <1>9, <2>2 DEF Reset, Fresh, Recorded, Workers
<1>10. CASE UNCHANGED vars
  BY <1>10 DEF vars, Fresh, Recorded
<1> QED
  BY <1>1, <1>2, <1>3, <1>4, <1>5, <1>6, <1>7, <1>8, <1>9, <1>10 DEF Next, MainStep

\* From then on the pool runs, is joined or is being destroyed.
LEMMA PoolInductive == IndInv /\ [Next]_vars => Pool'
<1> SUFFICES ASSUME IndInv, [Next]_vars PROVE Pool'
  OBVIOUS
<1> TypeOK /\ Fresh /\ Pool
  BY DEF IndInv
<1> USE NumThreadsType DEF flagVars, countVars, resultVars, MainGoto
<1>1. ASSUME NEW w \in Workers, WorkerStep(w) PROVE Pool'
  <2>1. canStart /\ ~ AllExited
    BY <1>1, WorkersAreStarted, WorkerFrame DEF AllExited
  <2>2. ASSUME NEW v \in Workers PROVE wpc'[v] # "none" /\ (wpc[v] = "exited" => wpc'[v] = "exited")
    BY <1>1, <2>1, WorkerFrame DEF Pool, TypeOK
  <2> QED BY <1>1, <2>1, <2>2, WorkerFrame DEF Pool, Executing, Stopping, Joined
<1>2. CASE ExecuteEnter \/ SpawnThread \/ Unwind \/ SpawnFails
  <2>1. ~ canStart
    BY <1>2 DEF ExecuteEnter, SpawnThread, Unwind, SpawnFails, Pool, Executing, Stopping, Joined
  <2> QED BY <1>2, <2>1 DEF ExecuteEnter, SpawnThread, Unwind, SpawnFails, Pool, TypeOK
<1>3. CASE StartAll
  <2>1. ~ canStart
    BY <1>3 DEF StartAll, Pool, Executing, Stopping, Joined
  <2>2. threads = NumThreads /\ stopped = 0 /\ \A w \in Workers : wpc[w] # "none"
    BY <1>3, <2>1 DEF StartAll, Fresh, TypeOK, Workers
  <2> QED BY <1>3, <2>2 DEF StartAll, Pool, Executing
<1>4. CASE AwaitAllStarted \/ WaitDone \/ RelockAndJoin \/ WakeSpuriously
  BY <1>4 DEF AwaitAllStarted, WaitDone, RelockAndJoin, WakeSpuriously, Pool, Executing, Stopping,
     Joined
<1>5. CASE JoinAll
  BY <1>5 DEF JoinAll, Pool, Executing, Stopping, Joined, AllExited, Workers
<1>6. CASE Destroy
  BY <1>6 DEF Destroy, Pool, Executing, Stopping, Joined, AllExited, Workers
<1>7. CASE StopNext
  BY <1>7 DEF StopNext, Pool, Executing, Stopping, Joined, AllExited, Workers, TypeOK
<1>8. CASE Destroyed
  BY <1>8 DEF Destroyed, Pool, Executing, Stopping, Joined, AllExited, Workers, TypeOK
<1>9. CASE Reset
  BY <1>9 DEF Reset, Pool
<1>10. CASE UNCHANGED vars
  BY <1>10 DEF vars, Pool, Executing, Stopping, Joined, AllExited
<1> QED
  BY <1>1, <1>2, <1>3, <1>4, <1>5, <1>6, <1>7, <1>8, <1>9, <1>10 DEF Next, MainStep

\* What a thread has in its hands fits where it stands in thread_loop.
LEMMA HandsInductive == IndInv /\ [Next]_vars => Hands'
<1> SUFFICES ASSUME IndInv, [Next]_vars PROVE Hands'
  OBVIOUS
<1> TypeOK /\ Fresh /\ Pool /\ Hands
  BY DEF IndInv
<1> USE ConstantsAssumption DEF flagVars, countVars, resultVars, MainGoto
<1>1. ASSUME NEW w \in Workers, WorkerStep(w) PROVE Hands'
  <2> USE DEF Goto, TypeOK
  <2>1. CASE AwaitStart(w) \/ AnnounceStarted(w) \/ LoopTest(w) \/ StoppingTest(w)
               \/ NotifyQueueEmpty(w)
    BY <2>1 DEF AwaitStart, AnnounceStarted, LoopTest, StoppingTest, NotifyQueueEmpty,
                WorkerUnchanged, Hands
  <2>2. CASE CountStarted(w) \/ DecrementRunning(w) \/ NotifyDone(w)
    BY <2>2 DEF CountStarted, DecrementRunning, NotifyDone, Hands
  <2>3. CASE TryPop(w)
    <3>1. CASE remaining > 0
      BY <2>3, <3>1 DEF TryPop, Hands, NoTest, Tests
    <3>2. CASE remaining = 0
      BY <2>3, <3>2 DEF TryPop, Hands
    <3> QED BY <3>1, <3>2
  <2>4. ASSUME NEW o \in Outcomes, RunTest(w, o) PROVE Hands'
    <3>1. o \in {"pass", "fail", "error"}
      BY DEF AllOutcomes
    <3> QED BY <2>4, <3>1 DEF RunTest, Hands
  <2>5. CASE PushResult(w)
    BY <2>5 DEF PushResult, DropObject, Hands
  <2>6. CASE ReportError(w)
    BY <2>6 DEF ReportError, DropObject, Hands
  <2> QED BY <1>1, <2>1, <2>2, <2>3, <2>4, <2>5, <2>6 DEF WorkerStep
<1>2. CASE ExecuteEnter \/ AwaitAllStarted \/ WaitDone \/ RelockAndJoin \/ Unwind
             \/ WakeSpuriously \/ SpawnFails \/ Destroy \/ StartAll
  BY <1>2 DEF ExecuteEnter, AwaitAllStarted, WaitDone, RelockAndJoin, Unwind, WakeSpuriously,
              SpawnFails, Destroy, StartAll, Hands
<1>3. CASE JoinAll \/ StopNext \/ Destroyed
  BY <1>3 DEF JoinAll, StopNext, Destroyed, Hands
<1>4. CASE SpawnThread
  <2>1. \A v \in Workers : wpc[v] \in {"none", "await_start"} /\ wpc'[v] \in {"none", "await_start"}
    BY <1>4 DEF SpawnThread, Pool, Executing, Stopping, Joined, Fresh, TypeOK
  <2> QED BY <1>4, <2>1 DEF SpawnThread, Hands
<1>5. CASE Reset
  <2>1. \A v \in Workers : wpc[v] \in {"none", "await_start", "exited"}
    BY <1>5 DEF Reset, Pool, Executing, Stopping, Joined, Fresh, AllExited
  <2> QED BY <1>5, <2>1 DEF Reset, Hands
<1>6. CASE UNCHANGED vars
  BY <1>6 DEF vars, Hands
<1> QED
  BY <1>1, <1>2, <1>3, <1>4, <1>5, <1>6 DEF Next, MainStep

\* No thread has taken a test before they are let go, nor keeps one when it ends.
LEMMA NothingHeld ==
  ASSUME Hands, \A w \in Workers : wpc[w] \in {"none", "await_start", "exited"}
  PROVE  \A w \in Workers : test[w] = NoTest
BY DEF Hands

\* Every test is in the queue, in the hands of one thread or on one side.
LEMMA CustodyInductive == IndInv /\ [Next]_vars => Custody'
<1> SUFFICES ASSUME IndInv, [Next]_vars PROVE Custody'
  OBVIOUS
<1> TypeOK /\ Fresh /\ Pool /\ Hands /\ Custody
  BY DEF IndInv
<1> USE ConstantsAssumption DEF flagVars, countVars, resultVars, MainGoto
<1>1. ASSUME NEW w \in Workers, WorkerStep(w) PROVE Custody'
  <2> USE DEF Goto
  <2>1. CASE AwaitStart(w) \/ AnnounceStarted(w) \/ LoopTest(w) \/ StoppingTest(w)
               \/ NotifyQueueEmpty(w)
    BY <2>1 DEF AwaitStart, AnnounceStarted, LoopTest, StoppingTest, NotifyQueueEmpty,
                WorkerUnchanged, Custody, Recorded
  <2>2. CASE CountStarted(w) \/ DecrementRunning(w) \/ NotifyDone(w)
    BY <2>2 DEF CountStarted, DecrementRunning, NotifyDone, Custody, Recorded
  <2>3. CASE \E o \in Outcomes : RunTest(w, o)
    BY <2>3 DEF RunTest, Custody, Recorded
  <2>4. CASE TryPop(w)
    <3>1. CASE remaining = 0
      BY <2>4, <3>1 DEF TryPop, Custody, Recorded, TypeOK
    <3>2. CASE remaining > 0
      <4>1. test[w] = NoTest
        BY <2>4 DEF TryPop, Hands
      <4>2. test' = [test EXCEPT ![w] = remaining] /\ remaining' = remaining - 1
            /\ UNCHANGED <<passing, failing, errors>> /\ Recorded' = Recorded
        BY <2>4, <3>2 DEF TryPop, Recorded
      <4>3. remaining \in Tests
        BY <3>2 DEF TypeOK, Tests
      <4>4. ASSUME NEW v \in Workers, test'[v] # NoTest
            PROVE  test'[v] > remaining' /\ test'[v] \notin Recorded'
        BY <4>1, <4>2, <4>3, <4>4 DEF Custody, TypeOK, Tests, NoTest
      <4>5. ASSUME NEW u \in Workers, NEW v \in Workers, test'[u] # NoTest, test'[u] = test'[v]
            PROVE  u = v
        BY <4>1, <4>2, <4>3, <4>5 DEF Custody, TypeOK, Tests, NoTest
      <4>6. ASSUME NEW t \in Tests, t > remaining'
            PROVE  t \in Recorded' \/ \E v \in Workers : test'[v] = t
        <5>1. CASE t = remaining
          BY <4>2, <5>1 DEF TypeOK
        <5>2. CASE t > remaining
          BY <4>1, <4>2, <5>2 DEF Custody, TypeOK, Tests, NoTest
        <5> QED BY <4>2, <4>3, <4>6, <5>1, <5>2 DEF Tests
      <4>7. \A t \in Recorded' : t > remaining'
        BY <4>2 DEF Custody, TypeOK, Tests, Recorded
      <4> QED BY <4>2, <4>4, <4>5, <4>6, <4>7 DEF Custody
    <3> QED BY <3>1, <3>2 DEF TypeOK
  <2>5. CASE PushResult(w) \/ ReportError(w)
    <3>1. test[w] \in Tests /\ test' = [test EXCEPT ![w] = NoTest] /\ remaining' = remaining
      BY <2>5 DEF PushResult, ReportError, DropObject, Hands, TypeOK
    <3>2. Recorded' = Recorded \cup {test[w]}
          /\ (passing \cap failing = {} /\ passing \cap errors = {} /\ failing \cap errors = {})'
      <4>1. test[w] \notin Recorded /\ passing \cap failing = {} /\ passing \cap errors = {}
            /\ failing \cap errors = {}
        BY <3>1 DEF Custody, Tests, NoTest
      <4>2. PushResult(w) => outcome[w] \in {"pass", "fail"}
        BY DEF PushResult, Hands
      <4>3. \/ passing' = passing \cup {test[w]} /\ failing' = failing /\ errors' = errors
            \/ passing' = passing /\ failing' = failing \cup {test[w]} /\ errors' = errors
            \/ passing' = passing /\ failing' = failing /\ errors' = errors \cup {test[w]}
        BY <2>5, <4>2 DEF PushResult, ReportError
      <4> QED BY <4>1, <4>3 DEF Recorded
    <3>3. test[w] > remaining /\ test[w] # NoTest
      BY <3>1 DEF Custody, Tests, NoTest
    <3>4. ASSUME NEW v \in Workers, test'[v] # NoTest
          PROVE  test'[v] > remaining' /\ test'[v] \notin Recorded' /\ test'[v] = test[v]
      BY <3>1, <3>2, <3>3, <3>4 DEF Custody, TypeOK
    <3>5. ASSUME NEW t \in Tests, t > remaining'
          PROVE  t \in Recorded' \/ \E v \in Workers : test'[v] = t
      BY <3>1, <3>2, <3>5 DEF Custody, TypeOK
    <3>6. \A t \in Recorded' : t > remaining'
      BY <3>1, <3>2, <3>3 DEF Custody
    <3> QED BY <3>2, <3>4, <3>5, <3>6 DEF Custody
  <2> QED BY <1>1, <2>1, <2>2, <2>3, <2>4, <2>5 DEF WorkerStep
<1>2. CASE ExecuteEnter \/ AwaitAllStarted \/ WaitDone \/ RelockAndJoin \/ Unwind
             \/ WakeSpuriously \/ SpawnFails \/ Destroy \/ StartAll \/ SpawnThread
  BY <1>2 DEF ExecuteEnter, AwaitAllStarted, WaitDone, RelockAndJoin, Unwind, WakeSpuriously,
              SpawnFails, Destroy, StartAll, SpawnThread, Custody, Recorded
<1>3. CASE JoinAll \/ StopNext \/ Destroyed
  BY <1>3 DEF JoinAll, StopNext, Destroyed, Custody, Recorded
<1>4. CASE Reset
  <2>1. \A v \in Workers : wpc[v] \in {"none", "await_start", "exited"}
    BY <1>4 DEF Reset, Pool, Executing, Stopping, Joined, Fresh, AllExited
  <2>2. \A v \in Workers : test'[v] = NoTest
    BY <1>4, <2>1, NothingHeld DEF Reset
  <2> QED BY <1>4, <2>2 DEF Reset, Custody, Recorded, Tests
<1>5. CASE UNCHANGED vars
  BY <1>5 DEF vars, Custody, Recorded
<1> QED
  BY <1>1, <1>2, <1>3, <1>4, <1>5 DEF Next, MainStep

\* The threads of the pool can be counted.
LEMMA WorkersFinite == IsFiniteSet(Workers) /\ Cardinality(Workers) = NumThreads
BY FS_Interval, NumThreadsType DEF Workers

\* Both counted sets are finite.
LEMMA CountedAreFinite ==
  /\ IsFiniteSet(Live) /\ Cardinality(Live) \in Nat
  /\ IsFiniteSet(Arrived) /\ Cardinality(Arrived) \in Nat
  /\ Arrived \subseteq Workers
BY WorkersFinite, FS_Subset, FS_CardinalityType DEF Live, Arrived

\* The two counters count the threads that have arrived and those that have not left.
LEMMA CountsInductive == IndInv /\ [Next]_vars => Counts'
<1> SUFFICES ASSUME IndInv, [Next]_vars PROVE Counts'
  OBVIOUS
<1> TypeOK /\ Fresh /\ Pool /\ Counts
  BY DEF IndInv
<1> USE DEF flagVars, countVars, resultVars, MainGoto
<1>1. ASSUME NEW w \in Workers, WorkerStep(w) PROVE Counts'
  <2>1. canStart /\ wpc' = [wpc EXCEPT ![w] = wpc'[w]]
    BY <1>1, WorkersAreStarted, WorkerFrame
  <2>2. running = Cardinality(Live) /\ started = Cardinality(Arrived)
    BY <2>1 DEF Counts
  <2>3. CASE AwaitStart(w)
    <3>1. Live' = Live /\ Arrived' = Arrived
      BY <2>1, <2>3 DEF AwaitStart, Goto, Live, Arrived, TypeOK
    <3> QED BY <2>2, <2>3, <3>1 DEF AwaitStart, WorkerUnchanged, Counts
  <2>4. CASE CountStarted(w)
    <3>1. Live' = Live /\ Arrived' = Arrived \cup {w} /\ w \notin Arrived
      BY <2>1, <2>4 DEF CountStarted, Goto, Live, Arrived, TypeOK
    <3>2. Cardinality(Arrived') = Cardinality(Arrived) + 1
      BY <3>1, CountedAreFinite, FS_AddElement
    <3> QED BY <2>2, <2>4, <3>1, <3>2 DEF CountStarted, Counts
  <2>5. CASE AnnounceStarted(w) \/ LoopTest(w) \/ StoppingTest(w) \/ TryPop(w)
               \/ (\E o \in Outcomes : RunTest(w, o)) \/ PushResult(w) \/ ReportError(w)
               \/ NotifyQueueEmpty(w) \/ NotifyDone(w)
    <3>1. Live' = Live /\ Arrived' = Arrived
      BY <2>1, <2>5 DEF AnnounceStarted, LoopTest, StoppingTest, TryPop, RunTest, PushResult,
         ReportError, NotifyQueueEmpty, NotifyDone, Goto, Live, Arrived, TypeOK
    <3>2. running' = running /\ started' = started
      BY <2>5 DEF AnnounceStarted, LoopTest, StoppingTest, TryPop, RunTest, PushResult,
         ReportError, NotifyQueueEmpty, NotifyDone, WorkerUnchanged
    <3> QED BY <2>2, <3>1, <3>2 DEF Counts
  <2>6. CASE DecrementRunning(w)
    <3>1. Live' = Live \ {w} /\ w \in Live /\ Arrived' = Arrived
      BY <2>1, <2>6 DEF DecrementRunning, Goto, Live, Arrived, TypeOK
    <3>2. Cardinality(Live') = Cardinality(Live) - 1
      BY <3>1, CountedAreFinite, FS_RemoveElement
    <3> QED BY <2>2, <2>6, <3>1, <3>2 DEF DecrementRunning, Counts
  <2> QED BY <1>1, <2>3, <2>4, <2>5, <2>6 DEF WorkerStep
<1>2. CASE StartAll
  <2>1. threads = NumThreads /\ started = 0 /\ \A w \in Workers : wpc[w] = "await_start"
    BY <1>2 DEF StartAll, Fresh, Pool, Executing, Stopping, Joined, Workers, TypeOK
  <2>2. Live' = Workers /\ Arrived' = {}
    BY <1>2, <2>1 DEF StartAll, Live, Arrived
  <2> QED BY <1>2, <2>1, <2>2, WorkersFinite, FS_EmptySet DEF StartAll, Counts
<1>3. CASE ExecuteEnter \/ SpawnThread \/ Unwind \/ SpawnFails
  <2>1. ~ canStart
    BY <1>3 DEF ExecuteEnter, SpawnThread, Unwind, SpawnFails, Pool, Executing, Stopping, Joined
  <2> QED BY <1>3, <2>1 DEF ExecuteEnter, SpawnThread, Unwind, SpawnFails, Counts
<1>4. CASE AwaitAllStarted \/ WaitDone \/ RelockAndJoin \/ WakeSpuriously \/ Destroy \/ JoinAll
             \/ StopNext \/ Destroyed
  BY <1>4 DEF AwaitAllStarted, WaitDone, RelockAndJoin, WakeSpuriously, Destroy, JoinAll, StopNext,
     Destroyed, Counts, Live, Arrived
<1>5. CASE Reset
  BY <1>5 DEF Reset, Counts
<1>6. CASE UNCHANGED vars
  BY <1>6 DEF vars, Counts, Live, Arrived
<1> QED
  BY <1>1, <1>2, <1>3, <1>4, <1>5, <1>6 DEF Next, MainStep

\* The threads that have ended, or are about to, are all there is to the pool.
LEMMA BarrierInductive == IndInv /\ [Next]_vars => Barrier'
<1> SUFFICES ASSUME IndInv, [Next]_vars PROVE Barrier'
  OBVIOUS
<1> TypeOK /\ Fresh /\ Pool /\ Counts /\ Counts' /\ Barrier
  BY CountsInductive DEF IndInv
<1> USE DEF flagVars, countVars, resultVars, MainGoto
<1>1. ASSUME NEW w \in Workers, WorkerStep(w) PROVE Barrier'
  <2>1. canStart /\ canStart' /\ wpc' = [wpc EXCEPT ![w] = wpc'[w]]
        /\ (mpc' \in {"executed", "waiting"} => mpc \in {"executed", "waiting"})
    BY <1>1, WorkersAreStarted, WorkerFrame
  <2>2. Arrived \subseteq Arrived' /\ Arrived' \subseteq Workers
    BY <1>1, <2>1, WorkerFrame DEF Arrived, TypeOK
  <2>3. CASE CountStarted(w)
    <3>1. allStarted' = allStarted
      BY <2>3 DEF CountStarted
    <3>2. CASE started' >= threadVec
      <4>1. threadVec = NumThreads
        BY <1>1, <2>1, WorkerFrame DEF Pool, Executing, Stopping, Joined, AllExited
      <4>2. started' = Cardinality(Arrived') /\ IsFiniteSet(Arrived')
        BY <2>1, <2>2, WorkersFinite, FS_Subset DEF Counts
      <4>3. Arrived' = Workers
        BY <2>2, <3>2, <4>1, <4>2, WorkersFinite, FS_Subset, FS_CardinalityType, NumThreadsType
      <4> QED BY <2>1, <3>1, <4>3 DEF Barrier
    <3>3. CASE ~ (started' >= threadVec)
      <4>1. wpc'[w] = "loop"
        BY <2>3, <3>3 DEF CountStarted, Goto, TypeOK
      <4> QED BY <2>1, <2>2, <3>1, <4>1 DEF Barrier, TypeOK
    <3> QED BY <3>2, <3>3
  <2>4. CASE AnnounceStarted(w)
    <3>1. Arrived = Workers /\ allStarted'
      BY <2>4 DEF AnnounceStarted, Goto, Barrier
    <3> QED BY <2>1, <2>2, <3>1 DEF Barrier
  <2>5. CASE AwaitStart(w) \/ LoopTest(w) \/ StoppingTest(w) \/ TryPop(w)
               \/ (\E o \in Outcomes : RunTest(w, o)) \/ PushResult(w) \/ ReportError(w)
               \/ NotifyQueueEmpty(w) \/ DecrementRunning(w) \/ NotifyDone(w)
    <3>1. allStarted' = allStarted
      BY <2>5 DEF AwaitStart, LoopTest, StoppingTest, TryPop, RunTest, PushResult, ReportError,
         NotifyQueueEmpty, DecrementRunning, NotifyDone, WorkerUnchanged
    <3>2. wpc'[w] # "announce"
      BY <2>5 DEF AwaitStart, LoopTest, StoppingTest, TryPop, RunTest, PushResult, ReportError,
         NotifyQueueEmpty, DecrementRunning, NotifyDone, Goto, TypeOK
    <3> QED BY <2>1, <2>2, <3>1, <3>2 DEF Barrier, TypeOK
  <2> QED BY <1>1, <2>3, <2>4, <2>5 DEF WorkerStep
<1>2. CASE ExecuteEnter \/ SpawnThread \/ Unwind \/ SpawnFails \/ StartAll
  <2>1. ~ canStart /\ ~ allStarted /\ ~ allStarted'
    BY <1>2 DEF ExecuteEnter, SpawnThread, Unwind, SpawnFails, StartAll, Pool, Executing, Stopping,
       Joined, Fresh
  <2>2. \A w \in Workers : wpc'[w] # "announce"
    BY <1>2, <2>1 DEF ExecuteEnter, SpawnThread, Unwind, SpawnFails, StartAll, Fresh, TypeOK
  <2>3. mpc' \notin {"executed", "waiting"}
    BY <1>2 DEF ExecuteEnter, SpawnThread, Unwind, SpawnFails, StartAll
  <2> QED BY <2>1, <2>2, <2>3 DEF Barrier
<1>3. CASE AwaitAllStarted \/ WaitDone \/ RelockAndJoin \/ WakeSpuriously \/ Destroy \/ JoinAll
             \/ StopNext \/ Destroyed
  <2>1. UNCHANGED <<allStarted, canStart, wpc>> /\ Arrived' = Arrived
    BY <1>3 DEF AwaitAllStarted, WaitDone, RelockAndJoin, WakeSpuriously, Destroy, JoinAll,
       StopNext, Destroyed, Arrived
  <2>2. mpc' \in {"executed", "waiting"} => allStarted
    BY <1>3 DEF AwaitAllStarted, WaitDone, RelockAndJoin, WakeSpuriously, Destroy, JoinAll,
       StopNext, Destroyed, Barrier
  <2> QED BY <2>1, <2>2 DEF Barrier
<1>4. CASE Reset
  BY <1>4 DEF Reset, Barrier
<1>5. CASE UNCHANGED vars
  BY <1>5 DEF vars, Barrier, Arrived
<1> QED
  BY <1>1, <1>2, <1>3, <1>4, <1>5 DEF Next, MainStep

\* The thread that notifies wait_join is the last one.
LEMMA LastNotifiesInductive == IndInv /\ [Next]_vars => LastThreadNotifies'
<1> SUFFICES ASSUME IndInv, [Next]_vars PROVE LastThreadNotifies'
  OBVIOUS
<1> TypeOK /\ Fresh /\ Pool /\ LastThreadNotifies /\ Counts'
  BY CountsInductive DEF IndInv
<1>1. ASSUME NEW w \in Workers, WorkerStep(w) PROVE LastThreadNotifies'
  <2>1. canStart /\ canStart' /\ wpc' = [wpc EXCEPT ![w] = wpc'[w]] /\ wpc[w] # "exited"
    BY <1>1, WorkersAreStarted, WorkerFrame
  <2>2. CASE DecrementRunning(w)
    <3>1. CASE running' = 0
      <4>1. Live' = {}
        <5>1. Cardinality(Live') = 0 /\ IsFiniteSet(Live')
          BY <2>1, <3>1, WorkersFinite, FS_Subset DEF Counts, Live
        <5> QED BY <5>1, FS_EmptySet
      <4>2. \A v \in Workers \ {w} : wpc[v] # "none" /\ wpc'[v] = wpc[v] /\ wpc[v] # "notify_done"
        BY <2>1, <2>2 DEF Pool, LastThreadNotifies, DecrementRunning, Goto, TypeOK
      <4>3. \A v \in Workers \ {w} : wpc'[v] = "exited"
        BY <4>1, <4>2 DEF Live
      <4> QED BY <4>3 DEF LastThreadNotifies
    <3>2. CASE running' # 0
      BY <2>1, <2>2, <3>2 DEF DecrementRunning, Goto, LastThreadNotifies, TypeOK
    <3> QED BY <3>1, <3>2
  <2>3. CASE ~ DecrementRunning(w)
    <3>1. wpc'[w] # "notify_done"
      BY <1>1, <2>3 DEF WorkerStep, AwaitStart, CountStarted, AnnounceStarted, LoopTest,
         StoppingTest, TryPop, RunTest, PushResult, ReportError, NotifyQueueEmpty, NotifyDone,
         Goto, TypeOK
    <3> QED BY <2>1, <3>1 DEF LastThreadNotifies, TypeOK
  <2> QED BY <2>2, <2>3
<1>2. CASE SpawnThread
  <2>1. \A v \in Workers : wpc[v] # "notify_done"
    BY <1>2 DEF SpawnThread, Pool, Executing, Stopping, Joined, Fresh
  <2> QED BY <1>2, <2>1 DEF SpawnThread, LastThreadNotifies, TypeOK
<1>3. CASE UNCHANGED wpc
  BY <1>3 DEF LastThreadNotifies
<1>4. CASE Reset
  BY <1>4 DEF Reset, LastThreadNotifies
<1> QED
  BY <1>1, <1>2, <1>3, <1>4 DEF Next, MainStep, ExecuteEnter, StartAll, AwaitAllStarted, WaitDone,
     RelockAndJoin, JoinAll, Unwind, StopNext, Destroyed, WakeSpuriously, SpawnFails, Destroy, vars

\* The last thread to notify leaves nothing behind: it has the lock, so that the
\* destructor has not asked it to stop.
LEMMA LeavingInductive == IndInv /\ [Next]_vars => Leaving'
<1> SUFFICES ASSUME IndInv, [Next]_vars PROVE Leaving'
  OBVIOUS
<1> TypeOK /\ Fresh /\ Pool /\ Leaving /\ AllDone
  BY DEF IndInv
<1>1. ASSUME NEW w \in Workers, WorkerStep(w) PROVE Leaving'
  <2>1. wpc' = [wpc EXCEPT ![w] = wpc'[w]] /\ stopped' = stopped
    BY <1>1, WorkerFrame
  <2>2. remaining = 0 => remaining' = 0
    BY <1>1 DEF WorkerStep, AwaitStart, CountStarted, AnnounceStarted, LoopTest, StoppingTest,
       TryPop, RunTest, PushResult, ReportError, NotifyQueueEmpty, DecrementRunning, NotifyDone,
       WorkerUnchanged
  <2>3. CASE LoopTest(w) \/ StoppingTest(w) \/ NotifyQueueEmpty(w)
    <3>1. remaining' = remaining
      BY <2>3 DEF LoopTest, StoppingTest, NotifyQueueEmpty, WorkerUnchanged
    <3>2. w =< stopped => stopped > 0
      BY DEF Workers, TypeOK
    <3>3. /\ wpc'[w] = "stopping" => stopped > 0
          /\ wpc'[w] = "queue_empty" => remaining = 0
          /\ wpc'[w] = "decrement" /\ stopped = 0 => remaining = 0
          /\ wpc'[w] \notin {"notify_done", "exited"}
      BY <2>3, <3>2 DEF LoopTest, StoppingTest, NotifyQueueEmpty, Goto, Leaving, TypeOK
    <3> QED BY <2>1, <3>1, <3>3 DEF Leaving, TypeOK
  <2>4. CASE DecrementRunning(w) \/ NotifyDone(w)
    <3>1. remaining' = remaining
      BY <2>4 DEF DecrementRunning, NotifyDone
    <3> QED BY <2>1, <2>4, <3>1 DEF DecrementRunning, NotifyDone, Goto, Leaving, TypeOK
  <2>5. CASE AwaitStart(w) \/ CountStarted(w) \/ AnnounceStarted(w) \/ TryPop(w)
               \/ (\E o \in Outcomes : RunTest(w, o)) \/ PushResult(w) \/ ReportError(w)
    <3>1. wpc'[w] \notin {"stopping", "queue_empty", "decrement", "notify_done", "exited"}
      BY <2>5 DEF AwaitStart, CountStarted, AnnounceStarted, TryPop, RunTest, PushResult,
         ReportError, Goto, TypeOK
    <3> QED BY <2>1, <2>2, <3>1 DEF Leaving, TypeOK
  <2> QED BY <1>1, <2>3, <2>4, <2>5 DEF WorkerStep
<1>2. CASE SpawnThread
  <2>1. \A v \in Workers : wpc'[v] \in {"none", "await_start"}
    BY <1>2 DEF SpawnThread, Pool, Executing, Stopping, Joined, Fresh, TypeOK
  <2> QED BY <2>1 DEF Leaving
<1>3. CASE StopNext
  BY <1>3 DEF StopNext, Leaving, TypeOK
<1>4. CASE Destroyed
  <2>1. CASE ~ canStart
    BY <1>4, <2>1 DEF Destroyed, Fresh, Leaving
  <2>2. CASE canStart
    <3>1. AllExited
      BY <1>4, <2>2 DEF Destroyed, Pool, Executing, Stopping, Joined, AllExited, Workers, TypeOK
    <3>2. remaining' = 0
      BY <1>4, <2>2, <3>1 DEF Destroyed, AllDone
    <3> QED BY <1>4, <3>1, <3>2 DEF Destroyed, Leaving, AllExited
  <2> QED BY <2>1, <2>2
<1>5. CASE Reset
  BY <1>5 DEF Reset, Leaving
<1>6. CASE UNCHANGED <<wpc, stopped, remaining>>
  BY <1>6 DEF Leaving
<1> QED
  BY <1>1, <1>2, <1>3, <1>4, <1>5, <1>6 DEF Next, MainStep, ExecuteEnter, StartAll, AwaitAllStarted,
     WaitDone, RelockAndJoin, JoinAll, Unwind, WakeSpuriously, SpawnFails, Destroy, vars, flagVars

\* When the last thread has left and none was told to stop, nothing is left to do.
LEMMA AllDoneInductive == IndInv /\ [Next]_vars => AllDone'
<1> SUFFICES ASSUME IndInv, [Next]_vars PROVE AllDone'
  OBVIOUS
<1> TypeOK /\ Fresh /\ Pool /\ AllDone /\ LastThreadNotifies /\ Leaving /\ Hands /\ Custody
      /\ Counts'
  BY CountsInductive DEF IndInv
<1>1. ASSUME NEW w \in Workers, WorkerStep(w) PROVE AllDone'
  <2>1. canStart /\ canStart' /\ wpc' = [wpc EXCEPT ![w] = wpc'[w]] /\ wpc[w] # "exited"
    BY <1>1, WorkersAreStarted, WorkerFrame
  <2>2. CASE NotifyDone(w)
    <3>1. \A v \in Workers : wpc[v] \in {"notify_done", "exited"}
      BY <2>2 DEF NotifyDone, Goto, LastThreadNotifies
    <3>2. stopped = 0
      BY <2>1, <2>2 DEF NotifyDone, MutexFree, Pool, Executing, Stopping, Joined, AllExited
    <3>3. remaining = 0
      BY <3>2, <2>2 DEF NotifyDone, Goto, Leaving
    <3>4. \A v \in Workers : test[v] = NoTest
      BY <3>1 DEF Hands
    <3>5. ASSUME NEW t \in Tests PROVE t \in Recorded
      <4>1. t > remaining /\ t # NoTest
        BY <3>3 DEF Tests, NoTest
      <4> QED BY <3>4, <4>1 DEF Custody
    <3>6. Recorded = Tests
      BY <3>5 DEF Recorded, TypeOK
    <3> QED BY <2>2, <3>3, <3>6 DEF NotifyDone, AllDone, Recorded, resultVars
  <2>3. CASE DecrementRunning(w)
    <3>1. ~ AllExited'
      <4>1. SUFFICES ASSUME AllExited' PROVE FALSE
        OBVIOUS
      <4>2. wpc'[w] = "exited" /\ running' # 0
        BY <2>3, <4>1 DEF DecrementRunning, Goto, AllExited, TypeOK
      <4>3. Live' = {}
        BY <4>1 DEF Live, AllExited
      <4>4. running' = 0
        BY <2>1, <4>3, FS_EmptySet DEF Counts
      <4> QED BY <4>2, <4>4
    <3> QED BY <3>1 DEF AllDone
  <2>4. CASE ~ NotifyDone(w) /\ ~ DecrementRunning(w)
    <3>1. wpc'[w] # "exited"
      BY <1>1, <2>4 DEF WorkerStep, AwaitStart, CountStarted, AnnounceStarted, LoopTest,
         StoppingTest, TryPop, RunTest, PushResult, ReportError, NotifyQueueEmpty, Goto, TypeOK
    <3> QED BY <3>1 DEF AllDone, AllExited
  <2> QED BY <2>2, <2>3, <2>4
<1>2. CASE SpawnThread
  <2>1. ~ canStart'
    BY <1>2 DEF SpawnThread, Pool, Executing, Stopping, Joined, TypeOK
  <2> QED BY <2>1 DEF AllDone
<1>3. CASE StartAll
  <2>1. ~ AllExited'
    <3>1. 1 \in Workers /\ wpc[1] \in {"none", "await_start"}
      <4>1. ~ canStart
        BY <1>3 DEF StartAll, MainGoto, Pool, Executing, Stopping, Joined
      <4>2. 1 \in Workers
        BY NumThreadsType DEF Workers
      <4> QED BY <4>1, <4>2 DEF Fresh
    <3> QED BY <1>3, <3>1 DEF StartAll, AllExited
  <2> QED BY <2>1 DEF AllDone
<1>4. CASE Reset
  BY <1>4 DEF Reset, AllDone
<1>5. CASE UNCHANGED <<canStart, wpc, remaining, passing, failing, errors>>
  BY <1>5 DEF AllDone, AllExited, Recorded
<1> QED
  BY <1>1, <1>2, <1>3, <1>4, <1>5 DEF Next, MainStep, ExecuteEnter, AwaitAllStarted, WaitDone,
     RelockAndJoin, JoinAll, Unwind, StopNext, Destroyed, WakeSpuriously, SpawnFails, Destroy, vars,
     flagVars, resultVars

-----------------------------------------------------------------------------

\* The inductive invariant is one: every state the runner can be in satisfies it.
THEOREM Inductive == Spec => []IndInv
<1>1. Init => IndInv
  BY InitInductive
<1>2. IndInv /\ [Next]_vars => IndInv'
  BY TypeInductive, FreshInductive, PoolInductive, HandsInductive, CustodyInductive,
     CountsInductive, BarrierInductive, LastNotifiesInductive, LeavingInductive, AllDoneInductive
     DEF IndInv
<1> QED
  BY <1>1, <1>2, PTL DEF Spec

\* m_running_threads counts the threads that have not decremented it.
THEOREM RunningCounts == Spec => []RunningCountsLiveThreads
<1>1. IndInv => RunningCountsLiveThreads
  BY DEF IndInv, TypeOK, Fresh, Counts, RunningCountsLiveThreads
<1> QED
  BY <1>1, Inductive, PTL

\* Only the last of the threads notifies wait_join.
THEOREM LastNotifies == Spec => []LastThreadNotifies
<1>1. IndInv => LastThreadNotifies
  BY DEF IndInv
<1> QED
  BY <1>1, Inductive, PTL

\* execute() returns when every thread has counted itself started.
THEOREM ReturnsStarted == Spec => []ExecuteReturnsStarted
<1>1. IndInv => ExecuteReturnsStarted
  <2> SUFFICES ASSUME IndInv, mpc \in {"executed", "waiting"}
               PROVE  started = threadVec
                      /\ \A w \in Workers : wpc[w] \notin {"await_start", "count"}
    BY DEF ExecuteReturnsStarted
  <2>1. canStart /\ Arrived = Workers
    BY DEF IndInv, Barrier
  <2>2. threadVec = NumThreads
    BY <2>1 DEF IndInv, Pool, Executing, Stopping, Joined
  <2>3. started = NumThreads
    BY <2>1, WorkersFinite DEF IndInv, Counts
  <2> QED BY <2>1, <2>2, <2>3 DEF Arrived
<1> QED
  BY <1>1, Inductive, PTL

\* If a thread cannot be created, the ones that were wait for ever, and execute()
\* for them.
THEOREM FailedExecutes == Spec => []FailedExecuteHangs
<1>1. IndInv => FailedExecuteHangs
  <2> SUFFICES ASSUME IndInv, mpc = "unwinding"
               PROVE  /\ \A w \in 1..threads : wpc[w] = "await_start"
                      /\ remaining = NumTests /\ Recorded = {}
    BY DEF FailedExecuteHangs
  <2>1. ~ canStart
    BY DEF IndInv, Pool, Executing, Stopping, Joined
  <2> QED BY <2>1, NumThreadsType DEF IndInv, Fresh, TypeOK, Workers
<1> QED
  BY <1>1, Inductive, PTL

\* The destructor outlives every thread and cuts no battery short.
THEOREM DestroyedQuietly == Spec => []DestroyedIsQuiet
<1>1. IndInv => DestroyedIsQuiet
  <2> SUFFICES ASSUME IndInv, mpc = "destroyed"
               PROVE  \/ ~ canStart /\ \A w \in Workers : wpc[w] = "none"
                      \/ Recorded = Tests /\ \A w \in Workers : wpc[w] = "exited"
    BY DEF DestroyedIsQuiet
  <2>1. CASE canStart
    BY <2>1 DEF IndInv, Pool, Executing, Stopping, Joined, AllDone, AllExited
  <2>2. CASE ~ canStart
    BY <2>2 DEF IndInv, Fresh, Workers
  <2> QED BY <2>1, <2>2
<1> QED
  BY <1>1, Inductive, PTL

-----------------------------------------------------------------------------
(* The battery that the pool implements *)

\* Every step keeps the inductive invariant.
LEMMA StepInductive == IndInv /\ [Next]_vars => IndInv'
BY TypeInductive, FreshInductive, PoolInductive, HandsInductive, CustodyInductive,
   CountsInductive, BarrierInductive, LastNotifiesInductive, LeavingInductive, AllDoneInductive
   DEF IndInv

\* A test that a worker holds has the outcome the worker has found.
LEMMA OutcomeOfHeld ==
  IndInv => \A w \in Workers : test[w] # NoTest =>
              /\ OutcomeOf(test[w]) = outcome[w]
              /\ test[w] \in Tests /\ test[w] \notin Recorded
<1> SUFFICES ASSUME IndInv, NEW w \in Workers, test[w] # NoTest
             PROVE  OutcomeOf(test[w]) = outcome[w] /\ test[w] \in Tests /\ test[w] \notin Recorded
  OBVIOUS
<1> DEFINE holder == CHOOSE v \in Held : test[v] = test[w]
<1>1. test[w] \in Tests /\ test[w] \notin Recorded
  BY DEF IndInv, TypeOK, Custody
<1>2. w \in Held
  BY DEF Held
<1>3. holder \in Held /\ test[holder] = test[w]
  BY <1>2
<1>4. holder = w
  BY <1>3 DEF Held, IndInv, Custody
<1>5. OutcomeOf(test[w]) = outcome[holder]
  BY <1>1, <1>2 DEF OutcomeOf, Recorded
<1> QED BY <1>1, <1>4, <1>5

\* One that nobody holds or has recorded has none.
LEMMA OutcomeOfUnheld ==
  \A t \in Tests :
    t \notin Recorded /\ (\A w \in Workers : test[w] # t) => OutcomeOf(t) = "none"
BY DEF OutcomeOf, Recorded, Held

\* The two, of the state after a step.
LEMMA OutcomesAfter ==
  ASSUME IndInv, [Next]_vars
  PROVE  /\ \A w \in Workers : test'[w] # NoTest =>
              /\ OutcomeOf(test[w])' = outcome'[w]
              /\ test'[w] \in Tests /\ test'[w] \notin Recorded'
         /\ \A t \in Tests :
              t \notin Recorded' /\ (\A w \in Workers : test'[w] # t) => OutcomeOf(t)' = "none"
<1>1. IndInv'
  BY StepInductive
<1>2. (\A w \in Workers : test[w] # NoTest =>
              /\ OutcomeOf(test[w]) = outcome[w]
              /\ test[w] \in Tests /\ test[w] \notin Recorded)'
  BY <1>1, OutcomeOfHeld, PTL
<1>3. (\A t \in Tests :
    t \notin Recorded /\ (\A w \in Workers : test[w] # t) => OutcomeOf(t) = "none")'
  BY OutcomeOfUnheld, PTL
<1> QED BY <1>2, <1>3

Ended == [t \in Tests |-> OutcomeOf(t)]

\* A step that keeps the results keeps the outcomes of the tests recorded.
LEMMA RecordedKept ==
  ASSUME UNCHANGED resultVars, NEW t \in Recorded
  PROVE  OutcomeOf(t)' = OutcomeOf(t)
BY DEF OutcomeOf, Recorded, resultVars

\* A worker has a test in its hands only while the battery is running.
LEMMA WorkersRunBattery ==
  ASSUME IndInv, NEW w \in Workers, WorkerStep(w)
  PROVE  Phase = "running" /\ Phase' = "running"
<1>1. canStart /\ ~ AllExited
  BY WorkersAreStarted, WorkerFrame DEF IndInv, AllExited
<1>2. status = "running"
  BY <1>1 DEF IndInv, Pool, Executing, Stopping, Joined
<1> QED BY <1>1, <1>2, WorkerFrame DEF Phase, IndInv

\* Every step of the pool is a step of the battery or one that it does not see.
LEMMA StepRefinesBattery == IndInv /\ [Next]_vars => [Battery!Next]_(Battery!batteryVars)
<1> SUFFICES ASSUME IndInv, [Next]_vars PROVE [Battery!Next]_(Battery!batteryVars)
  OBVIOUS
<1> TypeOK /\ Fresh /\ Pool /\ Hands /\ Custody /\ AllDone
  BY DEF IndInv
<1>1. ASSUME UNCHANGED <<test, outcome, passing, failing, errors>>, Phase' = Phase
      PROVE  UNCHANGED Battery!batteryVars
  <2>1. ASSUME NEW t \in Tests PROVE OutcomeOf(t)' = OutcomeOf(t)
    BY <1>1 DEF OutcomeOf, Held
  <2> QED BY <1>1, <2>1 DEF Battery!batteryVars, Recorded
<1>2. ASSUME NEW w \in Workers, WorkerStep(w) PROVE [Battery!Next]_(Battery!batteryVars)
  <2>1. Phase = "running" /\ Phase' = "running"
    BY <1>2, WorkersRunBattery
  <2>2. CASE AwaitStart(w) \/ CountStarted(w) \/ AnnounceStarted(w) \/ LoopTest(w)
               \/ StoppingTest(w) \/ NotifyQueueEmpty(w) \/ DecrementRunning(w) \/ NotifyDone(w)
    BY <1>1, <2>1, <2>2 DEF AwaitStart, CountStarted, AnnounceStarted, LoopTest, StoppingTest,
       NotifyQueueEmpty, DecrementRunning, NotifyDone, WorkerUnchanged, resultVars
  <2>3. CASE TryPop(w)
    <3>1. CASE remaining = 0
      BY <1>1, <2>1, <2>3, <3>1 DEF TryPop, resultVars
    <3>2. CASE remaining > 0
      <4>1. /\ test' = [test EXCEPT ![w] = remaining] /\ UNCHANGED <<resultVars, outcome>>
            /\ Recorded' = Recorded /\ test[w] = NoTest /\ outcome[w] = "none"
        BY <2>3, <3>2 DEF TryPop, Hands, Goto, Recorded, resultVars
      <4>2. ASSUME NEW t \in Tests PROVE OutcomeOf(t)' = OutcomeOf(t)
        <5>1. CASE t \in Recorded
          BY <4>1, <5>1, RecordedKept
        <5>2. CASE t \notin Recorded /\ t = remaining
          <6>1. \A v \in Workers : test[v] # t
            BY <5>2 DEF Custody, TypeOK, Tests, NoTest
          <6>2. OutcomeOf(t) = "none"
            BY <5>2, <6>1, OutcomeOfUnheld
          <6>3. test'[w] = t /\ t # NoTest
            BY <4>1, <5>2 DEF TypeOK, Tests, NoTest
          <6>4. OutcomeOf(t)' = outcome'[w]
            BY <6>3, OutcomesAfter
          <6> QED BY <4>1, <6>2, <6>4
        <5>3. CASE t \notin Recorded /\ t # remaining /\ \E v \in Workers : test[v] = t
          <6>1. PICK v \in Workers : test[v] = t
            BY <5>3
          <6>2. t # NoTest /\ v # w /\ test'[v] = t
            BY <4>1, <6>1 DEF Tests, NoTest, TypeOK
          <6> QED BY <4>1, <6>1, <6>2, OutcomeOfHeld, OutcomesAfter
        <5>4. CASE t \notin Recorded /\ t # remaining /\ \A v \in Workers : test[v] # t
          <6>1. \A v \in Workers : test'[v] # t
            BY <4>1, <5>4 DEF TypeOK
          <6> QED BY <4>1, <5>4, <6>1, OutcomeOfUnheld, OutcomesAfter
        <5> QED BY <5>1, <5>2, <5>3, <5>4
      <4> QED BY <2>1, <4>1, <4>2 DEF Battery!batteryVars
    <3> QED BY <3>1, <3>2 DEF TypeOK
  <2>4. ASSUME NEW o \in Outcomes, RunTest(w, o) PROVE [Battery!Next]_(Battery!batteryVars)
    <3> DEFINE t == test[w]
    <3>1. t # NoTest /\ outcome[w] = "none" /\ outcome' = [outcome EXCEPT ![w] = o]
          /\ UNCHANGED <<resultVars, test>> /\ Recorded' = Recorded
      BY <2>4 DEF RunTest, Goto, Hands, Recorded, resultVars
    <3>2. t \in Tests /\ t \notin Recorded /\ Ended[t] = "none"
      BY <3>1, OutcomeOfHeld DEF Ended
    <3>3. ASSUME NEW u \in Tests PROVE OutcomeOf(u)' = IF u = t THEN o ELSE OutcomeOf(u)
      <4>1. CASE u \in Recorded
        BY <3>1, <3>2, <4>1, RecordedKept
      <4>2. CASE u \notin Recorded /\ \E v \in Workers : test[v] = u
        <5>1. PICK v \in Workers : test[v] = u
          BY <4>2
        <5>2. u # NoTest /\ test'[v] = u /\ (v = w <=> u = t)
          BY <3>1, <5>1 DEF Tests, NoTest, Custody
        <5>3. OutcomeOf(u) = outcome[v] /\ OutcomeOf(u)' = outcome'[v]
          BY <5>1, <5>2, OutcomeOfHeld, OutcomesAfter
        <5> QED BY <3>1, <5>2, <5>3 DEF TypeOK
      <4>3. CASE u \notin Recorded /\ \A v \in Workers : test[v] # u
        BY <3>1, <4>3, OutcomeOfUnheld, OutcomesAfter
      <4> QED BY <4>1, <4>2, <4>3
    <3>4. Ended' = [Ended EXCEPT ![t] = o]
      BY <3>3 DEF Ended
    <3>5. Battery!RunTest(t, o)
      BY <2>1, <3>1, <3>2, <3>4 DEF Battery!RunTest, Ended
    <3> QED BY <3>2, <3>5 DEF Battery!Next
  <2>5. CASE PushResult(w) \/ ReportError(w)
    <3> DEFINE t == test[w]
    <3>1. /\ t # NoTest /\ test' = [test EXCEPT ![w] = NoTest]
          /\ outcome' = [outcome EXCEPT ![w] = "none"]
      BY <2>5 DEF PushResult, ReportError, DropObject, Goto, Hands
    <3>2. t \in Tests /\ t \notin Recorded /\ OutcomeOf(t) = outcome[w]
      BY <3>1, OutcomeOfHeld
    <3>3. \/ /\ outcome[w] = "pass"
             /\ passing' = passing \cup {t} /\ failing' = failing /\ errors' = errors
          \/ /\ outcome[w] = "fail"
             /\ passing' = passing /\ failing' = failing \cup {t} /\ errors' = errors
          \/ /\ outcome[w] = "error"
             /\ passing' = passing /\ failing' = failing /\ errors' = errors \cup {t}
      BY <2>5 DEF PushResult, ReportError, Goto, Hands
    <3>4. Recorded' = Recorded \cup {t}
      BY <3>3 DEF Recorded
    <3>5. ASSUME NEW u \in Tests PROVE OutcomeOf(u)' = OutcomeOf(u)
      <4>1. CASE u = t
        BY <3>2, <3>3, <4>1 DEF OutcomeOf, Recorded
      <4>2. CASE u \in Recorded
        BY <3>2, <3>3, <4>2 DEF OutcomeOf, Recorded
      <4>3. CASE u \notin Recorded /\ u # t /\ \E v \in Workers : test[v] = u
        <5>1. PICK v \in Workers : test[v] = u
          BY <4>3
        <5>2. u # NoTest /\ v # w /\ test'[v] = u /\ outcome'[v] = outcome[v]
          BY <3>1, <4>3, <5>1 DEF Tests, NoTest, TypeOK
        <5> QED BY <5>1, <5>2, OutcomeOfHeld, OutcomesAfter
      <4>4. CASE u \notin Recorded /\ u # t /\ \A v \in Workers : test[v] # u
        <5>1. u \notin Recorded' /\ \A v \in Workers : test'[v] # u
          BY <3>1, <3>4, <4>4 DEF TypeOK, Tests, NoTest
        <5> QED BY <4>4, <5>1, OutcomeOfUnheld, OutcomesAfter
      <4> QED BY <4>1, <4>2, <4>3, <4>4
    <3>6. Ended' = Ended /\ Ended[t] # "none"
      BY <3>2, <3>3, <3>5 DEF Ended
    <3>7. Battery!Report(t)
      BY <2>1, <3>2, <3>4, <3>6 DEF Battery!Report, Ended
    <3> QED BY <3>2, <3>7 DEF Battery!Next
  <2> QED BY <1>2, <2>2, <2>3, <2>4, <2>5 DEF WorkerStep
<1>3. CASE StartAll
  <2>1. ~ canStart
    BY <1>3 DEF StartAll, MainGoto, Pool, Executing, Stopping, Joined
  <2>2. Phase = "idle" /\ Phase' = "running"
    BY <1>3, <2>1 DEF StartAll, Phase
  <2>3. ASSUME NEW t \in Tests PROVE OutcomeOf(t)' = OutcomeOf(t)
    BY <1>3 DEF StartAll, OutcomeOf, Held, resultVars
  <2>4. Battery!Start
    BY <1>3, <2>2, <2>3 DEF StartAll, Battery!Start, Recorded, resultVars
  <2> QED BY <2>4 DEF Battery!Next
<1>4. CASE JoinAll
  <2>1. canStart /\ status = "running" /\ threadVec = NumThreads
    BY <1>4 DEF JoinAll, MainGoto, Pool, Executing, Stopping, Joined, Fresh, TypeOK
  <2>2. AllExited
    BY <1>4, <2>1 DEF JoinAll, AllExited, Workers
  <2>3. Recorded = Tests
    BY <2>1, <2>2 DEF AllDone
  <2>4. Phase = "running" /\ Phase' = "returned"
    BY <1>4, <2>1 DEF JoinAll, Phase
  <2>5. ASSUME NEW t \in Tests PROVE OutcomeOf(t)' = OutcomeOf(t)
    BY <1>4 DEF JoinAll, OutcomeOf, Held, resultVars
  <2>6. Battery!Return
    BY <1>4, <2>3, <2>4, <2>5 DEF JoinAll, Battery!Return, Recorded, resultVars
  <2> QED BY <2>6 DEF Battery!Next
<1>5. CASE Reset
  <2>1. canStart
    BY <1>5 DEF Reset, Fresh, TypeOK
  <2>2. Phase = "returned" /\ Phase' = "idle"
    BY <1>5, <2>1 DEF Reset, Phase
  <2>3. \A w \in Workers : wpc[w] \in {"none", "await_start", "exited"}
    BY <1>5, <2>1 DEF Reset, Pool, Executing, Stopping, Joined, AllExited
  <2>4. \A w \in Workers : test'[w] = NoTest
    BY <1>5, <2>3, NothingHeld DEF Reset
  <2>5. Recorded' = {}
    BY <1>5 DEF Reset, Recorded
  <2>6. ASSUME NEW t \in Tests PROVE OutcomeOf(t)' = "none"
    BY <2>4, <2>5, OutcomesAfter DEF Tests, NoTest
  <2>7. Battery!Reset
    BY <2>2, <2>5, <2>6 DEF Battery!Reset
  <2> QED BY <2>7 DEF Battery!Next
<1>6. CASE Destroyed
  <2>1. Phase' = Phase
    BY <1>6 DEF Destroyed, MainGoto, Phase, Pool, Executing, Stopping, Joined, Fresh, TypeOK
  <2> QED BY <1>1, <1>6, <2>1 DEF Destroyed, resultVars
<1>7. CASE ExecuteEnter \/ SpawnThread \/ AwaitAllStarted \/ WaitDone \/ RelockAndJoin
             \/ Unwind \/ StopNext \/ WakeSpuriously \/ SpawnFails \/ Destroy
  <2>1. UNCHANGED <<status, canStart, test, outcome, passing, failing, errors>>
    BY <1>7 DEF ExecuteEnter, SpawnThread, AwaitAllStarted, WaitDone, RelockAndJoin, Unwind,
       StopNext, WakeSpuriously, SpawnFails, Destroy, flagVars, resultVars
  <2> QED BY <1>1, <2>1 DEF Phase
<1>8. CASE UNCHANGED vars
  BY <1>1, <1>8 DEF vars, Phase
<1> QED
  BY <1>2, <1>3, <1>4, <1>5, <1>6, <1>7, <1>8 DEF Next, MainStep

\* However many threads there are, and however they interleave, the pool runs
\* every test once, records it on the side it ended on, and returns with all of
\* them recorded.
THEOREM RunnerImplementsBattery == Spec => ImplementsBattery
<1>1. Init => Battery!Init
  <2> SUFFICES ASSUME Init PROVE Battery!Init
    OBVIOUS
  <2>1. Recorded = {} /\ Phase = "idle"
    BY DEF Init, Recorded, Phase
  <2>2. ASSUME NEW t \in Tests PROVE OutcomeOf(t) = "none"
    BY <2>1, OutcomeOfUnheld DEF Init, Tests, NoTest
  <2> QED BY <2>1, <2>2 DEF Battery!Init
<1>2. IndInv /\ [Next]_vars => [Battery!Next]_(Battery!batteryVars)
  BY StepRefinesBattery
<1> QED
  BY <1>1, <1>2, Inductive, PTL DEF Spec, ImplementsBattery, Battery!Spec
=============================================================================
