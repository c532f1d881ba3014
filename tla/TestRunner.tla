----------------------------- MODULE TestRunner -----------------------------
(***************************************************************************)
(* test_runner_impl (uint128_test_app/src/cpp/test_runner.cpp): a pool of  *)
(* threads that pops tests from a shared vector, runs them and sorts their *)
(* results, and the main thread that starts the pool, waits for it and     *)
(* joins it.                                                               *)
(*                                                                         *)
(* Steps are cut at every lock, unlock, wait and atomic operation.  The    *)
(* critical sections of test_obj_queue_impl, of atomic_bool and of the     *)
(* workers on m_mutex do not block and are one step each.  Only the main   *)
(* thread keeps m_mutex from one step to the next: wait_join and the       *)
(* destructor join the threads with the lock in their hands (mpc =         *)
(* "joining" and "destroying").                                            *)
(***************************************************************************)
EXTENDS Integers, FiniteSets

CONSTANTS
  NumTests,         \* m_original.size()
  MaxThreads,       \* m_max_threads
  Outcomes,         \* the ways a test may end in this instance
  SpuriousWakeups,  \* whether condition_variable::wait may return by itself
  SpawnMayFail,     \* whether the system may refuse to create a thread
  MaxRuns           \* bound: times the runner is executed, with reset between

AllOutcomes == {"pass", "fail", "error"}

ASSUME ConstantsAssumption ==
  /\ NumTests \in Nat \ {0}
  /\ MaxThreads \in Nat \ {0}
  /\ Outcomes \subseteq AllOutcomes
  /\ SpuriousWakeups \in BOOLEAN
  /\ SpawnMayFail \in BOOLEAN
  /\ MaxRuns \in Nat

Tests == 1..NumTests

\* execute() starts as many threads as the larger of the two.
NumThreads == IF NumTests > MaxThreads THEN NumTests ELSE MaxThreads
Workers == 1..NumThreads
NoTest == 0

VARIABLES
  status,      \* m_status
  remaining,   \* m_tests: the tests 1..remaining, popped from the back
  canStart,    \* m_can_start
  allStarted,  \* m_all_started
  threads,     \* number of threads created
  threadVec,   \* m_thread_vec.size()
  stopped,     \* threads, of m_thread_vec, that have been requested to stop
  running,     \* m_running_threads
  started,     \* m_started_threads
  passing,     \* m_passing_results
  failing,     \* m_failing_results
  errors,      \* history: tests whose only trace is a line on the error proxy
  wpc,         \* where each worker is
  test,        \* the test object a worker holds
  outcome,     \* how it ended
  mpc,         \* where the main thread is
  runs         \* calls of execute()

resultVars == <<passing, failing, errors>>
countVars == <<running, started>>
flagVars == <<status, canStart, allStarted, threads, threadVec, stopped, runs>>
vars == <<status, remaining, canStart, allStarted, threads, threadVec, stopped,
          running, started, passing, failing, errors, wpc, test, outcome, mpc, runs>>

\* A test_runner_impl as its constructor leaves it.
Init ==
  /\ status = "ready"
  /\ remaining = NumTests
  /\ canStart = FALSE
  /\ allStarted = FALSE
  /\ threads = 0
  /\ threadVec = 0
  /\ stopped = 0
  /\ running = 0
  /\ started = 0
  /\ passing = {}
  /\ failing = {}
  /\ errors = {}
  /\ wpc = [w \in Workers |-> "none"]
  /\ test = [w \in Workers |-> NoTest]
  /\ outcome = [w \in Workers |-> "none"]
  /\ mpc = "idle"
  /\ runs = 0

MutexFree == mpc \notin {"joining", "destroying"}

-----------------------------------------------------------------------------
(* Workers: thread_loop                                                    *)

Goto(w, from, to) == wpc[w] = from /\ wpc' = [wpc EXCEPT ![w] = to]

WorkerUnchanged == UNCHANGED <<flagVars, countVars, resultVars, remaining, test,
                               outcome, mpc>>

\* Mutant of AwaitStart: m_can_start is not awaited.
AwaitStartUngated(w) == Goto(w, "await_start", "count") /\ WorkerUnchanged

\* m_can_start.wait_til_set(), and the size of m_thread_vec
AwaitStart(w) ==
  /\ canStart
  /\ Goto(w, "await_start", "count")
  /\ WorkerUnchanged

\* Mutant of CountStarted: the last thread but one announces.
CountStartedEarly(w) ==
  /\ started' = started + 1
  /\ Goto(w, "count", IF started' >= threadVec - 1 THEN "announce" ELSE "loop")
  /\ UNCHANGED <<flagVars, running, resultVars, remaining, test, outcome, mpc>>

\* ++m_started_threads: the last thread to come has the rest started
CountStarted(w) ==
  /\ started' = started + 1
  /\ Goto(w, "count", IF started' >= threadVec THEN "announce" ELSE "loop")
  /\ UNCHANGED <<flagVars, running, resultVars, remaining, test, outcome, mpc>>

\* m_all_started.set_and_notify_all_if
AnnounceStarted(w) ==
  /\ Goto(w, "announce", "loop")
  /\ allStarted' = TRUE
  /\ UNCHANGED <<status, canStart, threads, threadVec, stopped, runs, countVars,
                 resultVars, remaining, test, outcome, mpc>>

\* Mutant of LoopTest: the last test is left in the queue.
LoopTestOneLeft(w) ==
  /\ Goto(w, "loop", IF w =< stopped THEN "stopping"
                     ELSE IF remaining =< 1 THEN "queue_empty" ELSE "pop")
  /\ WorkerUnchanged

\* the condition of the loop: token.stop_requested(), or m_queue.done(), which
\* stays true
LoopTest(w) ==
  /\ Goto(w, "loop", IF w =< stopped THEN "stopping"
                     ELSE IF remaining = 0 THEN "queue_empty" ELSE "pop")
  /\ WorkerUnchanged

\* m_queue.done() after the loop, of a thread that was told to stop
StoppingTest(w) ==
  /\ Goto(w, "stopping", IF remaining = 0 THEN "queue_empty" ELSE "decrement")
  /\ WorkerUnchanged

\* m_queue.try_pop(): another worker may have emptied the queue since done()
TryPop(w) ==
  /\ \/ /\ remaining > 0
        /\ test' = [test EXCEPT ![w] = remaining]
        /\ remaining' = remaining - 1
        /\ Goto(w, "pop", "run")
     \/ /\ remaining = 0
        /\ Goto(w, "pop", "loop")
        /\ UNCHANGED <<test, remaining>>
  /\ UNCHANGED <<flagVars, countVars, resultVars, outcome, mpc>>

\* test_object->try_execute(): the test passes, fails (testing_failure), or
\* leaves no result, only a message (any other std::exception)
RunTest(w, o) ==
  /\ Goto(w, "run", IF o = "error" THEN "report" ELSE "push")
  /\ outcome' = [outcome EXCEPT ![w] = o]
  /\ UNCHANGED <<flagVars, countVars, resultVars, remaining, test, mpc>>

DropObject(w) ==
  /\ test' = [test EXCEPT ![w] = NoTest]
  /\ outcome' = [outcome EXCEPT ![w] = "none"]

\* under m_mutex: to the passing or to the failing results
PushResult(w) ==
  /\ MutexFree
  /\ Goto(w, "push", "loop")
  /\ passing' = IF outcome[w] = "pass" THEN passing \cup {test[w]} ELSE passing
  /\ failing' = IF outcome[w] = "fail" THEN failing \cup {test[w]} ELSE failing
  /\ DropObject(w)
  /\ UNCHANGED <<flagVars, countVars, errors, remaining, mpc>>

\* under m_mutex: a line on the error proxy
ReportError(w) ==
  /\ MutexFree
  /\ Goto(w, "report", "loop")
  /\ errors' = errors \cup {test[w]}
  /\ DropObject(w)
  /\ UNCHANGED <<flagVars, countVars, passing, failing, remaining, mpc>>

\* under m_mutex: m_queue_empty.notify_all(), for which nobody waits
NotifyQueueEmpty(w) ==
  /\ MutexFree
  /\ Goto(w, "queue_empty", "decrement")
  /\ WorkerUnchanged

\* Mutant of DecrementRunning: the last thread but one notifies too.
DecrementAll(w) ==
  /\ running' = IF running = 0 THEN 0 ELSE running - 1
  /\ Goto(w, "decrement", IF running' <= 1 THEN "notify_done" ELSE "exited")
  /\ UNCHANGED <<flagVars, started, resultVars, remaining, test, outcome, mpc>>

\* --m_running_threads: the last thread notifies
DecrementRunning(w) ==
  /\ running' = running - 1
  /\ Goto(w, "decrement", IF running' = 0 THEN "notify_done" ELSE "exited")
  /\ UNCHANGED <<flagVars, started, resultVars, remaining, test, outcome, mpc>>

\* Mutant of NotifyDone: the waiting thread is not notified.
NotifyDoneForgotten(w) ==
  /\ MutexFree
  /\ Goto(w, "notify_done", "exited")
  /\ UNCHANGED <<mpc, flagVars, countVars, resultVars, remaining, test, outcome>>

\* under m_mutex: m_all_threads_done.notify_all()
NotifyDone(w) ==
  /\ MutexFree
  /\ Goto(w, "notify_done", "exited")
  /\ mpc' = IF mpc = "waiting" THEN "woken" ELSE mpc
  /\ UNCHANGED <<flagVars, countVars, resultVars, remaining, test, outcome>>

-----------------------------------------------------------------------------
(* The main thread: execute, wait_join, reset                              *)

MainGoto(from, to) == mpc = from /\ mpc' = to

\* execute(), first lock: it throws, changing nothing, unless ready
ExecuteEnter ==
  /\ MainGoto("idle", "spawn")
  /\ status = "ready"
  /\ runs < MaxRuns
  /\ runs' = runs + 1
  /\ UNCHANGED <<status, canStart, allStarted, threads, threadVec, stopped,
                 countVars, resultVars, remaining, wpc, test, outcome>>

\* one turn of the loop that creates the threads
SpawnThread ==
  /\ mpc = "spawn"
  /\ threads' = threads + 1
  /\ wpc' = [wpc EXCEPT ![threads + 1] = "await_start"]
  /\ mpc' = IF threads' = NumThreads THEN "start" ELSE "spawn"
  /\ UNCHANGED <<status, canStart, allStarted, threadVec, stopped, runs, countVars,
                 resultVars, remaining, test, outcome>>

\* A thread cannot be created: the exception destroys the vector of the threads
\* created so far, each of which is asked to stop and joined.
SpawnFails ==
  /\ SpawnMayFail
  /\ MainGoto("spawn", "unwinding")
  /\ UNCHANGED <<flagVars, countVars, resultVars, remaining, wpc, test, outcome>>

\* All joined: execute() has thrown, and the runner is still ready.
Unwind ==
  /\ MainGoto("unwinding", "idle")
  /\ \A w \in 1..threads : wpc[w] = "exited"
  /\ threads' = 0
  /\ UNCHANGED <<status, canStart, allStarted, threadVec, stopped, runs, countVars,
                 resultVars, remaining, wpc, test, outcome>>

\* Mutant of StartAll: one running thread is not counted.
StartAllUncounted ==
  /\ MainGoto("start", "await_started")
  /\ threadVec' = threads
  /\ status' = "running"
  /\ canStart' = TRUE
  /\ running' = threads - 1
  /\ UNCHANGED <<allStarted, threads, stopped, runs, started, resultVars,
                 remaining, wpc, test, outcome>>

\* execute(), second lock: publish the threads and their number, let them go
StartAll ==
  /\ MainGoto("start", "await_started")
  /\ threadVec' = threads
  /\ status' = "running"
  /\ canStart' = TRUE
  /\ running' = threads
  /\ UNCHANGED <<allStarted, threads, stopped, runs, started, resultVars,
                 remaining, wpc, test, outcome>>

\* m_all_started.wait_til_set(), and execute() returns
AwaitAllStarted ==
  /\ allStarted
  /\ MainGoto("await_started", "executed")
  /\ UNCHANGED <<flagVars, countVars, resultVars, remaining, wpc, test, outcome>>

\* wait_join(): lock and wait for m_all_threads_done, whatever has happened
WaitDone ==
  /\ MainGoto("executed", "waiting")
  /\ UNCHANGED <<flagVars, countVars, resultVars, remaining, wpc, test, outcome>>

\* The wait has no predicate: a spurious wakeup is taken for the notification.
WakeSpuriously ==
  /\ SpuriousWakeups
  /\ MainGoto("waiting", "woken")
  /\ UNCHANGED <<flagVars, countVars, resultVars, remaining, wpc, test, outcome>>

\* Woken, with the lock: from here on m_mutex is held
RelockAndJoin ==
  /\ MainGoto("woken", "joining")
  /\ UNCHANGED <<flagVars, countVars, resultVars, remaining, wpc, test, outcome>>

\* Mutant of JoinAll: the threads are not joined.
JoinedWithoutWaiting ==
  /\ MainGoto("joining", "returned")
  /\ threads' = 0
  /\ threadVec' = 0
  /\ status' = "done"
  /\ UNCHANGED <<canStart, allStarted, stopped, runs, countVars, resultVars,
                 remaining, wpc, test, outcome>>

\* Every thread joined: the results are handed over and the lock released
JoinAll ==
  /\ MainGoto("joining", "returned")
  /\ \A w \in 1..threadVec : wpc[w] = "exited"
  /\ threads' = 0
  /\ threadVec' = 0
  /\ status' = "done"
  /\ UNCHANGED <<canStart, allStarted, stopped, runs, countVars, resultVars,
                 remaining, wpc, test, outcome>>

\* reset() of a runner that is done: a new one with the same tests
Reset ==
  /\ mpc = "returned"
  /\ status = "done"
  /\ status' = "ready"
  /\ remaining' = NumTests
  /\ canStart' = FALSE
  /\ allStarted' = FALSE
  /\ running' = 0
  /\ started' = 0
  /\ passing' = {}
  /\ failing' = {}
  /\ errors' = {}
  /\ wpc' = [w \in Workers |-> "none"]
  /\ mpc' = "idle"
  /\ UNCHANGED <<threads, threadVec, stopped, runs, test, outcome>>

\* The destructor takes the lock, while no other call is in progress.
Destroy ==
  /\ mpc \in {"idle", "executed", "returned"}
  /\ mpc' = "destroying"
  /\ UNCHANGED <<flagVars, countVars, resultVars, remaining, wpc, test, outcome>>

\* request_stop() of the next thread, once the one before it is joined
StopNext ==
  /\ mpc = "destroying"
  /\ stopped < threadVec
  /\ stopped > 0 => wpc[stopped] = "exited"
  /\ stopped' = stopped + 1
  /\ UNCHANGED <<status, canStart, allStarted, threads, threadVec, runs, countVars,
                 resultVars, remaining, wpc, test, outcome, mpc>>

\* Mutant of Destroyed: the threads are stopped and left to themselves.
DestroyedDetached ==
  /\ MainGoto("destroying", "destroyed")
  /\ stopped = threadVec
  /\ status' = IF threadVec = 0 THEN status ELSE "moved_from"
  /\ threads' = 0
  /\ threadVec' = 0
  /\ stopped' = 0
  /\ UNCHANGED <<canStart, allStarted, runs, countVars, resultVars, remaining,
                 wpc, test, outcome>>

\* The last one joined: the lock is released and the object gone.
Destroyed ==
  /\ MainGoto("destroying", "destroyed")
  /\ stopped = threadVec
  /\ stopped > 0 => wpc[stopped] = "exited"
  /\ status' = IF threadVec = 0 THEN status ELSE "moved_from"
  /\ threads' = 0
  /\ threadVec' = 0
  /\ stopped' = 0
  /\ UNCHANGED <<canStart, allStarted, runs, countVars, resultVars, remaining,
                 wpc, test, outcome>>

-----------------------------------------------------------------------------

WorkerStep(w) ==
  \/ AwaitStart(w) \/ CountStarted(w) \/ AnnounceStarted(w)
  \/ LoopTest(w) \/ StoppingTest(w) \/ TryPop(w)
  \/ \E o \in Outcomes : RunTest(w, o)
  \/ PushResult(w) \/ ReportError(w)
  \/ NotifyQueueEmpty(w) \/ DecrementRunning(w) \/ NotifyDone(w)

MainStep ==
  \/ ExecuteEnter \/ SpawnThread \/ StartAll \/ AwaitAllStarted
  \/ WaitDone \/ RelockAndJoin \/ JoinAll
  \/ Unwind \/ StopNext \/ Destroyed

Next ==
  \/ \E w \in Workers : WorkerStep(w)
  \/ MainStep
  \/ WakeSpuriously \/ SpawnFails
  \/ Reset \/ Destroy

\* Every thread that can run is scheduled, and every test ends.  m_mutex is
\* held across steps only while joining, so weak fairness is enough to get it.
Fairness == WF_vars(MainStep) /\ \A w \in Workers : WF_vars(WorkerStep(w))

Spec == Init /\ [][Next]_vars
FairSpec == Spec /\ Fairness

-----------------------------------------------------------------------------
(* Properties                                                              *)

Held == {w \in Workers : test[w] # NoTest}
Live == {w \in Workers : wpc[w] \notin {"none", "notify_done", "exited"}}

\* m_running_threads counts the threads that have not decremented it, so that
\* the one that finds it zero is the last one in thread_loop.
RunningCountsLiveThreads ==
  status = "running" => running = Cardinality(Live)

\* Only the last thread notifies: when one does, the others have exited.
LastThreadNotifies ==
  \A w \in Workers : wpc[w] = "notify_done" =>
    \A v \in Workers \ {w} : wpc[v] = "exited"

\* When execute() returns every thread has been counted as started (its
\* assertion) and none of them is still on its way to the loop.
ExecuteReturnsStarted ==
  mpc \in {"executed", "waiting"} =>
    started = threadVec /\ \A w \in Workers : wpc[w] \notin {"await_start", "count"}

\* What the runner has recorded of a test, or its worker is about to record.
Recorded == passing \cup failing \cup errors

OutcomeOf(t) ==
  IF t \in passing THEN "pass"
  ELSE IF t \in failing THEN "fail"
  ELSE IF t \in errors THEN "error"
  ELSE IF \E w \in Held : test[w] = t
       THEN outcome[CHOOSE w \in Held : test[w] = t]
       ELSE "none"

Phase ==
  IF ~ canStart THEN "idle"
  ELSE IF status = "done" THEN "returned" ELSE "running"

Battery == INSTANCE TestBattery
  WITH phase <- Phase,
       outcome <- [t \in Tests |-> OutcomeOf(t)],
       reported <- Recorded

\* The runner implements the battery: no test is run before the runner is, or
\* twice, or lost; each is recorded on the side it ended on; and what wait_join
\* hands over is complete and final, however the threads interleave.
ImplementsBattery == Battery!Spec

\* A thread that cannot be created: execute() waits for ever for the threads it
\* has created, which wait for m_can_start, unless it was the first.
FailedExecuteHangs ==
  mpc = "unwinding" =>
    /\ \A w \in 1..threads : wpc[w] = "await_start"
    /\ remaining = NumTests /\ Recorded = {}

\* No thread outlives the object, and the stop that the destructor requests never
\* cuts a battery short: it hangs instead, with the lock, unless every thread has
\* ended, and then every test has been run.
DestroyedIsQuiet ==
  mpc = "destroyed" =>
    \/ ~ canStart /\ \A w \in Workers : wpc[w] = "none"
    \/ Recorded = Tests /\ \A w \in Workers : wpc[w] = "exited"

\* A spurious wakeup made wait_join join, or the destructor joins, with the lock,
\* threads that still run: the last of them needs the lock before it ends.
JoinedEarly ==
  mpc \in {"joining", "destroying"} /\ \E w \in Workers : wpc[w] # "exited"

\* Every test is run, once the runner is executed, unless wait_join woke early.
EveryTestIsRun ==
  (mpc = "await_started") ~> ((remaining = 0 /\ Held = {}) \/ JoinedEarly)

\* A wait_join that waits before the last thread has notified returns, unless it
\* woke early.
WaitInTimeReturns ==
  (mpc = "waiting" /\ \E w \in Workers : wpc[w] # "exited")
    ~> (mpc = "returned" \/ JoinedEarly)

\* execute_and_wait_join returns.
ExecuteAndWaitJoinReturns == (mpc = "spawn") ~> (mpc = "returned")

\* With no failing result every test has passed.
NoFailureMeansAllPassed == mpc = "returned" /\ failing = {} => passing = Tests
=============================================================================
