# TLA+ specifications of Int128

Int128 is a C++ library with one public class, the 128-bit unsigned integer
`cjm::numerics::uint128`, and a multi-threaded test application that runs a battery of tests about
it. This directory holds TLA+ modules translated from that code, the TLC configurations that check
them on small instances, and theorems about them that TLAPS checks for every value of the
constants. `PROJECT.json` maps every definition to the lines it models, and lists every component
with its status and every hazard at its line.

Paths below are relative to the root of the repository; `uint128.inl` is
`src/include/cjm/numerics/uint128.inl`, `numerics_configuration.hpp` is next to it, and
`output_guard.cpp`, `test_runner.cpp`, `int128_tests.cpp` and `int128_test_switches.cpp` are in
`uint128_test_app/src/cpp/`.

## 1. Inventory

### The test application (concurrent)

| Component | State | Operations | Hard behaviour |
|---|---|---|---|
| Dedicated output queue (`output_guard.cpp`) | `m_queue`, `m_suppress_enqueue`, `m_paused`, `m_wrapped_filestream`, `m_output_thread` and its stop state, `m_mutex`, two condition variables | proxies and their destructor, `enqueue_*`, `start_loop`, `clear_queue_and_pause`, `restart` | unlocked loads before locked ones, notifications and stop requests outside the lock, a thread replaced at restart, a stream destroyed while in use |
| Test runner (`test_runner.cpp`) | `m_status`, `m_tests`, `m_thread_vec`, `m_running_threads`, `m_started_threads`, `m_can_start`, `m_all_started`, the two result vectors | `execute`, `wait_join`, `reset`, destructor, `thread_loop`, `try_execute` | a start barrier, a wait without predicate, joins with the mutex held, unlocked reads of a vector's size, a thread that cannot be created, a test that leaves no result |
| Test application (`int128_tests.cpp`, `uint128_test_program.cpp`) | the queue, a runner, the switches | parse, choose what to run, pause, restart with a file, run the battery, print the summary, announce the file, exit | the order of pauses and restarts around the battery, who talks while, the exit code of each failure |
| Command-line switches (`int128_test_switches.cpp`) | a table | normalise, match, look for a parameter, refuse | a parameter that looks like a switch, the text of an exception |
| Assertions (`testing.hpp`) | none | throw `testing_failure` | none |

The main thread is the only one that calls `clear_queue_and_pause`, `restart`, `execute`,
`wait_join` and `reset`. It and the workers of the runner write to the queue through proxies: a
proxy is a string stream that enqueues its text when it is destroyed. The output thread is the only
one that pops. The worker that ends last notifies the main thread. The runner holds a shared pointer
to the queue, and so does the output thread itself.

What makes them correct:

* queue: first in, first out; every accepted item in exactly one place; after a pause the queue is
  empty and closed and its thread is gone; a running queue refuses nothing; every accepted item is
  delivered some time; a pause returns and has written what was accepted before it;
* runner: every test run exactly once and filed on the side it ended on; the last worker, and it
  only, announces the end; no worker starts before the pool is published; what `wait_join` returns
  is complete; `wait_join` returns; no thread outlives the object;
* application: the command line means what its grammar says; nothing the program says is refused by
  its own queue; what it claims about the detail file is true; its summary is shown; it ends, but for
  the hangs of the queue and of the runner.

### The library (sequential)

| Component | State | Operations | Hard behaviour |
|---|---|---|---|
| Arithmetic of `uint128` (`uint128.inl`) | the two limbs of an object | construction, comparison, `+ - * << >> & \| ^ ~` and unary minus, increments, compound assignments, `add_with_carry`, `sub_with_borrow` | carries, borrows, cross products and bits between the limbs; each calculation mode has a path of its own; carries that chain |
| Division (`uint128.inl`) | locals of a call | `try_div_mod`, `div_mod`, `instrumented_div_mod`, `/`, `%` | the shift-and-subtract loop; a machine division that traps when its quotient overflows; a zero divisor |
| Text conversion (`uint128.inl`) | the stream, its error bits, the variable extracted to | parsing of decimal and hexadecimal text, literals, `to_string`, stream operators | overflow of the accumulated number, an odd number of digits, chunks that must be padded, two paths of extraction, an extraction that fails half way |
| Byte and floating-point conversion | none | byte arrays in either order, `float`, `double`, `long double` | order of bytes, a floating type with fewer or more digits than a limb, rounding up to the next power |
| Limb containers (`fixed_uint_container*.hpp`) | limbs | construction, access, conversion, carry arithmetic for wider types to come | two representations that must agree, on machines of either byte order; a carry in that is not used |
| Configuration (`cjm_configuration.hpp`, `numerics_configuration.hpp`, `.inl`) | none | chooses the calculation mode and the instructions from the predefined macros | the mode and the instructions are chosen from different facts |
| Extended multiplication (`umult.hpp`) | none | the double-width product | carries of four shifted products |
| String helpers, hash, concepts | none | trim and compare; hash; predicates on types | none |

What makes it correct: two limbs behave as one number modulo 2^128 whatever the mode, division is
exact, a carry out tells an overflow, a call that throws leaves its object alone; text is parsed to
the number it denotes or refused, what is written to a stream can be read back, and an extraction
that fails leaves zero; a conversion loses only what it must; a build executes only instructions
that it has.

### Around the library

`example_code_runner/Program.cs` runs the builds of the example side by side: tasks, two pipes for
each program, a wait of ten seconds, a log. The example itself, environment checks and quick starts
are sequential programs.

## 2. Modules

| Module | Models | Abstract specification |
|---|---|---|
| `DedicatedOutput` | the output queue | `OutputSink` |
| `TestRunner` | the pool of threads | `TestBattery` |
| `TestSwitches`, `TestApplication` | the command line and the program, over `DedicatedOutput` and `TestBattery` | |
| `ExampleRunner` | the runner of the example | |
| `Uint128`, `Uint128Object` | the operators on two limbs, and an object they change | `ResidueArithmetic` |
| `ShiftSubtractDivision` | division | `DivisionService` |
| `WordChain` | addition and subtraction of long numbers, word by word, with the carry functions | |
| `ExtendedMultiplication`, `LimbContainer`, `FloatingPoint`, `BuildConfiguration` | what their names say | |
| `TextConversion`, `TextStream` | text and bytes, and a stream with its error bits | |
| `PowersOfTwo` | 2^n, b^n and the sum of a sequence's beginning as recursive functions | |
| `MCTestApplication`, `MCArithmetic`, `MCUint128Object`, `MCTextStream` | instances for TLC | |
| `*Proofs`, `Uint128Theorems` | theorems (section 4) | |

### `DedicatedOutput`: the output queue

Steps are cut where another thread can interleave: at each unprotected load and each release of
`m_mutex`. A critical section that does not block is one step. The one place where a lock survives a
step is `cpc = "blocking"`: the output thread has evaluated the predicate of its wait to false and
has not yet gone to sleep. `request_stop()` takes no lock, so it can fall exactly there.

| Actions | Code |
|---|---|
| `OpenProxy`, `CloseProxy`, `EnqueueDirectly`, `Offer` | the proxy factories, `~output_proxy`, `enqueue_*`, the first load of `m_suppress_enqueue` |
| `Enqueue`, `NotifyOne` | the locked part of `enqueue_item`, the notification after it |
| `LoopTop`, `LockAndLook`, `Block`, `SpuriousWake`, `NotifyEmpty`, `CheckStop`, `Write`, `WriteFile` | `start_loop`, in order |
| `PauseEnter`, `PauseSpuriousWake`, `PauseRelock`, `PauseRequestStop`, `PauseNotify`, `PauseJoin` | `clear_queue_and_pause`, in order |
| `Restart`, `RestartWithSameFile` | the two overloads of `restart` |

Text is abstracted to whether it is blank, because the output thread writes nothing then. The
history variables `accepted` and `output` record what entered and what became of it. `WriteFile` is
a choice: the write through a stream that the pause has meanwhile destroyed is undefined behaviour,
and got out before the close or is lost. `cerr_proxy()` builds its proxy with the target `std_out`
(`output_guard.cpp:107`); `TargetOf` says so.

`OutputSink` accepts, delivers in order, closes, and reopens when empty. It grants one exception,
that the last pending item may be discarded once the sink is closed; that is what the code really
promises. `DedicatedOutput` instantiates it with `pending <- held \o queue`.

### `TestRunner`: the pool of threads

Steps are cut at each lock, wait and atomic operation. The main thread is in `mpc`: `spawn` one
thread at a time, `start` (publish the vector and the count, let the threads go), `await_started`,
then `wait_join` with `waiting`, `woken`, `joining`, `returned`. While `joining` it holds `m_mutex`,
which blocks threads that want to push a result. A test ends in one of three ways: it passes, fails
with `testing_failure`, or ends with another `std::exception`, which leaves only a line on the error
proxy. `NumThreads` is the larger of the number of tests and `m_max_threads`, as in `execute()`.

Faults: `SpawnFails` is a thread that the system does not create; the exception destroys the vector
of the threads so far, whose destructors join them (`Unwind`). `Destroy` may come whenever no other
call is in progress: it takes the lock, and stops and joins the threads one after the other
(`StopNext`, `Destroyed`), while they go on.

`TestBattery` is what the program relies on: each test run once, between start and return, with one
outcome that is reported before the return. `TestRunner` instantiates it with the outcome that the
holder of a test has found, or the side it was recorded on.

### `TestSwitches`, `TestApplication`: the program

`TestSwitches` normalises arguments, matches them with the table, looks for parameters and refuses.
A word is a model value or a string that stands for all its spellings; an argument has a token, a
word and blanks around it. `WellFormed` and `Reads` state the grammar independently of the loop that
parses, by the positions of switches and parameters.

`TestApplication` puts the program together. Once the switches are known it is straight code, so the
list of its statements, `Script`, is computed from them (which modes run, where the queue is paused
and restarted, where the detail file is announced) and executed one statement a step; a statement
that throws replaces the rest by the handler and its exit code. What the program says goes through
the proxies of an instance of `DedicatedOutput` with all its threads and interleavings. What becomes of
the tests is what `TestBattery` promises, with threads that talk; `TestRunner` implements it. A battery
promises nothing about its return, so the steps of the runner that decide whether it comes back are
here as well: the creation of the threads (`Execute`, `NoThread`, `NotAllThreads`), the end of each and
the notification by the last (`Leave`), the wait without a predicate (`BeginWait`, `WakeSpuriously`,
`Relock`), the joins with the mutex locked (`WaitJoin`), and the places where a worker asks for or
holds that mutex (`MutexFree`, `Holds`). `join` is where the main thread is in that call. `file` and `path` are the detail file as the main thread
and the queue see it; `RemoveFile` is the environment, which may take a file of operations away
between the check of its name and its opening.

### `ExampleRunner`

The programs are external: each writes chunks to two pipes of bounded capacity and exits with a
code of its own. A task starts its program, reads both pipes and awaits exit and end of output, in
the order of the code; the main thread waits for each task (`Wait`, the ten seconds), takes its result and
logs all of them, unless `output.txt` cannot be created (`NoLogFile`).

### `Uint128`, `Uint128Object`, `ResidueArithmetic`, `WordChain`: the arithmetic

`Uint128` translates the operators, function by function, on records of two limbs of `2 * HalfBits`
bits each; every limb operation wraps as `uint64_t` does. `CalculationMode` selects the path:
`default_eval` is the portable one, which constant evaluation takes in every build, and the two msvc
modes use the compiler's intrinsics, which are external and modelled by what they do. What `& | ^`
make of two limbs is the sum of what they make of each bit.

`Uint128Object` is a variable and the calls that change it: each action is one call, with its result.
Its abstract specification is one number modulo 2^Width. The refinement mapping is `Val`, so each
limb path is compared with arithmetic on whole numbers.

`WordChain` adds or subtracts two numbers of several words with the carry functions of the library,
each of them in its forms: for limbs, for `uint128`, for the compiler's integer, and for the limb
containers. Where a function misjudges a carry, `Misjudged` says for which operands.

### `ShiftSubtractDivision`, `DivisionService`: division

`ShiftSubtractDivision` follows a call from its entry point through the zero test, the choice of the
mode, the early returns, the alignment of the leading bits and the loop, one step per iteration.
`DivisionService` promises the exact quotient and remainder, or the refusal the entry point
announces: `nullopt` from `try_div_mod`, `domain_error` from the others.

### `ExtendedMultiplication`, `LimbContainer`, `FloatingPoint`, `BuildConfiguration`

`ExtendedMultiplication` adds the four products of halves, one a step, in a wider integer or in a
pair of words. `LimbContainer` fills both kinds of container by the same calls on machines of either
byte order and compares what they show. `FloatingPoint` writes finite values as whole numbers of
quarters; its operations round to nearest, ties to even; a type is its number of digits and its
largest exponent. `BuildConfiguration` writes the preprocessor's decisions as operators on the set of
predefined macros.

### `TextConversion`, `TextStream`: text

`TextConversion` translates `make_from_string`, the literals, the byte arrays and `to_string` as
operators on sequences of characters. A character is the value of the hexadecimal digit it stands
for, or one of six codes: the `x` of a tag, a separator of text, the quote of literals, a space, a
wide character that a cast to `char` makes a digit of, and any other. The loops are recursive
functions over the positions of a text, in the order of the code, whose value at a position is the
state of the loop there (`DigitsRead`, `LiteralRead`, `OrShifted`). `DivBaseLog` is 19, 15 and 21 digits
in the library and as many as fit in a limb here.

`TextStream` is a string stream with its error bits and the variable that numbers are extracted to.
`Insert` is `operator<<` with flags and a width; `Extract` is `operator>>`, on the path of `char` or
on that of the utf characters (the variable `utf`), which skips and leaves spaces differently;
`MakeFromString`, `ParseLiteral` and the conversion of bytes are called directly. The history
variable `unread` holds what was inserted and not yet extracted.

## 3. Runs

| Run | Instance | Shows |
|---|---|---|
| `dedicated_output` | 2 producers, 1 item each, 3 routes, 1 restart, `FairSpec` | the safety of the queue, that it implements the sink step by step, that it delivers, and that a pause which found a backlog returns |
| `pause_returns` | 1 producer, 2 items | violated: a pause can hang (section 6) |
| `pause_writes_everything` | the same | violated: a pause can lose an item (section 6) |
| `test_runner` | 2 tests, 3 threads, all outcomes, spurious wakeups, threads that cannot be created, 2 executions, `FairSpec` | the pool implements the battery, across a reset and whenever it is destroyed; its counters are right; every test is run; a `wait_join` that waits in time returns |
| `wait_join_returns` | 1 test, 2 threads | violated: `wait_join` can hang (section 6) |
| `all_passed` | the same, three outcomes | violated: "all passed" with a test that died (section 6) |
| `application` | all command lines of up to 3 arguments of 16 kinds are parsed, 7 of them executed; 1 test, 2 workers, `FairSpec` | the grammar; the order of pauses, battery and summary; the truth of what is announced; the program ends, unless it hangs in one of four ways |
| `arithmetic` | limbs of 4 bits; portable, builtin and Microsoft builds; all pairs of operands of a division and a product | division, every operator, chains of words, products, containers, floating point and build configurations |
| `carry_out` | limbs of 2 bits | violated: the portable carry out is wrong (section 6) |
| `text` | numbers of 16 bits, texts and literals of up to 7 characters, 18 numbers, 12 formats, 2 insertions | parsing, literals, bytes, insertion and extraction against what the text denotes; round trips; failures |
| `parses` | the same width, hexadecimal texts of up to 4 digits | violated: an odd digit is lost (section 6) |
| `example_runner` | 2 configurations, 2 chunks to each pipe of capacity 1, `FairSpec` | the log is complete, what it has of a stream is all or nothing, a run ends |

### Bounds, and why they are enough

* Queue. Two producers race with each other and with the pause; with one item each they give
  queues of length 0, 1 and 2, which are the lengths the code tells apart (empty, emptied by this
  pop, not emptied). One restart gives two output threads and two pauses, so that what an old thread
  leaves behind can meet the new one. The two violation runs use one producer with two items,
  because the second item is the one that is popped while the pause runs. The theorems hold without
  bounds.
* Runner. Three threads and two tests give a thread that finds the queue empty, one that is
  overtaken between `done()` and `try_pop()`, and a last one. Two executions (`MaxRuns`) show that
  nothing leaks through `reset`. The theorems hold without bounds.
* Application. Three arguments hold a switch with its parameter and another switch on either side,
  and a repeated switch. The kinds of arguments are all that the parser tells apart: each sort of
  switch with each token, words that are no switch, blanks, a token alone, an absolute path, which
  begins like a switch, and nothing. The executed ones reach each mode: no switch at all, the
  battery alone and after others, files, tests by name, a name that is no test, no test. `MaxItems`
  (14) is above what any of them says in one life of the queue, so the bound of the queue never acts.
  One test on two workers gives one that talks and one that finds nothing; either may leave last,
  before the main thread waits, while it does, or when it holds the mutex.
* Arithmetic. The algorithms are the same for every limb width, and what they tell apart (carry or
  none, each range of a shift, a one-limb divisor, equal operands) all occurs with limbs of four
  bits, where all 65536 pairs of operands of a division can be tried. Chains have three words of
  zero, one or all ones, so a misjudged carry has a word behind it. Floating types have fewer digits
  than a limb, as many, more, and more than two limbs. Configurations are all sets of ten predefined
  macros. Each machine of the run moves alone: `MCInit` picks one, so a property is checked on the
  states of its own machine.
* Text. With 16 bits a number has two bytes, four hexadecimal digits and at most five decimal ones,
  and three chunks in each base, so that every branch of the code is taken by a short text. The texts
  are all those of up to four characters of nine kinds, decimals with one digit more than the largest
  number has, and hexadecimals with one digit more than fit; the literals, decimals one digit too
  long and hexadecimals one digit too long, quotes included, octals and binaries. Decimals also come
with a wide digit in front, which an overflow may hide. Two insertions suffice for the order
  of what is read back.
* Example runner. A program that writes two chunks to a pipe of one blocks unless it is read, and two
  configurations are two tasks that interleave and one that is waited for second.

### Fairness, and why the code justifies it

* `DedicatedOutput` has weak fairness of the output thread's own steps, of the notification of a
  producer and of the pause's steps, because a runnable thread is scheduled. Steps that lock
  `m_mutex` while another thread takes and releases it again and again (`Enqueue`, `PauseRelock`)
  have strong fairness: a mutex does not starve a waiter for ever. Nobody has to call the queue, so
  opening proxies and pausing are not fair, and spurious wakeups need not happen.
* `TestRunner` has weak fairness of each thread of the pool and of the main thread. The only lock
  held from one step to the next is that of the joins, so the locks need no more. That a test ends is
  an assumption about the tests. A wakeup of `wait_join` that nobody caused, and the destructor, make
  the main thread join with the mutex locked; the liveness properties make an exception of that
  state (`JoinedEarly`), and of nothing else.
* `TestApplication` has weak fairness of the output thread and strong fairness of the main thread and
  the workers taken together: one of them moves while one can, and as each of them says only so much,
  all get on. Spurious wakeups, threads that cannot be created and vanishing files need not happen.
  `ProgramEnds` says that a run ends or stays in one of the four hangs of `Hung`, each of them code
  (section 6); leave one out and TLC finds the program in it.
* `ExampleRunner` has weak fairness of the main thread, of each task, and of programs that write and
  exit; no program has to fail.

`CHECK_DEADLOCK FALSE` stands in the configurations of `TestRunner` only: the main thread may really
be left waiting for ever, and after the destruction nothing is left to do. The other models that end
have a step that says so (`Terminated`, `Computed`), so that TLC would report any other halt.

## 4. Proofs

| Theorem | Module | Says |
|---|---|---|
| `Inductive`, `TypeCorrect`, `PauseDrains`, `NothingStranded`, `PauseJoins` | `DedicatedOutputProofs` | the type invariant and the safety of pauses |
| `LossOnlyAtTheEnd`, `NothingIsLost`, `QueueImplementsSink` | `DedicatedOutputProofs` | `LossIsLastOfItsThread`, `Conservation`, and the refinement of the sink |
| `Inductive`, `RunningCounts`, `LastNotifies`, `ReturnsStarted`, `FailedExecutes`, `DestroyedQuietly` | `TestRunnerProofs` | every invariant of the pool that the run checks |
| `RunnerImplementsBattery` | `TestRunnerProofs` | the refinement of the battery |
| `Inductive`, `LogCompletes`, `StreamsStayWhole` | `ExampleRunnerProofs` | the log of a run that returns is complete and in order, and no entry has a part of a stream, for any number of configurations, any output and any size of the pipes |
| `PreparedAlways`, `ControlAlways`, `NothingIsEverRefused`, `TheBatteryIsBracketed`, `TheDetailIsAsAnnounced`, `TheResultsAreShown` | `TestApplicationProofs` | the safety of the whole program: every invariant that the run `application` checks of it, for any battery, any number of worker threads, any command lines and files |
| `TheGrammarIsParsed` | `TestApplicationProofs` | for command lines of any length, the parser accepts what the grammar accepts and reads it as the grammar does |
| `ComparisonsCompare`, `PlusAdds`, `PlusWraps`, `MinusSubtracts`, `NegateNegates`, `TimesMultiplies`, `ShiftRightDivides`, `ShiftLeftMultiplies`, `FlsFindsLeadingBit`, `ShortDivisionDivides` | `Uint128Theorems` | what the operators compute, for every width and in every mode |
| `DivisionDivides` | `Uint128Theorems` | `/` and `%` give the exact quotient and remainder, in every mode: the loop of the portable path included, as a function |
| `AddWithCarryCarries`, `SubWithBorrowBorrows` | `Uint128Theorems` | the sum and the difference with a carry or borrow in are right in every mode, and exactly when the carry or borrow out is: always in the msvc modes, and on the portable path unless it comes in together with a second operand of all ones |
| `AddWithCarryLimbCarries`, `SubWithBorrowLimbBorrows` | `Uint128Theorems` | the same for one limb, where the portable borrow is wrong for all but one case |
| `ImplementsResiduesAlways` | `OperatorProofs` | a variable, whatever the calls, implements one number modulo 2^Bits |
| `MisjudgedOrRight`, `ChainsAreExact` | `OperatorProofs` | `Misjudged` is the set of the wrong carries, no more and no less; a chain of any number of words is exact up to the first of them |
| `ConversionsAreFaithful` | `OperatorProofs` | for any binary floating-point type that reaches 2^Bits, conversions from it truncate exactly or refuse, and conversions to it give a neighbour of the number and keep the order |
| `DecimalIsExact`, `HexadecimalIsReadByBytes`, `OtherIsRefused`, `LiteralsAreExact` | `TextStreamProofs` | what every text and every literal is parsed to, for every width: its number, less an odd hexadecimal digit, or the exception it ends with |
| `BytesComeBack` | `TextStreamProofs` | a number comes back from its bytes in either order, on machines of either order, except where section 6 says |
| `InsertionShows` | `TextStreamProofs` | what is written of any number, in any format, shows it |
| `WordsStayInOrder`, `ReadableNumbersReturn` | `TextStreamProofs` | however insertions and extractions alternate, the words in a stream are the numbers that were inserted, and those in a format that can be read come back |
| `Inductive`, `TypeCorrect`, `LoopInvariantHolds`, `DivisionIsExact` | `ArithmeticProofs` | the division, step by step, is exact for every width and in every mode |
| `ProductsStayExact`, `ContainersStayEqual` | `ArithmeticProofs` | the extended product is exact with either helper, and the two kinds of container show the same, for every width |
| `CompleteUnlessOdd`, `BuildsStayComplete` | `ArithmeticProofs` | which builds lack an instruction, for every set of predefined macros |
| `ResiduesImplemented`, `ChainsStayExact`, `FloatsStayFaithful` | `ArithmeticProofs` | the theorems about the variable, the chains and the conversions, for the builds and types that the run `arithmetic` explores |

Assumptions. The queue: `Routes` are routes of the code, the two bounds are natural numbers
(`ConstantsAssumption`); `Producers` is any set. The runner: at least one test and one thread,
outcomes among the three, the bound a natural number (`ConstantsAssumption` of `TestRunner`). The
arithmetic: half a limb has at least one bit (`WidthAssumption`), and the mode is one of the three
(`ModeAssumption`). The variable: operands of two limbs, signed integers as wide as a limb, and calls
the class has (`ObjectAssumption`); `ImplementsResiduesAlways` also supposes `CarriesAreExact`, that
`add_with_carry` and `sub_with_borrow` are called in an msvc mode only, because on the portable path
they do not implement the residues (section 6). Chains: at least one word, words that fit, and
little-endian machines where there are msvc modes, as those are for x64 (`ChainAssumption`). Floating-point types: at least one digit and a largest value
of 2^Bits or more, pieces narrower than a limb that three of them cover a number, and an infinity that
is no number (`FloatAssumption`). The
example runner: at least one configuration, pipes that hold at least one chunk (`RunnerAssumption`).
The
application: the main thread is no worker, command lines are sequences of arguments over the table of
the code and `Names`, what is executed is among them, existing files and the tests by name have
names, outcomes are among the three, and the bound of the queue is a natural number
(`ApplicationAssumption`); `Tests` and `Workers` may be any sets. Text: a limb is whole bytes, texts
are sequences of the characters, literals are integer literals of the language, as the compiler hands
over no others, numbers have two limbs, and formats are those of a stream (`TextAssumption`). TLC
evaluates each of them.

The argument for the queue. The properties of a pause are not inductive: whether the queue is empty
when its thread has ended depends on who asked the thread to stop, and when. `IndInv` adds three
facts. `PausedBeforeStop`: a stop is requested only after `m_paused` was set under the lock, and
the thread ends only after a stop. `ProducersReady`: a producer that passed the first, unlocked,
check has exactly one item in its hands. `HeldWhilePopped`: the output thread has a payload exactly
between pop and write. With these, an item that is about to be pushed into a paused queue is stopped
by the second check under the lock, whatever overtook it. `LossInv` adds
`LossEndsThread`: after a loss nothing more is popped until the pause is over, so a lost item is the
last of its thread, which is what the sink permits. `StepKinds` sorts all steps by what the sink can
see of them, so that the refinement has five cases and not twenty.

The argument for the runner. None of the properties is inductive by itself. `IndInv` divides the life
of a runner: `Fresh`, until `m_can_start` is set, nothing has happened but the creation of threads,
which all stand at the barrier (so `FailedExecuteHangs`); `Pool`, from then on it is running, being
destroyed or joined. `Counts` makes the two counters the cardinalities of the threads that have
arrived and of those that have not left. From it, the thread that finds `m_started_threads` complete
knows that all have arrived (`Barrier`), and the one that finds `m_running_threads` zero that the
others have exited (`LastThreadNotifies`). `Custody` places every test in the queue, in one thread's
hands (`Hands`), or on one side. `Leaving` says that a thread leaves an empty queue unless the
destructor told it to stop. Then the last thread, which cannot get past the lock while the destructor
holds it, has left nothing behind when it exits (`AllDone`), and that is what both a join and a
destruction that come to an end rely on. For the refinement, `OutcomeOfHeld` uses `Custody` to
identify the one holder of a test; five actions are seen by the battery and the others are stutters.

The argument for the program. First the script: whatever the switches, `Script` either talks until
its last statement (`PlainScript`) or has the battery at known positions (`BattleScript`,
`TheScriptIs`). Then four layers of invariants, each inductive given the ones before it. `Prepared`:
types, the place of the main thread in its script, that a worker which has left its loop has nothing
more to say (`Departed`, so what the main thread joins is quiet), and `Out!IndInv`, `Out!LossInv` and
`Out!Conservation`. The last three are not proved again: every step of the program is a step of the
queue or leaves it alone, so the theorems of `DedicatedOutputProofs`, which `TestApplication`
instantiates as `Out`, keep them. `Control`: the runner runs between two positions of the script, only
then do workers act, and while the queue refuses, the next statement is a restart or there is none.
So nobody closes a proxy to no effect, and the items of the queue can be counted against what was
said (`Voices`, `NothingIsEverRefused`). `Talked`: the n-th item of a thread is the n-th thing it said
(`Numbered`), and what the main thread has said goes with its position (`MainTalks`), which puts the
tests between the first line of the battery and its summary. `Kept`: what the queue took last before a
pause is a line of no consequence (`LastWords`, `Spared`), only the last item can be lost (`LossInv`),
and the file is open from the restart before the battery to the pause after it (`FileThere`), so each
result comes to its stream (`Fated`). Without switches the detail is that last line, hence the
condition in `AnnouncedDetailIsWritten`.

The argument for the parser. `process_input` reads an argument after those behind it, so what it
yields from a position on (`Obtained`: it fails exactly if the rest is not well formed, blames one of
the rest, and otherwise has a switch for each head, which stands for it) is proved from the end to the
front (`FromTheEnd`, which is the least counterexample once more). A switch with a parameter moves the
position by two, one without by one, and the counting of heads follows (`HeadsCount`). At the first
position `Obtained` is the grammar for trimmed arguments; trimming changes no token or word, and the
grammar looks at nothing else (`GrammarOfTrimmed`, `ReadsTrimmed`).

The argument for division. `LoopInvariant` says that the dividend of the call is the quotient so far,
at the weight it will have at the end, times the divisor, plus what is left, and that what is left is
below that weight of divisors. It is inductive together with `Control` (the divisor is not zero in the
`noexcept` part, and the loop has run at most `shift + 1` times). `IterateKeeps` uses the theorems of
`Uint128Theorems` for the operators inside the loop: the shift of the quotient loses no bit, and the
subtraction does not borrow. At the end of the loop the weight is one, which is the definition of
quotient and remainder. `DivisionIsExact` turns this into the refinement of `DivisionService`.

The argument for the other machines. A variable holds two limbs (`LimbsOK`), which is all that is
needed besides the theorem about each operator; what `& | ^` do is the sum of what they do to each
bit (`DigitsTotal` of `Uint128Theorems`), so the abstract operators on residues need no
`Bitwise`. `ChainInv` says that every word and every carry so far is what the function returned for
the words below it; that all of them were right is no invariant, because on the portable path they
are not. The sum of the words so far then telescopes as far as no call was misjudged (`ExactAsFar`).
`MultiplicationInv` says that `sum` is the total of the pieces added so far and `products` the
others; `PiecesAddUp` says that all four pieces total the product. `ContainerInv` says that the pair
and the integer are the same number, on either byte order. `MCArithmetic` instantiates the module
that holds the proofs, `OperatorProofs`, and not those it extends, so that `ArithmeticProofs` can cite
the theorems for each instance.

The argument for the conversions. From floating point nothing is rounded: what remains of a number of
few digits when its top is taken away, or its low end cut off, has no more digits than the whole
(`GridSplits`), so both paths reach the quotient by four (`HalvesTruncate`, `PiecesTruncate`). To
floating point three values are rounded, and that the result is next to the number is not a matter of
the size of the errors, which can add up to more than half a step. It rests on the order: rounding is
monotone although its step changes with its argument (`RoundingMonotone`), hence never passes a value
of the type. If the high limb was rounded down, the low limb is added to a smaller number and the sum
does not pass what it must not. If it was rounded up, it was by more than the low limb is worth, and
adding the low limb to it is absorbed by the last rounding (`UpIsKept`); `SumBounds` joins the two.
Monotone from one number to the next is the same except where the low limb wraps, and there what the
high limb rounds to is on the grid already (`ConversionMonotone`).

The argument for the example runner. `Inductive` has four parts: `Loop`, the loop over the tasks
goes through the configurations in order and what is before it is recorded; `Recorded`, what is
recorded of a task is what it returned; `Programs`, a chunk is still to be written, in a pipe or
read, and a program that exits with zero has written all; `Awaits`, what a task knows at each of its
awaits. A log that is written then has the complete output of every program that exited with zero.
For the others, `Answered` says that what an answer has of a stream is all that was written to it, that
the pipe is empty and the program has ended; nobody reads or writes there any more, so it stays so.

The argument for parsing. A number is what its digits denote by position (`Denoted`, from the front);
the loops of the code go from the back and carry the power. `DenotedBackwards` gives the same number
in their order, and `DigitAdds` one iteration modulo 2^Bits. `DecimalParses` adds when an iteration
overflows: while the number fits nothing wraps, so the sum never falls. Hexadecimal digits become bytes
(`PairsDenote`), bytes become a number in either order (`BytesAddUp`, `BytesDenote`), and the final
shift divides by the power that the missing digits are worth, which for an odd number of digits takes
the last one with it (`HexParses`). The tests before the loops decide by the shape of the text:
`Stripped` says that what trimming and stripping leave of it is the text without spaces and separators,
if its spaces are outside, and `FormatParses` which loop it then comes to. For a literal the comparison
with the digits of the maximum is by the first that differs (`FirstDifference`), which is the order of
the numbers for as many digits; with fewer or more the powers decide (`DecimalSize`).

The argument for writing. `DigitsShow` says what the library's inserter makes of a number below
2^Bits, `DivideTwice` that two divisions by the same power leave three chunks (with `DivisionDivides` of
`Uint128Theorems`), and `ChunkWidth` that a chunk has no more digits than its place; `PaddedShows` and
`JoinedShows` put them together without a leading zero and without a gap. `WidenedShows` takes the
filling off again, wherever it was put.

The argument for the stream. That a readable number comes back needs to know what the next word of
the stream is, after any history, hence `WordsInv`: as long as the stream has not failed and what waits
in it is readable, its text is a chain of words, one for each entry of `unread` and in their order, with
a space before each but the first and at most one behind the last, and each word is parsed to the
number of its entry (`InOrder`, `IsWordOf`). On the utf path no space is in front. A number that is not
readable is alone. `InsertedShows` and `ReadableIsRead` say that what is inserted in a readable format
is such a word, the latter by the theorems about parsing (`CountsAgree` gives the even number of
hexadecimal digits). Insertion appends a word behind a space (`NextInOrder`), extraction takes the
first and leaves the chain of the others (`FirstWord`, `RestInOrder`).

The product on the portable path is the hardest of the operators: the products of half limbs are
exact because two half limbs multiply to less than a limb (`ProductBelow`, `CrossProduct`), and every
carry out of a limb or out of the two sums is a multiple of 2^Bits (`TimesMultiplies`).

Powers of two are a recursive function, `Pow2`. Its equation is proved by the least counterexample,
as the induction theorems of the library take an operator as a parameter, which the provers used here
cannot instantiate; the other laws follow from it. `Total`, `Power` and the loops over a text are done in the same way:
`FiniteRecursion` gives the function that a loop defines, position by position.

### Model-checked only

* Liveness: `DeliversLikeSink`, `PauseFromBacklogReturns`, `EveryTestIsRun`, `WaitInTimeReturns`,
  `ProgramEnds`, `RunEnds`. TLAPS does not reason about `ENABLED` and fairness. Every other property
  of a passing run is stated by a theorem.

## 5. What is not modelled

* `intrinsic_u128`, where the compiler's own 128-bit type does the work, and the pre-C++20 scan for
  the leading bit (`uint128.inl:1054-1064`), which no build of the repository compiles.
* Hash, which has no contract but to be a function. Concepts and requirements on the standard
  library: predicates on types that refuse to compile.
* Floating point: rounding modes other than to nearest, and arguments that only an assertion keeps
  out.
* Of text: streams whose buffer fails, exception masks, and the characters of more than eight bits
  that the utf path takes for spaces because it looks at their low byte only (`uint128.inl:131`).
  The stream manipulators of `cjm_string.hpp`, which the library does not use.
* A result file that fails while it is written, and an output thread that cannot be created at a
  restart. `ResultsAreShown` counts what is sent to the stream of the result file as shown, also if the
  file could not be opened (`detail` is false then): the program says so itself (`Announce`).
* The owners of the output queue, and two threads that control it at once; the program has one. The
  output thread owns a shared pointer to the queue, so a queue whose other owners leave without a
  pause is never destroyed (`output_guard.cpp:287`). Moving a runner, which the program does only
  before it executes it.
* The bodies of the tests and the contents of files of operations: a test or a file passes, fails or
  errs. The order, hash and copies of a `test_switch`. `TestProgram.cpp`, an earlier test program
  with a `main` of its own that no project file builds. The example's tour of the library,
  environment checks and quick starts, which are sequential and print.

## 6. What the model found

Six runs check what a document, comment or message of the repository says, and the code does
otherwise. Each has an entry under `findings`.

* `pause_returns`. `request_stop()` and `notify_all()` (`output_guard.cpp:194-195`) are called
  without `m_mutex`, between the predicate and the wait of the output thread. It then sleeps for
  ever while the pause joins it. Pausing with a backlog does not have the problem
  (`PauseFromBacklogReturns`), because there the stop is requested under the lock as well.
* `pause_writes_everything`. The queue is empty as soon as its last item is popped; the output
  thread tests the stop request between the pop and the write (`output_guard.cpp:313`).
* `wait_join_returns`. `m_all_threads_done.wait(lck)` has no predicate (`test_runner.cpp:533`). It hangs
  the program as well, which comes to it from `execute_and_wait_join()` (`int128_tests.cpp:408`).
* `all_passed`. A test that ends with another exception is in neither result vector
  (`test_runner.cpp:627-633`), and the summary looks only at the failing one.
* `carry_out`. The portable carry test compares with the first addend (`uint128.inl:1526`), and a
  carry in with a second addend of all ones gives the first addend again.
* `parses`. `parse_hex_str` puts pairs of digits into bytes from the front and shifts the number down
  by whole digits (`uint128.inl:2439-2452`); an odd last digit sits in the low half of its byte and is
  shifted out. `"0x1"` gives 0, `"0xabc"` gives 0xab0.

Where the code is known to differ from what one would expect, the passing runs state what it does:

* `HexadecimalByWholeBytes`, and for decimals that a number too large is refused or wraps
  (`DecimalIsExactWhenItFits`); internal adjustment writes two characters more than the width asks
  for (`uint128.inl:92`, `InsertionShowsTheNumber`).
* `ExactUntilMisjudged`: besides the carry above, `sub_with_borrow` of a limb has its test the wrong
  way round on the portable path (`uint128.inl:1574`), that of `uint128` misses the borrow of the
  dual case (1610, 1641), and `add_with_carry` of limb containers ignores `carry_in`
  (`fixed_uint_container_math.hpp:73`). A chain of words is exact up to the first of these and no
  further.
* `BytesRoundTrip`: on a big-endian target without constexpr `bit_cast` a byte is shifted by its index
  and not by eight times that (`uint128.inl:815`), so only a number of one byte comes back.
* `BuildIsComplete`: a build for Windows takes a mode with instructions by the width of a pointer and
  the instructions by the macro of x64 processors, so one for ARM64 has the mode without the
  instructions, and with Microsoft's compiler every division of it gives zero (`uint128.inl:2800`).
* `ProgramEnds`: the program never ends if the main thread is in the join of a pause (`pause_returns`), in
  the wait for a battery whose threads had all ended (`wait_join_returns`), in the joins of the battery
  with the mutex locked after a spurious wakeup (`test_runner.cpp:534-538`), or in the join of the threads
  that were created before one that could not be (504).
* `FailedExecuteHangs`: if a thread cannot be created, `execute()` joins threads that wait for
  `m_can_start` (`test_runner.cpp:504`).
* `DestroyedIsQuiet` holds for the reason that a destruction which comes too early never ends: it
  joins with the mutex locked that the last thread needs (`test_runner.cpp:567`).
* `ParsesTheGrammar`: an absolute path is taken for a switch (`int128_test_switches.cpp:677`), and the
  exception about an empty parameter tells of a text of the program's own (127).
* `AnnouncedDetailIsWritten`: without a switch the detail is the last line before a pause, which may
  lose it, and the program announces it all the same.
* `LogIsComplete`: the ten seconds of the example runner have no effect, as `Result` waits again
  without a limit (`example_code_runner/Program.cs:56`).
* `LiteralIsExactOrIllFormed`: the length of a hexadecimal literal is limited by its number of digits,
  leading zeros included, and not by its value.

Seen while reading, without a run: the proxy of the error stream writes to standard output
(`output_guard.cpp:107`); the number of threads is the larger, not the smaller, of the maximum and
the number of tests (`test_runner.cpp:498`).

## 7. What could follow

* The composition of `TestApplication` with all of `TestRunner`: what it does with the tests is that of
  `TestBattery` now, by the theorem `RunnerImplementsBattery`, and of its own steps only those are there
  that decide about its return.
* Streams whose buffer fails, and exception masks, in `TextStream`.
