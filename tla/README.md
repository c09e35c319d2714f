# Specifications of the operating-systems coursework

TLA+ modules for the programs under `src/code`, TLC configurations that check
them on small instances, and TLAPS proofs about them. The repository holds five
independent programs (one per lab); nothing is shared between them, so each has
its own modules.

| Lab | Program | Modules |
| --- | --- | --- |
| 5 | `tcd`: tax collectors, one pthread each, with a mutex each, one for all, or none | `TaxAmount`, `TaxLedger`, `TaxCollectors`, `TaxCollectorsProofs`, `SetInduction` |
| 4 | `ult`: cooperative user-level threads on setjmp/longjmp | `RoundRobin`, `UserThreads`, `UserThreadsProofs`, `UserThreadsRefinement` |
| 4 | `test_ult`: a copying thread and a command reader on top of `ult` | `TestUlt`, `TestUltProofs` |
| 3 | `sar_shell`: jobs, waiting and SIGINT | `ShellJobs`, `ShellJobsProofs` |
| 3 | `sar_shell`: pipelines and file descriptors | `ShellPipes`, `ShellPipesProofs` |
| 3 | `sar_shell`: input, parser and memory | `ShellLines`, `ShellLinesProofs` |
| 2 | kernel module and empty system calls | none |
| 1 | boot loader with a password prompt | none |

To repeat the checks, in this directory:

    tlc -config TaxCollectors_individual.cfg TaxCollectors
    tlapm TaxCollectorsProofs.tla

Each `.cfg` is named after the module it is for. In the modules, a definition
commented "Mutated form" is the definition below it with a plausible bug; no
specification uses it. Putting it in the place of the real one makes TLC report
the property it is paired with in `PROJECT.json`, which shows that the property
would notice.

## Inventory

### Tax collectors (`lab5/src/tcd.c`)

State: an array of collectors, each with `money`, `levy_count`,
`payment_count` and (default build) a mutex; the flag `running`; with
`-DBIGLOCK` one mutex for all, with `-DNOLOCK` none.

Operations: each thread, as long as `running`, draws another collector at
random, locks both (lower id first), and if the victim has 100 or more, takes
half of its money, rounded up to the next hundred, and counts the levy and the
payment; unlocks; yields. `main` creates the threads, clears `running` after a
while, joins them, prints the totals, destroys the mutexes, frees the array.

Hard: interleavings of single loads and stores on shared counters; two locks per
transaction taken by threads that draw each other; a check that may be stale
when it is acted upon; tear-down against threads still running; C integer
division.

Correct means: transactions with a common collector exclude each other; there is
no deadlock and the program ends; money is conserved and nobody is in debt; the
totals agree; the whole behaves as if every levy happened at once.

### User-level threads (`lab4/src/ult.c`)

State: the list of threads (dead ones included), the list of threads spawned
and not yet created, the id counter, the current thread, and per thread a stack,
a jump buffer and `isZombie`.

Operations: `ult_init`, `ult_spawn`, `ult_yield`, `ult_exit`, `ult_waitpid`,
`ult_read`, and the scheduler that creates new threads, rotates the list and
jumps. A waiting thread is not taken off the list: it polls.

Hard: control moves by longjmp, so a place to resume must stay valid across
every other thread's calls; threads go from one list to another; zombies stay;
polling must not starve anybody; `ult_read` has two selects that differ.

Correct means: no thread is lost, doubled or resumed after its end; turns are
round-robin; everybody alive runs again; a wait for a spawned thread finds it
and ends when it has exited; a blocked read ends when there is data.

### Demonstration of the thread library (`lab4/src/test_ult.c`)

State: the counter `copyed_bytes` and the time `start_time`, shared by two
threads without a lock, and the line buffer of the second. `myInit` spawns both
and waits for the first, `threadA`, which copies random bytes to `/dev/null` for
ever; `threadB` reads lines and answers `stats`, `fish` and `exit`.

Hard: what the threads share is consistent only because they are switched in
library calls and nowhere else; the order in which the threads start decides
what `stats` finds; three threads poll at the same time.

Correct means: the counter agrees with what was copied whenever it can be read;
`stats` divides by a time that has passed; input that arrives is read.

### Shell (`lab3/src`)

State: the doubly linked list of jobs (`bj_first`, `bj_last`; pid, finished,
result), `bj_interrupted`, `call_fg_pid`, the shell's descriptors, and in the
kernel its children and the pipes between them.

Operations: read and parse a line (`readInput`, `trimString`, `call_new`,
`command_new`), run a pipeline in
foreground or background (`call_run`, `command_exec`), `wait pid...`
(`waitForPids`, `bj_wait`), `cd`, `exit`; the handler of SIGINT
(`sigIntHandler`) interrupts the program between any two instructions.

Hard: the handler against the waiting loop (the flag may be set between the test
and `wait()`, which `signal` makes restart, so the handler forks a child for
`wait()` to return); children reaped in any order, among them pipeline stages
that are no jobs and the handler's own; descriptors passed from round to round
and copied by fork; reused descriptor numbers and process ids.

The parser is sequential and yet easy to get wrong: two loops, one that counts
words and one that copies them, must agree; a call is constructed piece by piece
and freed from several places; some members are not initialised.

Correct means: what is run is what was typed, and its memory is freed once on
every path; a wait ends when it should and not before, and never fails; ^C
reaches the foreground process or ends the wait; every program gets its files
and no other; no descriptor leaks; pipelines drain.

### The rest

* `sar_prog.c`: sleeps and returns a status; one of the arbitrary children.
* `tcb.c`: empty functions that nobody calls.
* Lab 2: the system calls and the module are skeletons without state. The
  system-call table, the kernel Makefile and the build products beside them come
  from the Linux kernel.
* Lab 1 (`os.c`): one loop over BIOS calls; its state is one local array. It
  prints one byte beyond each string (`i <= size`, line 46).

## The models

### TaxCollectors

One action per access to memory another thread may touch: the updates of
`money` (the collector's and the victim's) and of the victim's `payment_count`
are a load (`TakeLoad`, `GiveLoad`, `PayLoad`) and a store each; `levy_count`,
which only its own thread writes, is incremented in one step. `pc[t]` is the place of thread
`t` in `thread_collector`, `collectors_lock` or `exec_transaction`; `selected`,
`amount` and `reg` are its locals and the machine register. `main` has a place
of its own: creating, sleeping, joining, printing, destroying. Mutual exclusion
is nowhere assumed: `LockMode` says which mutexes a build takes, and the
accesses are the same in all three. It is a variable that keeps the value that
`Init` chooses among `Builds`, so that one run or theorem is about several
builds at once. What only holds with mutexes says so itself
(`LockMode # "nolock" => ...`).

`INT_MAX` bounds the money by an assumption on the start money, so that no sum
overflows. Locals are reset when they go out of scope, to keep equal states
equal. In the `NOLOCK` build, where C gives no meaning to the races, the model
is that of the program as built: loads and stores in program order, interleaved.

`TaxLedger` is what the program promises: `Levy(c, v)` in one step. In
`LedgerRefinement` the balance of a collector in the middle of a transaction is
shown without the amount it has added and its victim has not paid yet
(`LedgerBalance`), and counters with the increment still to come: the levy takes
place when the victim's money is stored.

`TaxAmount` has the two pure computations, and `IsRoundedHalf`, what the first
one should compute.

### UserThreads

`control` is where the one kernel thread is: in the scheduler (`cycle`,
`select`), in user code, or in a library function after one of its yields
(`find`, `poll`, `read`). `jumpPoint[t]` is where longjmp would take thread `t`,
`"zeroed"` after `ult_exit`. `SelectNextThread` is one round of the selection
loop, so that going round zombies for ever is visible. User code is arbitrary:
in `user` a thread may call anything, with any argument; `arg` keeps the
argument across the yields. `readable` is what `select` would answer and changes
at any time. The argument of `ult_exit` and the result in `*status` are missing
because the code drops the one and never assigns the other.

`RoundRobin` has a queue of live threads, the spawned ones behind it, and the
running thread. `RoundRobinRefinement` maps the list, reversed and without
zombies (`Alive`), to the queue; going past a zombie is a stuttering step.

### TestUlt

The composition of `test_ult.c` with the library: `TestUlt` extends
`UserThreads` and replaces its arbitrary user code (`User`) by three programs.
Each step of a thread runs from one library call to the next, and is a step of
`UserThreads` when it ends in a call (`WaitpidCall`, `ReadAtOnce` or
`ReadBlocks`, `Yield`, `ExitProcess`): the library's guards and effects are
those of its own module. `at[t]` is the place of thread `t` in its function and
`i` the length of the line that is being read. Bytes are counted by reads,
modulo `Wrap`; `dumped` counts the same reads where they are written out.
A line's content is drawn when it ends: with no character it is unknown to
`threadB`, else any command. `now` is the second the clock shows. The line
buffer has `BufLen` places, and `stored` is the one written last. The code
compares the length with `BufLen` after the store and leaves no room for the
terminator, so that two stores go to position `BufLen`, one byte outside: the
terminator of a line of exactly `BufLen` characters, after which the program goes
on (`EndLine`), and the first character that is too many, after which it calls
`realloc` on a local variable, where it dies (`StoreCharacter`).
`OverrunIsOneByte` says that these two are all: whenever the last store was
outside it was at `BufLen`, of a line that fills the buffer, and no further
character is read before the line has been answered, or ever.
`InputIsRead` counts a character as read when the call of `ult_read` has
returned; while the thread is blocked in it, `Reads` holds.

### ShellLines

One round of `main` in `sar_shell.c` from the line read to the line freed. A
line is a sequence of character classes: part of a word, space, `|`, `&`, and
any other. `trimString`, `getValidSeqCount` and `ScanArguments` (the loop of
`command_new`) are functions on such lines. The last two are recursive in the
position as the loops are, and at each position a function of the loop's other
local (`inSeq`, `argStart`); positions count from 0. The parser is a machine of
its own: `CallNew`, `CommandNew` or `EmptyCommand`, then `Pipe`, `Background`,
`Invalid` or `EndOfLine`. An argument that the second loop does not find is
`Uninitialised`. `heap` is the set of blocks allocated, by the place that owns
them; `FreeThen` has no defined outcome when a block is freed that is not there.
Two uses of memory that has not been initialised are nondeterministic:
`EmptyCommand` (the array of arguments that `command_free` finds may be NULL or
not), and the line `readInput` returns at the end of the input (any line; the
byte written before the block, `input[-2]`, is a high one of the size malloc keeps
there, which is 0 already). `UndefinedOnlyIfEmpty` speaks of the parser's blocks
alone: that byte is outside them all, and no property would see it. That a last line without line break loses its last character is
the second disjunct of `ReadInput`.

`Words`, `WordsOfStage`, `IsCall` and `ArgumentArray` say what a line means
without a scanner, and `RunsWhatWasTyped` compares the two. `InLineOrder` is the
list of a set of words in the order they have in the line.

### ShellJobs

`pc` is the place of the main thread in `main`, `call_run`, `bj_wait` or
`waitForPids`; the handler's two actions are enabled at every place until the
process ends. `proc` is the kernel's view of every process id: free, running,
the handler's child, zombie. The list is the set `listed` with the subset
`finished`; its order only matters when two jobs have the same process id, which
the model excludes (`Available`, and the hazard at `sar_backgroundjob.c:15`).
The array `pids` is a set, of which an entry made -1 is no member. `bj_wait`
ends after an interrupt without a return statement; as built (no optimisation)
the caller finds the negated flag, 0, in the result register, which is the NULL
that the model returns. `cd`, empty and invalid lines change nothing here.

### ShellPipes

`table[p]` maps the open descriptors of process `p` to what they stand for;
`open` and `pipe` take the lowest free number; `fork` copies the table and the
locals of `command_exec` (`frame`), and parent and child go on independently.
`close` and `dup2` of a number that is not open change nothing, which is how
the background case goes wrong. A program may end at any time, is killed if it
writes to a pipe without readers, and is at the end of its input when nobody
holds the write end. `entered` records the line a process belongs to, so that
`Wiring` can say what it should be given. A program that cannot be executed is
one that ends at once. Waiting is left to `ShellJobs`.

## The runs

| Run | Question | Distinct states |
| --- | --- | --- |
| `tax_individual` | default build, 3 collectors, 200 Euro each, 2 transactions each: exclusion, lock order, solvency, money, tear-down, end, refinement | 1,132,100 |
| `tax_builds` | the builds with one mutex and without any, 3 collectors, 250 Euro each, 1 transaction each: exact totals (with the mutex), no payments without a levy, although some may be lost (in both), end | 797,372 |
| `ult_calls` | 4 threads, stacks for 3, any calls: lists, jump points, turns, starvation, waits, reads of standard input | 88,632 |
| `ult_reads` | reads of another file are woken (violated) | 2,496 |
| `ult_demo` | `test_ult.c` on the library: the shared counter, how far a long line is written, and that input is read | 3,856 |
| `ult_stats` | `stats` finds a started thread and a second passed (violated) | 150 |
| `shell_lines` | every line of up to 6 characters: what is run, memory, undefined behaviour | 304,255 |
| `shell_blank` | a command of no words is rejected (violated) | 122 |
| `shell_jobs` | 4 process ids, pipelines of 1 or 2, any wait, ^C at any time: the list, waiting, foreground calls, interruption | 289,690 |
| `shell_interrupt` | ^C during `wait` makes it end (violated) | 13,869 |
| `shell_pipes` | 4 processes, lines of up to 3 commands: files of each program, leaks, SIGPIPE, draining | 20,293 |
| `shell_background` | output of a background call is accepted (violated) | 42 |

The counts of violated runs vary a little with the order of the search.

Bounds, and why they are enough:

* `NumCollectors = 3`: two threads make every data race and the two-lock
  deadlock, three make the ring of three and a victim with two levies at once.
  The proofs cover every number. In `tax_builds` each of the three takes money
  once (`MaxLevies = 1`): without locks that is enough for two threads to load
  the same payment counter and for one of the two increments to be lost.
* `StartMoney = 200`: balances of 0, 100, 200, 300 and more are reached, so both
  roundings and the refusal below 100 happen; `MaxLevies = 2` lets a thread
  lock again after it has unlocked and meet a balance that others have changed.
* `MaxThreads = 4`, `StackLimit = 3`: three threads run and the fourth, if it
  is spawned, finds no stack. Two can wait for each other and for the third.
* `Pids = 4`: two jobs, a process of a pipeline that is no job, and the
  handler's child at once; the table is full in some states, so that fork fails.
  Process ids are used again, so the behaviours are not bounded in length.
* `MaxProcs = 4`, `MaxStages = 3`: a pipeline of three and then another call, or
  four calls; the first, an inner and the last place are different.
* `MaxLength = 6`: enough for three commands of one character (`a|b|c` and an
  ampersand), for spaces at both ends of two words, and for every pair of
  neighbours of the five classes in every place; the scanners look at one
  character and the parser at the one behind it.
* `BufLen = 2`, `MaxTime = 2`, `Wrap = 2`: an empty line, a line that fits, one
  that fills the buffer and one that is longer; `stats` in the second of `start_time` and in a later one.
  The counter and its ghost are incremented alternately, so they cannot differ
  by two. `Files = {0, 3}` are standard input and `/dev/random`.
* The violation runs take the smallest instance that shows the behaviour.

### Fairness

* `TaxCollectors`: weak fairness of each thread and of `main`: the kernel
  schedules every runnable thread. Nothing is assumed about which thread gets a
  mutex: `Termination` needs none, as `running` is cleared and each thread then
  goes round its loop at most once more.
* `UserThreads`: weak fairness of the scheduler and of library code, which is
  one running process, and of `LetGo`, the calls by which user code parts with
  the processor: threads of this library are cooperative, and one that never
  yields does starve the rest. Nothing is assumed of input.
* `TestUlt`: weak fairness of the one process, whatever it executes. The three
  threads need no fairness of their own: who is next is the library's choice.
* `ShellJobs`: the shell runs, and the handler's child, which calls `exit(0)`,
  ends. Programs may run for ever.
* `ShellPipes`: the shell and its children run, a program that does not read a
  pipe ends, and one that does ends at the end of its input. This excludes
  programs that wait for the terminal (hazard at `sar_call.c:166`).

Where the model may stop (the shell or the process has ended, all threads have
been joined) it stutters by an action of its own, so deadlock is checked in
every run.

### What the violated runs show

* `ult_reads`: the loop of `ult_read` selects on standard input but asks for
  `fd` (`ult.c:305`): a read of any other file never returns once it has blocked.
* `ult_stats`: `threadB` may be asked for `stats` before `threadA` has run, when
  `start_time` is still 0 and the age of the epoch is printed, or within the
  first second of `threadA`, when `test_ult.c:83` divides by zero. The built
  program does both.
* `shell_blank`: `command_new` frees a command whose `args` it has not
  initialised (`sar_call.c:52`). A line with a space or `ls |` makes the built
  shell abort with a double free, depending on what malloc found in the block.
* `shell_interrupt`: `bj_wait` resets the flag on entry (`sar_backgroundjob.c:72`)
  and is called again for each job: a ^C that comes with the end of a job is lost
  and `wait` goes on.
* `shell_background`: the null device is closed as the first command's input, so
  that the reading end of the last pipe is closed rather than redirected
  (`sar_call.c:318`): a background program that writes dies of SIGPIPE.

A line of 1024 characters written to `test_ult` overruns its buffer by one byte
(`test_ult.c:52` and `58`, see `TestUlt` above). No comment or test speaks of it,
so that there is no run it would violate; `OverrunIsOneByte` names it as the case
that is left out.

Four more departures from the documentation are plain in the code and have no
run: `./tcd 1`, which the usage allows, divides by zero (`tcd.c:52`); `ult_exit`
drops its argument and `ult_waitpid` never assigns `*status`, against their
comments (`ult.c:227-231`, `268`); a wait for a thread that has exited does not
return at once (`ult.c:257`); and once all threads are zombies `selectNextThread`
loops for ever, so that `exit(0)` after `ult_init` in `test_ult.c` is not
reached (`ult.c:74`).

## The proofs

TLAPS proves the following for every value of the constants that meets the
named assumptions in the modules.

`TaxCollectorsProofs` (any number of collectors, start money, transactions):

1. `TypeCorrect`, in all builds.
2. `LockInv` is the inductive invariant: `LockDiscipline` (mutex `m` belongs to
   thread `t` exactly when `t` stands where `Holds(t, m)` says), with
   `ControlConsistent` (a build only reaches its own places and a selected
   victim is another collector) and `MainConsistent` (whom `main` has created and
   joined). `ExclusiveAccess` alone is not inductive: that nobody is between two
   mutexes another thread is past does not follow from where threads are without
   knowing what they hold. `ThreadFrame`, `OwnMutexes` and
   `OthersKeepMutexes` say once what a step leaves alone.
3. From `LockInv` follow `MutexesDisciplined`, `MutualExclusion` (in both builds
   that lock), `LocksOrdered` and `TeardownQuiet` without further induction.
4. Given exclusion, `Fresh` (register, check and amount agree with memory) is
   inductive: another thread's step does not touch the two collectors of a
   transaction (`SharedFrame`). This gives `ChecksHold`, `NoLostUpdate` and, with
   `AmountPayable`, `NobodyInDebt`.
5. `ImplementsLedger`: `Init` maps to the ledger's `Init`, the store of the
   victim's money to `Levy`, every other step to a stutter.
6. `AmountIsRoundedHalf`: the truncating arithmetic computes half of the money
   rounded up to a positive multiple of 100, for every amount.
7. `MoneyIsConserved`: what all collectors have, less what has been added to one
   and not yet taken from its victim, is what they started with. A step changes
   this sum in the two collectors of one transaction (`Fresh` says by how much).
8. `StatisticsAreExact`, in the builds that lock: levies are payments and the
   threads in `PaidLate`, which have counted the one and not yet the other
   (`CountsBalance`); when `main` prints there are none.
9. `PaymentsBehindLevies`, in every build, also without locks. The payment
   counters themselves are no use as an invariant, as a late store may set one
   back and a later one forward again by more than one. `PaymentsBounded` says
   that there are bounds on the counters, and on what threads hold in a register
   to be stored into them, whose total the levies do not fall behind.
10. `NoDeadlock`, in every build: until `main` is done a thread or `main` can take
    a step (`NeverStuck`; `CanGoOn` says for a thread where it stands and which
    mutex it waits for). Among the threads that stand before a mutex that is taken
    there is one that waits for the greatest, and whoever owns that one waits for
    none (`NoCircularWait`), so it goes on. When `main` joins the threads all have
    been told to stop (`Alive`).
    One collector alone is excluded: it has nobody to draw, and the program
    divides by zero (`tcd.c:52`).

`UserThreadsProofs` (any number of threads, stacks and files): `ThreadInv` joins
to the types, `EachListedOnce` and `JumpPointsValid` what is true at each place
of control (`Position`): the scheduler creates the new threads before it selects
one, so whoever is resumed inside a library call finds none that is not yet
created, and the running thread is in the list. New threads have no jump point
(`Uncreated`). Without these two the earlier three are not inductive: a thread
that is selected could be one that was spawned and never set up. The lemmas say
what `Reverse` and the rotation do to the elements of a list. From `ThreadInv`
follow `ThreadTypes`, `ListsComplete`, `JumpsValid` and `WaitpidFinds`.

`UserThreadsRefinement`: `ImplementsRoundRobin`. The queue is a recursive
function of the list, from which the zombies are left out. The lemmas `QueuePush`,
`QueueRotated`, `QueueNew` and `QueueExit` say what becomes of the queue when the
list is extended or rotated and when its head becomes a zombie, and the `Turns...`
lemmas that each action is one of `RoundRobin` or a stutter. `TurnsComeNearer` is
an action property of the list itself: each round of `selectNextThread` moves
everybody but the selected thread one place towards the end from which threads
are taken, and no other step moves one away from it.

`TestUltProofs`: `DemoIsOfLibrary` shows that a behaviour of the demonstration is
one of `UserThreads`, fairness apart, so that every safety theorem about the
library holds of it, and `ThreadInv` is part of its invariant. `DemoInv` adds
where the threads may stand, that a read written out and not yet counted is there
only while `threadA` runs (`Counting`), and, of the line buffer, that no position
is behind `BufLen` while the process runs, together with `OverrunIsOneByte`
(`BufferOK`; alone it is not inductive, as a store needs the bound on `i`). From
it follow `DemoTypes`, `CountsAreTrue` and `OverrunIsBounded`, for every length of
the buffer and width of the counter, and `DemoTakesTurns`: the three threads take
turns as in `RoundRobin`.

`ShellJobsProofs` (any set of process ids, any length of a pipeline):
`JobInv` adds to the types and to `JobListAccurate` what holds at each place of
the main thread (`Position`). Its core is the order of a foreground call: when
the waiting loop is entered `call_fg_pid` is set and the flag has been reset
after that, so the handler can only send the signal on, and the loop ends only
when it reaps the process. From it follow `JobsAccurate`, `WaitsHaveChildren`,
`ReportsTrue`, `ForegroundKept` and `SignalsReachChildren`, and the action
property `NoJobIsDropped`: a job that leaves the list has been reaped, and is the
process of the foreground call or reported by `wait` in that step. Three more
are about waiting: when the flag has been set while the shell is in `wait()`, the
handler's child or another one makes it return (`InterruptsWake`); the waiting
loop always has an unreaped job to wait for (`WaitsForUnreaped`); and the
end of an awaited process is never used up by anybody but `bj_wait`
(`NoAnswerIsLost`).

`ShellPipesProofs` (any number of processes, pipelines of any length): the
properties speak of a program when it is started and the shell when it prompts;
`PipesInv` says what every table of descriptors holds on the way there. At each
place the shell's table is one of three, by what it keeps for the next command
(nothing, descriptor 3 or descriptor 4), with the ends of the current pipe beside
it (`ShellOK`), and a child has the table it was forked with, changed by the
steps it has taken (`ChildOK`); that the reader of a pipe is still there follows
from the tables of the next command or, until that is forked, of the shell. From
`PipesInv` follow `PipesTypeCorrect`, `StagesAreConnected`, `NoDescriptorIsLeft`
and `ReadersOutliveWriters`. `PipelinesGoOn` adds that lines are entered as a
whole (`WholeLines`): the first process of the awaited line that has not ended
reads from no pipe that anybody can still write to, because the table of a
command holds no write end but its own (`OneWriter`), whatever the processes of
other lines do.

`ShellLinesProofs` (lines of any length):

1. `ScannersAgree`: started at any position that is not inside a word,
   `getValidSeqCount` and the loop of `command_new` both find the words up to the
   first character that is neither space nor part of one: the first their
   number, the second their texts in order. The proof goes down from the end of
   the line. `CountStep` and `ScanStep` take the recursive functions apart.
2. `TrimCall`, `TrimStages`, `TrimLists`: trimming a line does not change what it
   means.
3. `LinesInv` is inductive: at each place, which blocks are allocated (`HeapIs`)
   and which commands of the line, up to `c`, the arrays constructed so far list
   (`ParseIs`). `RunsWhatWasTyped` alone speaks only of the line that has been
   interpreted to its end. From `LinesInv` follow `LinesTypeCorrect`,
   `MemoryIsBalanced`, `OnlyEmptyIsUndefined` and `WhatIsTypedIsRun`.
4. `EveryLineIsHandled`: from the line read to the line freed each step lowers
   `StepsLeft`, a bound by the rest of the line on the steps to the next prompt.
   A command that is constructed has a word, and the scan has passed over it
   (`CommandAdvances`), so the loops of `call_new` and `command_new` end.

`SetInduction` has the induction the others rest on. The provers cannot use a
theorem that has an operator as its parameter, so induction is stated about a
set: a set of numbers that holds 0 and with each number the next one holds all,
and the same for finite subsets and one more element. What a recursive function
computes is then proved by forming the set of those arguments for which it does.

Only model-checked:

* What holds under fairness: `Termination`, `NobodyStarves`,
  `WaitpidReturns`, `StdinReadWakes`, `InputIsRead`, `InterruptEndsWait`,
  `WaitAnswered`, `PromptReturns`. Liveness from weak fairness needs ENABLED,
  which the prover does not support. What could go wrong there without any
  unfairness is proved: `NoDeadlock` for `Termination`, `TurnsComeNearer` for
  `NobodyStarves`, `InterruptsWake` for `InterruptEndsWait`, `WaitsForUnreaped`
  and `NoAnswerIsLost` for `WaitAnswered`, `PipelinesGoOn` for `PromptReturns`.
  That the conditions these speak of (`CanGoOn`, `EndOfInput`, ...) enable the
  actions they stand for is not proved, for the same reason.
* The violated runs, which are counterexamples.

All other invariants of the passing runs, and both refinements, are proved.
The formulas of the six theorems named last, and of `ChecksHold`, `NoLostUpdate`,
`NoJobIsDropped`, `ReportsTrue`, `ScannersAgree` and `EveryLineIsHandled`, are
proved and are in no run.

## Not modelled

* The boot loader: its loop over BIOS calls has no state between two rounds, and
  the byte it prints beyond each string is decided by one comparison
  (`os.c:46`). Lab 2 and `tcb.c` have no behaviour of their own, and
  `sar_prog.c` is one of the arbitrary children of the shell.
* `bj_list`, which nobody calls, and what `printPrompt` prints.
* Failures of `calloc`, `pthread_create` and `pthread_mutex_init`, which the
  code ignores or answers by ending.
* The kernel's job control of the terminal, signals other than SIGINT to the
  shell and SIGPIPE to its children, and SIGINT delivered to a child between fork
  and `setpgid`.
* Process ids given out again while a job in the list still has them: `bj_find`
  would return the older job, and nothing in `ShellJobs` would hold
  (`Available`, and the hazard at `sar_backgroundjob.c:15`).
* What `threadB` answers, the content of lines, and `atoi` of an argument of
  `wait`: an id may be anything.
* The buffers of stdio, which a child that cannot execute its program copies.

## Plan

In this order; the first ten are done.

1. `TaxAmount`, `TaxLedger`, `TaxCollectors`: exclusion, deadlock, refinement,
   and their proofs.
2. `RoundRobin`, `UserThreads`: the scheduler and every call.
3. `ShellJobs` and its safety proofs.
4. `ShellPipes`.
5. `ShellLines`: the parser against what a line means, and its memory.
6. `TestUlt`: the three threads of `test_ult.c` as user code of `UserThreads`.
7. Proofs about the sums of `TaxCollectors`, about `UserThreads` with its
   refinement, and about `TestUlt`.
8. Proofs about `ShellPipes`.
9. Proofs about `ShellLines`.
10. The safety parts of the liveness properties, and action properties from the
    same invariants: `NoDeadlock`, `TurnsComeNearer`, `InterruptsWake`,
    `WaitsForUnreaped`, `NoAnswerIsLost`, `PipelinesGoOn`, `EveryLineIsHandled`.
11. The shell as a whole: that `ShellJobs` and `ShellPipes` agree on the children
    of a call.
