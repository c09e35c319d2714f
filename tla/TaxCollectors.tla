----------------------------- MODULE TaxCollectors -----------------------------
(***************************************************************************)
(* lab5/src/tcd.c.  One thread per collector levies taxes from randomly    *)
(* drawn victims until main clears `running`.  A lock is held around the   *)
(* transaction according to the build: one mutex per collector, one mutex  *)
(* for all (-DBIGLOCK), or none (-DNOLOCK).  Every access to memory that   *)
(* another thread may touch is a step of its own, in all three builds, so  *)
(* that the exclusion is a result and not an assumption.                   *)
(***************************************************************************)
EXTENDS TaxAmount, Functions

CONSTANTS NumCollectors, \* num_collectors: argv[1] or NUM_COLLECTORS
          StartMoney,    \* start_money: argv[2] or START_AMOUNT_OF_MONEY
          Builds,        \* the builds considered: at most these three
          MaxLevies      \* bound: transactions one thread starts

INT_MAX == 2147483647

ASSUME NumCollectorsAssumption == NumCollectors \in Nat
ASSUME BuildsAssumption == Builds \subseteq {"individual", "biglock", "nolock"}
ASSUME MaxLeviesAssumption == MaxLevies \in Nat
\* An int holds all the money there is, so no sum of balances overflows.
ASSUME StartMoneyAssumption ==
  /\ StartMoney \in Int
  /\ StartMoney > 0 => StartMoney * NumCollectors <= INT_MAX

VARIABLES
  LockMode, \* the build: chosen before the program starts, then fixed
  money, levy_count, payment_count, \* fields of each Collector
  mutex,    \* owner of each mutex, Free or Destroyed
  running,  \* the flag that keeps the threads levying
  pc,       \* where each collector thread is
  selected, \* the victim a thread has drawn (itself: none)
  amount,   \* exec_transaction's local variable
  reg,      \* the machine register of a read-modify-write
  main,     \* where main is
  idx       \* main's loop counter i

shared == <<money, levy_count, payment_count>>
locals == <<selected, amount, reg>>
mains  == <<LockMode, running, main, idx>>
vars   == <<shared, mutex, locals, pc, mains>>

Collectors == 0 .. NumCollectors - 1

\* The big lock is a mutex beside those of the collectors 0 .. NumCollectors-1.
BigLock == NumCollectors
Mutexes == 0 .. NumCollectors

Free      == -1
Destroyed == -2

Labels == {"unborn", "loop", "select", "lock1", "lock2", "check", "amount",
           "take_load", "take_store", "give_load", "give_store", "levy",
           "pay_load", "pay_store", "unlock1", "unlock2", "yield", "exited"}

--------------------------------------------------------------------------------

\* Mutated form: lock in argument order, one's own mutex first.
ArgumentOrder(c1, c2) == <<c1, c2>>

\* collectors_lock: the mutex of the lower id first.
LockOrder(c1, c2) == IF c1 < c2 THEN <<c1, c2>> ELSE <<c2, c1>>

FirstMutex(c1, c2)  == IF LockMode = "biglock" THEN BigLock ELSE LockOrder(c1, c2)[1]
SecondMutex(c1, c2) == LockOrder(c1, c2)[2]

\* Mutated form: the second collector's mutex is unlocked twice.
SecondUnlocked(c1, c2) == IF LockMode = "biglock" THEN BigLock ELSE c2

\* collectors_unlock: argument order, whatever the order of locking was.
FirstUnlocked(c1, c2) == IF LockMode = "biglock" THEN BigLock ELSE c1

\* The preprocessor's choices: where control goes in this build.
AfterSelect  == IF LockMode = "nolock" THEN "check" ELSE "lock1"
AfterLock1   == IF LockMode = "individual" THEN "lock2" ELSE "check"
AfterWork    == IF LockMode = "nolock" THEN "yield" ELSE "unlock1"
AfterUnlock1 == IF LockMode = "individual" THEN "unlock2" ELSE "yield"

Goto(t, label) == pc' = [pc EXCEPT ![t] = label]

\* pthread_mutex_lock on a free mutex; on any other the thread stays blocked.
Acquire(t, m) == mutex[m] = Free /\ mutex' = [mutex EXCEPT ![m] = t]

\* pthread_mutex_unlock.
Release(m) == mutex' = [mutex EXCEPT ![m] = Free]

--------------------------------------------------------------------------------
(***************************************************************************)
(* main up to the creation of the threads: calloc, ids, money, locks.      *)
(***************************************************************************)
Init ==
  /\ LockMode \in Builds
  /\ money         = [c \in Collectors |-> StartMoney]
  /\ levy_count    = [c \in Collectors |-> 0]
  /\ payment_count = [c \in Collectors |-> 0]
  /\ mutex    = [m \in Mutexes |-> Free]
  /\ running  = TRUE
  /\ pc       = [t \in Collectors |-> "unborn"]
  /\ selected = [t \in Collectors |-> t]
  /\ amount   = [t \in Collectors |-> 0]
  /\ reg      = [t \in Collectors |-> 0]
  /\ main     = "create"
  /\ idx      = 0

--------------------------------------------------------------------------------
(***************************************************************************)
(* thread_collector.                                                       *)
(***************************************************************************)

\* while (running): the loop is entered ...
EnterLoop(t) ==
  /\ pc[t] = "loop"
  /\ running
  /\ levy_count[t] < MaxLevies
  /\ Goto(t, "select")
  /\ UNCHANGED <<shared, mutex, locals, mains>>

\* ... or left, and the thread ends.
Exit(t) ==
  /\ pc[t] = "loop"
  /\ ~running
  /\ Goto(t, "exited")
  /\ UNCHANGED <<shared, mutex, locals, mains>>

\* get_rand_collector draws with rand() % (num_collectors - 1).  With a single
\* collector that is a division by zero, and the thread has no step here.
Select(t) ==
  /\ pc[t] = "select"
  /\ \E index \in 0 .. NumCollectors - 2 :
       selected' = [selected EXCEPT ![t] = RandCollector(t, index)]
  /\ Goto(t, AfterSelect)
  /\ UNCHANGED <<shared, mutex, amount, reg, mains>>

\* Mutated form: pthread_mutex_trylock, its result ignored.
TryLock1(t) ==
  /\ pc[t] = "lock1"
  /\ \/ Acquire(t, FirstMutex(t, selected[t]))
     \/ mutex[FirstMutex(t, selected[t])] # Free /\ UNCHANGED mutex
  /\ Goto(t, AfterLock1)
  /\ UNCHANGED <<shared, locals, mains>>

Lock1(t) ==
  /\ pc[t] = "lock1"
  /\ Acquire(t, FirstMutex(t, selected[t]))
  /\ Goto(t, AfterLock1)
  /\ UNCHANGED <<shared, locals, mains>>

Lock2(t) ==
  /\ pc[t] = "lock2"
  /\ Acquire(t, SecondMutex(t, selected[t]))
  /\ Goto(t, "check")
  /\ UNCHANGED <<shared, locals, mains>>

\* Mutated form: the victim's solvency is not checked.
CheckNothing(t) ==
  /\ pc[t] = "check"
  /\ Goto(t, "amount")
  /\ UNCHANGED <<shared, mutex, locals, mains>>

\* if (selected->money >= 100)
Check(t) ==
  /\ pc[t] = "check"
  /\ Goto(t, IF money[selected[t]] >= 100 THEN "amount" ELSE AfterWork)
  /\ UNCHANGED <<shared, mutex, locals, mains>>

--------------------------------------------------------------------------------
(***************************************************************************)
(* exec_transaction, one access to a field of a Collector at a time.       *)
(***************************************************************************)
Amount(t) ==
  /\ pc[t] = "amount"
  /\ amount' = [amount EXCEPT ![t] = LevyAmount(money[selected[t]])]
  /\ Goto(t, "take_load")
  /\ UNCHANGED <<shared, mutex, selected, reg, mains>>

\* collector->money += amount
TakeLoad(t) ==
  /\ pc[t] = "take_load"
  /\ reg' = [reg EXCEPT ![t] = money[t]]
  /\ Goto(t, "take_store")
  /\ UNCHANGED <<shared, mutex, selected, amount, mains>>

TakeStore(t) ==
  /\ pc[t] = "take_store"
  /\ money' = [money EXCEPT ![t] = reg[t] + amount[t]]
  /\ Goto(t, "give_load")
  /\ UNCHANGED <<levy_count, payment_count, mutex, locals, mains>>

\* victim->money -= amount
GiveLoad(t) ==
  /\ pc[t] = "give_load"
  /\ reg' = [reg EXCEPT ![t] = money[selected[t]]]
  /\ Goto(t, "give_store")
  /\ UNCHANGED <<shared, mutex, selected, amount, mains>>

\* Mutated form: the victim keeps its money.
GiveStoreNothing(t) ==
  /\ pc[t] = "give_store"
  /\ Goto(t, "levy")
  /\ UNCHANGED <<shared, mutex, locals, mains>>

GiveStore(t) ==
  /\ pc[t] = "give_store"
  /\ money' = [money EXCEPT ![selected[t]] = reg[t] - amount[t]]
  /\ Goto(t, "levy")
  /\ UNCHANGED <<levy_count, payment_count, mutex, locals, mains>>

\* Mutated form: the levy is counted for the victim.
CountLevyForVictim(t) ==
  /\ pc[t] = "levy"
  /\ levy_count' = [levy_count EXCEPT ![selected[t]] = @ + 1]
  /\ Goto(t, "pay_load")
  /\ UNCHANGED <<money, payment_count, mutex, locals, mains>>

\* Mutated form: the counter is decremented.
CountLevyDown(t) ==
  /\ pc[t] = "levy"
  /\ levy_count' = [levy_count EXCEPT ![t] = @ - 1]
  /\ Goto(t, "pay_load")
  /\ UNCHANGED <<money, payment_count, mutex, locals, mains>>

\* ++collector->levy_count: no other thread ever accesses this field.
CountLevy(t) ==
  /\ pc[t] = "levy"
  /\ levy_count' = [levy_count EXCEPT ![t] = @ + 1]
  /\ Goto(t, "pay_load")
  /\ UNCHANGED <<money, payment_count, mutex, locals, mains>>

\* ++victim->payment_count
PayLoad(t) ==
  /\ pc[t] = "pay_load"
  /\ reg' = [reg EXCEPT ![t] = payment_count[selected[t]]]
  /\ Goto(t, "pay_store")
  /\ UNCHANGED <<shared, mutex, selected, amount, mains>>

\* Mutated form: a payment is counted twice.
PayStoreTwice(t) ==
  /\ pc[t] = "pay_store"
  /\ payment_count' = [payment_count EXCEPT ![selected[t]] = reg[t] + 2]
  /\ amount' = [amount EXCEPT ![t] = 0]
  /\ reg'    = [reg EXCEPT ![t] = 0]
  /\ Goto(t, AfterWork)
  /\ UNCHANGED <<money, levy_count, mutex, selected, mains>>

\* Its store is the last access of the transaction; the locals go out of scope.
PayStore(t) ==
  /\ pc[t] = "pay_store"
  /\ payment_count' = [payment_count EXCEPT ![selected[t]] = reg[t] + 1]
  /\ amount' = [amount EXCEPT ![t] = 0]
  /\ reg'    = [reg EXCEPT ![t] = 0]
  /\ Goto(t, AfterWork)
  /\ UNCHANGED <<money, levy_count, mutex, selected, mains>>

--------------------------------------------------------------------------------

Unlock1(t) ==
  /\ pc[t] = "unlock1"
  /\ Release(FirstUnlocked(t, selected[t]))
  /\ Goto(t, AfterUnlock1)
  /\ UNCHANGED <<shared, locals, mains>>

Unlock2(t) ==
  /\ pc[t] = "unlock2"
  /\ Release(selected[t])
  /\ Goto(t, "yield")
  /\ UNCHANGED <<shared, locals, mains>>

\* sched_yield; the iteration's `selected` goes out of scope.
Yield(t) ==
  /\ pc[t] = "yield"
  /\ selected' = [selected EXCEPT ![t] = t]
  /\ Goto(t, "loop")
  /\ UNCHANGED <<shared, mutex, amount, reg, mains>>

Thread(t) ==
  \/ EnterLoop(t) \/ Exit(t)      \/ Select(t)
  \/ Lock1(t)     \/ Lock2(t)     \/ Check(t)
  \/ Amount(t)    \/ TakeLoad(t)  \/ TakeStore(t) \/ GiveLoad(t) \/ GiveStore(t)
  \/ CountLevy(t) \/ PayLoad(t)   \/ PayStore(t)
  \/ Unlock1(t)   \/ Unlock2(t)   \/ Yield(t)

--------------------------------------------------------------------------------
(***************************************************************************)
(* main from the creation of the threads on.                               *)
(***************************************************************************)

\* pthread_create(&collectors[i].thread, ...)
CreateThread ==
  /\ main = "create" /\ idx < NumCollectors
  /\ Goto(idx, "loop")
  /\ idx' = idx + 1
  /\ UNCHANGED <<shared, mutex, locals, running, main, LockMode>>

\* Mutated form: the flag is not cleared.
StopNothing ==
  /\ main = "create" /\ idx = NumCollectors
  /\ main' = "join" /\ idx' = 0
  /\ UNCHANGED <<shared, mutex, locals, pc, running, LockMode>>

\* sleep(1); running = false.  When the second ends is left open.
StopThreads ==
  /\ main = "create" /\ idx = NumCollectors
  /\ running' = FALSE
  /\ main' = "join" /\ idx' = 0
  /\ UNCHANGED <<shared, mutex, locals, pc, LockMode>>

\* Mutated form: main does not wait for the thread.
JoinNothing ==
  /\ main = "join" /\ idx < NumCollectors
  /\ idx' = idx + 1
  /\ UNCHANGED <<shared, mutex, locals, pc, running, main, LockMode>>

\* pthread_join(collectors[i].thread, NULL)
JoinThread ==
  /\ main = "join" /\ idx < NumCollectors
  /\ pc[idx] = "exited"
  /\ idx' = idx + 1
  /\ UNCHANGED <<shared, mutex, locals, pc, running, main, LockMode>>

\* All joined: main goes on to the statistics ...
AllJoined ==
  /\ main = "join" /\ idx = NumCollectors
  /\ main' = "print"
  /\ UNCHANGED <<shared, mutex, locals, pc, running, idx, LockMode>>

\* ... reads every collector's fields and prints the totals ...
PrintStatistics ==
  /\ main = "print"
  /\ main' = "destroy"
  /\ UNCHANGED <<shared, mutex, locals, pc, running, idx, LockMode>>

\* ... and destroys the mutexes this build has.
DestroyLocks ==
  /\ main = "destroy"
  /\ mutex' = [m \in Mutexes |->
                 CASE LockMode = "individual" -> IF m = BigLock THEN Free ELSE Destroyed
                   [] LockMode = "biglock"    -> IF m = BigLock THEN Destroyed ELSE Free
                   [] OTHER                   -> Free]
  /\ main' = "done"
  /\ UNCHANGED <<shared, locals, pc, running, idx, LockMode>>

Main == \/ CreateThread \/ StopThreads \/ JoinThread \/ AllJoined
        \/ PrintStatistics \/ DestroyLocks

\* The process has ended.
Terminated == main = "done" /\ UNCHANGED vars

Next == \/ \E t \in Collectors : Thread(t)
        \/ Main
        \/ Terminated

Spec == Init /\ [][Next]_vars

\* The kernel schedules every thread that can run, and the second passes.
FairSpec == /\ Spec
            /\ \A t \in Collectors : WF_vars(Thread(t))
            /\ WF_vars(Main)

--------------------------------------------------------------------------------
(***************************************************************************)
(* Properties.                                                             *)
(***************************************************************************)

\* Between collectors_lock and collectors_unlock.
Critical == {"check", "amount", "take_load", "take_store", "give_load",
             "give_store", "levy", "pay_load", "pay_store"}

\* The collector's money is in, the victim's not yet out.
HalfDone == {"give_load", "give_store"}

TypeOK ==
  /\ LockMode      \in Builds
  /\ money         \in [Collectors -> Int]
  /\ levy_count    \in [Collectors -> Nat]
  /\ payment_count \in [Collectors -> Nat]
  /\ mutex    \in [Mutexes -> Collectors \cup {Free, Destroyed}]
  /\ running  \in BOOLEAN
  /\ pc       \in [Collectors -> Labels]
  /\ selected \in [Collectors -> Collectors]
  /\ amount   \in [Collectors -> Int]
  /\ reg      \in [Collectors -> Int]
  /\ \A t \in Collectors : pc[t] = "pay_store" => reg[t] \in Nat
  /\ main     \in {"create", "join", "print", "destroy", "done"}
  /\ idx      \in 0 .. NumCollectors

\* Two threads are never both inside a transaction when one of the two
\* collectors of one is also a collector of the other: what collectors_lock is
\* there for (the NOLOCK build gives it up, and with it what is built on it).
ExclusiveAccess ==
  LockMode # "nolock" =>
    \A t, u \in Collectors :
      (t # u /\ pc[t] \in Critical /\ pc[u] \in Critical)
        => {t, selected[t]} \cap {u, selected[u]} = {}

\* Where thread t stands says whether it holds mutex m.
Holds(t, m) ==
  \/ /\ LockMode = "individual"
     /\ \/ pc[t] = "lock2" /\ m = FirstMutex(t, selected[t])
        \/ pc[t] \in Critical \cup {"unlock1"} /\ m \in {t, selected[t]}
        \/ pc[t] = "unlock2" /\ m = selected[t]
  \/ /\ LockMode = "biglock"
     /\ pc[t] \in Critical \cup {"unlock1"} /\ m = BigLock

\* No mutex is leaked, released by a thread that does not hold it, or still
\* held by a thread that goes round the loop: the orders in which
\* collectors_lock takes and collectors_unlock gives back may differ.
LockDiscipline ==
  \A t \in Collectors, m \in Mutexes : mutex[m] = t <=> Holds(t, m)

\* t is blocked in, or about to call, pthread_mutex_lock on m.
WaitsFor(t, m) ==
  \/ pc[t] = "lock1" /\ m = FirstMutex(t, selected[t])
  \/ pc[t] = "lock2" /\ m = SecondMutex(t, selected[t])

\* A thread whose mutex another thread holds only ever waits below it: along
\* any chain of waiting threads the mutexes increase, so no chain closes.  This
\* is the deadlock the order in collectors_lock prevents.
NoCircularWait ==
  \A t, u \in Collectors : \A m, k \in Mutexes :
    (WaitsFor(t, m) /\ mutex[m] = u /\ WaitsFor(u, k)) => m < k

\* The solvency check of thread_collector is not stale when exec_transaction
\* acts on it: until the victim has paid it still has what was checked, and the
\* amount is the one its money calls for.
CheckStillHolds ==
  LockMode # "nolock" =>
    \A t \in Collectors :
      /\ pc[t] \in {"amount", "take_load", "take_store"} \cup HalfDone
           => money[selected[t]] >= 100
      /\ pc[t] \in {"take_load", "take_store"} \cup HalfDone
           => amount[t] = LevyAmount(money[selected[t]])

\* Rounding the amount up never makes a collector pay more than it has.
Solvent ==
  LockMode # "nolock" /\ StartMoney >= 0 => \A c \in Collectors : money[c] >= 0

\* No money appears or disappears, except what a thread in the middle of a
\* transaction has already added and not yet subtracted.
MoneyConserved ==
  LockMode # "nolock" =>
    SumFunction(money) = NumCollectors * StartMoney
      + SumFunctionOnSet(amount, {t \in Collectors : pc[t] \in HalfDone})

\* What print_statictics reports in a build that locks: the money the program
\* started with, and as many payments as levies.
StatisticsExact ==
  LockMode # "nolock" /\ main = "print" =>
    /\ SumFunction(money) = NumCollectors * StartMoney
    /\ SumFunction(levy_count) = SumFunction(payment_count)

\* In any build, the NOLOCK one included, a late store can only hide payments:
\* the totals printed never show more payments than levies.  That an increment
\* is lost without locks is not excluded; with locks StatisticsExact does.
PaymentsNeverExceedLevies ==
  main = "print" => SumFunction(payment_count) <= SumFunction(levy_count)

\* When main reads the collectors, destroys the locks and frees the memory no
\* thread is left and no mutex is held.
QuietTeardown ==
  main \in {"print", "destroy", "done"} =>
    /\ \A t \in Collectors : pc[t] = "exited"
    /\ \A m \in Mutexes : mutex[m] \notin Collectors

\* No update is lost: when a read-modify-write stores, its register still holds
\* what is in memory.
RegisterFresh ==
  LockMode # "nolock" =>
    \A t \in Collectors :
      /\ pc[t] = "take_store" => reg[t] = money[t]
      /\ pc[t] = "give_store" => reg[t] = money[selected[t]]
      /\ pc[t] = "pay_store"  => reg[t] = payment_count[selected[t]]

\* The program ends: no thread is stuck behind a mutex when main joins it.
Termination == <>(main = "done")

\* A transaction takes place when the victim's money is written back.  Until
\* then the collector's is seen without the amount; from then on both counters
\* are seen incremented.
LedgerBalance ==
  [c \in Collectors |-> money[c] - IF pc[c] \in HalfDone THEN amount[c] ELSE 0]
LedgerLevies ==
  [c \in Collectors |-> levy_count[c] + IF pc[c] = "levy" THEN 1 ELSE 0]
PaymentDue(c) ==
  \E t \in Collectors : selected[t] = c /\ pc[t] \in {"levy", "pay_load", "pay_store"}
LedgerPayments ==
  [c \in Collectors |-> payment_count[c] + IF PaymentDue(c) THEN 1 ELSE 0]

Ledger == INSTANCE TaxLedger WITH
  balance <- LedgerBalance, levies <- LedgerLevies, payments <- LedgerPayments

\* With either kind of lock the program implements the atomic ledger.
LedgerRefinement == Ledger!Spec
================================================================================
