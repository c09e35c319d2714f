-------------------------- MODULE TaxCollectorsProofs --------------------------
(***************************************************************************)
(* What holds of the tax collectors for any number of collectors, any      *)
(* start money and any number of transactions.  In the two builds that     *)
(* lock, mutual exclusion follows from LockDiscipline: a thread's place in *)
(* the program says which mutexes it owns.  From mutual exclusion follow   *)
(* the freshness of what a thread has read, and with it the refinement of  *)
(* the atomic ledger.                                                      *)
(***************************************************************************)
EXTENDS TaxCollectors, SetInduction, TLAPS

\* Control is where this build can be, and has drawn another collector there.
ControlConsistent ==
  \A t \in Collectors :
    /\ pc[t] \notin {"unborn", "loop", "select", "exited"} => selected[t] # t
    /\ pc[t] \in {"lock1", "unlock1"} => LockMode # "nolock"
    /\ pc[t] \in {"lock2", "unlock2"} => LockMode = "individual"
    /\ pc[t] \in Labels \ {"unborn", "loop", "exited", "pay_load", "pay_store",
                           "unlock1", "unlock2", "yield"}
         => levy_count[t] < MaxLevies

\* main has created the threads below idx, or joined them.
MainConsistent ==
  /\ main = "create" => \A t \in idx .. NumCollectors - 1 : pc[t] = "unborn"
  /\ main = "join"   => \A t \in 0 .. idx - 1 : pc[t] = "exited"
  /\ main \in {"print", "destroy", "done"} => \A t \in Collectors : pc[t] = "exited"

(***************************************************************************)
(* The two computations.                                                   *)
(***************************************************************************)

\* The amount levied is half of the victim's money rounded up to a full
\* hundred, whatever the victim has.
THEOREM AmountIsRoundedHalf == \A m \in Nat : IsRoundedHalf(LevyAmount(m), m)
  BY DEF IsRoundedHalf, LevyAmount, CDiv

\* A victim that passed the check of thread_collector can pay the amount.
LEMMA AmountPayable ==
  \A m \in Int : LevyAmount(m) \in Int /\ (m >= 100 => LevyAmount(m) \in 100 .. m)
  BY DEF LevyAmount, CDiv

\* get_rand_collector never returns its argument or an index out of range.
LEMMA OtherCollector ==
  \A t \in Collectors, index \in 0 .. NumCollectors - 2 :
    RandCollector(t, index) \in Collectors \ {t}
  BY NumCollectorsAssumption DEF RandCollector, Collectors

--------------------------------------------------------------------------------
(***************************************************************************)
(* Type correctness, in every build.                                       *)
(***************************************************************************)

LEMMA TypeInit == Init => TypeOK
  BY StartMoneyAssumption, NumCollectorsAssumption
     DEF Init, TypeOK, Collectors, Mutexes, Labels

LEMMA TypeStep == TypeOK /\ [Next]_vars => TypeOK'
<1> SUFFICES ASSUME TypeOK, [Next]_vars PROVE TypeOK'
  OBVIOUS
<1> USE NumCollectorsAssumption, BuildsAssumption
    DEF TypeOK, Labels, Goto, vars, shared, locals, mains
<1>1. ASSUME NEW t \in Collectors, Thread(t) PROVE TypeOK'
  <2>1. CASE EnterLoop(t)
    BY <2>1 DEF EnterLoop
  <2>2. CASE Exit(t)
    BY <2>2 DEF Exit
  <2>3. CASE Select(t)
    BY <2>3, OtherCollector DEF Select, AfterSelect
  <2>4. CASE Lock1(t)
    BY <2>4 DEF Lock1, Acquire, AfterLock1
  <2>5. CASE Lock2(t)
    BY <2>5 DEF Lock2, Acquire
  <2>6. CASE Check(t)
    BY <2>6 DEF Check, AfterWork
  <2>7. CASE Amount(t)
    BY <2>7, AmountPayable DEF Amount
  <2>8. CASE TakeLoad(t)
    BY <2>8 DEF TakeLoad
  <2>9. CASE TakeStore(t)
    BY <2>9 DEF TakeStore
  <2>10. CASE GiveLoad(t)
    BY <2>10 DEF GiveLoad
  <2>11. CASE GiveStore(t)
    BY <2>11 DEF GiveStore
  <2>12. CASE CountLevy(t)
    BY <2>12 DEF CountLevy
  <2>13. CASE PayLoad(t)
    BY <2>13 DEF PayLoad
  <2>14. CASE PayStore(t)
    <3>1. pc' \in [Collectors -> Labels]
      BY <2>14 DEF PayStore, AfterWork
    <3>2. payment_count' \in [Collectors -> Nat]
      BY <2>14 DEF PayStore
    <3> QED
      BY <2>14, <3>1, <3>2 DEF PayStore
  <2>15. CASE Unlock1(t)
    BY <2>15 DEF Unlock1, Release, AfterUnlock1
  <2>16. CASE Unlock2(t)
    BY <2>16 DEF Unlock2, Release
  <2>17. CASE Yield(t)
    BY <2>17 DEF Yield
  <2> QED
    BY <1>1, <2>1, <2>2, <2>3, <2>4, <2>5, <2>6, <2>7, <2>8, <2>9, <2>10, <2>11, <2>12, <2>13, <2>14, <2>15, <2>16, <2>17 DEF Thread
<1>2. ASSUME Main PROVE TypeOK'
  <2>1. CASE CreateThread
    <3>1. idx' \in 0 .. NumCollectors
      BY <2>1 DEF CreateThread
    <3>2. pc' \in [Collectors -> Labels]
      BY <2>1 DEF CreateThread
    <3> QED
      BY <2>1, <3>1, <3>2 DEF CreateThread
  <2>2. CASE StopThreads
    <3>1. running' \in BOOLEAN
      BY <2>2, Zenon DEF StopThreads
    <3> QED
      BY <2>2, <3>1 DEF StopThreads
  <2>3. CASE JoinThread
    BY <2>3 DEF JoinThread
  <2>4. CASE AllJoined
    BY <2>4 DEF AllJoined
  <2>5. CASE PrintStatistics
    BY <2>5 DEF PrintStatistics
  <2>6. CASE DestroyLocks
    BY <2>6 DEF DestroyLocks
  <2> QED
    BY <1>2, <2>1, <2>2, <2>3, <2>4, <2>5, <2>6 DEF Main
<1>3. CASE UNCHANGED vars
  BY <1>3
<1> QED
  BY <1>1, <1>2, <1>3 DEF Next, Terminated

\* Every variable keeps its type in every build.
THEOREM TypeCorrect == Spec => []TypeOK
  BY TypeInit, TypeStep, PTL DEF Spec

--------------------------------------------------------------------------------
(***************************************************************************)
(* Who holds which mutex.                                                  *)
(***************************************************************************)

\* A thread's step leaves main and the other threads where they are.
LEMMA ThreadFrame ==
  ASSUME TypeOK, NEW t \in Collectors, Thread(t)
  PROVE  /\ pc[t] \notin {"unborn", "exited"}
         /\ UNCHANGED mains
         /\ \A u \in Collectors \ {t} :
              /\ pc'[u] = pc[u]         /\ selected'[u] = selected[u]
              /\ amount'[u] = amount[u] /\ reg'[u] = reg[u]
<1> USE DEF TypeOK, Goto, shared, locals, mains
<1>1. CASE EnterLoop(t)
  BY <1>1 DEF EnterLoop
<1>2. CASE Exit(t)
  BY <1>2 DEF Exit
<1>3. CASE Select(t)
  BY <1>3 DEF Select
<1>4. CASE Lock1(t)
  BY <1>4 DEF Lock1
<1>5. CASE Lock2(t)
  BY <1>5 DEF Lock2
<1>6. CASE Check(t)
  BY <1>6 DEF Check
<1>7. CASE Amount(t)
  BY <1>7 DEF Amount
<1>8. CASE TakeLoad(t)
  BY <1>8 DEF TakeLoad
<1>9. CASE TakeStore(t)
  BY <1>9 DEF TakeStore
<1>10. CASE GiveLoad(t)
  BY <1>10 DEF GiveLoad
<1>11. CASE GiveStore(t)
  BY <1>11 DEF GiveStore
<1>12. CASE CountLevy(t)
  BY <1>12 DEF CountLevy
<1>13. CASE PayLoad(t)
  BY <1>13 DEF PayLoad
<1>14. CASE PayStore(t)
  BY <1>14 DEF PayStore
<1>15. CASE Unlock1(t)
  BY <1>15 DEF Unlock1
<1>16. CASE Unlock2(t)
  BY <1>16 DEF Unlock2
<1>17. CASE Yield(t)
  BY <1>17 DEF Yield
<1> QED
  BY <1>1, <1>2, <1>3, <1>4, <1>5, <1>6, <1>7, <1>8, <1>9, <1>10, <1>11, <1>12, <1>13, <1>14, <1>15, <1>16, <1>17 DEF Thread

LEMMA ControlStep ==
  TypeOK /\ ControlConsistent /\ [Next]_vars => ControlConsistent'
<1> SUFFICES ASSUME TypeOK /\ ControlConsistent, [Next]_vars PROVE ControlConsistent'
  OBVIOUS
<1> USE NumCollectorsAssumption, BuildsAssumption
    DEF TypeOK, ControlConsistent, Labels, Goto, vars, shared, locals, mains
<1>1. ASSUME NEW t \in Collectors, Thread(t) PROVE ControlConsistent'
  <2>1. CASE EnterLoop(t)
    BY <2>1 DEF EnterLoop
  <2>2. CASE Exit(t)
    BY <2>2 DEF Exit
  <2>3. CASE Select(t)
    BY <2>3, OtherCollector DEF Select, AfterSelect
  <2>4. CASE Lock1(t)
    BY <2>4 DEF Lock1, AfterLock1
  <2>5. CASE Lock2(t)
    BY <2>5 DEF Lock2
  <2>6. CASE Check(t)
    BY <2>6 DEF Check, AfterWork
  <2>7. CASE Amount(t)
    BY <2>7 DEF Amount
  <2>8. CASE TakeLoad(t)
    BY <2>8 DEF TakeLoad
  <2>9. CASE TakeStore(t)
    BY <2>9 DEF TakeStore
  <2>10. CASE GiveLoad(t)
    BY <2>10 DEF GiveLoad
  <2>11. CASE GiveStore(t)
    BY <2>11 DEF GiveStore
  <2>12. CASE CountLevy(t)
    BY <2>12 DEF CountLevy
  <2>13. CASE PayLoad(t)
    BY <2>13 DEF PayLoad
  <2>14. CASE PayStore(t)
    BY <2>14 DEF PayStore, AfterWork
  <2>15. CASE Unlock1(t)
    BY <2>15 DEF Unlock1, AfterUnlock1
  <2>16. CASE Unlock2(t)
    BY <2>16 DEF Unlock2
  <2>17. CASE Yield(t)
    BY <2>17 DEF Yield
  <2> QED
    BY <1>1, <2>1, <2>2, <2>3, <2>4, <2>5, <2>6, <2>7, <2>8, <2>9, <2>10, <2>11, <2>12, <2>13, <2>14, <2>15, <2>16, <2>17 DEF Thread
<1>2. ASSUME Main PROVE ControlConsistent'
  <2>1. CASE CreateThread
    BY <2>1 DEF CreateThread
  <2>2. CASE StopThreads
    BY <2>2 DEF StopThreads
  <2>3. CASE JoinThread
    BY <2>3 DEF JoinThread
  <2>4. CASE AllJoined
    BY <2>4 DEF AllJoined
  <2>5. CASE PrintStatistics
    BY <2>5 DEF PrintStatistics
  <2>6. CASE DestroyLocks
    BY <2>6 DEF DestroyLocks
  <2> QED
    BY <1>2, <2>1, <2>2, <2>3, <2>4, <2>5, <2>6 DEF Main
<1>3. CASE UNCHANGED vars
  BY <1>3
<1> QED
  BY <1>1, <1>2, <1>3 DEF Next, Terminated

LEMMA MainStep ==
  TypeOK /\ MainConsistent /\ [Next]_vars => MainConsistent'
<1> SUFFICES ASSUME TypeOK, MainConsistent, [Next]_vars PROVE MainConsistent'
  OBVIOUS
<1>1. ASSUME NEW t \in Collectors, Thread(t) PROVE MainConsistent'
  <2>1. \A u \in Collectors : pc[u] \in {"unborn", "exited"} => pc'[u] = pc[u]
    BY <1>1, ThreadFrame
  <2>2. UNCHANGED <<main, idx>>
    BY <1>1, ThreadFrame DEF mains
  <2>3. idx .. NumCollectors - 1 \subseteq Collectors /\ 0 .. idx - 1 \subseteq Collectors
    BY NumCollectorsAssumption DEF TypeOK, Collectors
  <2> QED
    BY <2>1, <2>2, <2>3 DEF MainConsistent
<1>2. ASSUME Main PROVE MainConsistent'
  <2> USE NumCollectorsAssumption DEF TypeOK, MainConsistent
  <2>1. CASE CreateThread
    <3>1. idx \in Collectors /\ \A u \in Collectors \ {idx} : pc'[u] = pc[u]
      BY <2>1 DEF CreateThread, Goto, Collectors
    <3>2. main = "create" /\ main' = "create" /\ idx' = idx + 1
      BY <2>1 DEF CreateThread
    <3>3. \A u \in idx' .. NumCollectors - 1 : u \in Collectors \ {idx} /\ u \in idx .. NumCollectors - 1
      BY <3>1, <3>2 DEF Collectors
    <3> QED
      BY <3>1, <3>2, <3>3
  <2>2. CASE StopThreads
    BY <2>2 DEF StopThreads
  <2>3. CASE JoinThread
    BY <2>3 DEF JoinThread
  <2>4. CASE AllJoined
    BY <2>4 DEF AllJoined, Collectors
  <2>5. CASE PrintStatistics
    BY <2>5 DEF PrintStatistics
  <2>6. CASE DestroyLocks
    BY <2>6 DEF DestroyLocks
  <2> QED
    BY <1>2, <2>1, <2>2, <2>3, <2>4, <2>5, <2>6 DEF Main
<1>3. CASE UNCHANGED vars
  BY <1>3 DEF MainConsistent, vars, mains
<1> QED
  BY <1>1, <1>2, <1>3 DEF Next, Terminated

LockInv == TypeOK /\ ControlConsistent /\ MainConsistent /\ LockDiscipline

\* A thread takes a mutex only when it is free, and frees only its own: what
\* the other threads hold does not change.
LEMMA OthersKeepMutexes ==
  ASSUME LockInv, NEW t \in Collectors, Thread(t),
         NEW u \in Collectors \ {t}, NEW m \in Mutexes
  PROVE  mutex'[m] = u <=> mutex[m] = u
<1> USE DEF TypeOK, LockInv
<1>a. pc[t] = "unlock1" => mutex[FirstUnlocked(t, selected[t])] = t
  <2>1. CASE LockMode = "individual"
    BY <2>1, NumCollectorsAssumption DEF LockDiscipline, Holds, FirstUnlocked, Mutexes, Collectors
  <2>2. CASE LockMode = "biglock"
    BY <2>2, NumCollectorsAssumption DEF LockDiscipline, Holds, FirstUnlocked, BigLock, Mutexes
  <2> QED
    BY <2>1, <2>2, BuildsAssumption DEF ControlConsistent
<1>b. pc[t] = "unlock2" => mutex[selected[t]] = t
  BY NumCollectorsAssumption
     DEF LockDiscipline, ControlConsistent, Holds, Mutexes, Collectors
<1>1. CASE EnterLoop(t)
  BY <1>1 DEF EnterLoop
<1>2. CASE Exit(t)
  BY <1>2 DEF Exit, shared
<1>3. CASE Select(t)
  BY <1>3 DEF Select, shared
<1>4. CASE Lock1(t)
  BY <1>4 DEF Lock1, Acquire, Free, Collectors
<1>5. CASE Lock2(t)
  BY <1>5 DEF Lock2, Acquire, Free, Collectors
<1>6. CASE Check(t)
  BY <1>6 DEF Check, shared
<1>7. CASE Amount(t)
  BY <1>7 DEF Amount, shared
<1>8. CASE TakeLoad(t)
  BY <1>8 DEF TakeLoad, shared
<1>9. CASE TakeStore(t)
  BY <1>9 DEF TakeStore, shared
<1>10. CASE GiveLoad(t)
  BY <1>10 DEF GiveLoad, shared
<1>11. CASE GiveStore(t)
  BY <1>11 DEF GiveStore, shared
<1>12. CASE CountLevy(t)
  BY <1>12 DEF CountLevy, shared
<1>13. CASE PayLoad(t)
  BY <1>13 DEF PayLoad, shared
<1>14. CASE PayStore(t)
  BY <1>14 DEF PayStore, shared
<1>15. CASE Unlock1(t)
  BY <1>15, <1>a DEF Unlock1, Release, Free, Collectors
<1>16. CASE Unlock2(t)
  BY <1>16, <1>b DEF Unlock2, Release, Free, Collectors
<1>17. CASE Yield(t)
  BY <1>17 DEF Yield, shared
<1> QED
  BY <1>1, <1>2, <1>3, <1>4, <1>5, <1>6, <1>7, <1>8, <1>9, <1>10, <1>11, <1>12, <1>13, <1>14, <1>15, <1>16, <1>17 DEF Thread

\* The build is chosen once.
LEMMA BuildFixed == [Next]_vars => LockMode' = LockMode
  BY DEF Next, Terminated, vars, mains, Thread, EnterLoop, Exit, Select, Lock1,
         Lock2, Check, Amount, TakeLoad, TakeStore, GiveLoad, GiveStore, CountLevy,
         PayLoad, PayStore, Unlock1, Unlock2, Yield, Main, CreateThread, StopThreads,
         JoinThread, AllJoined, PrintStatistics, DestroyLocks

LEMMA MutexIds ==
  /\ BigLock \in Mutexes
  /\ \A t \in Collectors : t \in Mutexes /\ t # BigLock /\ t # Free
  BY NumCollectorsAssumption DEF BigLock, Mutexes, Collectors, Free

\* The mutexes of a thread that takes a step are those of its next place.
LEMMA OwnMutexes ==
  ASSUME LockInv, NEW t \in Collectors, Thread(t), NEW m \in Mutexes
  PROVE  mutex'[m] = t <=> Holds(t, m)'
<1>0. mutex[m] = t <=> Holds(t, m)
  BY DEF LockInv, LockDiscipline
<1>b. LockMode' = LockMode
  BY BuildFixed DEF Next
<1> USE <1>0, <1>b, BuildsAssumption, NumCollectorsAssumption
    DEF LockInv, TypeOK, ControlConsistent, Labels, Goto, Holds, Critical, locals
<1>1. CASE EnterLoop(t)
  BY <1>1 DEF EnterLoop
<1>2. CASE Exit(t)
  BY <1>2 DEF Exit
<1>3. CASE Select(t)
  BY <1>3, OtherCollector DEF Select, AfterSelect
<1>4. CASE Lock1(t)
  BY <1>4 DEF Lock1, Acquire, AfterLock1, FirstMutex, LockOrder, Mutexes, Collectors, Free, BigLock
<1>5. CASE Lock2(t)
  BY <1>5 DEF Lock2, Acquire, FirstMutex, SecondMutex, LockOrder, Mutexes, Collectors, Free, BigLock
<1>6. CASE Check(t)
  BY <1>6 DEF Check, AfterWork
<1>7. CASE Amount(t)
  BY <1>7 DEF Amount
<1>8. CASE TakeLoad(t)
  BY <1>8 DEF TakeLoad
<1>9. CASE TakeStore(t)
  BY <1>9 DEF TakeStore
<1>10. CASE GiveLoad(t)
  BY <1>10 DEF GiveLoad
<1>11. CASE GiveStore(t)
  BY <1>11 DEF GiveStore
<1>12. CASE CountLevy(t)
  BY <1>12 DEF CountLevy
<1>13. CASE PayLoad(t)
  BY <1>13 DEF PayLoad
<1>14. CASE PayStore(t)
  BY <1>14 DEF PayStore, AfterWork
<1>15. CASE Unlock1(t)
  <2>1. t \in Mutexes /\ selected[t] \in Mutexes /\ BigLock \in Mutexes /\ t # Free /\ BigLock # t
    BY MutexIds
  <2>2. pc'[t] = AfterUnlock1 /\ pc[t] = "unlock1" /\ selected' = selected /\ selected[t] # t
    BY <1>15 DEF Unlock1
  <2>3. mutex' = [mutex EXCEPT ![FirstUnlocked(t, selected[t])] = Free]
    BY <1>15 DEF Unlock1, Release
  <2>4. CASE LockMode = "individual"
    BY <2>1, <2>2, <2>3, <2>4 DEF AfterUnlock1, FirstUnlocked
  <2>5. CASE LockMode = "biglock"
    BY <2>1, <2>2, <2>3, <2>5 DEF AfterUnlock1, FirstUnlocked
  <2> QED
    BY <2>2, <2>4, <2>5
<1>16. CASE Unlock2(t)
  <2>1. t # Free /\ selected[t] \in Mutexes
    BY MutexIds
  <2>2. mutex' = [mutex EXCEPT ![selected[t]] = Free] /\ LockMode = "individual"
    BY <1>16 DEF Unlock2, Release
  <2> QED
    BY <1>16, <2>1, <2>2 DEF Unlock2
<1>17. CASE Yield(t)
  BY <1>17 DEF Yield
<1> QED
  BY <1>1, <1>2, <1>3, <1>4, <1>5, <1>6, <1>7, <1>8, <1>9, <1>10, <1>11, <1>12, <1>13, <1>14, <1>15, <1>16, <1>17 DEF Thread

LEMMA LockStep ==
  LockInv /\ [Next]_vars => LockDiscipline'
<1> SUFFICES ASSUME LockInv, [Next]_vars, NEW u \in Collectors, NEW m \in Mutexes
             PROVE  (mutex[m] = u <=> Holds(u, m))'
  BY DEF LockDiscipline
<1>0. /\ mutex[m] = u <=> Holds(u, m)
      /\ LockMode' = LockMode
  BY BuildFixed DEF LockInv, LockDiscipline
<1>1. ASSUME NEW t \in Collectors, Thread(t) PROVE (mutex[m] = u <=> Holds(u, m))'
  <2>1. CASE u = t
    BY <1>1, <2>1, OwnMutexes
  <2>2. CASE u # t
    <3>1. mutex'[m] = u <=> mutex[m] = u
      BY <1>1, <2>2, OthersKeepMutexes
    <3>2. pc'[u] = pc[u] /\ selected'[u] = selected[u]
      BY <1>1, <2>2, ThreadFrame DEF LockInv
    <3> QED
      BY <1>0, <3>1, <3>2 DEF Holds, FirstMutex, LockOrder
  <2> QED
    BY <2>1, <2>2
<1>2. ASSUME Main PROVE (mutex[m] = u <=> Holds(u, m))'
  <2>1. CASE CreateThread
    <3>1. pc[idx] = "unborn" /\ pc' = [pc EXCEPT ![idx] = "loop"] /\ UNCHANGED <<mutex, selected>>
      BY <2>1, NumCollectorsAssumption DEF CreateThread, Goto, LockInv, MainConsistent, TypeOK, locals
    <3> QED
      BY <1>0, <3>1 DEF Holds, FirstMutex, LockOrder, Critical, LockInv, TypeOK
  <2>2. CASE StopThreads \/ JoinThread \/ AllJoined \/ PrintStatistics
    BY <1>0, <2>2 DEF StopThreads, JoinThread, AllJoined, PrintStatistics, Holds, FirstMutex, LockOrder, locals
  <2>3. CASE DestroyLocks
    <3>1. pc'[u] = "exited"
      BY <2>3 DEF DestroyLocks, LockInv, MainConsistent
    <3>2. mutex'[m] \notin Collectors
      BY <2>3 DEF DestroyLocks, Free, Destroyed, Collectors
    <3> QED
      BY <3>1, <3>2 DEF Holds, Critical
  <2> QED
    BY <1>2, <2>1, <2>2, <2>3 DEF Main
<1>3. CASE UNCHANGED vars
  BY <1>0, <1>3 DEF vars, locals, Holds, FirstMutex, LockOrder
<1> QED
  BY <1>1, <1>2, <1>3 DEF Next, Terminated

LEMMA LockInit == Init => LockInv
<1> SUFFICES ASSUME Init PROVE LockInv
  OBVIOUS
<1>1. TypeOK
  BY TypeInit
<1>2. ControlConsistent
  BY DEF Init, ControlConsistent
<1>3. MainConsistent
  BY NumCollectorsAssumption DEF Init, MainConsistent, Collectors
<1>4. LockDiscipline
  BY DEF Init, LockDiscipline, Holds, Critical, Free, Mutexes, Collectors
<1> QED
  BY <1>1, <1>2, <1>3, <1>4 DEF LockInv

LEMMA LockInvariant == Spec => []LockInv
<1>1. LockInv /\ [Next]_vars => LockInv'
  BY TypeStep, ControlStep, MainStep, LockStep DEF LockInv
<1> QED
  BY LockInit, <1>1, PTL DEF Spec

\* Who owns a mutex is always told by where the threads stand.
THEOREM MutexesDisciplined == Spec => []LockDiscipline
<1>1. LockInv => LockDiscipline
  BY DEF LockInv
<1> QED
  BY LockInvariant, <1>1, PTL

LEMMA Exclusion ==
  LockInv => ExclusiveAccess
<1> SUFFICES ASSUME LockMode # "nolock", LockInv,
                    NEW t \in Collectors, NEW u \in Collectors, t # u,
                    pc[t] \in Critical, pc[u] \in Critical
             PROVE  {t, selected[t]} \cap {u, selected[u]} = {}
  BY DEF ExclusiveAccess
<1>1. \A m \in Mutexes : ~(Holds(t, m) /\ Holds(u, m))
  BY DEF LockInv, LockDiscipline
<1>2. CASE LockMode = "individual"
  <2>1. \A c \in {t, selected[t]} : c \in Mutexes /\ Holds(t, c)
    BY <1>2, MutexIds DEF Holds, LockInv, TypeOK
  <2>2. \A c \in {u, selected[u]} : Holds(u, c)
    BY <1>2 DEF Holds
  <2> QED
    BY <1>1, <2>1, <2>2
<1>3. CASE LockMode = "biglock"
  BY <1>1, <1>3, MutexIds DEF Holds
<1> QED
  BY <1>2, <1>3, BuildsAssumption DEF LockInv, TypeOK

\* In both builds that lock, transactions that share a collector never overlap.
THEOREM MutualExclusion == Spec => []ExclusiveAccess
<1>1. LockInv => ExclusiveAccess
  BY Exclusion
<1> QED
  BY LockInvariant, <1>1, PTL

LEMMA OrderedWaits == LockInv => NoCircularWait
<1> SUFFICES ASSUME LockInv, NEW t \in Collectors, NEW u \in Collectors,
                    NEW m \in Mutexes, NEW k \in Mutexes,
                    mutex[m] = u, WaitsFor(u, k)
             PROVE  m < k
  BY DEF NoCircularWait
<1>1. Holds(u, m)
  BY DEF LockInv, LockDiscipline
<1>2. pc[u] = "lock2" /\ m = FirstMutex(u, selected[u]) /\ k = SecondMutex(u, selected[u])
  BY <1>1 DEF WaitsFor, Holds, Critical
<1>3. LockMode = "individual" /\ selected[u] # u /\ selected[u] \in Collectors
  BY <1>2 DEF LockInv, ControlConsistent, TypeOK
<1> QED
  BY <1>2, <1>3 DEF FirstMutex, SecondMutex, LockOrder, Collectors

\* In every build the mutexes along a chain of waiting threads increase, so the
\* threads never wait for each other in a circle.
THEOREM LocksOrdered == Spec => []NoCircularWait
<1> QED
  BY LockInvariant, OrderedWaits, PTL

\* When main reads the collectors and destroys the locks nobody uses them.
THEOREM TeardownQuiet == Spec => []QuietTeardown
<1>1. LockInv => QuietTeardown
  <2> SUFFICES ASSUME LockInv, main \in {"print", "destroy", "done"}
               PROVE  /\ \A t \in Collectors : pc[t] = "exited"
                      /\ \A m \in Mutexes : mutex[m] \notin Collectors
    BY DEF QuietTeardown
  <2>1. \A t \in Collectors : pc[t] = "exited"
    BY DEF LockInv, MainConsistent
  <2>2. \A t \in Collectors, m \in Mutexes : ~Holds(t, m)
    BY <2>1 DEF Holds, Critical
  <2> QED
    BY <2>1, <2>2 DEF LockInv, LockDiscipline
<1> QED
  BY LockInvariant, <1>1, PTL

\* Thread t is not behind a mutex that is taken, nor has it ended.
CanGoOn(t) ==
  \/ pc[t] \in Critical \cup {"unlock1", "unlock2", "yield"}
  \/ pc[t] = "select" /\ NumCollectors > 1
  \/ pc[t] = "loop" /\ ~running
  \/ \E m \in Mutexes : WaitsFor(t, m) /\ mutex[m] = Free

\* main creates the threads and stops them, and does not wait for one that runs.
MainCanGoOn ==
  \/ main \in {"create", "print", "destroy"}
  \/ main = "join" /\ (idx < NumCollectors => pc[idx] = "exited")

NeverStuck == main # "done" => MainCanGoOn \/ \E t \in Collectors : CanGoOn(t)

\* Once main has created all the threads they have been told to stop, and until
\* it ends no mutex is destroyed.
Alive ==
  /\ main = "create" => \A t \in 0 .. idx - 1 : pc[t] # "unborn"
  /\ main # "create" => ~running /\ \A t \in Collectors : pc[t] # "unborn"
  /\ main # "done"   => \A m \in Mutexes : mutex[m] # Destroyed

LEMMA AliveStep == LockInv /\ Alive /\ [Next]_vars => Alive'
<1> SUFFICES ASSUME LockInv, Alive, [Next]_vars PROVE Alive'
  OBVIOUS
<1>0. TypeOK
  BY DEF LockInv
<1>1. ASSUME NEW t \in Collectors, Thread(t) PROVE Alive'
  <2>1. pc'[t] # "unborn" /\ \A u \in Collectors \ {t} : pc'[u] = pc[u]
    BY <1>0, <1>1, ThreadFrame
       DEF Thread, EnterLoop, Exit, Select, Lock1, Lock2, Check, Amount, TakeLoad,
           TakeStore, GiveLoad, GiveStore, CountLevy, PayLoad, PayStore, Unlock1,
           Unlock2, Yield, Goto, AfterSelect, AfterLock1, AfterWork, AfterUnlock1, TypeOK
  <2>2. \A m \in Mutexes : mutex[m] # Destroyed => mutex'[m] # Destroyed
    BY <1>0, <1>1
       DEF Thread, EnterLoop, Exit, Select, Lock1, Lock2, Check, Amount, TakeLoad,
           TakeStore, GiveLoad, GiveStore, CountLevy, PayLoad, PayStore, Unlock1,
           Unlock2, Yield, Acquire, Release, shared, TypeOK, Free, Destroyed, Collectors
  <2>3. UNCHANGED <<running, main, idx>>
    BY <1>0, <1>1, ThreadFrame DEF mains
  <2>4. main = "create" => 0 .. idx - 1 \subseteq Collectors
    BY <1>0, NumCollectorsAssumption DEF TypeOK, Collectors
  <2> QED
    BY <2>1, <2>2, <2>3, <2>4 DEF Alive
<1>2. ASSUME Main PROVE Alive'
  <2> USE <1>0, NumCollectorsAssumption DEF TypeOK, Alive
  <2>1. CASE CreateThread
    <3>1. idx \in Collectors /\ pc'[idx] = "loop" /\ \A u \in Collectors \ {idx} : pc'[u] = pc[u]
      BY <2>1 DEF CreateThread, Goto, Collectors
    <3>2. main = "create" /\ UNCHANGED <<main, mutex>> /\ idx' = idx + 1
      BY <2>1 DEF CreateThread
    <3>3. \A u \in 0 .. idx' - 1 : u \in Collectors /\ (u # idx => u \in 0 .. idx - 1)
      <4>1. ASSUME NEW u \in 0 .. idx' - 1, idx \in 0 .. NumCollectors - 1, idx' = idx + 1
            PROVE  u \in 0 .. NumCollectors - 1 /\ (u # idx => u \in 0 .. idx - 1)
        BY <4>1, NumCollectorsAssumption
      <4> QED
        BY <3>1, <3>2, <4>1 DEF Collectors
    <3>4. \A u \in 0 .. idx' - 1 : pc'[u] # "unborn"
      BY <3>1, <3>2, <3>3
    <3> QED
      BY <3>2, <3>4
  <2>2. CASE StopThreads
    BY <2>2 DEF StopThreads, Collectors
  <2>3. CASE JoinThread \/ AllJoined \/ PrintStatistics
    BY <2>3 DEF JoinThread, AllJoined, PrintStatistics
  <2>4. CASE DestroyLocks
    BY <2>4 DEF DestroyLocks
  <2> QED
    BY <1>2, <2>1, <2>2, <2>3, <2>4 DEF Main
<1>3. CASE UNCHANGED vars
  BY <1>3 DEF Alive, vars, mains
<1> QED
  BY <1>1, <1>2, <1>3 DEF Next, Terminated

\* Of the mutexes some thread waits for, the greatest is free or its owner goes on.
LEMMA SomeWaiterGoesOn ==
  ASSUME LockInv, Alive, main # "done",
         NEW t \in Collectors, NEW k \in Mutexes, WaitsFor(t, k)
  PROVE  \E u \in Collectors : CanGoOn(u)
<1> DEFINE Awaited == {m \in Mutexes : \E u \in Collectors : WaitsFor(u, m)}
           Below == {NumCollectors - m : m \in Awaited}
<1>1. PICK n \in Below : \A i \in Below : n <= i
  <2>1. Below \subseteq Nat /\ Below # {}
    BY NumCollectorsAssumption DEF Mutexes
  <2> QED  BY <2>1, LeastNumber
<1>2. PICK m \in Awaited : n = NumCollectors - m
  BY <1>1
<1>3. \A j \in Awaited : j <= m
  <2>1. \A j \in Awaited : NumCollectors - j \in Below /\ j \in Int /\ m \in Int
    BY <1>2 DEF Mutexes
  <2>2. \A j \in Awaited : n <= NumCollectors - j
    BY <1>1, <2>1
  <2> HIDE DEF Awaited, Below
  <2> QED  BY <1>2, <2>1, <2>2, NumCollectorsAssumption
<1>4. PICK u \in Collectors : WaitsFor(u, m)
  BY <1>2
<1>5. CASE mutex[m] = Free
  BY <1>4, <1>5 DEF CanGoOn
<1>6. CASE mutex[m] # Free
  <2>1. PICK w \in Collectors : mutex[m] = w
    BY <1>2, <1>6 DEF Alive, LockInv, TypeOK
  <2>2. Holds(w, m)
    BY <1>2, <2>1 DEF LockInv, LockDiscipline
  <2>3. pc[w] \in Critical \cup {"unlock1", "unlock2"} \/ pc[w] = "lock2"
    BY <2>2 DEF Holds
  <2>4. CASE pc[w] = "lock2"
    <3> DEFINE j == SecondMutex(w, selected[w])
    <3>1. j \in Mutexes /\ WaitsFor(w, j)
      BY <2>4, MutexIds DEF WaitsFor, SecondMutex, LockOrder, LockInv, TypeOK
    <3>2. m < j
      BY <1>2, <2>1, <3>1, OrderedWaits, <1>4 DEF NoCircularWait
    <3> HIDE DEF j
    <3>3. j <= m
      BY <1>3, <3>1
    <3> QED  BY <1>2, <3>1, <3>2, <3>3 DEF Mutexes
  <2> QED  BY <2>3, <2>4 DEF CanGoOn
<1> QED  BY <1>5, <1>6

\* The program has no deadlock, in any build and for any number of collectors
\* but one: until main is done, main or a thread can take a step.
THEOREM NoDeadlock ==
  ASSUME NumCollectors # 1 PROVE Spec => []NeverStuck
<1>1. Init => Alive
  BY NumCollectorsAssumption DEF Init, Alive, Free, Destroyed
<1>2. LockInv /\ Alive /\ [Next]_vars => Alive'
  BY AliveStep
<1>3. LockInv /\ Alive => NeverStuck
  <2> SUFFICES ASSUME LockInv, Alive, main # "done", ~MainCanGoOn
               PROVE  \E t \in Collectors : CanGoOn(t)
    BY DEF NeverStuck
  <2>1. main = "join" /\ idx \in Collectors /\ pc[idx] # "exited"
    BY NumCollectorsAssumption DEF MainCanGoOn, LockInv, TypeOK, Collectors
  <2>2. pc[idx] \in Labels \ {"unborn", "exited"} /\ ~running /\ selected[idx] \in Collectors
    BY <2>1 DEF Alive, LockInv, TypeOK
  <2>3. CASE pc[idx] \in {"lock1", "lock2"}
    <3>1. \E k \in Mutexes : WaitsFor(idx, k)
      BY <2>1, <2>2, <2>3, MutexIds DEF WaitsFor, FirstMutex, SecondMutex, LockOrder
    <3> QED  BY <2>1, <3>1, SomeWaiterGoesOn
  <2>4. CASE pc[idx] \notin {"lock1", "lock2"}
    <3>1. NumCollectors > 1
      BY <2>1, NumCollectorsAssumption DEF Collectors
    <3> QED  BY <2>1, <2>2, <2>4, <3>1 DEF CanGoOn, Labels, Critical
  <2> QED  BY <2>3, <2>4
<1> QED
  BY LockInvariant, <1>1, <1>2, <1>3, PTL DEF Spec

--------------------------------------------------------------------------------
(***************************************************************************)
(* What a thread has read stays true.                                      *)
(***************************************************************************)

\* A step writes only fields of the two collectors of its transaction, and
\* only from within the transaction.
LEMMA SharedFrame ==
  ASSUME TypeOK, NEW t \in Collectors, Thread(t)
  PROVE  /\ pc[t] \notin Critical => UNCHANGED shared
         /\ \A c \in Collectors \ {t, selected[t]} :
              money'[c] = money[c] /\ payment_count'[c] = payment_count[c]
         /\ \A c \in Collectors \ {t} : levy_count'[c] = levy_count[c]
<1> USE DEF TypeOK, shared, Critical
<1>1. CASE EnterLoop(t)
  BY <1>1 DEF EnterLoop
<1>2. CASE Exit(t)
  BY <1>2 DEF Exit
<1>3. CASE Select(t)
  BY <1>3 DEF Select
<1>4. CASE Lock1(t)
  BY <1>4 DEF Lock1
<1>5. CASE Lock2(t)
  BY <1>5 DEF Lock2
<1>6. CASE Check(t)
  BY <1>6 DEF Check
<1>7. CASE Amount(t)
  BY <1>7 DEF Amount
<1>8. CASE TakeLoad(t)
  BY <1>8 DEF TakeLoad
<1>9. CASE TakeStore(t)
  BY <1>9 DEF TakeStore
<1>10. CASE GiveLoad(t)
  BY <1>10 DEF GiveLoad
<1>11. CASE GiveStore(t)
  BY <1>11 DEF GiveStore
<1>12. CASE CountLevy(t)
  BY <1>12 DEF CountLevy
<1>13. CASE PayLoad(t)
  BY <1>13 DEF PayLoad
<1>14. CASE PayStore(t)
  BY <1>14 DEF PayStore
<1>15. CASE Unlock1(t)
  BY <1>15 DEF Unlock1
<1>16. CASE Unlock2(t)
  BY <1>16 DEF Unlock2
<1>17. CASE Yield(t)
  BY <1>17 DEF Yield
<1> QED
  BY <1>1, <1>2, <1>3, <1>4, <1>5, <1>6, <1>7, <1>8, <1>9, <1>10, <1>11, <1>12, <1>13, <1>14, <1>15, <1>16, <1>17 DEF Thread

Fresh == RegisterFresh /\ CheckStillHolds

LEMMA FreshFrame ==
  ASSUME LockMode # "nolock", LockInv, NEW t \in Collectors, Thread(t),
         NEW u \in Collectors \ {t}, pc[u] \in Critical
  PROVE  /\ pc'[u] = pc[u] /\ selected'[u] = selected[u]
         /\ amount'[u] = amount[u] /\ reg'[u] = reg[u]
         /\ \A c \in {u, selected[u]} :
              money'[c] = money[c] /\ payment_count'[c] = payment_count[c]
<1>1. pc[t] \in Critical => {t, selected[t]} \cap {u, selected[u]} = {}
  BY Exclusion DEF ExclusiveAccess
<1>2. {u, selected[u]} \subseteq Collectors /\ TypeOK
  BY DEF LockInv, TypeOK
<1> QED
  BY <1>1, <1>2, SharedFrame, ThreadFrame DEF shared

\* Its own steps establish and keep what a thread relies on.
LEMMA FreshOwn ==
  ASSUME LockMode # "nolock", LockInv, Fresh, NEW t \in Collectors, Thread(t)
  PROVE  /\ pc'[t] = "take_store" => reg'[t] = money'[t]
         /\ pc'[t] = "give_store" => reg'[t] = money'[selected'[t]]
         /\ pc'[t] = "pay_store"  => reg'[t] = payment_count'[selected'[t]]
         /\ pc'[t] \in {"amount", "take_load", "take_store"} \cup HalfDone
              => money'[selected'[t]] >= 100
         /\ pc'[t] \in {"take_load", "take_store"} \cup HalfDone
              => amount'[t] = LevyAmount(money'[selected'[t]])
<1> USE DEF LockInv, TypeOK, ControlConsistent, Fresh, RegisterFresh, CheckStillHolds,
            HalfDone, Goto, shared, locals
<1>1. CASE EnterLoop(t)
  BY <1>1 DEF EnterLoop
<1>2. CASE Exit(t)
  BY <1>2 DEF Exit
<1>3. CASE Select(t)
  BY <1>3 DEF Select, AfterSelect
<1>4. CASE Lock1(t)
  BY <1>4 DEF Lock1, AfterLock1
<1>5. CASE Lock2(t)
  BY <1>5 DEF Lock2
<1>6. CASE Check(t)
  BY <1>6 DEF Check, AfterWork
<1>7. CASE Amount(t)
  BY <1>7 DEF Amount
<1>8. CASE TakeLoad(t)
  BY <1>8 DEF TakeLoad
<1>9. CASE TakeStore(t)
  BY <1>9 DEF TakeStore
<1>10. CASE GiveLoad(t)
  BY <1>10 DEF GiveLoad
<1>11. CASE GiveStore(t)
  BY <1>11 DEF GiveStore
<1>12. CASE CountLevy(t)
  BY <1>12 DEF CountLevy
<1>13. CASE PayLoad(t)
  BY <1>13 DEF PayLoad
<1>14. CASE PayStore(t)
  BY <1>14 DEF PayStore, AfterWork
<1>15. CASE Unlock1(t)
  BY <1>15 DEF Unlock1, AfterUnlock1
<1>16. CASE Unlock2(t)
  BY <1>16 DEF Unlock2
<1>17. CASE Yield(t)
  BY <1>17 DEF Yield
<1> QED
  BY <1>1, <1>2, <1>3, <1>4, <1>5, <1>6, <1>7, <1>8, <1>9, <1>10, <1>11, <1>12, <1>13, <1>14, <1>15, <1>16, <1>17 DEF Thread

LEMMA FreshStep ==
  LockInv /\ Fresh /\ [Next]_vars => Fresh'
<1> SUFFICES ASSUME LockMode # "nolock", LockInv, Fresh, [Next]_vars PROVE Fresh'
  BY BuildFixed DEF Fresh, RegisterFresh, CheckStillHolds
<1>1. ASSUME NEW t \in Collectors, Thread(t) PROVE Fresh'
  <2> SUFFICES ASSUME NEW u \in Collectors
               PROVE  /\ pc'[u] = "take_store" => reg'[u] = money'[u]
                      /\ pc'[u] = "give_store" => reg'[u] = money'[selected'[u]]
                      /\ pc'[u] = "pay_store"  => reg'[u] = payment_count'[selected'[u]]
                      /\ pc'[u] \in {"amount", "take_load", "take_store"} \cup HalfDone
                           => money'[selected'[u]] >= 100
                      /\ pc'[u] \in {"take_load", "take_store"} \cup HalfDone
                           => amount'[u] = LevyAmount(money'[selected'[u]])
    BY DEF Fresh, RegisterFresh, CheckStillHolds
  <2>1. CASE u = t
    BY <1>1, <2>1, FreshOwn
  <2>2. CASE u # t /\ pc[u] \in Critical
    BY <1>1, <2>2, FreshFrame DEF Fresh, RegisterFresh, CheckStillHolds
  <2>3. CASE u # t /\ pc[u] \notin Critical
    <3>1. pc'[u] \notin Critical
      BY <1>1, <2>3, ThreadFrame DEF LockInv
    <3> QED
      BY <3>1 DEF Critical, HalfDone
  <2> QED
    BY <2>1, <2>2, <2>3
<1>2. ASSUME Main PROVE Fresh'
  <2>1. UNCHANGED <<money, payment_count, selected, amount, reg>>
    BY <1>2 DEF Main, CreateThread, StopThreads, JoinThread, AllJoined,
                PrintStatistics, DestroyLocks, shared, locals
  <2>2. \A u \in Collectors : pc'[u] = pc[u] \/ pc'[u] = "loop"
    BY <1>2 DEF Main, CreateThread, StopThreads, JoinThread, AllJoined,
                PrintStatistics, DestroyLocks, Goto, LockInv, TypeOK
  <2> QED
    BY <2>1, <2>2 DEF Fresh, RegisterFresh, CheckStillHolds, HalfDone
<1>3. CASE UNCHANGED vars
  BY <1>3 DEF vars, shared, locals, Fresh, RegisterFresh, CheckStillHolds
<1> QED
  BY <1>1, <1>2, <1>3 DEF Next, Terminated

LEMMA FreshInvariant == Spec => [](LockInv /\ Fresh)
<1>1. Init => Fresh
  BY DEF Init, Fresh, RegisterFresh, CheckStillHolds, HalfDone
<1>2. LockInv /\ Fresh /\ [Next]_vars => Fresh'
  BY FreshStep
<1> QED
  BY LockInvariant, <1>1, <1>2, PTL DEF Spec

\* In both builds that lock, the solvency check is never stale when it is acted
\* upon, and the amount is the one the victim's money calls for.
THEOREM ChecksHold == Spec => []CheckStillHolds
<1>1. LockInv /\ Fresh => CheckStillHolds
  BY DEF Fresh
<1> QED
  BY FreshInvariant, <1>1, PTL

\* In both builds that lock, no update of money or of a counter is lost.
THEOREM NoLostUpdate == Spec => []RegisterFresh
<1>1. LockInv /\ Fresh => RegisterFresh
  BY DEF Fresh
<1> QED
  BY FreshInvariant, <1>1, PTL

\* Nobody is levied into debt in a build that locks: an amount rounded up is at
\* most what the victim has at the moment it pays.
THEOREM NobodyInDebt == Spec => []Solvent
<1>1. Init => Solvent
  BY DEF Init, Solvent
<1>2. LockInv /\ Fresh /\ Solvent /\ [Next]_vars => Solvent'
  <2> SUFFICES ASSUME LockMode # "nolock", LockInv, Fresh, [Next]_vars, StartMoney >= 0,
                      NEW c \in Collectors, money[c] >= 0
               PROVE  money'[c] >= 0
    BY BuildFixed DEF Solvent
  <2>1. CASE UNCHANGED money
    BY <2>1
  <2>2. ASSUME NEW t \in Collectors, TakeStore(t) PROVE money'[c] >= 0
    <3>1. money' = [money EXCEPT ![t] = money[t] + LevyAmount(money[selected[t]])]
      BY <2>2 DEF TakeStore, Fresh, RegisterFresh, CheckStillHolds
    <3>2. money[selected[t]] \in Int /\ money[selected[t]] >= 100
      BY <2>2 DEF TakeStore, Fresh, CheckStillHolds, LockInv, TypeOK
    <3> QED
      BY <3>1, <3>2, AmountPayable DEF LockInv, TypeOK
  <2>3. ASSUME NEW t \in Collectors, GiveStore(t) PROVE money'[c] >= 0
    <3>1. money' = [money EXCEPT ![selected[t]] = @ - LevyAmount(@)]
      BY <2>3 DEF GiveStore, Fresh, RegisterFresh, CheckStillHolds, HalfDone
    <3>2. money[selected[t]] \in Int /\ money[selected[t]] >= 100
      BY <2>3 DEF GiveStore, Fresh, CheckStillHolds, HalfDone, LockInv, TypeOK
    <3> QED
      BY <3>1, <3>2, AmountPayable DEF LockInv, TypeOK
  <2> QED
    BY <2>1, <2>2, <2>3
       DEF Next, Terminated, vars, shared, Thread, EnterLoop, Exit, Select, Lock1,
           Lock2, Check, Amount, TakeLoad, GiveLoad, CountLevy, PayLoad, PayStore,
           Unlock1, Unlock2, Yield, Main, CreateThread, StopThreads, JoinThread,
           AllJoined, PrintStatistics, DestroyLocks
<1> QED
  BY FreshInvariant, <1>1, <1>2, PTL DEF Spec

--------------------------------------------------------------------------------
(***************************************************************************)
(* The collectors implement the atomic ledger.                             *)
(***************************************************************************)

LEMMA RefineInit == Init => Ledger!Init
<1> SUFFICES ASSUME Init PROVE Ledger!Init
  OBVIOUS
<1>1. LedgerBalance = [c \in Collectors |-> StartMoney]
  BY StartMoneyAssumption DEF Init, LedgerBalance, HalfDone
<1>2. LedgerLevies = [c \in Collectors |-> 0]
  BY DEF Init, LedgerLevies
<1>3. LedgerPayments = [c \in Collectors |-> 0]
  BY DEF Init, LedgerPayments, PaymentDue
<1> QED
  BY <1>1, <1>2, <1>3 DEF Ledger!Init, Ledger!Collectors, Collectors

\* The step that writes the victim's money back is the levy.
LEMMA RefineLevy ==
  ASSUME LockMode # "nolock", LockInv, Fresh,
         NEW t \in Collectors, GiveStore(t), NEW v \in Collectors, v = selected[t]
  PROVE  Ledger!Levy(t, v)
<1>0. pc[t] = "give_store" /\ pc' = [pc EXCEPT ![t] = "levy"]
      /\ money' = [money EXCEPT ![v] = money[v] - amount[t]]
      /\ UNCHANGED <<levy_count, payment_count, selected, amount>>
  BY DEF GiveStore, Goto, locals, Fresh, RegisterFresh
<1>1. v # t /\ levy_count[t] < MaxLevies
  BY <1>0 DEF LockInv, TypeOK, ControlConsistent, Labels
<1>2. money[v] >= 100 /\ amount[t] = LevyAmount(money[v])
  BY <1>0 DEF Fresh, CheckStillHolds, HalfDone
<1>3. \A u \in Collectors \ {t} :
        pc[u] \in Critical => u # v /\ selected[u] # v /\ selected[u] # t
  BY <1>0, Exclusion DEF ExclusiveAccess, Critical
<1>4. LedgerBalance[v] = money[v] /\ LedgerBalance' =
        [LedgerBalance EXCEPT ![t] = @ + amount[t], ![v] = @ - amount[t]]
  <2>1. pc[v] \notin HalfDone /\ pc'[v] \notin HalfDone /\ pc[t] \in HalfDone
        /\ pc'[t] \notin HalfDone
    BY <1>0, <1>1, <1>3 DEF HalfDone, Critical, LockInv, TypeOK
  <2>2. \A c \in Collectors \ {t, v} : pc'[c] = pc[c] /\ money'[c] = money[c]
    BY <1>0 DEF LockInv, TypeOK
  <2>3. money'[t] = money[t] /\ money'[v] = money[v] - amount[t] /\ amount' = amount
    BY <1>0, <1>1 DEF LockInv, TypeOK
  <2>4. \A c \in Collectors : money[c] \in Int /\ amount[c] \in Int
    BY DEF LockInv, TypeOK
  <2> QED
    BY <1>1, <2>1, <2>2, <2>3, <2>4 DEF LedgerBalance
<1>5. LedgerLevies[t] = levy_count[t] /\ LedgerLevies' = [LedgerLevies EXCEPT ![t] = @ + 1]
  <2>1. levy_count \in [Collectors -> Nat] /\ levy_count' = levy_count
    BY <1>0 DEF LockInv, TypeOK
  <2>2. \A c \in Collectors \ {t} : pc'[c] = pc[c]
    BY <1>0 DEF LockInv, TypeOK
  <2>3. pc'[t] = "levy" /\ pc[t] # "levy"
    BY <1>0 DEF LockInv, TypeOK
  <2> QED
    <3>1. LedgerLevies[t] = levy_count[t] /\ LedgerLevies'[t] = levy_count[t] + 1
      BY <2>1, <2>3 DEF LedgerLevies
    <3>2. \A c \in Collectors \ {t} : LedgerLevies'[c] = LedgerLevies[c]
      BY <2>1, <2>2 DEF LedgerLevies
    <3> QED
      BY <3>1, <3>2 DEF LedgerLevies
<1>6. LedgerPayments' = [LedgerPayments EXCEPT ![v] = @ + 1]
  <2>1. ~PaymentDue(v)
    BY <1>0, <1>3 DEF PaymentDue, Critical
  <2>2. PaymentDue(v)'
    BY <1>0 DEF PaymentDue, LockInv, TypeOK
  <2>3. \A c \in Collectors \ {v} : PaymentDue(c)' <=> PaymentDue(c)
    BY <1>0 DEF PaymentDue, LockInv, TypeOK
  <2> QED
    <3>1. payment_count \in [Collectors -> Nat] /\ payment_count' = payment_count
      BY <1>0 DEF LockInv, TypeOK
    <3>2. LedgerPayments[v] = payment_count[v] /\ LedgerPayments'[v] = payment_count[v] + 1
      BY <1>1, <2>1, <2>2, <3>1 DEF LedgerPayments
    <3>3. \A c \in Collectors \ {v} : LedgerPayments'[c] = LedgerPayments[c]
      BY <2>3, <3>1 DEF LedgerPayments
    <3> QED
      BY <3>2, <3>3 DEF LedgerPayments
<1>7. Ledger!LevyAmount(LedgerBalance[v]) = amount[t]
  BY <1>2, <1>4 DEF Ledger!LevyAmount, Ledger!CDiv, LevyAmount, CDiv
<1> QED
  BY <1>1, <1>2, <1>4, <1>5, <1>6, <1>7 DEF Ledger!Levy

Owing == {"levy", "pay_load", "pay_store"}

\* The steps that only read, lock and unlock.
Quiet(t) ==
  \/ EnterLoop(t) \/ Exit(t)  \/ Select(t)   \/ Lock1(t)    \/ Lock2(t)
  \/ Check(t)     \/ Amount(t) \/ TakeLoad(t) \/ GiveLoad(t) \/ PayLoad(t)
  \/ Unlock1(t)   \/ Unlock2(t) \/ Yield(t)

LEMMA RefineQuiet ==
  ASSUME LockInv, NEW t \in Collectors, Quiet(t)
  PROVE  UNCHANGED <<LedgerBalance, LedgerLevies, LedgerPayments>>
<1>1. /\ UNCHANGED shared
      /\ pc'[t] \in HalfDone <=> pc[t] \in HalfDone
      /\ pc[t] \in HalfDone => amount'[t] = amount[t]
      /\ pc'[t] = "levy" <=> pc[t] = "levy"
      /\ pc'[t] \in Owing <=> pc[t] \in Owing
      /\ pc[t] \in Owing => selected'[t] = selected[t]
  <2> USE DEF HalfDone, Owing, Goto, LockInv, TypeOK, locals
  <2>1. CASE EnterLoop(t)
    BY <2>1 DEF EnterLoop
  <2>2. CASE Exit(t)
    BY <2>2 DEF Exit
  <2>3. CASE Select(t)
    BY <2>3 DEF Select, AfterSelect
  <2>4. CASE Lock1(t)
    BY <2>4 DEF Lock1, AfterLock1
  <2>5. CASE Lock2(t)
    BY <2>5 DEF Lock2
  <2>6. CASE Check(t)
    BY <2>6 DEF Check, AfterWork
  <2>7. CASE Amount(t)
    BY <2>7 DEF Amount
  <2>8. CASE TakeLoad(t)
    BY <2>8 DEF TakeLoad
  <2>9. CASE GiveLoad(t)
    BY <2>9 DEF GiveLoad
  <2>10. CASE PayLoad(t)
    BY <2>10 DEF PayLoad
  <2>11. CASE Unlock1(t)
    BY <2>11 DEF Unlock1, AfterUnlock1
  <2>12. CASE Unlock2(t)
    BY <2>12 DEF Unlock2
  <2>13. CASE Yield(t)
    BY <2>13 DEF Yield
  <2> QED
    BY <2>1, <2>2, <2>3, <2>4, <2>5, <2>6, <2>7, <2>8, <2>9, <2>10, <2>11, <2>12, <2>13 DEF Quiet
<1>2. \A u \in Collectors \ {t} :
        pc'[u] = pc[u] /\ selected'[u] = selected[u] /\ amount'[u] = amount[u]
  BY ThreadFrame DEF LockInv, Quiet, Thread
<1>3. \A c \in Collectors : PaymentDue(c)' <=> PaymentDue(c)
  BY <1>1, <1>2 DEF PaymentDue, Owing
<1> QED
  BY <1>1, <1>2, <1>3 DEF LedgerBalance, LedgerLevies, LedgerPayments, shared

LEMMA RefineTake ==
  ASSUME LockMode # "nolock", LockInv, Fresh, NEW t \in Collectors, TakeStore(t)
  PROVE  UNCHANGED <<LedgerBalance, LedgerLevies, LedgerPayments>>
<1>1. /\ money' = [money EXCEPT ![t] = @ + amount[t]]
      /\ pc[t] = "take_store" /\ pc' = [pc EXCEPT ![t] = "give_load"]
      /\ UNCHANGED <<levy_count, payment_count, selected, amount>>
  BY DEF TakeStore, Goto, locals, Fresh, RegisterFresh
<1>2. LedgerBalance' = LedgerBalance
  BY <1>1 DEF LedgerBalance, HalfDone, LockInv, TypeOK
<1>3. \A c \in Collectors : /\ pc'[c] = "levy" <=> pc[c] = "levy"
                            /\ PaymentDue(c)' <=> PaymentDue(c)
  BY <1>1 DEF PaymentDue, LockInv, TypeOK
<1> QED
  BY <1>1, <1>2, <1>3 DEF LedgerLevies, LedgerPayments

LEMMA RefineCountLevy ==
  ASSUME LockInv, NEW t \in Collectors, CountLevy(t)
  PROVE  UNCHANGED <<LedgerBalance, LedgerLevies, LedgerPayments>>
<1>1. /\ levy_count' = [levy_count EXCEPT ![t] = @ + 1]
      /\ pc[t] = "levy" /\ pc' = [pc EXCEPT ![t] = "pay_load"]
      /\ UNCHANGED <<money, payment_count, selected, amount>>
  BY DEF CountLevy, Goto, locals
<1>2. LedgerLevies' = LedgerLevies
  BY <1>1 DEF LedgerLevies, LockInv, TypeOK
<1>3. \A c \in Collectors : /\ pc'[c] \in HalfDone <=> pc[c] \in HalfDone
                            /\ PaymentDue(c)' <=> PaymentDue(c)
  BY <1>1 DEF PaymentDue, HalfDone, LockInv, TypeOK
<1> QED
  BY <1>1, <1>2, <1>3 DEF LedgerBalance, LedgerPayments

\* Nobody else owes the victim's payment while t does, so that counting it
\* settles it.
LEMMA RefinePay ==
  ASSUME LockMode # "nolock", LockInv, Fresh,
         NEW t \in Collectors, PayStore(t), NEW v \in Collectors, v = selected[t]
  PROVE  UNCHANGED <<LedgerBalance, LedgerLevies, LedgerPayments>>
<1>1. /\ payment_count' = [payment_count EXCEPT ![v] = @ + 1]
      /\ pc[t] = "pay_store" /\ pc' = [pc EXCEPT ![t] = AfterWork]
      /\ UNCHANGED <<money, levy_count, selected>>
      /\ \A u \in Collectors \ {t} : amount'[u] = amount[u]
  BY DEF PayStore, Goto, Fresh, RegisterFresh, LockInv, TypeOK
<1>2. \A u \in Collectors : /\ pc'[u] \in HalfDone <=> pc[u] \in HalfDone
                            /\ pc[u] \in HalfDone => amount'[u] = amount[u]
                            /\ pc'[u] = "levy" <=> pc[u] = "levy"
  BY <1>1 DEF AfterWork, HalfDone, LockInv, TypeOK
<1>3. LedgerPayments' = LedgerPayments
  <2>1. PaymentDue(v)
    BY <1>1 DEF PaymentDue
  <2>2. \A u \in Collectors \ {t} : pc[u] \in Owing => selected[u] # v
    BY <1>1, Exclusion DEF ExclusiveAccess, Critical, Owing
  <2>3. /\ pc'[t] \notin Owing /\ \A u \in Collectors \ {t} : pc'[u] = pc[u]
        /\ selected' = selected
    BY <1>1 DEF AfterWork, Owing, LockInv, TypeOK
  <2>4. ~PaymentDue(v)'
    BY <2>2, <2>3 DEF PaymentDue, Owing
  <2>5. \A c \in Collectors \ {v} : PaymentDue(c)' <=> PaymentDue(c)
    BY <2>3 DEF PaymentDue, Owing
  <2> QED
    BY <1>1, <2>1, <2>4, <2>5 DEF LedgerPayments, LockInv, TypeOK
<1> QED
  BY <1>1, <1>2, <1>3 DEF LedgerBalance, LedgerLevies

LEMMA RefineMain ==
  ASSUME LockInv, Main
  PROVE  UNCHANGED <<LedgerBalance, LedgerLevies, LedgerPayments>>
<1>1. UNCHANGED <<shared, selected, amount>>
  BY DEF Main, CreateThread, StopThreads, JoinThread, AllJoined, PrintStatistics,
         DestroyLocks, locals
<1>2. CASE CreateThread
  <2>1. idx \in Collectors /\ pc[idx] = "unborn" /\ pc' = [pc EXCEPT ![idx] = "loop"]
    BY <1>2, NumCollectorsAssumption
       DEF CreateThread, Goto, LockInv, MainConsistent, TypeOK, Collectors
  <2>2. \A u \in Collectors : /\ pc'[u] \in HalfDone <=> pc[u] \in HalfDone
                              /\ pc'[u] \in Owing <=> pc[u] \in Owing
                              /\ pc'[u] = "levy" <=> pc[u] = "levy"
    BY <2>1 DEF HalfDone, Owing, LockInv, TypeOK
  <2>3. \A c \in Collectors : PaymentDue(c)' <=> PaymentDue(c)
    BY <1>1, <2>2 DEF PaymentDue, Owing
  <2> QED
    BY <1>1, <2>2, <2>3 DEF LedgerBalance, LedgerLevies, LedgerPayments, shared
<1>3. CASE UNCHANGED pc
  BY <1>1, <1>3 DEF LedgerBalance, LedgerLevies, LedgerPayments, PaymentDue, shared
<1> QED
  BY <1>2, <1>3 DEF Main, StopThreads, JoinThread, AllJoined, PrintStatistics, DestroyLocks

LEMMA RefineStep ==
  LockMode # "nolock" /\ LockInv /\ Fresh /\ [Next]_vars
    => [Ledger!Next]_(Ledger!ledgerVars)
<1> SUFFICES ASSUME LockMode # "nolock", LockInv, Fresh, [Next]_vars
             PROVE  Ledger!Next \/ UNCHANGED <<LedgerBalance, LedgerLevies, LedgerPayments>>
  BY DEF Ledger!ledgerVars
<1>1. ASSUME NEW t \in Collectors, Thread(t)
      PROVE  Ledger!Next \/ UNCHANGED <<LedgerBalance, LedgerLevies, LedgerPayments>>
  <2>1. PICK v \in Collectors : v = selected[t]
    BY DEF LockInv, TypeOK
  <2>2. CASE GiveStore(t)
    BY <2>1, <2>2, RefineLevy DEF Ledger!Next, Ledger!Collectors, Collectors
  <2>3. CASE Quiet(t)
    BY <2>3, RefineQuiet
  <2>4. CASE TakeStore(t)
    BY <2>4, RefineTake
  <2>5. CASE CountLevy(t)
    BY <2>5, RefineCountLevy
  <2>6. CASE PayStore(t)
    BY <2>1, <2>6, RefinePay
  <2> QED
    BY <1>1, <2>2, <2>3, <2>4, <2>5, <2>6 DEF Thread, Quiet
<1>2. CASE Main
  BY <1>2, RefineMain
<1>3. CASE UNCHANGED vars
  BY <1>3 DEF vars, shared, locals, LedgerBalance, LedgerLevies, LedgerPayments, PaymentDue
<1> QED
  BY <1>1, <1>2, <1>3 DEF Next, Terminated

\* A build that locks behaves as if every levy happened at once.
THEOREM ImplementsLedger == Spec /\ LockMode # "nolock" => LedgerRefinement
<1> DEFINE Locking == LockMode # "nolock"
<1>1. Locking /\ LockInv /\ Fresh /\ [Next]_vars => [Ledger!Next]_(Ledger!ledgerVars)
  BY RefineStep
<1>2. Locking /\ [Next]_vars => Locking'
  BY BuildFixed
<1> HIDE DEF Locking
<1>3. Spec /\ Locking => LedgerRefinement
  BY FreshInvariant, RefineInit, <1>1, <1>2, PTL DEF Spec, LedgerRefinement, Ledger!Spec
<1> QED
  BY <1>3 DEF Locking

--------------------------------------------------------------------------------
(***************************************************************************)
(* The totals: no money is lost, and no payment is counted that was not    *)
(* levied.                                                                 *)
(***************************************************************************)

\* The threads whose collector has the money that the victim still has, too, and
\* those that have counted the levy and not yet the payment.
Halfway  == {t \in Collectors : pc[t] \in HalfDone}
PaidLate == {t \in Collectors : pc[t] \in {"pay_load", "pay_store"}}

\* In the builds that lock, payments and levies differ by those under way.
CountsBalance ==
  SumFunction(levy_count) = SumFunction(payment_count) + Cardinality(PaidLate)

\* Without locks a payment count may fall back, when a thread stores what it has
\* read long ago plus one.  But there are bounds on the counts and on what has
\* been read of them whose total the levies do not fall behind.
PaymentsBounded ==
  \E bound \in [Collectors -> Nat] :
    /\ \A c \in Collectors : payment_count[c] <= bound[c]
    /\ \A t \in Collectors : pc[t] = "pay_store" => reg[t] <= bound[selected[t]]
    /\ SumFunction(bound) + Cardinality(PaidLate) <= SumFunction(levy_count)

\* The collectors are finitely many, and so are the threads that are anywhere.
LEMMA CollectorsFinite ==
  /\ IsFiniteSet(Collectors) /\ Cardinality(Collectors) = NumCollectors
  /\ \A S \in SUBSET Collectors : IsFiniteSet(S) /\ Cardinality(S) \in Nat
<1>1. IsFiniteSet(Collectors) /\ Cardinality(Collectors) = NumCollectors
  BY FS_Interval, NumCollectorsAssumption DEF Collectors
<1> QED  BY <1>1, FS_Subset, FS_CardinalityType

\* The sum of counters or balances of the collectors is a number, and changing
\* one of them changes it by as much.
LEMMA CollectorsSum ==
  ASSUME NEW f \in [Collectors -> Int]
  PROVE  /\ SumFunction(f) \in Int
         /\ \A c \in Collectors, v \in Int :
              SumFunction([f EXCEPT ![c] = v]) = SumFunction(f) - f[c] + v
<1>1. DOMAIN f = Collectors
  OBVIOUS
<1> QED  BY <1>1, CollectorsFinite, SumType, SumExcept DEF SumFunction

\* All start with the same.
LEMMA CollectorsSame ==
  ASSUME NEW v \in Int
  PROVE  SumFunction([c \in Collectors |-> v]) = NumCollectors * v
BY CollectorsFinite, SumConstant

\* At the start nothing is counted.
LEMMA CollectorsZero == SumFunction([c \in Collectors |-> 0]) = 0
<1>1. SumFunction([c \in Collectors |-> 0]) = NumCollectors * 0
  <2>1. \A v \in Int : SumFunction([c \in Collectors |-> v]) = NumCollectors * v
    BY CollectorsSame
  <2>2. 0 \in Int
    OBVIOUS
  <2> QED  BY <2>1, <2>2, Zenon
<1>2. NumCollectors * 0 = 0
  BY NumCollectorsAssumption
<1> QED  BY <1>1, <1>2

\* main's own steps change no field of a collector and no thread's place but to
\* start it, which puts it where nothing is under way.
LEMMA MainFrame ==
  ASSUME LockInv, Main \/ Terminated \/ UNCHANGED vars
  PROVE  /\ UNCHANGED <<shared, locals>>
         /\ \A u \in Collectors : pc'[u] = pc[u] \/ (pc[u] = "unborn" /\ pc'[u] = "loop")
<1>1. CASE CreateThread
  BY <1>1, NumCollectorsAssumption
     DEF CreateThread, Goto, LockInv, MainConsistent, TypeOK, Collectors
<1>2. CASE StopThreads \/ JoinThread \/ AllJoined \/ PrintStatistics \/ DestroyLocks
           \/ Terminated \/ UNCHANGED vars
  BY <1>2 DEF StopThreads, JoinThread, AllJoined, PrintStatistics, DestroyLocks, Terminated, vars
<1> QED  BY <1>1, <1>2 DEF Main

\* Only the two stores of a transaction move money or change who is halfway.
LEMMA MoneyFrame ==
  ASSUME LockInv, [Next]_vars, \A t \in Collectors : ~TakeStore(t) /\ ~GiveStore(t)
  PROVE  /\ UNCHANGED money /\ Halfway' = Halfway
         /\ \A t \in Halfway : amount'[t] = amount[t]
<1>1. ASSUME NEW t \in Collectors, Thread(t)
      PROVE  /\ UNCHANGED money /\ Halfway' = Halfway
             /\ \A u \in Halfway : amount'[u] = amount[u]
  <2>1. \A u \in Collectors \ {t} : pc'[u] = pc[u] /\ amount'[u] = amount[u]
    BY <1>1, ThreadFrame DEF LockInv
  <2>2. /\ UNCHANGED money /\ (pc'[t] \in HalfDone <=> pc[t] \in HalfDone)
        /\ pc[t] \in HalfDone => amount'[t] = amount[t]
    BY <1>1 DEF LockInv, TypeOK, Thread, EnterLoop, Exit, Select, Lock1, Lock2, Check, Amount,
      TakeLoad, GiveLoad, CountLevy, PayLoad, PayStore, Unlock1, Unlock2, Yield, Goto, shared,
      locals, AfterSelect, AfterLock1, AfterWork, AfterUnlock1, HalfDone
  <2> QED  BY <2>1, <2>2 DEF Halfway
<1>2. CASE Main \/ Terminated \/ UNCHANGED vars
  BY <1>2, MainFrame DEF Halfway, HalfDone, shared, locals
<1> QED  BY <1>1, <1>2 DEF Next

\* No money appears or disappears.
LEMMA MoneyStep ==
  ASSUME LockMode # "nolock", LockInv, Fresh, MoneyConserved, [Next]_vars
  PROVE  MoneyConserved'
<1> DEFINE under == SumFunctionOnSet(amount, Halfway)
<1>0. /\ TypeOK /\ money \in [Collectors -> Int] /\ amount \in [Collectors -> Int]
      /\ Halfway \in SUBSET Collectors
      /\ SumFunction(money) \in Int /\ NumCollectors * StartMoney \in Int /\ under \in Int
      /\ SumFunction(money) = NumCollectors * StartMoney + under
  <2>1. TypeOK /\ Halfway \in SUBSET Collectors
    BY DEF LockInv, Halfway
  <2>2. SumFunction(money) \in Int /\ under \in Int
    BY <2>1, CollectorsSum, CollectorsFinite, SumType DEF TypeOK
  <2> QED  BY <2>1, <2>2, NumCollectorsAssumption, StartMoneyAssumption
           DEF TypeOK, MoneyConserved, Halfway
<1> SUFFICES SumFunction(money') = NumCollectors * StartMoney + SumFunctionOnSet(amount', Halfway')
  BY DEF MoneyConserved, Halfway
<1>1. ASSUME NEW t \in Collectors, TakeStore(t)
      PROVE  SumFunction(money') = NumCollectors * StartMoney + SumFunctionOnSet(amount', Halfway')
  <2>1. money' = [money EXCEPT ![t] = money[t] + amount[t]] /\ amount' = amount
    BY <1>1 DEF TakeStore, Fresh, RegisterFresh, locals
  <2>2. t \notin Halfway /\ Halfway' = Halfway \cup {t}
    BY <1>0, <1>1 DEF TakeStore, Goto, TypeOK, Halfway, HalfDone
  <2>3. money[t] \in Int /\ amount[t] \in Int
    BY <1>0
  <2>4. SumFunction(money') = SumFunction(money) + amount[t]
    <3> DEFINE w == money[t] + amount[t]
    <3>1. w \in Int
      BY <2>3
    <3>2. \A x \in Int : SumFunction([money EXCEPT ![t] = x]) = SumFunction(money) - money[t] + x
      BY <1>0, CollectorsSum
    <3>3. SumFunction(money') = SumFunction(money) - money[t] + w
      BY <2>1, <3>1, <3>2, Zenon
    <3> QED  BY <1>0, <2>3, <3>3
  <2>5. SumFunctionOnSet(amount, Halfway') = amount[t] + under
    <3>1. Halfway' \in SUBSET Collectors /\ t \in Halfway' /\ Halfway' \ {t} = Halfway
      BY <1>0, <2>2
    <3> QED  BY <1>0, <3>1, CollectorsFinite, SumTake
  <2> HIDE DEF under
  <2> QED  BY <1>0, <2>1, <2>3, <2>4, <2>5
<1>2. ASSUME NEW t \in Collectors, GiveStore(t)
      PROVE  SumFunction(money') = NumCollectors * StartMoney + SumFunctionOnSet(amount', Halfway')
  <2> DEFINE v == selected[t]
  <2>1. /\ v \in Collectors
        /\ money' = [money EXCEPT ![v] = money[v] - amount[t]] /\ amount' = amount
    BY <1>0, <1>2 DEF GiveStore, Fresh, RegisterFresh, locals, TypeOK
  <2>2. t \in Halfway /\ Halfway' = Halfway \ {t}
    BY <1>0, <1>2 DEF GiveStore, Goto, TypeOK, Halfway, HalfDone
  <2> HIDE DEF v
  <2>3. money[v] \in Int /\ amount[t] \in Int
    BY <1>0, <2>1
  <2>4. SumFunction(money') = SumFunction(money) - amount[t]
    <3> DEFINE w == money[v] - amount[t]
    <3>1. w \in Int
      BY <2>3
    <3>2. \A x \in Int : SumFunction([money EXCEPT ![v] = x]) = SumFunction(money) - money[v] + x
      BY <1>0, <2>1, CollectorsSum
    <3>3. SumFunction(money') = SumFunction(money) - money[v] + w
      BY <2>1, <3>1, <3>2, Zenon
    <3> QED  BY <1>0, <2>3, <3>3
  <2>5. under = amount[t] + SumFunctionOnSet(amount, Halfway')
    BY <1>0, <2>2, CollectorsFinite, SumTake
  <2>6. SumFunctionOnSet(amount, Halfway') \in Int
    BY <1>0, <2>2, CollectorsFinite, SumType
  <2> HIDE DEF under
  <2> QED  BY <1>0, <2>1, <2>3, <2>4, <2>5, <2>6
<1>3. CASE \A t \in Collectors : ~TakeStore(t) /\ ~GiveStore(t)
  <2>1. money' = money /\ Halfway' = Halfway /\ \A t \in Halfway : amount'[t] = amount[t]
    BY <1>3, MoneyFrame
  <2>2. SumFunctionOnSet(amount', Halfway) = under
    BY <1>0, <2>1, CollectorsFinite, SumSame
  <2> QED  BY <1>0, <2>1, <2>2
<1> QED  BY <1>1, <1>2, <1>3

\* In a build that locks, no money appears or disappears, but for what is both
\* added and not yet subtracted by threads halfway through a transaction.
THEOREM MoneyIsConserved == Spec => []MoneyConserved
<1>1. Init => MoneyConserved
  <2> SUFFICES ASSUME Init PROVE MoneyConserved
    OBVIOUS
  <2>1. {t \in Collectors : pc[t] \in HalfDone} = {}
    BY DEF Init, HalfDone
  <2>2. SumFunction(money) = NumCollectors * StartMoney
    BY CollectorsSame, StartMoneyAssumption DEF Init
  <2>3. NumCollectors * StartMoney \in Int
    BY NumCollectorsAssumption, StartMoneyAssumption
  <2>4. SumFunctionOnSet(amount, {t \in Collectors : pc[t] \in HalfDone}) = 0
    BY <2>1, SumOfNone
  <2> QED  BY <2>2, <2>3, <2>4 DEF MoneyConserved
<1>2. LockInv /\ Fresh /\ MoneyConserved /\ [Next]_vars => MoneyConserved'
  <2>1. CASE LockMode # "nolock"
    BY <2>1, MoneyStep
  <2>2. CASE LockMode = "nolock"
    BY <2>2, BuildFixed DEF MoneyConserved
  <2> QED  BY <2>1, <2>2
<1> QED
  BY FreshInvariant, <1>1, <1>2, PTL DEF Spec

\* Only three steps of a transaction change the counts or who has counted what.
LEMMA CountsFrame ==
  ASSUME LockInv, [Next]_vars,
         \A t \in Collectors : ~CountLevy(t) /\ ~PayLoad(t) /\ ~PayStore(t)
  PROVE  /\ UNCHANGED <<levy_count, payment_count>> /\ PaidLate' = PaidLate
         /\ \A u \in Collectors : pc'[u] = "pay_store" =>
              pc[u] = "pay_store" /\ reg'[u] = reg[u] /\ selected'[u] = selected[u]
<1> DEFINE Kept(u) == /\ pc'[u] \in {"pay_load", "pay_store"} <=> pc[u] \in {"pay_load", "pay_store"}
                      /\ pc'[u] = "pay_store" =>
                           pc[u] = "pay_store" /\ reg'[u] = reg[u] /\ selected'[u] = selected[u]
<1> SUFFICES UNCHANGED <<levy_count, payment_count>> /\ \A u \in Collectors : Kept(u)
  BY DEF PaidLate
<1>1. ASSUME NEW t \in Collectors, Thread(t)
      PROVE  UNCHANGED <<levy_count, payment_count>> /\ \A u \in Collectors : Kept(u)
  <2>1. \A u \in Collectors \ {t} : Kept(u)
    BY <1>1, ThreadFrame DEF LockInv
  <2>2. UNCHANGED <<levy_count, payment_count>> /\ Kept(t)
    BY <1>1 DEF LockInv, TypeOK, Thread, EnterLoop, Exit, Select, Lock1, Lock2, Check, Amount,
      TakeLoad, TakeStore, GiveLoad, GiveStore, Unlock1, Unlock2, Yield, Goto, shared,
      locals, AfterSelect, AfterLock1, AfterWork, AfterUnlock1
  <2> HIDE DEF Kept
  <2> QED  BY <2>1, <2>2
<1>2. CASE Main \/ Terminated \/ UNCHANGED vars
  BY <1>2, MainFrame DEF shared, locals
<1> QED  BY <1>1, <1>2 DEF Next

\* What the three steps do to the counts and to those that have counted.
LEMMA LevyCounted ==
  ASSUME LockInv, NEW t \in Collectors, CountLevy(t)
  PROVE  /\ payment_count' = payment_count
         /\ SumFunction(levy_count') = SumFunction(levy_count) + 1
         /\ Cardinality(PaidLate') = Cardinality(PaidLate) + 1
<1>1. levy_count' = [levy_count EXCEPT ![t] = levy_count[t] + 1] /\ payment_count' = payment_count
  BY DEF CountLevy
<1>2. levy_count \in [Collectors -> Int] /\ levy_count[t] \in Int /\ levy_count[t] + 1 \in Int
  BY DEF LockInv, TypeOK
<1>3. PaidLate \in SUBSET Collectors /\ t \notin PaidLate /\ PaidLate' = PaidLate \cup {t}
  BY DEF CountLevy, Goto, LockInv, TypeOK, PaidLate
<1>4. SumFunction(levy_count') = SumFunction(levy_count) + 1
  <2> DEFINE w == levy_count[t] + 1
  <2>1. w \in Int /\ levy_count' = [levy_count EXCEPT ![t] = w]
    BY <1>1, <1>2
  <2>2. /\ SumFunction(levy_count) \in Int
        /\ \A x \in Int : SumFunction([levy_count EXCEPT ![t] = x]) = SumFunction(levy_count) - levy_count[t] + x
    BY <1>2, CollectorsSum
  <2>3. SumFunction(levy_count') = SumFunction(levy_count) - levy_count[t] + w
    BY <2>1, <2>2, Zenon
  <2> QED  BY <1>2, <2>2, <2>3
<1>5. Cardinality(PaidLate') = Cardinality(PaidLate) + 1
  BY <1>3, CollectorsFinite, FS_AddElement
<1> QED  BY <1>1, <1>4, <1>5

\* The load of the payment count changes nothing that is counted.
LEMMA PaymentLoaded ==
  ASSUME LockInv, NEW t \in Collectors, PayLoad(t)
  PROVE  /\ UNCHANGED <<levy_count, payment_count>> /\ PaidLate' = PaidLate
         /\ reg'[t] = payment_count[selected[t]] /\ selected' = selected
BY DEF PayLoad, Goto, LockInv, TypeOK, PaidLate, shared

\* Its store is one more than what has been read.
LEMMA PaymentStored ==
  ASSUME LockInv, NEW t \in Collectors, PayStore(t)
  PROVE  /\ levy_count' = levy_count /\ selected' = selected
         /\ payment_count' = [payment_count EXCEPT ![selected[t]] = reg[t] + 1]
         /\ pc'[t] # "pay_store"
         /\ Cardinality(PaidLate') = Cardinality(PaidLate) - 1
<1>1. /\ levy_count' = levy_count /\ selected' = selected
      /\ payment_count' = [payment_count EXCEPT ![selected[t]] = reg[t] + 1]
  BY DEF PayStore
<1>2. PaidLate \in SUBSET Collectors /\ t \in PaidLate
  BY DEF PayStore, PaidLate
<1>3. PaidLate' = PaidLate \ {t} /\ pc'[t] # "pay_store"
  BY DEF PayStore, Goto, LockInv, TypeOK, PaidLate, AfterWork
<1>4. Cardinality(PaidLate') = Cardinality(PaidLate) - 1
  BY <1>2, <1>3, CollectorsFinite, FS_RemoveElement
<1> QED  BY <1>1, <1>3, <1>4

\* The totals of the counts are numbers.
LEMMA CountsType ==
  ASSUME LockInv
  PROVE  /\ SumFunction(levy_count) \in Int /\ SumFunction(payment_count) \in Int
         /\ Cardinality(PaidLate) \in Nat
<1>1. levy_count \in [Collectors -> Int] /\ payment_count \in [Collectors -> Int]
  BY DEF LockInv, TypeOK
<1>2. PaidLate \in SUBSET Collectors
  BY DEF PaidLate
<1> QED  BY <1>1, <1>2, CollectorsSum, CollectorsFinite

\* With locks, no payment is lost.
LEMMA BalanceStep ==
  ASSUME LockMode # "nolock", LockInv, Fresh, CountsBalance, [Next]_vars
  PROVE  CountsBalance'
<1> USE CountsType DEF CountsBalance
<1>1. ASSUME NEW t \in Collectors, CountLevy(t) PROVE CountsBalance'
  BY <1>1, LevyCounted
<1>2. ASSUME NEW t \in Collectors, PayLoad(t) PROVE CountsBalance'
  BY <1>2, PaymentLoaded
<1>3. ASSUME NEW t \in Collectors, PayStore(t) PROVE CountsBalance'
  <2> DEFINE v == selected[t]
             w == payment_count[v] + 1
  <2>1. v \in Collectors /\ payment_count \in [Collectors -> Int] /\ w \in Int /\ payment_count[v] \in Int
    BY DEF LockInv, TypeOK
  <2>2. payment_count' = [payment_count EXCEPT ![v] = w]
    BY <1>3, PaymentStored DEF PayStore, Fresh, RegisterFresh
  <2> HIDE DEF v, w
  <2>3. \A x \in Int : SumFunction([payment_count EXCEPT ![v] = x]) = SumFunction(payment_count) - payment_count[v] + x
    BY <2>1, CollectorsSum
  <2>4. SumFunction(payment_count') = SumFunction(payment_count) - payment_count[v] + w
    BY <2>1, <2>2, <2>3, Zenon
  <2>5. SumFunction(payment_count') = SumFunction(payment_count) + 1
    BY <2>1, <2>4 DEF w
  <2> QED  BY <1>3, <2>5, PaymentStored
<1>4. CASE \A t \in Collectors : ~CountLevy(t) /\ ~PayLoad(t) /\ ~PayStore(t)
  BY <1>4, CountsFrame
<1> QED  BY <1>1, <1>2, <1>3, <1>4

\* In a build that locks, print_statictics reports the money the program started
\* with, and as many payments as levies.
THEOREM StatisticsAreExact == Spec => []StatisticsExact
<1> DEFINE Inv == LockMode # "nolock" => CountsBalance
<1>1. Init => CountsBalance
  <2> SUFFICES ASSUME Init PROVE CountsBalance
    OBVIOUS
  <2>1. PaidLate = {}
    BY DEF Init, PaidLate
  <2>2. SumFunction(levy_count) = 0 /\ SumFunction(payment_count) = 0
    BY CollectorsZero DEF Init
  <2> QED  BY <2>1, <2>2, FS_EmptySet DEF CountsBalance
<1>2. LockInv /\ Fresh /\ Inv /\ [Next]_vars => Inv'
  BY BalanceStep, BuildFixed
<1>3. LockInv /\ Inv /\ MoneyConserved => StatisticsExact
  <2> SUFFICES ASSUME LockInv, CountsBalance, LockMode # "nolock", MoneyConserved,
                      main = "print"
               PROVE  /\ SumFunction(money) = NumCollectors * StartMoney
                      /\ SumFunction(levy_count) = SumFunction(payment_count)
    BY DEF StatisticsExact
  <2>1. \A t \in Collectors : pc[t] = "exited"
    BY DEF LockInv, MainConsistent
  <2>2. PaidLate = {} /\ {t \in Collectors : pc[t] \in HalfDone} = {}
    BY <2>1 DEF PaidLate, HalfDone
  <2>3. Cardinality(PaidLate) = 0 /\ SumFunctionOnSet(amount, {t \in Collectors : pc[t] \in HalfDone}) = 0
    BY <2>2, FS_EmptySet, SumOfNone
  <2>4. NumCollectors * StartMoney \in Int
    BY NumCollectorsAssumption, StartMoneyAssumption
  <2> QED  BY <2>3, <2>4, CountsType DEF CountsBalance, MoneyConserved
<1>4. Init => Inv
  BY <1>1
<1> HIDE DEF Inv
<1> QED
  BY FreshInvariant, MoneyIsConserved, <1>2, <1>3, <1>4, PTL DEF Spec

\* In any build, the bounds on the payments keep behind the levies.
LEMMA BoundsStep ==
  ASSUME LockInv, PaymentsBounded, [Next]_vars
  PROVE  PaymentsBounded'
<1> DEFINE Bounds(b) ==
      /\ \A c \in Collectors : payment_count[c] <= b[c]
      /\ \A t \in Collectors : pc[t] = "pay_store" => reg[t] <= b[selected[t]]
      /\ SumFunction(b) + Cardinality(PaidLate) <= SumFunction(levy_count)
<1>1. PICK bound \in [Collectors -> Nat] : Bounds(bound)
  BY DEF PaymentsBounded
<1>2. /\ payment_count \in [Collectors -> Nat] /\ selected \in [Collectors -> Collectors]
      /\ reg \in [Collectors -> Int] /\ bound \in [Collectors -> Int]
      /\ pc \in [Collectors -> Labels]
  BY DEF LockInv, TypeOK
<1>3. SumFunction(bound) \in Int
  BY <1>2, CollectorsSum
<1> SUFFICES \E b \in [Collectors -> Nat] : Bounds(b)'
  BY Zenon DEF PaymentsBounded
<1>4. ASSUME NEW t \in Collectors, CountLevy(t) PROVE Bounds(bound)'
  <2>1. \A u \in Collectors : pc'[u] = "pay_store" => pc[u] = "pay_store"
    BY <1>2, <1>4 DEF CountLevy, Goto
  <2>2. reg' = reg /\ selected' = selected
    BY <1>4 DEF CountLevy, locals
  <2> QED  BY <1>1, <1>3, <1>4, <2>1, <2>2, LevyCounted, CountsType
<1>5. ASSUME NEW t \in Collectors, PayLoad(t) PROVE Bounds(bound)'
  <2>1. \A u \in Collectors \ {t} : pc'[u] = pc[u] /\ reg'[u] = reg[u]
    BY <1>2, <1>5 DEF PayLoad, Goto
  <2>2. selected' = selected /\ UNCHANGED payment_count
    BY <1>5, PaymentLoaded
  <2>3. reg'[t] <= bound[selected'[t]]
    BY <1>1, <1>2, <1>5, <2>2, PaymentLoaded
  <2> QED  BY <1>1, <1>5, <2>1, <2>2, <2>3, PaymentLoaded
<1>6. ASSUME NEW t \in Collectors, PayStore(t) PROVE \E b \in [Collectors -> Nat] : Bounds(b)'
  <2> DEFINE v == selected[t]
             w == bound[v] + 1
             b == [bound EXCEPT ![v] = w]
  <2>1. v \in Collectors /\ w \in Nat /\ bound[v] \in Nat /\ b \in [Collectors -> Nat]
    BY <1>2
  <2>2. \A c \in Collectors : bound[c] <= b[c] /\ b[v] = bound[v] + 1
    BY <2>1
  <2>3. \A c \in Collectors : payment_count'[c] <= b[c]
    <3>1. /\ payment_count'[v] = reg[t] + 1 /\ \A c \in Collectors \ {v} : payment_count'[c] = payment_count[c]
      BY <1>2, <1>6, PaymentStored
    <3>2. reg[t] <= bound[v]
      BY <1>1, <1>6 DEF PayStore
    <3> HIDE DEF b, w, v
    <3>3. payment_count'[v] <= b[v]
      BY <1>2, <2>1, <2>2, <3>1, <3>2
    <3>4. ASSUME NEW c \in Collectors \ {v} PROVE payment_count'[c] <= b[c]
      BY <1>1, <1>2, <2>1, <2>2, <3>1
    <3> QED  BY <3>3, <3>4
  <2>4. \A u \in Collectors : pc'[u] = "pay_store" => reg'[u] <= b[selected'[u]]
    <3> SUFFICES ASSUME NEW u \in Collectors, pc'[u] = "pay_store" PROVE reg'[u] <= b[selected'[u]]
      OBVIOUS
    <3>1. u # t /\ selected' = selected
      BY <1>6, PaymentStored
    <3>2. pc[u] = "pay_store" /\ reg'[u] = reg[u]
      BY <1>2, <1>6, <3>1 DEF PayStore, Goto
    <3>3. reg[u] <= bound[selected[u]] /\ selected[u] \in Collectors
      BY <1>1, <1>2, <3>2
    <3> HIDE DEF b
    <3> QED  BY <1>2, <2>1, <2>2, <3>1, <3>2, <3>3
  <2>5. SumFunction(b) + Cardinality(PaidLate') <= SumFunction(levy_count')
    <3> HIDE DEF v, w
    <3>1. SumFunction(b) = SumFunction(bound) - bound[v] + w
      <4>1. \A x \in Int : SumFunction([bound EXCEPT ![v] = x]) = SumFunction(bound) - bound[v] + x
        BY <1>2, <2>1, CollectorsSum
      <4>2. w \in Int
        BY <2>1
      <4> QED  BY <4>1, <4>2, Zenon
    <3>2. SumFunction(b) = SumFunction(bound) + 1
      BY <1>3, <2>1, <3>1 DEF w
    <3> HIDE DEF b
    <3> QED  BY <1>1, <1>3, <1>6, <3>2, PaymentStored, CountsType
  <2> HIDE DEF b
  <2> QED  BY <2>1, <2>3, <2>4, <2>5
<1>7. CASE \A t \in Collectors : ~CountLevy(t) /\ ~PayLoad(t) /\ ~PayStore(t)
  <2>1. Bounds(bound)'
    BY <1>1, <1>7, CountsFrame
  <2> QED  BY <2>1
<1> QED  BY <1>4, <1>5, <1>6, <1>7

\* In any build, also without locks, print_statictics never reports more payments
\* than levies: a lost update hides payments and makes none up.
THEOREM PaymentsBehindLevies == Spec => []PaymentsNeverExceedLevies
<1>1. Init => PaymentsBounded
  <2> SUFFICES ASSUME Init PROVE PaymentsBounded
    OBVIOUS
  <2> DEFINE b == [c \in Collectors |-> 0]
  <2>1. Cardinality(PaidLate) = 0
    <3>1. PaidLate = {}
      BY DEF Init, PaidLate
    <3> QED  BY <3>1, FS_EmptySet
  <2>2. SumFunction(levy_count) = 0 /\ SumFunction(b) = 0
    BY CollectorsZero DEF Init
  <2>3. /\ b \in [Collectors -> Nat] /\ \A c \in Collectors : payment_count[c] <= b[c]
        /\ \A t \in Collectors : pc[t] # "pay_store"
    BY DEF Init
  <2> HIDE DEF b
  <2> QED  BY <2>1, <2>2, <2>3 DEF PaymentsBounded
<1>2. LockInv /\ PaymentsBounded /\ [Next]_vars => PaymentsBounded'
  BY BoundsStep
<1>3. LockInv /\ PaymentsBounded => PaymentsNeverExceedLevies
  <2> SUFFICES ASSUME LockInv, PaymentsBounded
               PROVE  SumFunction(payment_count) <= SumFunction(levy_count)
    BY DEF PaymentsNeverExceedLevies
  <2>1. PICK bound \in [Collectors -> Nat] :
          /\ \A c \in Collectors : payment_count[c] <= bound[c]
          /\ SumFunction(bound) + Cardinality(PaidLate) <= SumFunction(levy_count)
    BY DEF PaymentsBounded
  <2>2. payment_count \in [Collectors -> Int] /\ bound \in [Collectors -> Int]
    BY DEF LockInv, TypeOK
  <2>3. SumFunction(payment_count) <= SumFunction(bound) /\ SumFunction(bound) \in Int
    BY <2>1, <2>2, CollectorsFinite, CollectorsSum, SumMonotonic
  <2> QED  BY <2>1, <2>3, CountsType
<1> QED
  BY LockInvariant, <1>1, <1>2, <1>3, PTL DEF Spec
================================================================================
