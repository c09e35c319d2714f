------------------------------ MODULE UserThreads ------------------------------
(***************************************************************************)
(* lab4/src/ult.c, the user-level thread library.  One kernel thread runs  *)
(* everything: control is in the scheduler, in a library call or in the    *)
(* code of the current user thread, and moves between them by longjmp.  A  *)
(* step goes from one of these places to the next.  What the user threads  *)
(* do is left open: each may make any library call at any time.            *)
(***************************************************************************)
EXTENDS Integers, SequencesExt

CONSTANTS MaxThreads, \* bound: threads ever spawned
          StackLimit, \* how many stacks malloc can provide
          Files       \* file descriptors that are read

STDIN_FILENO == 0

Threads == 0 .. MaxThreads - 1

None == -1

ASSUME MaxThreadsAssumption == MaxThreads \in Nat \ {0}
ASSUME StackLimitAssumption == StackLimit \in Nat
ASSUME FilesAssumption == Files \subseteq Nat

VARIABLES
  newThreads,    \* newThreadRoot: ids spawned and not yet created, latest first
  threadList,    \* threadListRoot: ids of all threads created
  threadCounter, \* the next id
  curr,          \* currRunningThread
  zombies,       \* the threads with isZombie set
  jumpPoint,     \* where longjmp would resume each thread
  arg,           \* argument of the library call a thread is in: tid or fd
  control,       \* where the processor is
  readable       \* files that select would report

lists == <<newThreads, threadList, threadCounter>>
vars  == <<lists, curr, zombies, jumpPoint, arg, control, readable>>

\* User code, ult_waitpid after its first and after a later ult_yield, and
\* ult_read after an ult_yield: where a thread can run, and be resumed.
Places == {"user", "find", "poll", "read"}

--------------------------------------------------------------------------------

\* ult_init: the lists are empty but for the first thread, then scheduling starts.
Init ==
  /\ newThreads = <<0>> /\ threadList = <<>> /\ threadCounter = 1
  /\ curr = None
  /\ zombies = {}
  /\ jumpPoint = [t \in Threads |-> "none"]
  /\ arg = [t \in Threads |-> None]
  /\ control = "cycle"
  /\ readable = {}

--------------------------------------------------------------------------------
(***************************************************************************)
(* The scheduler: startScheduling from its setjmp on.                      *)
(***************************************************************************)

\* Mutated form: the list of new threads is not emptied.
HandleNewThreadsAgain ==
  /\ control = "cycle"
  /\ Len(threadList) + Len(newThreads) <= StackLimit
  /\ threadList' = Reverse(newThreads) \o threadList
  /\ jumpPoint' = [t \in Threads |-> IF t \in ToSet(newThreads) THEN "user" ELSE jumpPoint[t]]
  /\ control' = "select"
  /\ UNCHANGED <<newThreads, threadCounter, curr, zombies, arg, readable>>

\* Mutated form: new threads are put at the end that is scheduled next.
HandleNewThreadsLast ==
  /\ control = "cycle"
  /\ Len(threadList) + Len(newThreads) <= StackLimit
  /\ threadList' = threadList \o Reverse(newThreads)
  /\ newThreads' = <<>>
  /\ jumpPoint' = [t \in Threads |-> IF t \in ToSet(newThreads) THEN "user" ELSE jumpPoint[t]]
  /\ control' = "select"
  /\ UNCHANGED <<threadCounter, curr, zombies, arg, readable>>

\* handleNewThreads: each new thread gets its stack and is put in front, the
\* latest first, so that the one spawned first ends up at the head.
HandleNewThreads ==
  /\ control = "cycle"
  /\ Len(threadList) + Len(newThreads) <= StackLimit
  /\ threadList' = Reverse(newThreads) \o threadList
  /\ newThreads' = <<>>
  /\ jumpPoint' = [t \in Threads |-> IF t \in ToSet(newThreads) THEN "user" ELSE jumpPoint[t]]
  /\ control' = "select"
  /\ UNCHANGED <<threadCounter, curr, zombies, arg, readable>>

\* createThread exits the process when malloc has no stack left: no stack is
\* ever freed, those of zombies included.
OutOfStacks ==
  /\ control = "cycle"
  /\ Len(threadList) + Len(newThreads) > StackLimit
  /\ control' = "ended"
  /\ UNCHANGED <<lists, curr, zombies, jumpPoint, arg, readable>>

\* The last element of the list moves to its front.
Rotated(list) == <<Last(list)>> \o Front(list)

\* Mutated form: a zombie is not passed over.
SelectAnyThread ==
  /\ control = "select"
  /\ threadList' = Rotated(threadList)
  /\ curr' = Head(threadList') /\ control' = "user"
  /\ UNCHANGED <<newThreads, threadCounter, zombies, jumpPoint, arg, readable>>

\* Mutated form: the head of the list is taken as long as it is alive.
SelectHeadFirst ==
  /\ control = "select"
  /\ threadList' = IF Head(threadList) \in zombies THEN Rotated(threadList) ELSE threadList
  /\ LET selected == Head(threadList') IN
       IF selected \in zombies
         THEN UNCHANGED <<curr, control>>
         ELSE curr' = selected /\ control' = jumpPoint[selected]
  /\ UNCHANGED <<newThreads, threadCounter, zombies, jumpPoint, arg, readable>>

\* One round of the loop in selectNextThread and, when it has found a thread
\* that is no zombie, runThread.  With none but zombies the loop never ends.
SelectNextThread ==
  /\ control = "select"
  /\ threadList' = Rotated(threadList)
  /\ LET selected == Head(threadList') IN
       IF selected \in zombies
         THEN UNCHANGED <<curr, control>>
         ELSE curr' = selected /\ control' = jumpPoint[selected]
  /\ UNCHANGED <<newThreads, threadCounter, zombies, jumpPoint, arg, readable>>

\* ult_yield: the place is saved in the jump point, then the scheduler runs.
YieldAt(place) ==
  /\ jumpPoint' = [jumpPoint EXCEPT ![curr] = place]
  /\ control' = "cycle"

--------------------------------------------------------------------------------
(***************************************************************************)
(* What a user thread calls.                                               *)
(***************************************************************************)

\* Mutated form: the id is the counter after its increment.
SpawnPreIncrement ==
  /\ control = "user" /\ threadCounter < MaxThreads
  /\ newThreads' = <<threadCounter + 1>> \o newThreads
  /\ threadCounter' = threadCounter + 1
  /\ UNCHANGED <<threadList, curr, zombies, jumpPoint, arg, control, readable>>

\* ult_spawn: no scheduling takes place here.
Spawn ==
  /\ control = "user" /\ threadCounter < MaxThreads
  /\ newThreads' = <<threadCounter>> \o newThreads
  /\ threadCounter' = threadCounter + 1
  /\ UNCHANGED <<threadList, curr, zombies, jumpPoint, arg, control, readable>>

Yield ==
  /\ control = "user"
  /\ YieldAt("user")
  /\ UNCHANGED <<lists, curr, zombies, arg, readable>>

\* ult_exit, also called when the thread's function returns.  The jump point is
\* zeroed; the status is stored nowhere.
Exit ==
  /\ control = "user"
  /\ zombies' = zombies \cup {curr}
  /\ jumpPoint' = [jumpPoint EXCEPT ![curr] = "zeroed"]
  /\ control' = "cycle"
  /\ UNCHANGED <<lists, curr, arg, readable>>

\* Any thread may call exit, as threadB of test_ult.c does.
ExitProcess ==
  /\ control = "user"
  /\ control' = "ended"
  /\ UNCHANGED <<lists, curr, zombies, jumpPoint, arg, readable>>

\* Mutated form: the thread is looked up without yielding first.
WaitpidCallAtOnce(tid) ==
  /\ control = "user"
  /\ arg' = [arg EXCEPT ![curr] = tid]
  /\ control' = "find"
  /\ UNCHANGED <<lists, curr, zombies, jumpPoint, readable>>

\* ult_waitpid(tid, &status) yields before it looks for the thread: by the time
\* it is resumed the threads spawned in the meantime have been created.
WaitpidCall(tid) ==
  /\ control = "user"
  /\ YieldAt("find")
  /\ arg' = [arg EXCEPT ![curr] = tid]
  /\ UNCHANGED <<lists, curr, zombies, readable>>

Return ==
  /\ arg' = [arg EXCEPT ![curr] = None]
  /\ control' = "user"

\* findThread: the thread is in the list, dead or alive.
Found(tid) == tid \in ToSet(threadList)

\* ult_waitpid returns -1.
WaitpidUnknown ==
  /\ control = "find"
  /\ ~Found(arg[curr])
  /\ Return
  /\ UNCHANGED <<lists, curr, zombies, jumpPoint, readable>>

\* Mutated form: the caller's own isZombie is tested.
WaitpidDoneSelf ==
  /\ control = "find" => Found(arg[curr])
  /\ control \in {"find", "poll"}
  /\ curr \in zombies
  /\ Return
  /\ UNCHANGED <<lists, curr, zombies, jumpPoint, readable>>

\* ult_waitpid returns 0; *status is not assigned.
WaitpidDone ==
  /\ control = "find" => Found(arg[curr])
  /\ control \in {"find", "poll"}
  /\ arg[curr] \in zombies
  /\ Return
  /\ UNCHANGED <<lists, curr, zombies, jumpPoint, readable>>

\* The thread is alive: the caller lets the others run and looks again.
WaitpidAgain ==
  /\ control = "find" => Found(arg[curr])
  /\ control \in {"find", "poll"}
  /\ arg[curr] \notin zombies
  /\ YieldAt("poll")
  /\ UNCHANGED <<lists, curr, zombies, arg, readable>>

\* read(fd, ...) returns what there is; more may be left, or the end of the file.
Consume(fd) == readable' \in {readable, readable \ {fd}}

\* ult_read(fd, ...) when its first select reports the file ...
ReadAtOnce(fd) ==
  /\ control = "user"
  /\ fd \in readable
  /\ Consume(fd)
  /\ UNCHANGED <<lists, curr, zombies, jumpPoint, arg, control>>

\* ... and when it does not.
ReadBlocks(fd) ==
  /\ control = "user"
  /\ fd \notin readable
  /\ YieldAt("read")
  /\ arg' = [arg EXCEPT ![curr] = fd]
  /\ UNCHANGED <<lists, curr, zombies, readable>>

\* Mutated form: no file is put into the set before the second select.
SelectedAfterYieldNone(fd) == FALSE

\* Within the loop of ult_read the set passed to select holds STDIN_FILENO,
\* whatever fd is.
SelectedAfterYield(fd) == fd = STDIN_FILENO /\ STDIN_FILENO \in readable

ReadDone ==
  /\ control = "read"
  /\ SelectedAfterYield(arg[curr])
  /\ Consume(arg[curr])
  /\ Return
  /\ UNCHANGED <<lists, curr, zombies, jumpPoint>>

ReadAgain ==
  /\ control = "read"
  /\ ~SelectedAfterYield(arg[curr])
  /\ YieldAt("read")
  /\ UNCHANGED <<lists, curr, zombies, arg, readable>>

--------------------------------------------------------------------------------

\* Data arrives, or the end of the file.
Arrive(fd) ==
  /\ control # "ended"
  /\ fd \notin readable
  /\ readable' = readable \cup {fd}
  /\ UNCHANGED <<lists, curr, zombies, jumpPoint, arg, control>>

\* The process has ended.
Ended == control = "ended" /\ UNCHANGED vars

Scheduler == HandleNewThreads \/ OutOfStacks \/ SelectNextThread

Library == WaitpidUnknown \/ WaitpidDone \/ WaitpidAgain \/ ReadDone \/ ReadAgain

\* The calls by which user code parts with the processor.
LetGo == \/ Yield \/ Exit \/ ExitProcess
         \/ \E tid \in 0 .. MaxThreads : WaitpidCall(tid)
         \/ \E fd \in Files : ReadBlocks(fd)

User == Spawn \/ LetGo \/ \E fd \in Files : ReadAtOnce(fd)

Next == Scheduler \/ Library \/ User \/ (\E fd \in Files : Arrive(fd)) \/ Ended

Spec == Init /\ [][Next]_vars

\* The process runs, and the user threads are cooperative: none keeps the
\* processor forever.  Nothing is assumed about input.
FairSpec == /\ Spec
            /\ WF_vars(Scheduler) /\ WF_vars(Library)
            /\ WF_vars(LetGo)

--------------------------------------------------------------------------------
(***************************************************************************)
(* Properties.                                                             *)
(***************************************************************************)

TypeOK ==
  /\ newThreads \in Seq(Threads) /\ threadList \in Seq(Threads)
  /\ threadCounter \in 1 .. MaxThreads
  /\ curr \in Threads \cup {None}
  /\ zombies \subseteq Threads
  /\ jumpPoint \in [Threads -> Places \cup {"none", "zeroed"}]
  /\ arg \in [Threads -> 0 .. MaxThreads \cup Files \cup {None}]
  /\ control \in Places \cup {"cycle", "select", "ended"}
  /\ readable \subseteq Files

\* Every thread ever spawned is exactly once in the two lists: moving elements
\* from list to list and from end to end loses and doubles none.
EachListedOnce ==
  LET all == newThreads \o threadList IN
  /\ Len(all) = threadCounter
  /\ ToSet(all) = 0 .. threadCounter - 1

\* A jump point is one of the places that longjmp may go to exactly as long as
\* the thread is created and alive, and a zombie never gets the processor again.
JumpPointsValid ==
  \A t \in Threads :
    /\ t \in zombies <=> jumpPoint[t] = "zeroed"
    /\ Found(t) <=> jumpPoint[t] # "none"
    /\ control \in Places /\ curr = t => t = Head(threadList) /\ t \notin zombies

\* ult_waitpid finds every thread that has been spawned, also one that was still
\* to be created when it was called: it fails for ids never given out only.
WaitpidFindsSpawned ==
  control = "find" /\ arg[curr] \in 0 .. threadCounter - 1 => Found(arg[curr])

\* For each n, those of the first n threads of a list that are not dead, the last
\* one first: the order in which selectNextThread comes to them.
Alive(list, dead) ==
  LET alive[n \in 0 .. Len(list)] ==
        IF n = 0 THEN <<>>
        ELSE IF list[n] \in dead THEN alive[n - 1] ELSE <<list[n]>> \o alive[n - 1]
  IN  alive

\* Whose turn it is, is what RoundRobin says.
Turns == INSTANCE RoundRobin WITH
  ready   <- Alive(threadList, zombies)[Len(threadList)],
  pending <- newThreads,
  running <- IF control \in Places THEN curr ELSE None

RoundRobinRefinement == Turns!Spec

\* Nobody starves: a thread that is alive gets the processor again, whatever
\* the others wait for, unless the process ends.
NobodyStarves ==
  \A t \in Threads :
    (t < threadCounter /\ t \notin zombies)
      ~> (control = "ended" \/ (control \in Places /\ curr = t))

\* Thread t is in ult_waitpid for tid, suspended or polling.
WaitsFor(t, tid) ==
  arg[t] = tid /\ (IF control \in Places /\ curr = t THEN control ELSE jumpPoint[t]) \in {"find", "poll"}

\* A thread that waits for another one that has exited gets to know.
WaitpidReturns ==
  \A t \in Threads, tid \in Threads :
    (WaitsFor(t, tid) /\ tid \in zombies) ~> (control = "ended" \/ ~WaitsFor(t, tid))

\* Thread t is in ult_read of fd, suspended or polling.
Reads(t, fd) ==
  arg[t] = fd /\ (IF control \in Places /\ curr = t THEN control ELSE jumpPoint[t]) = "read"

\* A thread blocked in ult_read on a file that stays readable gets its data.
ReadWakes(fd) ==
  \A t \in Threads :
    (Reads(t, fd) /\ fd \in readable)
      ~> (control = "ended" \/ fd \notin readable \/ ~Reads(t, fd))

StdinReadWakes == ReadWakes(STDIN_FILENO)

\* "bei nachfolgenden Aufrufen des Schedulers ... soll der aktuelle Thread
\* geweckt werden": the same for every file (ult.c, comment of ult_read).
EveryReadWakes == \A fd \in Files : ReadWakes(fd)
================================================================================
