----------------------------- MODULE TestUltProofs -----------------------------
(***************************************************************************)
(* The safety properties of the demonstration program.  All its steps are  *)
(* steps of the thread library, so that what has been proved about the     *)
(* library is known of it.                                                 *)
(***************************************************************************)
EXTENDS TestUlt, UserThreadsRefinement

\* The places in the functions of the three threads.
AtOK ==
  /\ at \in [myInit .. threadB -> {"spawn", "waitpid", "waited", "start", "read", "write", "count",
                                   "readInput", "character", "exit", "stats", "unknown"}]
  /\ at[myInit]  \in {"spawn", "waitpid", "waited"}
  /\ at[threadA] \in {"start", "read", "write", "count"}
  /\ at[threadB] \in {"readInput", "character", "exit", "stats", "unknown"}

\* A read that is written out and not yet counted is there only while threadA
\* has the processor, on its way from the one to the other.
Counting ==
  IF at[threadA] = "count" THEN control = "user" /\ curr = threadA
                           ELSE copyed_bytes = dumped

\* The counters and the clock.
CountersOK ==
  /\ dumped \in 0 .. Wrap - 1 /\ copyed_bytes \in 0 .. Wrap - 1
  /\ at[threadA] = "count" => dumped = (copyed_bytes + 1) % Wrap
  /\ start_time \in 0 .. MaxTime /\ now \in 1 .. MaxTime

\* The position in the line and that of the last store.  The character that is
\* too many ends the process; at a place where one more is to be read the last
\* store was in the buffer (OverrunIsOneByte).
BufferOK ==
  /\ i \in 0 .. BufLen + 1 /\ (i > BufLen => control = "ended")
  /\ stored \in 0 .. BufLen
  /\ OverrunIsOneByte

\* The inductive invariant.
DemoInv == ThreadInv /\ AtOK /\ Counting /\ CountersOK /\ BufferOK

--------------------------------------------------------------------------------

\* Every step of the demonstration is one of the library, or none of its business.
LEMMA DemoUsesLibrary == [NextDemo]_demo => [Next]_vars
<1> SUFFICES ASSUME [NextDemo]_demo PROVE [Next]_vars
  OBVIOUS
<1>1. CASE \/ StartA \/ WriteDump \/ EndLine \/ Second \/ UNCHANGED demo
  BY <1>1 DEF StartA, WriteDump, EndLine, Second, demo
<1>2. CASE SpawnThread \/ WaitForA
  <2>1. threadA \in 0 .. MaxThreads
    BY MaxThreadsAssumption DEF threadA
  <2> QED  BY <1>2, <2>1 DEF SpawnThread, WaitForA, Next, User, LetGo
<1>3. CASE Count \/ Unknown
  BY <1>3 DEF Count, Unknown, Answered, Next, User, LetGo
<1>4. CASE ReadRandom \/ ReadCharacter
  BY <1>4, DescriptorsAssumption DEF ReadRandom, ReadCharacter, Next, User, LetGo
<1>5. CASE StoreCharacter \/ Stats \/ ExitDemo
  BY <1>5 DEF StoreCharacter, Stats, ExitDemo, Answered, Next, User, LetGo
<1>6. CASE Underneath
  BY <1>6 DEF Underneath, Next
<1> QED  BY <1>1, <1>2, <1>3, <1>4, <1>5, <1>6 DEF NextDemo, UserCode

\* Nothing has been copied or typed when the program starts.
LEMMA DemoInit == InitDemo => DemoInv
<1> SUFFICES ASSUME InitDemo PROVE DemoInv
  OBVIOUS
<1>1. ThreadInv
  BY ThreadInit DEF InitDemo
<1>2. at \in [myInit .. threadB -> {"spawn", "start", "readInput"}]
  BY DEF InitDemo, myInit, threadA, threadB
<1>3. AtOK /\ at[threadA] = "start"
  BY <1>2 DEF InitDemo, AtOK, myInit, threadA, threadB
<1>4. Counting /\ CountersOK /\ BufferOK
  BY <1>3, BoundsAssumption DEF InitDemo, Counting, CountersOK, BufferOK, OverrunIsOneByte
<1> QED  BY <1>1, <1>3, <1>4 DEF DemoInv

\* One more, modulo the bound of the counters.
LEMMA WrapRange ==
  ASSUME NEW n \in 0 .. Wrap - 1
  PROVE  (n + 1) % Wrap \in 0 .. Wrap - 1
BY BoundsAssumption

\* Going to another place changes that of one thread.
LEMMA GotoPlace ==
  ASSUME AtOK, NEW t \in myInit .. threadB, NEW place, Goto(t, place),
         place \in IF t = myInit THEN {"spawn", "waitpid", "waited"}
                   ELSE IF t = threadA THEN {"start", "read", "write", "count"}
                   ELSE {"readInput", "character", "exit", "stats", "unknown"}
  PROVE  /\ AtOK' /\ at'[t] = place
         /\ t # threadA => at'[threadA] = at[threadA]
         /\ t # threadB => at'[threadB] = at[threadB]
BY DEF AtOK, Goto, myInit, threadA, threadB

\* Every step keeps the inductive invariant.
LEMMA DemoStep == DemoInv /\ [NextDemo]_demo => DemoInv'
<1> SUFFICES ASSUME DemoInv, [NextDemo]_demo PROVE DemoInv'
  OBVIOUS
<1>1. ThreadInv'
  BY DemoUsesLibrary, ThreadStep DEF DemoInv
<1>2. AtOK /\ Counting /\ CountersOK /\ BufferOK
  BY DEF DemoInv
<1>3. myInit \in myInit .. threadB /\ threadA \in myInit .. threadB /\ threadB \in myInit .. threadB
  BY DEF myInit, threadA, threadB
<1> SUFFICES AtOK' /\ Counting' /\ CountersOK' /\ BufferOK'
  BY <1>1 DEF DemoInv
<1>4. CASE SpawnThread \/ WaitForA
  <2>1. AtOK' /\ at'[threadA] = at[threadA] /\ at'[threadB] = at[threadB]
    BY <1>2, <1>3, <1>4, GotoPlace DEF SpawnThread, WaitForA, myInit, threadA, threadB
  <2>2. at[threadA] # "count"
    BY <1>2, <1>4 DEF SpawnThread, WaitForA, Runs, Counting, myInit, threadA
  <2>3. UNCHANGED <<copying, start_time, now, line>> /\ control # "ended"
    BY <1>4 DEF SpawnThread, WaitForA, Runs
  <2> QED  BY <1>2, <2>1, <2>2, <2>3 DEF Counting, CountersOK, BufferOK, OverrunIsOneByte, line, copying
<1>5. CASE StartA
  <2>1. AtOK' /\ at'[threadA] = "read" /\ at[threadA] = "start" /\ at'[threadB] = at[threadB]
    BY <1>2, <1>3, <1>5, GotoPlace DEF StartA, Runs, myInit, threadA, threadB
  <2> QED  BY <1>2, <1>5, <2>1 DEF StartA, Runs, Counting, CountersOK, BufferOK, OverrunIsOneByte, line, copying, vars
<1>6. CASE ReadRandom
  <2>1. AtOK' /\ at'[threadA] = "write" /\ at[threadA] = "read" /\ at'[threadB] = at[threadB]
    BY <1>2, <1>3, <1>6, GotoPlace DEF ReadRandom, Runs, myInit, threadA, threadB
  <2> QED  BY <1>2, <1>6, <2>1 DEF ReadRandom, Runs, Counting, CountersOK, BufferOK, OverrunIsOneByte, line, copying
<1>7. CASE WriteDump
  <2>1. AtOK' /\ at'[threadA] = "count" /\ at[threadA] = "write" /\ at'[threadB] = at[threadB]
    BY <1>2, <1>3, <1>7, GotoPlace DEF WriteDump, Runs, myInit, threadA, threadB
  <2>2. (dumped + 1) % Wrap \in 0 .. Wrap - 1
    BY <1>2, WrapRange DEF CountersOK
  <2> QED  BY <1>2, <1>7, <2>1, <2>2 DEF WriteDump, Runs, Counting, CountersOK, BufferOK, OverrunIsOneByte, line, vars
<1>8. CASE Count
  <2>1. AtOK' /\ at'[threadA] = "read" /\ at[threadA] = "count" /\ at'[threadB] = at[threadB]
    BY <1>2, <1>3, <1>8, GotoPlace DEF Count, Runs, myInit, threadA, threadB
  <2>2. dumped = (copyed_bytes + 1) % Wrap
    BY <1>2, <2>1 DEF CountersOK
  <2> QED  BY <1>2, <1>8, <2>1, <2>2 DEF Count, Runs, Counting, CountersOK, BufferOK, OverrunIsOneByte, line
<1>9. CASE ReadCharacter \/ EndLine
  <2>1. AtOK' /\ at'[threadA] = at[threadA]
    <3>1. CASE ReadCharacter
      BY <1>2, <1>3, <3>1, GotoPlace DEF ReadCharacter, myInit, threadA, threadB
    <3>2. CASE EndLine
      BY <1>2, <1>3, <3>2, GotoPlace DEF EndLine, myInit, threadA, threadB
    <3> QED  BY <1>9, <3>1, <3>2
  <2>2. control = "user" /\ at[threadA] # "count" /\ UNCHANGED <<copying, start_time, now, i>>
    BY <1>2, <1>9 DEF ReadCharacter, EndLine, Runs, Counting, line, threadA, threadB
  <2>3. BufferOK'
    <3>1. CASE ReadCharacter
      BY <1>2, <3>1 DEF ReadCharacter, Runs, BufferOK, OverrunIsOneByte, line
    <3>2. CASE EndLine
      <4>1. at'[threadB] \in {"exit", "stats", "unknown"}
        BY <1>2, <1>3, <3>2, GotoPlace DEF EndLine, myInit, threadA, threadB
      <4> QED  BY <1>2, <2>2, <3>2, <4>1, BoundsAssumption DEF EndLine, BufferOK, OverrunIsOneByte
    <3> QED  BY <1>9, <3>1, <3>2
  <2> QED  BY <1>2, <2>1, <2>2, <2>3 DEF Counting, CountersOK, copying
<1>10. CASE StoreCharacter
  <2>1. AtOK' /\ at'[threadA] = at[threadA]
    <3>1. CASE UNCHANGED at
      BY <1>2, <3>1 DEF AtOK
    <3>2. CASE Goto(threadB, "readInput")
      BY <1>2, <1>3, <3>2, GotoPlace DEF myInit, threadA, threadB
    <3> QED  BY <1>10, <3>1, <3>2 DEF StoreCharacter
  <2>2. control = "user" /\ at[threadA] # "count" /\ UNCHANGED <<copying, start_time, now>>
    BY <1>2, <1>10 DEF StoreCharacter, Runs, Counting, threadA, threadB
  <2>3. BufferOK'
    BY <1>2, <1>10, <2>2, BoundsAssumption DEF StoreCharacter, ExitProcess, BufferOK, OverrunIsOneByte
  <2> QED  BY <1>2, <2>1, <2>2, <2>3 DEF Counting, CountersOK, copying
<1>11. CASE Stats \/ Unknown
  <2>1. AtOK' /\ at'[threadA] = at[threadA]
    <3>1. CASE UNCHANGED at
      BY <1>2, <3>1 DEF AtOK
    <3>2. CASE Goto(threadB, "readInput")
      BY <1>2, <1>3, <3>2, GotoPlace DEF myInit, threadA, threadB
    <3> QED  BY <1>11, <3>1, <3>2 DEF Stats, Unknown, Answered
  <2>2. control = "user" /\ at[threadA] # "count" /\ UNCHANGED <<copying, start_time, now>>
    BY <1>2, <1>11 DEF Stats, Unknown, Answered, Runs, Counting, threadA, threadB
  <2>3. BufferOK'
    BY <1>2, <1>11, <2>2, BoundsAssumption
      DEF Stats, Unknown, Answered, ExitProcess, BufferOK, OverrunIsOneByte, line
  <2> QED  BY <1>2, <2>1, <2>2, <2>3 DEF Counting, CountersOK, copying
<1>12. CASE ExitDemo
  <2>1. control = "user" /\ at[threadA] # "count"
    BY <1>2, <1>12 DEF ExitDemo, Runs, Counting, threadA, threadB
  <2> QED  BY <1>2, <1>12, <2>1 DEF ExitDemo, ExitProcess, AtOK, Counting, CountersOK, BufferOK, OverrunIsOneByte, line, program, copying
<1>13. CASE Underneath /\ UNCHANGED program
  <2>1. control = "user" => control' = "user" /\ curr' = curr
    BY <1>13 DEF Underneath, Scheduler, HandleNewThreads, OutOfStacks, SelectNextThread, Library,
      WaitpidUnknown, WaitpidDone, WaitpidAgain, ReadDone, ReadAgain, Arrive, Ended, vars
  <2>2. control = "ended" => control' = "ended"
    BY <1>13 DEF Underneath, Scheduler, HandleNewThreads, OutOfStacks, SelectNextThread, Library,
      WaitpidUnknown, WaitpidDone, WaitpidAgain, ReadDone, ReadAgain, Arrive, Ended, vars
  <2> QED  BY <1>2, <1>13, <2>1, <2>2 DEF AtOK, Counting, CountersOK, BufferOK, OverrunIsOneByte, line, program, copying
<1>14. CASE Second
  BY <1>2, <1>14, BoundsAssumption DEF Second, AtOK, Counting, CountersOK, BufferOK, OverrunIsOneByte, line, copying, vars
<1>15. CASE UNCHANGED demo
  BY <1>2, <1>15 DEF demo, AtOK, Counting, CountersOK, BufferOK, OverrunIsOneByte, line, program, copying, vars
<1> QED  BY <1>4, <1>5, <1>6, <1>7, <1>8, <1>9, <1>10, <1>11, <1>12, <1>13, <1>14, <1>15 DEF NextDemo, UserCode

\* The demonstration is a program for the library: whatever holds of every such
\* program, among it the order of turns, holds of this one.
THEOREM DemoIsOfLibrary == FairDemo => Spec
<1>1. InitDemo => Init
  BY DEF InitDemo
<1> QED  BY <1>1, DemoUsesLibrary, PTL DEF FairDemo, Spec

\* ... so that threadA, which copies for ever, and threadB, which polls for input,
\* take turns, and myInit polls between them.
THEOREM DemoTakesTurns == FairDemo => RoundRobinRefinement
BY DemoIsOfLibrary, ImplementsRoundRobin

\* The inductive invariant holds in every state of the program.
THEOREM DemoInvariance == FairDemo => []DemoInv
BY DemoInit, DemoStep, PTL DEF FairDemo

\* Each thread stays within its function, and the counters, the clock and the
\* positions in the line keep their types.
THEOREM DemoTypes == FairDemo => []DemoTypeOK
<1>1. DemoInv => DemoTypeOK
  BY DEF DemoInv, ThreadInv, AtOK, CountersOK, BufferOK, DemoTypeOK
<1> QED  BY <1>1, DemoInvariance, PTL

\* Stores outside the line buffer do happen; for every length of the buffer they
\* are the terminator of a line of exactly this length, or the one character
\* after that many, and always the byte right behind the buffer.
THEOREM OverrunIsBounded == FairDemo => []OverrunIsOneByte
<1>1. DemoInv => OverrunIsOneByte
  BY DEF DemoInv, BufferOK
<1> QED  BY <1>1, DemoInvariance, PTL

\* threadB never sees copyed_bytes behind what has been dumped: threadA is not
\* switched away between the write and the count.
THEOREM CountsAreTrue == FairDemo => []CountsWhatWasDumped
<1>1. DemoInv => CountsWhatWasDumped
  BY DEF DemoInv, Counting, CountsWhatWasDumped, threadA, threadB
<1> QED  BY <1>1, DemoInvariance, PTL
================================================================================
