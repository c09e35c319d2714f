-------------------------------- MODULE TestUlt --------------------------------
(***************************************************************************)
(* lab4/src/test_ult.c, the demonstration program, as the user code of the *)
(* thread library: myInit starts threadA, which copies random bytes, and   *)
(* threadB, which reads commands.  A step of a thread runs to its next     *)
(* call of the library, which is the library's step at the same time.      *)
(***************************************************************************)
EXTENDS UserThreads

CONSTANTS Random,  \* the descriptor of /dev/random
          BufLen,  \* bufLen of threadB: 1024
          MaxTime, \* bound: seconds that pass
          Wrap     \* bound: the counters are kept modulo Wrap

ASSUME DescriptorsAssumption == STDIN_FILENO \in Files /\ Random \in Files \ {STDIN_FILENO}
ASSUME BoundsAssumption == BufLen \in Nat \ {0} /\ MaxTime \in Nat \ {0} /\ Wrap \in Nat \ {0, 1}

VARIABLES
  at,           \* where each thread is in its function
  dumped,       \* reads that threadA has written to /dev/null (counted nowhere in the code)
  copyed_bytes, \* the same as threadA counts them; of how many bytes each is left open
  start_time,   \* a second, 0 before threadA has set it
  now,          \* what time(NULL) returns
  i,            \* characters of the line in buf
  stored        \* the position in buf that was written last (kept nowhere in the code)

copying == <<dumped, copyed_bytes>>
line    == <<i, stored>>
program == <<at, copying, start_time, now, line>>
demo    == <<vars, program>>

myInit  == 0
threadA == 1
threadB == 2

InitDemo ==
  /\ Init
  /\ at = [t \in myInit .. threadB |->
             IF t = myInit THEN "spawn" ELSE IF t = threadA THEN "start" ELSE "readInput"]
  /\ dumped = 0 /\ copyed_bytes = 0
  /\ start_time = 0 /\ now = 1
  /\ i = 0 /\ stored = 0

Runs(t, place) == control = "user" /\ curr = t /\ at[t] = place

Goto(t, place) == at' = [at EXCEPT ![t] = place]

--------------------------------------------------------------------------------
(***************************************************************************)
(* myInit.  The wait for threadA, which never ends, is its last call: what *)
(* stands behind it is not reached.                                        *)
(***************************************************************************)

SpawnThread ==
  /\ Runs(myInit, "spawn")
  /\ Spawn
  /\ Goto(myInit, IF threadCounter = threadA THEN "spawn" ELSE "waitpid")
  /\ UNCHANGED <<copying, start_time, now, line>>

WaitForA ==
  /\ Runs(myInit, "waitpid")
  /\ WaitpidCall(threadA)
  /\ Goto(myInit, "waited")
  /\ UNCHANGED <<copying, start_time, now, line>>

--------------------------------------------------------------------------------
(***************************************************************************)
(* threadA.                                                                *)
(***************************************************************************)

StartA ==
  /\ Runs(threadA, "start")
  /\ start_time' = now
  /\ Goto(threadA, "read")
  /\ UNCHANGED <<vars, copying, now, line>>

ReadRandom ==
  /\ Runs(threadA, "read")
  /\ ReadAtOnce(Random) \/ ReadBlocks(Random)
  /\ Goto(threadA, "write")
  /\ UNCHANGED <<copying, start_time, now, line>>

\* Mutated form: the other threads run before the bytes are counted.
WriteDumpYield ==
  /\ Runs(threadA, "write")
  /\ dumped' = (dumped + 1) % Wrap
  /\ Goto(threadA, "count")
  /\ Yield
  /\ UNCHANGED <<copyed_bytes, start_time, now, line>>

WriteDump ==
  /\ Runs(threadA, "write")
  /\ dumped' = (dumped + 1) % Wrap
  /\ Goto(threadA, "count")
  /\ UNCHANGED <<vars, copyed_bytes, start_time, now, line>>

\* copyed_bytes += len, and ult_yield.
Count ==
  /\ Runs(threadA, "count")
  /\ copyed_bytes' = (copyed_bytes + 1) % Wrap
  /\ Goto(threadA, "read")
  /\ Yield
  /\ UNCHANGED <<dumped, start_time, now, line>>

--------------------------------------------------------------------------------
(***************************************************************************)
(* threadB.                                                                *)
(***************************************************************************)

\* readInput: ult_read of one character.
ReadCharacter ==
  /\ Runs(threadB, "readInput")
  /\ ReadAtOnce(STDIN_FILENO) \/ ReadBlocks(STDIN_FILENO)
  /\ Goto(threadB, "character")
  /\ UNCHANGED <<copying, start_time, now, line>>

\* Mutated form: one more character is taken.
StoreCharacterOneMore ==
  /\ Runs(threadB, "character")
  /\ stored' = i /\ i' = i + 1
  /\ IF i' > BufLen + 1 THEN ExitProcess /\ UNCHANGED at
                        ELSE Goto(threadB, "readInput") /\ UNCHANGED vars
  /\ UNCHANGED <<copying, start_time, now>>

\* It is stored, and only then compared with the length of the buffer: the first
\* one that is too many is stored at BufLen, which is outside, before realloc
\* is called with the address of a local variable, which ends the process.
StoreCharacter ==
  /\ Runs(threadB, "character")
  /\ stored' = i /\ i' = i + 1
  /\ IF i' > BufLen THEN ExitProcess /\ UNCHANGED at
                    ELSE Goto(threadB, "readInput") /\ UNCHANGED vars
  /\ UNCHANGED <<copying, start_time, now>>

\* It was the end of the line or of the input, and the terminator is stored: of a
\* line of BufLen characters outside, at BufLen, and the program goes on.  `fish'
\* only changes a wording, and is an unknown command here.
EndLine ==
  /\ Runs(threadB, "character")
  /\ stored' = i
  /\ \E command \in IF i = 0 THEN {"unknown"} ELSE {"exit", "stats", "unknown"} :
       Goto(threadB, command)
  /\ UNCHANGED <<vars, copying, start_time, now, i>>

\* The line is emptied, buf[0] = '\0', and the processor is given away.
Answered ==
  /\ Yield
  /\ Goto(threadB, "readInput")
  /\ stored' = 0 /\ i' = 0

\* copyed_bytes / (currTime - start_time): a division by zero ends the process.
Stats ==
  /\ Runs(threadB, "stats")
  /\ IF now = start_time THEN ExitProcess /\ UNCHANGED <<at, line>> ELSE Answered
  /\ UNCHANGED <<copying, start_time, now>>

Unknown ==
  /\ Runs(threadB, "unknown")
  /\ Answered
  /\ UNCHANGED <<copying, start_time, now>>

ExitDemo ==
  /\ Runs(threadB, "exit")
  /\ ExitProcess
  /\ UNCHANGED program

--------------------------------------------------------------------------------

Second ==
  /\ now < MaxTime
  /\ now' = now + 1
  /\ UNCHANGED <<vars, at, copying, start_time, line>>

UserCode == \/ SpawnThread \/ WaitForA
            \/ StartA \/ ReadRandom \/ WriteDump \/ Count
            \/ ReadCharacter \/ StoreCharacter \/ EndLine \/ Stats \/ Unknown \/ ExitDemo

Underneath == Scheduler \/ Library \/ (\E fd \in Files : Arrive(fd)) \/ Ended

NextDemo == UserCode \/ (Underneath /\ UNCHANGED program) \/ Second

\* One process, that runs: what it does is code of the scheduler, of the library
\* or of the three threads.  Nothing is assumed about input or time.
FairDemo ==
  /\ InitDemo /\ [][NextDemo]_demo
  /\ WF_demo(UserCode \/ ((Scheduler \/ Library) /\ UNCHANGED program))

--------------------------------------------------------------------------------
(***************************************************************************)
(* Properties.                                                             *)
(***************************************************************************)

DemoTypeOK ==
  /\ TypeOK
  /\ at[myInit]  \in {"spawn", "waitpid", "waited"}
  /\ at[threadA] \in {"start", "read", "write", "count"}
  /\ at[threadB] \in {"readInput", "character", "exit", "stats", "unknown"}
  /\ dumped \in 0 .. Wrap - 1 /\ copyed_bytes \in 0 .. Wrap - 1
  /\ start_time \in 0 .. MaxTime /\ now \in 1 .. MaxTime
  /\ i \in 0 .. BufLen + 1 /\ stored \in 0 .. BufLen

\* The threads share copyed_bytes without a lock, and rely on being switched in
\* library calls only: whenever threadB runs, every read that has been written
\* out has been counted.
CountsWhatWasDumped == control = "user" /\ curr = threadB => copyed_bytes = dumped

\* readInput has no room for the terminator of a line as long as the buffer, so
\* a store outside cannot be excluded.  It is excluded that it goes further: what
\* is written outside is the one byte behind the buffer, of a line that fills it,
\* and no character of this line is read any more -- either it is complete and
\* waits for its answer, or the process has ended.
OverrunIsOneByte ==
  stored >= BufLen =>
    /\ stored = BufLen /\ i >= BufLen
    /\ control = "ended" \/ at[threadB] \notin {"readInput", "character"}

\* Whatever threadA reads or blocks on and although myInit polls for ever, a
\* character or the end of the input that has arrived is read by threadB: its
\* call of ult_read returns.  While that call is blocked threadB stands at
\* "character" too, which does not count.
InputIsRead ==
  STDIN_FILENO \in readable ~>
    \/ STDIN_FILENO \notin readable
    \/ at[threadB] = "character" /\ ~Reads(threadB, STDIN_FILENO)
    \/ control = "ended"

\* "Zeit seit start des Thread" and "Durchsatz" (test_ult.c, threadB): `stats'
\* finds a thread that has started, and some time since.
StatsDefined ==
  Runs(threadB, "stats") => start_time # 0 /\ now # start_time
================================================================================
