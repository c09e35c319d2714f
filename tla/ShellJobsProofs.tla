---------------------------- MODULE ShellJobsProofs ----------------------------
(***************************************************************************)
(* The safety properties of ShellJobs for every set of process ids and     *)
(* every length of a pipeline.                                             *)
(***************************************************************************)
EXTENDS ShellJobs, TLAPS

\* What is true at each place of the main thread.  It is here that the order of
\* the code's steps counts: a foreground call enters the waiting loop with the
\* flag reset and call_fg_pid set, so that SIGINT cannot set the flag again.
Position ==
  /\ pc = "fork" => command \in {"foreground", "background"} /\ stages # 0
  /\ pc = "add" => /\ command \in {"foreground", "background"}
                   /\ pid \in Pids \ listed /\ proc[pid] \in {"running", "zombie"}
  /\ pc = "setFg" => command = "foreground" /\ pid \in listed \ finished
  /\ pc \in {"reset", "scan", "loop", "reap"} => command \in {"foreground", "wait"}
  /\ pc \in {"reset", "scan", "loop", "reap"} /\ command = "foreground" =>
       pid \in listed \ finished /\ call_fg_pid = pid /\ pids = {pid}
  /\ pc \in {"scan", "loop", "reap"} /\ command = "foreground" => ~bj_interrupted
  /\ pc \in {"loop", "reap"} => pids \cap finished = {} /\ pids \cap listed # {}
  /\ pc = "report" => command = "wait" /\ pid \in Pids \ listed /\ proc[pid] # "running"
  /\ pc = "clear" => /\ command = "foreground" /\ call_fg_pid = pid
                     /\ pid \in Pids \ listed /\ proc[pid] = "free"
  /\ call_fg_pid # NoPid => /\ command = "foreground"
                            /\ pc \in {"reset", "scan", "loop", "reap", "clear"}
  /\ pc # "failed"

\* The inductive invariant.
JobInv == TypeOK /\ JobListAccurate /\ Position

\* The shell starts without children or jobs.
LEMMA JobInit == Init => JobInv
<1> SUFFICES ASSUME Init PROVE JobInv
  OBVIOUS
<1> USE DEF Init
<1>1. TypeOK
  <2>1. proc \in [Pids -> ProcStates]
    BY DEF ProcStates
  <2>2. stages \in 0 .. MaxStages
    BY MaxStagesAssumption
  <2>3. bj_interrupted \in BOOLEAN
    BY Zenon
  <2> QED  BY <2>1, <2>2, <2>3 DEF TypeOK, Locations, Commands
<1>2. JobListAccurate
  BY DEF JobListAccurate
<1>3. Position
  BY DEF Position
<1> QED  BY <1>1, <1>2, <1>3 DEF JobInv

\* Every step of the shell, of the handler, of the user and of a child keeps the
\* invariant.
LEMMA JobStep == JobInv /\ [Next]_vars => JobInv'
<1> SUFFICES ASSUME TypeOK, JobListAccurate, Position, [Next]_vars
             PROVE  JobInv'
  BY DEF JobInv
<1> USE NoPidAssumption, MaxStagesAssumption
<1>1. ASSUME NEW p \in Pids, Fork(p) PROVE JobInv'
  <2> USE <1>1 DEF Fork, Available, line, jobs
  <2>1. TypeOK'
    BY DEF TypeOK, Locations, Commands, ProcStates, Position
  <2>2. JobListAccurate'
    BY DEF TypeOK, JobListAccurate, Position, ProcStates
  <2>3. Position'
    BY DEF TypeOK, JobListAccurate, Position, ProcStates
  <2> QED  BY <2>1, <2>2, <2>3 DEF JobInv
<1>2. CASE ForkError
  <2> USE <1>2 DEF ForkError, line, jobs
  <2>1. TypeOK'
    BY DEF TypeOK, Locations, Commands, ProcStates, Position
  <2>2. JobListAccurate'
    BY DEF TypeOK, JobListAccurate, Position, ProcStates
  <2>3. Position'
    BY DEF TypeOK, JobListAccurate, Position, ProcStates
  <2> QED  BY <2>1, <2>2, <2>3 DEF JobInv
<1>3. CASE AddBackground
  <2> USE <1>3 DEF AddBackground, Prompt, line, jobs
  <2>1. TypeOK'
    BY DEF TypeOK, Locations, Commands, ProcStates, Position
  <2>2. JobListAccurate'
    BY DEF TypeOK, JobListAccurate, Position, ProcStates
  <2>3. Position'
    BY DEF TypeOK, JobListAccurate, Position, ProcStates
  <2> QED  BY <2>1, <2>2, <2>3 DEF JobInv
<1>4. CASE AddForeground
  <2> USE <1>4 DEF AddForeground, line, jobs
  <2>1. TypeOK'
    BY DEF TypeOK, Locations, Commands, ProcStates, Position
  <2>2. JobListAccurate'
    BY DEF TypeOK, JobListAccurate, Position, ProcStates
  <2>3. Position'
    BY DEF TypeOK, JobListAccurate, Position, ProcStates
  <2> QED  BY <2>1, <2>2, <2>3 DEF JobInv
<1>5. CASE SetFg
  <2> USE <1>5 DEF SetFg, line, jobs
  <2>1. TypeOK'
    BY DEF TypeOK, Locations, Commands, ProcStates, Position
  <2>2. JobListAccurate'
    BY DEF TypeOK, JobListAccurate, Position, ProcStates
  <2>3. Position'
    BY DEF TypeOK, JobListAccurate, Position, ProcStates
  <2> QED  BY <2>1, <2>2, <2>3 DEF JobInv
<1>6. CASE ClearFg
  <2> USE <1>6 DEF ClearFg, Prompt, line, jobs
  <2>1. TypeOK'
    BY DEF TypeOK, Locations, Commands, ProcStates, Position
  <2>2. JobListAccurate'
    BY DEF TypeOK, JobListAccurate, Position, ProcStates
  <2>3. Position'
    BY DEF TypeOK, JobListAccurate, Position, ProcStates
  <2> QED  BY <2>1, <2>2, <2>3 DEF JobInv
<1>7. CASE Reset
  <2> USE <1>7 DEF Reset, line, jobs
  <2>1. TypeOK'
    BY DEF TypeOK, Locations, Commands, ProcStates, Position
  <2>2. JobListAccurate'
    BY DEF TypeOK, JobListAccurate, Position, ProcStates
  <2>3. Position'
    BY DEF TypeOK, JobListAccurate, Position, ProcStates
  <2> QED  BY <2>1, <2>2, <2>3 DEF JobInv
<1>8. CASE ScanFinished
  <2> USE <1>8 DEF ScanFinished, ReturnJob, line, jobs
  <2>1. TypeOK'
    BY DEF TypeOK, Locations, Commands, ProcStates, Position
  <2>2. JobListAccurate'
    BY DEF TypeOK, JobListAccurate, Position, ProcStates
  <2>3. Position'
    BY DEF TypeOK, JobListAccurate, Position, ProcStates
  <2> QED  BY <2>1, <2>2, <2>3 DEF JobInv
<1>9. CASE ScanNone
  <2> USE <1>9 DEF ScanNone, ReturnNull, Prompt, line, jobs
  <2>1. TypeOK'
    BY DEF TypeOK, Locations, Commands, ProcStates, Position
  <2>2. JobListAccurate'
    BY DEF TypeOK, JobListAccurate, Position, ProcStates
  <2>3. Position'
    BY DEF TypeOK, JobListAccurate, Position, ProcStates
  <2> QED  BY <2>1, <2>2, <2>3 DEF JobInv
<1>10. CASE ScanRemaining
  <2> USE <1>10 DEF ScanRemaining, line, jobs
  <2>1. TypeOK'
    BY DEF TypeOK, Locations, Commands, ProcStates, Position
  <2>2. JobListAccurate'
    BY DEF TypeOK, JobListAccurate, Position, ProcStates
  <2>3. Position'
    BY DEF TypeOK, JobListAccurate, Position, ProcStates
  <2> QED  BY <2>1, <2>2, <2>3 DEF JobInv
<1>11. CASE Interrupted
  <2> USE <1>11 DEF Interrupted, ReturnNull, Prompt, line, jobs
  <2>1. TypeOK'
    BY DEF TypeOK, Locations, Commands, ProcStates, Position
  <2>2. JobListAccurate'
    BY DEF TypeOK, JobListAccurate, Position, ProcStates
  <2>3. Position'
    BY DEF TypeOK, JobListAccurate, Position, ProcStates
  <2> QED  BY <2>1, <2>2, <2>3 DEF JobInv
<1>12. CASE EnterWait
  <2> USE <1>12 DEF EnterWait, line, jobs
  <2>1. TypeOK'
    BY DEF TypeOK, Locations, Commands, ProcStates, Position
  <2>2. JobListAccurate'
    BY DEF TypeOK, JobListAccurate, Position, ProcStates
  <2>3. Position'
    BY DEF TypeOK, JobListAccurate, Position, ProcStates
  <2> QED  BY <2>1, <2>2, <2>3 DEF JobInv
<1>13. ASSUME NEW p \in Pids, ReapOther(p) PROVE JobInv'
  <2> USE <1>13 DEF ReapOther, line, jobs
  <2>1. TypeOK'
    BY DEF TypeOK, Locations, Commands, ProcStates, Position
  <2>2. JobListAccurate'
    BY DEF TypeOK, JobListAccurate, Position, ProcStates
  <2>3. Position'
    BY DEF TypeOK, JobListAccurate, Position, ProcStates
  <2> QED  BY <2>1, <2>2, <2>3 DEF JobInv
<1>14. ASSUME NEW p \in Pids, ReapJob(p) PROVE JobInv'
  <2> USE <1>14 DEF ReapJob, ReturnJob, line, jobs
  <2>1. TypeOK'
    BY DEF TypeOK, Locations, Commands, ProcStates, Position
  <2>2. JobListAccurate'
    BY DEF TypeOK, JobListAccurate, Position, ProcStates
  <2>3. Position'
    BY DEF TypeOK, JobListAccurate, Position, ProcStates
  <2> QED  BY <2>1, <2>2, <2>3 DEF JobInv
<1>15. CASE Report
  <2> USE <1>15 DEF Report, line, jobs
  <2>1. TypeOK'
    BY DEF TypeOK, Locations, Commands, ProcStates, Position
  <2>2. JobListAccurate'
    BY DEF TypeOK, JobListAccurate, Position, ProcStates
  <2>3. Position'
    BY DEF TypeOK, JobListAccurate, Position, ProcStates
  <2> QED  BY <2>1, <2>2, <2>3 DEF JobInv
<1>16. ASSUME NEW n \in 1 .. MaxStages, NEW kind \in {"foreground", "background"}, Call(n, kind) PROVE JobInv'
  <2> USE <1>16 DEF Call, line, jobs
  <2>1. TypeOK'
    BY DEF TypeOK, Locations, Commands, ProcStates, Position
  <2>2. JobListAccurate'
    BY DEF TypeOK, JobListAccurate, Position, ProcStates
  <2>3. Position'
    BY DEF TypeOK, JobListAccurate, Position, ProcStates
  <2> QED  BY <2>1, <2>2, <2>3 DEF JobInv
<1>17. ASSUME NEW ps \in SUBSET Pids, Wait(ps) PROVE JobInv'
  <2> USE <1>17 DEF Wait, line, jobs
  <2>1. TypeOK'
    BY DEF TypeOK, Locations, Commands, ProcStates, Position
  <2>2. JobListAccurate'
    BY DEF TypeOK, JobListAccurate, Position, ProcStates
  <2>3. Position'
    BY DEF TypeOK, JobListAccurate, Position, ProcStates
  <2> QED  BY <2>1, <2>2, <2>3 DEF JobInv
<1>18. CASE ExitShell
  <2> USE <1>18 DEF ExitShell, line, jobs
  <2>1. TypeOK'
    BY DEF TypeOK, Locations, Commands, ProcStates, Position
  <2>2. JobListAccurate'
    BY DEF TypeOK, JobListAccurate, Position, ProcStates
  <2>3. Position'
    BY DEF TypeOK, JobListAccurate, Position, ProcStates
  <2> QED  BY <2>1, <2>2, <2>3 DEF JobInv
<1>19. CASE SignalForeground
  <2> USE <1>19 DEF SignalForeground, Kill, line, jobs
  <2>1. TypeOK'
    BY DEF TypeOK, Locations, Commands, ProcStates, Position
  <2>2. JobListAccurate'
    BY DEF TypeOK, JobListAccurate, Position, ProcStates
  <2>3. Position'
    BY DEF TypeOK, JobListAccurate, Position, ProcStates
  <2> QED  BY <2>1, <2>2, <2>3 DEF JobInv
<1>20. CASE SignalInterrupt
  <2> USE <1>20 DEF SignalInterrupt, Available, line, jobs
  <2>1. TypeOK'
    BY DEF TypeOK, Locations, Commands, ProcStates, Position
  <2>2. JobListAccurate'
    BY DEF TypeOK, JobListAccurate, Position, ProcStates
  <2>3. Position'
    BY DEF TypeOK, JobListAccurate, Position, ProcStates
  <2> QED  BY <2>1, <2>2, <2>3 DEF JobInv
<1>21. ASSUME NEW p \in Pids, ProcessEnds(p) PROVE JobInv'
  <2> USE <1>21 DEF ProcessEnds, line, jobs
  <2>1. TypeOK'
    BY DEF TypeOK, Locations, Commands, ProcStates, Position
  <2>2. JobListAccurate'
    BY DEF TypeOK, JobListAccurate, Position, ProcStates
  <2>3. Position'
    BY DEF TypeOK, JobListAccurate, Position, ProcStates
  <2> QED  BY <2>1, <2>2, <2>3 DEF JobInv
<1>22. CASE UNCHANGED vars
  BY <1>22 DEF vars, line, jobs, JobInv, TypeOK, JobListAccurate, Position
<1> QED
  BY <1>1, <1>2, <1>3, <1>4, <1>5, <1>6, <1>7, <1>8, <1>9, <1>10, <1>11, <1>12, <1>13, <1>14, <1>15, <1>16, <1>17, <1>18, <1>19, <1>20, <1>21, <1>22
  DEF Next, Shell, CallRun, BjWait, User, Over

--------------------------------------------------------------------------------

\* The inductive invariant holds in every state.
THEOREM JobInvariance == Spec => []JobInv
BY JobInit, JobStep, PTL DEF Spec

\* The types of the shell's variables, the kernel's table included, whatever the
\* user enters and whenever ^C is pressed.
THEOREM ShellTypes == Spec => []TypeOK
<1>1. JobInv => TypeOK
  BY DEF JobInv
<1> QED  BY <1>1, JobInvariance, PTL

\* bj_wait keeps the list of jobs in step with the kernel: a job is marked as
\* finished just when its process has been reaped.
THEOREM JobsAccurate == Spec => []JobListAccurate
<1>1. JobInv => JobListAccurate
  BY DEF JobInv
<1> QED  BY <1>1, JobInvariance, PTL

\* bj_wait never calls wait() without a child: the shell does not end with
\* "Waiting error!".
THEOREM WaitsHaveChildren == Spec => []WaitNeverFails
<1>1. JobInv => WaitNeverFails
  BY DEF JobInv, Position, WaitNeverFails
<1> QED  BY <1>1, JobInvariance, PTL

\* What `wait' reports as done has ended, and left the list.
ReportsEnded == pc = "report" => proc[pid] # "running" /\ pid \notin listed

\* What waitForPids prints as done has ended and is no job any more.
THEOREM ReportsTrue == Spec => []ReportsEnded
<1>1. JobInv => ReportsEnded
  BY DEF JobInv, Position, ReportsEnded
<1> QED  BY <1>1, JobInvariance, PTL

\* No ^C makes call_run give up a foreground process that still runs.
THEOREM ForegroundKept == Spec => []ForegroundAwaited
<1>1. JobInv => ForegroundAwaited
  BY DEF JobInv, Position, ForegroundAwaited
<1> QED  BY <1>1, JobInvariance, PTL

\* The handler sends SIGINT to a child not yet reaped, but for the moment between
\* the return of bj_wait and the reset of call_fg_pid.
THEOREM SignalsReachChildren == Spec => []SignalReachesChild
<1>1. JobInv => SignalReachesChild
  BY DEF JobInv, Position, TypeOK, JobListAccurate, SignalReachesChild
<1> QED  BY <1>1, JobInvariance, PTL

--------------------------------------------------------------------------------

\* What may happen to the list in a step: the only jobs that leave it have been
\* reaped, and the user learns of each.  In a call to the foreground it is the
\* process of that call; in `wait' it is one that was asked for, and reported next.
JobsLeaveReported ==
  \A p \in listed \ listed' :
    /\ p \in pids /\ proc'[p] = "free"
    /\ \/ command = "foreground" /\ p = call_fg_pid
       \/ command = "wait" /\ pc' = "report" /\ pid' = p

\* Each step of the shell in a state of the invariant.
LEMMA JobsLeave == JobInv /\ [Next]_vars => JobsLeaveReported
<1> SUFFICES ASSUME TypeOK, JobListAccurate, Position, [Next]_vars,
                    NEW p \in listed \ listed'
             PROVE  /\ p \in pids /\ proc'[p] = "free"
                    /\ \/ command = "foreground" /\ p = call_fg_pid
                       \/ command = "wait" /\ pc' = "report" /\ pid' = p
  BY DEF JobInv, JobsLeaveReported
<1>1. \/ ScanFinished
      \/ \E q \in Pids : ReapJob(q)
  BY DEF Next, Shell, CallRun, BjWait, User, Over, vars, line, jobs,
         Fork, ForkError, AddBackground, AddForeground, SetFg, ClearFg, Call, Wait, ExitShell,
         Reset, ScanNone, ScanRemaining, ReturnNull, Interrupted, EnterWait, ReapOther, Report,
         SignalForeground, SignalInterrupt, ProcessEnds
\* A job that is returned is the one that leaves.
<1>2. ASSUME NEW q \in pids \cap listed, ReturnJob(q), pc \in {"scan", "reap"}, proc'[q] = "free"
      PROVE  /\ p \in pids /\ proc'[p] = "free"
             /\ \/ command = "foreground" /\ p = call_fg_pid
                \/ command = "wait" /\ pc' = "report" /\ pid' = p
  <2>1. p = q
    BY <1>2 DEF ReturnJob
  <2>2. CASE command = "wait"
    BY <1>2, <2>1, <2>2 DEF ReturnJob
  <2>3. CASE command = "foreground"
    BY <1>2, <2>1, <2>3 DEF Position
  <2> QED  BY <1>2, <2>2, <2>3 DEF Position
<1>3. CASE ScanFinished
  <2>1. PICK q \in pids \cap finished : ReturnJob(q)
    BY <1>3 DEF ScanFinished
  <2>2. pc = "scan" /\ q \in listed /\ proc'[q] = "free"
    BY <1>3, <2>1 DEF ScanFinished, JobListAccurate, TypeOK
  <2> QED  BY <1>2, <2>1, <2>2
<1>4. ASSUME NEW q \in Pids, ReapJob(q)
      PROVE  /\ p \in pids /\ proc'[p] = "free"
             /\ \/ command = "foreground" /\ p = call_fg_pid
                \/ command = "wait" /\ pc' = "report" /\ pid' = p
  <2>1. q \in pids \cap listed /\ ReturnJob(q) /\ pc = "reap" /\ proc'[q] = "free"
    BY <1>4 DEF ReapJob, TypeOK
  <2> QED  BY <1>2, <2>1
<1> QED  BY <1>1, <1>3, <1>4

\* No step drops a job, in whatever order the children end and however often ^C
\* is pressed.
THEOREM NoJobIsDropped == Spec => [][JobsLeaveReported]_vars
<1>1. JobInv /\ [Next]_vars => [JobsLeaveReported]_vars
  BY JobsLeave
<1> QED  BY <1>1, JobInvariance, PTL DEF Spec

--------------------------------------------------------------------------------
(***************************************************************************)
(* What the two liveness properties of bj_wait rest on.                    *)
(***************************************************************************)

\* Whenever wait() has been called and the flag set meanwhile, a child of the
\* handler or another one is about to make wait() return.
InterruptWakes ==
  pc = "reap" /\ bj_interrupted =>
    Available = {} \/ \E p \in Pids : proc[p] \in {"dummy", "zombie"}

\* In the waiting loop there is always a job to wait for, and wait() has not yet
\* returned its process.
AwaitedUnreaped ==
  pc \in {"loop", "reap"} => \E p \in pids \cap listed : proc[p] \in {"running", "zombie"}

\* A step of something else than wait() leaves the number of process ids that
\* are to be had as it is, or lower.
LEMMA AvailableFrame ==
  ASSUME listed' = listed, \A p \in Pids : proc[p] # "free" => proc'[p] # "free"
  PROVE  Available' \subseteq Available
BY DEF Available

\* Steps of the main thread enter wait() with the flag reset, the handler forks
\* before it returns, and within wait() no other step takes a child away.
LEMMA WakeStep == TypeOK /\ InterruptWakes /\ [Next]_vars => InterruptWakes'
<1> SUFFICES ASSUME TypeOK, InterruptWakes, [Next]_vars, pc' = "reap", bj_interrupted'
             PROVE  Available' = {} \/ \E p \in Pids : proc'[p] \in {"dummy", "zombie"}
  BY DEF InterruptWakes
<1>1. CASE SignalInterrupt
  <2>1. CASE Available = {}
    <3>1. listed' = listed /\ proc' = proc
      BY <1>1, <2>1 DEF SignalInterrupt, jobs
    <3> QED  BY <2>1, <3>1, AvailableFrame
  <2>2. CASE Available # {}
    <3>1. PICK p \in Available : proc' = [proc EXCEPT ![p] = "dummy"]
      BY <1>1, <2>2 DEF SignalInterrupt
    <3> QED  BY <3>1 DEF Available, TypeOK
  <2> QED  BY <2>1, <2>2
<1>2. ASSUME pc = "reap", bj_interrupted, listed' = listed,
             \A p \in Pids : /\ proc[p] # "free" => proc'[p] # "free"
                             /\ proc[p] \in {"dummy", "zombie"} => proc'[p] \in {"dummy", "zombie"}
      PROVE  Available' = {} \/ \E p \in Pids : proc'[p] \in {"dummy", "zombie"}
  BY <1>2, AvailableFrame DEF InterruptWakes
<1>3. CASE SignalForeground
  <2>1. pc = "reap" /\ bj_interrupted /\ listed' = listed /\ call_fg_pid \in Pids
    BY <1>3 DEF SignalForeground, jobs, TypeOK
  <2>2. \A p \in Pids : proc'[p] = proc[p] \/ (proc[p] = "running" /\ proc'[p] = "zombie")
    BY <1>3 DEF SignalForeground, Kill, TypeOK
  <2> QED  BY <1>2, <2>1, <2>2
<1>4. ASSUME NEW q \in Pids, ProcessEnds(q)
      PROVE  Available' = {} \/ \E p \in Pids : proc'[p] \in {"dummy", "zombie"}
  BY <1>4 DEF ProcessEnds, TypeOK
<1>5. CASE UNCHANGED vars
  BY <1>2, <1>5 DEF vars, jobs
<1>6. CASE Shell
  BY <1>6 DEF Shell, CallRun, BjWait, Fork, ForkError, AddBackground, AddForeground, SetFg,
     ClearFg, Reset, ScanFinished, ScanNone, ScanRemaining, Interrupted, EnterWait, ReapOther,
     ReapJob, Report, ReturnJob, ReturnNull, Prompt
<1>7. CASE \/ \E n \in 1 .. MaxStages, kind \in {"foreground", "background"} : Call(n, kind)
           \/ \E ps \in SUBSET Pids : Wait(ps)
           \/ ExitShell
  BY <1>7 DEF Call, Wait, ExitShell
<1> QED  BY <1>1, <1>3, <1>4, <1>5, <1>6, <1>7 DEF Next, User, Over

\* A ^C that comes between the test of bj_interrupted and wait(), or during
\* wait(), is never without a child whose end makes wait() return, unless fork
\* has failed.
THEOREM InterruptsWake == Spec => []InterruptWakes
<1>1. Init => InterruptWakes
  BY DEF Init, InterruptWakes
<1>2. JobInv => TypeOK
  BY DEF JobInv
<1> QED  BY <1>1, <1>2, WakeStep, JobInvariance, PTL DEF Spec

\* bj_wait waits only as long as a job that was asked for is still to be reaped.
THEOREM WaitsForUnreaped == Spec => []AwaitedUnreaped
<1>1. JobInv => AwaitedUnreaped
  <2> SUFFICES ASSUME TypeOK, JobListAccurate, Position, pc \in {"loop", "reap"}
               PROVE  \E p \in pids \cap listed : proc[p] \in {"running", "zombie"}
    BY DEF JobInv, AwaitedUnreaped
  <2>1. PICK p \in pids \cap listed : p \notin finished
    BY DEF Position
  <2> QED  BY <2>1 DEF JobListAccurate
<1> QED  BY <1>1, JobInvariance, PTL

\* An awaited job whose process has ended, while bj_wait is in its loop.
AnswerReady(p) == pc \in {"loop", "reap"} /\ p \in pids \cap listed /\ proc[p] = "zombie"

\* A child that has ended and is waited for stays so until bj_wait returns.
AnswersKept ==
  \A p \in Pids : AnswerReady(p) => AnswerReady(p)' \/ pc' \notin {"loop", "reap"}

\* No step takes the answer away: neither the handler, nor the end of another
\* child, nor wait() returning another one.
THEOREM NoAnswerIsLost == Spec => [][AnswersKept]_vars
<1>1. JobInv /\ [Next]_vars => [AnswersKept]_vars
  <2> SUFFICES ASSUME TypeOK, [Next]_vars, NEW p \in Pids, AnswerReady(p), pc' \in {"loop", "reap"}
               PROVE  AnswerReady(p)'
    BY DEF JobInv, AnswersKept
  <2>1. CASE SignalForeground
    BY <2>1 DEF SignalForeground, Kill, TypeOK, AnswerReady, jobs
  <2>2. CASE SignalInterrupt
    BY <2>2 DEF SignalInterrupt, Available, TypeOK, AnswerReady, jobs
  <2>3. ASSUME NEW q \in Pids, ProcessEnds(q) PROVE AnswerReady(p)'
    BY <2>3 DEF ProcessEnds, TypeOK, AnswerReady, jobs
  <2>4. CASE UNCHANGED vars
    BY <2>4 DEF vars, jobs, AnswerReady
  <2>5. CASE EnterWait
    BY <2>5 DEF EnterWait, AnswerReady, jobs
  <2>6. ASSUME NEW q \in Pids, ReapOther(q) \/ ReapJob(q) PROVE AnswerReady(p)'
    BY <2>6 DEF ReapOther, ReapJob, ReturnJob, TypeOK, AnswerReady
  <2>7. CASE CallRun \/ Report \/ Reset \/ ScanFinished \/ ScanNone \/ ScanRemaining \/ Interrupted
    BY <2>7 DEF CallRun, Fork, ForkError, AddBackground, AddForeground, SetFg, ClearFg, Report,
       Reset, ScanFinished, ScanNone, ScanRemaining, Interrupted, ReturnNull, Prompt, AnswerReady
  <2>8. CASE \/ \E n \in 1 .. MaxStages, kind \in {"foreground", "background"} : Call(n, kind)
             \/ \E ps \in SUBSET Pids : Wait(ps)
             \/ ExitShell
    BY <2>8 DEF Call, Wait, ExitShell, AnswerReady
  <2> QED  BY <2>1, <2>2, <2>3, <2>4, <2>5, <2>6, <2>7, <2>8 DEF Next, Shell, BjWait, User, Over
<1> QED  BY <1>1, JobInvariance, PTL DEF Spec
================================================================================
