------------------------------- MODULE ShellJobs -------------------------------
(***************************************************************************)
(* lab3: the shell's processes.  call_run of sar_call.c forks the stages   *)
(* of a pipeline, sar_backgroundjob.c keeps the list of jobs and waits     *)
(* for them, main of sar_shell.c executes `wait', and its handler of       *)
(* SIGINT runs between any two steps of all that.  The shell has a single  *)
(* thread; its children run beside it.                                     *)
(***************************************************************************)
EXTENDS Integers

CONSTANTS Pids,     \* the process ids the kernel has for the shell's children
          NoPid,    \* -1
          MaxStages \* bound: commands in a pipeline

ASSUME NoPidAssumption == NoPid \notin Pids
ASSUME MaxStagesAssumption == MaxStages \in Nat

VARIABLES
  pc,             \* where the shell's main thread is
  command,        \* what it executes
  stages,         \* commands of the call that call_run has still to start
  pid,            \* the process forked last; in "report" that of the job returned
  listed,         \* process ids in the list of jobs
  finished,       \* those whose job is marked as finished
  pids,           \* the array passed to bj_wait; an entry of -1 is no member
  bj_interrupted,
  call_fg_pid,
  proc            \* what the kernel knows of each process id

line == <<command, stages>>
jobs == <<listed, finished>>
vars == <<pc, line, pid, jobs, pids, bj_interrupted, call_fg_pid, proc>>

Commands == {"none", "foreground", "background", "wait"}

\* The last four of the first line are inside bj_wait.
Locations == {"prompt", "fork", "add", "setFg", "reset", "scan", "loop", "reap",
              "report", "clear", "ended", "failed"}

\* "dummy" is the child that the handler forks and that exits at once.
ProcStates == {"free", "running", "dummy", "zombie"}

--------------------------------------------------------------------------------

Init ==
  /\ pc = "prompt" /\ command = "none"
  /\ stages = 0
  /\ pid = NoPid
  /\ listed = {} /\ finished = {}
  /\ pids = {}
  /\ bj_interrupted = FALSE
  /\ call_fg_pid = NoPid
  /\ proc = [p \in Pids |-> "free"]

\* Back in main, with the variables of the command out of scope.
Prompt ==
  /\ pc' = "prompt" /\ command' = "none"
  /\ pid' = NoPid /\ pids' = {}

--------------------------------------------------------------------------------
(***************************************************************************)
(* The kernel.                                                             *)
(***************************************************************************)

\* Process ids that fork may return.  The kernel does not give one out again
\* before its process is reaped; that it is not given out as long as a job in
\* the list has it is an assumption on the number of processes in between.
Available == {p \in Pids \ listed : proc[p] = "free"}

\* A child ends, by itself or by a signal, and is a zombie until it is reaped.
ProcessEnds(p) ==
  /\ proc[p] \in {"running", "dummy"}
  /\ proc' = [proc EXCEPT ![p] = "zombie"]
  /\ UNCHANGED <<pc, line, pid, jobs, pids, bj_interrupted, call_fg_pid>>

DummyEnds(p) == proc[p] = "dummy" /\ ProcessEnds(p)

\* kill(p, SIGINT): the program ends or handles the signal.  Nothing happens to
\* a zombie, or to the shell's children when p is none of them any more.
Kill(p) ==
  proc' \in {proc, [proc EXCEPT ![p] = IF @ = "running" THEN "zombie" ELSE @]}

--------------------------------------------------------------------------------
(***************************************************************************)
(* call_run.                                                               *)
(***************************************************************************)

\* A line with a call of n commands.
Call(n, kind) ==
  /\ pc = "prompt"
  /\ pc' = "fork" /\ command' = kind
  /\ stages' = n
  /\ UNCHANGED <<pid, jobs, pids, bj_interrupted, call_fg_pid, proc>>

\* One round of the loop: command_exec forks, and the process id overwrites
\* that of the command before.
Fork(p) ==
  /\ pc = "fork" /\ p \in Available
  /\ proc' = [proc EXCEPT ![p] = "running"]
  /\ pid' = p
  /\ stages' = stages - 1
  /\ pc' = IF stages = 1 THEN "add" ELSE "fork"
  /\ UNCHANGED <<command, jobs, pids, bj_interrupted, call_fg_pid>>

\* "Fork error!"
ForkError ==
  /\ pc = "fork" /\ Available = {}
  /\ pc' = "ended"
  /\ UNCHANGED <<line, pid, jobs, pids, bj_interrupted, call_fg_pid, proc>>

\* bj_add: of a pipeline only the last process becomes a job.
AddBackground ==
  /\ pc = "add" /\ command = "background"
  /\ listed' = listed \cup {pid}
  /\ Prompt
  /\ UNCHANGED <<stages, finished, bj_interrupted, call_fg_pid, proc>>

AddForeground ==
  /\ pc = "add" /\ command = "foreground"
  /\ listed' = listed \cup {pid}
  /\ pc' = "setFg"
  /\ UNCHANGED <<line, pid, finished, pids, bj_interrupted, call_fg_pid, proc>>

\* Mutated form: call_fg_pid is not set.
SetFgNothing ==
  /\ pc = "setFg"
  /\ pids' = {pid}
  /\ pc' = "reset"
  /\ UNCHANGED <<line, pid, jobs, bj_interrupted, call_fg_pid, proc>>

\* Up to the call of bj_wait({pid, 0}).
SetFg ==
  /\ pc = "setFg"
  /\ call_fg_pid' = pid
  /\ pids' = {pid}
  /\ pc' = "reset"
  /\ UNCHANGED <<line, pid, jobs, bj_interrupted, proc>>

\* Mutated form: call_fg_pid is not cleared.
ClearFgNothing ==
  /\ pc = "clear"
  /\ Prompt
  /\ UNCHANGED <<stages, jobs, bj_interrupted, call_fg_pid, proc>>

\* After bj_wait, whose result is dropped.
ClearFg ==
  /\ pc = "clear"
  /\ call_fg_pid' = NoPid
  /\ Prompt
  /\ UNCHANGED <<stages, jobs, bj_interrupted, proc>>

--------------------------------------------------------------------------------
(***************************************************************************)
(* `wait', `exit' and bj_wait.                                             *)
(***************************************************************************)

\* A line `wait ...': parsePids, then waitForPids.  The user may name anything.
Wait(ps) ==
  /\ pc = "prompt"
  /\ pc' = "reset" /\ command' = "wait"
  /\ pids' = ps
  /\ UNCHANGED <<stages, pid, jobs, bj_interrupted, call_fg_pid, proc>>

ExitShell ==
  /\ pc = "prompt"
  /\ pc' = "ended"
  /\ UNCHANGED <<line, pid, jobs, pids, bj_interrupted, call_fg_pid, proc>>

\* bj_wait returns the job of p after bj_remove, or NULL.
ReturnJob(p) ==
  /\ listed' = listed \ {p} /\ finished' = finished \ {p}
  /\ IF command = "wait" THEN pc' = "report" /\ pid' = p
                         ELSE pc' = "clear" /\ UNCHANGED pid
  /\ UNCHANGED <<line, pids>>

ReturnNull ==
  /\ IF command = "wait" THEN Prompt
                         ELSE pc' = "clear" /\ UNCHANGED <<command, pid, pids>>
  /\ UNCHANGED <<stages, jobs>>

\* Its first line.
Reset ==
  /\ pc = "reset"
  /\ bj_interrupted' = FALSE
  /\ pc' = "scan"
  /\ UNCHANGED <<line, pid, jobs, pids, call_fg_pid, proc>>

\* The loop over pids: a job that has finished is returned, ...
ScanFinished ==
  /\ pc = "scan"
  /\ \E p \in pids \cap finished : ReturnJob(p)
  /\ UNCHANGED <<bj_interrupted, call_fg_pid, proc>>

\* ... else there is something to wait for only if one of them is a job.
ScanNone ==
  /\ pc = "scan" /\ pids \cap listed = {}
  /\ ReturnNull
  /\ UNCHANGED <<bj_interrupted, call_fg_pid, proc>>

\* Mutated form: the number of remaining jobs is not looked at.
ScanAny ==
  /\ pc = "scan" /\ pids \cap finished = {}
  /\ pids' = pids \cap listed
  /\ pc' = "loop"
  /\ UNCHANGED <<line, pid, jobs, bj_interrupted, call_fg_pid, proc>>

\* Ids that are none of a job are made -1.
ScanRemaining ==
  /\ pc = "scan" /\ pids \cap finished = {} /\ pids \cap listed # {}
  /\ pids' = pids \cap listed
  /\ pc' = "loop"
  /\ UNCHANGED <<line, pid, jobs, bj_interrupted, call_fg_pid, proc>>

\* The waiting loop.  Behind it the function ends without a return
\* statement: as built, the register of the result holds the negated flag, 0.
Interrupted ==
  /\ pc = "loop" /\ bj_interrupted
  /\ ReturnNull
  /\ UNCHANGED <<bj_interrupted, call_fg_pid, proc>>

\* wait() is called; without any child it fails at once: "Waiting error!"
EnterWait ==
  /\ pc = "loop" /\ ~bj_interrupted
  /\ pc' = IF \A p \in Pids : proc[p] = "free" THEN "failed" ELSE "reap"
  /\ UNCHANGED <<line, pid, jobs, pids, bj_interrupted, call_fg_pid, proc>>

\* Mutated form: only a job that is waited for is marked.
ReapOtherNothing(p) ==
  /\ pc = "reap" /\ proc[p] = "zombie" /\ p \notin listed \cap pids
  /\ proc' = [proc EXCEPT ![p] = "free"]
  /\ pc' = "loop"
  /\ UNCHANGED <<line, pid, jobs, pids, bj_interrupted, call_fg_pid>>

\* Mutated form: bj_find's NULL is not looked at.
ReapOtherUnchecked(p) ==
  /\ pc = "reap" /\ proc[p] = "zombie" /\ p \notin listed \cap pids
  /\ proc' = [proc EXCEPT ![p] = "free"]
  /\ finished' = finished \cup {p}
  /\ pc' = "loop"
  /\ UNCHANGED <<line, pid, listed, pids, bj_interrupted, call_fg_pid>>

\* wait() returns a child that is no job, or a job not waited for.
ReapOther(p) ==
  /\ pc = "reap" /\ proc[p] = "zombie" /\ p \notin listed \cap pids
  /\ proc' = [proc EXCEPT ![p] = "free"]
  /\ finished' = finished \cup ({p} \cap listed)
  /\ pc' = "loop"
  /\ UNCHANGED <<line, pid, listed, pids, bj_interrupted, call_fg_pid>>

\* Mutated form: the job is marked, but not returned.
ReapJobOn(p) ==
  /\ pc = "reap" /\ proc[p] = "zombie" /\ p \in listed \cap pids
  /\ proc' = [proc EXCEPT ![p] = "free"]
  /\ finished' = finished \cup {p}
  /\ pc' = "loop"
  /\ UNCHANGED <<line, pid, listed, pids, bj_interrupted, call_fg_pid>>

\* wait() returns a job that is waited for.
ReapJob(p) ==
  /\ pc = "reap" /\ proc[p] = "zombie" /\ p \in listed \cap pids
  /\ proc' = [proc EXCEPT ![p] = "free"]
  /\ ReturnJob(p)
  /\ UNCHANGED <<bj_interrupted, call_fg_pid>>

\* waitForPids prints the job returned, frees it and calls bj_wait again.
Report ==
  /\ pc = "report"
  /\ pid' = NoPid
  /\ pc' = "reset"
  /\ UNCHANGED <<line, jobs, pids, bj_interrupted, call_fg_pid, proc>>

--------------------------------------------------------------------------------
(***************************************************************************)
(* sigIntHandler, between any two steps of the main thread.                *)
(***************************************************************************)

SignalForeground ==
  /\ pc \notin {"ended", "failed"}
  /\ call_fg_pid # NoPid
  /\ Kill(call_fg_pid)
  /\ UNCHANGED <<pc, line, pid, jobs, pids, bj_interrupted, call_fg_pid>>

\* Mutated form: no child is forked for wait() to return.
SignalOnlyFlag ==
  /\ pc \notin {"ended", "failed"}
  /\ call_fg_pid = NoPid
  /\ bj_interrupted' = TRUE
  /\ UNCHANGED <<pc, line, pid, jobs, pids, call_fg_pid, proc>>

\* bj_wait_interrupt and fork.  signal() restarts wait(): it is the child's end
\* that makes it return.  Without a process id left fork fails and that is all.
SignalInterrupt ==
  /\ pc \notin {"ended", "failed"}
  /\ call_fg_pid = NoPid
  /\ bj_interrupted' = TRUE
  /\ IF Available = {} THEN UNCHANGED proc
                       ELSE \E p \in Available : proc' = [proc EXCEPT ![p] = "dummy"]
  /\ UNCHANGED <<pc, line, pid, jobs, pids, call_fg_pid>>

--------------------------------------------------------------------------------

\* The process of the shell is gone.
Over == pc \in {"ended", "failed"} /\ UNCHANGED vars

CallRun == \/ \E p \in Pids : Fork(p)
           \/ ForkError \/ AddBackground \/ AddForeground \/ SetFg \/ ClearFg

BjWait == \/ Reset \/ ScanFinished \/ ScanNone \/ ScanRemaining
          \/ Interrupted \/ EnterWait
          \/ \E p \in Pids : ReapOther(p) \/ ReapJob(p)

Shell == CallRun \/ BjWait \/ Report

User == \/ \E n \in 1 .. MaxStages, kind \in {"foreground", "background"} : Call(n, kind)
        \/ \E ps \in SUBSET Pids : Wait(ps)
        \/ ExitShell
        \/ SignalForeground \/ SignalInterrupt

Next == Shell \/ User \/ (\E p \in Pids : ProcessEnds(p)) \/ Over

Spec == Init /\ [][Next]_vars

\* The shell runs, and so do the children that the handler forks.  Nothing is
\* assumed of the programs, or of the user.
FairSpec == /\ Spec
            /\ WF_vars(Shell)
            /\ \A p \in Pids : WF_vars(DummyEnds(p))

--------------------------------------------------------------------------------
(***************************************************************************)
(* Properties.                                                             *)
(***************************************************************************)

TypeOK ==
  /\ pc \in Locations /\ command \in Commands
  /\ stages \in 0 .. MaxStages
  /\ pid \in Pids \cup {NoPid}
  /\ listed \subseteq Pids /\ finished \subseteq listed
  /\ pids \subseteq Pids
  /\ bj_interrupted \in BOOLEAN
  /\ call_fg_pid \in Pids \cup {NoPid}
  /\ proc \in [Pids -> ProcStates]

\* The list of jobs tells the truth: the job of a process that has not been
\* reaped is unfinished, that of one that has is finished, whatever bj_wait was
\* waiting for when it was reaped and whichever child the handler has forked.
JobListAccurate ==
  \A p \in listed : IF p \in finished THEN proc[p] = "free" ELSE proc[p] \in {"running", "zombie"}

\* `wait' and a foreground call never end the shell with "Waiting error!":
\* bj_wait calls wait() only with a child left.
WaitNeverFails == pc # "failed"

\* A foreground call returns when its last process has ended and not before,
\* and leaves no job: ^C, at whatever moment, goes to the process and does not
\* end the shell's waiting.
ForegroundAwaited == pc = "clear" => proc[pid] # "running" /\ pid \notin listed

\* Until bj_wait has returned, the process that the handler would send SIGINT
\* is a child not yet reaped, and the job waited for.  (Between bj_wait's return
\* and the reset of call_fg_pid it is neither.)
SignalReachesChild ==
  call_fg_pid # NoPid /\ pc # "clear" =>
    /\ proc[call_fg_pid] \in {"running", "zombie"}
    /\ call_fg_pid \in listed /\ pids = {call_fg_pid}

\* bj_wait returns once it has been interrupted, even if the flag is set between
\* its test and wait(): the handler's child makes wait() return, unless there is
\* no process id left for one.
InterruptEndsWait ==
  (pc \in {"loop", "reap"} /\ bj_interrupted)
    ~> (pc \notin {"loop", "reap"} \/ Available = {})

\* bj_wait returns when a job it waits for has ended, whatever else ends.
WaitAnswered ==
  \A p \in Pids :
    (pc \in {"loop", "reap"} /\ p \in pids \cap listed /\ proc[p] = "zombie")
      ~> pc \notin {"loop", "reap"}

\* "Interrupt wait else" (sar_shell.c): the handler called during `wait' makes it end.
InterruptEndsCommand ==
  (command = "wait" /\ pc \in {"loop", "reap", "report"} /\ bj_interrupted) ~> command # "wait"
================================================================================
