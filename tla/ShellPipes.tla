------------------------------ MODULE ShellPipes -------------------------------
(***************************************************************************)
(* lab3/src/sar_call.c: how call_run and command_exec connect the commands *)
(* of a line.  Each process has a table of open files; pipe() and open()   *)
(* take the lowest free descriptor, fork copies the table and the local    *)
(* variables of command_exec, and parent and child go on side by side.     *)
(* A pipe is known by the number of the process it is made for.            *)
(***************************************************************************)
EXTENDS Integers, FiniteSets

CONSTANTS MaxProcs, \* bound: processes ever started by the shell
          MaxStages \* bound: commands in a line

ASSUME MaxProcsAssumption == MaxProcs \in Nat /\ MaxStages \in Nat

Shell == 0
Procs == 1 .. MaxProcs

\* What a descriptor can stand for.
Tty == <<"tty">>
NullDevice == <<"null">>
ReadEnd(k)  == <<"read", k>>
WriteEnd(k) == <<"write", k>>

VARIABLES
  pc,      \* where the shell is
  left,    \* commands of the line still to start
  isBackground,
  cmdIn,   \* after a round of the loop in call_run also cmdOut
  devnull,
  started, \* processes started; the last one is the shell's pid
  table,   \* the open files of the shell and of each process
  frame,   \* the locals of command_exec, in the shell and in each process
  state,   \* of each process
  entered  \* the line that each process belongs to (kept nowhere in the code)

locals == <<left, isBackground, cmdIn, devnull, started>>
vars   == <<pc, locals, table, frame, state, entered>>

Inherited == [fd \in 0 .. 2 |-> Tty]
Empty == [fd \in {} |-> Tty]
NoFrame == [inPipe |-> -1, outPipe |-> -1, fd0 |-> -1, fd1 |-> -1]

NoLine == [first |-> 0, last |-> 0, background |-> FALSE]

Init ==
  /\ pc = "prompt"
  /\ left = 0 /\ isBackground = FALSE /\ cmdIn = -1 /\ devnull = -1
  /\ started = 0
  /\ table = [p \in {Shell} \cup Procs |-> IF p = Shell THEN Inherited ELSE Empty]
  /\ frame = [p \in {Shell} \cup Procs |-> NoFrame]
  /\ state = [k \in Procs |-> "none"]
  /\ entered = [k \in Procs |-> NoLine]

--------------------------------------------------------------------------------
(***************************************************************************)
(* Descriptors.                                                            *)
(***************************************************************************)

LowestFree(t) == CHOOSE fd \in 0 .. Cardinality(DOMAIN t) :
                   fd \notin DOMAIN t /\ 0 .. fd - 1 \subseteq DOMAIN t

Opened(t, file) ==
  [fd \in DOMAIN t \cup {LowestFree(t)} |-> IF fd \in DOMAIN t THEN t[fd] ELSE file]

\* close: an error, and no change, when fd is not open.
Close(t, fd) == [f \in DOMAIN t \ {fd} |-> t[f]]

\* dup2: likewise when old is not open.
Dup2(t, old, new) ==
  IF old \in DOMAIN t
    THEN [fd \in DOMAIN t \cup {new} |-> IF fd = new THEN t[old] ELSE t[fd]]
    ELSE t

CloseIf(condition, t, fd) == IF condition THEN Close(t, fd) ELSE t

Holds(p, file) == \E fd \in DOMAIN table[p] : table[p][fd] = file

--------------------------------------------------------------------------------
(***************************************************************************)
(* The shell.                                                              *)
(***************************************************************************)

\* call_run up to its loop.
Call(n, background) ==
  /\ pc = "prompt" /\ started + n <= MaxProcs
  /\ left' = n /\ isBackground' = background
  /\ IF background
       THEN /\ devnull' = LowestFree(table[Shell])
            /\ cmdIn' = devnull'
            /\ table' = [table EXCEPT ![Shell] = Opened(@, NullDevice)]
       ELSE cmdIn' = -1 /\ UNCHANGED <<devnull, table>>
  /\ entered' = [k \in Procs |->
       IF k \in started + 1 .. started + n
         THEN [first |-> started + 1, last |-> started + n, background |-> background]
         ELSE entered[k]]
  /\ pc' = "pipe"
  /\ UNCHANGED <<started, frame, state>>

\* command_exec up to fork: every command gets a pipe, the last one of a
\* foreground call too, which does not use it.
MakePipe ==
  /\ pc = "pipe"
  /\ LET k == started + 1
         t == Opened(table[Shell], ReadEnd(k))
     IN  /\ table' = [table EXCEPT ![Shell] = Opened(t, WriteEnd(k))]
         /\ frame' = [frame EXCEPT ![Shell] =
              [inPipe  |-> cmdIn,
               outPipe |-> IF left = 1 /\ ~isBackground THEN -1 ELSE 0,
               fd0 |-> LowestFree(table[Shell]), fd1 |-> LowestFree(t)]]
  /\ pc' = "fork"
  /\ UNCHANGED <<locals, state, entered>>

\* fork: the child starts with copies of the shell's table and locals.
Fork ==
  /\ pc = "fork"
  /\ started' = started + 1
  /\ table' = [table EXCEPT ![started'] = table[Shell]]
  /\ frame' = [frame EXCEPT ![started'] = frame[Shell]]
  /\ state' = [state EXCEPT ![started'] = "forked"]
  /\ pc' = "parent"
  /\ UNCHANGED <<left, isBackground, cmdIn, devnull, entered>>

\* The shell ends, on `exit', on "Pipe error!" or on "Fork error!".
ShellEnds ==
  /\ pc \in {"prompt", "pipe", "fork"}
  /\ table' = [table EXCEPT ![Shell] = Empty]
  /\ pc' = "ended"
  /\ UNCHANGED <<locals, frame, state, entered>>

\* Mutated form: off by one.
AfterCommandOneMore ==
  pc' = IF left > 0 THEN "pipe" ELSE IF isBackground THEN "bind" ELSE "await"

\* Where call_run goes when a command has been started.
AfterCommand ==
  pc' = IF left > 1 THEN "pipe" ELSE IF isBackground THEN "bind" ELSE "await"

\* Mutated form: the shell keeps its write end of the pipe.
ParentKeepWrite ==
  /\ pc = "parent"
  /\ LET f == frame[Shell]
         t == CloseIf(f.inPipe >= 0, table[Shell], f.inPipe)
     IN  /\ table' = [table EXCEPT ![Shell] = CloseIf(f.outPipe < 0, t, f.fd0)]
         /\ cmdIn' = IF f.outPipe >= 0 THEN f.fd0 ELSE -1
  /\ left' = left - 1
  /\ AfterCommand
  /\ UNCHANGED <<isBackground, devnull, started, frame, state, entered>>

\* Mutated form: the read end is closed whether the next command needs it or not.
ParentCloseRead ==
  /\ pc = "parent"
  /\ LET f == frame[Shell]
         t == CloseIf(f.inPipe >= 0, Close(table[Shell], f.fd1), f.inPipe)
     IN  /\ table' = [table EXCEPT ![Shell] = Close(t, f.fd0)]
         /\ cmdIn' = IF f.outPipe >= 0 THEN f.fd0 ELSE -1
  /\ left' = left - 1
  /\ AfterCommand
  /\ UNCHANGED <<isBackground, devnull, started, frame, state, entered>>

\* Mutated form: the input of the command is left open in the shell.
ParentKeepInput ==
  /\ pc = "parent"
  /\ LET f == frame[Shell]
         t == Close(table[Shell], f.fd1)
     IN  /\ table' = [table EXCEPT ![Shell] = CloseIf(f.outPipe < 0, t, f.fd0)]
         /\ cmdIn' = IF f.outPipe >= 0 THEN f.fd0 ELSE -1
  /\ left' = left - 1
  /\ AfterCommand
  /\ UNCHANGED <<isBackground, devnull, started, frame, state, entered>>

\* command_exec after fork in the shell: the write end and the input of the
\* command are closed, the read end becomes the next command's input.
Parent ==
  /\ pc = "parent"
  /\ LET f == frame[Shell]
         t == CloseIf(f.inPipe >= 0, Close(table[Shell], f.fd1), f.inPipe)
     IN  /\ table' = [table EXCEPT ![Shell] = CloseIf(f.outPipe < 0, t, f.fd0)]
         /\ cmdIn' = IF f.outPipe >= 0 THEN f.fd0 ELSE -1
  /\ left' = left - 1
  /\ AfterCommand
  /\ UNCHANGED <<isBackground, devnull, started, frame, state, entered>>

\* call_run after its loop for a background call.  devnull has been closed as
\* the first command's input, and its number may be in use for another file.
Bind ==
  /\ pc = "bind"
  /\ table' = [table EXCEPT ![Shell] =
       Close(Close(Dup2(@, devnull, cmdIn), cmdIn), devnull)]
  /\ pc' = "prompt"
  /\ UNCHANGED <<locals, frame, state, entered>>

\* bj_wait of a foreground call: see ShellJobs.
Await ==
  /\ pc = "await" /\ state[started] \in {"ended", "killed"}
  /\ pc' = "prompt"
  /\ UNCHANGED <<locals, table, frame, state, entered>>

--------------------------------------------------------------------------------
(***************************************************************************)
(* The children.                                                           *)
(***************************************************************************)

\* Mutated form: standard input is not connected to the pipe.
ConnectedOutputOnly(t, f) ==
  LET in == CloseIf(f.inPipe >= 0, t, f.inPipe)
      out == IF f.outPipe >= 0 THEN Dup2(in, f.fd1, 1) ELSE in
  IN  Close(Close(out, f.fd0), f.fd1)

\* command_exec in the child: the table with which execvp is called.
Connected(t, f) ==
  LET in == IF f.inPipe >= 0 THEN Close(Dup2(t, f.inPipe, 0), f.inPipe) ELSE t
      out == IF f.outPipe >= 0 THEN Dup2(in, f.fd1, 1) ELSE in
  IN  Close(Close(out, f.fd0), f.fd1)

Exec(k) ==
  /\ state[k] = "forked"
  /\ table' = [table EXCEPT ![k] = Connected(@, frame[k])]
  /\ frame' = [frame EXCEPT ![k] = NoFrame]
  /\ state' = [state EXCEPT ![k] = "running"]
  /\ UNCHANGED <<pc, locals, entered>>

\* Process k is gone, its files are closed.
Gone(k, how) ==
  /\ table' = [table EXCEPT ![k] = Empty]
  /\ state' = [state EXCEPT ![k] = how]
  /\ UNCHANGED <<pc, locals, frame, entered>>

\* "Command execution error!" comes to the same as a program that ends at once.
ProgramEnds(k) == state[k] = "running" /\ Gone(k, "ended")

\* Every process has closed what could write to standard input of k, if that is
\* a pipe.
EndOfInput(k) ==
  \A j \in Procs :
    table[k][0] = ReadEnd(j) => \A p \in {Shell} \cup Procs : ~Holds(p, WriteEnd(j))

ProgramEndsOnInput(k) == state[k] = "running" /\ EndOfInput(k) /\ ProgramEnds(k)

\* SIGPIPE: the program writes into a pipe that nobody can read any more.
BrokenPipe(k) ==
  /\ state[k] = "running"
  /\ \E j \in Procs : /\ table[k][1] = WriteEnd(j)
                      /\ \A p \in {Shell} \cup Procs : ~Holds(p, ReadEnd(j))
  /\ Gone(k, "killed")

--------------------------------------------------------------------------------

Over == pc = "ended" /\ UNCHANGED vars

ShellSteps == MakePipe \/ Fork \/ Parent \/ Bind \/ Await

Next == \/ ShellSteps \/ ShellEnds \/ Over
        \/ \E n \in 1 .. MaxStages, background \in BOOLEAN : Call(n, background)
        \/ \E k \in Procs : Exec(k) \/ ProgramEnds(k) \/ BrokenPipe(k)

Spec == Init /\ [][Next]_vars

\* The shell and its children run.  A program that does not read from a pipe
\* ends, one that does ends when there is nothing more to read.
FairSpec == /\ Spec
            /\ WF_vars(ShellSteps)
            /\ \A k \in Procs : WF_vars(Exec(k)) /\ WF_vars(ProgramEndsOnInput(k))

--------------------------------------------------------------------------------
(***************************************************************************)
(* Properties.                                                             *)
(***************************************************************************)

Files == {Tty, NullDevice} \cup {ReadEnd(k) : k \in Procs} \cup {WriteEnd(k) : k \in Procs}

TypeOK ==
  /\ pc \in {"prompt", "pipe", "fork", "parent", "bind", "await", "ended"}
  /\ left \in 0 .. MaxStages /\ isBackground \in BOOLEAN
  /\ cmdIn \in Nat \cup {-1} /\ devnull \in Nat \cup {-1}
  /\ started \in 0 .. MaxProcs
  /\ \A p \in {Shell} \cup Procs :
       DOMAIN table[p] \subseteq Nat /\ \A fd \in DOMAIN table[p] : table[p][fd] \in Files
  /\ \A k \in Procs : state[k] = "none" <=> k > started

\* The files a program of the line must be started with: input from the command
\* before it, output to the command after it, and nothing else.  In a background
\* line the last one writes into a pipe of its own: BackgroundOutputAccepted
\* below is about that pipe.
Wiring(k) ==
  LET l == entered[k]
      in == IF k > l.first THEN ReadEnd(k - 1) ELSE IF l.background THEN NullDevice ELSE Tty
      out == IF k < l.last \/ l.background THEN WriteEnd(k) ELSE Tty
  IN  [fd \in 0 .. 2 |-> IF fd = 0 THEN in ELSE IF fd = 1 THEN out ELSE Tty]

\* Whenever the child gets to run, and whatever descriptors the shell has used
\* again by then, its program has just the files that Wiring says.
StagesConnected == \A k \in Procs : state[k] = "running" => table[k] = Wiring(k)

\* Back from the loop of any call, the shell has the files it was started with:
\* no call uses up descriptors, and no end of a pipe survives in the shell.
NoDescriptorLeft == pc \in {"prompt", "await"} => table[Shell] = Inherited

\* A program in front of a pipe is killed by SIGPIPE only if the command after
\* it has come and gone: there is a reader while the next process is on its way.
ReaderOutlivesWriter ==
  \A k \in Procs : state[k] = "killed" /\ k < entered[k].last =>
    state[k + 1] \in {"ended", "killed"} \/ pc = "ended"

\* A foreground pipeline drains: every command gets to the end of its input once
\* the ones before have ended, and the prompt comes back.
PromptReturns == pc = "await" ~> pc # "await"

\* "Bind last process output to null device if in background": the output of a
\* background call is accepted (sar_call.c, call_run).
BackgroundOutputAccepted ==
  \A k \in Procs : state[k] = "killed" => ~(entered[k].background /\ k = entered[k].last)
================================================================================
