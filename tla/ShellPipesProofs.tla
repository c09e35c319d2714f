---------------------------- MODULE ShellPipesProofs ----------------------------
(***************************************************************************)
(* Which files the shell and its children have open, for lines of any      *)
(* length and any number of processes.  At each place of command_exec the  *)
(* table of the shell is known exactly: besides what it was started with   *)
(* it holds the input of the command to come in descriptor 3 or 4, and     *)
(* while a command is started the two ends of that command's pipe.         *)
(***************************************************************************)
EXTENDS ShellPipes, SetInduction

\* What command k of a call reads, when that is not the terminal.
InputOf(k) == IF k > entered[k].first THEN ReadEnd(k - 1) ELSE NullDevice

\* Command k reads from the terminal.
ReadsTty(k) == k <= entered[k].first /\ ~entered[k].background

\* The shell's files between two commands, and when only the input for the next
\* one is kept.
Kept(in, file) ==
  [fd \in 0 .. 2 \cup (IF in = -1 THEN {} ELSE {in}) |-> IF fd <= 2 THEN Tty ELSE file]

\* Table t and frame f are those that command k is forked with.
Fits(t, f, k) ==
  /\ k <= entered[k].last
  /\ \E in \in {-1, 3, 4} :
       LET fd0 == IF in = 3 THEN 4 ELSE 3
           fd1 == IF in = -1 THEN 4 ELSE 5
       IN  /\ in = -1 <=> ReadsTty(k)
           /\ f = [inPipe |-> in,
                   outPipe |-> IF k = entered[k].last /\ ~entered[k].background THEN -1 ELSE 0,
                   fd0 |-> fd0, fd1 |-> fd1]
           /\ t = [fd \in 0 .. 2 \cup {fd0, fd1} \cup (IF in = -1 THEN {} ELSE {in}) |->
                     IF fd <= 2 THEN Tty
                     ELSE IF fd = fd0 THEN ReadEnd(k)
                     ELSE IF fd = fd1 THEN WriteEnd(k) ELSE InputOf(k)]

\* What all that is kept per process is about.
TablesOK ==
  /\ table = [p \in {Shell} \cup Procs |-> table[p]]
  /\ frame = [p \in {Shell} \cup Procs |-> frame[p]]
  /\ state \in [Procs -> {"none", "forked", "running", "ended", "killed"}]
  /\ entered \in [Procs -> [first : Nat, last : Nat, background : BOOLEAN]]

\* Lines are entered as a whole, and none reaches beyond what is being started.
LinesOK ==
  /\ \A k \in Procs :
       /\ entered[k].first <= k
       /\ k <= entered[k].last => 1 <= entered[k].first
       /\ k < entered[k].last => k + 1 \in Procs /\ entered[k + 1] = entered[k]
       /\ pc \in {"prompt", "await", "bind"} => entered[k].last <= started
       /\ pc \in {"pipe", "fork"} => entered[k].last <= started + left
       /\ pc = "parent" => entered[k].last <= started + left - 1
  /\ left \in 0 .. MaxStages /\ isBackground \in BOOLEAN /\ started \in 0 .. MaxProcs
  /\ cmdIn \in {-1, 3, 4} /\ devnull \in {-1, 3}
  /\ pc \in {"pipe", "fork"} =>
       /\ left >= 1 /\ started + left <= MaxProcs
       /\ entered[started + 1].last = started + left
       /\ entered[started + 1].background = isBackground
  /\ pc = "parent" =>
       /\ started >= 1 /\ left >= 1 /\ started + left - 1 <= MaxProcs
       /\ entered[started].last = started + left - 1
       /\ entered[started].background = isBackground
  /\ pc \in {"bind", "await"} => started >= 1 /\ (pc = "bind" <=> isBackground)
  /\ pc \in {"pipe", "fork", "parent", "bind"} /\ isBackground => devnull = 3

\* The shell.
ShellOK ==
  /\ pc \in {"prompt", "pipe", "fork", "parent", "bind", "await", "ended"}
  /\ pc \in {"prompt", "await"} => table[Shell] = Kept(-1, Tty)
  /\ pc = "pipe" => /\ cmdIn = -1 <=> ReadsTty(started + 1)
                    /\ table[Shell] = Kept(cmdIn, InputOf(started + 1))
  /\ pc = "fork" => Fits(table[Shell], frame[Shell], started + 1) /\ frame[Shell].inPipe = cmdIn
  /\ pc = "parent" => Fits(table[Shell], frame[Shell], started)
  /\ pc = "bind" => cmdIn # -1 /\ table[Shell] = Kept(cmdIn, ReadEnd(started))
  /\ pc = "ended" => table[Shell] = Empty

\* The children.
ChildOK(k) ==
  /\ state[k] = "none" <=> k > started
  /\ state[k] = "forked" => Fits(table[k], frame[k], k)
  /\ state[k] = "running" => table[k] = Wiring(k) /\ k <= entered[k].last
  /\ state[k] \in {"none", "ended", "killed"} => table[k] = Empty

ChildrenOK == \A k \in Procs : ChildOK(k)

\* The inductive invariant.
PipesInv == TablesOK /\ LinesOK /\ ShellOK /\ ChildrenOK /\ ReaderOutlivesWriter

--------------------------------------------------------------------------------
(***************************************************************************)
(* Tables of open files.                                                   *)
(***************************************************************************)

\* The lowest free descriptor is the one below which all are in use.
LEMMA LowestFreeIs ==
  ASSUME NEW t, IsFiniteSet(DOMAIN t), NEW n \in Nat, n \notin DOMAIN t, 0 .. n - 1 \subseteq DOMAIN t
  PROVE  LowestFree(t) = n
<1> DEFINE D == DOMAIN t
           Free(fd) == fd \notin D /\ 0 .. fd - 1 \subseteq D
<1>1. n <= Cardinality(D) /\ Cardinality(D) \in Nat
  <2>1. Cardinality(0 .. n - 1) = n /\ IsFiniteSet(0 .. n - 1)
    BY FS_Interval
  <2>2. Cardinality(0 .. n - 1) <= Cardinality(D) /\ Cardinality(D) \in Nat
    BY FS_Subset, FS_CardinalityType
  <2> QED  BY <2>1, <2>2
<1>2. n \in 0 .. Cardinality(D) /\ Free(n)
  BY <1>1
<1>3. ASSUME NEW m \in Nat, Free(m) PROVE m = n
  <2>1. ~ (m < n)
    BY <1>3
  <2>2. ~ (n < m)
    BY <1>3
  <2> QED  BY <2>1, <2>2
<1>4. LowestFree(t) = CHOOSE fd \in 0 .. Cardinality(D) : Free(fd)
  BY DEF LowestFree
<1>5. \A m \in 0 .. Cardinality(D) : m \in Nat
  BY <1>1
<1> HIDE DEF D, Free
<1> QED  BY <1>2, <1>3, <1>4, <1>5

\* The shell's tables as they occur, and what is free in them.
LEMMA KeptFree ==
  ASSUME NEW in \in {-1, 3, 4}, NEW file
  PROVE  LowestFree(Kept(in, file)) = IF in = 3 THEN 4 ELSE 3
<1> DEFINE t == Kept(in, file)
           n == IF in = 3 THEN 4 ELSE 3
<1>1. DOMAIN t = 0 .. 2 \cup (IF in = -1 THEN {} ELSE {in})
  BY DEF Kept
<1>2. IsFiniteSet(DOMAIN t)
  <2>1. IsFiniteSet(0 .. 2)
    <3>1. \A a, b \in Int : IsFiniteSet(a .. b)
      BY FS_Interval
    <3>2. 0 \in Int /\ 2 \in Int
      OBVIOUS
    <3> QED  BY <3>1, <3>2, Zenon
  <2>2. IsFiniteSet((0 .. 2) \cup {}) /\ IsFiniteSet((0 .. 2) \cup {in})
    BY <2>1, FS_AddElement
  <2> QED  BY <1>1, <2>2
<1>3. n \in Nat /\ n \notin DOMAIN t /\ 0 .. n - 1 \subseteq DOMAIN t
  BY <1>1
<1> HIDE DEF t, n
<1>4. LowestFree(t) = n
  BY <1>2, <1>3, LowestFreeIs
<1> QED  BY <1>4 DEF t, n

\* Nothing is kept.
LEMMA NothingKept == \A file : Kept(-1, file) = Inherited
BY DEF Kept, Inherited

\* pipe() in the shell: with the input of the command kept, and nothing else, the
\* two ends get the descriptors that command k is forked with.
LEMMA PipeMade ==
  ASSUME NEW in \in {-1, 3, 4}, NEW file, NEW k
  PROVE  LET fd0 == IF in = 3 THEN 4 ELSE 3
             fd1 == IF in = -1 THEN 4 ELSE 5
             t   == Opened(Kept(in, file), ReadEnd(k))
         IN  /\ LowestFree(Kept(in, file)) = fd0
             /\ LowestFree(t) = fd1
             /\ Opened(t, WriteEnd(k)) =
                  [fd \in 0 .. 2 \cup {fd0, fd1} \cup (IF in = -1 THEN {} ELSE {in}) |->
                     IF fd <= 2 THEN Tty
                     ELSE IF fd = fd0 THEN ReadEnd(k)
                     ELSE IF fd = fd1 THEN WriteEnd(k) ELSE file]
<1> DEFINE fd0 == IF in = 3 THEN 4 ELSE 3
           fd1 == IF in = -1 THEN 4 ELSE 5
           r == ReadEnd(k)
           w == WriteEnd(k)
           t == Opened(Kept(in, file), r)
<1>1. LowestFree(Kept(in, file)) = fd0
  BY KeptFree
<1> HIDE DEF r, w
<1>2. t = [fd \in 0 .. 2 \cup {fd0} \cup (IF in = -1 THEN {} ELSE {in}) |->
             IF fd <= 2 THEN Tty ELSE IF fd = fd0 THEN r ELSE file]
  BY <1>1 DEF Opened, Kept
<1> HIDE DEF t
<1>3. DOMAIN t = 0 .. 2 \cup {fd0} \cup (IF in = -1 THEN {} ELSE {in})
  BY <1>2
<1>4. IsFiniteSet(DOMAIN t)
  <2>1. IsFiniteSet(0 .. 2)
    <3>1. \A a, b \in Int : IsFiniteSet(a .. b)
      BY FS_Interval
    <3>2. 0 \in Int /\ 2 \in Int
      OBVIOUS
    <3> QED  BY <3>1, <3>2, Zenon
  <2>2. IsFiniteSet((0 .. 2) \cup {fd0})
    BY <2>1, FS_AddElement
  <2>3. IsFiniteSet((0 .. 2) \cup {fd0} \cup {in})
    BY <2>2, FS_AddElement
  <2>4. (0 .. 2) \cup {fd0} \cup {} = (0 .. 2) \cup {fd0}
    OBVIOUS
  <2> QED  BY <1>3, <2>2, <2>3, <2>4
<1>5. fd1 \in Nat /\ fd1 \notin DOMAIN t /\ 0 .. fd1 - 1 \subseteq DOMAIN t
  BY <1>3
<1>6. LowestFree(t) = fd1
  <2> HIDE DEF fd1
  <2> QED  BY <1>4, <1>5, LowestFreeIs
<1>7. Opened(t, w) = [fd \in 0 .. 2 \cup {fd0, fd1} \cup (IF in = -1 THEN {} ELSE {in}) |->
                     IF fd <= 2 THEN Tty
                     ELSE IF fd = fd0 THEN r
                     ELSE IF fd = fd1 THEN w ELSE file]
  BY <1>2, <1>6 DEF Opened
<1> HIDE DEF fd0, fd1
<1> QED  BY <1>1, <1>6, <1>7 DEF t, r, w, fd0, fd1

\* The wiring, descriptor by descriptor.
LEMMA WiringIs ==
  ASSUME TablesOK, NEW k \in Procs
  PROVE  Wiring(k) = [fd \in 0 .. 2 |->
           IF fd = 0 THEN IF ReadsTty(k) THEN Tty ELSE InputOf(k)
           ELSE IF fd = 1 THEN IF k < entered[k].last \/ entered[k].background THEN WriteEnd(k) ELSE Tty
           ELSE Tty]
<1>1. entered[k].first \in Nat /\ k \in Nat
  BY MaxProcsAssumption DEF TablesOK, Procs
<1> QED  BY <1>1 DEF Wiring, InputOf, ReadsTty

\* Within the child, dup2 and close make of the table it was forked with the one
\* that its program is to have.
LEMMA ConnectedIs ==
  ASSUME TablesOK, NEW k \in Procs, NEW t, NEW f, Fits(t, f, k)
  PROVE  Connected(t, f) = Wiring(k)
<1> DEFINE fd0(in) == IF in = 3 THEN 4 ELSE 3
           fd1(in) == IF in = -1 THEN 4 ELSE 5
           last == k = entered[k].last /\ ~entered[k].background
<1>1. k \in Nat /\ entered[k].first \in Nat /\ entered[k].last \in Nat /\ k <= entered[k].last
  BY MaxProcsAssumption DEF TablesOK, Procs, Fits
<1>2. PICK in \in {-1, 3, 4} :
        /\ in = -1 <=> ReadsTty(k)
        /\ f = [inPipe |-> in, outPipe |-> IF last THEN -1 ELSE 0, fd0 |-> fd0(in), fd1 |-> fd1(in)]
        /\ t = [fd \in 0 .. 2 \cup {fd0(in), fd1(in)} \cup (IF in = -1 THEN {} ELSE {in}) |->
                  IF fd <= 2 THEN Tty
                  ELSE IF fd = fd0(in) THEN ReadEnd(k)
                  ELSE IF fd = fd1(in) THEN WriteEnd(k) ELSE InputOf(k)]
  BY DEF Fits
<1>3. /\ f.inPipe = in /\ f.outPipe = (IF last THEN -1 ELSE 0)
      /\ f.fd0 = fd0(in) /\ f.fd1 = fd1(in)
  BY <1>2
<1> DEFINE connected == IF f.inPipe >= 0 THEN Close(Dup2(t, f.inPipe, 0), f.inPipe) ELSE t
           output == IF f.outPipe >= 0 THEN Dup2(connected, f.fd1, 1) ELSE connected
<1>4. connected = [fd \in 0 .. 2 \cup {fd0(in), fd1(in)} |->
                     IF fd = 0 THEN IF in = -1 THEN Tty ELSE InputOf(k)
                     ELSE IF fd <= 2 THEN Tty
                     ELSE IF fd = fd0(in) THEN ReadEnd(k) ELSE WriteEnd(k)]
  <2>1. CASE in = -1
    BY <1>2, <1>3, <2>1
  <2>2. CASE in = 3
    BY <1>2, <1>3, <2>2 DEF Close, Dup2
  <2>3. CASE in = 4
    BY <1>2, <1>3, <2>3 DEF Close, Dup2
  <2> QED  BY <2>1, <2>2, <2>3
<1>5. Connected(t, f) = Close(Close(output, f.fd0), f.fd1)
  BY DEF Connected
<1> HIDE DEF connected
<1>6. output = [fd \in 0 .. 2 \cup {fd0(in), fd1(in)} |->
                     IF fd = 0 THEN IF in = -1 THEN Tty ELSE InputOf(k)
                     ELSE IF fd = 1 THEN IF last THEN Tty ELSE WriteEnd(k)
                     ELSE IF fd <= 2 THEN Tty
                     ELSE IF fd = fd0(in) THEN ReadEnd(k) ELSE WriteEnd(k)]
  BY <1>3, <1>4 DEF Dup2
<1> HIDE DEF output
<1>7. Connected(t, f) = [fd \in 0 .. 2 |->
                     IF fd = 0 THEN IF in = -1 THEN Tty ELSE InputOf(k)
                     ELSE IF fd = 1 THEN IF last THEN Tty ELSE WriteEnd(k)
                     ELSE Tty]
  BY <1>3, <1>5, <1>6 DEF Close
<1>8. last <=> ~(k < entered[k].last \/ entered[k].background)
  BY <1>1
<1> HIDE DEF last, fd0, fd1
<1> QED  BY <1>2, <1>7, <1>8, WiringIs

\* After fork the shell closes all but the read end, for the next command, if
\* there is one or the call is a background one.
LEMMA ParentTable ==
  ASSUME NEW k, NEW t, NEW f, Fits(t, f, k)
  PROVE  LET u == CloseIf(f.inPipe >= 0, Close(t, f.fd1), f.inPipe)
             last == k = entered[k].last /\ ~entered[k].background
         IN  /\ f.fd0 \in {3, 4}
             /\ f.outPipe = IF last THEN -1 ELSE 0
             /\ CloseIf(f.outPipe < 0, u, f.fd0) = Kept(IF last THEN -1 ELSE f.fd0, ReadEnd(k))
<1> DEFINE fd0(in) == IF in = 3 THEN 4 ELSE 3
           fd1(in) == IF in = -1 THEN 4 ELSE 5
           last == k = entered[k].last /\ ~entered[k].background
           u == CloseIf(f.inPipe >= 0, Close(t, f.fd1), f.inPipe)
<1>2. PICK in \in {-1, 3, 4} :
        /\ f = [inPipe |-> in, outPipe |-> IF last THEN -1 ELSE 0, fd0 |-> fd0(in), fd1 |-> fd1(in)]
        /\ t = [fd \in 0 .. 2 \cup {fd0(in), fd1(in)} \cup (IF in = -1 THEN {} ELSE {in}) |->
                  IF fd <= 2 THEN Tty
                  ELSE IF fd = fd0(in) THEN ReadEnd(k)
                  ELSE IF fd = fd1(in) THEN WriteEnd(k) ELSE InputOf(k)]
  BY DEF Fits
<1>3. /\ f.inPipe = in /\ f.outPipe = (IF last THEN -1 ELSE 0)
      /\ f.fd0 = fd0(in) /\ f.fd1 = fd1(in)
  BY <1>2
<1>4. u = [fd \in 0 .. 2 \cup {fd0(in)} |-> IF fd <= 2 THEN Tty ELSE ReadEnd(k)]
  <2>1. CASE in = -1
    BY <1>2, <1>3, <2>1 DEF Close, CloseIf
  <2>2. CASE in = 3
    BY <1>2, <1>3, <2>2 DEF Close, CloseIf
  <2>3. CASE in = 4
    BY <1>2, <1>3, <2>3 DEF Close, CloseIf
  <2> QED  BY <2>1, <2>2, <2>3
<1> HIDE DEF u, last
<1>5. CloseIf(f.outPipe < 0, u, f.fd0) = Kept(IF last THEN -1 ELSE f.fd0, ReadEnd(k))
  <2>1. CASE last
    BY <1>3, <1>4, <2>1 DEF Close, CloseIf, Kept
  <2>2. CASE ~last
    BY <1>3, <1>4, <2>2 DEF CloseIf, Kept
  <2> QED  BY <2>1, <2>2
<1>6. f.fd0 \in {3, 4}
  BY <1>3
<1> QED  BY <1>3, <1>5, <1>6 DEF u, last

\* What follows a background call closes the read end of its last pipe, and with
\* it all that the shell had opened.
LEMMA BoundTable ==
  ASSUME NEW in \in {3, 4}, NEW file
  PROVE  Close(Close(Dup2(Kept(in, file), 3, in), in), 3) = Kept(-1, Tty)
<1>1. CASE in = 3
  BY <1>1 DEF Close, Dup2, Kept
<1>2. CASE in = 4
  BY <1>2 DEF Close, Dup2, Kept
<1> QED  BY <1>1, <1>2

\* While a command is being started, or has been forked and has not called execvp
\* yet, its table holds what it reads from, and the read end of its own pipe.
LEMMA FitsHolds ==
  ASSUME NEW k \in Nat, entered[k].first \in Nat, NEW t, NEW f, Fits(t, f, k)
  PROVE  /\ k > entered[k].first => \E fd \in DOMAIN t : t[fd] = ReadEnd(k - 1)
         /\ \E fd \in DOMAIN t : t[fd] = ReadEnd(k)
<1> DEFINE fd0(in) == IF in = 3 THEN 4 ELSE 3
           fd1(in) == IF in = -1 THEN 4 ELSE 5
<1>1. PICK in \in {-1, 3, 4} :
        /\ in = -1 <=> ReadsTty(k)
        /\ t = [fd \in 0 .. 2 \cup {fd0(in), fd1(in)} \cup (IF in = -1 THEN {} ELSE {in}) |->
                  IF fd <= 2 THEN Tty
                  ELSE IF fd = fd0(in) THEN ReadEnd(k)
                  ELSE IF fd = fd1(in) THEN WriteEnd(k) ELSE InputOf(k)]
  BY DEF Fits
<1>2. fd0(in) \in DOMAIN t /\ t[fd0(in)] = ReadEnd(k)
  BY <1>1
<1>3. ASSUME k > entered[k].first PROVE in \in DOMAIN t /\ t[in] = ReadEnd(k - 1)
  <2>1. in # -1 /\ InputOf(k) = ReadEnd(k - 1)
    BY <1>1, <1>3 DEF ReadsTty, InputOf
  <2>2. CASE in = 3
    BY <1>1, <2>1, <2>2
  <2>3. CASE in = 4
    BY <1>1, <2>1, <2>3
  <2> QED  BY <2>1, <2>2, <2>3
<1> QED  BY <1>2, <1>3

\* What a process was forked with, and what its program is started with, depends
\* on the line that it belongs to alone.
LEMMA LineDecides ==
  ASSUME NEW k, entered'[k] = entered[k], NEW t, NEW f
  PROVE  /\ Fits(t, f, k)' <=> Fits(t, f, k)
         /\ Wiring(k)' = Wiring(k)
         /\ InputOf(k)' = InputOf(k)
         /\ ReadsTty(k)' <=> ReadsTty(k)
<1>1. InputOf(k)' = InputOf(k) /\ (ReadsTty(k)' <=> ReadsTty(k))
  BY DEF InputOf, ReadsTty
<1>2. Wiring(k)' = Wiring(k)
  BY DEF Wiring
<1>3. Fits(t, f, k)' <=> Fits(t, f, k)
  BY <1>1 DEF Fits
<1> QED  BY <1>1, <1>2, <1>3

\* A child that a step leaves alone.
LEMMA ChildKept ==
  ASSUME NEW k \in Procs, ChildOK(k), state'[k] = state[k], table'[k] = table[k],
         frame'[k] = frame[k], k > started' <=> k > started,
         state[k] # "none" => entered'[k] = entered[k]
  PROVE  ChildOK(k)'
<1>1. CASE state[k] = "none"
  BY <1>1 DEF ChildOK
<1>2. CASE state[k] # "none"
  <2>1. entered'[k] = entered[k]
    BY <1>2
  <2>2. Fits(table[k], frame[k], k)' <=> Fits(table[k], frame[k], k)
    BY <2>1, LineDecides
  <2>3. Wiring(k)' = Wiring(k)
    BY <2>1, LineDecides
  <2> QED  BY <2>1, <2>2, <2>3 DEF ChildOK
<1> QED  BY <1>1, <1>2

\* A step that kills no writer.
LEMMA OutlivesKept ==
  ASSUME PipesInv, pc = "ended" => pc' = "ended",
         \A k \in Procs : state'[k] = "killed" => state[k] = "killed",
         \A k \in Procs : state[k] \in {"ended", "killed"} => state'[k] = state[k],
         \A k \in Procs : state[k] # "none" => entered'[k] = entered[k]
  PROVE  ReaderOutlivesWriter'
<1> SUFFICES ASSUME NEW k \in Procs, state'[k] = "killed", k < entered'[k].last
             PROVE  state'[k + 1] \in {"ended", "killed"} \/ pc' = "ended"
  BY DEF ReaderOutlivesWriter
<1>1. state[k] = "killed" /\ entered'[k] = entered[k]
  OBVIOUS
<1>2. state[k + 1] \in {"ended", "killed"} \/ pc = "ended"
  BY <1>1 DEF PipesInv, ReaderOutlivesWriter
<1>3. k + 1 \in Procs
  BY <1>1 DEF PipesInv, LinesOK
<1> QED  BY <1>2, <1>3

\* A function changed in one place.
LEMMA ChangedAt ==
  ASSUME NEW S, NEW f, NEW p \in S, NEW v, NEW g,
         f = [q \in S |-> f[q]], g = [f EXCEPT ![p] = v]
  PROVE  /\ g = [q \in S |-> g[q]]
         /\ g[p] = v
         /\ \A q \in S : q # p => g[q] = f[q]
OBVIOUS

\* A step that changes the table of one process.
LEMMA TableChange ==
  ASSUME TablesOK, NEW p \in {Shell} \cup Procs, NEW t, table' = [table EXCEPT ![p] = t]
  PROVE  /\ table' = [q \in {Shell} \cup Procs |-> table'[q]]
         /\ table'[p] = t
         /\ \A q \in {Shell} \cup Procs : q # p => table'[q] = table[q]
BY ChangedAt DEF TablesOK

\* Likewise its frame.
LEMMA FrameChange ==
  ASSUME TablesOK, NEW p \in {Shell} \cup Procs, NEW f, frame' = [frame EXCEPT ![p] = f]
  PROVE  /\ frame' = [q \in {Shell} \cup Procs |-> frame'[q]]
         /\ frame'[p] = f
         /\ \A q \in {Shell} \cup Procs : q # p => frame'[q] = frame[q]
BY ChangedAt DEF TablesOK

\* Or its state.
LEMMA StateChange ==
  ASSUME TablesOK, NEW k \in Procs, NEW how \in {"none", "forked", "running", "ended", "killed"},
         state' = [state EXCEPT ![k] = how]
  PROVE  /\ state' \in [Procs -> {"none", "forked", "running", "ended", "killed"}]
         /\ state'[k] = how
         /\ \A q \in Procs : q # k => state'[q] = state[q]
BY DEF TablesOK

\* The shell is no child.
LEMMA ShellApart == \A k \in Procs : k # Shell
BY DEF Procs, Shell

--------------------------------------------------------------------------------
(***************************************************************************)
(* The inductive invariant.                                                *)
(***************************************************************************)

LEMMA PipesInit == Init => PipesInv
<1> SUFFICES ASSUME Init PROVE PipesInv
  OBVIOUS
<1> USE MaxProcsAssumption DEF Init, Procs, Shell
<1>1. TablesOK
  BY DEF TablesOK, NoLine
<1>2. LinesOK
  <2>1. \A k \in Procs : entered[k].first = 0 /\ entered[k].last = 0
    BY DEF NoLine
  <2>2. \A k \in Procs : k \in Nat /\ k >= 1
    OBVIOUS
  <2>3. left \in 0 .. MaxStages /\ isBackground \in BOOLEAN /\ started \in 0 .. MaxProcs
    <3>1. left \in 0 .. MaxStages /\ started \in 0 .. MaxProcs
      OBVIOUS
    <3>2. isBackground \in BOOLEAN
      BY Zenon
    <3> QED  BY <3>1, <3>2
  <2>4. cmdIn \in {-1, 3, 4} /\ devnull \in {-1, 3}
    OBVIOUS
  <2>5. pc = "prompt" /\ started = 0
    OBVIOUS
  <2> HIDE DEF Init
  <2>6. \A k \in Procs :
         /\ entered[k].first <= k
         /\ ~(k <= entered[k].last) /\ ~(k < entered[k].last)
         /\ entered[k].last <= started
    BY <2>1, <2>2, <2>5
  <2> HIDE DEF Procs
  <2> QED  BY <2>3, <2>4, <2>5, <2>6 DEF LinesOK
<1>3. ShellOK
  BY NothingKept DEF ShellOK
<1>4. ChildrenOK
  BY DEF ChildrenOK, ChildOK
<1>5. ReaderOutlivesWriter
  BY DEF ReaderOutlivesWriter
<1> QED  BY <1>1, <1>2, <1>3, <1>4, <1>5 DEF PipesInv

\* call_run up to its loop.
LEMMA CallKeeps ==
  ASSUME PipesInv, NEW n \in 1 .. MaxStages, NEW background \in BOOLEAN, Call(n, background)
  PROVE  PipesInv'
<1> USE MaxProcsAssumption DEF Procs, Shell
<1>1. /\ pc = "prompt" /\ started \in Nat /\ started + n <= MaxProcs
      /\ table[Shell] = Kept(-1, Tty) /\ left' = n /\ isBackground' = background
      /\ pc' = "pipe" /\ started' = started /\ state' = state /\ frame' = frame
      /\ started + 1 \in Procs
  BY DEF PipesInv, LinesOK, ShellOK, Call
<1>2. /\ cmdIn' = IF background THEN 3 ELSE -1
      /\ background => devnull' = 3
      /\ devnull' \in {-1, 3}
      /\ table'[Shell] = Kept(cmdIn', NullDevice)
  <2>1. CASE background
    <3>1. LowestFree(Kept(-1, Tty)) = 3
      BY KeptFree
    <3>2. Opened(Kept(-1, Tty), NullDevice) = Kept(3, NullDevice)
      BY <3>1 DEF Opened, Kept
    <3> QED  BY <1>1, <2>1, <3>1, <3>2 DEF Call, PipesInv, TablesOK
  <2>2. CASE ~background
    BY <1>1, <2>2, NothingKept DEF Call, PipesInv, LinesOK
  <2> QED  BY <2>1, <2>2
<1>3. \A k \in Procs :
        entered'[k] = IF k \in started + 1 .. started + n
          THEN [first |-> started + 1, last |-> started + n, background |-> background]
          ELSE entered[k]
  BY DEF Call
<1>4. \A k \in Procs : table'[k] = table[k]
  <2>1. CASE background
    BY <2>1, TableChange DEF Call, PipesInv
  <2>2. CASE ~background
    BY <2>2 DEF Call
  <2> QED  BY <2>1, <2>2
<1>5. TablesOK'
  <2>1. entered' \in [Procs -> [first : Nat, last : Nat, background : BOOLEAN]]
    BY <1>1 DEF Call, PipesInv, TablesOK
  <2>2. table' = [p \in {Shell} \cup Procs |-> table'[p]]
    BY DEF Call, PipesInv, TablesOK
  <2> QED  BY <1>1, <2>1, <2>2 DEF PipesInv, TablesOK
<1>6. LinesOK'
  <2>1. ASSUME NEW k \in Procs
        PROVE  /\ entered'[k].first <= k
               /\ k <= entered'[k].last => 1 <= entered'[k].first
               /\ k < entered'[k].last => k + 1 \in Procs /\ entered'[k + 1] = entered'[k]
               /\ entered'[k].last <= started' + left'
    <3>1. CASE k \in started + 1 .. started + n
      BY <1>1, <1>3, <3>1
    <3>2. CASE k \notin started + 1 .. started + n
      <4>1. entered'[k] = entered[k] /\ entered[k].last <= started /\ entered[k].last \in Nat
        BY <1>1, <1>3, <3>2 DEF PipesInv, LinesOK, TablesOK
      <4>2. /\ entered[k].first <= k
            /\ k <= entered[k].last => 1 <= entered[k].first
            /\ k < entered[k].last => k + 1 \in Procs /\ entered[k + 1] = entered[k]
        BY DEF PipesInv, LinesOK
      <4>3. k < entered[k].last => k + 1 \notin started + 1 .. started + n
        BY <1>1, <4>1
      <4>4. k < entered[k].last => entered'[k + 1] = entered[k + 1]
        BY <1>3, <4>2, <4>3
      <4> QED  BY <1>1, <4>1, <4>2, <4>4
    <3> QED  BY <3>1, <3>2
  <2>2. started' \in 0 .. MaxProcs /\ left' \in 0 .. MaxStages /\ isBackground' \in BOOLEAN
    BY <1>1
  <2>3. /\ entered'[started' + 1].last = started' + left'
        /\ entered'[started' + 1].background = isBackground'
    BY <1>1, <1>3
  <2> QED  BY <1>1, <1>2, <2>1, <2>2, <2>3 DEF LinesOK
<1>7. ShellOK'
  <2>1. entered'[started + 1].first = started + 1 /\ entered'[started + 1].background = background
    BY <1>1, <1>3
  <2>2. InputOf(started + 1)' = NullDevice /\ (ReadsTty(started + 1)' <=> ~background)
    BY <1>1, <2>1 DEF InputOf, ReadsTty
  <2> QED  BY <1>1, <1>2, <2>2 DEF ShellOK
<1>8. ASSUME NEW k \in Procs, state[k] # "none" PROVE entered'[k] = entered[k]
  <2>1. k <= started
    BY <1>1, <1>8 DEF PipesInv, ChildrenOK, ChildOK
  <2> QED  BY <1>1, <1>3, <2>1
<1>9. ChildrenOK'
  BY <1>1, <1>4, <1>8, ChildKept DEF ChildrenOK, PipesInv
<1>10. ReaderOutlivesWriter'
  BY <1>1, <1>8, OutlivesKept
<1> QED  BY <1>5, <1>6, <1>7, <1>9, <1>10 DEF PipesInv

\* command_exec up to fork.
LEMMA MakePipeKeeps == PipesInv /\ MakePipe => PipesInv'
<1> SUFFICES ASSUME PipesInv, MakePipe PROVE PipesInv'
  OBVIOUS
<1> USE MaxProcsAssumption DEF Procs, Shell
<1> DEFINE k == started + 1
           in == cmdIn
           fd0 == IF in = 3 THEN 4 ELSE 3
           fd1 == IF in = -1 THEN 4 ELSE 5
           file == InputOf(k)
           t == Opened(table[Shell], ReadEnd(k))
<1>1. /\ pc = "pipe" /\ pc' = "fork" /\ started' = started /\ left' = left /\ cmdIn' = cmdIn
      /\ isBackground' = isBackground /\ devnull' = devnull /\ state' = state /\ entered' = entered
  BY DEF MakePipe, locals
<1>2. /\ in \in {-1, 3, 4}
      /\ in = -1 <=> ReadsTty(k)
      /\ table[Shell] = Kept(in, file)
      /\ k \in Procs /\ entered[k].last = started + left /\ left \in Nat /\ started \in Nat
      /\ entered[k].background = isBackground
  BY <1>1 DEF PipesInv, LinesOK, ShellOK
<1>3. /\ table' = [table EXCEPT ![Shell] = Opened(t, WriteEnd(k))]
      /\ frame' = [frame EXCEPT ![Shell] =
            [inPipe |-> in, outPipe |-> IF left = 1 /\ ~isBackground THEN -1 ELSE 0,
             fd0 |-> LowestFree(table[Shell]), fd1 |-> LowestFree(t)]]
  BY DEF MakePipe
<1>4. /\ LowestFree(table[Shell]) = fd0
      /\ LowestFree(t) = fd1
      /\ Opened(t, WriteEnd(k)) =
            [fd \in 0 .. 2 \cup {fd0, fd1} \cup (IF in = -1 THEN {} ELSE {in}) |->
               IF fd <= 2 THEN Tty
               ELSE IF fd = fd0 THEN ReadEnd(k)
               ELSE IF fd = fd1 THEN WriteEnd(k) ELSE file]
  <2> DEFINE u == Opened(Kept(in, file), ReadEnd(k))
  <2>1. u = t
    BY <1>2
  <2>2. /\ LowestFree(Kept(in, file)) = fd0
        /\ LowestFree(u) = fd1
        /\ Opened(u, WriteEnd(k)) =
              [fd \in 0 .. 2 \cup {fd0, fd1} \cup (IF in = -1 THEN {} ELSE {in}) |->
                 IF fd <= 2 THEN Tty
                 ELSE IF fd = fd0 THEN ReadEnd(k)
                 ELSE IF fd = fd1 THEN WriteEnd(k) ELSE file]
    <3> HIDE DEF file, k
    <3>1. in \in {-1, 3, 4}
      BY <1>2
    <3> HIDE DEF in
    <3> QED  BY <3>1, PipeMade
  <2> HIDE DEF t, u, file, k
  <2> QED  BY <1>2, <2>1, <2>2
<1>5. left = 1 <=> k = entered[k].last
  BY <1>2
<1>6. frame'[Shell] = [inPipe |-> in,
          outPipe |-> IF k = entered[k].last /\ ~entered[k].background THEN -1 ELSE 0,
          fd0 |-> fd0, fd1 |-> fd1]
  <2> HIDE DEF fd0, fd1, t, k
  <2> QED  BY <1>2, <1>3, <1>4, <1>5 DEF PipesInv, TablesOK
<1>7. /\ table' = [q \in {Shell} \cup Procs |-> table'[q]]
      /\ table'[Shell] = Opened(t, WriteEnd(k))
      /\ \A q \in Procs : table'[q] = table[q] /\ frame'[q] = frame[q]
      /\ frame' = [q \in {Shell} \cup Procs |-> frame'[q]]
  <2> HIDE DEF fd0, fd1, t, k
  <2>1. TablesOK
    BY DEF PipesInv
  <2>2. Shell \in {Shell} \cup Procs
    OBVIOUS
  <2> HIDE DEF Procs, Shell
  <2>3. /\ table' = [q \in {Shell} \cup Procs |-> table'[q]]
        /\ table'[Shell] = Opened(t, WriteEnd(k))
        /\ \A q \in {Shell} \cup Procs : q # Shell => table'[q] = table[q]
    BY <1>3, <2>1, <2>2, TableChange
  <2>4. /\ frame' = [q \in {Shell} \cup Procs |-> frame'[q]]
        /\ \A q \in {Shell} \cup Procs : q # Shell => frame'[q] = frame[q]
    BY <1>3, <2>1, <2>2, FrameChange
  <2> QED  BY <2>3, <2>4, ShellApart
<1>8. k <= entered[k].last
  BY <1>1, <1>2 DEF PipesInv, LinesOK
<1>9. Fits(table'[Shell], frame'[Shell], k)
  <2> HIDE DEF t, k, file
  <2>1. table'[Shell] = [fd \in 0 .. 2 \cup {fd0, fd1} \cup (IF in = -1 THEN {} ELSE {in}) |->
               IF fd <= 2 THEN Tty
               ELSE IF fd = fd0 THEN ReadEnd(k)
               ELSE IF fd = fd1 THEN WriteEnd(k) ELSE InputOf(k)]
    BY <1>4, <1>7 DEF file
  <2>2. in \in {-1, 3, 4} /\ (in = -1 <=> ReadsTty(k))
    BY <1>2
  <2> HIDE DEF in
  <2> QED  BY <1>6, <1>8, <2>1, <2>2 DEF Fits
<1>10. Fits(table[Shell], frame[Shell], k)'
  <2>1. entered'[k] = entered[k] /\ k' = k
    BY <1>1
  <2> HIDE DEF k
  <2> QED  BY <1>9, <2>1, LineDecides
<1>11. TablesOK'
  BY <1>1, <1>7 DEF PipesInv, TablesOK
<1>12. LinesOK'
  BY <1>1 DEF PipesInv, LinesOK
<1>13. ShellOK'
  BY <1>1, <1>6, <1>10 DEF ShellOK
<1>14. ChildrenOK'
  BY <1>1, <1>7, ChildKept DEF PipesInv, ChildrenOK
<1>15. ReaderOutlivesWriter'
  BY <1>1, OutlivesKept
<1> QED  BY <1>11, <1>12, <1>13, <1>14, <1>15 DEF PipesInv

\* fork.
LEMMA ForkKeeps == PipesInv /\ Fork => PipesInv'
<1> SUFFICES ASSUME PipesInv, Fork PROVE PipesInv'
  OBVIOUS
<1> USE MaxProcsAssumption DEF Procs, Shell
<1>1. /\ pc = "fork" /\ pc' = "parent" /\ started' = started + 1 /\ left' = left /\ cmdIn' = cmdIn
      /\ isBackground' = isBackground /\ devnull' = devnull /\ entered' = entered
      /\ table' = [table EXCEPT ![started + 1] = table[Shell]]
      /\ frame' = [frame EXCEPT ![started + 1] = frame[Shell]]
      /\ state' = [state EXCEPT ![started + 1] = "forked"]
  BY DEF Fork
<1>2. /\ started + 1 \in Procs /\ started \in Nat /\ left \in Nat /\ left >= 1 /\ started + left <= MaxProcs
      /\ entered[started + 1].last = started + left
      /\ entered[started + 1].background = isBackground
      /\ Fits(table[Shell], frame[Shell], started + 1)
  BY <1>1 DEF PipesInv, LinesOK, ShellOK
<1>3. /\ table' = [q \in {Shell} \cup Procs |-> table'[q]]
      /\ frame' = [q \in {Shell} \cup Procs |-> frame'[q]]
      /\ state' \in [Procs -> {"none", "forked", "running", "ended", "killed"}]
      /\ table'[Shell] = table[Shell] /\ frame'[Shell] = frame[Shell]
      /\ table'[started + 1] = table[Shell] /\ frame'[started + 1] = frame[Shell]
      /\ state'[started + 1] = "forked" /\ state[started + 1] = "none"
      /\ \A q \in Procs : q # started + 1 =>
            table'[q] = table[q] /\ frame'[q] = frame[q] /\ state'[q] = state[q]
  <2>1. TablesOK
    BY DEF PipesInv
  <2>2. state[started + 1] = "none"
    BY <1>2 DEF PipesInv, ChildrenOK, ChildOK
  <2>3. started + 1 \in {Shell} \cup Procs /\ started + 1 # Shell /\ Shell \in {Shell} \cup Procs
    BY <1>2
  <2> HIDE DEF Procs, Shell
  <2>4. /\ table' = [q \in {Shell} \cup Procs |-> table'[q]]
        /\ table'[started + 1] = table[Shell]
        /\ \A q \in {Shell} \cup Procs : q # started + 1 => table'[q] = table[q]
    BY <1>1, <2>1, <2>3, TableChange
  <2>5. /\ frame' = [q \in {Shell} \cup Procs |-> frame'[q]]
        /\ frame'[started + 1] = frame[Shell]
        /\ \A q \in {Shell} \cup Procs : q # started + 1 => frame'[q] = frame[q]
    BY <1>1, <2>1, <2>3, FrameChange
  <2>6. /\ state' \in [Procs -> {"none", "forked", "running", "ended", "killed"}]
        /\ state'[started + 1] = "forked"
        /\ \A q \in Procs : q # started + 1 => state'[q] = state[q]
    BY <1>1, <1>2, <2>1, StateChange
  <2> QED  BY <2>2, <2>3, <2>4, <2>5, <2>6
<1>4. Fits(table[Shell], frame[Shell], started)'
  <2>1. entered'[started + 1] = entered[started + 1]
    BY <1>1
  <2>2. Fits(table'[Shell], frame'[Shell], started + 1)
    BY <1>2, <1>3
  <2> QED  BY <1>1, <2>1, <2>2, LineDecides
<1>5. TablesOK'
  BY <1>1, <1>3 DEF PipesInv, TablesOK
<1>6. LinesOK'
  BY <1>1, <1>2 DEF PipesInv, LinesOK
<1>7. ShellOK'
  BY <1>1, <1>3, <1>4 DEF ShellOK
<1>8. ASSUME NEW q \in Procs PROVE ChildOK(q)'
  <2>1. CASE q = started + 1
    <3>1. Fits(table[q], frame[q], q)'
      BY <1>1, <1>3, <1>4, <2>1
    <3> QED  BY <1>1, <1>2, <1>3, <2>1, <3>1 DEF ChildOK
  <2>2. CASE q # started + 1
    <3>1. ChildOK(q) /\ (q > started + 1 <=> q > started)
      BY <1>2, <2>2 DEF PipesInv, ChildrenOK
    <3> QED  BY <1>1, <1>3, <2>2, <3>1, ChildKept
  <2> QED  BY <2>1, <2>2
<1>9. ReaderOutlivesWriter'
  BY <1>1, <1>3, OutlivesKept
<1> QED  BY <1>5, <1>6, <1>7, <1>8, <1>9 DEF PipesInv, ChildrenOK

\* A step of the shell that starts nothing leaves the children alone.
LEMMA ShellStepKeeps ==
  ASSUME PipesInv, NEW t, table' = [table EXCEPT ![Shell] = t],
         UNCHANGED <<started, frame, state, entered>>, pc # "ended"
  PROVE  TablesOK' /\ ChildrenOK' /\ ReaderOutlivesWriter' /\ table'[Shell] = t
<1>1. TablesOK /\ Shell \in {Shell} \cup Procs
  BY DEF PipesInv
<1>2. /\ table' = [q \in {Shell} \cup Procs |-> table'[q]]
      /\ table'[Shell] = t
      /\ \A q \in {Shell} \cup Procs : q # Shell => table'[q] = table[q]
  BY <1>1, TableChange
<1>3. TablesOK'
  BY <1>1, <1>2 DEF TablesOK
<1>4. \A q \in Procs : table'[q] = table[q]
  BY <1>2, ShellApart
<1>5. ChildrenOK'
  BY <1>4, ChildKept DEF PipesInv, ChildrenOK
<1>6. ReaderOutlivesWriter'
  BY OutlivesKept
<1> QED  BY <1>2, <1>3, <1>5, <1>6

\* command_exec after fork in the shell.
LEMMA ParentKeeps == PipesInv /\ Parent => PipesInv'
<1> SUFFICES ASSUME PipesInv, Parent PROVE PipesInv'
  OBVIOUS
<1> DEFINE k == started
           f == frame[Shell]
           u == CloseIf(f.inPipe >= 0, Close(table[Shell], f.fd1), f.inPipe)
           v == CloseIf(f.outPipe < 0, u, f.fd0)
           last == k = entered[k].last /\ ~entered[k].background
<1>1. /\ pc = "parent" /\ started' = started /\ left' = left - 1
      /\ pc' = (IF left > 1 THEN "pipe" ELSE IF isBackground THEN "bind" ELSE "await")
      /\ cmdIn' = (IF f.outPipe >= 0 THEN f.fd0 ELSE -1)
      /\ table' = [table EXCEPT ![Shell] = v]
      /\ isBackground' = isBackground /\ devnull' = devnull
      /\ frame' = frame /\ state' = state /\ entered' = entered
  BY DEF Parent, AfterCommand
<1>2. /\ k \in Procs /\ k \in Nat /\ left \in Nat /\ left >= 1 /\ k + left - 1 <= MaxProcs
      /\ entered[k].last = k + left - 1 /\ entered[k].background = isBackground
      /\ Fits(table[Shell], f, k)
      /\ left - 1 \in 0 .. MaxStages
      /\ entered[k].first \in Nat /\ entered[k].first <= k
      /\ left > 1 => k + 1 \in Procs /\ entered[k + 1] = entered[k]
      /\ isBackground \in BOOLEAN /\ (isBackground => devnull = 3)
  <2>1. /\ k \in Procs /\ k \in Nat /\ left \in Nat /\ left >= 1 /\ k + left - 1 <= MaxProcs
        /\ entered[k].last = k + left - 1 /\ entered[k].background = isBackground
        /\ left - 1 \in 0 .. MaxStages
        /\ isBackground \in BOOLEAN /\ (isBackground => devnull = 3)
    BY <1>1, MaxProcsAssumption DEF PipesInv, LinesOK, Procs
  <2>2. entered[k].first \in Nat
    BY <2>1 DEF PipesInv, TablesOK
  <2>3. /\ entered[k].first <= k
        /\ k < entered[k].last => k + 1 \in Procs /\ entered[k + 1] = entered[k]
    BY <2>1 DEF PipesInv, LinesOK
  <2>4. Fits(table[Shell], f, k)
    BY <1>1 DEF PipesInv, ShellOK
  <2> QED  BY <2>1, <2>2, <2>3, <2>4
<1>3. last <=> left = 1 /\ ~isBackground
  BY <1>2
<1>4. /\ f.fd0 \in {3, 4}
      /\ f.outPipe = IF last THEN -1 ELSE 0
      /\ v = Kept(IF last THEN -1 ELSE f.fd0, ReadEnd(k))
  <2> HIDE DEF k, f
  <2> QED  BY <1>2, ParentTable
<1>5. cmdIn' = IF last THEN -1 ELSE f.fd0
  BY <1>1, <1>4
<1>6. TablesOK' /\ ChildrenOK' /\ ReaderOutlivesWriter' /\ table'[Shell] = v
  <2> HIDE DEF v
  <2> QED  BY <1>1, ShellStepKeeps
<1> HIDE DEF v, last, f
<1>7. LinesOK'
  <2>1. \A j \in Procs :
         /\ entered[j].first <= j
         /\ j <= entered[j].last => 1 <= entered[j].first
         /\ j < entered[j].last => j + 1 \in Procs /\ entered[j + 1] = entered[j]
         /\ entered[j].last <= k + left - 1
    BY <1>1 DEF PipesInv, LinesOK
  <2>2. \A j \in Procs : entered[j].last \in Nat
    BY DEF PipesInv, TablesOK
  <2>3. left > 1 => entered[k + 1].last = k + (left - 1) /\ entered[k + 1].background = isBackground
    BY <1>2
  <2>4. cmdIn' \in {-1, 3, 4}
    BY <1>4, <1>5
  <2>5. devnull \in {-1, 3} /\ started \in 0 .. MaxProcs
    BY DEF PipesInv, LinesOK
  <2>6. CASE left > 1
    BY <1>1, <1>2, <2>1, <2>2, <2>3, <2>4, <2>5, <2>6, MaxProcsAssumption DEF LinesOK, Procs
  <2>7. CASE left = 1
    BY <1>1, <1>2, <2>1, <2>2, <2>4, <2>5, <2>7, MaxProcsAssumption DEF LinesOK, Procs
  <2> QED  BY <1>2, <2>6, <2>7
<1>8. ShellOK'
  <2>1. CASE left > 1
    <3>1. entered'[k + 1] = entered[k] /\ k + 1 > entered[k].first
      BY <1>1, <1>2, <2>1
    <3>2. InputOf(k + 1)' = ReadEnd(k) /\ ~ReadsTty(k + 1)'
      BY <1>1, <1>2, <3>1 DEF InputOf, ReadsTty
    <3>3. ~last
      BY <1>3, <2>1
    <3> QED  BY <1>1, <1>4, <1>5, <1>6, <2>1, <3>2, <3>3 DEF ShellOK
  <2>2. CASE left = 1 /\ isBackground
    <3>1. ~last
      BY <1>3, <2>2
    <3> QED  BY <1>1, <1>4, <1>5, <1>6, <2>2, <3>1 DEF ShellOK
  <2>3. CASE left = 1 /\ ~isBackground
    <3>1. last
      BY <1>3, <2>3
    <3>2. v = Kept(-1, Tty)
      BY <1>4, <3>1, NothingKept
    <3> QED  BY <1>1, <1>6, <2>3, <3>2 DEF ShellOK
  <2> QED  BY <1>2, <2>1, <2>2, <2>3
<1> QED  BY <1>6, <1>7, <1>8 DEF PipesInv

\* call_run after its loop for a background call.
LEMMA BindKeeps == PipesInv /\ Bind => PipesInv'
<1> SUFFICES ASSUME PipesInv, Bind PROVE PipesInv'
  OBVIOUS
<1>1. /\ pc = "bind" /\ pc' = "prompt"
      /\ table' = [table EXCEPT ![Shell] =
            Close(Close(Dup2(table[Shell], devnull, cmdIn), cmdIn), devnull)]
      /\ UNCHANGED <<left, isBackground, cmdIn, devnull, started, frame, state, entered>>
  BY DEF Bind, locals
<1>2. devnull = 3 /\ cmdIn \in {3, 4} /\ table[Shell] = Kept(cmdIn, ReadEnd(started))
  BY <1>1 DEF PipesInv, LinesOK, ShellOK
<1>3. Close(Close(Dup2(table[Shell], devnull, cmdIn), cmdIn), devnull) = Kept(-1, Tty)
  BY <1>2, BoundTable
<1>4. TablesOK' /\ ChildrenOK' /\ ReaderOutlivesWriter' /\ table'[Shell] = Kept(-1, Tty)
  BY <1>1, <1>3, ShellStepKeeps
<1>5. LinesOK'
  BY <1>1 DEF PipesInv, LinesOK
<1>6. ShellOK'
  BY <1>1, <1>4 DEF ShellOK
<1> QED  BY <1>4, <1>5, <1>6 DEF PipesInv

\* bj_wait, and the end of the shell.
LEMMA AwaitOrEndKeeps == PipesInv /\ (Await \/ ShellEnds) => PipesInv'
<1> SUFFICES ASSUME PipesInv, Await \/ ShellEnds PROVE PipesInv'
  OBVIOUS
<1> DEFINE t == IF Await THEN table[Shell] ELSE Empty
<1>1. /\ pc' = IF Await THEN "prompt" ELSE "ended"
      /\ pc \in {"prompt", "pipe", "fork", "await"}
      /\ Await => pc = "await"
      /\ UNCHANGED <<left, isBackground, cmdIn, devnull, started, frame, state, entered>>
  BY DEF Await, ShellEnds, locals
<1>2. table' = [table EXCEPT ![Shell] = t]
  <2>1. CASE Await
    <3>1. table' = table /\ table = [p \in {Shell} \cup Procs |-> table[p]]
      BY <2>1 DEF Await, PipesInv, TablesOK
    <3> QED  BY <2>1, <3>1
  <2>2. CASE ~Await
    BY <2>2 DEF ShellEnds
  <2> QED  BY <2>1, <2>2
<1>3. TablesOK' /\ ChildrenOK' /\ ReaderOutlivesWriter' /\ table'[Shell] = t
  <2> HIDE DEF t
  <2> QED  BY <1>1, <1>2, ShellStepKeeps
<1>4. LinesOK'
  BY <1>1 DEF PipesInv, LinesOK
<1>5. ShellOK'
  <2>1. CASE Await
    BY <1>1, <1>3, <2>1 DEF PipesInv, ShellOK
  <2>2. CASE ~Await
    BY <1>1, <1>3, <2>2 DEF ShellOK
  <2> QED  BY <2>1, <2>2
<1> QED  BY <1>3, <1>4, <1>5 DEF PipesInv

\* A step of a child changes nothing but what is kept about that child.
LEMMA ChildStepKeeps ==
  ASSUME PipesInv, NEW k \in Procs, NEW t, NEW how \in {"none", "forked", "running", "ended", "killed"},
         table' = [table EXCEPT ![k] = t], state' = [state EXCEPT ![k] = how],
         UNCHANGED <<pc, left, isBackground, cmdIn, devnull, started, entered>>,
         frame' = frame \/ frame' = [frame EXCEPT ![k] = NoFrame],
         ChildOK(k)'
  PROVE  TablesOK' /\ LinesOK' /\ ShellOK' /\ ChildrenOK'
<1>1. TablesOK /\ k \in {Shell} \cup Procs /\ k # Shell /\ Shell \in {Shell} \cup Procs
  BY ShellApart DEF PipesInv
<1>2. /\ table' = [q \in {Shell} \cup Procs |-> table'[q]]
      /\ \A q \in {Shell} \cup Procs : q # k => table'[q] = table[q]
  BY <1>1, TableChange
<1>3. /\ frame' = [q \in {Shell} \cup Procs |-> frame'[q]]
      /\ \A q \in {Shell} \cup Procs : q # k => frame'[q] = frame[q]
  BY <1>1, FrameChange DEF TablesOK
<1>4. /\ state' \in [Procs -> {"none", "forked", "running", "ended", "killed"}]
      /\ \A q \in Procs : q # k => state'[q] = state[q]
  BY <1>1, StateChange
<1>5. TablesOK'
  BY <1>1, <1>2, <1>3, <1>4 DEF TablesOK
<1>6. LinesOK'
  BY DEF PipesInv, LinesOK
<1>7. table'[Shell] = table[Shell] /\ frame'[Shell] = frame[Shell]
  BY <1>1, <1>2, <1>3
<1>8. ShellOK'
  <2>1. \A q : InputOf(q)' = InputOf(q) /\ (ReadsTty(q)' <=> ReadsTty(q))
    BY DEF InputOf, ReadsTty
  <2>2. Fits(table[Shell], frame[Shell], started + 1)' <=> Fits(table[Shell], frame[Shell], started + 1)
    BY <1>7, LineDecides
  <2>3. Fits(table[Shell], frame[Shell], started)' <=> Fits(table[Shell], frame[Shell], started)
    BY <1>7, LineDecides
  <2> QED  BY <1>7, <2>1, <2>2, <2>3 DEF PipesInv, ShellOK
<1>9. ASSUME NEW q \in Procs PROVE ChildOK(q)'
  <2>1. CASE q = k
    BY <2>1
  <2>2. CASE q # k
    <3>1. table'[q] = table[q] /\ frame'[q] = frame[q] /\ state'[q] = state[q]
      BY <1>2, <1>3, <1>4, <2>2
    <3>2. ChildOK(q)
      BY DEF PipesInv, ChildrenOK
    <3> QED  BY <3>1, <3>2, ChildKept
  <2> QED  BY <2>1, <2>2
<1> QED  BY <1>5, <1>6, <1>8, <1>9 DEF ChildrenOK

\* command_exec in the child, up to execvp.
LEMMA ExecKeeps == ASSUME PipesInv, NEW k \in Procs, Exec(k) PROVE PipesInv'
<1>1. /\ state[k] = "forked"
      /\ table' = [table EXCEPT ![k] = Connected(table[k], frame[k])]
      /\ frame' = [frame EXCEPT ![k] = NoFrame]
      /\ state' = [state EXCEPT ![k] = "running"]
      /\ UNCHANGED <<pc, left, isBackground, cmdIn, devnull, started, entered>>
  BY DEF Exec, locals
<1>2. Fits(table[k], frame[k], k) /\ TablesOK /\ k <= started
  <2>1. Fits(table[k], frame[k], k) /\ TablesOK /\ ~(k > started)
    BY <1>1 DEF PipesInv, ChildrenOK, ChildOK
  <2>2. k \in Int /\ started \in Int
    BY DEF PipesInv, LinesOK, Procs
  <2> QED  BY <2>1, <2>2
<1>3. Connected(table[k], frame[k]) = Wiring(k)
  BY <1>2, ConnectedIs
<1>4. Wiring(k)' = Wiring(k) /\ k <= entered'[k].last
  <2>1. entered'[k] = entered[k]
    BY <1>1
  <2>2. k <= entered[k].last
    BY <1>2 DEF Fits
  <2> QED  BY <2>1, <2>2, LineDecides
<1>5. table'[k] = Wiring(k) /\ state'[k] = "running"
  BY <1>1, <1>2, <1>3, TableChange, StateChange
<1>6. ChildOK(k)'
  <2>1. ~(k > started')
    BY <1>1, <1>2 DEF PipesInv, LinesOK, Procs
  <2> QED  BY <1>4, <1>5, <2>1 DEF ChildOK
<1>7. TablesOK' /\ LinesOK' /\ ShellOK' /\ ChildrenOK'
  <2> DEFINE t == Connected(table[k], frame[k])
  <2>1. table' = [table EXCEPT ![k] = t]
    BY <1>1
  <2> HIDE DEF t
  <2> QED  BY <1>1, <1>6, <2>1, ChildStepKeeps
<1>8. ReaderOutlivesWriter'
  <2>1. \A q \in Procs : q # k => state'[q] = state[q]
    BY <1>1, <1>2, StateChange
  <2> QED  BY <1>1, <1>5, <2>1, OutlivesKept
<1> QED  BY <1>7, <1>8 DEF PipesInv

\* The end of a program, however it comes about.
LEMMA GoneKeeps ==
  ASSUME PipesInv, NEW k \in Procs, NEW how \in {"ended", "killed"}, state[k] = "running", Gone(k, how)
  PROVE  TablesOK' /\ LinesOK' /\ ShellOK' /\ ChildrenOK'
<1>1. /\ table' = [table EXCEPT ![k] = Empty] /\ state' = [state EXCEPT ![k] = how]
      /\ frame' = frame
      /\ UNCHANGED <<pc, left, isBackground, cmdIn, devnull, started, entered>>
  BY DEF Gone, locals
<1>2. TablesOK /\ ~(k > started)
  BY DEF PipesInv, ChildrenOK, ChildOK
<1>3. table'[k] = Empty /\ state'[k] = how
  BY <1>1, <1>2, TableChange, StateChange
<1>4. ChildOK(k)'
  BY <1>1, <1>2, <1>3 DEF ChildOK
<1> QED  BY <1>1, <1>4, ChildStepKeeps

LEMMA ProgramEndsKeeps == ASSUME PipesInv, NEW k \in Procs, ProgramEnds(k) PROVE PipesInv'
<1>1. state[k] = "running" /\ Gone(k, "ended")
  BY DEF ProgramEnds
<1>2. TablesOK' /\ LinesOK' /\ ShellOK' /\ ChildrenOK'
  BY <1>1, GoneKeeps
<1>3. /\ state' = [state EXCEPT ![k] = "ended"] /\ TablesOK
      /\ UNCHANGED <<pc, entered>>
  BY <1>1 DEF Gone, PipesInv
<1>4. state'[k] = "ended" /\ \A q \in Procs : q # k => state'[q] = state[q]
  BY <1>3, StateChange
<1>5. ReaderOutlivesWriter'
  BY <1>1, <1>3, <1>4, OutlivesKept
<1> QED  BY <1>2, <1>5 DEF PipesInv

\* The heart of ReaderOutlivesWriter: as long as the command after command k has
\* not come and gone, somebody has the read end of the pipe between them open: the
\* shell, which is about to start it, or that command itself.
LEMMA ReaderThere ==
  ASSUME PipesInv, NEW k \in Procs, k <= started, k < entered[k].last, pc # "ended",
         state[k + 1] \notin {"ended", "killed"}
  PROVE  \E p \in {Shell} \cup Procs : Holds(p, ReadEnd(k))
<1> DEFINE next == k + 1
<1>1. /\ k \in Nat /\ started \in Nat /\ next \in Procs /\ next \in Nat /\ k = next - 1
      /\ entered[next] = entered[k] /\ entered[k].first \in Nat /\ entered[k].first <= k
      /\ TablesOK
  BY DEF PipesInv, LinesOK, TablesOK, Procs
<1>2. next > entered[next].first /\ entered[next].first \in Nat /\ ReadEnd(next - 1) = ReadEnd(k)
  BY <1>1
<1>3. InputOf(next) = ReadEnd(k) /\ ~ReadsTty(next)
  BY <1>1, <1>2 DEF InputOf, ReadsTty
<1>4. state[next] \in {"none", "forked", "running"} /\ ChildOK(next)
  BY <1>1 DEF PipesInv, TablesOK, ChildrenOK
<1> HIDE DEF next
<1>5. CASE state[next] = "forked"
  <2>1. Fits(table[next], frame[next], next)
    BY <1>4, <1>5 DEF ChildOK
  <2>2. \E fd \in DOMAIN table[next] : table[next][fd] = ReadEnd(next - 1)
    BY <1>1, <1>2, <2>1, FitsHolds
  <2> QED  BY <1>1, <1>2, <2>2 DEF Holds
<1>6. CASE state[next] = "running"
  <2>1. table[next] = Wiring(next)
    BY <1>4, <1>6 DEF ChildOK
  <2>2. 0 \in DOMAIN table[next] /\ table[next][0] = ReadEnd(k)
    BY <1>1, <1>3, <2>1, WiringIs
  <2> QED  BY <1>1, <2>2 DEF Holds
<1>7. CASE state[next] = "none"
  <2>1. started = k
    <3>1. next > started
      BY <1>4, <1>7 DEF ChildOK
    <3> QED  BY <1>1, <3>1
  <2>2. pc \in {"pipe", "fork", "parent"}
    <3>1. ~(entered[k].last <= started)
      BY <1>1, <2>1 DEF TablesOK
    <3> QED  BY <3>1 DEF PipesInv, LinesOK, ShellOK
  <2>3. started + 1 = next
    BY <1>1, <2>1
  <2>4. CASE pc = "pipe"
    <3>1. cmdIn \in {3, 4} /\ table[Shell] = Kept(cmdIn, ReadEnd(k))
      BY <1>3, <2>3, <2>4 DEF PipesInv, ShellOK, LinesOK
    <3>2. cmdIn \in DOMAIN table[Shell] /\ table[Shell][cmdIn] = ReadEnd(k)
      BY <3>1 DEF Kept
    <3> QED  BY <3>2 DEF Holds
  <2>5. CASE pc = "fork"
    <3>1. Fits(table[Shell], frame[Shell], next)
      BY <2>3, <2>5 DEF PipesInv, ShellOK
    <3>2. \E fd \in DOMAIN table[Shell] : table[Shell][fd] = ReadEnd(next - 1)
      BY <1>1, <1>2, <3>1, FitsHolds
    <3> QED  BY <1>2, <3>2 DEF Holds
  <2>6. CASE pc = "parent"
    <3>1. Fits(table[Shell], frame[Shell], k)
      BY <2>1, <2>6 DEF PipesInv, ShellOK
    <3>2. \E fd \in DOMAIN table[Shell] : table[Shell][fd] = ReadEnd(k)
      BY <1>1, <3>1, FitsHolds
    <3> QED  BY <3>2 DEF Holds
  <2> QED  BY <2>2, <2>4, <2>5, <2>6
<1> QED  BY <1>4, <1>5, <1>6, <1>7

\* SIGPIPE.
LEMMA BrokenPipeKeeps == ASSUME PipesInv, NEW k \in Procs, BrokenPipe(k) PROVE PipesInv'
<1>1. state[k] = "running" /\ Gone(k, "killed") /\ table[k] = Wiring(k) /\ k <= started
  <2>1. state[k] = "running" /\ Gone(k, "killed")
    BY DEF BrokenPipe
  <2>2. table[k] = Wiring(k) /\ ~(k > started)
    BY <2>1 DEF PipesInv, ChildrenOK, ChildOK
  <2>3. k \in Int /\ started \in Int
    BY DEF PipesInv, LinesOK, Procs
  <2> QED  BY <2>1, <2>2, <2>3
<1>2. PICK j \in Procs : table[k][1] = WriteEnd(j)
                         /\ \A p \in {Shell} \cup Procs : ~Holds(p, ReadEnd(j))
  BY DEF BrokenPipe
<1>3. j = k
  <2>1. table[k][1] \in {WriteEnd(k), Tty}
    BY <1>1, WiringIs DEF PipesInv
  <2>2. WriteEnd(j) # Tty
    BY DEF WriteEnd, Tty
  <2>3. WriteEnd(j) = WriteEnd(k)
    BY <1>2, <2>1, <2>2
  <2> QED  BY <2>3 DEF WriteEnd
<1>4. k < entered[k].last => state[k + 1] \in {"ended", "killed"} \/ pc = "ended"
  BY <1>1, <1>2, <1>3, ReaderThere
<1>5. TablesOK' /\ LinesOK' /\ ShellOK' /\ ChildrenOK'
  BY <1>1, GoneKeeps
<1>6. /\ state' = [state EXCEPT ![k] = "killed"] /\ TablesOK
      /\ UNCHANGED <<pc, entered>>
  BY <1>1 DEF Gone, PipesInv
<1>7. state'[k] = "killed" /\ \A q \in Procs : q # k => state'[q] = state[q]
  BY <1>6, StateChange
<1>8. ReaderOutlivesWriter'
  <2> SUFFICES ASSUME NEW q \in Procs, state'[q] = "killed", q < entered'[q].last
               PROVE  state'[q + 1] \in {"ended", "killed"} \/ pc' = "ended"
    BY DEF ReaderOutlivesWriter
  <2>1. state[q + 1] \in {"ended", "killed"} \/ pc = "ended"
    <3>1. CASE q = k
      BY <1>4, <1>6, <3>1
    <3>2. CASE q # k
      BY <1>6, <1>7, <3>2 DEF PipesInv, ReaderOutlivesWriter
    <3> QED  BY <3>1, <3>2
  <2>2. q + 1 \in Procs
    BY <1>6 DEF PipesInv, LinesOK
  <2>3. state'[q + 1] = state[q + 1] \/ state'[q + 1] = "killed"
    BY <1>7, <2>2
  <2> QED  BY <1>6, <2>1, <2>3
<1> QED  BY <1>5, <1>8 DEF PipesInv

\* Nothing happens.
LEMMA PipesStutter == PipesInv /\ UNCHANGED vars => PipesInv'
<1> SUFFICES ASSUME PipesInv, UNCHANGED vars PROVE PipesInv'
  OBVIOUS
<1>1. UNCHANGED <<pc, left, isBackground, cmdIn, devnull, started, table, frame, state, entered>>
  BY DEF vars, locals
<1>2. \A q : InputOf(q)' = InputOf(q) /\ (ReadsTty(q)' <=> ReadsTty(q)) /\ Wiring(q)' = Wiring(q)
  BY <1>1 DEF InputOf, ReadsTty, Wiring
<1>3. TablesOK'
  BY <1>1 DEF PipesInv, TablesOK
<1>4. LinesOK'
  BY <1>1 DEF PipesInv, LinesOK
<1>5. ShellOK'
  <2>1. Fits(table[Shell], frame[Shell], started + 1)' <=> Fits(table[Shell], frame[Shell], started + 1)
    BY <1>1, LineDecides
  <2>2. Fits(table[Shell], frame[Shell], started)' <=> Fits(table[Shell], frame[Shell], started)
    BY <1>1, LineDecides
  <2> QED  BY <1>1, <1>2, <2>1, <2>2 DEF PipesInv, ShellOK
<1>6. ChildrenOK'
  BY <1>1, ChildKept DEF PipesInv, ChildrenOK
<1>7. ReaderOutlivesWriter'
  BY <1>1, OutlivesKept
<1> QED  BY <1>3, <1>4, <1>5, <1>6, <1>7 DEF PipesInv

LEMMA PipesStep == PipesInv /\ [Next]_vars => PipesInv'
<1> SUFFICES ASSUME PipesInv, [Next]_vars PROVE PipesInv'
  OBVIOUS
<1>1. CASE ShellSteps
  BY <1>1, MakePipeKeeps, ForkKeeps, ParentKeeps, BindKeeps, AwaitOrEndKeeps DEF ShellSteps
<1>2. CASE ShellEnds
  BY <1>2, AwaitOrEndKeeps
<1>3. CASE Over \/ UNCHANGED vars
  BY <1>3, PipesStutter DEF Over
<1>4. CASE \E n \in 1 .. MaxStages, background \in BOOLEAN : Call(n, background)
  BY <1>4, CallKeeps
<1>5. CASE \E k \in Procs : Exec(k) \/ ProgramEnds(k) \/ BrokenPipe(k)
  BY <1>5, ExecKeeps, ProgramEndsKeeps, BrokenPipeKeeps
<1> QED  BY <1>1, <1>2, <1>3, <1>4, <1>5 DEF Next

\* The files of the shell and of its children are always known.
THEOREM PipesInvariance == Spec => []PipesInv
<1> QED  BY PipesInit, PipesStep, PTL DEF Spec

--------------------------------------------------------------------------------
(***************************************************************************)
(* What follows.                                                           *)
(***************************************************************************)

\* The files that a command reads from, and the ends of its pipe, are files.
LEMMA FilesOfLine ==
  ASSUME PipesInv, NEW k \in Procs, k <= entered[k].last
  PROVE  {Tty, ReadEnd(k), WriteEnd(k), InputOf(k)} \subseteq Files
<1>1. k \in Nat /\ entered[k].first \in Nat /\ entered[k].first >= 1
  BY DEF PipesInv, LinesOK, TablesOK, Procs
<1>2. k > entered[k].first => k - 1 \in Procs
  BY <1>1, MaxProcsAssumption DEF Procs
<1> QED  BY <1>1, <1>2 DEF Files, InputOf

\* So the table that a command is forked with holds nothing but files.
LEMMA FitsFiles ==
  ASSUME PipesInv, NEW k \in Procs, NEW t, NEW f, Fits(t, f, k)
  PROVE  DOMAIN t \subseteq Nat /\ \A fd \in DOMAIN t : t[fd] \in Files
<1> DEFINE fd0(in) == IF in = 3 THEN 4 ELSE 3
           fd1(in) == IF in = -1 THEN 4 ELSE 5
<1>1. PICK in \in {-1, 3, 4} :
        t = [fd \in 0 .. 2 \cup {fd0(in), fd1(in)} \cup (IF in = -1 THEN {} ELSE {in}) |->
               IF fd <= 2 THEN Tty
               ELSE IF fd = fd0(in) THEN ReadEnd(k)
               ELSE IF fd = fd1(in) THEN WriteEnd(k) ELSE InputOf(k)]
  BY DEF Fits
<1>2. k <= entered[k].last
  BY DEF Fits
<1>3. Tty \in Files /\ ReadEnd(k) \in Files /\ WriteEnd(k) \in Files /\ InputOf(k) \in Files
  BY <1>2, FilesOfLine
<1> QED  BY <1>1, <1>3

LEMMA KeptFiles ==
  ASSUME NEW in \in {-1, 3, 4}, NEW file \in Files
  PROVE  DOMAIN Kept(in, file) \subseteq Nat /\ \A fd \in DOMAIN Kept(in, file) : Kept(in, file)[fd] \in Files
<1>1. Tty \in Files
  BY DEF Files
<1> QED  BY <1>1 DEF Kept

\* Every table holds nothing but files.
LEMMA TablesHoldFiles ==
  ASSUME PipesInv, NEW p \in {Shell} \cup Procs
  PROVE  DOMAIN table[p] \subseteq Nat /\ \A fd \in DOMAIN table[p] : table[p][fd] \in Files
<1>1. Tty \in Files /\ NullDevice \in Files
  BY DEF Files
<1>2. CASE p = Shell
  <2>1. CASE pc \in {"prompt", "await", "ended"}
    <3>1. table[Shell] = Kept(-1, Tty) \/ table[Shell] = Empty
      BY <2>1 DEF PipesInv, ShellOK
    <3>2. CASE table[Shell] = Kept(-1, Tty)
      <4>1. -1 \in {-1, 3, 4}
        OBVIOUS
      <4> QED  BY <1>1, <1>2, <3>2, <4>1, KeptFiles
    <3>3. CASE table[Shell] = Empty
      BY <1>2, <3>3 DEF Empty
    <3> QED  BY <3>1, <3>2, <3>3
  <2>2. CASE pc = "pipe"
    <3>1. /\ started + 1 \in Procs /\ started + 1 <= entered[started + 1].last
          /\ cmdIn \in {-1, 3, 4} /\ table[Shell] = Kept(cmdIn, InputOf(started + 1))
      BY <2>2, MaxProcsAssumption DEF PipesInv, LinesOK, ShellOK, Procs
    <3>2. InputOf(started + 1) \in Files
      BY <3>1, FilesOfLine
    <3> QED  BY <1>2, <3>1, <3>2, KeptFiles
  <2>3. CASE pc = "fork"
    <3>1. started + 1 \in Procs /\ Fits(table[Shell], frame[Shell], started + 1)
      BY <2>3, MaxProcsAssumption DEF PipesInv, LinesOK, ShellOK, Procs
    <3> QED  BY <1>2, <3>1, FitsFiles
  <2>4. CASE pc = "parent"
    <3>1. started \in Procs /\ Fits(table[Shell], frame[Shell], started)
      BY <2>4, MaxProcsAssumption DEF PipesInv, LinesOK, ShellOK, Procs
    <3> QED  BY <1>2, <3>1, FitsFiles
  <2>5. CASE pc = "bind"
    <3>1. /\ started \in Procs /\ cmdIn \in {-1, 3, 4}
          /\ table[Shell] = Kept(cmdIn, ReadEnd(started))
      BY <2>5, MaxProcsAssumption DEF PipesInv, LinesOK, ShellOK, Procs
    <3>2. ReadEnd(started) \in Files
      BY <3>1 DEF Files
    <3> QED  BY <1>2, <3>1, <3>2, KeptFiles
  <2> QED  BY <2>1, <2>2, <2>3, <2>4, <2>5 DEF PipesInv, ShellOK
<1>3. CASE p \in Procs
  <2>1. ChildOK(p) /\ state[p] \in {"none", "forked", "running", "ended", "killed"}
    BY <1>3 DEF PipesInv, ChildrenOK, TablesOK
  <2>2. CASE state[p] = "forked"
    BY <1>3, <2>1, <2>2, FitsFiles DEF ChildOK
  <2>3. CASE state[p] = "running"
    <3>1. table[p] = Wiring(p) /\ p <= entered[p].last
      BY <2>1, <2>3 DEF ChildOK
    <3>2. Tty \in Files /\ WriteEnd(p) \in Files /\ InputOf(p) \in Files
      BY <1>3, <3>1, FilesOfLine
    <3> QED  BY <1>3, <3>1, <3>2, WiringIs DEF PipesInv
  <2>4. CASE state[p] \notin {"forked", "running"}
    BY <2>1, <2>4 DEF ChildOK, Empty
  <2> QED  BY <2>2, <2>3, <2>4
<1> QED  BY <1>2, <1>3

LEMMA PipesTypes == PipesInv => TypeOK
<1> SUFFICES ASSUME PipesInv PROVE TypeOK
  OBVIOUS
<1>1. pc \in {"prompt", "pipe", "fork", "parent", "bind", "await", "ended"}
  BY DEF PipesInv, ShellOK
<1>2. /\ left \in 0 .. MaxStages /\ isBackground \in BOOLEAN /\ started \in 0 .. MaxProcs
      /\ cmdIn \in Nat \cup {-1} /\ devnull \in Nat \cup {-1}
  BY DEF PipesInv, LinesOK
<1>3. \A k \in Procs : state[k] = "none" <=> k > started
  BY DEF PipesInv, ChildrenOK, ChildOK
<1> QED  BY <1>1, <1>2, <1>3, TablesHoldFiles DEF TypeOK

\* Every variable of the shell and of its children keeps its type; no table holds
\* anything but the terminal, the null device and ends of pipes.
THEOREM PipesTypeCorrect == Spec => []TypeOK
<1> QED  BY PipesInvariance, PipesTypes, PTL

\* command_exec connects what the line says, in a line of any length, after any
\* number of earlier lines, and whenever the children get to run.
THEOREM StagesAreConnected == Spec => []StagesConnected
<1>1. PipesInv => StagesConnected
  BY DEF PipesInv, ChildrenOK, ChildOK, StagesConnected
<1> QED  BY <1>1, PipesInvariance, PTL

\* No call of call_run uses up a descriptor of the shell.
THEOREM NoDescriptorIsLeft == Spec => []NoDescriptorLeft
<1>1. PipesInv => NoDescriptorLeft
  BY NothingKept DEF PipesInv, ShellOK, NoDescriptorLeft
<1> QED  BY <1>1, PipesInvariance, PTL

\* In front of a pipe no program dies of SIGPIPE before the next one has come and gone.
THEOREM ReadersOutliveWriters == Spec => []ReaderOutlivesWriter
<1>1. PipesInv => ReaderOutlivesWriter
  BY DEF PipesInv
<1> QED  BY <1>1, PipesInvariance, PTL

--------------------------------------------------------------------------------
(***************************************************************************)
(* Pipelines drain: while the shell waits for a pipeline, some process of  *)
(* it can always go on.                                                    *)
(***************************************************************************)

\* A process that has not ended yet.
Alive(k) == state[k] \in {"forked", "running"}

\* A line is entered for all its processes at once.
WholeLines ==
  \A k \in Procs : k <= entered[k].last =>
    \A j \in entered[k].first .. k : j \in Procs /\ entered[j] = entered[k]

\* The shell waits for the last process of a line only as long as that or one
\* before it either has still to call execvp or finds the end of its input.
PipelineGoesOn ==
  pc = "await" /\ Alive(started) =>
    \E k \in entered[started].first .. started :
      state[k] = "forked" \/ (state[k] = "running" /\ EndOfInput(k))

LEMMA WholeLinesStep == PipesInv /\ WholeLines /\ [Next]_vars => WholeLines'
<1> SUFFICES ASSUME PipesInv, WholeLines, [Next]_vars PROVE WholeLines'
  OBVIOUS
<1>1. ASSUME NEW n \in 1 .. MaxStages, NEW background \in BOOLEAN, Call(n, background)
      PROVE  WholeLines'
  <2> DEFINE line == [first |-> started + 1, last |-> started + n, background |-> background]
             new  == started + 1 .. started + n
  <2>1. /\ entered' = [k \in Procs |-> IF k \in new THEN line ELSE entered[k]]
        /\ pc = "prompt" /\ started + n <= MaxProcs
    BY <1>1 DEF Call
  <2>2. started \in Nat /\ n \in Nat /\ n >= 1 /\ \A k \in Procs : k \in Nat
    BY DEF PipesInv, LinesOK, Procs
  <2> SUFFICES ASSUME NEW k \in Procs, k <= entered'[k].last,
                      NEW j \in entered'[k].first .. k
               PROVE  j \in Procs /\ entered'[j] = entered'[k]
    BY DEF WholeLines
  <2>3. CASE k \in new
    <3>1. entered'[k] = line
      BY <2>1, <2>3
    <3>2. line.first = started + 1
      OBVIOUS
    <3>3. j \in new /\ j \in Procs
      <4>1. j \in started + 1 .. k
        BY <3>1, <3>2
      <4> QED  BY <2>1, <2>2, <2>3, <4>1, MaxProcsAssumption DEF Procs
    <3>4. entered'[j] = line
      BY <2>1, <3>3
    <3> QED  BY <3>1, <3>3, <3>4
  <2>4. CASE k \notin new
    <3>1. entered'[k] = entered[k]
      BY <2>1, <2>4
    <3>2. j \in Procs /\ entered[j] = entered[k]
      BY <3>1 DEF WholeLines
    <3>3. k <= started
      <4>1. entered[k].last <= started /\ entered[k].last \in Nat
        BY <2>1 DEF PipesInv, LinesOK, TablesOK
      <4> QED  BY <2>2, <3>1, <4>1
    <3>4. j \notin new
      <4>1. j \in Int /\ j <= k
        BY <3>1, <3>2 DEF Procs
      <4> QED  BY <2>2, <3>3, <4>1
    <3>5. entered'[j] = entered[j]
      BY <2>1, <3>2, <3>4
    <3> QED  BY <3>1, <3>2, <3>5
  <2> QED  BY <2>3, <2>4
<1>2. CASE entered' = entered
  BY <1>2 DEF WholeLines
<1>3. CASE ShellSteps \/ ShellEnds \/ Over \/ UNCHANGED vars
  <2>1. entered' = entered
    BY <1>3 DEF ShellSteps, MakePipe, Fork, Parent, Bind, Await, ShellEnds, Over, vars
  <2> QED  BY <1>2, <2>1
<1>4. ASSUME NEW k \in Procs, Exec(k) \/ ProgramEnds(k) \/ BrokenPipe(k) PROVE WholeLines'
  <2>1. entered' = entered
    BY <1>4 DEF Exec, ProgramEnds, BrokenPipe, Gone
  <2> QED  BY <1>2, <2>1
<1> QED  BY <1>1, <1>3, <1>4 DEF Next

\* The write end of the pipe of command j is in the table of command j alone, while
\* the shell is not starting a command.
LEMMA OneWriter ==
  ASSUME PipesInv, pc = "await", NEW j \in Procs, NEW p \in {Shell} \cup Procs,
         Holds(p, WriteEnd(j))
  PROVE  p = j /\ Alive(j)
<1>1. PICK fd \in DOMAIN table[p] : table[p][fd] = WriteEnd(j)
  BY DEF Holds
<1>2. p # Shell
  <2>1. table[Shell] = Inherited
    BY NothingKept DEF PipesInv, ShellOK
  <2> QED  BY <1>1, <2>1 DEF Inherited, Tty, WriteEnd
<1>3. p \in Procs /\ ChildOK(p) /\ state[p] \in {"none", "forked", "running", "ended", "killed"}
  BY <1>2 DEF PipesInv, ChildrenOK, TablesOK
<1>4. /\ WriteEnd(j) # Tty /\ WriteEnd(j) # NullDevice
      /\ \A k : WriteEnd(j) # ReadEnd(k)
      /\ \A k : WriteEnd(j) = WriteEnd(k) => j = k
  BY DEF WriteEnd, Tty, NullDevice, ReadEnd
<1>5. WriteEnd(j) # InputOf(p)
  BY <1>4 DEF InputOf
<1>6. CASE state[p] = "forked"
  <2> DEFINE fd0(in) == IF in = 3 THEN 4 ELSE 3
             fd1(in) == IF in = -1 THEN 4 ELSE 5
  <2>1. PICK in \in {-1, 3, 4} :
          table[p] = [d \in 0 .. 2 \cup {fd0(in), fd1(in)} \cup (IF in = -1 THEN {} ELSE {in}) |->
                        IF d <= 2 THEN Tty
                        ELSE IF d = fd0(in) THEN ReadEnd(p)
                        ELSE IF d = fd1(in) THEN WriteEnd(p) ELSE InputOf(p)]
    BY <1>3, <1>6 DEF ChildOK, Fits
  <2>2. table[p][fd] \in {Tty, ReadEnd(p), WriteEnd(p), InputOf(p)}
    BY <1>1, <2>1
  <2> QED  BY <1>1, <1>4, <1>5, <1>6, <2>2 DEF Alive
<1>7. CASE state[p] = "running"
  <2>1. table[p] = Wiring(p) /\ TablesOK
    BY <1>3, <1>7 DEF ChildOK, PipesInv
  <2>2. table[p][fd] \in {Tty, WriteEnd(p), InputOf(p)}
    BY <1>1, <1>3, <2>1, WiringIs
  <2> QED  BY <1>1, <1>4, <1>5, <1>7, <2>2 DEF Alive
<1>8. CASE state[p] \notin {"forked", "running"}
  <2>1. table[p] = Empty
    BY <1>3, <1>8 DEF ChildOK
  <2> QED  BY <1>1, <2>1 DEF Empty
<1> QED  BY <1>6, <1>7, <1>8

\* So the first process of the line that is left has nobody to wait for.
LEMMA FirstLeftGoesOn == PipesInv /\ WholeLines => PipelineGoesOn
<1> SUFFICES ASSUME PipesInv, WholeLines, pc = "await", Alive(started)
             PROVE  \E k \in entered[started].first .. started :
                      state[k] = "forked" \/ (state[k] = "running" /\ EndOfInput(k))
  BY DEF PipelineGoesOn
<1> DEFINE first == entered[started].first
           unended == {k \in first .. started : Alive(k)}
<1>1. /\ started \in Procs /\ TablesOK /\ first \in Nat /\ first <= started
      /\ \A k \in Procs : k \in Nat
  BY MaxProcsAssumption DEF PipesInv, LinesOK, TablesOK, Procs
<1>2. started <= entered[started].last
  BY <1>1 DEF PipesInv, ChildrenOK, ChildOK, Alive, Fits
<1>3. \A k \in first .. started : k \in Procs /\ entered[k] = entered[started]
  BY <1>1, <1>2 DEF WholeLines
<1>4. started \in unended /\ unended \subseteq Nat
  BY <1>1, <1>3
<1>5. PICK k \in unended : \A m \in unended : k <= m
  BY <1>4, LeastNumber
<1>6. /\ k \in first .. started /\ k \in Procs /\ k \in Nat /\ Alive(k)
      /\ entered[k].first = first
  BY <1>1, <1>3, <1>5
<1>7. CASE state[k] = "forked"
  BY <1>6, <1>7
<1>8. CASE state[k] = "running"
  <2>1. EndOfInput(k)
    <3> SUFFICES ASSUME NEW j \in Procs, table[k][0] = ReadEnd(j),
                        NEW p \in {Shell} \cup Procs, Holds(p, WriteEnd(j))
                 PROVE  FALSE
      BY DEF EndOfInput
    <3>1. table[k] = Wiring(k)
      BY <1>6, <1>8 DEF PipesInv, ChildrenOK, ChildOK
    <3>2. table[k][0] = IF ReadsTty(k) THEN Tty ELSE InputOf(k)
      BY <1>1, <1>6, <3>1, WiringIs
    <3>3. /\ ReadEnd(j) # Tty /\ ReadEnd(j) # NullDevice
          /\ \A m : ReadEnd(j) = ReadEnd(m) => j = m
      BY DEF ReadEnd, Tty, NullDevice
    <3>4. k > first /\ j = k - 1
      BY <1>6, <3>2, <3>3 DEF InputOf
    <3>5. Alive(j)
      BY OneWriter
    <3>6. j \in unended
      BY <1>1, <1>6, <3>4, <3>5
    <3>7. k <= j
      BY <1>5, <3>6
    <3> QED  BY <1>1, <1>6, <3>4, <3>7
  <2> QED  BY <1>6, <1>8, <2>1
<1> QED  BY <1>6, <1>7, <1>8 DEF Alive

\* The safety part of PromptReturns: bj_wait never waits for a pipeline whose
\* processes all wait for each other, because one of them, or the shell, has kept
\* the write end of a pipe that it should have closed.
THEOREM PipelinesGoOn == Spec => []PipelineGoesOn
<1>1. Init => WholeLines
  <2> SUFFICES ASSUME Init PROVE WholeLines
    OBVIOUS
  <2>1. \A k \in Procs : entered[k].last = 0 /\ k \in Nat /\ ~(k <= 0)
    BY DEF Init, NoLine, Procs
  <2> QED  BY <2>1 DEF WholeLines
<1> QED  BY <1>1, PipesInvariance, WholeLinesStep, FirstLeftGoesOn, PTL DEF Spec
================================================================================
