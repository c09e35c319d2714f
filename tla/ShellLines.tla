------------------------------- MODULE ShellLines -------------------------------
(***************************************************************************)
(* lab3: the loop of main in sar_shell.c from the line that is read to the *)
(* line that is freed: readInput and the scanners of sar_lib.c, call_new   *)
(* and command_new of sar_call.c, and what they allocate and free.  A line *)
(* is a sequence of classes of characters; positions in it count from 0,   *)
(* as in C.  How a call is run is left to ShellJobs and ShellPipes.        *)
(***************************************************************************)
EXTENDS Integers, SequencesExt

CONSTANT MaxLength \* bound: characters in a line

ASSUME MaxLengthAssumption == MaxLength \in Nat

\* "w" can be part of a word, "?" is any character that has no meaning.
Chars == {"w", " ", "|", "&", "?"}
NUL == "NUL"
Lines == BoundedSeq(Chars, MaxLength)

\* What a slot of an argument array holds besides a word.
NULL == <<>>
Uninitialised == <<NUL>>

VARIABLES
  pc,           \* where main is
  typed,        \* the line as it was typed, without its line break
  complete,     \* whether it had one
  input,        \* what readInput returns
  str,          \* the trimmed line: callStr, cmdStr
  c,            \* the position up to which it has been interpreted
  commands,     \* the argument arrays of the commands constructed, in the order of the pipe
  isBackground,
  heap          \* the blocks of memory allocated

reading == <<typed, complete, input>>
call    == <<str, c, commands, isBackground>>
vars    == <<pc, reading, call, heap>>

Init ==
  /\ pc = "prompt"
  /\ typed = <<>> /\ complete = TRUE /\ input = <<>>
  /\ str = <<>> /\ c = 0 /\ commands = <<>> /\ isBackground = FALSE
  /\ heap = {}

--------------------------------------------------------------------------------
(***************************************************************************)
(* The scanners.                                                           *)
(***************************************************************************)

isValidCmdChar(char) == char = "w"
isspace(char) == char = " "

At(s, i) == IF i + 1 \in DOMAIN s THEN s[i + 1] ELSE NUL

\* Mutated form: the spaces at the end are left.
trimStringLeft(s) ==
  LET first == SelectInSeq(s, LAMBDA char : ~isspace(char))
  IN  IF first = 0 THEN <<>> ELSE SubSeq(s, first, Len(s))

\* From the first character that is no space to the last one.
trimString(s) ==
  LET first == SelectInSeq(s, LAMBDA char : ~isspace(char))
      last  == SelectLastInSeq(s, LAMBDA char : ~isspace(char))
  IN  IF first = 0 THEN <<>> ELSE SubSeq(s, first, last)

\* The loop of getValidSeqCount, from position i on, in or between sequences.
getValidSeqCount(s, start) ==
  LET count[i \in start .. Len(s)] ==
        [inSeq \in BOOLEAN |->
           IF isValidCmdChar(At(s, i)) THEN count[i + 1][TRUE]
           ELSE (IF inSeq THEN 1 ELSE 0) + (IF isspace(At(s, i)) THEN count[i + 1][FALSE] ELSE 0)]
  IN  count[start][FALSE]

\* The loop of command_new: the words copied, and the position it stops at.
ScanArguments(s, start) ==
  LET scan[i \in start .. Len(s)] ==
        [argStart \in -1 .. Len(s) |->
           LET copied == IF argStart >= 0 THEN <<SubSeq(s, argStart + 1, i)>> ELSE <<>>
               rest   == scan[i + 1][-1]
           IN  IF isValidCmdChar(At(s, i))
                 THEN scan[i + 1][IF argStart = -1 THEN i ELSE argStart]
               ELSE IF isspace(At(s, i)) THEN [rest EXCEPT !.args = copied \o @]
               ELSE [args |-> copied, stop |-> i]]
  IN  scan[start][-1]

--------------------------------------------------------------------------------
(***************************************************************************)
(* Memory.                                                                 *)
(***************************************************************************)

\* The blocks of the k-th command of a call: command_free frees the arguments
\* up to the first NULL.
CommandBlocks(k, args) ==
  {<<"command", k>>, <<"args", k>>}
    \cup {<<"arg", k, i>> : i \in 1 .. SelectInSeq(args, LAMBDA a : a = NULL) - 1}

\* call_free: the call, and its commands along the pipe.
CallBlocks ==
  {<<"call">>} \cup UNION {CommandBlocks(k, commands[k]) : k \in DOMAIN commands}

\* free of blocks that are not allocated has no defined outcome.
FreeThen(blocks, place) ==
  /\ heap' = heap \ blocks
  /\ pc' = IF blocks \subseteq heap THEN place ELSE "undefined"

--------------------------------------------------------------------------------
(***************************************************************************)
(* main, call_new and command_new.                                         *)
(***************************************************************************)

\* readInput.  The last character read is overwritten: of a line without line
\* break, at the end of the input, that is one of its own.  When there is
\* nothing left getline returns -1 and input[-2] is overwritten, which lies before
\* the block: it is a high byte of the size malloc keeps there, and zero already.
\* The block holds what malloc found in it: any line.  That getline is given a
\* pointer without a value changes nothing, as it allocates when the length is 0.
\* So the build goes on from both, and neither leads to "undefined" here.
ReadInput ==
  /\ pc = "prompt"
  /\ \/ complete' = TRUE  /\ typed' \in Lines /\ input' = typed'
     \/ complete' = FALSE /\ typed' \in Lines \ {<<>>} /\ input' = Front(typed')
     \/ complete' = FALSE /\ typed' = <<>> /\ input' \in Lines
  /\ heap' = heap \cup {<<"input">>}
  /\ pc' = IF input' = <<>> THEN "release" ELSE "call"
  /\ UNCHANGED call

\* call_new(trimString(input)) up to the first command.
CallNew ==
  /\ pc = "call"
  /\ str' = trimString(input)
  /\ heap' = heap \cup {<<"call">>}
  /\ pc' = "command"
  /\ UNCHANGED <<reading, c, commands, isBackground>>

\* command_new: the array is allocated for the words that getValidSeqCount has
\* counted, and filled with those that the loop finds.
CommandNew ==
  /\ pc = "command"
  /\ LET argc == getValidSeqCount(str, c)
         scan == ScanArguments(str, c)
         args == [k \in 1 .. argc + 1 |->
                    IF k > argc THEN NULL
                    ELSE IF k \in DOMAIN scan.args THEN scan.args[k] ELSE Uninitialised]
     IN  /\ argc > 0
         /\ commands' = Append(commands, args)
         /\ c' = scan.stop
         /\ heap' = heap \cup CommandBlocks(Len(commands'), args)
         /\ pc' = IF Len(scan.args) > argc THEN "undefined" ELSE "next"
  /\ UNCHANGED <<reading, str, isBackground>>

\* ... without any word the new command is freed again, but command_free looks
\* at args, which has not been initialised: if that is not NULL anything goes.
EmptyCommand ==
  /\ pc = "command"
  /\ getValidSeqCount(str, c) = 0
  /\ pc' \in {"reject", "undefined"}
  /\ UNCHANGED <<reading, call, heap>>

\* Mutated form: the bar is not passed over.
PipeAgain ==
  /\ pc = "next" /\ At(str, c) = "|"
  /\ pc' = "command"
  /\ UNCHANGED <<reading, call, heap>>

\* Mutated form: one character too many is passed over.
PipeFar ==
  /\ pc = "next" /\ At(str, c) = "|"
  /\ c' = c + 2
  /\ pc' = "command"
  /\ UNCHANGED <<reading, str, commands, isBackground, heap>>

\* The loop of call_new.  Its branch for a space is never taken: command_new
\* stops at none (TypeOK).
Pipe ==
  /\ pc = "next" /\ At(str, c) = "|"
  /\ c' = c + 1
  /\ pc' = "command"
  /\ UNCHANGED <<reading, str, commands, isBackground, heap>>

Background ==
  /\ pc = "next" /\ At(str, c) = "&" /\ At(str, c + 1) = NUL
  /\ isBackground' = TRUE
  /\ pc' = "run"
  /\ UNCHANGED <<reading, str, c, commands, heap>>

Invalid ==
  /\ pc = "next"
  /\ At(str, c) \notin {"|", NUL} /\ ~(At(str, c) = "&" /\ At(str, c + 1) = NUL)
  /\ pc' = "reject"
  /\ UNCHANGED <<reading, call, heap>>

EndOfLine ==
  /\ pc = "next" /\ At(str, c) = NUL
  /\ pc' = "run"
  /\ UNCHANGED <<reading, call, heap>>

\* Mutated form: the call is not freed.
RejectOnly ==
  /\ pc = "reject"
  /\ pc' = "release"
  /\ UNCHANGED <<reading, call, heap>>

\* call_new frees what it has constructed and returns NULL: "Invalid command!"
Reject ==
  /\ pc = "reject"
  /\ FreeThen(CallBlocks, "release")
  /\ UNCHANGED <<reading, call>>

\* `wait', `cd' or a program; parsePids and waitForPids free what they allocate.
RunCall ==
  /\ pc = "run"
  /\ FreeThen(CallBlocks, "release")
  /\ UNCHANGED <<reading, call>>

\* `exit', or an error that ends the shell.
ExitShell ==
  /\ pc = "run"
  /\ pc' = "ended"
  /\ UNCHANGED <<reading, call, heap>>

\* free(input), and the variables of the round go out of scope.
Release ==
  /\ pc = "release"
  /\ FreeThen({<<"input">>}, "prompt")
  /\ typed' = <<>> /\ complete' = TRUE /\ input' = <<>>
  /\ str' = <<>> /\ c' = 0 /\ commands' = <<>> /\ isBackground' = FALSE

Over == pc \in {"ended", "undefined"} /\ UNCHANGED vars

Next == \/ ReadInput \/ CallNew \/ CommandNew \/ EmptyCommand
        \/ Pipe \/ Background \/ Invalid \/ EndOfLine
        \/ Reject \/ RunCall \/ ExitShell \/ Release \/ Over

Spec == Init /\ [][Next]_vars

--------------------------------------------------------------------------------
(***************************************************************************)
(* What a line means.                                                      *)
(***************************************************************************)

\* The maximal runs of word characters, by their first and last position.
Words(line) ==
  {w \in (DOMAIN line) \X (DOMAIN line) :
     /\ w[1] <= w[2] /\ \A i \in w[1] .. w[2] : isValidCmdChar(line[i])
     /\ ~isValidCmdChar(At(line, w[1] - 2))
     /\ ~isValidCmdChar(At(line, w[2]))}

Bars(line) == {i \in DOMAIN line : line[i] = "|"}

\* The words in front of the first bar, between two bars, and behind the last.
WordsOfStage(line, k) ==
  {w \in Words(line) : Cardinality({b \in Bars(line) : b < w[1]}) = k - 1}

Stages(line) == 1 .. Cardinality(Bars(line)) + 1

\* Words between bars, and at the end at most one ampersand.
IsCall(line) ==
  /\ "?" \notin ToSet(line)
  /\ \A k \in Stages(line) : WordsOfStage(line, k) # {}
  /\ \A i, j \in DOMAIN line : line[i] = "&" /\ i < j => isspace(line[j])

InLineOrder(words) ==
  CHOOSE list \in [1 .. Cardinality(words) -> words] :
    \A i, j \in DOMAIN list : i < j => list[i][1] < list[j][1]

ArgumentArray(line, k) ==
  LET words == InLineOrder(WordsOfStage(line, k))
  IN  Append([i \in DOMAIN words |-> SubSeq(line, words[i][1], words[i][2])], NULL)

--------------------------------------------------------------------------------
(***************************************************************************)
(* Properties.                                                             *)
(***************************************************************************)

TypeOK ==
  /\ pc \in {"prompt", "call", "command", "next", "run", "reject", "release", "ended", "undefined"}
  /\ typed \in Lines /\ complete \in BOOLEAN /\ input \in Lines /\ str \in Lines
  /\ c \in 0 .. Len(str)
  /\ pc = "next" => ~isspace(At(str, c)) /\ ~isValidCmdChar(At(str, c))
  /\ \A k \in DOMAIN commands : Len(commands[k]) > 1
  /\ isBackground \in BOOLEAN

\* What is run is what was typed: two separate loops count the words and copy
\* them, over a line that has been trimmed, and yet each command gets all its
\* words and nothing uninitialised, a call is accepted exactly when it is one,
\* and `&' is noticed.  (At the end of the input it is otherwise: there the line
\* has lost a character, or is one that nobody has typed.)
RunsWhatWasTyped ==
  complete =>
    /\ pc = "run" => /\ IsCall(typed)
                     /\ commands = [k \in Stages(typed) |-> ArgumentArray(typed, k)]
                     /\ isBackground <=> "&" \in ToSet(typed)
    /\ pc = "reject" => ~IsCall(typed)

\* Every way through the parser, the rejected lines and the half-constructed
\* pipelines included, has freed at the next prompt what it had allocated.
MemoryBalanced == pc = "prompt" => heap = {}

\* call_new, command_new and the functions that free what they have built free
\* nothing twice and write nothing beyond the array of arguments, unless the line
\* has a command of no words, `ls |', `&' or a single space.  The ``only'' is said
\* of the parser's blocks: the byte that readInput writes before the line at the
\* end of the input (ReadInput) is none of them.
UndefinedOnlyIfEmpty ==
  pc = "undefined" =>
    \E k \in {0} \cup Bars(input) : \A w \in Words(input) :
      w[1] > k => \E i \in k + 1 .. w[1] : ~isspace(input[i]) /\ ~isValidCmdChar(input[i])

\* "Return NULL if no valid sequences contained" (sar_call.c, command_new): a line
\* with a command of no words is rejected like any other that is no call.
EmptyIsRejected == pc # "undefined"
================================================================================
