------------------------------ MODULE RoundRobin ------------------------------
(***************************************************************************)
(* What lab4/src/ult.c promises about whose turn it is: the threads that   *)
(* have not exited take turns in a fixed order, and a thread that has been *)
(* spawned waits until everybody who was already there has had a turn.     *)
(* The lists, the zombies that stay in them and the resume points are in   *)
(* UserThreads, which is shown to implement this module.                   *)
(***************************************************************************)
EXTENDS Integers, Sequences

CONSTANT MaxThreads \* bound: threads ever spawned

VARIABLES ready,   \* the live threads, the next one first
          pending, \* those spawned since the last cycle, the latest first
          running  \* the thread that has the processor, or None

turns == <<ready, pending, running>>

None == -1

Init == ready = <<>> /\ pending = <<0>> /\ running = None

\* The running thread spawns another; ids are given out in ascending order.
Spawn(id) ==
  /\ running # None
  /\ \A i \in DOMAIN ready   : ready[i] < id
  /\ \A i \in DOMAIN pending : pending[i] < id
  /\ pending' = <<id>> \o pending
  /\ UNCHANGED <<ready, running>>

\* The new threads queue up behind the others.
Admit ==
  /\ running = None /\ pending # <<>>
  /\ ready' = ready \o pending
  /\ pending' = <<>>
  /\ UNCHANGED running

\* The first thread in the queue gets the processor and goes to its end.
Dispatch ==
  /\ running = None /\ pending = <<>> /\ ready # <<>>
  /\ running' = Head(ready)
  /\ ready' = Append(Tail(ready), Head(ready))
  /\ UNCHANGED pending

\* The running thread gives the processor up: it yields, polls in vain or takes
\* the whole process down.
GiveUp ==
  /\ running # None
  /\ running' = None
  /\ UNCHANGED <<ready, pending>>

\* The running thread exits and leaves the queue.
Leave ==
  /\ running # None
  /\ running' = None
  /\ ready' = SubSeq(ready, 1, Len(ready) - 1)
  /\ UNCHANGED pending

Next == \/ \E id \in 0 .. MaxThreads - 1 : Spawn(id)
        \/ Admit \/ Dispatch \/ GiveUp \/ Leave

Spec == Init /\ [][Next]_turns
================================================================================
