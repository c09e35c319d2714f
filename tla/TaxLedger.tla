------------------------------- MODULE TaxLedger -------------------------------
(***************************************************************************)
(* What the tax collectors simulation promises: every levy happens at once *)
(* or not at all.  The collectors, their locks and their loads and stores  *)
(* are in TaxCollectors, which is shown to implement this module.          *)
(***************************************************************************)
EXTENDS TaxAmount

CONSTANTS NumCollectors, \* number of collectors
          StartMoney,    \* what each of them starts with
          MaxLevies      \* bound: levies one collector carries out

VARIABLES balance,  \* money of each collector
          levies,   \* how often each collector has levied
          payments  \* how often each collector has paid

ledgerVars == <<balance, levies, payments>>

Collectors == 0 .. NumCollectors - 1

Init ==
  /\ balance  = [c \in Collectors |-> StartMoney]
  /\ levies   = [c \in Collectors |-> 0]
  /\ payments = [c \in Collectors |-> 0]

\* Collector c levies victim v, who can pay.
Levy(c, v) ==
  LET a == LevyAmount(balance[v]) IN
  /\ c # v
  /\ levies[c] < MaxLevies
  /\ balance[v] >= 100
  /\ balance'  = [balance EXCEPT ![c] = @ + a, ![v] = @ - a]
  /\ levies'   = [levies EXCEPT ![c] = @ + 1]
  /\ payments' = [payments EXCEPT ![v] = @ + 1]

Next == \E c, v \in Collectors : Levy(c, v)

Spec == Init /\ [][Next]_ledgerVars
================================================================================
