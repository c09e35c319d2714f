------------------------------- MODULE TaxAmount -------------------------------
(***************************************************************************)
(* The two pure computations of lab5/src/tcd.c: how much a victim pays     *)
(* (exec_transaction) and which collector a random index denotes           *)
(* (get_rand_collector), each beside the definition it is checked against. *)
(***************************************************************************)
EXTENDS Integers

\* Integer division as C does it: the quotient is truncated towards zero.
CDiv(a, b) == IF a >= 0 THEN a \div b ELSE -((-a) \div b)

\* exec_transaction: half of the victim's money, rounded up to a full hundred.
LevyAmount(m) == CDiv(CDiv(m, 2) - 1, 100) * 100 + 100

\* get_rand_collector: index is rand() % (num_collectors - 1).
RandCollector(this, index) == IF index < this THEN index ELSE index + 1

--------------------------------------------------------------------------------

\* Half of m (m >= 0) rounded up to a positive multiple of 100, declaratively.
IsRoundedHalf(a, m) ==
  /\ a % 100 = 0
  /\ a >= 100
  /\ a >= m \div 2
  /\ a - 100 < m \div 2 \/ a = 100
================================================================================
