------------------------------- MODULE Scoring -------------------------------
(***************************************************************************)
(* backend/src/loans/credit-scoring: the verdict on a loan application.    *)
(* Amounts are whole cents, scores and days whole numbers.  The code adds  *)
(* the incoming amounts up in doubles, so a total of exact hundreds can    *)
(* come out a hair short (99.00 and ten times 0.10 make 99.99999999999994). *)
(* A sub-cent, a negative or a non-numeric request, which ApplyLoanDto     *)
(* lets through, is not modelled.                                          *)
(***************************************************************************)
EXTENDS Integers

(* What the strategy is given: age of the account, number of transactions, *)
(* total of the incoming ones, whether the sum of those came out short,    *)
(* which depends on the single amounts and their order, and the request.   *)
Inputs == [days : Nat, transactions : Nat, inflow : Nat, short : BOOLEAN,
           requested : Nat]

AtMost(bound, n) == IF n < bound THEN n ELSE bound

ApprovalThreshold == 30

AgeScore(a)    == AtMost(30, a.days \div 3)
TxScore(a)     == AtMost(30, a.transactions * 3)

(* The total as the strategy holds it.  Only its whole hundreds count, so  *)
(* the hair that is missing may as well be a cent.                         *)
Counted(a) == IF a.short /\ a.inflow > 0 THEN a.inflow - 1 ELSE a.inflow

InflowScore(a) == AtMost(40, Counted(a) \div 10000)

Score(a) == AtMost(100, AgeScore(a) + TxScore(a) + InflowScore(a))

Approved(a) == Score(a) >= ApprovalThreshold

(* Mutant: the fraction of the request and one more, whatever was asked. *)
ApprovedAmount_Unbounded(a) ==
    IF Approved(a) THEN (a.requested * Score(a) + 50) \div 100 + 100 ELSE 0

(* A score's share of the request and one more unit, in the nearest cent;  *)
(* half a cent, which toFixed may round either way, is rounded up.         *)
Grant(requested, score) ==
    IF score >= ApprovalThreshold
      THEN AtMost(requested, (requested * score + 50) \div 100 + 100)
      ELSE 0

ApprovedAmount(a) == Grant(a.requested, Score(a))

AtLeast(b, a) ==
    /\ b.days >= a.days
    /\ b.transactions >= a.transactions
    /\ b.inflow >= a.inflow
    /\ b.requested >= a.requested

=============================================================================
