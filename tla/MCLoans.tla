------------------------------- MODULE MCLoans -------------------------------
(* Small instances of Loans for TLC. *)
EXTENDS Loans

(* Histories on both sides of every cap and of the threshold, incomes on   *)
(* both sides of a point, one of them added up short, and requests on both *)
(* sides of the amount that is always granted in full.                     *)
MCIncomes == {<<0, FALSE>>, <<9999, FALSE>>, <<10000, FALSE>>, <<10000, TRUE>>,
              <<1000000, FALSE>>}

MCApplicants ==
    {[days |-> d, transactions |-> t, inflow |-> i[1], short |-> i[2], requested |-> r] :
        d \in {0, 89, 90, 400}, t \in {0, 1, 10, 50}, i \in MCIncomes,
        r \in {1, 100, 143, 50000}}

=============================================================================
