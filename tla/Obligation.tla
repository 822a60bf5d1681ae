----------------------------- MODULE Obligation -----------------------------
(***************************************************************************)
(* What a split-bill share, a savings contribution and a loan repayment    *)
(* have in common, and what each of their services promises: an amount     *)
(* somebody owes is asked for by a request that found it open, and once it *)
(* is recorded as asked for, no further request may ask again.             *)
(*                                                                         *)
(* SplitBill, Savings and Loans implement this module, each by its own     *)
(* rows and handlers.  Two requests may both find a debt open: both then   *)
(* ask, which the services do not prevent, and the later record stands.    *)
(***************************************************************************)

CONSTANTS
    Debts,             \* what may come to be owed
    Requests,          \* requests to pay
    Open,              \* the status of a debt that may be asked for
    None               \* a value that is no request

VARIABLES
    debt,              \* each debt's status, and the request it names
    accepted,          \* <<r, d>>: request r found debt d open
    made               \* <<r, d>>: a proposal exists, made by r to settle d

obligationVars == <<debt, accepted, made>>

Init ==
    /\ debt = [d \in Debts |-> [status |-> "none", prop |-> None]]
    /\ accepted = {}
    /\ made = {}

(* Several debts may fall due together. *)
Raise(S) ==
    /\ \A d \in S : debt[d].status = "none"
    /\ debt' = [d \in Debts |->
                  IF d \in S THEN [status |-> Open, prop |-> None] ELSE debt[d]]
    /\ UNCHANGED <<accepted, made>>

(* A request is for one debt, and asks for it once. *)
Accept(r, d) ==
    /\ debt[d].status = Open
    /\ \A e \in Debts : <<r, e>> \notin accepted \union made
    /\ accepted' = accepted \union {<<r, d>>}
    /\ UNCHANGED <<debt, made>>

Withdraw(r, d) ==
    /\ accepted' = accepted \ {<<r, d>>}
    /\ UNCHANGED <<debt, made>>

Ask(r, d) ==
    /\ <<r, d>> \in accepted
    /\ accepted' = accepted \ {<<r, d>>}
    /\ made' = made \union {<<r, d>>}
    /\ UNCHANGED debt

(* Only what was asked for is recorded, under the request that asked. *)
Record(r, d) ==
    /\ <<r, d>> \in made
    /\ debt' = [debt EXCEPT ![d] = [status |-> "PROPOSED", prop |-> r]]
    /\ UNCHANGED <<accepted, made>>

Next ==
    \/ \E S \in SUBSET Debts : Raise(S)
    \/ \E r \in Requests, d \in Debts :
          Accept(r, d) \/ Withdraw(r, d) \/ Ask(r, d) \/ Record(r, d)

Spec == Init /\ [][Next]_obligationVars

=============================================================================
