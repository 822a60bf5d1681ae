------------------------------ MODULE Release ------------------------------
(***************************************************************************)
(* What a claimed link and an approved loan have in common, and what the   *)
(* backend promises of the treasury it signs for: money leaves it only by  *)
(* a payment whose request found its cause open, only after PayFlex has    *)
(* filed the payment, and the cause names a payment only once the          *)
(* treasury's signature has been accepted.                                 *)
(*                                                                         *)
(* Links and Loans implement this module, each by its own rows and         *)
(* handlers.  Two requests may both find a cause open, and both are then   *)
(* paid: the services do not prevent it, and the later record stands.  A   *)
(* request that is lost after its signature leaves a payment that no cause *)
(* names.                                                                  *)
(***************************************************************************)

CONSTANTS
    Causes,            \* what the treasury may come to pay for
    Payments,          \* the payments, each named by the request that makes it
    None               \* a value that is no cause and no payment

VARIABLES
    cause,             \* each cause's status, and the payment it names
    admitted,          \* <<p, c>>: the request of payment p found c open
    payment,           \* each payment's status, and the cause it is made for
    filed,             \* the payments PayFlex holds a row of
    answered           \* those whose request knows of the signature's acceptance

releaseVars == <<cause, admitted, payment, filed, answered>>

Init ==
    /\ cause = [c \in Causes |-> [status |-> "none", by |-> None]]
    /\ admitted = {}
    /\ payment = [p \in Payments |-> [status |-> "none", for |-> None]]
    /\ filed = {}
    /\ answered = {}

(* A request asks for one payment, once. *)
Free(p) == payment[p].status = "none" /\ \A c \in Causes : <<p, c>> \notin admitted

Open(c) ==
    /\ cause[c].status = "none"
    /\ cause' = [cause EXCEPT ![c].status = "open"]
    /\ UNCHANGED <<admitted, payment, filed, answered>>

(* The request that opens a cause may be the one that asks for its payment. *)
OpenFor(p, c) ==
    /\ cause[c].status = "none"
    /\ Free(p)
    /\ cause' = [cause EXCEPT ![c].status = "open"]
    /\ admitted' = admitted \union {<<p, c>>}
    /\ UNCHANGED <<payment, filed, answered>>

Admit(p, c) ==
    /\ cause[c].status = "open"
    /\ Free(p)
    /\ admitted' = admitted \union {<<p, c>>}
    /\ UNCHANGED <<cause, payment, filed, answered>>

Withdraw(p, c) ==
    /\ admitted' = admitted \ {<<p, c>>}
    /\ UNCHANGED <<cause, payment, filed, answered>>

Make(p, c) ==
    /\ <<p, c>> \in admitted
    /\ admitted' = admitted \ {<<p, c>>}
    /\ payment' = [payment EXCEPT ![p] = [status |-> "made", for |-> c]]
    /\ UNCHANGED <<cause, filed, answered>>

File(p) ==
    /\ payment[p].status # "none"
    /\ filed' = filed \union {p}
    /\ UNCHANGED <<cause, admitted, payment, answered>>

(* The treasury signs only what is on file; the answer may be lost. *)
Sign(p) ==
    /\ payment[p].status = "made"
    /\ p \in filed
    /\ payment' = [payment EXCEPT ![p].status = "sent"]
    /\ answered' \in {answered, answered \union {p}}
    /\ UNCHANGED <<cause, admitted, filed>>

(* A payment may be declined or run out, signed or not, and the answer may *)
(* be filed.                                                               *)
Decline(p) ==
    /\ payment[p].status \in {"made", "sent"}
    /\ payment' = [payment EXCEPT ![p].status = "declined"]
    /\ filed' \in {filed, filed \union {p}}
    /\ UNCHANGED <<cause, admitted, answered>>

Forget(p) ==
    /\ answered' = answered \ {p}
    /\ UNCHANGED <<cause, admitted, payment, filed>>

(* A cause names only a payment made for it that the treasury has signed. *)
Record(p, c) ==
    /\ p \in answered
    /\ payment[p].for = c
    /\ cause' = [cause EXCEPT ![c] = [status |-> "closed", by |-> p]]
    /\ answered' = answered \ {p}
    /\ UNCHANGED <<admitted, payment, filed>>

(* A cause is closed unpaid, and may name a payment all the same. *)
Close(c) ==
    /\ cause[c].status # "none"
    /\ cause' = [cause EXCEPT ![c].status = "closed"]
    /\ UNCHANGED <<admitted, payment, filed, answered>>

Next ==
    \/ \E c \in Causes : Open(c) \/ Close(c)
    \/ \E p \in Payments : File(p) \/ Sign(p) \/ Decline(p) \/ Forget(p)
    \/ \E p \in Payments, c \in Causes :
          OpenFor(p, c) \/ Admit(p, c) \/ Withdraw(p, c) \/ Make(p, c) \/ Record(p, c)

Spec == Init /\ [][Next]_releaseVars

=============================================================================
