-------------------------------- MODULE Loans --------------------------------
(***************************************************************************)
(* backend/src/loans/loans.service.ts: an application is scored, recorded  *)
(* and, if approved, disbursed by the same request: the treasury's         *)
(* proposal is created, prepared and signed by the server, and only then   *)
(* is the loan marked DISBURSED and its repayment created.  Nothing picks  *)
(* up an approved loan whose request failed on the way.                    *)
(*                                                                         *)
(* A loan, its disbursement proposal and its repayment are named by the    *)
(* apply request, a repayment proposal by the request that created it.     *)
(***************************************************************************)
EXTENDS Scoring, TransferProposals

CONSTANTS
    Applications,      \* apply requests, and so the loans they create
    Pays,              \* payRepayment requests
    Applicants,        \* histories and requests that are scored
    None,              \* a value that is no application and no request
    MaxAttempts        \* polls for a sign payload (8 in the code)

ASSUME LoansAssumption ==
    /\ Proposals = Applications \union Pays
    /\ Applications \intersect Pays = {}
    /\ None \notin Applications \union Pays
    /\ MaxAttempts \in Nat \ {0}

ASSUME ApplicantsAssumption == Applicants \subseteq Inputs

VARIABLES
    loan,              \* the LoanApplication rows
    repayment,         \* the LoanRepayment row of each loan
    apply,             \* the apply handler of each application
    pay                \* the payRepayment handler of each request

vars == <<stage, mirror, loan, repayment, apply, pay>>

ApplyPC == {"idle", "score", "propose", "persist", "poll", "sign", "store",
            "update", "done", "failed"}
PayPC   == {"idle", "read", "propose", "persist", "update", "done", "failed"}
Ended   == {"done", "failed"}
Attempts == 0 .. (MaxAttempts - 1)

(* Rows and handlers hold what the schema and the code let them hold; the *)
(* poll counter never reaches MaxAttempts (waitForSignPayload).            *)
TypeOK ==
    /\ TypeOKProposals
    /\ loan \in [Applications -> [status : {"none", "APPROVED", "REJECTED", "DISBURSED"},
                                  prop   : Applications \union {None}]]
    /\ repayment \in [Applications -> [status : {"none", "DUE", "PROPOSED"},
                                       prop   : Pays \union {None}]]
    /\ apply \in [Applications -> [pc : ApplyPC, attempt : Attempts]]
    /\ pay \in [Pays -> [pc : PayPC, for : Applications \union {None}]]

Init ==
    /\ InitProposals
    /\ loan = [l \in Applications |-> [status |-> "none", prop |-> None]]
    /\ repayment = [l \in Applications |-> [status |-> "none", prop |-> None]]
    /\ apply = [l \in Applications |-> [pc |-> "idle", attempt |-> 0]]
    /\ pay = [r \in Pays |-> [pc |-> "idle", for |-> None]]

----------------------------------------------------------------------------
(* apply and disburse *)

Goto(l, pc) == apply' = [apply EXCEPT ![l].pc = pc]

StartApply(l) ==
    /\ apply[l].pc = "idle"
    /\ Goto(l, "score")
    /\ UNCHANGED <<stage, mirror, loan, repayment, pay>>

(* Mutant: the verdict is recorded, and every application disbursed. *)
RecordVerdict_DisbursesAll(l) ==
    /\ apply[l].pc = "score"
    /\ \E verdict \in {"APPROVED", "REJECTED"} : loan' = [loan EXCEPT ![l].status = verdict]
    /\ Goto(l, "propose")
    /\ UNCHANGED <<stage, mirror, repayment, pay>>

(* The applicant's history has been fetched, and what it scores decides;   *)
(* the row is created with the verdict.                                    *)
RecordVerdict(l) ==
    /\ apply[l].pc = "score"
    /\ \E a \in Applicants :
          IF Approved(a)
            THEN loan' = [loan EXCEPT ![l].status = "APPROVED"] /\ Goto(l, "propose")
            ELSE loan' = [loan EXCEPT ![l].status = "REJECTED"] /\ Goto(l, "done")
    /\ UNCHANGED <<stage, mirror, repayment, pay>>

(* createTransfer treasury -> applicant, at BMONI. *)
ProposeDisbursement(l) ==
    /\ apply[l].pc = "propose"
    /\ CreateProposal(l)
    /\ \E then \in {"persist", "failed"} : Goto(l, then)
    /\ UNCHANGED <<mirror, loan, repayment, pay>>

PersistDisbursement(l) ==
    /\ apply[l].pc = "persist"
    /\ PersistProposal(l, "created")
    /\ Goto(l, "poll")
    /\ UNCHANGED <<stage, loan, repayment, pay>>

(* Mutant: the attempts start again after every 409. *)
PollSignPayload_Restarts(l) ==
    /\ apply[l].pc = "poll"
    /\ IF stage[l] = "ready" THEN Goto(l, "sign")
       ELSE IF stage[l] = "preparing"
            THEN apply' = [apply EXCEPT ![l].attempt = 0]
            ELSE Goto(l, "failed")
    /\ UNCHANGED <<stage, mirror, loan, repayment, pay>>

(* Mutant: one attempt too many. *)
PollSignPayload_OffByOne(l) ==
    /\ apply[l].pc = "poll"
    /\ IF stage[l] = "ready" THEN Goto(l, "sign")
       ELSE IF stage[l] = "preparing" /\ apply[l].attempt < MaxAttempts
            THEN apply' = [apply EXCEPT ![l].attempt = @ + 1]
            ELSE Goto(l, "failed")
    /\ UNCHANGED <<stage, mirror, loan, repayment, pay>>

(* waitForSignPayload: a 409 is retried, the last one and any other error  *)
(* is thrown.                                                              *)
PollSignPayload(l) ==
    /\ apply[l].pc = "poll"
    /\ IF stage[l] = "ready" THEN Goto(l, "sign")
       ELSE IF stage[l] = "preparing" /\ apply[l].attempt < MaxAttempts - 1
            THEN apply' = [apply EXCEPT ![l].attempt = @ + 1]
            ELSE Goto(l, "failed")
    /\ UNCHANGED <<stage, mirror, loan, repayment, pay>>

(* Mutant: a call that fails is taken for one whose answer was lost. *)
SignDisbursement_GoesOn(l) ==
    /\ apply[l].pc = "sign"
    /\ \/ SignProposal(l) /\ \E then \in {"store", "update", "failed"} : Goto(l, then)
       \/ Goto(l, "update") /\ UNCHANGED stage
    /\ UNCHANGED <<mirror, loan, repayment, pay>>

(* submitSignature, at BMONI: accepted, with or without the proposal in    *)
(* the answer; accepted and the answer lost; or refused.                   *)
SignDisbursement(l) ==
    /\ apply[l].pc = "sign"
    /\ \/ SignProposal(l) /\ \E then \in {"store", "update", "failed"} : Goto(l, then)
       \/ stage[l] # "ready" /\ Goto(l, "failed") /\ UNCHANGED stage
    /\ UNCHANGED <<mirror, loan, repayment, pay>>

PersistSignature(l) ==
    /\ apply[l].pc = "store"
    /\ PersistProposal(l, "signed")
    /\ Goto(l, "update")
    /\ UNCHANGED <<stage, loan, repayment, pay>>

(* One write: the loan is DISBURSED and its repayment created. *)
WriteDisbursed(l) ==
    /\ apply[l].pc = "update"
    /\ loan' = [loan EXCEPT ![l] = [status |-> "DISBURSED", prop |-> l]]
    /\ repayment' = [repayment EXCEPT ![l].status = "DUE"]
    /\ Goto(l, "done")
    /\ UNCHANGED <<stage, mirror, pay>>

(* An unknown user, no wallet, a refusal, a database error or a crash at   *)
(* any await: nothing the handler did is undone.                           *)
AbortApply(l) ==
    /\ apply[l].pc \notin {"idle"} \union Ended
    /\ Goto(l, "failed")
    /\ UNCHANGED <<stage, mirror, loan, repayment, pay>>

----------------------------------------------------------------------------
(* payRepayment *)

GotoPay(r, pc) == pay' = [pay EXCEPT ![r].pc = pc]

StartPay(r, l) ==
    /\ pay[r].pc = "idle"
    /\ repayment[l].status # "none"
    /\ pay' = [pay EXCEPT ![r].pc = "read", ![r].for = l]
    /\ UNCHANGED <<stage, mirror, loan, repayment, apply>>

(* Mutant: the status is not looked at. *)
ReadRepayment_AnyStatus(r) ==
    /\ pay[r].pc = "read"
    /\ GotoPay(r, "propose")
    /\ UNCHANGED <<stage, mirror, loan, repayment, apply>>

(* The repayment must be the caller's own and still DUE. *)
ReadRepayment(r) ==
    /\ pay[r].pc = "read"
    /\ GotoPay(r, IF repayment[pay[r].for].status = "DUE" THEN "propose" ELSE "failed")
    /\ UNCHANGED <<stage, mirror, loan, repayment, apply>>

ProposeRepayment(r) ==
    /\ pay[r].pc = "propose"
    /\ CreateProposal(r)
    /\ \E then \in {"persist", "failed"} : GotoPay(r, then)
    /\ UNCHANGED <<mirror, loan, repayment, apply>>

PersistRepayment(r) ==
    /\ pay[r].pc = "persist"
    /\ PersistProposal(r, "created")
    /\ GotoPay(r, "update")
    /\ UNCHANGED <<stage, loan, repayment, apply>>

WriteProposed(r) ==
    /\ pay[r].pc = "update"
    /\ repayment' = [repayment EXCEPT ![pay[r].for] = [status |-> "PROPOSED", prop |-> r]]
    /\ GotoPay(r, "done")
    /\ UNCHANGED <<stage, mirror, loan, apply>>

AbortPay(r) ==
    /\ pay[r].pc \notin {"idle"} \union Ended
    /\ GotoPay(r, "failed")
    /\ UNCHANGED <<stage, mirror, loan, repayment, apply>>

(* The borrower signs through the transfer endpoints. *)
SignRepayment(r) ==
    /\ SignProposal(r)
    /\ PersistProposal(r, "signed") \/ UNCHANGED mirror
    /\ UNCHANGED <<loan, repayment, apply, pay>>

Decline(p) ==
    /\ RejectProposal(p)
    /\ PersistProposal(p, "rejected") \/ UNCHANGED mirror
    /\ UNCHANGED <<loan, repayment, apply, pay>>

BmoniStep(p) ==
    BmoniMoves(p) /\ UNCHANGED <<loan, repayment, apply, pay>>

(* The steps the apply handler takes of itself once it has started. *)
ApplyStep(l) ==
    \/ RecordVerdict(l) \/ ProposeDisbursement(l) \/ PersistDisbursement(l)
    \/ PollSignPayload(l) \/ SignDisbursement(l) \/ PersistSignature(l)
    \/ WriteDisbursed(l)

PayStep(r) ==
    \/ ReadRepayment(r) \/ ProposeRepayment(r) \/ PersistRepayment(r)
    \/ WriteProposed(r) \/ AbortPay(r) \/ SignRepayment(r)

Next ==
    \/ \E l \in Applications : StartApply(l) \/ ApplyStep(l) \/ AbortApply(l)
    \/ \E r \in Pays : PayStep(r) \/ \E l \in Applications : StartPay(r, l)
    \/ \E p \in Proposals : BmoniStep(p) \/ Decline(p)

(* Every await of an application settles: a database call returns or       *)
(* throws, and a call to BMONI returns or is given up after 30 seconds.    *)
Spec == Init /\ [][Next]_vars /\ \A l \in Applications : WF_vars(ApplyStep(l))

----------------------------------------------------------------------------
(* Properties *)

(* A loan is DISBURSED exactly when the borrower owes its repayment, and   *)
(* then the treasury has signed the proposal the loan names and PayFlex    *)
(* holds a row for it.                                                     *)
DisbursedIsOwed ==
    \A l \in Applications :
        /\ loan[l].status = "DISBURSED" <=> repayment[l].status # "none"
        /\ loan[l].status = "DISBURSED" =>
              /\ loan[l].prop = l
              /\ stage[l] \in {"signed", "executed", "rejected", "expired"}
              /\ mirror[l] # "none"

(* Of an application about to be scored, whatever the history:             *)
(* approvedAmount is "always <= requestedAmount" (the strategy's interface) *)
(* and something if anything was asked for; and who has at least as long a  *)
(* history, as many transactions and as much income, and asks for as much,  *)
(* loses at most one point, and nothing unless his income adds up to less   *)
(* in the strategy's doubles (simple-credit-scoring.strategy.ts:29-32).     *)
VerdictIsFair ==
    (\E l \in Applications : apply[l].pc = "score") =>
        \A a \in Applicants :
            /\ ApprovedAmount(a) <= a.requested
            /\ Approved(a) /\ a.requested > 0 => ApprovedAmount(a) > 0
            /\ \A b \in Applicants : AtLeast(b, a) =>
                  /\ Grant(a.requested, Score(a) - 1) <= ApprovedAmount(b)
                  /\ Counted(a) <= Counted(b) =>
                        /\ Approved(a) => Approved(b)
                        /\ ApprovedAmount(a) <= ApprovedAmount(b)

(* What a request has been let through for, and what it has asked for. *)
Accepted == {<<r, pay[r].for>> : r \in {q \in Pays : pay[q].pc = "propose"}}
Asked    == {<<r, pay[r].for>> : r \in {q \in Pays : stage[q] # "absent"}}

Owed == INSTANCE Obligation WITH
          Debts <- Applications, Requests <- Pays, Open <- "DUE",
          debt <- repayment, accepted <- Accepted, made <- Asked

(* Repayments are obligations: a disbursement makes each of them due once, *)
(* never again, and a borrower is asked only by a request that found it    *)
(* DUE.                                                                    *)
RepaymentsAreObligations == Owed!Spec

(* A loan as a cause of Release: open once APPROVED, until DISBURSED. *)
Cause(row) ==
    [status |-> CASE row.status \in {"none", "REJECTED"} -> "none"
                  [] row.status = "APPROVED"             -> "open"
                  [] row.status = "DISBURSED"            -> "closed",
     by     |-> row.prop]
CauseOf == [l \in Applications |-> Cause(loan[l])]

(* Its disbursement as a payment of Release, and what its request knows. *)
PaymentOf == [l \in Applications |->
                [status |-> Standing(stage[l]),
                 for    |-> IF stage[l] = "absent" THEN None ELSE l]]
Admitted == {<<l, l>> : l \in {k \in Applications : apply[k].pc = "propose"}}
Filed    == {l \in Applications : mirror[l] # "none"}
Answered == {l \in Applications : apply[l].pc \in {"store", "update"}}

Treasury == INSTANCE Release WITH
              Causes <- Applications, Payments <- Applications,
              cause <- CauseOf, admitted <- Admitted, payment <- PaymentOf,
              filed <- Filed, answered <- Answered

(* Disbursements are releases: the treasury signs only what the request    *)
(* that approved the loan asked for and PayFlex has filed, and a loan is   *)
(* DISBURSED only by a payment that was signed.                            *)
DisbursementsAreReleases == Treasury!Spec

(* Every application ends, although BMONI may never prepare the sign       *)
(* payload and any answer may be lost.                                     *)
ApplyEnds ==
    \A l \in Applications : apply[l].pc = "score" ~> apply[l].pc \in Ended

(* An approved loan disburses immediately (schema.prisma, LoanApplication): *)
(* when its request has ended and the treasury's money has reached the      *)
(* borrower, the loan is on record as DISBURSED.                            *)
MoneySentIsRecorded ==
    \A l \in Applications :
        apply[l].pc \in Ended /\ stage[l] = "executed" => loan[l].status = "DISBURSED"

=============================================================================
