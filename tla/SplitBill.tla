------------------------------ MODULE SplitBill ------------------------------
(***************************************************************************)
(* backend/src/split-bill/split-bill.service.ts: one bill, whose           *)
(* contributors each pay their share with a transfer of their own.         *)
(*                                                                         *)
(* pay() reads the bill with all its shares once, and decides from that    *)
(* snapshot both whether the caller may pay and, two statements after his  *)
(* own share was written, whether the bill is complete.  A share proposal  *)
(* is named by the pay request that created it.                            *)
(***************************************************************************)
EXTENDS TransferProposals

CONSTANTS
    Users,             \* users who may be contributors
    Pays,              \* pay requests
    None               \* a value that is no user and no pay request

ASSUME SplitBillAssumption ==
    /\ Proposals = Pays
    /\ None \notin Users \union Pays

VARIABLES
    bill,              \* the SplitBill row
    share,             \* the SplitBillContributor row of each user
    pay                \* the pay handler of each request

vars == <<stage, mirror, bill, share, pay>>

PayPC == {"idle", "read", "propose", "persist", "share", "bill", "done", "failed"}
Ended == {"done", "failed"}

(* Rows and handlers hold what the schema and the code let them hold.      *)
TypeOK ==
    /\ TypeOKProposals
    /\ bill \in {"none", "ACTIVE", "COMPLETED"}
    /\ share \in [Users -> [status : {"none", "PENDING", "PROPOSED"},
                            prop   : Pays \union {None}]]
    /\ pay \in [Pays -> [pc      : PayPC,
                         user    : Users \union {None},
                         pending : SUBSET Users]]

Init ==
    /\ InitProposals
    /\ bill = "none"
    /\ share = [u \in Users |-> [status |-> "none", prop |-> None]]
    /\ pay = [r \in Pays |-> [pc |-> "idle", user |-> None, pending |-> {}]]

Contributors == {u \in Users : share[u].status # "none"}
Pending      == {u \in Users : share[u].status = "PENDING"}

----------------------------------------------------------------------------

(* create: the bill and its shares in one nested write.  At least one      *)
(* contributor; a repeated one breaks the unique key, and no bill is made. *)
CreateBill(S) ==
    /\ bill = "none"
    /\ S # {}
    /\ bill' = "ACTIVE"
    /\ share' = [u \in Users |->
                   IF u \in S THEN [status |-> "PENDING", prop |-> None] ELSE share[u]]
    /\ UNCHANGED <<stage, mirror, pay>>

StartPay(r, u) ==
    /\ pay[r].pc = "idle"
    /\ bill # "none"
    /\ pay' = [pay EXCEPT ![r].pc = "read", ![r].user = u]
    /\ UNCHANGED <<stage, mirror, bill, share>>

Goto(r, pc) == pay' = [pay EXCEPT ![r].pc = pc]

(* Mutant: the share is marked while the proposal is still to be made. *)
ReadBill_MarksFirst(r) ==
    /\ pay[r].pc = "read"
    /\ IF pay[r].user \in Pending
         THEN /\ pay' = [pay EXCEPT ![r].pc = "propose", ![r].pending = Pending]
              /\ share' = [share EXCEPT ![pay[r].user].status = "PROPOSED"]
         ELSE Goto(r, "failed") /\ UNCHANGED share
    /\ UNCHANGED <<stage, mirror, bill>>

(* Mutant: only a stranger to the bill is refused. *)
ReadBill_IgnoresStatus(r) ==
    /\ pay[r].pc = "read"
    /\ IF pay[r].user \in Contributors
         THEN pay' = [pay EXCEPT ![r].pc = "propose", ![r].pending = Pending]
         ELSE Goto(r, "failed")
    /\ UNCHANGED <<stage, mirror, bill, share>>

(* requireBill, and the two refusals: not a contributor, not PENDING. *)
ReadBill(r) ==
    /\ pay[r].pc = "read"
    /\ IF pay[r].user \in Pending
         THEN pay' = [pay EXCEPT ![r].pc = "propose", ![r].pending = Pending]
         ELSE Goto(r, "failed")
    /\ UNCHANGED <<stage, mirror, bill, share>>

(* createTransfer contributor -> creator, at BMONI. *)
ProposeShare(r) ==
    /\ pay[r].pc = "propose"
    /\ CreateProposal(r)
    /\ \E next \in {"persist", "failed"} : Goto(r, next)
    /\ UNCHANGED <<mirror, bill, share>>

PersistShare(r) ==
    /\ pay[r].pc = "persist"
    /\ PersistProposal(r, "created")
    /\ Goto(r, "share")
    /\ UNCHANGED <<stage, bill, share>>

(* The others that were PENDING when the bill was read. *)
Remaining(r) == pay[r].pending \ {pay[r].user}

(* Mutant: the payer's own share, PENDING in the snapshot, is counted. *)
WriteShare_CountsSelf(r) ==
    /\ pay[r].pc = "share"
    /\ share' = [share EXCEPT ![pay[r].user] = [status |-> "PROPOSED", prop |-> r]]
    /\ Goto(r, IF pay[r].pending = {} THEN "bill" ELSE "done")
    /\ UNCHANGED <<stage, mirror, bill>>

(* Mutant: one share still open counts as none. *)
WriteShare_OffByOne(r) ==
    /\ pay[r].pc = "share"
    /\ share' = [share EXCEPT ![pay[r].user] = [status |-> "PROPOSED", prop |-> r]]
    /\ Goto(r, IF \A u, v \in Remaining(r) : u = v THEN "bill" ELSE "done")
    /\ UNCHANGED <<stage, mirror, bill>>

(* The share becomes PROPOSED whatever it has become since it was read,    *)
(* and what remains is counted in the snapshot.                            *)
WriteShare(r) ==
    /\ pay[r].pc = "share"
    /\ share' = [share EXCEPT ![pay[r].user] = [status |-> "PROPOSED", prop |-> r]]
    /\ Goto(r, IF Remaining(r) = {} THEN "bill" ELSE "done")
    /\ UNCHANGED <<stage, mirror, bill>>

(* Mutant: the bill is given the status of a share. *)
WriteCompleted_ShareStatus(r) ==
    /\ pay[r].pc = "bill"
    /\ bill' = "PROPOSED"
    /\ Goto(r, "done")
    /\ UNCHANGED <<stage, mirror, share>>

WriteCompleted(r) ==
    /\ pay[r].pc = "bill"
    /\ bill' = "COMPLETED"
    /\ Goto(r, "done")
    /\ UNCHANGED <<stage, mirror, share>>

(* No wallet, a refusal, a database error or a crash at any await: nothing *)
(* the handler did is undone.                                              *)
AbortPay(r) ==
    /\ pay[r].pc \notin {"idle"} \union Ended
    /\ Goto(r, "failed")
    /\ UNCHANGED <<stage, mirror, bill, share>>

(* The contributor signs his proposal through the transfer endpoints (or,  *)
(* having cancelled the PIN prompt, never does), or declines it.           *)
SignShare(r) ==
    /\ SignProposal(r)
    /\ PersistProposal(r, "signed") \/ UNCHANGED mirror
    /\ UNCHANGED <<bill, share, pay>>

Decline(r) ==
    /\ RejectProposal(r)
    /\ PersistProposal(r, "rejected") \/ UNCHANGED mirror
    /\ UNCHANGED <<bill, share, pay>>

BmoniStep(r) ==
    BmoniMoves(r) /\ UNCHANGED <<bill, share, pay>>

PayStep(r) ==
    \/ ReadBill(r) \/ ProposeShare(r) \/ PersistShare(r)
    \/ WriteShare(r) \/ WriteCompleted(r)

Next ==
    \/ \E S \in SUBSET Users : CreateBill(S)
    \/ \E r \in Pays : \/ PayStep(r) \/ AbortPay(r)
                       \/ \E u \in Users : StartPay(r, u)
                       \/ SignShare(r) \/ Decline(r) \/ BmoniStep(r)

Spec == Init /\ [][Next]_vars

----------------------------------------------------------------------------
(* Properties *)

(* A bill is not COMPLETED while somebody has yet to propose his share: a  *)
(* stale snapshot errs on the side of waiting (pay, lines 115-123).        *)
CompletedLeavesNonePending == bill = "COMPLETED" => Pending = {}

(* A share marked PROPOSED names a proposal its own contributor asked for, *)
(* which exists at BMONI and has a row, also when two requests of the same *)
(* contributor overlap and the second one overwrites the first.            *)
ProposedNamesItsProposal ==
    \A u \in Users : share[u].status = "PROPOSED" =>
        \E r \in Pays : /\ share[u].prop = r
                        /\ pay[r].user = u
                        /\ stage[r] # "absent"
                        /\ mirror[r] # "none"

(* What a pay request has been let through for, and what it has asked for. *)
Accepted == {<<r, pay[r].user>> : r \in {q \in Pays : pay[q].pc = "propose"}}
Asked    == {<<r, pay[r].user>> : r \in {q \in Pays : stage[q] # "absent"}}

Shares == INSTANCE Obligation WITH
            Debts <- Users, Requests <- Pays, Open <- "PENDING",
            debt <- share, accepted <- Accepted, made <- Asked

(* Shares are obligations: whatever overlaps or fails, a contributor is    *)
(* asked only by a request that found the share PENDING, a request asks    *)
(* once, and only a share whose proposal exists is recorded as PROPOSED.   *)
SharesAreObligations == Shares!Spec

(* At most one pay request in flight, and none has failed. *)
OneAtATime ==
    /\ \A r \in Pays : pay[r].pc # "failed"
    /\ \A r, q \in Pays : {pay[r].pc, pay[q].pc} \cap ({"idle"} \union Ended) = {} => r = q

AllProposed == bill # "none" /\ Pending = {}

Quiet == \A r \in Pays : pay[r].pc \in {"idle", "done"}

(* Payments served one after the other, none failing, complete the bill.   *)
SerialPaymentsComplete == []OneAtATime => [](AllProposed /\ Quiet => bill = "COMPLETED")

Paid(u) == share[u].status = "PROPOSED" /\ stage[share[u].prop] = "executed"

(* Once all shares are paid and no request is in flight or has failed, the *)
(* bill is COMPLETED (sandbox-lifecycle-phase5.ts).                        *)
PaidBillIsCompleted ==
    /\ bill # "none"
    /\ \A u \in Contributors : Paid(u)
    /\ Quiet
    => bill = "COMPLETED"

=============================================================================
