--------------------------- MODULE SplitBillProofs ---------------------------
(***************************************************************************)
(* Proofs about SplitBill, for any number of contributors and requests.    *)
(***************************************************************************)
EXTENDS SplitBill, TLAPS

Named(u) ==
    share[u].status = "PROPOSED" =>
        \E r \in Pays : /\ share[u].prop = r
                        /\ pay[r].user = u
                        /\ stage[r] # "absent"
                        /\ mirror[r] # "none"

(* What each step of the pay handler knows.  The snapshot it took of the   *)
(* bill is stale, but never misses a share that is still PENDING.          *)
PayInv(r) ==
    /\ pay[r].pc = "idle" => pay[r].user = None
    /\ pay[r].pc # "idle" => pay[r].user \in Users /\ bill # "none"
    /\ pay[r].pc \in {"idle", "read", "propose"} => stage[r] = "absent"
    /\ pay[r].pc \in {"persist", "share"} => stage[r] # "absent"
    /\ pay[r].pc = "share" => mirror[r] # "none"
    /\ pay[r].pc \in {"propose", "persist", "share"} => Pending \subseteq pay[r].pending
    /\ pay[r].pc = "bill" => Pending = {}

Inv ==
    /\ TypeOK
    /\ \A u \in Users : Named(u)
    /\ bill = "none" => \A u \in Users : share[u].status = "none"
    /\ bill = "COMPLETED" => Pending = {}
    /\ \A r \in Pays : PayInv(r)

ShareRow == [status : {"none", "PENDING", "PROPOSED"}, prop : Pays \union {None}]
PayCall  == [pc : PayPC, user : Users \union {None}, pending : SUBSET Users]

LEMMA InitInv == Init => Inv
BY SplitBillAssumption DEF Init, InitProposals, Inv, TypeOK, TypeOKProposals, Stages, Rows,
   PayPC, Named, PayInv, Pending

LEMMA CreateBillInv ==
    ASSUME Inv, NEW S \in SUBSET Users, CreateBill(S)
    PROVE  Inv'
<1>. USE SplitBillAssumption DEF Inv, TypeOK, TypeOKProposals
<1>1. TypeOK'
  BY DEF CreateBill, PayInv, PayPC, Stages, Rows, Pending
<1>2. \A v \in Users : Named(v)'
  BY DEF CreateBill, Named, PayInv
<1>3. /\ bill' = "none" => \A v \in Users : share'[v].status = "none"
      /\ bill' = "COMPLETED" => Pending' = {}
  BY DEF CreateBill, PayInv, Pending
<1>4. \A q \in Pays : PayInv(q)'
  BY DEF CreateBill, PayInv, PayPC, Pending
<1>. QED
  BY <1>1, <1>2, <1>3, <1>4

LEMMA StartPayInv ==
    ASSUME Inv, NEW r \in Pays, NEW u \in Users, StartPay(r, u)
    PROVE  Inv'
<1>. USE SplitBillAssumption DEF Inv, TypeOK, TypeOKProposals
<1>1. TypeOK'
  BY DEF StartPay, PayInv, PayPC, Stages, Rows, Pending
<1>2. \A v \in Users : Named(v)'
  BY DEF StartPay, Named, PayInv
<1>3. /\ bill' = "none" => \A v \in Users : share'[v].status = "none"
      /\ bill' = "COMPLETED" => Pending' = {}
  BY DEF StartPay, PayInv, Pending
<1>4. \A q \in Pays : PayInv(q)'
  BY DEF StartPay, PayInv, PayPC, Pending
<1>. QED
  BY <1>1, <1>2, <1>3, <1>4

LEMMA ReadBillInv ==
    ASSUME Inv, NEW r \in Pays, ReadBill(r)
    PROVE  Inv'
<1>. USE SplitBillAssumption DEF Inv, TypeOK, TypeOKProposals
<1>1. TypeOK'
  BY DEF ReadBill, Goto, PayInv, PayPC, Stages, Rows, Pending
<1>2. \A v \in Users : Named(v)'
  BY DEF ReadBill, Goto, Named, PayInv
<1>3. /\ bill' = "none" => \A v \in Users : share'[v].status = "none"
      /\ bill' = "COMPLETED" => Pending' = {}
  BY DEF ReadBill, Goto, PayInv, Pending
<1>4. ASSUME NEW q \in Pays
      PROVE  PayInv(q)'
  <2>1. UNCHANGED <<stage, mirror, bill, share>> /\ Pending' = Pending
    BY DEF ReadBill, Pending
  <2>2. CASE q # r
    BY <2>1, <2>2 DEF ReadBill, Goto, PayInv
  <2>3. CASE q = r /\ pay[r].user \in Pending
    <3>1. /\ pay'[r].pc = "propose"
          /\ pay'[r].pending = Pending
          /\ pay'[r].user = pay[r].user
      BY <2>3 DEF ReadBill
    <3>. QED
      BY <2>1, <2>3, <3>1 DEF ReadBill, PayInv
  <2>4. CASE q = r /\ pay[r].user \notin Pending
    BY <2>1, <2>4 DEF ReadBill, Goto, PayInv
  <2>. QED
    BY <2>2, <2>3, <2>4
<1>. QED
  BY <1>1, <1>2, <1>3, <1>4

LEMMA ProposeShareInv ==
    ASSUME Inv, NEW r \in Pays, ProposeShare(r)
    PROVE  Inv'
<1>. USE SplitBillAssumption DEF Inv, TypeOK, TypeOKProposals
<1>1. TypeOK'
  <2>1. stage' \in [Pays -> Stages]
    BY DEF ProposeShare, CreateProposal, Stages
  <2>2. pay' \in [Pays -> PayCall]
    BY DEF ProposeShare, Goto, PayPC, PayCall
  <2>. QED
    BY <2>1, <2>2 DEF ProposeShare, PayCall
<1>2. \A v \in Users : Named(v)'
  BY DEF ProposeShare, Goto, CreateProposal, Named, PayInv
<1>3. /\ bill' = "none" => \A v \in Users : share'[v].status = "none"
      /\ bill' = "COMPLETED" => Pending' = {}
  BY DEF ProposeShare, Goto, CreateProposal, PayInv, Pending
<1>4. \A q \in Pays : PayInv(q)'
  BY DEF ProposeShare, Goto, CreateProposal, PayInv, PayPC, Pending
<1>. QED
  BY <1>1, <1>2, <1>3, <1>4

LEMMA PersistShareInv ==
    ASSUME Inv, NEW r \in Pays, PersistShare(r)
    PROVE  Inv'
<1>. USE SplitBillAssumption DEF Inv, TypeOK, TypeOKProposals
<1>1. TypeOK'
  BY DEF PersistShare, Goto, PersistProposal, PayInv, PayPC, Stages, Rows, Pending
<1>2. \A v \in Users : Named(v)'
  BY DEF PersistShare, Goto, PersistProposal, Named, PayInv
<1>3. /\ bill' = "none" => \A v \in Users : share'[v].status = "none"
      /\ bill' = "COMPLETED" => Pending' = {}
  BY DEF PersistShare, Goto, PersistProposal, PayInv, Pending
<1>4. \A q \in Pays : PayInv(q)'
  BY DEF PersistShare, Goto, PersistProposal, PayInv, PayPC, Pending
<1>. QED
  BY <1>1, <1>2, <1>3, <1>4

LEMMA WriteShareInv ==
    ASSUME Inv, NEW r \in Pays, WriteShare(r)
    PROVE  Inv'
<1>. USE SplitBillAssumption DEF Inv, TypeOK, TypeOKProposals
<1>1. TypeOK'
  BY DEF WriteShare, Goto, Remaining, PayInv, PayPC, Stages, Rows, Pending
<1>2. \A v \in Users : Named(v)'
  BY DEF WriteShare, Goto, Remaining, Named, PayInv
<1>3. /\ bill' = "none" => \A v \in Users : share'[v].status = "none"
      /\ bill' = "COMPLETED" => Pending' = {}
  BY DEF WriteShare, Goto, Remaining, PayInv, Pending
<1>4. \A q \in Pays : PayInv(q)'
  BY DEF WriteShare, Goto, Remaining, PayInv, PayPC, Pending
<1>. QED
  BY <1>1, <1>2, <1>3, <1>4

LEMMA WriteCompletedInv ==
    ASSUME Inv, NEW r \in Pays, WriteCompleted(r)
    PROVE  Inv'
<1>. USE SplitBillAssumption DEF Inv, TypeOK, TypeOKProposals
<1>1. TypeOK'
  BY DEF WriteCompleted, Goto, PayInv, PayPC, Stages, Rows, Pending
<1>2. \A v \in Users : Named(v)'
  BY DEF WriteCompleted, Goto, Named, PayInv
<1>3. /\ bill' = "none" => \A v \in Users : share'[v].status = "none"
      /\ bill' = "COMPLETED" => Pending' = {}
  BY DEF WriteCompleted, Goto, PayInv, Pending
<1>4. \A q \in Pays : PayInv(q)'
  BY DEF WriteCompleted, Goto, PayInv, PayPC, Pending
<1>. QED
  BY <1>1, <1>2, <1>3, <1>4

LEMMA AbortPayInv ==
    ASSUME Inv, NEW r \in Pays, AbortPay(r)
    PROVE  Inv'
<1>. USE SplitBillAssumption DEF Inv, TypeOK, TypeOKProposals
<1>1. TypeOK'
  BY DEF AbortPay, Goto, Ended, PayInv, PayPC, Stages, Rows, Pending
<1>2. \A v \in Users : Named(v)'
  BY DEF AbortPay, Goto, Ended, Named, PayInv
<1>3. /\ bill' = "none" => \A v \in Users : share'[v].status = "none"
      /\ bill' = "COMPLETED" => Pending' = {}
  BY DEF AbortPay, Goto, Ended, PayInv, Pending
<1>4. \A q \in Pays : PayInv(q)'
  BY DEF AbortPay, Goto, Ended, PayInv, PayPC, Pending
<1>. QED
  BY <1>1, <1>2, <1>3, <1>4

LEMMA SignShareInv ==
    ASSUME Inv, NEW r \in Pays, SignShare(r)
    PROVE  Inv'
<1>. USE SplitBillAssumption DEF Inv, TypeOK, TypeOKProposals
<1>1. TypeOK'
  <2>1. stage' \in [Proposals -> Stages]
    BY DEF SignShare, SignProposal, Stages
  <2>2. mirror' \in [Proposals -> Rows]
    BY DEF SignShare, PersistProposal, Rows
  <2>. QED
    BY <2>1, <2>2 DEF SignShare
<1>2. \A v \in Users : Named(v)'
  BY DEF SignShare, SignProposal, PersistProposal, Named, PayInv
<1>3. /\ bill' = "none" => \A v \in Users : share'[v].status = "none"
      /\ bill' = "COMPLETED" => Pending' = {}
  BY DEF SignShare, SignProposal, PersistProposal, PayInv, Pending
<1>4. \A q \in Pays : PayInv(q)'
  BY DEF SignShare, SignProposal, PersistProposal, PayInv, PayPC, Pending
<1>. QED
  BY <1>1, <1>2, <1>3, <1>4

LEMMA DeclineInv ==
    ASSUME Inv, NEW r \in Pays, Decline(r)
    PROVE  Inv'
<1>. USE SplitBillAssumption DEF Inv, TypeOK, TypeOKProposals
<1>1. TypeOK'
  BY DEF Decline, RejectProposal, PersistProposal, PayInv, PayPC, Stages, Rows, Pending
<1>2. \A v \in Users : Named(v)'
  BY DEF Decline, RejectProposal, PersistProposal, Named, PayInv
<1>3. /\ bill' = "none" => \A v \in Users : share'[v].status = "none"
      /\ bill' = "COMPLETED" => Pending' = {}
  BY DEF Decline, RejectProposal, PersistProposal, PayInv, Pending
<1>4. \A q \in Pays : PayInv(q)'
  BY DEF Decline, RejectProposal, PersistProposal, PayInv, PayPC, Pending
<1>. QED
  BY <1>1, <1>2, <1>3, <1>4

LEMMA BmoniStepInv ==
    ASSUME Inv, NEW r \in Pays, BmoniStep(r)
    PROVE  Inv'
<1>. USE SplitBillAssumption DEF Inv, TypeOK, TypeOKProposals
<1>1. TypeOK'
  <2>1. stage' \in [Pays -> Stages]
    BY DEF BmoniStep, BmoniMoves, PreparePayload, Execute, Expire, Stages
  <2>. QED
    BY <2>1 DEF BmoniStep, BmoniMoves, PreparePayload, Execute, Expire
<1>2. \A v \in Users : Named(v)'
  BY DEF BmoniStep, BmoniMoves, PreparePayload, Execute, Expire, Named, PayInv
<1>3. /\ bill' = "none" => \A v \in Users : share'[v].status = "none"
      /\ bill' = "COMPLETED" => Pending' = {}
  BY DEF BmoniStep, BmoniMoves, PreparePayload, Execute, Expire, PayInv, Pending
<1>4. \A q \in Pays : PayInv(q)'
  BY DEF BmoniStep, BmoniMoves, PreparePayload, Execute, Expire, PayInv, PayPC, Pending
<1>. QED
  BY <1>1, <1>2, <1>3, <1>4

LEMMA StepInv ==
    ASSUME Inv, [Next]_vars
    PROVE  Inv'
<1>1. ASSUME NEW S \in SUBSET Users, CreateBill(S)
      PROVE  Inv'
  BY <1>1, CreateBillInv
<1>2. ASSUME NEW r \in Pays, PayStep(r) \/ AbortPay(r)
      PROVE  Inv'
  BY <1>2, ReadBillInv, ProposeShareInv, PersistShareInv, WriteShareInv,
     WriteCompletedInv, AbortPayInv DEF PayStep
<1>3. ASSUME NEW r \in Pays, NEW u \in Users, StartPay(r, u)
      PROVE  Inv'
  BY <1>3, StartPayInv
<1>4. ASSUME NEW r \in Pays, SignShare(r) \/ Decline(r) \/ BmoniStep(r)
      PROVE  Inv'
  BY <1>4, SignShareInv, DeclineInv, BmoniStepInv
<1>5. CASE UNCHANGED vars
  BY <1>5 DEF vars, Inv, TypeOK, TypeOKProposals, Named, PayInv, Pending
<1>. QED
  BY <1>1, <1>2, <1>3, <1>4, <1>5 DEF Next

(* The inductive invariant: no snapshot misses a share that is PENDING.    *)
THEOREM Invariance == Spec => []Inv
<1>. QED
  BY InitInv, StepInv, PTL DEF Spec

(* The state stays well typed for any number of contributors. *)
THEOREM TypeCorrect == Spec => []TypeOK
<1>1. Inv => TypeOK
  BY DEF Inv
<1>. QED
  BY <1>1, Invariance, PTL

(* However payments overlap, a bill is not completed early (pay, 115-123). *)
THEOREM NotCompletedEarly == Spec => []CompletedLeavesNonePending
<1>1. Inv => CompletedLeavesNonePending
  BY DEF Inv, CompletedLeavesNonePending
<1>. QED
  BY <1>1, Invariance, PTL

(* A PROPOSED share names a proposal of its own contributor (pay, 103-113). *)
THEOREM SharesNameProposals == Spec => []ProposedNamesItsProposal
<1>1. Inv => ProposedNamesItsProposal
  BY DEF Inv, Named, ProposedNamesItsProposal
<1>. QED
  BY <1>1, Invariance, PTL

----------------------------------------------------------------------------
(* Shares are obligations. *)

LEMMA SameAccepted ==
    ASSUME \A q \in Pays : /\ pay'[q].pc = "propose" <=> pay[q].pc = "propose"
                           /\ pay[q].pc = "propose" => pay'[q].user = pay[q].user
    PROVE  Accepted' = Accepted
BY DEF Accepted

LEMMA SameAsked ==
    ASSUME \A q \in Pays : /\ stage'[q] = "absent" <=> stage[q] = "absent"
                           /\ stage[q] # "absent" => pay'[q].user = pay[q].user
    PROVE  Asked' = Asked
BY DEF Asked

(* A handler that goes on keeps the user it is for. *)
LEMMA GoesOn ==
    ASSUME Inv, NEW r \in Pays, NEW pc \in PayPC, Goto(r, pc)
    PROVE  /\ \A q \in Pays \ {r} : pay'[q] = pay[q]
           /\ pay'[r].pc = pc /\ pay'[r].user = pay[r].user
BY DEF Inv, TypeOK, Goto

LEMMA InitObliged == Init => Shares!Init
BY SplitBillAssumption DEF Init, InitProposals, Shares!Init, Accepted, Asked

LEMMA CreateRaises ==
    ASSUME NEW S \in SUBSET Users, CreateBill(S), Inv
    PROVE  Shares!Raise(S)
<1>1. UNCHANGED <<Accepted, Asked>>
  BY DEF CreateBill, Accepted, Asked
<1>. QED
  BY <1>1 DEF CreateBill, Inv, Shares!Raise

LEMMA ReadAccepts ==
    ASSUME Inv, NEW r \in Pays, ReadBill(r)
    PROVE  Shares!Accept(r, pay[r].user) \/ UNCHANGED <<share, Accepted, Asked>>
<1>1. pay[r].pc = "read" /\ stage[r] = "absent" /\ UNCHANGED <<stage, share>>
  BY DEF ReadBill, Inv, PayInv
<1>2. CASE Goto(r, "failed")
  <2>1. /\ \A q \in Pays \ {r} : pay'[q] = pay[q]
        /\ pay'[r].pc = "failed" /\ pay'[r].user = pay[r].user
    BY <1>2, GoesOn DEF PayPC
  <2>. QED
    BY <1>1, <2>1, SameAccepted, SameAsked
<1>3. CASE /\ pay[r].user \in Pending
           /\ pay' = [pay EXCEPT ![r].pc = "propose", ![r].pending = Pending]
  <2>1. /\ \A q \in Pays \ {r} : pay'[q] = pay[q]
        /\ pay'[r].pc = "propose" /\ pay'[r].user = pay[r].user
    BY <1>3 DEF Inv, TypeOK
  <2>2. Accepted' = Accepted \union {<<r, pay[r].user>>}
    BY <1>1, <2>1 DEF Accepted
  <2>3. Asked' = Asked
    BY <1>1, <2>1, SameAsked
  <2>4. \A v \in Users : <<r, v>> \notin Accepted \union Asked
    BY <1>1 DEF Accepted, Asked
  <2>5. share[pay[r].user].status = "PENDING"
    BY <1>3 DEF Pending
  <2>. QED
    BY <1>1, <2>2, <2>3, <2>4, <2>5 DEF Shares!Accept
<1>. QED
  BY <1>2, <1>3 DEF ReadBill

LEMMA ProposeAsks ==
    ASSUME Inv, NEW r \in Pays, ProposeShare(r)
    PROVE  Shares!Ask(r, pay[r].user)
<1>1. pay[r].pc = "propose" /\ UNCHANGED share
  BY DEF ProposeShare
<1>2. /\ \A q \in Pays \ {r} : pay'[q] = pay[q]
      /\ pay'[r].pc # "propose" /\ pay'[r].user = pay[r].user
  BY GoesOn DEF ProposeShare, PayPC
<1>3. /\ \A q \in Pays \ {r} : stage'[q] = stage[q]
      /\ stage'[r] # "absent"
  BY SplitBillAssumption DEF ProposeShare, CreateProposal, Inv, TypeOK, TypeOKProposals
<1>4. <<r, pay[r].user>> \in Accepted /\ Accepted' = Accepted \ {<<r, pay[r].user>>}
  BY <1>1, <1>2 DEF Accepted
<1>5. Asked' = Asked \union {<<r, pay[r].user>>}
  BY <1>2, <1>3 DEF Asked
<1>. QED
  BY <1>1, <1>4, <1>5 DEF Shares!Ask

LEMMA WriteRecords ==
    ASSUME Inv, NEW r \in Pays, WriteShare(r)
    PROVE  Shares!Record(r, pay[r].user)
<1>1. /\ pay[r].pc = "share" /\ stage[r] # "absent" /\ stage' = stage
      /\ share' = [share EXCEPT ![pay[r].user] = [status |-> "PROPOSED", prop |-> r]]
  BY DEF WriteShare, Inv, PayInv
<1>2. /\ \A q \in Pays \ {r} : pay'[q] = pay[q]
      /\ pay'[r].pc # "propose" /\ pay'[r].user = pay[r].user
  BY GoesOn DEF WriteShare, PayPC
<1>3. <<r, pay[r].user>> \in Asked
  BY <1>1 DEF Asked
<1>4. UNCHANGED <<Accepted, Asked>>
  BY <1>1, <1>2, SameAccepted, SameAsked
<1>. QED
  BY <1>1, <1>3, <1>4 DEF Shares!Record

LEMMA AbortWithdraws ==
    ASSUME Inv, NEW r \in Pays, AbortPay(r)
    PROVE  Shares!Withdraw(r, pay[r].user)
<1>1. UNCHANGED <<stage, share>>
  BY DEF AbortPay
<1>2. /\ \A q \in Pays \ {r} : pay'[q] = pay[q]
      /\ pay'[r].pc = "failed" /\ pay'[r].user = pay[r].user
  BY GoesOn DEF AbortPay, PayPC
<1>3. Accepted' = Accepted \ {<<r, pay[r].user>>}
  BY <1>2 DEF Accepted
<1>4. Asked' = Asked
  BY <1>1, <1>2, SameAsked
<1>. QED
  BY <1>1, <1>3, <1>4 DEF Shares!Withdraw

(* Starting, storing the proposal's row, completing the bill, and what     *)
(* becomes of a proposal are none of the obligations' business.            *)
LEMMA OthersStutter ==
    ASSUME Inv, NEW r \in Pays,
           \/ \E u \in Users : StartPay(r, u)
           \/ PersistShare(r) \/ WriteCompleted(r)
           \/ SignShare(r) \/ Decline(r) \/ BmoniStep(r)
    PROVE  UNCHANGED <<share, Accepted, Asked>>
<1>1. CASE \E u \in Users : StartPay(r, u)
  <2>1. /\ pay[r].pc = "idle" /\ stage[r] = "absent" /\ pay'[r].pc = "read"
        /\ \A q \in Pays \ {r} : pay'[q] = pay[q]
        /\ UNCHANGED <<stage, share>>
    BY <1>1 DEF StartPay, Inv, TypeOK, PayInv
  <2>. QED
    BY <2>1, SameAccepted, SameAsked
<1>2. CASE PersistShare(r) \/ WriteCompleted(r)
  <2>1. /\ pay[r].pc # "propose" /\ pay'[r].pc # "propose" /\ pay'[r].user = pay[r].user
        /\ \A q \in Pays \ {r} : pay'[q] = pay[q]
        /\ UNCHANGED <<stage, share>>
    BY <1>2, GoesOn DEF PersistShare, WriteCompleted, PayPC
  <2>. QED
    BY <2>1, SameAccepted, SameAsked
<1>3. CASE SignShare(r) \/ Decline(r) \/ BmoniStep(r)
  <2>1. /\ \A q \in Pays : stage'[q] = "absent" <=> stage[q] = "absent"
        /\ UNCHANGED <<share, pay>>
    BY <1>3, SplitBillAssumption DEF SignShare, SignProposal, Decline, RejectProposal, BmoniStep,
       BmoniMoves, PreparePayload, Execute, Expire, Inv, TypeOK, TypeOKProposals
  <2>. QED
    BY <2>1, SameAccepted, SameAsked
<1>. QED
  BY <1>1, <1>2, <1>3

LEMMA StepObliged ==
    ASSUME Inv, [Next]_vars
    PROVE  Shares!Next \/ UNCHANGED <<share, Accepted, Asked>>
<1>1. ASSUME NEW S \in SUBSET Users, CreateBill(S)
      PROVE  Shares!Next
  BY <1>1, CreateRaises DEF Shares!Next
<1>2. ASSUME NEW r \in Pays, PayStep(r) \/ AbortPay(r)
      PROVE  Shares!Next \/ UNCHANGED <<share, Accepted, Asked>>
  <2>1. pay[r].pc # "idle" => pay[r].user \in Users
    BY DEF Inv, PayInv
  <2>2. CASE ReadBill(r)
    BY <2>1, <2>2, ReadAccepts DEF Shares!Next, ReadBill
  <2>3. CASE ProposeShare(r)
    BY <2>1, <2>3, ProposeAsks DEF Shares!Next, ProposeShare
  <2>4. CASE WriteShare(r)
    BY <2>1, <2>4, WriteRecords DEF Shares!Next, WriteShare
  <2>5. CASE AbortPay(r)
    BY <2>1, <2>5, AbortWithdraws DEF Shares!Next, AbortPay
  <2>. QED
    BY <1>2, <2>2, <2>3, <2>4, <2>5, OthersStutter DEF PayStep
<1>3. CASE UNCHANGED vars
  <2>1. UNCHANGED <<share, pay, stage>>
    BY <1>3 DEF vars
  <2>. QED
    BY <2>1, SameAccepted, SameAsked
<1>. QED
  BY <1>1, <1>2, <1>3, OthersStutter DEF Next

(* SplitBill implements Obligation: a share is asked for by a request that *)
(* found it PENDING, once per request, and is PROPOSED only under a request *)
(* whose proposal exists (split-bill.service.ts, pay).                     *)
THEOREM SharesObliged == Spec => SharesAreObligations
<1>1. Inv /\ [Next]_vars => [Shares!Next]_(Shares!obligationVars)
  BY StepObliged DEF Shares!obligationVars
<1>. QED
  BY <1>1, InitObliged, Invariance, PTL DEF Spec, SharesAreObligations, Shares!Spec

----------------------------------------------------------------------------
(* Payments served one after the other. *)

InFlight(r) == pay[r].pc \notin {"idle"} \union Ended

(* Nobody else having run, the snapshot of the one request in flight is    *)
(* what is PENDING now; and it is the last payer who completes the bill.   *)
SerialInv ==
    /\ \A r \in Pays : pay[r].pc \in {"propose", "persist", "share"} =>
                          pay[r].pending = Pending
    /\ AllProposed => bill = "COMPLETED" \/ \E r \in Pays : pay[r].pc = "bill"

LEMMA Alone ==
    ASSUME Inv, OneAtATime, NEW r \in Pays, InFlight(r)
    PROVE  \A q \in Pays \ {r} : pay[q].pc \in {"idle", "done"}
BY DEF Inv, TypeOK, PayPC, OneAtATime, InFlight, Ended

LEMMA InitSerial == Init => SerialInv
BY DEF Init, SerialInv, AllProposed

LEMMA CreateBillSerial ==
    ASSUME Inv, NEW S \in SUBSET Users, CreateBill(S)
    PROVE  SerialInv'
<1>1. \A r \in Pays : pay'[r].pc = "idle"
  BY DEF CreateBill, Inv, TypeOK, PayInv
<1>2. Pending' # {}
  BY DEF CreateBill, Pending
<1>. QED
  BY <1>1, <1>2 DEF SerialInv, AllProposed

LEMMA ReadBillSerial ==
    ASSUME Inv, SerialInv, OneAtATime', NEW r \in Pays, ReadBill(r)
    PROVE  SerialInv'
<1>1. /\ pay[r].pc = "read" /\ pay[r].user \in Pending
      /\ pay' = [pay EXCEPT ![r].pc = "propose", ![r].pending = Pending]
      /\ UNCHANGED <<bill, share>>
  BY DEF ReadBill, Goto, OneAtATime, Inv, TypeOK
<1>2. /\ \A q \in Pays \ {r} : pay'[q] = pay[q]
      /\ pay'[r].pending = Pending /\ Pending' = Pending
  BY <1>1 DEF Inv, TypeOK, Pending
<1>. QED
  BY <1>1, <1>2 DEF SerialInv, AllProposed

LEMMA WriteShareSerial ==
    ASSUME Inv, SerialInv, OneAtATime, NEW r \in Pays, WriteShare(r)
    PROVE  SerialInv'
<1>1. /\ pay[r].pc = "share" /\ bill' = bill /\ pay[r].user \in Users
      /\ share' = [share EXCEPT ![pay[r].user] = [status |-> "PROPOSED", prop |-> r]]
  BY DEF WriteShare, Inv, PayInv
<1>2. Pending' = Remaining(r)
  BY <1>1 DEF SerialInv, Remaining, Pending, Inv, TypeOK
<1>3. /\ \A q \in Pays \ {r} : pay'[q] = pay[q]
      /\ pay'[r].pc = IF Remaining(r) = {} THEN "bill" ELSE "done"
  BY DEF WriteShare, Goto, Inv, TypeOK
<1>4. \A q \in Pays \ {r} : pay[q].pc \in {"idle", "done"}
  BY <1>1, Alone DEF InFlight, Ended
<1>. QED
  BY <1>2, <1>3, <1>4 DEF SerialInv, AllProposed

LEMMA WriteCompletedSerial ==
    ASSUME Inv, SerialInv, OneAtATime, NEW r \in Pays, WriteCompleted(r)
    PROVE  SerialInv'
<1>1. pay[r].pc = "bill" /\ bill' = "COMPLETED"
  BY DEF WriteCompleted
<1>2. /\ \A q \in Pays \ {r} : pay'[q] = pay[q]
      /\ pay'[r].pc = "done"
  BY GoesOn DEF WriteCompleted, PayPC
<1>3. \A q \in Pays \ {r} : pay[q].pc \in {"idle", "done"}
  BY <1>1, Alone DEF InFlight, Ended
<1>. QED
  BY <1>1, <1>2, <1>3 DEF SerialInv

(* The steps of a handler that touch neither bill nor shares.              *)
LEMMA QuietStepSerial ==
    ASSUME Inv, SerialInv, NEW r \in Pays,
           \/ ProposeShare(r) \/ PersistShare(r)
           \/ \E u \in Users : StartPay(r, u)
           \/ SignShare(r) \/ Decline(r) \/ BmoniStep(r)
    PROVE  SerialInv'
<1>1. UNCHANGED <<bill, share>> /\ Pending' = Pending
  BY DEF ProposeShare, PersistShare, StartPay, SignShare, Decline, BmoniStep, Pending
<1>2. \A q \in Pays :
         /\ pay'[q].pending = pay[q].pending
         /\ pay[q].pc = "bill" => pay'[q].pc = "bill"
         /\ pay'[q].pc \in {"propose", "persist", "share"} =>
               pay[q].pc \in {"propose", "persist", "share"}
  BY DEF ProposeShare, PersistShare, StartPay, SignShare, Decline, BmoniStep, Goto,
         Inv, TypeOK
<1>. QED
  BY <1>1, <1>2 DEF SerialInv, AllProposed

LEMMA SerialStep ==
    ASSUME Inv, SerialInv, OneAtATime, OneAtATime', [Next]_vars
    PROVE  SerialInv'
<1>1. ASSUME NEW r \in Pays, AbortPay(r)
      PROVE  FALSE
  BY <1>1 DEF AbortPay, Goto, OneAtATime, Inv, TypeOK
<1>2. CASE UNCHANGED vars
  BY <1>2 DEF vars, SerialInv, AllProposed, Pending
<1>. QED
  BY <1>1, <1>2, CreateBillSerial, ReadBillSerial, WriteShareSerial,
     WriteCompletedSerial, QuietStepSerial DEF Next, PayStep

(* Payments served one after the other, none of them failing, complete the *)
(* bill with the last share (pay, lines 115-123).                          *)
THEOREM SerialCompletes == Spec => SerialPaymentsComplete
<1>1. SerialInv => (AllProposed /\ Quiet => bill = "COMPLETED")
  BY DEF SerialInv, Quiet
<1>2. Init => SerialInv
  BY InitSerial
<1>3. Inv /\ SerialInv /\ OneAtATime /\ OneAtATime' /\ [Next]_vars => SerialInv'
  BY SerialStep
<1>. QED
  BY <1>1, <1>2, <1>3, Invariance, PTL DEF Spec, SerialPaymentsComplete

=============================================================================
