----------------------------- MODULE LoansProofs -----------------------------
(***************************************************************************)
(* Proofs about Loans, for any number of applications, repayment requests  *)
(* and polls.                                                              *)
(***************************************************************************)
EXTENDS Loans, TLAPS

Signed == {"signed", "executed", "rejected", "expired"}

LoanRow  == [status : {"none", "APPROVED", "REJECTED", "DISBURSED"},
             prop   : Applications \union {None}]
OwedRow  == [status : {"none", "DUE", "PROPOSED"}, prop : Pays \union {None}]
ApplyCall == [pc : ApplyPC, attempt : Attempts]
PayCall   == [pc : PayPC, for : Applications \union {None}]

(* What each step of the apply handler knows of its loan, of the treasury's *)
(* proposal and of PayFlex's row for it.                                    *)
LoanInv(l) ==
    /\ apply[l].pc \in {"idle", "score"} => loan[l].status = "none"
    /\ apply[l].pc \in {"propose", "persist", "poll", "sign", "store", "update"} =>
          loan[l].status = "APPROVED"
    /\ apply[l].pc \in {"idle", "score", "propose"} => stage[l] = "absent"
    /\ apply[l].pc \in {"persist", "poll", "sign"} => stage[l] # "absent"
    /\ apply[l].pc \in {"poll", "sign", "store", "update"} => mirror[l] # "none"
    /\ apply[l].pc \in {"store", "update"} => stage[l] \in Signed
    /\ stage[l] # "absent" => loan[l].status \in {"APPROVED", "DISBURSED"}
    /\ loan[l].status = "DISBURSED" <=> repayment[l].status # "none"
    /\ loan[l].status = "DISBURSED" => /\ loan[l].prop = l
                                       /\ stage[l] \in Signed
                                       /\ mirror[l] # "none"

(* What each step of the payRepayment handler knows of the loan it repays. *)
PayInv(r) ==
    /\ pay[r].pc = "idle" => pay[r].for = None
    /\ pay[r].pc # "idle" => /\ pay[r].for \in Applications
                             /\ loan[pay[r].for].status = "DISBURSED"
    /\ pay[r].pc \in {"idle", "read", "propose"} => stage[r] = "absent"

Inv ==
    /\ TypeOK
    /\ \A l \in Applications : LoanInv(l)
    /\ \A r \in Pays : PayInv(r)

LEMMA TypedRows ==
    ASSUME TypeOK
    PROVE  /\ stage \in [Proposals -> Stages] /\ mirror \in [Proposals -> Rows]
           /\ loan \in [Applications -> LoanRow]
           /\ repayment \in [Applications -> OwedRow]
           /\ apply \in [Applications -> ApplyCall] /\ pay \in [Pays -> PayCall]
BY DEF TypeOK, TypeOKProposals, LoanRow, OwedRow, ApplyCall, PayCall

LEMMA TypedStep ==
    ASSUME stage' \in [Proposals -> Stages], mirror' \in [Proposals -> Rows],
           loan' \in [Applications -> LoanRow], repayment' \in [Applications -> OwedRow],
           apply' \in [Applications -> ApplyCall], pay' \in [Pays -> PayCall]
    PROVE  TypeOK'
BY DEF TypeOK, TypeOKProposals, LoanRow, OwedRow, ApplyCall, PayCall

LEMMA GotoTyped ==
    ASSUME apply \in [Applications -> ApplyCall], NEW l \in Applications,
           NEW pc \in ApplyPC, Goto(l, pc)
    PROVE  apply' \in [Applications -> ApplyCall]
BY DEF Goto, ApplyCall

LEMMA GotoPayTyped ==
    ASSUME pay \in [Pays -> PayCall], NEW r \in Pays, NEW pc \in PayPC, GotoPay(r, pc)
    PROVE  pay' \in [Pays -> PayCall]
BY DEF GotoPay, PayCall

LEMMA InitInv == Init => Inv
BY LoansAssumption DEF Init, InitProposals, Inv, TypeOK, TypeOKProposals, Stages, Rows,
   ApplyPC, PayPC, Attempts, LoanInv, PayInv, Signed

LEMMA StartApplyInv ==
    ASSUME Inv, NEW l \in Applications, StartApply(l)
    PROVE  Inv'
<1>. USE DEF Inv
<1>1. TypeOK'
  <2>. USE TypedRows
  <2>1. stage' \in [Proposals -> Stages] /\ mirror' \in [Proposals -> Rows]
    BY LoansAssumption DEF StartApply, Stages, Rows
  <2>2. loan' \in [Applications -> LoanRow] /\ repayment' \in [Applications -> OwedRow]
    BY DEF StartApply
  <2>3. apply' \in [Applications -> ApplyCall] /\ pay' \in [Pays -> PayCall]
    BY GotoTyped DEF StartApply, ApplyPC
  <2>. QED
    BY <2>1, <2>2, <2>3, TypedStep
<1>. USE LoansAssumption DEF TypeOK, TypeOKProposals, Signed, Ended
<1>2. \A k \in Applications : LoanInv(k)'
  BY DEF StartApply, Goto, LoanInv, PayInv
<1>3. \A q \in Pays : PayInv(q)'
  BY DEF StartApply, Goto, LoanInv, PayInv
<1>. QED
  BY <1>1, <1>2, <1>3

LEMMA RecordVerdictInv ==
    ASSUME Inv, NEW l \in Applications, RecordVerdict(l)
    PROVE  Inv'
<1>. USE DEF Inv
<1>1. PICK v \in {"APPROVED", "REJECTED"}, pc \in {"propose", "done"} :
         /\ loan' = [loan EXCEPT ![l].status = v]
         /\ Goto(l, pc)
         /\ v = "REJECTED" => pc = "done"
  BY DEF RecordVerdict
<1>2. /\ apply[l].pc = "score"
      /\ UNCHANGED <<stage, mirror, repayment, pay>>
  BY DEF RecordVerdict
<1>3. TypeOK'
  <2>. USE TypedRows
  <2>1. apply' \in [Applications -> ApplyCall]
    BY <1>1, GotoTyped DEF ApplyPC
  <2>2. loan' \in [Applications -> LoanRow]
    BY <1>1 DEF LoanRow
  <2>. QED
    BY <1>2, <2>1, <2>2, TypedStep
<1>4. apply' = [apply EXCEPT ![l].pc = pc]
  BY <1>1 DEF Goto
<1>. USE LoansAssumption DEF TypeOK, TypeOKProposals, Signed
<1>5. \A k \in Applications : LoanInv(k)'
  BY <1>1, <1>2, <1>4 DEF LoanInv
<1>6. loan[l].status = "none"
  BY <1>2 DEF LoanInv
<1>7. \A q \in Pays : PayInv(q)'
  BY <1>1, <1>2, <1>6 DEF PayInv
<1>. QED
  BY <1>3, <1>5, <1>7

LEMMA ProposeDisbursementInv ==
    ASSUME Inv, NEW l \in Applications, ProposeDisbursement(l)
    PROVE  Inv'
<1>. USE DEF Inv
<1>1. TypeOK'
  <2>. USE TypedRows
  <2>1. stage' \in [Proposals -> Stages] /\ mirror' \in [Proposals -> Rows]
    BY LoansAssumption DEF ProposeDisbursement, CreateProposal, Stages, Rows
  <2>2. loan' \in [Applications -> LoanRow] /\ repayment' \in [Applications -> OwedRow]
    BY DEF ProposeDisbursement
  <2>3. apply' \in [Applications -> ApplyCall] /\ pay' \in [Pays -> PayCall]
    BY GotoTyped DEF ProposeDisbursement, ApplyPC
  <2>. QED
    BY <2>1, <2>2, <2>3, TypedStep
<1>. USE LoansAssumption DEF TypeOK, TypeOKProposals, Signed, Ended
<1>2. \A k \in Applications : LoanInv(k)'
  BY DEF ProposeDisbursement, CreateProposal, Goto, LoanInv, PayInv
<1>3. \A q \in Pays : PayInv(q)'
  BY DEF ProposeDisbursement, CreateProposal, Goto, LoanInv, PayInv
<1>. QED
  BY <1>1, <1>2, <1>3

LEMMA PersistDisbursementInv ==
    ASSUME Inv, NEW l \in Applications, PersistDisbursement(l)
    PROVE  Inv'
<1>. USE DEF Inv
<1>1. TypeOK'
  <2>. USE TypedRows
  <2>1. stage' \in [Proposals -> Stages] /\ mirror' \in [Proposals -> Rows]
    BY LoansAssumption DEF PersistDisbursement, PersistProposal, Stages, Rows
  <2>2. loan' \in [Applications -> LoanRow] /\ repayment' \in [Applications -> OwedRow]
    BY DEF PersistDisbursement
  <2>3. apply' \in [Applications -> ApplyCall] /\ pay' \in [Pays -> PayCall]
    BY GotoTyped DEF PersistDisbursement, ApplyPC
  <2>. QED
    BY <2>1, <2>2, <2>3, TypedStep
<1>. USE LoansAssumption DEF TypeOK, TypeOKProposals, Signed, Ended
<1>2. \A k \in Applications : LoanInv(k)'
  BY DEF PersistDisbursement, PersistProposal, Goto, LoanInv, PayInv
<1>3. \A q \in Pays : PayInv(q)'
  BY DEF PersistDisbursement, PersistProposal, Goto, LoanInv, PayInv
<1>. QED
  BY <1>1, <1>2, <1>3

LEMMA PollSignPayloadInv ==
    ASSUME Inv, NEW l \in Applications, PollSignPayload(l)
    PROVE  Inv'
<1>. USE DEF Inv
<1>1. TypeOK'
  <2>. USE TypedRows
  <2>1. stage' \in [Proposals -> Stages] /\ mirror' \in [Proposals -> Rows]
    BY LoansAssumption DEF PollSignPayload, Stages, Rows
  <2>2. loan' \in [Applications -> LoanRow] /\ repayment' \in [Applications -> OwedRow]
    BY DEF PollSignPayload
  <2>3. pay' \in [Pays -> PayCall]
    BY DEF PollSignPayload
  <2>4. ASSUME NEW pc \in ApplyPC, Goto(l, pc)
        PROVE  apply' \in [Applications -> ApplyCall]
    BY <2>4, GotoTyped
  <2>5. ASSUME apply[l].attempt < MaxAttempts - 1,
               apply' = [apply EXCEPT ![l].attempt = @ + 1]
        PROVE  apply' \in [Applications -> ApplyCall]
    <3>1. apply[l].attempt + 1 \in Attempts
      BY <2>5, LoansAssumption DEF Attempts, ApplyCall
    <3>. QED
      BY <2>5, <3>1 DEF ApplyCall
  <2>6. apply' \in [Applications -> ApplyCall]
    BY <2>4, <2>5 DEF PollSignPayload, ApplyPC
  <2>. QED
    BY <2>1, <2>2, <2>3, <2>6, TypedStep
<1>. USE LoansAssumption DEF TypeOK, TypeOKProposals, Signed, Ended
<1>2. \A k \in Applications : LoanInv(k)'
  <2>1. apply[l].pc = "poll" /\ UNCHANGED <<stage, mirror, loan, repayment>>
    BY DEF PollSignPayload
  <2>2. \A k \in Applications : LoanInv(k)
    OBVIOUS
  <2>3. /\ apply'[l].pc \in {"poll", "sign", "failed"}
        /\ \A k \in Applications \ {l} : apply'[k] = apply[k]
    BY <2>1 DEF PollSignPayload, Goto
  <2>. QED
    BY <2>1, <2>2, <2>3 DEF LoanInv
<1>3. \A q \in Pays : PayInv(q)'
  BY DEF PollSignPayload, Goto, LoanInv, PayInv
<1>. QED
  BY <1>1, <1>2, <1>3

LEMMA SignDisbursementInv ==
    ASSUME Inv, NEW l \in Applications, SignDisbursement(l)
    PROVE  Inv'
<1>. USE DEF Inv
<1>1. TypeOK'
  <2>. USE TypedRows
  <2>1. stage' \in [Proposals -> Stages] /\ mirror' \in [Proposals -> Rows]
    BY LoansAssumption DEF SignDisbursement, SignProposal, Stages, Rows
  <2>2. loan' \in [Applications -> LoanRow] /\ repayment' \in [Applications -> OwedRow]
    BY DEF SignDisbursement
  <2>3. apply' \in [Applications -> ApplyCall] /\ pay' \in [Pays -> PayCall]
    BY GotoTyped DEF SignDisbursement, ApplyPC
  <2>. QED
    BY <2>1, <2>2, <2>3, TypedStep
<1>. USE LoansAssumption DEF TypeOK, TypeOKProposals, Signed, Ended
<1>2. \A k \in Applications : LoanInv(k)'
  BY DEF SignDisbursement, SignProposal, Goto, LoanInv, PayInv
<1>3. \A q \in Pays : PayInv(q)'
  BY DEF SignDisbursement, SignProposal, Goto, LoanInv, PayInv
<1>. QED
  BY <1>1, <1>2, <1>3

LEMMA PersistSignatureInv ==
    ASSUME Inv, NEW l \in Applications, PersistSignature(l)
    PROVE  Inv'
<1>. USE DEF Inv
<1>1. TypeOK'
  <2>. USE TypedRows
  <2>1. stage' \in [Proposals -> Stages] /\ mirror' \in [Proposals -> Rows]
    BY LoansAssumption DEF PersistSignature, PersistProposal, Stages, Rows
  <2>2. loan' \in [Applications -> LoanRow] /\ repayment' \in [Applications -> OwedRow]
    BY DEF PersistSignature
  <2>3. apply' \in [Applications -> ApplyCall] /\ pay' \in [Pays -> PayCall]
    BY GotoTyped DEF PersistSignature, ApplyPC
  <2>. QED
    BY <2>1, <2>2, <2>3, TypedStep
<1>. USE LoansAssumption DEF TypeOK, TypeOKProposals, Signed, Ended
<1>2. \A k \in Applications : LoanInv(k)'
  BY DEF PersistSignature, PersistProposal, Goto, LoanInv, PayInv
<1>3. \A q \in Pays : PayInv(q)'
  BY DEF PersistSignature, PersistProposal, Goto, LoanInv, PayInv
<1>. QED
  BY <1>1, <1>2, <1>3

LEMMA WriteDisbursedInv ==
    ASSUME Inv, NEW l \in Applications, WriteDisbursed(l)
    PROVE  Inv'
<1>. USE DEF Inv
<1>1. TypeOK'
  <2>. USE TypedRows
  <2>1. stage' \in [Proposals -> Stages] /\ mirror' \in [Proposals -> Rows]
    BY LoansAssumption DEF WriteDisbursed, Stages, Rows
  <2>2. loan' \in [Applications -> LoanRow] /\ repayment' \in [Applications -> OwedRow]
    BY DEF WriteDisbursed, LoanRow, OwedRow
  <2>3. apply' \in [Applications -> ApplyCall] /\ pay' \in [Pays -> PayCall]
    BY GotoTyped DEF WriteDisbursed, ApplyPC
  <2>. QED
    BY <2>1, <2>2, <2>3, TypedStep
<1>. USE LoansAssumption DEF TypeOK, TypeOKProposals, Signed, Ended
<1>2. \A k \in Applications : LoanInv(k)'
  BY DEF WriteDisbursed, Goto, LoanInv, PayInv
<1>3. \A q \in Pays : PayInv(q)'
  BY DEF WriteDisbursed, Goto, LoanInv, PayInv
<1>. QED
  BY <1>1, <1>2, <1>3

LEMMA AbortApplyInv ==
    ASSUME Inv, NEW l \in Applications, AbortApply(l)
    PROVE  Inv'
<1>. USE DEF Inv
<1>1. TypeOK'
  <2>. USE TypedRows
  <2>1. stage' \in [Proposals -> Stages] /\ mirror' \in [Proposals -> Rows]
    BY LoansAssumption DEF AbortApply, Stages, Rows
  <2>2. loan' \in [Applications -> LoanRow] /\ repayment' \in [Applications -> OwedRow]
    BY DEF AbortApply
  <2>3. apply' \in [Applications -> ApplyCall] /\ pay' \in [Pays -> PayCall]
    BY GotoTyped DEF AbortApply, ApplyPC
  <2>. QED
    BY <2>1, <2>2, <2>3, TypedStep
<1>. USE LoansAssumption DEF TypeOK, TypeOKProposals, Signed, Ended
<1>2. \A k \in Applications : LoanInv(k)'
  BY DEF AbortApply, Goto, LoanInv, PayInv
<1>3. \A q \in Pays : PayInv(q)'
  BY DEF AbortApply, Goto, LoanInv, PayInv
<1>. QED
  BY <1>1, <1>2, <1>3

LEMMA StartPayInv ==
    ASSUME Inv, NEW r \in Pays, NEW l \in Applications, StartPay(r, l)
    PROVE  Inv'
<1>. USE DEF Inv
<1>1. TypeOK'
  <2>. USE TypedRows
  <2>1. stage' \in [Proposals -> Stages] /\ mirror' \in [Proposals -> Rows]
    BY LoansAssumption DEF StartPay, Stages, Rows
  <2>2. loan' \in [Applications -> LoanRow] /\ repayment' \in [Applications -> OwedRow]
    BY DEF StartPay
  <2>3. apply' \in [Applications -> ApplyCall] /\ pay' \in [Pays -> PayCall]
    BY DEF StartPay, PayCall, PayPC
  <2>. QED
    BY <2>1, <2>2, <2>3, TypedStep
<1>. USE LoansAssumption DEF TypeOK, TypeOKProposals, Signed, Ended
<1>2. \A k \in Applications : LoanInv(k)'
  BY DEF StartPay, LoanInv, PayInv
<1>3. \A q \in Pays : PayInv(q)'
  BY DEF StartPay, LoanInv, PayInv
<1>. QED
  BY <1>1, <1>2, <1>3

LEMMA ReadRepaymentInv ==
    ASSUME Inv, NEW r \in Pays, ReadRepayment(r)
    PROVE  Inv'
<1>. USE DEF Inv
<1>1. TypeOK'
  <2>. USE TypedRows
  <2>1. stage' \in [Proposals -> Stages] /\ mirror' \in [Proposals -> Rows]
    BY LoansAssumption DEF ReadRepayment, Stages, Rows
  <2>2. loan' \in [Applications -> LoanRow] /\ repayment' \in [Applications -> OwedRow]
    BY DEF ReadRepayment
  <2>3. apply' \in [Applications -> ApplyCall] /\ pay' \in [Pays -> PayCall]
    BY GotoPayTyped DEF ReadRepayment, PayPC
  <2>. QED
    BY <2>1, <2>2, <2>3, TypedStep
<1>. USE LoansAssumption DEF TypeOK, TypeOKProposals, Signed, Ended
<1>2. \A k \in Applications : LoanInv(k)'
  BY DEF ReadRepayment, GotoPay, LoanInv, PayInv
<1>3. \A q \in Pays : PayInv(q)'
  BY DEF ReadRepayment, GotoPay, LoanInv, PayInv
<1>. QED
  BY <1>1, <1>2, <1>3

LEMMA ProposeRepaymentInv ==
    ASSUME Inv, NEW r \in Pays, ProposeRepayment(r)
    PROVE  Inv'
<1>. USE DEF Inv
<1>1. TypeOK'
  <2>. USE TypedRows
  <2>1. stage' \in [Proposals -> Stages] /\ mirror' \in [Proposals -> Rows]
    BY LoansAssumption DEF ProposeRepayment, CreateProposal, Stages, Rows
  <2>2. loan' \in [Applications -> LoanRow] /\ repayment' \in [Applications -> OwedRow]
    BY DEF ProposeRepayment
  <2>3. apply' \in [Applications -> ApplyCall] /\ pay' \in [Pays -> PayCall]
    BY GotoPayTyped DEF ProposeRepayment, PayPC
  <2>. QED
    BY <2>1, <2>2, <2>3, TypedStep
<1>. USE LoansAssumption DEF TypeOK, TypeOKProposals, Signed, Ended
<1>2. \A k \in Applications : LoanInv(k)'
  BY DEF ProposeRepayment, CreateProposal, GotoPay, LoanInv, PayInv
<1>3. \A q \in Pays : PayInv(q)'
  BY DEF ProposeRepayment, CreateProposal, GotoPay, LoanInv, PayInv
<1>. QED
  BY <1>1, <1>2, <1>3

LEMMA PersistRepaymentInv ==
    ASSUME Inv, NEW r \in Pays, PersistRepayment(r)
    PROVE  Inv'
<1>. USE DEF Inv
<1>1. TypeOK'
  <2>. USE TypedRows
  <2>1. stage' \in [Proposals -> Stages] /\ mirror' \in [Proposals -> Rows]
    BY LoansAssumption DEF PersistRepayment, PersistProposal, Stages, Rows
  <2>2. loan' \in [Applications -> LoanRow] /\ repayment' \in [Applications -> OwedRow]
    BY DEF PersistRepayment
  <2>3. apply' \in [Applications -> ApplyCall] /\ pay' \in [Pays -> PayCall]
    BY GotoPayTyped DEF PersistRepayment, PayPC
  <2>. QED
    BY <2>1, <2>2, <2>3, TypedStep
<1>. USE LoansAssumption DEF TypeOK, TypeOKProposals, Signed, Ended
<1>2. \A k \in Applications : LoanInv(k)'
  BY DEF PersistRepayment, PersistProposal, GotoPay, LoanInv, PayInv
<1>3. \A q \in Pays : PayInv(q)'
  BY DEF PersistRepayment, PersistProposal, GotoPay, LoanInv, PayInv
<1>. QED
  BY <1>1, <1>2, <1>3

LEMMA WriteProposedInv ==
    ASSUME Inv, NEW r \in Pays, WriteProposed(r)
    PROVE  Inv'
<1>. USE DEF Inv
<1>1. TypeOK'
  <2>. USE TypedRows
  <2>1. stage' \in [Proposals -> Stages] /\ mirror' \in [Proposals -> Rows]
    BY LoansAssumption DEF WriteProposed, Stages, Rows
  <2>2. loan' \in [Applications -> LoanRow] /\ repayment' \in [Applications -> OwedRow]
    BY DEF WriteProposed, LoanRow, OwedRow
  <2>3. apply' \in [Applications -> ApplyCall] /\ pay' \in [Pays -> PayCall]
    BY GotoPayTyped DEF WriteProposed, PayPC
  <2>. QED
    BY <2>1, <2>2, <2>3, TypedStep
<1>. USE LoansAssumption DEF TypeOK, TypeOKProposals, Signed, Ended
<1>2. \A k \in Applications : LoanInv(k)'
  <2>1. pay[r].for \in Applications /\ loan[pay[r].for].status = "DISBURSED"
    BY DEF WriteProposed, PayInv
  <2>2. /\ repayment' = [repayment EXCEPT ![pay[r].for] =
                            [status |-> "PROPOSED", prop |-> r]]
        /\ UNCHANGED <<stage, mirror, loan, apply>>
    BY DEF WriteProposed
  <2>3. \A k \in Applications :
           repayment'[k].status # "none" <=> repayment[k].status # "none"
    BY <2>1, <2>2 DEF LoanInv
  <2>. QED
    BY <2>2, <2>3 DEF LoanInv
<1>3. \A q \in Pays : PayInv(q)'
  BY DEF WriteProposed, GotoPay, LoanInv, PayInv
<1>. QED
  BY <1>1, <1>2, <1>3

LEMMA AbortPayInv ==
    ASSUME Inv, NEW r \in Pays, AbortPay(r)
    PROVE  Inv'
<1>. USE DEF Inv
<1>1. TypeOK'
  <2>. USE TypedRows
  <2>1. stage' \in [Proposals -> Stages] /\ mirror' \in [Proposals -> Rows]
    BY LoansAssumption DEF AbortPay, Stages, Rows
  <2>2. loan' \in [Applications -> LoanRow] /\ repayment' \in [Applications -> OwedRow]
    BY DEF AbortPay
  <2>3. apply' \in [Applications -> ApplyCall] /\ pay' \in [Pays -> PayCall]
    BY GotoPayTyped DEF AbortPay, PayPC
  <2>. QED
    BY <2>1, <2>2, <2>3, TypedStep
<1>. USE LoansAssumption DEF TypeOK, TypeOKProposals, Signed, Ended
<1>2. \A k \in Applications : LoanInv(k)'
  BY DEF AbortPay, GotoPay, LoanInv, PayInv
<1>3. \A q \in Pays : PayInv(q)'
  BY DEF AbortPay, GotoPay, LoanInv, PayInv
<1>. QED
  BY <1>1, <1>2, <1>3

LEMMA SignRepaymentInv ==
    ASSUME Inv, NEW r \in Pays, SignRepayment(r)
    PROVE  Inv'
<1>. USE DEF Inv
<1>1. TypeOK'
  <2>. USE TypedRows
  <2>1. stage' \in [Proposals -> Stages] /\ mirror' \in [Proposals -> Rows]
    BY LoansAssumption DEF SignRepayment, SignProposal, PersistProposal, Stages, Rows
  <2>2. loan' \in [Applications -> LoanRow] /\ repayment' \in [Applications -> OwedRow]
    BY DEF SignRepayment
  <2>3. apply' \in [Applications -> ApplyCall] /\ pay' \in [Pays -> PayCall]
    BY DEF SignRepayment
  <2>. QED
    BY <2>1, <2>2, <2>3, TypedStep
<1>. USE LoansAssumption DEF TypeOK, TypeOKProposals, Signed, Ended
<1>2. \A k \in Applications : LoanInv(k)'
  BY DEF SignRepayment, SignProposal, PersistProposal, LoanInv, PayInv
<1>3. \A q \in Pays : PayInv(q)'
  BY DEF SignRepayment, SignProposal, PersistProposal, LoanInv, PayInv
<1>. QED
  BY <1>1, <1>2, <1>3

LEMMA DeclineInv ==
    ASSUME Inv, NEW p \in Proposals, Decline(p)
    PROVE  Inv'
<1>. USE DEF Inv
<1>1. TypeOK'
  <2>. USE TypedRows
  <2>1. stage' \in [Proposals -> Stages] /\ mirror' \in [Proposals -> Rows]
    BY LoansAssumption DEF Decline, RejectProposal, PersistProposal, Stages, Rows
  <2>2. loan' \in [Applications -> LoanRow] /\ repayment' \in [Applications -> OwedRow]
    BY DEF Decline
  <2>3. apply' \in [Applications -> ApplyCall] /\ pay' \in [Pays -> PayCall]
    BY DEF Decline
  <2>. QED
    BY <2>1, <2>2, <2>3, TypedStep
<1>. USE LoansAssumption DEF TypeOK, TypeOKProposals, Signed, Ended
<1>2. \A k \in Applications : LoanInv(k)'
  BY DEF Decline, RejectProposal, PersistProposal, LoanInv, PayInv
<1>3. \A q \in Pays : PayInv(q)'
  BY DEF Decline, RejectProposal, PersistProposal, LoanInv, PayInv
<1>. QED
  BY <1>1, <1>2, <1>3

LEMMA BmoniStepInv ==
    ASSUME Inv, NEW p \in Proposals, BmoniStep(p)
    PROVE  Inv'
<1>. USE DEF Inv
<1>1. TypeOK'
  <2>. USE TypedRows
  <2>1. stage' \in [Proposals -> Stages] /\ mirror' \in [Proposals -> Rows]
    BY LoansAssumption DEF BmoniStep, BmoniMoves, PreparePayload, Execute, Expire, Stages, Rows
  <2>2. loan' \in [Applications -> LoanRow] /\ repayment' \in [Applications -> OwedRow]
    BY DEF BmoniStep
  <2>3. apply' \in [Applications -> ApplyCall] /\ pay' \in [Pays -> PayCall]
    BY DEF BmoniStep
  <2>. QED
    BY <2>1, <2>2, <2>3, TypedStep
<1>. USE LoansAssumption DEF TypeOK, TypeOKProposals, Signed, Ended
<1>2. \A k \in Applications : LoanInv(k)'
  BY DEF BmoniStep, BmoniMoves, PreparePayload, Execute, Expire, LoanInv, PayInv
<1>3. \A q \in Pays : PayInv(q)'
  BY DEF BmoniStep, BmoniMoves, PreparePayload, Execute, Expire, LoanInv, PayInv
<1>. QED
  BY <1>1, <1>2, <1>3

(* Every step of the system preserves the invariant. *)
LEMMA StepInv == Inv /\ [Next]_vars => Inv'
<1>. SUFFICES ASSUME Inv, [Next]_vars
              PROVE  Inv'
  OBVIOUS
<1>1. CASE \E l \in Applications : StartApply(l) \/ ApplyStep(l) \/ AbortApply(l)
  BY <1>1, StartApplyInv, RecordVerdictInv, ProposeDisbursementInv,
     PersistDisbursementInv, PollSignPayloadInv, SignDisbursementInv,
     PersistSignatureInv, WriteDisbursedInv, AbortApplyInv DEF ApplyStep
<1>2. CASE \E r \in Pays : PayStep(r) \/ \E l \in Applications : StartPay(r, l)
  BY <1>2, StartPayInv, ReadRepaymentInv, ProposeRepaymentInv, PersistRepaymentInv,
     WriteProposedInv, AbortPayInv, SignRepaymentInv DEF PayStep
<1>3. CASE \E p \in Proposals : BmoniStep(p) \/ Decline(p)
  BY <1>3, BmoniStepInv, DeclineInv
<1>4. CASE UNCHANGED vars
  BY <1>4 DEF vars, Inv, TypeOK, TypeOKProposals, LoanInv, PayInv
<1>. QED
  BY <1>1, <1>2, <1>3, <1>4 DEF Next

(* However the handlers, the borrowers and BMONI interleave, each handler  *)
(* knows of its loan what LoanInv and PayInv say.                          *)
THEOREM Invariance == Spec => []Inv
BY InitInv, StepInv, PTL DEF Spec

(* Rows and handlers keep the values the schema and the code allow; in     *)
(* particular waitForSignPayload never starts a poll past its last.        *)
THEOREM TypeCorrect == Spec => []TypeOK
<1>1. Inv => TypeOK
  BY DEF Inv
<1>. QED
  BY <1>1, Invariance, PTL

(* A loan is DISBURSED exactly when its repayment is owed, and only after  *)
(* the treasury signed the proposal on record for it.                      *)
THEOREM DisbursementRecorded == Spec => []DisbursedIsOwed
<1>1. Inv => DisbursedIsOwed
  BY DEF Inv, LoanInv, DisbursedIsOwed, Signed
<1>. QED
  BY <1>1, Invariance, PTL

(* Money follows the verdict: what the runs check of it is in the two      *)
(* refinements.                                                            *)
MoneyFollowsVerdict ==
    /\ \A l \in Applications :
          stage[l] # "absent" => loan[l].status \in {"APPROVED", "DISBURSED"}
    /\ \A r \in Pays :
          stage[r] # "absent" => loan[pay[r].for].status = "DISBURSED"

(* The treasury proposes money only to an approved applicant, and a        *)
(* borrower is asked to repay only a disbursed loan.                       *)
THEOREM VerdictFirst == Spec => []MoneyFollowsVerdict
<1>1. Inv => MoneyFollowsVerdict
  BY DEF Inv, LoanInv, PayInv, MoneyFollowsVerdict
<1>. QED
  BY <1>1, Invariance, PTL

----------------------------------------------------------------------------
(* Repayments are obligations. *)

(* Nothing but its own handler moves a repayment request on.               *)
LEMMA OwnStep ==
    ASSUME Inv, [Next]_vars, NEW r \in Pays
    PROVE  \/ pay'[r] = pay[r]
           \/ ReadRepayment(r) \/ ProposeRepayment(r) \/ PersistRepayment(r)
           \/ WriteProposed(r) \/ AbortPay(r)
           \/ \E l \in Applications : StartPay(r, l)
<1>1. \/ UNCHANGED pay
      \/ \E q \in Pays : \/ ReadRepayment(q) \/ ProposeRepayment(q)
                         \/ PersistRepayment(q) \/ WriteProposed(q) \/ AbortPay(q)
                         \/ \E l \in Applications : StartPay(q, l)
  BY DEF vars, Next, ApplyStep, PayStep, StartApply, RecordVerdict, ProposeDisbursement,
         PersistDisbursement, PollSignPayload, SignDisbursement, PersistSignature,
         WriteDisbursed, AbortApply, SignRepayment, Decline, BmoniStep
<1>2. ASSUME NEW q \in Pays, q # r,
             \/ ReadRepayment(q) \/ ProposeRepayment(q) \/ PersistRepayment(q)
             \/ WriteProposed(q) \/ AbortPay(q)
      PROVE  pay'[r] = pay[r]
  BY <1>2 DEF Inv, TypeOK, GotoPay, ReadRepayment, ProposeRepayment, PersistRepayment,
         WriteProposed, AbortPay
<1>3. ASSUME NEW q \in Pays, q # r, NEW l \in Applications, StartPay(q, l)
      PROVE  pay'[r] = pay[r]
  BY <1>3 DEF Inv, TypeOK, StartPay
<1>. QED
  BY <1>1, <1>2, <1>3

(* A repayment's proposal appears only when its own handler proposes it.   *)
LEMMA OwnProposal ==
    ASSUME Inv, [Next]_vars, NEW r \in Pays, stage[r] = "absent", ~ProposeRepayment(r)
    PROVE  stage'[r] = "absent"
<1>. USE LoansAssumption DEF Inv, TypeOK, TypeOKProposals
<1>1. ASSUME NEW q \in Pays, ProposeRepayment(q) \/ SignRepayment(q)
      PROVE  stage'[r] = "absent"
  BY <1>1 DEF ProposeRepayment, SignRepayment, CreateProposal, SignProposal
<1>2. ASSUME NEW p \in Proposals, Decline(p) \/ BmoniStep(p)
      PROVE  stage'[r] = "absent"
  BY <1>2 DEF Decline, BmoniStep, RejectProposal, BmoniMoves, PreparePayload, Execute, Expire
<1>3. ASSUME NEW l \in Applications, ProposeDisbursement(l) \/ SignDisbursement(l)
      PROVE  stage'[r] = "absent"
  BY <1>3 DEF ProposeDisbursement, SignDisbursement, CreateProposal, SignProposal
<1>4. \/ UNCHANGED stage
      \/ \E q \in Pays : ProposeRepayment(q) \/ SignRepayment(q)
      \/ \E p \in Proposals : Decline(p) \/ BmoniStep(p)
      \/ \E l \in Applications : ProposeDisbursement(l) \/ SignDisbursement(l)
  BY DEF vars, Next, ApplyStep, PayStep, StartApply, RecordVerdict,
         PersistDisbursement, PollSignPayload, PersistSignature, WriteDisbursed,
         AbortApply, StartPay, ReadRepayment, PersistRepayment, WriteProposed, AbortPay
<1>. QED
  BY <1>1, <1>2, <1>3, <1>4

(* A repayment that is not owed yet names no request, and a request that   *)
(* goes on to its rows has made its proposal.                              *)
Books ==
    /\ \A l \in Applications : repayment[l].status = "none" => repayment[l].prop = None
    /\ \A r \in Pays : pay[r].pc \in {"persist", "update"} => stage[r] # "absent"

LEMMA InitBooks == Init => Books
BY DEF Init, Books

(* A proposal that has been made is never unmade. *)
LEMMA NeverUnmade ==
    ASSUME Inv, [Next]_vars, NEW r \in Pays, stage[r] # "absent"
    PROVE  stage'[r] # "absent"
<1>. USE LoansAssumption DEF Inv, TypeOK, TypeOKProposals
<1>1. ASSUME NEW q \in Pays, ProposeRepayment(q) \/ SignRepayment(q)
      PROVE  stage'[r] # "absent"
  BY <1>1 DEF ProposeRepayment, SignRepayment, CreateProposal, SignProposal
<1>2. ASSUME NEW p \in Proposals, Decline(p) \/ BmoniStep(p)
      PROVE  stage'[r] # "absent"
  BY <1>2 DEF Decline, BmoniStep, RejectProposal, BmoniMoves, PreparePayload, Execute, Expire
<1>3. ASSUME NEW l \in Applications, ProposeDisbursement(l) \/ SignDisbursement(l)
      PROVE  stage'[r] # "absent"
  BY <1>3 DEF ProposeDisbursement, SignDisbursement, CreateProposal, SignProposal
<1>4. \/ UNCHANGED stage
      \/ \E q \in Pays : ProposeRepayment(q) \/ SignRepayment(q)
      \/ \E p \in Proposals : Decline(p) \/ BmoniStep(p)
      \/ \E l \in Applications : ProposeDisbursement(l) \/ SignDisbursement(l)
  BY DEF vars, Next, ApplyStep, PayStep, StartApply, RecordVerdict,
         PersistDisbursement, PollSignPayload, PersistSignature, WriteDisbursed,
         AbortApply, StartPay, ReadRepayment, PersistRepayment, WriteProposed, AbortPay
<1>. QED
  BY <1>1, <1>2, <1>3, <1>4

LEMMA BooksStep ==
    ASSUME Inv, Books, [Next]_vars
    PROVE  Books'
<1>1. ASSUME NEW l \in Applications, repayment'[l].status = "none"
      PROVE  repayment'[l].prop = None
  <2>1. \/ UNCHANGED repayment
        \/ \E k \in Applications : WriteDisbursed(k)
        \/ \E r \in Pays : WriteProposed(r)
    BY DEF vars, Next, ApplyStep, PayStep, StartApply, RecordVerdict, ProposeDisbursement,
           PersistDisbursement, PollSignPayload, SignDisbursement, PersistSignature,
           AbortApply, StartPay, ReadRepayment, ProposeRepayment, PersistRepayment,
           AbortPay, SignRepayment, Decline, BmoniStep
  <2>2. repayment \in [Applications -> OwedRow]
    BY TypedRows DEF Inv
  <2>3. repayment'[l] = repayment[l]
    <3>1. ASSUME NEW k \in Applications, WriteDisbursed(k)
          PROVE  repayment'[l] = repayment[l]
      BY <1>1, <2>2, <3>1 DEF WriteDisbursed, OwedRow
    <3>2. ASSUME NEW r \in Pays, WriteProposed(r)
          PROVE  repayment'[l] = repayment[l]
      BY <1>1, <2>2, <3>2 DEF WriteProposed
    <3>. QED
      BY <2>1, <3>1, <3>2
  <2>. QED
    BY <1>1, <2>3 DEF Books
<1>2. ASSUME NEW r \in Pays, pay'[r].pc \in {"persist", "update"}
      PROVE  stage'[r] # "absent"
  <2>1. CASE pay'[r] = pay[r]
    BY <1>2, <2>1, NeverUnmade DEF Books
  <2>2. CASE ProposeRepayment(r)
    BY <2>2, LoansAssumption DEF ProposeRepayment, CreateProposal, Inv, TypeOK, TypeOKProposals
  <2>3. CASE PersistRepayment(r)
    BY <2>3, NeverUnmade DEF PersistRepayment, Books
  <2>4. CASE \/ ReadRepayment(r) \/ WriteProposed(r) \/ AbortPay(r)
             \/ \E l \in Applications : StartPay(r, l)
    BY <1>2, <2>4 DEF ReadRepayment, WriteProposed, AbortPay, StartPay, GotoPay, Inv, TypeOK
  <2>. QED
    BY <2>1, <2>2, <2>3, <2>4, OwnStep
<1>. QED
  BY <1>1, <1>2 DEF Books

LEMMA SameAccepted ==
    ASSUME \A q \in Pays : /\ pay'[q].pc = "propose" <=> pay[q].pc = "propose"
                           /\ pay[q].pc = "propose" => pay'[q].for = pay[q].for
    PROVE  Accepted' = Accepted
BY DEF Accepted

LEMMA SameAsked ==
    ASSUME \A q \in Pays : /\ stage'[q] = "absent" <=> stage[q] = "absent"
                           /\ stage[q] # "absent" => pay'[q].for = pay[q].for
    PROVE  Asked' = Asked
BY DEF Asked

(* A handler that goes on keeps the repayment it is for. *)
LEMMA GoesOn ==
    ASSUME Inv, NEW r \in Pays, NEW pc \in PayPC, GotoPay(r, pc)
    PROVE  /\ \A q \in Pays \ {r} : pay'[q] = pay[q]
           /\ pay'[r].pc = pc /\ pay'[r].for = pay[r].for
BY DEF Inv, TypeOK, GotoPay

LEMMA InitObliged == Init => Owed!Init
BY LoansAssumption DEF Init, InitProposals, Owed!Init, Accepted, Asked

(* The disbursement makes the repayment due, which nothing did before. *)
LEMMA DisbursedRaises ==
    ASSUME Inv, Books, NEW l \in Applications, WriteDisbursed(l)
    PROVE  Owed!Raise({l})
<1>1. /\ apply[l].pc = "update" /\ UNCHANGED <<stage, pay>>
      /\ repayment' = [repayment EXCEPT ![l].status = "DUE"]
  BY DEF WriteDisbursed
<1>2. repayment[l].status = "none"
  BY <1>1 DEF Inv, LoanInv
<1>3. repayment[l] = [status |-> "none", prop |-> None]
  BY <1>2, TypedRows DEF Books, Inv, OwedRow
<1>4. repayment' = [d \in Applications |->
                      IF d \in {l} THEN [status |-> "DUE", prop |-> None] ELSE repayment[d]]
  <2>1. repayment \in [Applications -> OwedRow]
    BY TypedRows DEF Inv
  <2>2. [repayment[l] EXCEPT !.status = "DUE"] = [status |-> "DUE", prop |-> None]
    BY <1>3
  <2>. QED
    BY <1>1, <2>1, <2>2
<1>5. UNCHANGED <<Accepted, Asked>>
  BY <1>1 DEF Accepted, Asked
<1>. QED
  BY <1>2, <1>4, <1>5 DEF Owed!Raise

LEMMA ReadAccepts ==
    ASSUME Inv, NEW r \in Pays, ReadRepayment(r)
    PROVE  Owed!Accept(r, pay[r].for) \/ UNCHANGED <<repayment, Accepted, Asked>>
<1>1. pay[r].pc = "read" /\ stage[r] = "absent" /\ UNCHANGED <<stage, repayment>>
  BY DEF ReadRepayment, Inv, PayInv
<1>2. CASE GotoPay(r, "failed")
  <2>1. /\ \A q \in Pays \ {r} : pay'[q] = pay[q]
        /\ pay'[r].pc = "failed" /\ pay'[r].for = pay[r].for
    BY <1>2, GoesOn DEF PayPC
  <2>. QED
    BY <1>1, <2>1, SameAccepted, SameAsked
<1>3. CASE repayment[pay[r].for].status = "DUE" /\ GotoPay(r, "propose")
  <2>1. /\ \A q \in Pays \ {r} : pay'[q] = pay[q]
        /\ pay'[r].pc = "propose" /\ pay'[r].for = pay[r].for
    BY <1>3, GoesOn DEF PayPC
  <2>2. Accepted' = Accepted \union {<<r, pay[r].for>>}
    BY <1>1, <2>1 DEF Accepted
  <2>3. Asked' = Asked
    BY <1>1, <2>1, SameAsked
  <2>4. \A l \in Applications : <<r, l>> \notin Accepted \union Asked
    BY <1>1 DEF Accepted, Asked
  <2>. QED
    BY <1>1, <1>3, <2>2, <2>3, <2>4 DEF Owed!Accept
<1>. QED
  BY <1>2, <1>3 DEF ReadRepayment

LEMMA ProposeAsks ==
    ASSUME Inv, NEW r \in Pays, ProposeRepayment(r)
    PROVE  Owed!Ask(r, pay[r].for)
<1>1. pay[r].pc = "propose" /\ UNCHANGED repayment
  BY DEF ProposeRepayment
<1>2. /\ \A q \in Pays \ {r} : pay'[q] = pay[q]
      /\ pay'[r].pc # "propose" /\ pay'[r].for = pay[r].for
  BY GoesOn DEF ProposeRepayment, PayPC
<1>3. /\ \A q \in Pays \ {r} : stage'[q] = stage[q]
      /\ stage'[r] # "absent"
  BY LoansAssumption DEF ProposeRepayment, CreateProposal, Inv, TypeOK, TypeOKProposals
<1>4. <<r, pay[r].for>> \in Accepted /\ Accepted' = Accepted \ {<<r, pay[r].for>>}
  BY <1>1, <1>2 DEF Accepted
<1>5. Asked' = Asked \union {<<r, pay[r].for>>}
  BY <1>2, <1>3 DEF Asked
<1>. QED
  BY <1>1, <1>4, <1>5 DEF Owed!Ask

LEMMA WriteRecords ==
    ASSUME Inv, Books, NEW r \in Pays, WriteProposed(r)
    PROVE  Owed!Record(r, pay[r].for)
<1>1. /\ pay[r].pc = "update" /\ stage[r] # "absent" /\ stage' = stage
      /\ repayment' = [repayment EXCEPT ![pay[r].for] = [status |-> "PROPOSED", prop |-> r]]
  BY DEF WriteProposed, Books
<1>2. /\ \A q \in Pays \ {r} : pay'[q] = pay[q]
      /\ pay'[r].pc # "propose" /\ pay'[r].for = pay[r].for
  BY GoesOn DEF WriteProposed, PayPC
<1>3. <<r, pay[r].for>> \in Asked
  BY <1>1 DEF Asked
<1>4. UNCHANGED <<Accepted, Asked>>
  BY <1>1, <1>2, SameAccepted, SameAsked
<1>. QED
  BY <1>1, <1>3, <1>4 DEF Owed!Record

LEMMA AbortWithdraws ==
    ASSUME Inv, NEW r \in Pays, AbortPay(r)
    PROVE  Owed!Withdraw(r, pay[r].for)
<1>1. UNCHANGED <<stage, repayment>>
  BY DEF AbortPay
<1>2. /\ \A q \in Pays \ {r} : pay'[q] = pay[q]
      /\ pay'[r].pc = "failed" /\ pay'[r].for = pay[r].for
  BY GoesOn DEF AbortPay, PayPC
<1>3. Accepted' = Accepted \ {<<r, pay[r].for>>}
  BY <1>2 DEF Accepted
<1>4. Asked' = Asked
  BY <1>1, <1>2, SameAsked
<1>. QED
  BY <1>1, <1>3, <1>4 DEF Owed!Withdraw

(* Starting, storing the proposal's row, and signing it leave the          *)
(* obligations alone.                                                      *)
LEMMA PayStutters ==
    ASSUME Inv, NEW r \in Pays,
           \/ \E l \in Applications : StartPay(r, l)
           \/ PersistRepayment(r) \/ SignRepayment(r)
    PROVE  UNCHANGED <<repayment, Accepted, Asked>>
<1>1. CASE \E l \in Applications : StartPay(r, l)
  <2>1. pay[r].pc = "idle" /\ stage[r] = "absent" /\ UNCHANGED <<stage, repayment>>
    BY <1>1 DEF StartPay, Inv, PayInv
  <2>2. pay \in [Pays -> PayCall]
    BY TypedRows DEF Inv
  <2>3. pay'[r].pc = "read" /\ \A q \in Pays \ {r} : pay'[q] = pay[q]
    BY <1>1, <2>2 DEF StartPay, PayCall
  <2>. QED
    BY <2>1, <2>3, SameAccepted, SameAsked
<1>2. CASE PersistRepayment(r)
  <2>1. /\ pay[r].pc # "propose" /\ pay'[r].pc # "propose" /\ pay'[r].for = pay[r].for
        /\ \A q \in Pays \ {r} : pay'[q] = pay[q]
        /\ UNCHANGED <<stage, repayment>>
    BY <1>2, GoesOn DEF PersistRepayment, PayPC
  <2>. QED
    BY <2>1, SameAccepted, SameAsked
<1>3. CASE SignRepayment(r)
  <2>1. /\ \A q \in Pays : stage'[q] = "absent" <=> stage[q] = "absent"
        /\ UNCHANGED <<repayment, pay>>
    BY <1>3, LoansAssumption DEF SignRepayment, SignProposal, Inv, TypeOK, TypeOKProposals
  <2>. QED
    BY <2>1, SameAccepted, SameAsked
<1>. QED
  BY <1>1, <1>2, <1>3

(* So do the apply handler, but for its last write, and BMONI. *)
LEMMA OthersStutter ==
    ASSUME Inv, [Next]_vars,
           \/ \E l \in Applications : \/ StartApply(l) \/ AbortApply(l)
                                      \/ ApplyStep(l) /\ ~WriteDisbursed(l)
           \/ \E p \in Proposals : BmoniStep(p) \/ Decline(p)
           \/ UNCHANGED vars
    PROVE  UNCHANGED <<repayment, Accepted, Asked>>
<1>1. UNCHANGED <<repayment, pay>>
  BY DEF vars, ApplyStep, StartApply, RecordVerdict, ProposeDisbursement,
         PersistDisbursement, PollSignPayload, SignDisbursement, PersistSignature,
         AbortApply, Decline, BmoniStep
<1>2. \A r \in Pays : ~ProposeRepayment(r)
  BY <1>1, GoesOn DEF ProposeRepayment, PayPC
<1>3. \A r \in Pays : stage'[r] = "absent" <=> stage[r] = "absent"
  BY <1>2, OwnProposal, NeverUnmade
<1>. QED
  BY <1>1, <1>3, SameAccepted, SameAsked

LEMMA StepObliged ==
    ASSUME Inv, Books, [Next]_vars
    PROVE  Owed!Next \/ UNCHANGED <<repayment, Accepted, Asked>>
<1>1. ASSUME NEW l \in Applications, WriteDisbursed(l)
      PROVE  Owed!Next
  BY <1>1, DisbursedRaises DEF Owed!Next
<1>2. ASSUME NEW r \in Pays, PayStep(r) \/ \E l \in Applications : StartPay(r, l)
      PROVE  Owed!Next \/ UNCHANGED <<repayment, Accepted, Asked>>
  <2>1. pay[r].pc # "idle" => pay[r].for \in Applications
    BY DEF Inv, PayInv
  <2>2. CASE ReadRepayment(r)
    BY <2>1, <2>2, ReadAccepts DEF Owed!Next, ReadRepayment
  <2>3. CASE ProposeRepayment(r)
    BY <2>1, <2>3, ProposeAsks DEF Owed!Next, ProposeRepayment
  <2>4. CASE WriteProposed(r)
    BY <2>1, <2>4, WriteRecords DEF Owed!Next, WriteProposed
  <2>5. CASE AbortPay(r)
    BY <2>1, <2>5, AbortWithdraws DEF Owed!Next, AbortPay
  <2>. QED
    BY <1>2, <2>2, <2>3, <2>4, <2>5, PayStutters DEF PayStep
<1>3. ASSUME \/ \E l \in Applications : \/ StartApply(l) \/ AbortApply(l)
                                        \/ ApplyStep(l) /\ ~WriteDisbursed(l)
             \/ \E p \in Proposals : BmoniStep(p) \/ Decline(p)
             \/ UNCHANGED vars
      PROVE  UNCHANGED <<repayment, Accepted, Asked>>
  BY <1>3, OthersStutter
<1>. QED
  BY <1>1, <1>2, <1>3 DEF Next

(* Loans implements Obligation: a repayment falls due once, with its       *)
(* disbursement, is asked for by a request that found it DUE, and is       *)
(* PROPOSED only under a request whose proposal exists (loans.service.ts,  *)
(* disburse and payRepayment).                                             *)
THEOREM RepaymentsObliged == Spec => RepaymentsAreObligations
<1>1. Spec => []Books
  <2>1. Inv /\ Books /\ [Next]_vars => Books'
    BY BooksStep
  <2>. QED
    BY <2>1, InitBooks, Invariance, PTL DEF Spec
<1>2. Inv /\ Books /\ [Next]_vars => [Owed!Next]_(Owed!obligationVars)
  BY StepObliged DEF Owed!obligationVars
<1>. QED
  BY <1>1, <1>2, InitObliged, Invariance, PTL DEF Spec, RepaymentsAreObligations, Owed!Spec

----------------------------------------------------------------------------
(* Loans implements Release. *)

Answering == {"store", "update"}

LEMMA InitReleases == Init => Treasury!Init
<1>. SUFFICES ASSUME Init PROVE Treasury!Init
  OBVIOUS
<1>1. CauseOf = [l \in Applications |-> [status |-> "none", by |-> None]]
  <2>1. \A l \in Applications : loan[l].status = "none" /\ loan[l].prop = None
    BY DEF Init
  <2>2. \A l \in Applications : Cause(loan[l]) = [status |-> "none", by |-> None]
    BY <2>1 DEF Cause
  <2>. QED
    BY <2>2 DEF CauseOf
<1>2. PaymentOf = [l \in Applications |-> [status |-> "none", for |-> None]]
  BY LoansAssumption DEF Init, InitProposals, PaymentOf, Standing
<1>3. Admitted = {} /\ Filed = {} /\ Answered = {}
  BY LoansAssumption DEF Init, InitProposals, Admitted, Filed, Answered
<1>. QED
  BY <1>1, <1>2, <1>3 DEF Treasury!Init

(* The disbursement that moves, the others standing still. *)
Alone(l) ==
    \A k \in Applications \ {l} :
        apply'[k] = apply[k] /\ stage'[k] = stage[k] /\ mirror'[k] = mirror[k]

LEMMA HandlerMoves ==
    ASSUME NEW l \in Applications, Alone(l)
    PROVE  /\ apply'[l].pc = "propose" => Admitted' = Admitted \union {<<l, l>>}
           /\ apply'[l].pc # "propose" => Admitted' = Admitted \ {<<l, l>>}
           /\ (apply'[l].pc = "propose" <=> apply[l].pc = "propose") => UNCHANGED Admitted
           /\ apply'[l].pc \in Answering => Answered' = Answered \union {l}
           /\ apply'[l].pc \notin Answering => Answered' = Answered \ {l}
           /\ (apply'[l].pc \in Answering <=> apply[l].pc \in Answering) => UNCHANGED Answered
BY DEF Alone, Admitted, Answered, Answering

LEMMA PaymentMoves ==
    ASSUME NEW l \in Applications, Alone(l)
    PROVE  /\ PaymentOf' = [PaymentOf EXCEPT ![l] =
                 [status |-> Standing(stage'[l]),
                  for    |-> IF stage'[l] = "absent" THEN None ELSE l]]
           /\ stage'[l] = stage[l] => UNCHANGED PaymentOf
           /\ mirror'[l] # "none" => Filed' = Filed \union {l}
           /\ (mirror'[l] # "none" <=> mirror[l] # "none") => UNCHANGED Filed
BY DEF Alone, PaymentOf, Filed

LEMMA WentAlone ==
    ASSUME Inv, NEW l \in Applications, NEW pc \in ApplyPC, Goto(l, pc),
           \A k \in Applications \ {l} : stage'[k] = stage[k] /\ mirror'[k] = mirror[k]
    PROVE  Alone(l) /\ apply'[l].pc = pc
BY TypedRows DEF Inv, Goto, ApplyCall, Alone

(* The loan whose row is written, as a cause. *)
LEMMA RowWritten ==
    ASSUME Inv, NEW l \in Applications, NEW row \in LoanRow, loan' = [loan EXCEPT ![l] = row]
    PROVE  CauseOf' = [CauseOf EXCEPT ![l] = Cause(row)]
BY TypedRows DEF Inv, CauseOf

LEMMA VerdictReleases ==
    ASSUME Inv, NEW l \in Applications, RecordVerdict(l)
    PROVE  Treasury!OpenFor(l, l) \/ UNCHANGED Treasury!releaseVars
<1>1. /\ apply[l].pc = "score" /\ stage[l] = "absent" /\ loan[l].status = "none"
      /\ loan[l] \in LoanRow /\ UNCHANGED <<stage, mirror>>
  BY TypedRows DEF RecordVerdict, Inv, LoanInv
<1>2. CauseOf[l] = [status |-> "none", by |-> loan[l].prop]
  BY <1>1 DEF CauseOf, Cause
<1>3. CASE loan' = [loan EXCEPT ![l].status = "APPROVED"] /\ Goto(l, "propose")
  <2>. DEFINE row == [loan[l] EXCEPT !.status = "APPROVED"]
  <2>1. row \in LoanRow /\ row.status = "APPROVED" /\ row.prop = loan[l].prop
    BY <1>1 DEF LoanRow
  <2>2. CauseOf' = [CauseOf EXCEPT ![l] = Cause(row)]
    BY <1>3, <2>1, RowWritten
  <2>3. CauseOf' = [CauseOf EXCEPT ![l].status = "open"]
    <3>1. [CauseOf[l] EXCEPT !.status = "open"] = Cause(row)
      BY <1>2, <2>1 DEF Cause
    <3>. QED
      BY <2>2, <3>1
  <2>4. Alone(l) /\ apply'[l].pc = "propose"
    BY <1>1, <1>3, WentAlone DEF ApplyPC
  <2>5. Admitted' = Admitted \union {<<l, l>>} /\ UNCHANGED <<Answered, PaymentOf, Filed>>
    BY <1>1, <2>4, HandlerMoves, PaymentMoves DEF Answering
  <2>6. Treasury!Free(l)
    BY <1>1 DEF Treasury!Free, PaymentOf, Standing, Admitted
  <2>. QED
    BY <1>2, <2>3, <2>5, <2>6 DEF Treasury!OpenFor
<1>4. CASE loan' = [loan EXCEPT ![l].status = "REJECTED"] /\ Goto(l, "done")
  <2>. DEFINE row == [loan[l] EXCEPT !.status = "REJECTED"]
  <2>1. row \in LoanRow /\ row.status = "REJECTED" /\ row.prop = loan[l].prop
    BY <1>1 DEF LoanRow
  <2>2. CauseOf' = [CauseOf EXCEPT ![l] = Cause(row)]
    BY <1>4, <2>1, RowWritten
  <2>3. Cause(row) = CauseOf[l]
    BY <1>2, <2>1 DEF Cause
  <2>4. UNCHANGED CauseOf
    BY <2>2, <2>3 DEF CauseOf
  <2>5. Alone(l) /\ apply'[l].pc = "done"
    BY <1>1, <1>4, WentAlone DEF ApplyPC
  <2>6. UNCHANGED <<Admitted, Answered, PaymentOf, Filed>>
    BY <1>1, <2>5, HandlerMoves, PaymentMoves DEF Answering
  <2>. QED
    BY <2>4, <2>6 DEF Treasury!releaseVars
<1>. QED
  BY <1>3, <1>4 DEF RecordVerdict

LEMMA ProposeReleases ==
    ASSUME Inv, NEW l \in Applications, ProposeDisbursement(l)
    PROVE  Treasury!Make(l, l)
<1>1. /\ apply[l].pc = "propose" /\ UNCHANGED <<mirror, loan>>
      /\ CreateProposal(l) /\ \E then \in {"persist", "failed"} : Goto(l, then)
  BY DEF ProposeDisbursement
<1>2. stage'[l] = "preparing" /\ \A k \in Applications \ {l} : stage'[k] = stage[k]
  BY <1>1, LoansAssumption DEF CreateProposal, Inv, TypeOK, TypeOKProposals
<1>3. Alone(l) /\ apply'[l].pc \in {"persist", "failed"}
  BY <1>1, <1>2, WentAlone DEF ApplyPC
<1>4. <<l, l>> \in Admitted
  BY <1>1 DEF Admitted
<1>5. Admitted' = Admitted \ {<<l, l>>} /\ UNCHANGED <<Answered, Filed>>
  BY <1>1, <1>3, HandlerMoves, PaymentMoves DEF Answering
<1>6. PaymentOf' = [PaymentOf EXCEPT ![l] = [status |-> "made", for |-> l]]
  BY <1>2, <1>3, PaymentMoves DEF Standing
<1>7. UNCHANGED CauseOf
  BY <1>1 DEF CauseOf
<1>. QED
  BY <1>4, <1>5, <1>6, <1>7 DEF Treasury!Make

LEMMA PersistReleases ==
    ASSUME Inv, NEW l \in Applications, PersistDisbursement(l)
    PROVE  Treasury!File(l)
<1>1. /\ apply[l].pc = "persist" /\ stage[l] # "absent" /\ UNCHANGED <<stage, loan>>
  BY DEF PersistDisbursement, Inv, LoanInv
<1>2. mirror'[l] # "none" /\ \A k \in Applications \ {l} : mirror'[k] = mirror[k]
  BY LoansAssumption DEF PersistDisbursement, PersistProposal, Inv, TypeOK, TypeOKProposals
<1>3. Alone(l) /\ apply'[l].pc = "poll"
  BY <1>1, <1>2, WentAlone DEF PersistDisbursement, ApplyPC
<1>4. UNCHANGED <<Admitted, Answered, PaymentOf>> /\ Filed' = Filed \union {l}
  BY <1>1, <1>2, <1>3, HandlerMoves, PaymentMoves DEF Answering
<1>5. PaymentOf[l].status # "none"
  BY <1>1, LoansAssumption DEF PaymentOf, Standing, Inv, TypeOK, TypeOKProposals, Stages
<1>. QED
  BY <1>1, <1>4, <1>5 DEF Treasury!File, CauseOf

LEMMA PollReleases ==
    ASSUME Inv, NEW l \in Applications, PollSignPayload(l)
    PROVE  UNCHANGED Treasury!releaseVars
<1>1. apply[l].pc = "poll" /\ UNCHANGED <<stage, mirror, loan>>
  BY DEF PollSignPayload
<1>2. /\ apply'[l].pc \in {"poll", "sign", "failed"}
      /\ \A k \in Applications \ {l} : apply'[k] = apply[k]
  BY <1>1, TypedRows DEF PollSignPayload, Goto, Inv, ApplyCall
<1>3. Alone(l)
  BY <1>1, <1>2 DEF Alone
<1>4. UNCHANGED <<Admitted, Answered, PaymentOf, Filed>>
  BY <1>1, <1>2, <1>3, HandlerMoves, PaymentMoves DEF Answering
<1>. QED
  BY <1>1, <1>4 DEF Treasury!releaseVars, CauseOf

LEMMA SignReleases ==
    ASSUME Inv, NEW l \in Applications, SignDisbursement(l)
    PROVE  Treasury!Sign(l) \/ UNCHANGED Treasury!releaseVars
<1>1. /\ apply[l].pc = "sign" /\ stage[l] # "absent" /\ mirror[l] # "none"
      /\ UNCHANGED <<mirror, loan>>
  BY DEF SignDisbursement, Inv, LoanInv
<1>2. UNCHANGED CauseOf
  BY <1>1 DEF CauseOf
<1>3. CASE UNCHANGED stage /\ Goto(l, "failed")
  <2>1. Alone(l) /\ apply'[l].pc = "failed"
    BY <1>1, <1>3, WentAlone DEF ApplyPC
  <2>2. UNCHANGED <<Admitted, Answered, PaymentOf, Filed>>
    BY <1>1, <1>3, <2>1, HandlerMoves, PaymentMoves DEF Answering
  <2>. QED
    BY <1>2, <2>2 DEF Treasury!releaseVars
<1>4. CASE SignProposal(l) /\ \E then \in {"store", "update", "failed"} : Goto(l, then)
  <2>1. /\ stage[l] = "ready" /\ stage'[l] = "signed"
        /\ \A k \in Applications \ {l} : stage'[k] = stage[k]
    BY <1>4, LoansAssumption DEF SignProposal, Inv, TypeOK, TypeOKProposals
  <2>2. Alone(l) /\ apply'[l].pc \in {"store", "update", "failed"}
    BY <1>1, <1>4, <2>1, WentAlone DEF ApplyPC
  <2>3. UNCHANGED <<Admitted, Filed>> /\ l \in Filed
    BY <1>1, <2>2, HandlerMoves, PaymentMoves DEF Filed
  <2>4. Answered' \in {Answered, Answered \union {l}}
    BY <1>1, <2>2, HandlerMoves DEF Answering
  <2>5. PaymentOf[l] = [status |-> "made", for |-> l]
    BY <2>1 DEF PaymentOf, Standing
  <2>6. PaymentOf' = [PaymentOf EXCEPT ![l] = [status |-> "sent", for |-> l]]
    BY <2>1, <2>2, PaymentMoves DEF Standing
  <2>7. PaymentOf' = [PaymentOf EXCEPT ![l].status = "sent"]
    <3>1. [PaymentOf[l] EXCEPT !.status = "sent"] = [status |-> "sent", for |-> l]
      BY <2>5
    <3>. QED
      BY <2>6, <3>1
  <2>. QED
    BY <1>2, <2>3, <2>4, <2>5, <2>7 DEF Treasury!Sign
<1>. QED
  BY <1>3, <1>4 DEF SignDisbursement

LEMMA SignatureReleases ==
    ASSUME Inv, NEW l \in Applications, PersistSignature(l)
    PROVE  UNCHANGED Treasury!releaseVars
<1>1. apply[l].pc = "store" /\ mirror[l] # "none" /\ UNCHANGED <<stage, loan>>
  BY DEF PersistSignature, Inv, LoanInv
<1>2. mirror'[l] # "none" /\ \A k \in Applications \ {l} : mirror'[k] = mirror[k]
  BY LoansAssumption DEF PersistSignature, PersistProposal, Inv, TypeOK, TypeOKProposals
<1>3. Alone(l) /\ apply'[l].pc = "update"
  BY <1>1, <1>2, WentAlone DEF PersistSignature, ApplyPC
<1>4. UNCHANGED <<Admitted, Answered, PaymentOf, Filed>>
  BY <1>1, <1>2, <1>3, HandlerMoves, PaymentMoves DEF Answering
<1>. QED
  BY <1>1, <1>4 DEF Treasury!releaseVars, CauseOf

LEMMA WriteReleases ==
    ASSUME Inv, NEW l \in Applications, WriteDisbursed(l)
    PROVE  Treasury!Record(l, l)
<1>. DEFINE row == [status |-> "DISBURSED", prop |-> l]
<1>1. /\ apply[l].pc = "update" /\ stage[l] \in Signed
      /\ loan' = [loan EXCEPT ![l] = row]
      /\ UNCHANGED <<stage, mirror>> /\ Goto(l, "done")
  BY DEF WriteDisbursed, Inv, LoanInv
<1>2. row \in LoanRow
  BY DEF LoanRow
<1>3. CauseOf' = [CauseOf EXCEPT ![l] = Cause(row)]
  BY <1>1, <1>2, RowWritten
<1>4. Cause(row) = [status |-> "closed", by |-> l]
  BY DEF Cause
<1>5. l \in Answered /\ PaymentOf[l].for = l
  BY <1>1 DEF Answered, PaymentOf, Signed
<1>6. Alone(l) /\ apply'[l].pc = "done"
  BY <1>1, WentAlone DEF ApplyPC
<1>7. UNCHANGED <<Admitted, PaymentOf, Filed>> /\ Answered' = Answered \ {l}
  BY <1>1, <1>6, HandlerMoves, PaymentMoves DEF Answering
<1>. QED
  BY <1>3, <1>4, <1>5, <1>7 DEF Treasury!Record

LEMMA StartReleases ==
    ASSUME Inv, NEW l \in Applications, StartApply(l)
    PROVE  UNCHANGED Treasury!releaseVars
<1>1. apply[l].pc = "idle" /\ UNCHANGED <<stage, mirror, loan>>
  BY DEF StartApply
<1>2. Alone(l) /\ apply'[l].pc = "score"
  BY <1>1, WentAlone DEF StartApply, ApplyPC
<1>3. UNCHANGED <<Admitted, Answered, PaymentOf, Filed>>
  BY <1>1, <1>2, HandlerMoves, PaymentMoves DEF Answering
<1>. QED
  BY <1>1, <1>3 DEF Treasury!releaseVars, CauseOf

LEMMA AbortReleases ==
    ASSUME Inv, NEW l \in Applications, AbortApply(l)
    PROVE  Treasury!Forget(l) \/ Treasury!Withdraw(l, l)
<1>1. UNCHANGED <<stage, mirror, loan>>
  BY DEF AbortApply
<1>2. Alone(l) /\ apply'[l].pc = "failed"
  BY <1>1, WentAlone DEF AbortApply, ApplyPC
<1>3. UNCHANGED <<PaymentOf, Filed>> /\ UNCHANGED CauseOf
  BY <1>1, <1>2, PaymentMoves DEF CauseOf
<1>4. /\ Admitted' = Admitted \ {<<l, l>>}
      /\ Answered' = Answered \ {l}
  BY <1>2, HandlerMoves DEF Answering
<1>5. UNCHANGED Admitted \/ UNCHANGED Answered
  BY <1>2, HandlerMoves DEF Answering
<1>. QED
  BY <1>3, <1>4, <1>5 DEF Treasury!Forget, Treasury!Withdraw

(* What a repayment does, or BMONI on its own, moves no disbursement. *)
LEMMA OutsideReleases ==
    ASSUME Inv, UNCHANGED <<loan, apply>>,
           \A k \in Applications : /\ Standing(stage'[k]) = Standing(stage[k])
                                   /\ stage'[k] = "absent" <=> stage[k] = "absent"
                                   /\ mirror'[k] = mirror[k]
    PROVE  UNCHANGED Treasury!releaseVars
BY DEF Treasury!releaseVars, CauseOf, Admitted, PaymentOf, Filed, Answered

LEMMA PayReleases ==
    ASSUME Inv, NEW r \in Pays, PayStep(r) \/ \E l \in Applications : StartPay(r, l)
    PROVE  UNCHANGED Treasury!releaseVars
<1>1. r \notin Applications /\ r \in Proposals /\ Applications \subseteq Proposals
  BY LoansAssumption
<1>2. UNCHANGED <<loan, apply>>
  BY DEF PayStep, StartPay, ReadRepayment, ProposeRepayment, PersistRepayment, WriteProposed,
         AbortPay, SignRepayment
<1>3. \A k \in Applications : stage'[k] = stage[k] /\ mirror'[k] = mirror[k]
  BY <1>1 DEF PayStep, StartPay, ReadRepayment, ProposeRepayment, PersistRepayment,
              WriteProposed, AbortPay, SignRepayment, CreateProposal, SignProposal,
              PersistProposal, Inv, TypeOK, TypeOKProposals
<1>. QED
  BY <1>2, <1>3, OutsideReleases

LEMMA BmoniReleases ==
    ASSUME Inv, NEW p \in Proposals, BmoniStep(p), ~ Expire(p)
    PROVE  UNCHANGED Treasury!releaseVars
<1>1. UNCHANGED <<mirror, loan, apply>>
  BY DEF BmoniStep, BmoniMoves, PreparePayload, Execute
<1>2. \A k \in Applications : /\ Standing(stage'[k]) = Standing(stage[k])
                              /\ stage'[k] = "absent" <=> stage[k] = "absent"
  BY LoansAssumption DEF BmoniStep, BmoniMoves, PreparePayload, Execute, Standing,
     Inv, TypeOK, TypeOKProposals
<1>. QED
  BY <1>1, <1>2, OutsideReleases

LEMMA DeclineReleases ==
    ASSUME Inv, NEW p \in Proposals, Decline(p) \/ (BmoniStep(p) /\ Expire(p))
    PROVE  (p \in Applications /\ Treasury!Decline(p)) \/ UNCHANGED Treasury!releaseVars
<1>1. /\ UNCHANGED <<loan, apply>>
      /\ stage[p] \in {"preparing", "ready", "signed"} /\ stage'[p] \in {"rejected", "expired"}
      /\ \A q \in Proposals \ {p} : stage'[q] = stage[q] /\ mirror'[q] = mirror[q]
      /\ mirror'[p] = mirror[p] \/ mirror'[p] # "none"
  BY DEF Decline, RejectProposal, PersistProposal, BmoniStep, Expire, Inv, TypeOK,
     TypeOKProposals
<1>2. CASE p \notin Applications
  BY <1>1, <1>2, LoansAssumption, OutsideReleases
<1>3. CASE p \in Applications
  <2>1. Alone(p)
    BY <1>1, LoansAssumption DEF Alone
  <2>2. UNCHANGED <<Admitted, Answered>> /\ Filed' \in {Filed, Filed \union {p}}
    BY <1>1, <1>3, <2>1, HandlerMoves, PaymentMoves
  <2>3. /\ PaymentOf[p].status \in {"made", "sent"}
        /\ PaymentOf[p] = [status |-> PaymentOf[p].status, for |-> p]
    BY <1>1, <1>3 DEF PaymentOf, Standing
  <2>4. PaymentOf' = [PaymentOf EXCEPT ![p] = [status |-> "declined", for |-> p]]
    BY <1>1, <1>3, <2>1, PaymentMoves DEF Standing
  <2>5. PaymentOf' = [PaymentOf EXCEPT ![p].status = "declined"]
    <3>1. [PaymentOf[p] EXCEPT !.status = "declined"] = [status |-> "declined", for |-> p]
      BY <2>3
    <3>. QED
      BY <2>4, <3>1
  <2>. QED
    BY <1>1, <1>3, <2>2, <2>3, <2>5 DEF Treasury!Decline, CauseOf
<1>. QED
  BY <1>2, <1>3

LEMMA StepReleases ==
    ASSUME Inv, [Next]_vars
    PROVE  Treasury!Next \/ UNCHANGED Treasury!releaseVars
<1>1. ASSUME NEW l \in Applications, StartApply(l) \/ ApplyStep(l) \/ AbortApply(l)
      PROVE  Treasury!Next \/ UNCHANGED Treasury!releaseVars
  BY <1>1, VerdictReleases, ProposeReleases, PersistReleases, PollReleases, SignReleases,
     SignatureReleases, WriteReleases, StartReleases, AbortReleases
     DEF ApplyStep, Treasury!Next
<1>2. ASSUME NEW r \in Pays, PayStep(r) \/ \E l \in Applications : StartPay(r, l)
      PROVE  Treasury!Next \/ UNCHANGED Treasury!releaseVars
  BY <1>2, PayReleases
<1>3. ASSUME NEW p \in Proposals, BmoniStep(p) \/ Decline(p)
      PROVE  Treasury!Next \/ UNCHANGED Treasury!releaseVars
  BY <1>3, BmoniReleases, DeclineReleases DEF Treasury!Next
<1>4. CASE UNCHANGED vars
  BY <1>4 DEF vars, Treasury!releaseVars, CauseOf, Admitted, PaymentOf, Filed, Answered
<1>. QED
  BY <1>1, <1>2, <1>3, <1>4 DEF Next

(* Loans implements Release: only the request that approved a loan pays it *)
(* out, the treasury signs only what PayFlex has a row of, and the loan is *)
(* DISBURSED only by a payment that was signed for it (loans.service.ts,   *)
(* apply and disburse; transfer.service.ts, createTransfer and             *)
(* submitSignature).                                                       *)
THEOREM DisbursementsReleased == Spec => DisbursementsAreReleases
<1>1. Inv /\ [Next]_vars => [Treasury!Next]_(Treasury!releaseVars)
  BY StepReleases
<1>. QED
  BY <1>1, InitReleases, Invariance, PTL DEF Spec, DisbursementsAreReleases, Treasury!Spec

----------------------------------------------------------------------------
(* Scoring: what the strategy grants, for every set of applicants. *)

LEMMA DivBounds ==
    ASSUME NEW x \in Nat
    PROVE  x \div 3 \in Nat /\ x \div 100 \in Nat /\ x \div 10000 \in Nat
BY SMT

LEMMA DivMonotone ==
    ASSUME NEW x \in Nat, NEW y \in Nat, x <= y
    PROVE  x \div 3 <= y \div 3 /\ x \div 100 <= y \div 100 /\ x \div 10000 <= y \div 10000
BY SMT

LEMMA OneCentOnePoint ==
    ASSUME NEW x \in Nat, NEW y \in Nat, x <= y + 1
    PROVE  x \div 10000 <= (y \div 10000) + 1
BY SMT

LEMMA TimesMonotone ==
    ASSUME NEW x \in Nat, NEW y \in Nat, NEW m \in Nat, NEW n \in Nat, x <= y, m <= n
    PROVE  x * m <= y * n /\ x * m \in Nat /\ y * n \in Nat
<1>1. x * m <= y * m
  BY SMT
<1>2. y * m <= y * n
  BY SMT
<1>. QED
  BY <1>1, <1>2, SMT

LEMMA CountedTyped ==
    ASSUME NEW a \in Inputs
    PROVE  Counted(a) \in Nat
BY DEF Inputs, Counted

LEMMA ScoreTyped ==
    ASSUME NEW a \in Inputs
    PROVE  Score(a) \in 0 .. 100
<1>1. AgeScore(a) \in Nat /\ TxScore(a) \in Nat
  BY DivBounds DEF Inputs, AgeScore, TxScore, AtMost
<1>2. InflowScore(a) \in Nat
  BY CountedTyped, DivBounds DEF InflowScore, AtMost
<1>. QED
  BY <1>1, <1>2 DEF Score, AtMost

LEMMA ScoreMonotone ==
    ASSUME NEW a \in Inputs, NEW b \in Inputs, AtLeast(b, a)
    PROVE  /\ Score(a) - 1 <= Score(b)
           /\ Counted(a) <= Counted(b) => Score(a) <= Score(b)
<1>1. AgeScore(a) <= AgeScore(b) /\ AgeScore(a) \in Nat /\ AgeScore(b) \in Nat
  BY DivBounds, DivMonotone DEF Inputs, AgeScore, AtMost, AtLeast
<1>2. TxScore(a) <= TxScore(b) /\ TxScore(a) \in Nat /\ TxScore(b) \in Nat
  BY DEF Inputs, TxScore, AtMost, AtLeast
<1>3. Counted(a) \in Nat /\ Counted(b) \in Nat /\ Counted(a) <= Counted(b) + 1
  BY CountedTyped DEF Inputs, Counted, AtLeast
<1>4. InflowScore(a) \in Nat /\ InflowScore(b) \in Nat
  BY <1>3, DivBounds DEF InflowScore, AtMost
<1>5. Counted(a) <= Counted(b) => InflowScore(a) <= InflowScore(b)
  BY <1>3, DivBounds, DivMonotone DEF InflowScore, AtMost
<1>6. InflowScore(a) <= InflowScore(b) + 1
  <2>1. Counted(a) \div 10000 <= (Counted(b) \div 10000) + 1
    BY <1>3, OneCentOnePoint
  <2>2. Counted(a) \div 10000 \in Nat /\ Counted(b) \div 10000 \in Nat
    BY <1>3, DivBounds
  <2>. QED
    BY <2>1, <2>2 DEF InflowScore, AtMost
<1>. QED
  BY <1>1, <1>2, <1>4, <1>5, <1>6 DEF Score, AtMost

(* The share of a request that a score earns, before the one unit more. *)
LEMMA ShareMonotone ==
    ASSUME NEW r \in Nat, NEW q \in Nat, NEW m \in Nat, NEW n \in Nat, r <= q, m <= n
    PROVE  /\ (r * m + 50) \div 100 <= (q * n + 50) \div 100
           /\ (r * m + 50) \div 100 \in Nat
           /\ (q * n + 50) \div 100 \in Nat
<1>1. r * m <= q * n /\ r * m \in Nat /\ q * n \in Nat
  BY TimesMonotone
<1>2. /\ r * m + 50 \in Nat
      /\ q * n + 50 \in Nat
      /\ r * m + 50 <= q * n + 50
  BY <1>1
<1>. QED
  BY <1>2, DivBounds, DivMonotone

LEMMA GrantBounds ==
    ASSUME NEW r \in Nat, NEW n \in Nat
    PROVE  /\ Grant(r, n) \in 0 .. r
           /\ n >= ApprovalThreshold /\ r > 0 => Grant(r, n) > 0
<1>. DEFINE share == (r * n + 50) \div 100
<1>1. share \in Nat
  BY ShareMonotone
<1>2. Grant(r, n) = IF n >= ApprovalThreshold THEN AtMost(r, share + 100) ELSE 0
  BY DEF Grant
<1>. HIDE DEF share
<1>. QED
  BY <1>1, <1>2 DEF AtMost, ApprovalThreshold

LEMMA GrantMonotone ==
    ASSUME NEW r \in Nat, NEW q \in Nat, r <= q,
           NEW m \in Nat \union {-1}, NEW n \in Nat, m <= n
    PROVE  Grant(r, m) <= Grant(q, n)
<1>1. CASE m = -1
  <2>1. Grant(r, m) = 0
    BY <1>1 DEF Grant, ApprovalThreshold
  <2>. QED
    BY <2>1, GrantBounds
<1>2. CASE m \in Nat
  <2>. DEFINE less == (r * m + 50) \div 100
              more == (q * n + 50) \div 100
  <2>1. less \in Nat /\ more \in Nat /\ less <= more
    BY <1>2, ShareMonotone
  <2>2. /\ Grant(r, m) = IF m >= ApprovalThreshold THEN AtMost(r, less + 100) ELSE 0
        /\ Grant(q, n) = IF n >= ApprovalThreshold THEN AtMost(q, more + 100) ELSE 0
    BY DEF Grant
  <2>. HIDE DEF less, more
  <2>. QED
    BY <1>2, <2>1, <2>2 DEF AtMost, ApprovalThreshold
<1>. QED
  BY <1>1, <1>2

(* Whatever histories and requests are scored: nobody is granted more than *)
(* was asked for, an approval grants something, and who has a better       *)
(* history and asks for more is granted as much, but for the one point     *)
(* that a sum of doubles can lose (simple-credit-scoring.strategy.ts).     *)
THEOREM FairVerdicts == Spec => []VerdictIsFair
<1>1. ASSUME NEW a \in Applicants
      PROVE  /\ a \in Inputs /\ a.requested \in Nat /\ Score(a) \in Nat
             /\ Score(a) - 1 \in Nat \union {-1}
  <2>1. a \in Inputs
    BY <1>1, ApplicantsAssumption
  <2>2. Score(a) \in Nat
    BY <2>1, ScoreTyped
  <2>. QED
    BY <2>1, <2>2 DEF Inputs
<1>2. ASSUME NEW a \in Applicants
      PROVE  /\ ApprovedAmount(a) <= a.requested
             /\ Approved(a) /\ a.requested > 0 => ApprovedAmount(a) > 0
  BY <1>1, GrantBounds DEF ApprovedAmount, Approved
<1>3. ASSUME NEW a \in Applicants, NEW b \in Applicants, AtLeast(b, a)
      PROVE  /\ Grant(a.requested, Score(a) - 1) <= ApprovedAmount(b)
             /\ Counted(a) <= Counted(b) => /\ Approved(a) => Approved(b)
                                           /\ ApprovedAmount(a) <= ApprovedAmount(b)
  <2>1. /\ Score(a) - 1 <= Score(b)
        /\ Counted(a) <= Counted(b) => Score(a) <= Score(b)
    BY <1>1, <1>3, ScoreMonotone
  <2>2. a.requested <= b.requested
    BY <1>1, <1>3 DEF AtLeast
  <2>3. Grant(a.requested, Score(a) - 1) <= ApprovedAmount(b)
    BY <1>1, <2>1, <2>2, GrantMonotone DEF ApprovedAmount
  <2>4. ASSUME Counted(a) <= Counted(b)
        PROVE  /\ Approved(a) => Approved(b)
               /\ ApprovedAmount(a) <= ApprovedAmount(b)
    BY <1>1, <2>1, <2>2, <2>4, GrantMonotone
       DEF ApprovedAmount, Approved, ApprovalThreshold
  <2>. QED
    BY <2>3, <2>4
<1>4. VerdictIsFair
  BY <1>2, <1>3 DEF VerdictIsFair
<1>. QED
  BY <1>4, PTL

=============================================================================
