------------------------ MODULE TransferServiceProofs ------------------------
(***************************************************************************)
(* Proofs about TransferService, for any number of proposals and requests. *)
(***************************************************************************)
EXTENDS TransferService, TLAPS

(* A reply in a handler's hands is as old as a row would be, and both only *)
(* get older: BMONI's stages never turn back.                              *)
Inv ==
    /\ TypeOK
    /\ MirrorNeverAhead
    /\ \A p \in Proposals : create[p] = "persist" => stage[p] # "absent"
    /\ \A r \in Submits : submit[r].pc = "idle" => submit[r].got = "none"
    /\ \A r \in Submits :
          submit[r].pc \in {"call", "persist"} =>
              /\ submit[r].of \in Proposals
              /\ stage[submit[r].of] # "absent"
              /\ Behind(submit[r].got, stage[submit[r].of])

(* The moves BMONI can make. *)
Forward(s, t) ==
    \/ s = t
    \/ s = "absent"    /\ t = "preparing"
    \/ s = "preparing" /\ t \in {"ready", "rejected", "expired"}
    \/ s = "ready"     /\ t \in {"signed", "rejected", "expired"}
    \/ s = "signed"    /\ t \in {"executed", "rejected", "expired"}

(* What was reported of a proposal stays true of it. *)
LEMMA BehindForward ==
    ASSUME NEW row \in Rows, NEW s \in Stages, NEW t \in Stages,
           Behind(row, s), Forward(s, t)
    PROVE  Behind(row, t)
BY DEF Behind, Forward, Rows, Stages

SubmitCall == [pc : SubmitPC, kind : Kinds, of : Proposals \union {None}, got : Rows]

(* A request's record stays one when a handler writes the fields it writes. *)
LEMMA StartedCall ==
    ASSUME NEW x \in SubmitCall, NEW kind \in Kinds, NEW p \in Proposals
    PROVE  [x EXCEPT !.pc = "call", !.kind = kind, !.of = p] \in SubmitCall
BY DEF SubmitCall, SubmitPC

LEMMA AnsweredCall ==
    ASSUME NEW x \in SubmitCall, NEW report \in Rows
    PROVE  [x EXCEPT !.pc = "persist", !.got = report] \in SubmitCall
BY DEF SubmitCall, SubmitPC

LEMMA AnswerTyped ==
    ASSUME submit \in [Submits -> SubmitCall], NEW r \in Submits,
           NEW report \in Rows, Answer(r, report)
    PROVE  submit' \in [Submits -> SubmitCall]
<1>1. CASE submit' = [submit EXCEPT ![r].pc = "persist", ![r].got = report]
  <2>1. [submit[r] EXCEPT !.pc = "persist", !.got = report] \in SubmitCall
    BY AnsweredCall
  <2>. QED
    BY <1>1, <2>1
<1>2. ASSUME NEW end \in Ended, submit' = [submit EXCEPT ![r].pc = end]
      PROVE  submit' \in [Submits -> SubmitCall]
  BY <1>2 DEF SubmitCall, SubmitPC, Ended
<1>. QED
  BY <1>1, <1>2 DEF Answer

LEMMA InitInv == Init => Inv
BY SubmitsAssumption DEF Init, InitProposals, Inv, TypeOK, TypeOKProposals, Stages, Rows,
   CreatePC, SubmitPC, Kinds, MirrorNeverAhead, Behind

(* Each action, by what it may disturb: the type, the rows, the reply in   *)
(* each handler's hands.                                                   *)
LEMMA StartCreateInv ==
    ASSUME Inv, NEW p \in Proposals, StartCreate(p)
    PROVE  Inv'
<1>. USE DEF Inv, TypeOK, TypeOKProposals, Stages, Rows, CreatePC, SubmitPC, Kinds
<1>1. TypeOK'
  BY DEF StartCreate
<1>2. \A q \in Proposals : Forward(stage[q], stage'[q])
  BY DEF StartCreate, Forward
<1>3. MirrorNeverAhead'
  BY <1>1, <1>2, BehindForward DEF StartCreate, MirrorNeverAhead, Behind
<1>4. \A q \in Proposals : create'[q] = "persist" => stage'[q] # "absent"
  BY <1>1, <1>2 DEF StartCreate, Forward
<1>5. ASSUME NEW q \in Submits
      PROVE  /\ submit'[q].pc = "idle" => submit'[q].got = "none"
             /\ submit'[q].pc \in {"call", "persist"} =>
                  /\ submit'[q].of \in Proposals
                  /\ stage'[submit'[q].of] # "absent"
                  /\ Behind(submit'[q].got, stage'[submit'[q].of])
  BY <1>1, <1>2, BehindForward DEF StartCreate, Behind, Forward
<1>. QED
  BY <1>1, <1>3, <1>4, <1>5

LEMMA ProposeInv ==
    ASSUME Inv, NEW p \in Proposals, Propose(p)
    PROVE  Inv'
<1>. USE DEF Inv, TypeOK, TypeOKProposals, Stages, Rows, CreatePC, SubmitPC, Kinds
<1>1. TypeOK'
  BY DEF Propose, CreateProposal
<1>2. \A q \in Proposals : Forward(stage[q], stage'[q])
  BY DEF Propose, CreateProposal, Forward
<1>3. MirrorNeverAhead'
  BY <1>1, <1>2, BehindForward DEF Propose, CreateProposal, MirrorNeverAhead, Behind
<1>4. \A q \in Proposals : create'[q] = "persist" => stage'[q] # "absent"
  BY <1>1, <1>2 DEF Propose, CreateProposal, Forward
<1>5. ASSUME NEW q \in Submits
      PROVE  /\ submit'[q].pc = "idle" => submit'[q].got = "none"
             /\ submit'[q].pc \in {"call", "persist"} =>
                  /\ submit'[q].of \in Proposals
                  /\ stage'[submit'[q].of] # "absent"
                  /\ Behind(submit'[q].got, stage'[submit'[q].of])
  BY <1>1, <1>2, BehindForward DEF Propose, CreateProposal, Behind, Forward
<1>. QED
  BY <1>1, <1>3, <1>4, <1>5

LEMMA PersistCreatedInv ==
    ASSUME Inv, NEW p \in Proposals, PersistCreated(p)
    PROVE  Inv'
<1>. USE DEF Inv, TypeOK, TypeOKProposals, Stages, Rows, CreatePC, SubmitPC, Kinds
<1>1. TypeOK'
  BY DEF PersistCreated, PersistProposal
<1>2. \A q \in Proposals : Forward(stage[q], stage'[q])
  BY DEF PersistCreated, PersistProposal, Forward
<1>3. MirrorNeverAhead'
  BY <1>1, <1>2, BehindForward DEF PersistCreated, PersistProposal, MirrorNeverAhead, Behind
<1>4. \A q \in Proposals : create'[q] = "persist" => stage'[q] # "absent"
  BY <1>1, <1>2 DEF PersistCreated, PersistProposal, Forward
<1>5. ASSUME NEW q \in Submits
      PROVE  /\ submit'[q].pc = "idle" => submit'[q].got = "none"
             /\ submit'[q].pc \in {"call", "persist"} =>
                  /\ submit'[q].of \in Proposals
                  /\ stage'[submit'[q].of] # "absent"
                  /\ Behind(submit'[q].got, stage'[submit'[q].of])
  BY <1>1, <1>2, BehindForward DEF PersistCreated, PersistProposal, Behind, Forward
<1>. QED
  BY <1>1, <1>3, <1>4, <1>5

LEMMA AbortCreateInv ==
    ASSUME Inv, NEW p \in Proposals, AbortCreate(p)
    PROVE  Inv'
<1>. USE DEF Inv, TypeOK, TypeOKProposals, Stages, Rows, CreatePC, SubmitPC, Kinds
<1>1. TypeOK'
  BY DEF AbortCreate
<1>2. \A q \in Proposals : Forward(stage[q], stage'[q])
  BY DEF AbortCreate, Forward
<1>3. MirrorNeverAhead'
  BY <1>1, <1>2, BehindForward DEF AbortCreate, MirrorNeverAhead, Behind
<1>4. \A q \in Proposals : create'[q] = "persist" => stage'[q] # "absent"
  BY <1>1, <1>2 DEF AbortCreate, Forward
<1>5. ASSUME NEW q \in Submits
      PROVE  /\ submit'[q].pc = "idle" => submit'[q].got = "none"
             /\ submit'[q].pc \in {"call", "persist"} =>
                  /\ submit'[q].of \in Proposals
                  /\ stage'[submit'[q].of] # "absent"
                  /\ Behind(submit'[q].got, stage'[submit'[q].of])
  BY <1>1, <1>2, BehindForward DEF AbortCreate, Behind, Forward
<1>. QED
  BY <1>1, <1>3, <1>4, <1>5

LEMMA StartSubmitInv ==
    ASSUME Inv, NEW r \in Submits, NEW kind \in Kinds, NEW p \in Proposals, StartSubmit(r, kind, p)
    PROVE  Inv'
<1>. USE DEF Inv, TypeOK, TypeOKProposals, Stages, Rows, CreatePC, SubmitPC, Kinds
<1>1. TypeOK'
  <2>1. submit \in [Submits -> SubmitCall]
    BY DEF SubmitCall
  <2>2. [submit[r] EXCEPT !.pc = "call", !.kind = kind, !.of = p] \in SubmitCall
    BY <2>1, StartedCall
  <2>3. submit' \in [Submits -> SubmitCall]
    BY <2>1, <2>2 DEF StartSubmit
  <2>. QED
    BY <2>3 DEF StartSubmit, SubmitCall
<1>2. \A q \in Proposals : Forward(stage[q], stage'[q])
  BY DEF StartSubmit, Forward
<1>3. MirrorNeverAhead'
  BY <1>1, <1>2, BehindForward DEF StartSubmit, MirrorNeverAhead, Behind
<1>4. \A q \in Proposals : create'[q] = "persist" => stage'[q] # "absent"
  BY <1>1, <1>2 DEF StartSubmit, Forward
<1>5. ASSUME NEW q \in Submits
      PROVE  /\ submit'[q].pc = "idle" => submit'[q].got = "none"
             /\ submit'[q].pc \in {"call", "persist"} =>
                  /\ submit'[q].of \in Proposals
                  /\ stage'[submit'[q].of] # "absent"
                  /\ Behind(submit'[q].got, stage'[submit'[q].of])
  BY <1>1, <1>2, BehindForward DEF StartSubmit, Behind, Forward
<1>. QED
  BY <1>1, <1>3, <1>4, <1>5

LEMMA CallSignInv ==
    ASSUME Inv, NEW r \in Submits, CallSign(r)
    PROVE  Inv'
<1>. USE DEF Inv, TypeOK, TypeOKProposals, Stages, Rows, CreatePC, SubmitPC, Kinds
<1>1. TypeOK'
  <2>1. submit' \in [Submits -> SubmitCall]
    BY AnswerTyped DEF CallSign, SubmitCall
  <2>. QED
    BY <2>1 DEF CallSign, SignProposal, SubmitCall
<1>2. \A q \in Proposals : Forward(stage[q], stage'[q])
  BY DEF CallSign, SignProposal, Answer, Ended, Forward
<1>3. MirrorNeverAhead'
  BY <1>1, <1>2, BehindForward DEF CallSign, SignProposal, Answer, Ended, MirrorNeverAhead, Behind
<1>4. \A q \in Proposals : create'[q] = "persist" => stage'[q] # "absent"
  BY <1>1, <1>2 DEF CallSign, SignProposal, Answer, Ended, Forward
<1>5. ASSUME NEW q \in Submits
      PROVE  /\ submit'[q].pc = "idle" => submit'[q].got = "none"
             /\ submit'[q].pc \in {"call", "persist"} =>
                  /\ submit'[q].of \in Proposals
                  /\ stage'[submit'[q].of] # "absent"
                  /\ Behind(submit'[q].got, stage'[submit'[q].of])
  BY <1>1, <1>2, BehindForward DEF CallSign, SignProposal, Answer, Ended, Behind, Forward
<1>. QED
  BY <1>1, <1>3, <1>4, <1>5

LEMMA CallRejectInv ==
    ASSUME Inv, NEW r \in Submits, CallReject(r)
    PROVE  Inv'
<1>. USE DEF Inv, TypeOK, TypeOKProposals, Stages, Rows, CreatePC, SubmitPC, Kinds
<1>1. TypeOK'
  <2>1. submit' \in [Submits -> SubmitCall]
    BY AnswerTyped DEF CallReject, SubmitCall
  <2>. QED
    BY <2>1 DEF CallReject, RejectProposal, SubmitCall
<1>2. \A q \in Proposals : Forward(stage[q], stage'[q])
  BY DEF CallReject, RejectProposal, Answer, Ended, Forward
<1>3. MirrorNeverAhead'
  BY <1>1, <1>2, BehindForward DEF CallReject, RejectProposal, Answer, Ended, MirrorNeverAhead, Behind
<1>4. \A q \in Proposals : create'[q] = "persist" => stage'[q] # "absent"
  BY <1>1, <1>2 DEF CallReject, RejectProposal, Answer, Ended, Forward
<1>5. ASSUME NEW q \in Submits
      PROVE  /\ submit'[q].pc = "idle" => submit'[q].got = "none"
             /\ submit'[q].pc \in {"call", "persist"} =>
                  /\ submit'[q].of \in Proposals
                  /\ stage'[submit'[q].of] # "absent"
                  /\ Behind(submit'[q].got, stage'[submit'[q].of])
  BY <1>1, <1>2, BehindForward DEF CallReject, RejectProposal, Answer, Ended, Behind, Forward
<1>. QED
  BY <1>1, <1>3, <1>4, <1>5

LEMMA PersistSubmittedInv ==
    ASSUME Inv, NEW r \in Submits, PersistSubmitted(r)
    PROVE  Inv'
<1>. USE DEF Inv, TypeOK, TypeOKProposals, Stages, Rows, CreatePC, SubmitPC, Kinds
<1>1. TypeOK'
  BY DEF PersistSubmitted, PersistProposal
<1>2. \A q \in Proposals : Forward(stage[q], stage'[q])
  BY DEF PersistSubmitted, PersistProposal, Forward
<1>3. MirrorNeverAhead'
  BY <1>1, <1>2, BehindForward DEF PersistSubmitted, PersistProposal, MirrorNeverAhead, Behind
<1>4. \A q \in Proposals : create'[q] = "persist" => stage'[q] # "absent"
  BY <1>1, <1>2 DEF PersistSubmitted, PersistProposal, Forward
<1>5. ASSUME NEW q \in Submits
      PROVE  /\ submit'[q].pc = "idle" => submit'[q].got = "none"
             /\ submit'[q].pc \in {"call", "persist"} =>
                  /\ submit'[q].of \in Proposals
                  /\ stage'[submit'[q].of] # "absent"
                  /\ Behind(submit'[q].got, stage'[submit'[q].of])
  BY <1>1, <1>2, BehindForward DEF PersistSubmitted, PersistProposal, Behind, Forward
<1>. QED
  BY <1>1, <1>3, <1>4, <1>5

LEMMA AbortSubmitInv ==
    ASSUME Inv, NEW r \in Submits, AbortSubmit(r)
    PROVE  Inv'
<1>. USE DEF Inv, TypeOK, TypeOKProposals, Stages, Rows, CreatePC, SubmitPC, Kinds
<1>1. TypeOK'
  BY DEF AbortSubmit
<1>2. \A q \in Proposals : Forward(stage[q], stage'[q])
  BY DEF AbortSubmit, Forward
<1>3. MirrorNeverAhead'
  BY <1>1, <1>2, BehindForward DEF AbortSubmit, MirrorNeverAhead, Behind
<1>4. \A q \in Proposals : create'[q] = "persist" => stage'[q] # "absent"
  BY <1>1, <1>2 DEF AbortSubmit, Forward
<1>5. ASSUME NEW q \in Submits
      PROVE  /\ submit'[q].pc = "idle" => submit'[q].got = "none"
             /\ submit'[q].pc \in {"call", "persist"} =>
                  /\ submit'[q].of \in Proposals
                  /\ stage'[submit'[q].of] # "absent"
                  /\ Behind(submit'[q].got, stage'[submit'[q].of])
  BY <1>1, <1>2, BehindForward DEF AbortSubmit, Behind, Forward
<1>. QED
  BY <1>1, <1>3, <1>4, <1>5

LEMMA BmoniStepInv ==
    ASSUME Inv, NEW p \in Proposals, BmoniStep(p)
    PROVE  Inv'
<1>. USE DEF Inv, TypeOK, TypeOKProposals, Stages, Rows, CreatePC, SubmitPC, Kinds
<1>1. TypeOK'
  BY DEF BmoniStep, BmoniMoves, PreparePayload, Execute, Expire
<1>2. \A q \in Proposals : Forward(stage[q], stage'[q])
  BY DEF BmoniStep, BmoniMoves, PreparePayload, Execute, Expire, Forward
<1>3. MirrorNeverAhead'
  BY <1>1, <1>2, BehindForward DEF BmoniStep, BmoniMoves, PreparePayload, Execute, Expire, MirrorNeverAhead, Behind
<1>4. \A q \in Proposals : create'[q] = "persist" => stage'[q] # "absent"
  BY <1>1, <1>2 DEF BmoniStep, BmoniMoves, PreparePayload, Execute, Expire, Forward
<1>5. ASSUME NEW q \in Submits
      PROVE  /\ submit'[q].pc = "idle" => submit'[q].got = "none"
             /\ submit'[q].pc \in {"call", "persist"} =>
                  /\ submit'[q].of \in Proposals
                  /\ stage'[submit'[q].of] # "absent"
                  /\ Behind(submit'[q].got, stage'[submit'[q].of])
  BY <1>1, <1>2, BehindForward DEF BmoniStep, BmoniMoves, PreparePayload, Execute, Expire, Behind, Forward
<1>. QED
  BY <1>1, <1>3, <1>4, <1>5

LEMMA StepInv ==
    ASSUME Inv, [Next]_vars
    PROVE  Inv'
<1>1. ASSUME NEW p \in Proposals, CreateStep(p) \/ BmoniStep(p)
      PROVE  Inv'
  BY <1>1, StartCreateInv, ProposeInv, PersistCreatedInv, AbortCreateInv,
     BmoniStepInv DEF CreateStep, ServeCreate
<1>2. ASSUME NEW r \in Submits, SubmitStep(r)
      PROVE  Inv'
  BY <1>2, StartSubmitInv, CallSignInv, CallRejectInv, PersistSubmittedInv,
     AbortSubmitInv DEF SubmitStep, ServeSubmit
<1>3. CASE UNCHANGED vars
  BY <1>3 DEF vars, Inv, TypeOK, TypeOKProposals, MirrorNeverAhead
<1>. QED
  BY <1>1, <1>2, <1>3 DEF Next

(* The inductive invariant: what each handler holds is no newer than BMONI. *)
THEOREM Invariance == Spec => []Inv
<1>. QED
  BY InitInv, StepInv, PTL DEF Spec

(* PayFlex's table never runs ahead of BMONI, whatever requests overlap    *)
(* and whatever replies are lost (TransferService, lines 94-128).          *)
THEOREM NeverAhead == Spec => []MirrorNeverAhead
<1>1. Inv => MirrorNeverAhead
  BY DEF Inv
<1>. QED
  BY <1>1, Invariance, PTL

(* The state stays well typed for any number of requests. *)
THEOREM TypeCorrect == Spec => []TypeOK
<1>1. Inv => TypeOK
  BY DEF Inv
<1>. QED
  BY <1>1, Invariance, PTL

----------------------------------------------------------------------------
(* Requests for a proposal served one at a time. *)

(* A new proposal, which nobody else has acted on yet. *)
Fresh == {"preparing", "ready", "expired"}

(* The row of a proposal tells where it is, unless the one request that    *)
(* knows better is about to write it.                                      *)
SerialInv(p) ==
    /\ create[p] = "persist" => stage[p] \in Fresh
    /\ \A r \in Submits :
          submit[r].of = p /\ submit[r].pc = "call" => submit[r].got = "none"
    /\ \A r \in Submits :
          submit[r].of = p /\ submit[r].pc = "persist" => Tells(submit[r].got, stage[p])
    /\ create[p] = "done" =>
          \/ Tells(mirror[p], stage[p])
          \/ \E r \in Submits : submit[r].pc = "persist" /\ submit[r].of = p

LEMMA InitSerial ==
    ASSUME Init, NEW p \in Proposals
    PROVE  SerialInv(p)
BY SubmitsAssumption DEF Init, InitProposals, SerialInv

(* BMONI moves on its own: what was told of the proposal stays told. *)
LEMMA BmoniTells ==
    ASSUME NEW s \in Stages, NEW t \in Stages, NEW report \in Rows, Tells(report, s),
           \/ s = "preparing" /\ t = "ready"
           \/ s = "signed" /\ t = "executed"
           \/ s \in {"preparing", "ready", "signed"} /\ t = "expired"
    PROVE  Tells(report, t)
BY DEF Tells, Report, Stages, Rows

(* A step of the server that is not about proposal p leaves it as it is. *)
LEMMA ElsewhereSerial ==
    ASSUME Inv, NEW p \in Proposals, SerialInv(p),
           create'[p] = create[p], stage'[p] = stage[p], mirror'[p] = mirror[p],
           \A r \in Submits :
              (submit[r].of = p \/ submit'[r].of = p) => submit'[r] = submit[r]
    PROVE  SerialInv(p)'
<1>1. \A r \in Submits : submit'[r].of = p => submit[r].of = p /\ submit'[r] = submit[r]
  OBVIOUS
<1>2. \A r \in Submits : submit[r].of = p => submit'[r].of = p /\ submit'[r] = submit[r]
  OBVIOUS
<1>. QED
  BY <1>1, <1>2 DEF SerialInv, Tells

LEMMA CreateStepSerial ==
    ASSUME Inv, NEW p \in Proposals, SerialInv(p), OneAtATime(p),
           NEW o \in Proposals, CreateStep(o)
    PROVE  SerialInv(p)'
<1>. USE DEF Inv, TypeOK, TypeOKProposals
<1>1. submit' = submit
  BY DEF CreateStep, ServeCreate, StartCreate, Propose, PersistCreated, AbortCreate
<1>2. CASE o # p
  <2>1. create'[p] = create[p] /\ stage'[p] = stage[p] /\ mirror'[p] = mirror[p]
    BY <1>2 DEF CreateStep, ServeCreate, StartCreate, Propose, PersistCreated, AbortCreate,
       CreateProposal, PersistProposal
  <2>. QED
    BY <1>1, <2>1, ElsewhereSerial
<1>3. CASE o = p
  <2>1. create[p] # "done"
    BY <1>3 DEF CreateStep, ServeCreate, StartCreate, Propose, PersistCreated, AbortCreate
  <2>2. \A r \in Submits : submit'[r].of # p
    BY <1>1, <2>1 DEF OneAtATime
  <2>3. create'[p] = "persist" => stage'[p] \in Fresh
    BY <1>3 DEF CreateStep, ServeCreate, StartCreate, Propose, PersistCreated, AbortCreate,
       CreateProposal, Fresh
  <2>4. create'[p] = "done" => Tells(mirror'[p], stage'[p])
    BY <1>3 DEF CreateStep, ServeCreate, StartCreate, Propose, PersistCreated, AbortCreate,
       PersistProposal, Tells, Report, Fresh, SerialInv
  <2>. QED
    BY <2>2, <2>3, <2>4 DEF SerialInv, Tells
<1>. QED
  BY <1>2, <1>3

LEMMA BmoniStepSerial ==
    ASSUME Inv, NEW p \in Proposals, SerialInv(p), NEW o \in Proposals, BmoniStep(o)
    PROVE  SerialInv(p)'
<1>. USE DEF Inv, TypeOK, TypeOKProposals
<1>1. UNCHANGED <<mirror, create, submit>>
  BY DEF BmoniStep, BmoniMoves, PreparePayload, Execute, Expire
<1>2. CASE o # p
  <2>1. stage'[p] = stage[p]
    BY <1>2 DEF BmoniStep, BmoniMoves, PreparePayload, Execute, Expire
  <2>. QED
    BY <1>1, <2>1, ElsewhereSerial
<1>3. CASE o = p
  <2>1. \/ stage[p] = "preparing" /\ stage'[p] = "ready"
        \/ stage[p] = "signed" /\ stage'[p] = "executed"
        \/ stage[p] \in {"preparing", "ready", "signed"} /\ stage'[p] = "expired"
    BY <1>3 DEF BmoniStep, BmoniMoves, PreparePayload, Execute, Expire
  <2>2. stage[p] \in Stages /\ stage'[p] \in Stages
    BY <2>1 DEF Stages
  <2>3. \A report \in Rows : Tells(report, stage[p]) => Tells(report, stage'[p])
    BY <2>1, <2>2, BmoniTells
  <2>4. create[p] = "persist" => stage'[p] \in Fresh
    BY <2>1 DEF SerialInv, Fresh
  <2>5. mirror[p] \in Rows /\ \A r \in Submits : submit[r].got \in Rows
    OBVIOUS
  <2>6. \A r \in Submits :
           submit[r].of = p /\ submit[r].pc = "persist" => Tells(submit[r].got, stage'[p])
    BY <2>3, <2>5 DEF SerialInv
  <2>7. create[p] = "done" =>
          \/ Tells(mirror[p], stage'[p])
          \/ \E r \in Submits : submit[r].pc = "persist" /\ submit[r].of = p
    BY <2>3, <2>5 DEF SerialInv
  <2>8. \A r \in Submits :
           submit[r].of = p /\ submit[r].pc = "call" => submit[r].got = "none"
    BY DEF SerialInv
  <2>. QED
    BY <1>1, <2>4, <2>6, <2>7, <2>8 DEF SerialInv, Tells
<1>. QED
  BY <1>2, <1>3

LEMMA StartSubmitSerial ==
    ASSUME Inv, NEW p \in Proposals, SerialInv(p),
           NEW r \in Submits, NEW kind \in Kinds, NEW o \in Proposals, StartSubmit(r, kind, o)
    PROVE  SerialInv(p)'
<1>1. /\ submit[r].pc = "idle" /\ UNCHANGED <<stage, mirror, create>>
      /\ \A q \in Submits \ {r} : submit'[q] = submit[q]
      /\ submit'[r].pc = "call" /\ submit'[r].got = "none"
  BY DEF StartSubmit, Inv, TypeOK
<1>. QED
  BY <1>1 DEF SerialInv, Tells

(* BMONI's answer, if it comes back with the proposal, tells where it is.  *)
LEMMA CallSerial ==
    ASSUME Inv, NEW p \in Proposals, SerialInv(p), OneAtATime(p), OneAtATime(p)',
           NEW r \in Submits, CallSign(r) \/ CallReject(r)
    PROVE  SerialInv(p)'
<1>. USE DEF Inv, TypeOK, TypeOKProposals
<1>. DEFINE report == IF submit[r].kind = "sign" THEN "signed" ELSE "rejected"
<1>1. /\ submit[r].pc = "call" /\ UNCHANGED <<mirror, create>> /\ Answer(r, report)
      /\ submit[r].of \in Proposals
      /\ stage' = [stage EXCEPT ![submit[r].of] = report]
  BY DEF CallSign, CallReject, SignProposal, RejectProposal
<1>2. \A q \in Submits \ {r} : submit'[q] = submit[q]
  BY <1>1 DEF Answer
<1>3. submit'[r].of = submit[r].of
  BY <1>1 DEF Answer
<1>4. CASE submit[r].of # p
  BY <1>1, <1>2, <1>3, <1>4, ElsewhereSerial
<1>5. CASE submit[r].of = p
  <2>1. create[p] = "done" /\ stage'[p] = report
    BY <1>1, <1>5 DEF OneAtATime
  <2>2. \A q \in Submits \ {r} : submit[q].of = p => submit[q].pc \notin {"call", "persist"}
    BY <1>1, <1>5 DEF OneAtATime, Ended
  <2>3. ASSUME NEW end \in Ended, submit' = [submit EXCEPT ![r].pc = end]
        PROVE  FALSE
    <3>1. submit'[r].pc = end /\ submit'[r].got = "none"
      BY <1>1, <1>5, <2>3 DEF SerialInv
    <3>. QED
      BY <1>3, <1>5, <2>3, <3>1 DEF OneAtATime, Ended
  <2>4. submit' = [submit EXCEPT ![r].pc = "persist", ![r].got = report]
    BY <1>1, <2>3 DEF Answer
  <2>5. submit'[r].pc = "persist" /\ submit'[r].got = report
    BY <2>4
  <2>6. Tells(report, stage'[p])
    BY <2>1 DEF Tells, Report
  <2>. QED
    BY <1>1, <1>2, <1>3, <1>5, <2>1, <2>2, <2>5, <2>6 DEF SerialInv, Tells
<1>. QED
  BY <1>4, <1>5

LEMMA PersistSubmittedSerial ==
    ASSUME Inv, NEW p \in Proposals, SerialInv(p), NEW r \in Submits, PersistSubmitted(r)
    PROVE  SerialInv(p)'
<1>. USE DEF Inv, TypeOK, TypeOKProposals
<1>1. /\ submit[r].pc = "persist" /\ UNCHANGED <<stage, create>>
      /\ submit[r].of \in Proposals
      /\ mirror' = [mirror EXCEPT ![submit[r].of] = submit[r].got]
      /\ submit' = [submit EXCEPT ![r].pc = "done"]
  BY DEF PersistSubmitted, PersistProposal
<1>2. /\ \A q \in Submits \ {r} : submit'[q] = submit[q]
      /\ submit'[r].pc = "done" /\ submit'[r].of = submit[r].of
  BY <1>1
<1>3. CASE submit[r].of = p
  <2>1. mirror'[p] = submit[r].got /\ Tells(submit[r].got, stage[p])
    BY <1>1, <1>3 DEF SerialInv
  <2>. QED
    BY <1>1, <1>2, <1>3, <2>1 DEF SerialInv, Tells
<1>4. CASE submit[r].of # p
  BY <1>1, <1>2, <1>4, ElsewhereSerial
<1>. QED
  BY <1>3, <1>4

LEMMA AbortSubmitSerial ==
    ASSUME Inv, NEW p \in Proposals, SerialInv(p), OneAtATime(p)',
           NEW r \in Submits, AbortSubmit(r)
    PROVE  SerialInv(p)'
<1>. USE DEF Inv, TypeOK, TypeOKProposals
<1>1. /\ submit'[r].pc = "failed" /\ submit'[r].of = submit[r].of
      /\ \A q \in Submits \ {r} : submit'[q] = submit[q]
      /\ UNCHANGED <<stage, mirror, create>>
  BY DEF AbortSubmit
<1>2. submit[r].of # p
  BY <1>1 DEF OneAtATime
<1>. QED
  BY <1>1, <1>2, ElsewhereSerial

LEMMA SerialStep ==
    ASSUME Inv, NEW p \in Proposals, SerialInv(p), OneAtATime(p), OneAtATime(p)', [Next]_vars
    PROVE  SerialInv(p)'
<1>1. ASSUME NEW o \in Proposals, CreateStep(o) \/ BmoniStep(o)
      PROVE  SerialInv(p)'
  BY <1>1, CreateStepSerial, BmoniStepSerial
<1>2. ASSUME NEW r \in Submits, SubmitStep(r)
      PROVE  SerialInv(p)'
  BY <1>2, StartSubmitSerial, CallSerial, PersistSubmittedSerial, AbortSubmitSerial
     DEF SubmitStep, ServeSubmit
<1>3. CASE UNCHANGED vars
  BY <1>3 DEF vars, SerialInv, Tells
<1>. QED
  BY <1>1, <1>2, <1>3 DEF Next

(* As long as the requests for a proposal are served one at a time and do  *)
(* not fail, its row tells where the proposal is, but for an execution or  *)
(* an expiry, which BMONI tells nobody (submitSignature, reject,           *)
(* persistProposal).                                                       *)
THEOREM SerialMirror == Spec => SerialRequestsMirror
<1>1. SUFFICES ASSUME NEW p \in Proposals
               PROVE  Spec => ([]OneAtATime(p) => []MirrorAgrees(p))
  BY DEF SerialRequestsMirror
<1>2. SerialInv(p) => MirrorAgrees(p)
  BY DEF SerialInv, MirrorAgrees, AtRest
<1>3. Init => SerialInv(p)
  BY InitSerial
<1>4. Inv /\ SerialInv(p) /\ OneAtATime(p) /\ OneAtATime(p)' /\ [Next]_vars => SerialInv(p)'
  BY SerialStep
<1>. QED
  BY <1>2, <1>3, <1>4, Invariance, PTL DEF Spec

=============================================================================
