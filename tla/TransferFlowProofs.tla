-------------------------- MODULE TransferFlowProofs --------------------------
(***************************************************************************)
(* Proofs about TransferFlow, for any number of payments, tries, prompts   *)
(* and other callers.                                                      *)
(***************************************************************************)
EXTENDS TransferFlow, TransferServiceProofs

Screens == {"send", "scan"}
FlowPC  == Busy \union Asking \union Endings
FlowRecord == [screen : Screens, pc : FlowPC, tries : 1 .. MaxTries,
               prompts : 0 .. MaxPrompts, polls : 0 .. (MaxAttempts - 1)]

(* A payment has been asked for its PIN once it has a proposal to sign. *)
FlowTyped ==
    /\ flow \in [Flows -> FlowRecord]
    /\ \A f \in Flows :
          /\ flow[f].pc \in {"post", "wait"} => flow[f].prompts = 0
          /\ flow[f].pc \in {"pin", "poll", "sign", "answer"} => flow[f].prompts > 0

(* The payment has gone as far as it must have for a signature of it to be *)
(* on its way.                                                             *)
Sent(f) ==
    /\ flow[f].pc \notin {"post", "wait"}
    /\ flow[f].screen = "send" => flow[f].pc \in {"answer", "failed", "paid"}

(* Only the proposal the payment asks about is ever signed, and only after *)
(* the app sent the signature.                                             *)
SignaturesAreSent ==
    /\ \A f \in Flows, n \in 1 .. MaxTries :
          Funded(<<f, n>>) => n = flow[f].tries /\ Sent(f)
    /\ \A r \in Submits :
          submit[r].pc = "call" /\ submit[r].kind = "sign" =>
              \E f \in Flows : submit[r].of = ProposalOf(f) /\ Sent(f)

FlowInv == Inv /\ FlowTyped /\ SignaturesAreSent

LEMMA NamesTyped ==
    ASSUME FlowTyped, NEW f \in Flows
    PROVE  /\ ProposalOf(f) \in Proposals
           /\ flow[f].prompts > 0 => SigningOf(f) \in Submits
BY FlowAssumption DEF FlowTyped, FlowRecord, ProposalOf, SigningOf

LEMMA InitFlowInv == FlowInit => FlowInv
<1>. SUFFICES ASSUME FlowInit
              PROVE  FlowInv
  OBVIOUS
<1>1. Inv
  BY InitInv DEF FlowInit
<1>2. FlowTyped
  BY FlowAssumption DEF FlowInit, Tapped, FlowTyped, FlowRecord, Screens, FlowPC, Busy
<1>3. SignaturesAreSent
  BY FlowAssumption DEF FlowInit, Init, InitProposals, SignaturesAreSent, Funded
<1>. QED
  BY <1>1, <1>2, <1>3 DEF FlowInv

(* Whatever the app does, its backend takes a step of TransferService or none. *)
LEMMA ServiceStep ==
    ASSUME FlowTyped, FlowNext
    PROVE  [Next]_vars
<1>1. ASSUME NEW f \in Flows, AppStep(f) \/ PersonOrNetwork(f)
      PROVE  [Next]_vars
  <2>1. ProposalOf(f) \in Proposals
    BY NamesTyped
  <2>2. CASE Post(f)
    BY <2>1, <2>2 DEF Post, Next, CreateStep
  <2>3. CASE Sign(f)
    <3>1. SigningOf(f) \in Submits
      BY <2>3, NamesTyped DEF Sign, FlowTyped
    <3>. QED
      BY <2>1, <2>3, <3>1 DEF Sign, Next, SubmitStep, Kinds
  <2>. QED
    BY <1>1, <2>2, <2>3 DEF AppStep, PersonOrNetwork, PostBreaks, PostAnswered, Confirm,
       AnswerPrompt, PollSignPayload, SignBreaks, SignAnswered
<1>2. ASSUME NEW r \in Others, NEW p \in Proposals, OtherRejects(r, p)
      PROVE  [Next]_vars
  BY <1>2, FlowAssumption DEF OtherRejects, Next, SubmitStep, Kinds
<1>3. ASSUME NEW p \in Proposals, ServeCreateOf(p) \/ BmoniStep(p)
      PROVE  [Next]_vars
  BY <1>3 DEF ServeCreateOf, Next, CreateStep
<1>4. ASSUME NEW r \in Submits, ServeSubmitOf(r)
      PROVE  [Next]_vars
  BY <1>4 DEF ServeSubmitOf, Next, SubmitStep
<1>. QED
  BY <1>1, <1>2, <1>3, <1>4 DEF FlowNext

(* What a step must respect: a payment whose signature may be on its way   *)
(* keeps to its proposal, nothing else is signed, no other signature sent. *)
LEMMA Keeps ==
    ASSUME FlowInv, Inv', FlowTyped',
           \A g \in Flows : Sent(g) => Sent(g)' /\ flow'[g].tries = flow[g].tries,
           \A p \in Proposals :
              Funded(p)' => Funded(p) \/ \E g \in Flows : p = ProposalOf(g) /\ Sent(g),
           \A r \in Submits :
              submit'[r].pc = "call" /\ submit'[r].kind = "sign" =>
                  \/ /\ submit[r].pc = "call" /\ submit[r].kind = "sign"
                     /\ submit'[r].of = submit[r].of
                  \/ \E g \in Flows : submit'[r].of = ProposalOf(g)' /\ Sent(g)'
    PROVE  FlowInv'
<1>1. ASSUME NEW f \in Flows, NEW n \in 1 .. MaxTries, Funded(<<f, n>>)'
      PROVE  n = flow'[f].tries /\ Sent(f)'
  <2>1. <<f, n>> \in Proposals
    BY FlowAssumption
  <2>2. CASE Funded(<<f, n>>)
    BY <2>2 DEF FlowInv, SignaturesAreSent
  <2>3. ASSUME NEW g \in Flows, <<f, n>> = ProposalOf(g), Sent(g)
        PROVE  n = flow'[f].tries /\ Sent(f)'
    BY <2>3 DEF ProposalOf
  <2>. QED
    BY <1>1, <2>1, <2>2, <2>3
<1>2. ASSUME NEW r \in Submits, submit'[r].pc = "call", submit'[r].kind = "sign"
      PROVE  \E f \in Flows : submit'[r].of = ProposalOf(f)' /\ Sent(f)'
  <2>1. CASE /\ submit[r].pc = "call" /\ submit[r].kind = "sign"
             /\ submit'[r].of = submit[r].of
    <3>1. PICK f \in Flows : submit[r].of = ProposalOf(f) /\ Sent(f)
      BY <2>1 DEF FlowInv, SignaturesAreSent
    <3>. QED
      BY <2>1, <3>1 DEF ProposalOf
  <2>. QED
    BY <1>2, <2>1
<1>3. SignaturesAreSent'
  BY <1>1, <1>2 DEF SignaturesAreSent
<1>. QED
  BY <1>3 DEF FlowInv

(* Steps of the app, the person and the connection. *)
LEMMA MovesTyped ==
    ASSUME FlowTyped, NEW f \in Flows, NEW pc \in FlowPC, Goto(f, pc),
           pc \in {"post", "wait"} => flow[f].prompts = 0,
           pc \in {"pin", "poll", "sign", "answer"} => flow[f].prompts > 0
    PROVE  /\ FlowTyped'
           /\ flow'[f] = [flow[f] EXCEPT !.pc = pc]
           /\ \A g \in Flows \ {f} : flow'[g] = flow[g]
           /\ \A g \in Flows : flow'[g].tries = flow[g].tries
BY DEF FlowTyped, FlowRecord, Goto

LEMMA PromptTyped ==
    ASSUME FlowTyped, NEW f \in Flows, Prompt(f), flow[f].prompts < MaxPrompts
    PROVE  /\ FlowTyped'
           /\ flow'[f].pc = "pin" /\ flow'[f].screen = flow[f].screen
           /\ \A g \in Flows \ {f} : flow'[g] = flow[g]
           /\ \A g \in Flows : flow'[g].tries = flow[g].tries
BY FlowAssumption DEF FlowTyped, FlowRecord, Prompt, FlowPC, Asking

(* A step of the app alone, which leaves the backend as it is. *)
LEMMA AppOnly ==
    ASSUME FlowInv, UNCHANGED vars, FlowTyped',
           \A g \in Flows : Sent(g) => Sent(g)' /\ flow'[g].tries = flow[g].tries
    PROVE  FlowInv'
<1>1. Inv'
  BY StepInv DEF FlowInv
<1>2. \A p \in Proposals : Funded(p)' => Funded(p)
  BY DEF vars, Funded
<1>3. \A r \in Submits : submit'[r] = submit[r]
  BY DEF vars
<1>. QED
  BY <1>1, <1>2, <1>3, Keeps

LEMMA PostFlowInv ==
    ASSUME FlowInv, NEW f \in Flows, Post(f)
    PROVE  FlowInv'
<1>1. flow[f].pc = "post" /\ flow[f].prompts = 0 /\ Goto(f, "wait")
  BY DEF FlowInv, FlowTyped, Post
<1>2. /\ FlowTyped'
      /\ \A g \in Flows \ {f} : flow'[g] = flow[g]
      /\ \A g \in Flows : flow'[g].tries = flow[g].tries
  BY <1>1, MovesTyped DEF FlowInv, FlowPC, Busy
<1>3. stage' = stage /\ submit' = submit
  BY DEF Post, StartCreate
<1>4. Inv'
  BY NamesTyped, StartCreateInv DEF FlowInv, Post
<1>5. \A g \in Flows : Sent(g) => Sent(g)'
  BY <1>1, <1>2 DEF Sent
<1>. QED
  BY <1>2, <1>3, <1>4, <1>5, Keeps DEF Funded

LEMMA PostBreaksFlowInv ==
    ASSUME FlowInv, NEW f \in Flows, PostBreaks(f)
    PROVE  FlowInv'
<1>1. flow[f].pc \in {"post", "wait"} /\ flow[f].prompts = 0 /\ UNCHANGED vars
  BY DEF FlowInv, FlowTyped, PostBreaks
<1>2. FlowTyped' /\ \A g \in Flows \ {f} : flow'[g] = flow[g]
  <2>1. CASE Goto(f, "refused")
    BY <2>1, MovesTyped DEF FlowInv, FlowPC, Endings
  <2>2. CASE /\ flow[f].tries < MaxTries
             /\ flow' = [flow EXCEPT ![f].pc = "post", ![f].tries = @ + 1]
    <3>1. /\ flow' \in [Flows -> FlowRecord]
          /\ flow'[f].pc = "post" /\ flow'[f].prompts = 0
          /\ \A g \in Flows \ {f} : flow'[g] = flow[g]
      BY <1>1, <2>2, FlowAssumption DEF FlowInv, FlowTyped, FlowRecord, FlowPC, Busy
    <3>. QED
      BY <3>1 DEF FlowInv, FlowTyped
  <2>. QED
    BY <2>1, <2>2 DEF PostBreaks
<1>3. \A g \in Flows : Sent(g) => Sent(g)' /\ flow'[g].tries = flow[g].tries
  BY <1>1, <1>2 DEF Sent
<1>. QED
  BY <1>1, <1>2, <1>3, AppOnly

LEMMA PostAnsweredFlowInv ==
    ASSUME FlowInv, NEW f \in Flows, PostAnswered(f)
    PROVE  FlowInv'
<1>1. flow[f].pc = "wait" /\ flow[f].prompts < MaxPrompts /\ UNCHANGED vars
  BY FlowAssumption DEF FlowInv, FlowTyped, PostAnswered
<1>2. FlowTyped' /\ \A g \in Flows \ {f} : flow'[g] = flow[g]
  <2>1. ASSUME NEW pc \in {"refused", "left", "confirm"}, Goto(f, pc)
        PROVE  FlowTyped' /\ \A g \in Flows \ {f} : flow'[g] = flow[g]
    BY <2>1, MovesTyped DEF FlowInv, FlowPC, Endings, Asking
  <2>2. CASE Prompt(f)
    BY <1>1, <2>2, PromptTyped DEF FlowInv
  <2>. QED
    BY <2>1, <2>2 DEF PostAnswered
<1>3. \A g \in Flows : Sent(g) => Sent(g)' /\ flow'[g].tries = flow[g].tries
  BY <1>1, <1>2 DEF Sent
<1>. QED
  BY <1>1, <1>2, <1>3, AppOnly

LEMMA ConfirmFlowInv ==
    ASSUME FlowInv, NEW f \in Flows, Confirm(f)
    PROVE  FlowInv'
<1>1. /\ flow[f].screen = "scan" /\ flow[f].pc \in {"confirm", "cancelled", "failed"}
      /\ flow[f].prompts < MaxPrompts /\ Prompt(f) /\ UNCHANGED vars
  BY DEF Confirm
<1>2. /\ FlowTyped'
      /\ flow'[f].pc = "pin" /\ flow'[f].screen = flow[f].screen
      /\ \A g \in Flows \ {f} : flow'[g] = flow[g]
      /\ \A g \in Flows : flow'[g].tries = flow[g].tries
  BY <1>1, PromptTyped DEF FlowInv
<1>3. \A g \in Flows : Sent(g) => Sent(g)' /\ flow'[g].tries = flow[g].tries
  BY <1>1, <1>2 DEF Sent
<1>. QED
  BY <1>1, <1>2, <1>3, AppOnly

(* A step that moves one payment on: forward from the PIN prompt, and never *)
(* away from an end its signature may have.                                *)
LEMMA MoveOnFlowInv ==
    ASSUME FlowInv, NEW f \in Flows, UNCHANGED vars,
           NEW pc \in {"cancelled", "poll", "sign", "failed", "paid"}, Goto(f, pc),
           flow[f].pc \in {"pin", "poll", "sign", "answer"},
           flow[f].pc = "answer" => pc \in {"failed", "paid"}
    PROVE  FlowInv'
<1>1. flow[f].prompts > 0
  BY DEF FlowInv, FlowTyped
<1>2. /\ FlowTyped'
      /\ flow'[f] = [flow[f] EXCEPT !.pc = pc]
      /\ \A g \in Flows \ {f} : flow'[g] = flow[g]
      /\ \A g \in Flows : flow'[g].tries = flow[g].tries
  BY <1>1, MovesTyped DEF FlowInv, FlowPC, Busy, Endings
<1>3. flow[f] \in FlowRecord
  BY DEF FlowInv, FlowTyped
<1>4. flow'[f].pc = pc /\ flow'[f].screen = flow[f].screen
  BY <1>2, <1>3 DEF FlowRecord
<1>5. \A g \in Flows : Sent(g) => Sent(g)' /\ flow'[g].tries = flow[g].tries
  BY <1>2, <1>4 DEF Sent
<1>. QED
  BY <1>2, <1>5, AppOnly

LEMMA AnswerPromptFlowInv ==
    ASSUME FlowInv, NEW f \in Flows, AnswerPrompt(f)
    PROVE  FlowInv'
BY MoveOnFlowInv DEF AnswerPrompt

LEMMA PollSignPayloadFlowInv ==
    ASSUME FlowInv, NEW f \in Flows, PollSignPayload(f)
    PROVE  FlowInv'
<1>1. flow[f].pc = "poll" /\ UNCHANGED vars
  BY DEF PollSignPayload
<1>2. CASE \E next \in {"sign", "failed"} : Goto(f, next)
  BY <1>1, <1>2, MoveOnFlowInv
<1>3. CASE /\ flow[f].polls < MaxAttempts - 1
           /\ flow' = [flow EXCEPT ![f].polls = @ + 1]
  <2>1. /\ flow' \in [Flows -> FlowRecord]
        /\ \A g \in Flows : /\ flow'[g].pc = flow[g].pc
                            /\ flow'[g].screen = flow[g].screen
                            /\ flow'[g].tries = flow[g].tries
                            /\ flow'[g].prompts = flow[g].prompts
    BY <1>3, FlowAssumption DEF FlowInv, FlowTyped, FlowRecord
  <2>2. FlowTyped'
    BY <2>1 DEF FlowInv, FlowTyped
  <2>. QED
    BY <1>1, <2>1, <2>2, AppOnly DEF Sent
<1>. QED
  BY <1>1, <1>2, <1>3, MoveOnFlowInv DEF PollSignPayload

LEMMA SignBreaksFlowInv ==
    ASSUME FlowInv, NEW f \in Flows, SignBreaks(f)
    PROVE  FlowInv'
BY MoveOnFlowInv DEF SignBreaks

LEMMA SignAnsweredFlowInv ==
    ASSUME FlowInv, NEW f \in Flows, SignAnswered(f)
    PROVE  FlowInv'
BY MoveOnFlowInv DEF SignAnswered

(* The signature leaves: from here the payment counts as sent. *)
LEMMA SignFlowInv ==
    ASSUME FlowInv, NEW f \in Flows, Sign(f)
    PROVE  FlowInv'
<1>1. flow[f].pc = "sign" /\ flow[f].prompts > 0 /\ Goto(f, "answer")
  BY DEF FlowInv, FlowTyped, Sign
<1>2. /\ FlowTyped'
      /\ flow'[f] = [flow[f] EXCEPT !.pc = "answer"]
      /\ \A g \in Flows \ {f} : flow'[g] = flow[g]
      /\ \A g \in Flows : flow'[g].tries = flow[g].tries
  BY <1>1, MovesTyped DEF FlowInv, FlowPC, Busy
<1>3. flow'[f].pc = "answer"
  BY <1>2 DEF FlowInv, FlowTyped, FlowRecord
<1>4. Sent(f)' /\ ProposalOf(f)' = ProposalOf(f)
  BY <1>2, <1>3 DEF Sent, ProposalOf
<1>5. \A g \in Flows : Sent(g) => Sent(g)'
  BY <1>2, <1>4 DEF Sent
<1>6. ProposalOf(f) \in Proposals /\ SigningOf(f) \in Submits
  BY <1>1, NamesTyped DEF FlowInv
<1>7. Inv'
  BY <1>6, StartSubmitInv DEF FlowInv, Sign, Kinds
<1>8. stage' = stage
  BY DEF Sign, StartSubmit
<1>9. ASSUME NEW r \in Submits
      PROVE  submit'[r] = submit[r] \/ submit'[r].of = ProposalOf(f)
  BY <1>6 DEF FlowInv, Inv, TypeOK, Sign, StartSubmit
<1>. QED
  BY <1>2, <1>4, <1>5, <1>7, <1>8, <1>9, Keeps DEF Funded

(* A step of the backend, of BMONI or of another caller. *)
LEMMA ServerOnly ==
    ASSUME FlowInv, Inv', UNCHANGED flow,
           \A p \in Proposals :
              Funded(p)' => Funded(p) \/ \E g \in Flows : p = ProposalOf(g) /\ Sent(g),
           \A r \in Submits :
              submit'[r].pc = "call" /\ submit'[r].kind = "sign" =>
                 /\ submit[r].pc = "call" /\ submit[r].kind = "sign"
                 /\ submit'[r].of = submit[r].of
    PROVE  FlowInv'
<1>1. FlowTyped'
  BY DEF FlowInv, FlowTyped
<1>2. \A g \in Flows : Sent(g) => Sent(g)' /\ flow'[g].tries = flow[g].tries
  BY DEF Sent
<1>. QED
  BY <1>1, <1>2, Keeps

LEMMA OtherRejectsFlowInv ==
    ASSUME FlowInv, NEW r \in Others, NEW p \in Proposals, OtherRejects(r, p)
    PROVE  FlowInv'
<1>1. r \in Submits
  BY FlowAssumption
<1>2. Inv'
  BY <1>1, StartSubmitInv DEF FlowInv, OtherRejects, Kinds
<1>3. UNCHANGED <<stage, flow>>
  BY DEF OtherRejects, StartSubmit
<1>4. ASSUME NEW q \in Submits
      PROVE  submit'[q] = submit[q] \/ submit'[q].kind = "reject"
  BY <1>1 DEF FlowInv, Inv, TypeOK, OtherRejects, StartSubmit
<1>. QED
  BY <1>2, <1>3, <1>4, ServerOnly DEF Funded

LEMMA ServeCreateFlowInv ==
    ASSUME FlowInv, NEW p \in Proposals, ServeCreateOf(p)
    PROVE  FlowInv'
<1>1. UNCHANGED <<submit, flow>>
  BY DEF ServeCreateOf, ServeCreate, Propose, PersistCreated, AbortCreate
<1>2. \A q \in Proposals : Funded(q)' => Funded(q)
  BY DEF FlowInv, Inv, TypeOK, TypeOKProposals, ServeCreateOf, ServeCreate, Propose,
     CreateProposal, PersistCreated, AbortCreate, Funded
<1>3. Inv'
  BY ProposeInv, PersistCreatedInv, AbortCreateInv DEF FlowInv, ServeCreateOf, ServeCreate
<1>. QED
  BY <1>1, <1>2, <1>3, ServerOnly

LEMMA BmoniFlowInv ==
    ASSUME FlowInv, NEW p \in Proposals, BmoniStep(p), UNCHANGED flow
    PROVE  FlowInv'
<1>1. UNCHANGED submit
  BY DEF BmoniStep
<1>2. \A q \in Proposals : Funded(q)' => Funded(q)
  BY DEF FlowInv, Inv, TypeOK, TypeOKProposals, BmoniStep, BmoniMoves, PreparePayload, Execute, Expire, Funded
<1>3. Inv'
  BY BmoniStepInv DEF FlowInv
<1>. QED
  BY <1>1, <1>2, <1>3, ServerOnly

(* BMONI accepts a signature only from a request that carries one. *)
LEMMA ServeSubmitFlowInv ==
    ASSUME FlowInv, NEW r \in Submits, ServeSubmitOf(r)
    PROVE  FlowInv'
<1>1. UNCHANGED flow
  BY DEF ServeSubmitOf
<1>2. Inv'
  BY CallSignInv, CallRejectInv, PersistSubmittedInv, AbortSubmitInv
     DEF FlowInv, ServeSubmitOf, ServeSubmit
<1>3. ASSUME NEW q \in Submits
      PROVE  submit'[q] = submit[q] \/ submit'[q].pc # "call"
  BY DEF FlowInv, Inv, TypeOK, ServeSubmitOf, ServeSubmit, CallSign, CallReject, Answer, Ended,
     PersistSubmitted, AbortSubmit
<1>4. CASE CallSign(r)
  <2>1. PICK g \in Flows : submit[r].of = ProposalOf(g) /\ Sent(g)
    BY <1>4 DEF CallSign, FlowInv, SignaturesAreSent
  <2>2. \A q \in Proposals \ {ProposalOf(g)} : stage'[q] = stage[q]
    BY <1>4, <2>1 DEF CallSign, SignProposal, FlowInv, Inv, TypeOK, TypeOKProposals
  <2>3. \A q \in Proposals :
            Funded(q)' => Funded(q) \/ \E h \in Flows : q = ProposalOf(h) /\ Sent(h)
    BY <2>1, <2>2 DEF Funded
  <2>. QED
    BY <1>1, <1>2, <1>3, <2>3, ServerOnly
<1>5. CASE ~ CallSign(r)
  <2>1. \A q \in Proposals : Funded(q)' => Funded(q)
    BY <1>5 DEF ServeSubmitOf, ServeSubmit, CallReject, RejectProposal, PersistSubmitted,
       AbortSubmit, Funded, FlowInv, Inv, TypeOK, TypeOKProposals
  <2>. QED
    BY <1>1, <1>2, <1>3, <2>1, ServerOnly
<1>. QED
  BY <1>4, <1>5

LEMMA FlowStepInv ==
    ASSUME FlowInv, [FlowNext]_flowVars
    PROVE  FlowInv'
<1>1. ASSUME NEW f \in Flows, AppStep(f) \/ PersonOrNetwork(f)
      PROVE  FlowInv'
  BY <1>1, PostFlowInv, PostBreaksFlowInv, PostAnsweredFlowInv, ConfirmFlowInv,
     AnswerPromptFlowInv, PollSignPayloadFlowInv, SignFlowInv, SignBreaksFlowInv,
     SignAnsweredFlowInv DEF AppStep, PersonOrNetwork
<1>2. CASE UNCHANGED flowVars
  <2>1. UNCHANGED vars /\ UNCHANGED flow
    BY <1>2 DEF flowVars
  <2>2. FlowTyped'
    BY <2>1 DEF FlowInv, FlowTyped
  <2>. QED
    BY <2>1, <2>2, AppOnly DEF Sent
<1>. QED
  BY <1>1, <1>2, OtherRejectsFlowInv, ServeCreateFlowInv, BmoniFlowInv, ServeSubmitFlowInv
     DEF FlowNext

(* The inductive invariant: what was signed was sent, and what was sent is *)
(* the proposal the payment asks about.                                    *)
THEOREM FlowInvariance == FlowSpec => []FlowInv
<1>. QED
  BY InitFlowInv, FlowStepInv, PTL DEF FlowSpec

(* The state of app and backend stays well typed. *)
THEOREM FlowTypeCorrect == FlowSpec => []FlowTypeOK
<1>1. FlowInv => FlowTypeOK
  BY DEF FlowInv, Inv, FlowTypeOK, FlowTyped, FlowRecord, Screens, FlowPC
<1>. QED
  BY <1>1, FlowInvariance, PTL

(* Seen from the backend, the app's payments are requests of TransferService *)
(* like any others, so what is proved of it (NeverAhead) holds under the    *)
(* app's retries too.                                                       *)
THEOREM FlowImplementsService == FlowSpec => Spec
<1>1. FlowInit => Init
  BY DEF FlowInit
<1>2. FlowInv /\ [FlowNext]_flowVars => [Next]_vars
  BY ServiceStep DEF FlowInv, flowVars, vars
<1>. QED
  BY <1>1, <1>2, FlowInvariance, PTL DEF FlowSpec, Spec

(* Also with the app's retries: while no two requests overlap on a         *)
(* proposal and none fails, PayFlex's table is a mirror of BMONI.          *)
THEOREM FlowSerialMirror == FlowSpec => SerialRequestsMirror
BY FlowImplementsService, SerialMirror

(* With them, too, PayFlex's table never runs ahead of BMONI.              *)
THEOREM FlowNeverAhead == FlowSpec => []MirrorNeverAhead
BY FlowImplementsService, NeverAhead

(* One tap or scan signs at most one proposal, however often withRetry     *)
(* posted it and whatever the abandoned requests still do                  *)
(* (qr_pay_screen.dart, line 307; transfer_flow.dart).                     *)
THEOREM OnePayment == FlowSpec => []OnePaymentPerTap
<1>1. FlowInv => OnePaymentPerTap
  BY DEF FlowInv, SignaturesAreSent, OnePaymentPerTap, Funded
<1>. QED
  BY <1>1, FlowInvariance, PTL

(* A direct payment that ends as cancelled has moved nothing and never     *)
(* will (send_money_screen.dart, line 69).                                 *)
THEOREM CancelledIsSafe == FlowSpec => []CancelledMovesNothing
<1>1. FlowInv => CancelledMovesNothing
  BY DEF FlowInv, SignaturesAreSent, CancelledMovesNothing, Sent
<1>. QED
  BY <1>1, FlowInvariance, PTL

----------------------------------------------------------------------------
(* What the table says of a payment that is shown as paid. *)

OnRecord(p) == mirror[p] \in {"signed", "rejected"}

(* A sign request is for a proposal whose own row was written before, so   *)
(* what it stores is overwritten only by another answer.                   *)
SignsAreRecorded ==
    \A r \in Submits :
        /\ submit[r].pc \in {"idle", "call"} => submit[r].got = "none"
        /\ submit[r].pc = "persist" => submit[r].got \in {"signed", "rejected"}
        /\ submit[r].kind = "sign" /\ submit[r].pc # "idle" =>
              submit[r].of \in Proposals /\ create[submit[r].of] = "done"
        /\ /\ submit[r].kind = "sign" /\ submit[r].pc = "done" /\ submit[r].got # "none"
           => OnRecord(submit[r].of)

Opened == {"confirm", "pin", "poll", "sign", "answer", "cancelled", "failed", "paid"}

ReceiptsAreRecorded ==
    \A f \in Flows :
        /\ flow[f].pc \in Opened => create[ProposalOf(f)] = "done"
        /\ flow[f].pc = "answer" =>
              /\ submit[SigningOf(f)].kind = "sign"
              /\ submit[SigningOf(f)].of = ProposalOf(f)
              /\ submit[SigningOf(f)].pc # "idle"
        /\ flow[f].pc = "paid" => OnRecord(ProposalOf(f))

RecordInv == FlowInv /\ SignsAreRecorded /\ ReceiptsAreRecorded

(* What never turns back on the server. *)
Grows ==
    /\ \A p \in Proposals : create[p] = "done" => create'[p] = "done"
    /\ \A p \in Proposals : create[p] = "done" /\ OnRecord(p) => OnRecord(p)'
    /\ \A r \in Submits :
          submit[r].pc # "idle" => /\ submit'[r].pc # "idle"
                                   /\ submit'[r].kind = submit[r].kind
                                   /\ submit'[r].of = submit[r].of

LEMMA ReceiptsStay ==
    ASSUME RecordInv, Grows, UNCHANGED flow
    PROVE  ReceiptsAreRecorded'
<1>. SUFFICES ASSUME NEW f \in Flows
     PROVE  /\ flow[f].pc \in Opened => create'[ProposalOf(f)] = "done"
            /\ flow[f].pc = "answer" =>
                  /\ submit'[SigningOf(f)].kind = "sign"
                  /\ submit'[SigningOf(f)].of = ProposalOf(f)
                  /\ submit'[SigningOf(f)].pc # "idle"
            /\ flow[f].pc = "paid" => mirror'[ProposalOf(f)] \in {"signed", "rejected"}
  BY DEF ReceiptsAreRecorded, ProposalOf, SigningOf, OnRecord
<1>1. ProposalOf(f) \in Proposals
  BY NamesTyped DEF RecordInv, FlowInv
<1>2. flow[f].pc = "answer" => SigningOf(f) \in Submits
  BY NamesTyped DEF RecordInv, FlowInv, FlowTyped
<1>. QED
  BY <1>1, <1>2 DEF RecordInv, ReceiptsAreRecorded, Grows, Opened, OnRecord

LEMMA ServeCreateRecord ==
    ASSUME RecordInv, NEW p \in Proposals, ServeCreateOf(p)
    PROVE  SignsAreRecorded' /\ Grows
<1>1. UNCHANGED submit
  BY DEF ServeCreateOf, ServeCreate, Propose, PersistCreated, AbortCreate
<1>2. ASSUME NEW q \in Proposals, create[q] = "done"
      PROVE  create'[q] = "done" /\ mirror'[q] = mirror[q]
  BY <1>2 DEF ServeCreateOf, ServeCreate, Propose, PersistCreated, PersistProposal, AbortCreate,
     RecordInv, FlowInv, Inv, TypeOK, TypeOKProposals
<1>3. Grows
  BY <1>1, <1>2 DEF Grows, OnRecord
<1>. QED
  BY <1>1, <1>2, <1>3 DEF SignsAreRecorded, OnRecord, RecordInv

LEMMA ServeSubmitRecord ==
    ASSUME RecordInv, NEW r \in Submits, ServeSubmitOf(r)
    PROVE  SignsAreRecorded' /\ Grows
<1>. USE DEF RecordInv, FlowInv, Inv, TypeOK, TypeOKProposals, ServeSubmitOf, ServeSubmit
<1>1. /\ UNCHANGED create
      /\ submit'[r].kind = submit[r].kind /\ submit'[r].of = submit[r].of
      /\ submit[r].pc # "idle" /\ submit'[r].pc \notin {"idle", "call"}
      /\ \A q \in Submits \ {r} : submit'[q] = submit[q]
  BY DEF CallSign, CallReject, Answer, Ended, PersistSubmitted, AbortSubmit
<1>2. submit'[r].pc = "persist" => submit'[r].got \in {"signed", "rejected"}
  BY DEF CallSign, CallReject, Answer, Ended, PersistSubmitted, AbortSubmit, SignsAreRecorded
<1>3. \A q \in Proposals : OnRecord(q) => OnRecord(q)'
  BY DEF CallSign, CallReject, PersistSubmitted, PersistProposal, AbortSubmit, SignsAreRecorded,
     OnRecord
<1>4. ASSUME submit'[r].pc = "done", submit'[r].got # "none"
      PROVE  OnRecord(submit[r].of)'
  <2>1. submit[r].of \in Proposals
    BY DEF CallSign, CallReject, PersistSubmitted, AbortSubmit
  <2>2. CASE PersistSubmitted(r)
    BY <2>1, <2>2 DEF PersistSubmitted, PersistProposal, SignsAreRecorded, OnRecord
  <2>3. CASE CallSign(r) \/ CallReject(r)
    BY <1>4, <2>3 DEF CallSign, CallReject, Answer, Ended, SignsAreRecorded
  <2>. QED
    BY <1>4, <2>2, <2>3 DEF AbortSubmit
<1>5. Grows
  BY <1>1, <1>3 DEF Grows
<1>. QED
  BY <1>1, <1>2, <1>3, <1>4, <1>5 DEF SignsAreRecorded, OnRecord

LEMMA OtherRejectsRecord ==
    ASSUME RecordInv, NEW r \in Others, NEW p \in Proposals, OtherRejects(r, p)
    PROVE  SignsAreRecorded' /\ Grows
<1>1. r \in Submits
  BY FlowAssumption
<1>2. /\ UNCHANGED <<create, mirror>>
      /\ submit[r].pc = "idle"
      /\ submit'[r] = [submit[r] EXCEPT !.pc = "call", !.kind = "reject", !.of = p]
      /\ \A q \in Submits \ {r} : submit'[q] = submit[q]
  BY <1>1 DEF RecordInv, FlowInv, Inv, TypeOK, OtherRejects, StartSubmit
<1>3. submit'[r].pc = "call" /\ submit'[r].kind = "reject" /\ submit'[r].got = submit[r].got
  BY <1>1, <1>2 DEF RecordInv, FlowInv, Inv, TypeOK
<1>4. /\ UNCHANGED <<create, mirror>> /\ submit[r].pc = "idle"
      /\ \A q \in Submits \ {r} : submit'[q] = submit[q]
  BY <1>2
<1>5. Grows
  BY <1>3, <1>4 DEF Grows, OnRecord
<1>6. SignsAreRecorded'
  BY <1>3, <1>4 DEF SignsAreRecorded, OnRecord, RecordInv
<1>. QED
  BY <1>5, <1>6

(* A step of one payment that leaves the backend as it is. *)
LEMMA AppOnlyRecord ==
    ASSUME RecordInv, UNCHANGED vars, NEW f \in Flows,
           \A g \in Flows \ {f} : flow'[g] = flow[g],
           flow'[f].pc \in Opened =>
               create[ProposalOf(f)] = "done" /\ flow'[f].tries = flow[f].tries,
           flow'[f].pc # "answer",
           flow'[f].pc = "paid" => OnRecord(ProposalOf(f))
    PROVE  SignsAreRecorded' /\ ReceiptsAreRecorded'
<1>1. SignsAreRecorded'
  BY DEF RecordInv, SignsAreRecorded, OnRecord, vars
<1>2. ASSUME NEW g \in Flows \ {f}
      PROVE  ProposalOf(g)' = ProposalOf(g) /\ SigningOf(g)' = SigningOf(g)
  BY DEF ProposalOf, SigningOf
<1>3. flow'[f].pc \in Opened => ProposalOf(f)' = ProposalOf(f)
  BY DEF ProposalOf
<1>. QED
  BY <1>1, <1>2, <1>3 DEF RecordInv, ReceiptsAreRecorded, OnRecord, Opened, vars

LEMMA PaymentRecord ==
    ASSUME RecordInv, NEW f \in Flows,
           \/ PostBreaks(f) \/ PostAnswered(f) \/ Confirm(f) \/ AnswerPrompt(f)
           \/ PollSignPayload(f) \/ SignBreaks(f) \/ SignAnswered(f)
    PROVE  SignsAreRecorded' /\ ReceiptsAreRecorded'
<1>. DEFINE Moves == \A g \in Flows \ {f} : flow'[g] = flow[g]
            Stays == Moves /\ flow'[f].tries = flow[f].tries
<1>. USE DEF RecordInv, FlowInv, FlowTyped, FlowRecord
<1>1. UNCHANGED vars
  BY DEF PostBreaks, PostAnswered, Confirm, AnswerPrompt, PollSignPayload, SignBreaks, SignAnswered
<1>2. CASE PostBreaks(f)
  <2>1. Moves /\ flow'[f].pc \in {"post", "refused"}
    BY <1>2 DEF PostBreaks, Goto
  <2>. QED
    BY <1>1, <2>1, AppOnlyRecord DEF Opened
<1>3. CASE PostAnswered(f)
  <2>1. /\ Stays /\ flow'[f].pc \in {"refused", "left", "confirm", "pin"}
        /\ flow'[f].pc \in {"confirm", "pin"} => create[ProposalOf(f)] = "done"
    BY <1>3 DEF PostAnswered, Goto, Prompt
  <2>. QED
    BY <1>1, <2>1, AppOnlyRecord DEF Opened
<1>4. CASE Confirm(f) \/ AnswerPrompt(f) \/ PollSignPayload(f) \/ SignBreaks(f)
  <2>1. /\ Stays /\ flow[f].pc \in Opened
        /\ flow'[f].pc \in {"pin", "cancelled", "poll", "sign", "failed"}
    BY <1>4 DEF Confirm, AnswerPrompt, PollSignPayload, SignBreaks, Goto, Prompt, Opened
  <2>2. create[ProposalOf(f)] = "done"
    BY <2>1 DEF ReceiptsAreRecorded
  <2>. QED
    BY <1>1, <2>1, <2>2, AppOnlyRecord
<1>5. CASE SignAnswered(f)
  <2>1. /\ Stays /\ flow[f].pc = "answer" /\ flow'[f].pc \in {"paid", "failed"}
        /\ flow'[f].pc = "paid" =>
              submit[SigningOf(f)].pc = "done" /\ submit[SigningOf(f)].got # "none"
    BY <1>5 DEF SignAnswered, Goto
  <2>2. SigningOf(f) \in Submits
    BY <2>1, NamesTyped
  <2>3. create[ProposalOf(f)] = "done"
    BY <2>1 DEF ReceiptsAreRecorded, Opened
  <2>4. flow'[f].pc = "paid" => OnRecord(ProposalOf(f))
    BY <2>1, <2>2 DEF ReceiptsAreRecorded, SignsAreRecorded
  <2>. QED
    BY <1>1, <2>1, <2>3, <2>4, AppOnlyRecord
<1>. QED
  BY <1>2, <1>3, <1>4, <1>5

LEMMA PostRecord ==
    ASSUME RecordInv, NEW f \in Flows, Post(f)
    PROVE  SignsAreRecorded' /\ ReceiptsAreRecorded'
<1>1. ProposalOf(f) \in Proposals
  BY NamesTyped DEF RecordInv, FlowInv
<1>2. /\ UNCHANGED <<mirror, submit>>
      /\ \A p \in Proposals : create[p] = "done" => create'[p] = "done"
      /\ \A g \in Flows \ {f} : flow'[g] = flow[g]
      /\ flow'[f].pc = "wait"
  BY <1>1 DEF Post, StartCreate, Goto, RecordInv, FlowInv, FlowTyped, FlowRecord, Inv, TypeOK
<1>3. SignsAreRecorded'
  BY <1>2 DEF RecordInv, SignsAreRecorded, OnRecord
<1>4. ASSUME NEW g \in Flows \ {f}
      PROVE  /\ ProposalOf(g)' = ProposalOf(g) /\ SigningOf(g)' = SigningOf(g)
             /\ ProposalOf(g) \in Proposals
  BY <1>2, NamesTyped DEF ProposalOf, SigningOf, RecordInv, FlowInv
<1>. QED
  BY <1>2, <1>3, <1>4 DEF RecordInv, ReceiptsAreRecorded, OnRecord, Opened

LEMMA SignRecord ==
    ASSUME RecordInv, NEW f \in Flows, Sign(f)
    PROVE  SignsAreRecorded' /\ ReceiptsAreRecorded'
<1>1. /\ flow[f].pc = "sign" /\ ProposalOf(f) \in Proposals /\ SigningOf(f) \in Submits
      /\ create[ProposalOf(f)] = "done"
  BY NamesTyped DEF Sign, RecordInv, FlowInv, FlowTyped, ReceiptsAreRecorded, Opened
<1>2. /\ UNCHANGED <<create, mirror>> /\ submit[SigningOf(f)].pc = "idle"
      /\ \A r \in Submits \ {SigningOf(f)} : submit'[r] = submit[r]
      /\ submit'[SigningOf(f)].pc = "call" /\ submit'[SigningOf(f)].kind = "sign"
      /\ submit'[SigningOf(f)].of = ProposalOf(f)
      /\ submit'[SigningOf(f)].got = submit[SigningOf(f)].got
  BY <1>1 DEF Sign, StartSubmit, RecordInv, FlowInv, Inv, TypeOK
<1>3. /\ \A g \in Flows \ {f} : flow'[g] = flow[g]
      /\ flow'[f].pc = "answer"
      /\ flow'[f].tries = flow[f].tries /\ flow'[f].prompts = flow[f].prompts
  BY DEF Sign, Goto, RecordInv, FlowInv, FlowTyped, FlowRecord
<1>4. SignsAreRecorded'
  BY <1>1, <1>2 DEF RecordInv, SignsAreRecorded, OnRecord
<1>5. ASSUME NEW g \in Flows
      PROVE  ProposalOf(g)' = ProposalOf(g) /\ SigningOf(g)' = SigningOf(g)
  BY <1>3 DEF ProposalOf, SigningOf
<1>6. ASSUME NEW g \in Flows, flow[g].pc = "answer"
      PROVE  SigningOf(g) \in Submits \ {SigningOf(f)}
  BY <1>1, <1>2, <1>6, NamesTyped DEF RecordInv, FlowInv, FlowTyped, ReceiptsAreRecorded
<1>7. ASSUME NEW g \in Flows \ {f}
      PROVE  /\ flow'[g].pc \in Opened => create'[ProposalOf(g)'] = "done"
             /\ flow'[g].pc = "answer" =>
                  /\ submit'[SigningOf(g)'].kind = "sign"
                  /\ submit'[SigningOf(g)'].of = ProposalOf(g)'
                  /\ submit'[SigningOf(g)'].pc # "idle"
             /\ flow'[g].pc = "paid" => OnRecord(ProposalOf(g))'
  BY <1>2, <1>3, <1>5, <1>6 DEF RecordInv, ReceiptsAreRecorded, OnRecord
<1>8. /\ create'[ProposalOf(f)'] = "done"
      /\ submit'[SigningOf(f)'].kind = "sign"
      /\ submit'[SigningOf(f)'].of = ProposalOf(f)'
      /\ submit'[SigningOf(f)'].pc # "idle"
  BY <1>1, <1>2, <1>5
<1>. QED
  BY <1>3, <1>4, <1>7, <1>8 DEF ReceiptsAreRecorded

LEMMA BmoniRecord ==
    ASSUME RecordInv, NEW p \in Proposals, BmoniStep(p)
    PROVE  SignsAreRecorded' /\ Grows
<1>1. UNCHANGED <<create, submit, mirror>>
  BY DEF BmoniStep, BmoniMoves, PreparePayload, Execute, Expire
<1>. QED
  BY <1>1 DEF RecordInv, SignsAreRecorded, OnRecord, Grows

LEMMA RecordStep ==
    ASSUME RecordInv, [FlowNext]_flowVars
    PROVE  RecordInv'
<1>1. FlowInv'
  BY FlowStepInv DEF RecordInv
<1>2. ASSUME NEW f \in Flows, AppStep(f) \/ PersonOrNetwork(f)
      PROVE  SignsAreRecorded' /\ ReceiptsAreRecorded'
  BY <1>2, PostRecord, SignRecord, PaymentRecord DEF AppStep, PersonOrNetwork
<1>3. ASSUME NEW r \in Others, NEW p \in Proposals, OtherRejects(r, p)
      PROVE  SignsAreRecorded' /\ ReceiptsAreRecorded'
  BY <1>3, OtherRejectsRecord, ReceiptsStay DEF OtherRejects
<1>4. ASSUME NEW p \in Proposals, ServeCreateOf(p) \/ (BmoniStep(p) /\ UNCHANGED flow)
      PROVE  SignsAreRecorded' /\ ReceiptsAreRecorded'
  BY <1>4, ServeCreateRecord, BmoniRecord, ReceiptsStay DEF ServeCreateOf
<1>5. ASSUME NEW r \in Submits, ServeSubmitOf(r)
      PROVE  SignsAreRecorded' /\ ReceiptsAreRecorded'
  BY <1>5, ServeSubmitRecord, ReceiptsStay DEF ServeSubmitOf
<1>6. CASE UNCHANGED flowVars
  <2>1. UNCHANGED <<flow, create, submit, mirror>>
    BY <1>6 DEF flowVars, vars
  <2>2. SignsAreRecorded'
    BY <2>1 DEF RecordInv, SignsAreRecorded, OnRecord
  <2>3. Grows
    BY <2>1 DEF Grows, OnRecord
  <2>. QED
    BY <1>1, <2>1, <2>2, <2>3, ReceiptsStay DEF RecordInv
<1>. QED
  BY <1>1, <1>2, <1>3, <1>4, <1>5, <1>6 DEF FlowNext, RecordInv

(* Whatever overlaps it, a payment shown as paid is on file as signed, or  *)
(* as declined since: never as one that waits for its signature            *)
(* (transfer_flow.dart; transfer.service.ts, lines 112-119).               *)
THEOREM PaidRecorded == FlowSpec => []PaidIsOnRecord
<1>1. FlowInit => RecordInv
  <2>1. FlowInit => SignsAreRecorded
    BY DEF FlowInit, Init, SignsAreRecorded
  <2>2. FlowInit => ReceiptsAreRecorded
    BY DEF FlowInit, Tapped, ReceiptsAreRecorded, Opened
  <2>. QED
    BY <2>1, <2>2, InitFlowInv DEF RecordInv
<1>2. RecordInv => PaidIsOnRecord
  BY DEF RecordInv, ReceiptsAreRecorded, PaidIsOnRecord, OnRecord
<1>. QED
  BY <1>1, <1>2, RecordStep, PTL DEF FlowSpec

=============================================================================
