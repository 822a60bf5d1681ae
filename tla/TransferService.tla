--------------------------- MODULE TransferService ---------------------------
(***************************************************************************)
(* backend/src/transfer/transfer.service.ts: the handlers that create,     *)
(* sign and reject a proposal.  Each await is a point where other requests *)
(* run, where the call may fail, and where the reply of a call that took   *)
(* effect may be lost (axios gives up after 30 seconds).                   *)
(***************************************************************************)
EXTENDS TransferProposals

CONSTANTS
    Submits,           \* sign and reject requests
    None               \* a value that is no proposal

ASSUME SubmitsAssumption == None \notin Proposals

VARIABLES
    create,            \* the createTransfer handler of each proposal
    submit             \* the submitSignature or reject handler of each submit

vars == <<stage, mirror, create, submit>>

CreatePC == {"idle", "propose", "persist", "done", "failed"}
SubmitPC == {"idle", "call", "persist", "done", "failed"}
Kinds    == {"sign", "reject"}

Ended == {"done", "failed"}

(* Rows and handlers hold what the schema and the code let them hold; a row *)
(* only what BMONI reports of a proposal (persistProposal).                 *)
TypeOK ==
    /\ TypeOKProposals
    /\ create \in [Proposals -> CreatePC]
    /\ submit \in [Submits -> [pc   : SubmitPC,
                               kind : Kinds,
                               of   : Proposals \union {None},
                               got  : Rows]]

Init ==
    /\ InitProposals
    /\ create = [p \in Proposals |-> "idle"]
    /\ submit = [r \in Submits |->
                   [pc |-> "idle", kind |-> "sign", of |-> None, got |-> "none"]]

----------------------------------------------------------------------------
(* createTransfer *)

(* The user and the wallet are looked up before anything is sent. *)
StartCreate(p) ==
    /\ create[p] = "idle"
    /\ create' = [create EXCEPT ![p] = "propose"]
    /\ UNCHANGED <<stage, mirror, submit>>

(* createProposal takes effect at BMONI; its reply arrives or is lost. *)
Propose(p) ==
    /\ create[p] = "propose"
    /\ CreateProposal(p)
    /\ \E next \in {"persist", "failed"} : create' = [create EXCEPT ![p] = next]
    /\ UNCHANGED <<mirror, submit>>

(* Mutant: the row keeps BMONI's own stage rather than what it reports. *)
PersistCreated_KeepsStage(p) ==
    /\ create[p] = "persist"
    /\ PersistProposal(p, stage[p])
    /\ create' = [create EXCEPT ![p] = "done"]
    /\ UNCHANGED <<stage, submit>>

(* The row is written from the reply, which describes the new proposal. *)
PersistCreated(p) ==
    /\ create[p] = "persist"
    /\ PersistProposal(p, "created")
    /\ create' = [create EXCEPT ![p] = "done"]
    /\ UNCHANGED <<stage, submit>>

(* An unknown user, no wallet, a refusal by BMONI, a database error or a   *)
(* crash: the handler stops and nothing it did is undone.                  *)
AbortCreate(p) ==
    /\ create[p] \in {"propose", "persist"}
    /\ create' = [create EXCEPT ![p] = "failed"]
    /\ UNCHANGED <<stage, mirror, submit>>

----------------------------------------------------------------------------
(* submitSignature and reject *)

(* A caller knows a proposal's id from createTransfer's reply or from      *)
(* listProposals, which asks BMONI, so an unrecorded one can be acted on.  *)
StartSubmit(r, kind, p) ==
    /\ submit[r].pc = "idle"
    /\ stage[p] # "absent"
    /\ submit' = [submit EXCEPT ![r].pc = "call", ![r].kind = kind, ![r].of = p]
    /\ UNCHANGED <<stage, mirror, create>>

(* What the handler does with BMONI's answer: keep the proposal it carries *)
(* to store it, finish when it carries none, or fail when it never comes.  *)
Answer(r, report) ==
    \/ submit' = [submit EXCEPT ![r].pc = "persist", ![r].got = report]
    \/ \E end \in Ended : submit' = [submit EXCEPT ![r].pc = end]

(* Mutant: the row is written before BMONI has accepted the signature. *)
CallSign_StoresFirst(r) ==
    /\ submit[r].pc = "call"
    /\ submit[r].kind = "sign"
    /\ stage[submit[r].of] \in {"preparing", "ready"}
    /\ submit' = [submit EXCEPT ![r].pc = "persist", ![r].got = "signed"]
    /\ UNCHANGED <<stage, mirror, create>>

CallSign(r) ==
    /\ submit[r].pc = "call"
    /\ submit[r].kind = "sign"
    /\ SignProposal(submit[r].of)
    /\ Answer(r, "signed")
    /\ UNCHANGED <<mirror, create>>

CallReject(r) ==
    /\ submit[r].pc = "call"
    /\ submit[r].kind = "reject"
    /\ RejectProposal(submit[r].of)
    /\ Answer(r, "rejected")
    /\ UNCHANGED <<mirror, create>>

(* Mutant: a late answer is dropped when the row already says something. *)
PersistSubmitted_FirstWins(r) ==
    /\ submit[r].pc = "persist"
    /\ IF mirror[submit[r].of] \in {"none", "created"} /\ submit[r].kind = "sign"
         THEN PersistProposal(submit[r].of, submit[r].got)
         ELSE UNCHANGED mirror
    /\ submit' = [submit EXCEPT ![r].pc = "done"]
    /\ UNCHANGED <<stage, create>>

(* The row is written from what BMONI answered to this call, however old   *)
(* that answer is by now.                                                  *)
PersistSubmitted(r) ==
    /\ submit[r].pc = "persist"
    /\ PersistProposal(submit[r].of, submit[r].got)
    /\ submit' = [submit EXCEPT ![r].pc = "done"]
    /\ UNCHANGED <<stage, create>>

AbortSubmit(r) ==
    /\ submit[r].pc \in {"call", "persist"}
    /\ submit' = [submit EXCEPT ![r].pc = "failed"]
    /\ UNCHANGED <<stage, mirror, create>>

----------------------------------------------------------------------------

ServeCreate(p) == Propose(p) \/ PersistCreated(p) \/ AbortCreate(p)
ServeSubmit(r) ==
    CallSign(r) \/ CallReject(r) \/ PersistSubmitted(r) \/ AbortSubmit(r)

CreateStep(p) == StartCreate(p) \/ ServeCreate(p)

SubmitStep(r) ==
    \/ \E kind \in Kinds, p \in Proposals : StartSubmit(r, kind, p)
    \/ ServeSubmit(r)

BmoniStep(p) ==
    BmoniMoves(p) /\ UNCHANGED <<create, submit>>

Next ==
    \/ \E p \in Proposals : CreateStep(p) \/ BmoniStep(p)
    \/ \E r \in Submits : SubmitStep(r)

Spec == Init /\ [][Next]_vars

----------------------------------------------------------------------------
(* Properties *)

Behind(row, s) ==
    CASE row = "none"     -> TRUE
      [] row = "created"  -> s # "absent"
      [] row = "signed"   -> s \in {"signed", "executed", "rejected", "expired"}
      [] row = "rejected" -> s = "rejected"
      [] OTHER            -> FALSE

(* However the replies of concurrent requests interleave with the writes,  *)
(* PayFlex's row never claims a step BMONI has not taken: no row without a *)
(* proposal, none signed before the signature was accepted, none rejected  *)
(* unless it is.  (persistProposal runs only after the answer.)            *)
MirrorNeverAhead == \A p \in Proposals : Behind(mirror[p], stage[p])

(* One request at a time for a proposal, none of which fails and each of    *)
(* which gets the proposal back from BMONI.                                *)
OneAtATime(p) ==
    /\ create[p] # "failed"
    /\ \A r \in Submits :
          submit[r].of = p =>
              /\ create[p] = "done"
              /\ submit[r].pc # "failed"
              /\ submit[r].pc = "done" => submit[r].got # "none"
              /\ \A q \in Submits \ {r} :
                    submit[q].of = p => {submit[q].pc, submit[r].pc} \cap Ended # {}

(* What a request could have stored of a proposal at stage s.  BMONI       *)
(* executes and expires proposals on its own, and tells PayFlex neither.   *)
Tells(report, s) ==
    \/ report = Report(s)
    \/ report = "signed" /\ s = "executed"
    \/ report \in {"created", "signed"} /\ s = "expired"

(* Every request for the proposal has been served, and got it back. *)
AtRest(p) ==
    /\ create[p] = "done"
    /\ \A r \in Submits :
          submit[r].of = p => submit[r].pc = "done" /\ submit[r].got # "none"

(* When nothing is in flight for a proposal and nothing of it failed, its  *)
(* row reports what BMONI would, but for what BMONI did on its own.        *)
MirrorAgrees(p) == AtRest(p) => Tells(mirror[p], stage[p])

(* For each proposal: as long as its requests are served one at a time and *)
(* without failures, its row mirrors BMONI, whatever overlaps or fails for *)
(* other proposals.  A row that is stale at rest needs an overlap or a     *)
(* failure of its own proposal's requests, or a move of BMONI's own.       *)
SerialRequestsMirror ==
    \A p \in Proposals : []OneAtATime(p) => []MirrorAgrees(p)

=============================================================================
