----------------------------- MODULE TransferFlow -----------------------------
(***************************************************************************)
(* app/lib: one payment on the phone, from the tap or the scan to the      *)
(* receipt, over the backend's TransferService.  The app posts a create    *)
(* request, asks for the PIN, polls for the sign payload, signs it on the  *)
(* device and posts the signature.  A connection that breaks tells the app *)
(* nothing of the request, which the server may still be serving: a scan   *)
(* posts again (withRetry), a signature does not.                          *)
(*                                                                         *)
(* A flow's n-th create request is the proposal <<flow, n>>, its n-th PIN  *)
(* prompt leads to the sign request <<flow, n>>.                           *)
(***************************************************************************)
EXTENDS TransferService, Integers

CONSTANTS
    Flows,             \* payments: one tap of "Review & send", or one scan
    Others,            \* reject requests of other callers of the API
    MaxTries,          \* attempts of withRetry (3 in the code)
    MaxPrompts,        \* PIN prompts of one payment, to bound the model
    MaxAttempts        \* polls for a sign payload (8 in the code)

ASSUME FlowAssumption ==
    /\ MaxTries \in Nat \ {0}
    /\ MaxPrompts \in Nat \ {0}
    /\ MaxAttempts \in Nat \ {0}
    /\ Proposals = Flows \X (1 .. MaxTries)
    /\ Submits = (Flows \X (1 .. MaxPrompts)) \union Others
    /\ Others \intersect (Flows \X (1 .. MaxPrompts)) = {}

VARIABLE flow

flowVars == <<vars, flow>>

(* What the person sees: waiting for the server, a question, an ending.    *)
Busy    == {"post", "wait", "poll", "sign", "answer"}
Asking  == {"confirm", "pin"}
Endings == {"refused", "left", "cancelled", "failed", "paid"}

FlowTypeOK ==
    /\ TypeOK
    /\ flow \in [Flows -> [screen  : {"send", "scan"},
                           pc      : Busy \union Asking \union Endings,
                           tries   : 1 .. MaxTries,
                           prompts : 0 .. MaxPrompts,
                           polls   : 0 .. (MaxAttempts - 1)]]

Tapped(screen) ==
    [screen |-> screen, pc |-> "post", tries |-> 1, prompts |-> 0, polls |-> 0]

FlowInit ==
    /\ Init
    /\ flow \in [Flows -> {Tapped("send"), Tapped("scan")}]

ProposalOf(f) == <<f, flow[f].tries>>
SigningOf(f)  == <<f, flow[f].prompts>>

Goto(f, pc) == flow' = [flow EXCEPT ![f].pc = pc]

----------------------------------------------------------------------------
(* Asking for a proposal: createTransfer, or payQr inside withRetry. *)

Post(f) ==
    /\ flow[f].pc = "post"
    /\ StartCreate(ProposalOf(f))
    /\ Goto(f, "wait")

(* The connection breaks before the request arrived or before its answer   *)
(* did: only withRetry tries again, and not for ever.                      *)
PostBreaks(f) ==
    /\ flow[f].pc \in {"post", "wait"}
    /\ IF flow[f].screen = "scan" /\ flow[f].tries < MaxTries
         THEN flow' = [flow EXCEPT ![f].pc = "post", ![f].tries = @ + 1]
         ELSE Goto(f, "refused")
    /\ UNCHANGED vars

Prompt(f) ==
    flow' = [flow EXCEPT ![f].pc = "pin", ![f].prompts = @ + 1, ![f].polls = 0]

(* An error of the server is shown, never retried.  A proposal is asked    *)
(* about, on a scan after a look at it, unless the screen is gone.         *)
PostAnswered(f) ==
    /\ flow[f].pc = "wait"
    /\ \/ create[ProposalOf(f)] = "failed" /\ Goto(f, "refused")
       \/ /\ create[ProposalOf(f)] = "done"
          /\ \/ Goto(f, "left")
             \/ flow[f].screen = "scan" /\ Goto(f, "confirm")
             \/ flow[f].screen = "send" /\ Prompt(f)
    /\ UNCHANGED vars

----------------------------------------------------------------------------
(* signAndSubmitTransfer *)

(* The confirm screen stays after a cancelled prompt and after an error,   *)
(* and its button prompts again for the same proposal.                     *)
Confirm(f) ==
    /\ flow[f].screen = "scan"
    /\ flow[f].pc \in {"confirm", "cancelled", "failed"}
    /\ flow[f].prompts < MaxPrompts
    /\ Prompt(f)
    /\ UNCHANGED vars

AnswerPrompt(f) ==
    /\ flow[f].pc = "pin"
    /\ \E next \in {"cancelled", "poll"} : Goto(f, next)
    /\ UNCHANGED vars

(* Mutant: the attempts start again after every 409. *)
PollSignPayload_Restarts(f) ==
    /\ flow[f].pc = "poll"
    /\ IF stage[ProposalOf(f)] = "ready"
         THEN \E next \in {"sign", "failed"} : Goto(f, next)
       ELSE IF stage[ProposalOf(f)] = "preparing"
         THEN flow' = [flow EXCEPT ![f].polls = 0]
         ELSE Goto(f, "failed")
    /\ UNCHANGED vars

(* A 409 is retried, the last one and any other error is shown; the        *)
(* payload is signed on the device, which a wrong PIN prevents.            *)
PollSignPayload(f) ==
    /\ flow[f].pc = "poll"
    /\ IF stage[ProposalOf(f)] = "ready"
         THEN \E next \in {"sign", "failed"} : Goto(f, next)
       ELSE IF stage[ProposalOf(f)] = "preparing" /\ flow[f].polls < MaxAttempts - 1
         THEN flow' = [flow EXCEPT ![f].polls = @ + 1]
         ELSE Goto(f, "failed")
    /\ UNCHANGED vars

Sign(f) ==
    /\ flow[f].pc = "sign"
    /\ StartSubmit(SigningOf(f), "sign", ProposalOf(f))
    /\ Goto(f, "answer")

(* Mutant: a broken connection asks for the PIN again. *)
SignBreaks_AsksAgain(f) ==
    /\ flow[f].pc \in {"poll", "sign", "answer"}
    /\ IF flow[f].prompts < MaxPrompts THEN Prompt(f) ELSE Goto(f, "failed")
    /\ UNCHANGED vars

(* Mutant: a broken connection starts the payment again, as withRetry does. *)
SignBreaks_StartsOver(f) ==
    /\ flow[f].pc \in {"poll", "sign", "answer"}
    /\ IF flow[f].screen = "scan" /\ flow[f].tries < MaxTries
         THEN flow' = [flow EXCEPT ![f].pc = "post", ![f].tries = @ + 1]
         ELSE Goto(f, "failed")
    /\ UNCHANGED vars

SignBreaks(f) ==
    /\ flow[f].pc \in {"poll", "sign", "answer"}
    /\ Goto(f, "failed")
    /\ UNCHANGED vars

(* Mutant: an answer of whatever shape is a receipt. *)
SignAnswered_AnyAnswer(f) ==
    /\ flow[f].pc = "answer"
    /\ \/ submit[SigningOf(f)].pc = "done" /\ Goto(f, "paid")
       \/ submit[SigningOf(f)].pc = "failed" /\ Goto(f, "failed")
    /\ UNCHANGED vars

(* An answer without a proposal cannot be read (Proposal.fromJson), so the *)
(* signature was accepted and the person is shown an error.                *)
SignAnswered(f) ==
    /\ flow[f].pc = "answer"
    /\ submit[SigningOf(f)].pc \in Ended
    /\ IF submit[SigningOf(f)].pc = "done" /\ submit[SigningOf(f)].got # "none"
         THEN Goto(f, "paid")
         ELSE Goto(f, "failed")
    /\ UNCHANGED vars

----------------------------------------------------------------------------

OtherRejects(r, p) == StartSubmit(r, "reject", p) /\ UNCHANGED flow

AppStep(f) ==
    \/ Post(f) \/ PostAnswered(f)
    \/ PollSignPayload(f) \/ Sign(f) \/ SignAnswered(f)

PersonOrNetwork(f) ==
    PostBreaks(f) \/ Confirm(f) \/ AnswerPrompt(f) \/ SignBreaks(f)

ServeCreateOf(p) == ServeCreate(p) /\ UNCHANGED flow
ServeSubmitOf(r) == ServeSubmit(r) /\ UNCHANGED flow

FlowNext ==
    \/ \E f \in Flows : AppStep(f) \/ PersonOrNetwork(f)
    \/ \E r \in Others, p \in Proposals : OtherRejects(r, p)
    \/ \E p \in Proposals : ServeCreateOf(p) \/ (BmoniStep(p) /\ UNCHANGED flow)
    \/ \E r \in Submits : ServeSubmitOf(r)

(* The app goes on when it can, and the server ends what it has started:   *)
(* each of its awaits returns or throws (axios gives up after 30 seconds). *)
(* A person need not answer, BMONI need not prepare or execute anything.   *)
FlowSpec ==
    /\ FlowInit
    /\ [][FlowNext]_flowVars
    /\ \A f \in Flows : WF_flowVars(AppStep(f))
    /\ \A p \in Proposals : WF_flowVars(ServeCreateOf(p))
    /\ \A r \in Submits : WF_flowVars(ServeSubmitOf(r))

----------------------------------------------------------------------------
(* Properties *)

(* However often a scan was posted again, and whatever the earlier requests *)
(* still do on the server, one payment signs at most one proposal.         *)
OnePaymentPerTap ==
    \A f \in Flows, m, n \in 1 .. MaxTries :
        /\ stage[<<f, m>>] \in {"signed", "executed"}
        /\ stage[<<f, n>>] \in {"signed", "executed"}
        => m = n

(* 'Cancelled - no signature was submitted, so nothing moved.' is true of  *)
(* every proposal of the payment and stays true.                           *)
CancelledMovesNothing ==
    \A f \in Flows :
        flow[f].screen = "send" /\ flow[f].pc = "cancelled" =>
            \A n \in 1 .. MaxTries : ~ Funded(<<f, n>>)

(* A receipt is shown only of a proposal whose row says it was signed, or  *)
(* that somebody declined since.                                           *)
PaidIsOnRecord ==
    \A f \in Flows :
        flow[f].pc = "paid" => mirror[ProposalOf(f)] \in {"signed", "rejected"}

(* The app stops waiting although nothing in it times out and BMONI may    *)
(* never prepare the payload.                                              *)
BusyEnds == \A f \in Flows : flow[f].pc \in Busy ~> flow[f].pc \notin Busy

=============================================================================
