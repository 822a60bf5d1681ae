-------------------------------- MODULE Links --------------------------------
(***************************************************************************)
(* backend/src/links/links.service.ts: send-via-link.                      *)
(*                                                                         *)
(* A send to somebody PayFlex does not know creates a ClaimableLink row    *)
(* and a proposal that moves the amount to PayFlex's treasury (the escrow),*)
(* and answers with a claim token.  Whoever presents the token gets a      *)
(* second proposal, from the treasury to himself (the release), which the  *)
(* server signs.  The rows are read and written by separate statements,    *)
(* with no lock, transaction or conditional update between them.           *)
(*                                                                         *)
(* A link and its escrow proposal are named by the send request, a release *)
(* proposal by the claim request that created it.                          *)
(***************************************************************************)
EXTENDS Naturals, TransferProposals

CONSTANTS
    Sends,             \* send-via-link requests, and so the links they create
    Claims,            \* claim requests
    Users,             \* users who may claim
    Claimant,          \* the user who makes each claim
    None,              \* a value that is no send, claim or user
    MaxAttempts        \* polls for a sign payload (8 in the code)

ASSUME LinksAssumption ==
    /\ Proposals = Sends \union Claims
    /\ Sends \intersect Claims = {}
    /\ None \notin Sends \union Claims \union Users
    /\ Claimant \in [Claims -> Users]
    /\ MaxAttempts \in Nat \ {0}

VARIABLES
    link,              \* the ClaimableLink rows
    expired,           \* the links whose expiresAt the clock has passed
    send,              \* the sendViaLink handler of each send
    claim              \* the claim handler of each claim

vars == <<stage, mirror, link, expired, send, claim>>

Statuses == {"none", "PENDING_ESCROW", "ESCROWED", "CLAIMED", "EXPIRED"}
Terminal == {"CLAIMED", "EXPIRED"}
SendPC   == {"idle", "propose", "persist", "escrow", "done", "failed"}
ClaimPC  == {"idle", "read", "deadline", "expire", "propose", "persist",
             "poll", "sign", "store", "update", "done", "failed"}
Ended    == {"done", "failed"}
Attempts == 0 .. (MaxAttempts - 1)

(* Rows and handlers hold what the schema and the code let them hold; the *)
(* poll counter never reaches MaxAttempts (waitForSignPayload).            *)
TypeOK ==
    /\ TypeOKProposals
    /\ link \in [Sends -> [status    : Statuses,
                           escrow    : Sends \union {None},
                           claimedBy : Users \union {None},
                           release   : Claims \union {None}]]
    /\ expired \subseteq Sends
    /\ send \in [Sends -> SendPC]
    /\ claim \in [Claims -> [pc      : ClaimPC,
                             link    : Sends \union {None},
                             attempt : Attempts]]

Init ==
    /\ InitProposals
    /\ link = [l \in Sends |-> [status |-> "none", escrow |-> None,
                                claimedBy |-> None, release |-> None]]
    /\ expired = {}
    /\ send = [l \in Sends |-> "idle"]
    /\ claim = [c \in Claims |-> [pc |-> "idle", link |-> None, attempt |-> 0]]

----------------------------------------------------------------------------
(* sendViaLink and createEscrowedLink *)

(* The recipient is a PayFlex user: an ordinary transfer, and no row. *)
StartDirect(l) ==
    /\ send[l] = "idle"
    /\ send' = [send EXCEPT ![l] = "propose"]
    /\ UNCHANGED <<stage, mirror, link, expired, claim>>

(* He is not, and the treasury has the wallet: the row is created first. *)
StartEscrow(l) ==
    /\ send[l] = "idle"
    /\ link' = [link EXCEPT ![l].status = "PENDING_ESCROW"]
    /\ send' = [send EXCEPT ![l] = "propose"]
    /\ UNCHANGED <<stage, mirror, expired, claim>>

(* createTransfer, at BMONI; the reply arrives or is lost. *)
ProposeSend(l) ==
    /\ send[l] = "propose"
    /\ CreateProposal(l)
    /\ \E next \in {"persist", "failed"} : send' = [send EXCEPT ![l] = next]
    /\ UNCHANGED <<mirror, link, expired, claim>>

(* Mutant: the row says ESCROWED and the escrow is not noted in it. *)
PersistSend_ForgetsEscrow(l) ==
    /\ send[l] = "persist"
    /\ PersistProposal(l, "created")
    /\ link' = [link EXCEPT ![l].status = "ESCROWED"]
    /\ send' = [send EXCEPT ![l] = "done"]
    /\ UNCHANGED <<stage, expired, claim>>

(* createTransfer, its row; a direct transfer is then complete. *)
PersistSend(l) ==
    /\ send[l] = "persist"
    /\ PersistProposal(l, "created")
    /\ send' = [send EXCEPT ![l] = IF link[l].status = "none" THEN "done" ELSE "escrow"]
    /\ UNCHANGED <<stage, link, expired, claim>>

(* The row becomes ESCROWED once the escrow proposal exists, unsigned as it *)
(* is, and the handler answers with the claim token.                        *)
WriteEscrowed(l) ==
    /\ send[l] = "escrow"
    /\ link' = [link EXCEPT ![l].status = "ESCROWED", ![l].escrow = l]
    /\ send' = [send EXCEPT ![l] = "done"]
    /\ UNCHANGED <<stage, mirror, expired, claim>>

(* An unknown user or wallet, a refusal, a database error or a crash: the  *)
(* handler stops and nothing it did is undone.                             *)
AbortSend(l) ==
    /\ send[l] \in {"propose", "persist", "escrow"}
    /\ send' = [send EXCEPT ![l] = "failed"]
    /\ UNCHANGED <<stage, mirror, link, expired, claim>>

----------------------------------------------------------------------------
(* claim *)

(* Goes to step pc of the claim handler. *)
Goto(c, pc) == claim' = [claim EXCEPT ![c].pc = pc]

(* The answer of a completed escrow send carries the token. *)
Token(l) == send[l] = "done" /\ link[l].status # "none"

(* tokens.verify: the token is genuine and its expiresAt, the link's own,  *)
(* has not passed.                                                         *)
StartClaim(c, l) ==
    /\ claim[c].pc = "idle"
    /\ Token(l)
    /\ l \notin expired
    /\ claim' = [claim EXCEPT ![c].pc = "read", ![c].link = l]
    /\ UNCHANGED <<stage, mirror, link, expired, send>>

(* Mutant: only an expired link is refused. *)
ReadLink_RefusesExpired(c) ==
    /\ claim[c].pc = "read"
    /\ Goto(c, IF link[claim[c].link].status # "EXPIRED" THEN "deadline" ELSE "failed")
    /\ UNCHANGED <<stage, mirror, link, expired, send>>

ReadLink(c) ==
    /\ claim[c].pc = "read"
    /\ Goto(c, IF link[claim[c].link].status = "ESCROWED" THEN "deadline" ELSE "failed")
    /\ UNCHANGED <<stage, mirror, link, expired, send>>

CheckDeadline(c) ==
    /\ claim[c].pc = "deadline"
    /\ Goto(c, IF claim[c].link \in expired THEN "expire" ELSE "propose")
    /\ UNCHANGED <<stage, mirror, link, expired, send>>

(* Mutant: an expired link is rewritten as a fresh row. *)
WriteExpired_ResetsRow(c) ==
    /\ claim[c].pc = "expire"
    /\ link' = [link EXCEPT ![claim[c].link].status = "EXPIRED",
                            ![claim[c].link].claimedBy = None,
                            ![claim[c].link].release = None]
    /\ Goto(c, "failed")
    /\ UNCHANGED <<stage, mirror, expired, send>>

(* The status is overwritten whatever it has become since it was read. *)
WriteExpired(c) ==
    /\ claim[c].pc = "expire"
    /\ link' = [link EXCEPT ![claim[c].link].status = "EXPIRED"]
    /\ Goto(c, "failed")
    /\ UNCHANGED <<stage, mirror, expired, send>>

(* Mutant: the release goes to be signed before its row is written. *)
ProposeRelease_Unfiled(c) ==
    /\ claim[c].pc = "propose"
    /\ CreateProposal(c)
    /\ \E next \in {"poll", "failed"} : Goto(c, next)
    /\ UNCHANGED <<mirror, link, expired, send>>

(* createTransfer treasury -> claimant, at BMONI. *)
ProposeRelease(c) ==
    /\ claim[c].pc = "propose"
    /\ CreateProposal(c)
    /\ \E next \in {"persist", "failed"} : Goto(c, next)
    /\ UNCHANGED <<mirror, link, expired, send>>

PersistRelease(c) ==
    /\ claim[c].pc = "persist"
    /\ PersistProposal(c, "created")
    /\ Goto(c, "poll")
    /\ UNCHANGED <<stage, link, expired, send>>

(* Mutant: a poll that finds the payload unprepared forgets to count. *)
PollSignPayload_Uncounted(c) ==
    /\ claim[c].pc = "poll"
    /\ IF stage[c] = "ready" THEN Goto(c, "sign")
       ELSE IF stage[c] = "preparing" THEN UNCHANGED claim
       ELSE Goto(c, "failed")
    /\ UNCHANGED <<stage, mirror, link, expired, send>>

(* Mutant: one attempt too many. *)
PollSignPayload_OffByOne(c) ==
    /\ claim[c].pc = "poll"
    /\ IF stage[c] = "ready" THEN Goto(c, "sign")
       ELSE IF stage[c] = "preparing" /\ claim[c].attempt < MaxAttempts
            THEN claim' = [claim EXCEPT ![c].attempt = @ + 1]
            ELSE Goto(c, "failed")
    /\ UNCHANGED <<stage, mirror, link, expired, send>>

(* waitForSignPayload: a 409 is retried, the last one and any other error  *)
(* is thrown.                                                              *)
PollSignPayload(c) ==
    /\ claim[c].pc = "poll"
    /\ IF stage[c] = "ready" THEN Goto(c, "sign")
       ELSE IF stage[c] = "preparing" /\ claim[c].attempt < MaxAttempts - 1
            THEN claim' = [claim EXCEPT ![c].attempt = @ + 1]
            ELSE Goto(c, "failed")
    /\ UNCHANGED <<stage, mirror, link, expired, send>>

(* submitSignature, at BMONI: accepted, with or without the proposal in    *)
(* the answer; accepted and the answer lost; or refused.                   *)
SignRelease(c) ==
    /\ claim[c].pc = "sign"
    /\ \/ SignProposal(c) /\ \E next \in {"store", "update", "failed"} : Goto(c, next)
       \/ stage[c] # "ready" /\ Goto(c, "failed") /\ UNCHANGED stage
    /\ UNCHANGED <<mirror, link, expired, send>>

(* submitSignature, its row. *)
PersistSignature(c) ==
    /\ claim[c].pc = "store"
    /\ PersistProposal(c, "signed")
    /\ Goto(c, "update")
    /\ UNCHANGED <<stage, link, expired, send>>

(* Mutant: the release is recorded only when none was. *)
WriteClaimed_KeepsRelease(c) ==
    LET l == claim[c].link IN
    /\ claim[c].pc = "update"
    /\ link' = [link EXCEPT ![l].status = "CLAIMED",
                            ![l].claimedBy = Claimant[c],
                            ![l].release = IF @ = None THEN c ELSE @]
    /\ Goto(c, "done")
    /\ UNCHANGED <<stage, mirror, expired, send>>

WriteClaimed(c) ==
    LET l == claim[c].link IN
    /\ claim[c].pc = "update"
    /\ link' = [link EXCEPT ![l].status = "CLAIMED",
                            ![l].claimedBy = Claimant[c],
                            ![l].release = c]
    /\ Goto(c, "done")
    /\ UNCHANGED <<stage, mirror, expired, send>>

(* No such claimant, no treasury wallet, a refusal, a database error or a  *)
(* crash at any await: nothing the handler did is undone.                  *)
AbortClaim(c) ==
    /\ claim[c].pc \notin {"idle"} \union Ended
    /\ Goto(c, "failed")
    /\ UNCHANGED <<stage, mirror, link, expired, send>>

----------------------------------------------------------------------------
(* What happens outside the two handlers *)

(* The clock passes the expiresAt of a link. *)
PassDeadline(l) ==
    /\ link[l].status # "none"
    /\ expired' = expired \union {l}
    /\ UNCHANGED <<stage, mirror, link, send, claim>>

(* The sender signs the escrow proposal, through the transfer endpoints;   *)
(* the row may be left behind (see TransferService).                       *)
SignEscrow(l) ==
    /\ SignProposal(l)
    /\ PersistProposal(l, "signed") \/ UNCHANGED mirror
    /\ UNCHANGED <<link, expired, send, claim>>

(* Its owner rejects a proposal, through the transfer endpoints. *)
Decline(p) ==
    /\ RejectProposal(p)
    /\ PersistProposal(p, "rejected") \/ UNCHANGED mirror
    /\ UNCHANGED <<link, expired, send, claim>>

BmoniStep(p) ==
    BmoniMoves(p) /\ UNCHANGED <<link, expired, send, claim>>

SendStep(l) ==
    \/ StartDirect(l) \/ StartEscrow(l) \/ ProposeSend(l) \/ PersistSend(l)
    \/ WriteEscrowed(l) \/ AbortSend(l)

(* The steps the claim handler takes of itself once it has started. *)
ClaimStep(c) ==
    \/ ReadLink(c) \/ CheckDeadline(c) \/ WriteExpired(c)
    \/ ProposeRelease(c) \/ PersistRelease(c) \/ PollSignPayload(c)
    \/ SignRelease(c) \/ PersistSignature(c) \/ WriteClaimed(c)

Next ==
    \/ \E l \in Sends : SendStep(l) \/ PassDeadline(l) \/ SignEscrow(l)
    \/ \E c \in Claims : \/ ClaimStep(c) \/ AbortClaim(c)
                         \/ \E l \in Sends : StartClaim(c, l)
    \/ \E p \in Proposals : BmoniStep(p) \/ Decline(p)

(* Every await of a claim settles: a database call returns or throws, and  *)
(* a call to BMONI returns or is given up after 30 seconds.                *)
Spec == Init /\ [][Next]_vars /\ \A c \in Claims : WF_vars(ClaimStep(c))

----------------------------------------------------------------------------
(* Properties *)

(* What a CLAIMED row says is true even when several claims overlap and    *)
(* overwrite each other: release is a proposal made for this link and for  *)
(* claimedBy, the treasury has signed it, and PayFlex holds a row for it.  *)
(* A release that is declined or expires stays recorded: nothing looks at  *)
(* it again.                                                               *)
ClaimNamesItsRelease ==
    \A l \in Sends : link[l].claimedBy # None \/ link[l].status = "CLAIMED" =>
        \E c \in Claims :
            /\ link[l].release = c
            /\ claim[c].link = l
            /\ Claimant[c] = link[l].claimedBy
            /\ stage[c] \in {"signed", "executed", "rejected", "expired"}
            /\ mirror[c] # "none"

(* The treasury never makes a release for a link unless the sender's side  *)
(* is on record: the row names its escrow proposal, BMONI has it, and      *)
(* PayFlex holds a row for it.                                             *)
ReleaseFollowsEscrow ==
    \A c \in Claims : stage[c] # "absent" =>
        LET l == claim[c].link IN
        /\ link[l].status \in {"ESCROWED", "CLAIMED", "EXPIRED"}
        /\ link[l].escrow = l
        /\ stage[l] # "absent"
        /\ mirror[l] # "none"

(* Once a link is CLAIMED or EXPIRED, a claim that has not started yet can *)
(* no longer make a release, however the claims still in flight end: the   *)
(* status never returns to ESCROWED.                                       *)
SettledLinkReleasesNoMore ==
    \A c \in Claims, l \in Sends :
        [](link[l].status \in Terminal /\ claim[c].pc = "idle"
             => [](claim[c].link = l => stage[c] = "absent"))

(* A recorded claim is never forgotten, not even by a claim that finds the *)
(* deadline passed and overwrites the status.                              *)
ClaimStaysOnRecord ==
    [][\A l \in Sends : link[l].release # None =>
          /\ link'[l].release # None
          /\ link[l].status \in Terminal /\ link'[l].status \in Terminal]_vars

(* A link as a cause of Release: open while ESCROWED, never again after. *)
Cause(row) ==
    [status |-> CASE row.status \in {"none", "PENDING_ESCROW"} -> "none"
                  [] row.status = "ESCROWED"                   -> "open"
                  [] row.status \in Terminal                   -> "closed",
     by     |-> row.release]
CauseOf == [l \in Sends |-> Cause(link[l])]

(* A claim as a payment of Release, and what its request knows. *)
PaymentOf == [c \in Claims |->
                [status |-> Standing(stage[c]),
                 for    |-> IF stage[c] = "absent" THEN None ELSE claim[c].link]]
Admitted == {<<c, claim[c].link>> :
                c \in {d \in Claims : claim[d].pc \in {"deadline", "propose"}}}
Filed    == {c \in Claims : mirror[c] # "none"}
Answered == {c \in Claims : claim[c].pc \in {"store", "update"}}

Treasury == INSTANCE Release WITH
              Causes <- Sends, Payments <- Claims,
              cause <- CauseOf, admitted <- Admitted, payment <- PaymentOf,
              filed <- Filed, answered <- Answered

(* Claims are releases: however they overlap, fail or are declined, the    *)
(* treasury signs only what a claim that found the link ESCROWED asked for *)
(* and PayFlex has filed, and the link names only what was signed for it.  *)
ClaimsAreReleases == Treasury!Spec

(* Every claim ends, although BMONI may never prepare the sign payload and *)
(* any answer may be lost.                                                 *)
ClaimEnds ==
    \A c \in Claims : claim[c].pc = "read" ~> claim[c].pc \in Ended

(* While a link is ESCROWED the sender's money is on its way to PayFlex:   *)
(* he has signed the escrow proposal (schema.prisma, ClaimableLink).       *)
EscrowedMeansHeld ==
    \A l \in Sends : link[l].status = "ESCROWED" => Funded(l)

(* The treasury releases a link's escrow at most once. *)
OneReleasePerLink ==
    \A c, d \in Claims :
        claim[c].link = claim[d].link /\ Funded(c) /\ Funded(d) => c = d

=============================================================================
