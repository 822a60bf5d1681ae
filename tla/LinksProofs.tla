----------------------------- MODULE LinksProofs -----------------------------
(***************************************************************************)
(* Proofs about Links, for any number of sends, claims, users and polls.   *)
(***************************************************************************)
EXTENDS Links, TLAPS

Opened == {"ESCROWED"} \union Terminal

LinkRow == [status    : Statuses,
            escrow    : Sends \union {None},
            claimedBy : Users \union {None},
            release   : Claims \union {None}]

ClaimCall == [pc      : ClaimPC,
              link    : Sends \union {None},
              attempt : Attempts]

(* What each step of the send handler knows of its link's row, of the      *)
(* escrow proposal and of PayFlex's row for it.                            *)
SendInv(l) ==
    /\ send[l] \in {"idle", "propose"} => stage[l] = "absent"
    /\ send[l] \in {"persist", "escrow"} => stage[l] # "absent"
    /\ send[l] = "escrow" => mirror[l] # "none" /\ link[l].status # "none"
    /\ send[l] = "idle" => link[l].status = "none"
    /\ send[l] # "done" => link[l].status \in {"none", "PENDING_ESCROW"}
    /\ send[l] = "done" => link[l].status \in {"none"} \union Opened
    /\ link[l].status \in Opened => /\ link[l].escrow = l
                                    /\ stage[l] # "absent"
                                    /\ mirror[l] # "none"
    /\ link[l].release # None => link[l].status \in Terminal
    /\ link[l].claimedBy # None => link[l].release # None

(* What each step of the claim handler knows of its link and its release.  *)
ClaimInv(c) ==
    /\ claim[c].pc = "idle" => claim[c].link = None
    /\ claim[c].pc # "idle" => /\ claim[c].link \in Sends
                               /\ link[claim[c].link].status \in Opened
    /\ claim[c].pc \in {"idle", "read", "deadline", "expire", "propose"} =>
          stage[c] = "absent"
    /\ claim[c].pc \in {"persist", "poll", "sign"} => stage[c] # "absent"
    /\ claim[c].pc \in {"poll", "sign", "store", "update", "done"} =>
          mirror[c] # "none"
    /\ claim[c].pc \in {"store", "update", "done"} =>
          stage[c] \in {"signed", "executed", "rejected", "expired"}

Recorded(l) ==
    link[l].claimedBy # None \/ link[l].status = "CLAIMED" =>
        \E c \in Claims :
            /\ link[l].release = c
            /\ claim[c].link = l
            /\ Claimant[c] = link[l].claimedBy
            /\ stage[c] \in {"signed", "executed", "rejected", "expired"}
            /\ mirror[c] # "none"

Inv ==
    /\ TypeOK
    /\ \A l \in Sends : SendInv(l) /\ Recorded(l)
    /\ \A c \in Claims : ClaimInv(c)

LEMMA InitInv == Init => Inv
BY LinksAssumption DEF Attempts, Init, InitProposals, Inv, TypeOK, TypeOKProposals, Stages, Rows,
   Statuses, SendPC, ClaimPC, SendInv, ClaimInv, Recorded, Opened, Terminal

(* A row stays a row when a handler writes the fields it writes. *)
LEMMA EscrowedRow ==
    ASSUME NEW r \in LinkRow, NEW l \in Sends
    PROVE  [r EXCEPT !.status = "ESCROWED", !.escrow = l] \in LinkRow
BY DEF LinkRow, Statuses

LEMMA ClaimedRow ==
    ASSUME NEW r \in LinkRow, NEW u \in Users, NEW c \in Claims
    PROVE  [r EXCEPT !.status = "CLAIMED", !.claimedBy = u, !.release = c] \in LinkRow
BY DEF LinkRow, Statuses

LEMMA GotoTyped ==
    ASSUME claim \in [Claims -> ClaimCall], NEW c \in Claims, NEW pc \in ClaimPC, Goto(c, pc)
    PROVE  claim' \in [Claims -> ClaimCall]
BY DEF Goto, ClaimCall

LEMMA TypedStep ==
    ASSUME TypeOK, UNCHANGED <<expired, send>>,
           stage' \in [Proposals -> Stages], mirror' \in [Proposals -> Rows],
           link' \in [Sends -> LinkRow], claim' \in [Claims -> ClaimCall]
    PROVE  TypeOK'
BY DEF TypeOK, TypeOKProposals, LinkRow, ClaimCall

(* A step that leaves the claims alone, and a link row that gets a status. *)
LEMMA TypedOutside ==
    ASSUME TypeOK, UNCHANGED claim,
           stage' \in [Proposals -> Stages], mirror' \in [Proposals -> Rows],
           link' \in [Sends -> LinkRow], send' \in [Sends -> SendPC], expired' \subseteq Sends
    PROVE  TypeOK'
BY DEF TypeOK, TypeOKProposals, LinkRow

LEMMA OpenedRow ==
    ASSUME NEW r \in LinkRow
    PROVE  [r EXCEPT !.status = "PENDING_ESCROW"] \in LinkRow
BY DEF LinkRow, Statuses

LEMMA TypedRows ==
    ASSUME TypeOK
    PROVE  /\ stage \in [Proposals -> Stages] /\ mirror \in [Proposals -> Rows]
           /\ link \in [Sends -> LinkRow] /\ claim \in [Claims -> ClaimCall]
BY DEF TypeOK, TypeOKProposals, LinkRow, ClaimCall

(* What a row records stays true while the row, the claimants and their    *)
(* links stay, BMONI moves forward and no TransferProposal row goes away.  *)
LEMMA RecordedFrame ==
    ASSUME NEW k \in Sends, Recorded(k), link'[k] = link[k],
           \A d \in Claims : /\ claim'[d].link = claim[d].link
                             /\ stage[d] \in {"signed", "executed", "rejected", "expired"} =>
                                  stage'[d] \in {"signed", "executed", "rejected", "expired"}
                             /\ mirror[d] # "none" => mirror'[d] # "none"
    PROVE  Recorded(k)'
BY DEF Recorded

LEMMA StartDirectInv ==
    ASSUME Inv, NEW l \in Sends, StartDirect(l)
    PROVE  Inv'
<1>. USE LinksAssumption DEF Inv, TypeOK, TypeOKProposals, Stages, Rows, Statuses,
             SendPC, ClaimPC, Ended, Opened, Terminal
<1>1. TypeOK'
  BY DEF StartDirect, SendInv, ClaimInv
<1>2. \A k \in Sends : SendInv(k)'
  BY DEF StartDirect, SendInv, ClaimInv
<1>3. \A k \in Sends : Recorded(k)'
  BY DEF StartDirect, Recorded, ClaimInv, SendInv
<1>4. \A d \in Claims : ClaimInv(d)'
  BY DEF StartDirect, ClaimInv, SendInv
<1>. QED
  BY <1>1, <1>2, <1>3, <1>4

LEMMA StartEscrowInv ==
    ASSUME Inv, NEW l \in Sends, StartEscrow(l)
    PROVE  Inv'
<1>. USE DEF Inv
<1>1. TypeOK'
  <2>. USE TypedRows
  <2>1. stage' \in [Proposals -> Stages] /\ mirror' \in [Proposals -> Rows]
    BY LinksAssumption DEF StartEscrow, Stages, Rows
  <2>2. link' \in [Sends -> LinkRow]
    BY OpenedRow DEF StartEscrow
  <2>3. send' \in [Sends -> SendPC] /\ expired' \subseteq Sends
    BY DEF StartEscrow, TypeOK, SendPC
  <2>. QED
    BY <2>1, <2>2, <2>3, TypedOutside DEF StartEscrow
<1>. USE LinksAssumption DEF TypeOK, TypeOKProposals, Stages, Rows, Statuses,
             SendPC, ClaimPC, Ended, Opened, Terminal
<1>2. \A k \in Sends : SendInv(k)'
  BY DEF StartEscrow, SendInv, ClaimInv
<1>3. \A k \in Sends : Recorded(k)'
  BY DEF StartEscrow, Recorded, ClaimInv, SendInv
<1>4. \A d \in Claims : ClaimInv(d)'
  BY DEF StartEscrow, ClaimInv, SendInv
<1>. QED
  BY <1>1, <1>2, <1>3, <1>4

LEMMA ProposeSendInv ==
    ASSUME Inv, NEW l \in Sends, ProposeSend(l)
    PROVE  Inv'
<1>. USE DEF Inv
<1>1. TypeOK'
  <2>. USE TypedRows
  <2>1. stage' \in [Proposals -> Stages] /\ mirror' \in [Proposals -> Rows]
    BY LinksAssumption DEF ProposeSend, CreateProposal, Stages, Rows
  <2>2. link' \in [Sends -> LinkRow]
    BY DEF ProposeSend
  <2>3. send' \in [Sends -> SendPC] /\ expired' \subseteq Sends
    BY DEF ProposeSend, TypeOK, SendPC
  <2>. QED
    BY <2>1, <2>2, <2>3, TypedOutside DEF ProposeSend
<1>. USE LinksAssumption DEF TypeOK, TypeOKProposals, Stages, Rows, Statuses,
             SendPC, ClaimPC, Ended, Opened, Terminal
<1>2. \A k \in Sends : SendInv(k)'
  BY DEF ProposeSend, CreateProposal, SendInv, ClaimInv
<1>3. \A k \in Sends : Recorded(k)'
  BY DEF ProposeSend, CreateProposal, Recorded, ClaimInv, SendInv
<1>4. \A d \in Claims : ClaimInv(d)'
  BY DEF ProposeSend, CreateProposal, ClaimInv, SendInv
<1>. QED
  BY <1>1, <1>2, <1>3, <1>4

LEMMA PersistSendInv ==
    ASSUME Inv, NEW l \in Sends, PersistSend(l)
    PROVE  Inv'
<1>. USE DEF Inv
<1>1. TypeOK'
  <2>. USE TypedRows
  <2>1. stage' \in [Proposals -> Stages] /\ mirror' \in [Proposals -> Rows]
    BY LinksAssumption DEF PersistSend, PersistProposal, Stages, Rows
  <2>2. link' \in [Sends -> LinkRow]
    BY DEF PersistSend
  <2>3. send' \in [Sends -> SendPC] /\ expired' \subseteq Sends
    BY DEF PersistSend, TypeOK, SendPC
  <2>. QED
    BY <2>1, <2>2, <2>3, TypedOutside DEF PersistSend
<1>. USE LinksAssumption DEF TypeOK, TypeOKProposals, Stages, Rows, Statuses,
             SendPC, ClaimPC, Ended, Opened, Terminal
<1>2. \A k \in Sends : SendInv(k)'
  BY DEF PersistSend, PersistProposal, SendInv, ClaimInv
<1>3. \A k \in Sends : Recorded(k)'
  BY DEF PersistSend, PersistProposal, Recorded, ClaimInv, SendInv
<1>4. \A d \in Claims : ClaimInv(d)'
  BY DEF PersistSend, PersistProposal, ClaimInv, SendInv
<1>. QED
  BY <1>1, <1>2, <1>3, <1>4

LEMMA WriteEscrowedInv ==
    ASSUME Inv, NEW l \in Sends, WriteEscrowed(l)
    PROVE  Inv'
<1>. USE LinksAssumption DEF Inv, TypeOK, TypeOKProposals, Stages, Rows, Statuses,
             SendPC, ClaimPC, Ended, Opened, Terminal
<1>1. TypeOK'
  <2>1. [link[l] EXCEPT !.status = "ESCROWED", !.escrow = l] \in LinkRow
    BY EscrowedRow DEF LinkRow
  <2>2. link' \in [Sends -> LinkRow]
    BY <2>1 DEF WriteEscrowed, LinkRow
  <2>. QED
    BY <2>2 DEF WriteEscrowed, LinkRow
<1>2. \A k \in Sends : SendInv(k)'
  BY DEF WriteEscrowed, SendInv, ClaimInv
<1>3. \A k \in Sends : Recorded(k)'
  BY DEF WriteEscrowed, Recorded, ClaimInv, SendInv
<1>4. \A d \in Claims : ClaimInv(d)'
  BY DEF WriteEscrowed, ClaimInv, SendInv
<1>. QED
  BY <1>1, <1>2, <1>3, <1>4

LEMMA AbortSendInv ==
    ASSUME Inv, NEW l \in Sends, AbortSend(l)
    PROVE  Inv'
<1>. USE LinksAssumption DEF Inv, TypeOK, TypeOKProposals, Stages, Rows, Statuses,
             SendPC, ClaimPC, Ended, Opened, Terminal
<1>1. TypeOK'
  BY DEF AbortSend, SendInv, ClaimInv
<1>2. \A k \in Sends : SendInv(k)'
  BY DEF AbortSend, SendInv, ClaimInv
<1>3. \A k \in Sends : Recorded(k)'
  BY DEF AbortSend, Recorded, ClaimInv, SendInv
<1>4. \A d \in Claims : ClaimInv(d)'
  BY DEF AbortSend, ClaimInv, SendInv
<1>. QED
  BY <1>1, <1>2, <1>3, <1>4

LEMMA PassDeadlineInv ==
    ASSUME Inv, NEW l \in Sends, PassDeadline(l)
    PROVE  Inv'
<1>. USE LinksAssumption DEF Inv, TypeOK, TypeOKProposals, Stages, Rows, Statuses,
             SendPC, ClaimPC, Ended, Opened, Terminal
<1>1. TypeOK'
  BY DEF PassDeadline, SendInv, ClaimInv
<1>2. \A k \in Sends : SendInv(k)'
  BY DEF PassDeadline, SendInv, ClaimInv
<1>3. \A k \in Sends : Recorded(k)'
  BY DEF PassDeadline, Recorded, ClaimInv, SendInv
<1>4. \A d \in Claims : ClaimInv(d)'
  BY DEF PassDeadline, ClaimInv, SendInv
<1>. QED
  BY <1>1, <1>2, <1>3, <1>4

LEMMA SignEscrowInv ==
    ASSUME Inv, NEW l \in Sends, SignEscrow(l)
    PROVE  Inv'
<1>. USE DEF Inv
<1>1. TypeOK'
  <2>. USE TypedRows
  <2>1. stage' \in [Proposals -> Stages] /\ mirror' \in [Proposals -> Rows]
    BY LinksAssumption DEF SignEscrow, SignProposal, PersistProposal, Stages, Rows
  <2>2. link' \in [Sends -> LinkRow]
    BY DEF SignEscrow
  <2>3. send' \in [Sends -> SendPC] /\ expired' \subseteq Sends
    BY DEF SignEscrow, TypeOK, SendPC
  <2>. QED
    BY <2>1, <2>2, <2>3, TypedOutside DEF SignEscrow
<1>. USE LinksAssumption DEF TypeOK, TypeOKProposals, Stages, Rows, Statuses,
             SendPC, ClaimPC, Ended, Opened, Terminal
<1>2. \A k \in Sends : SendInv(k)'
  BY DEF SignEscrow, SignProposal, PersistProposal, SendInv, ClaimInv
<1>3. \A k \in Sends : Recorded(k)'
  BY DEF SignEscrow, SignProposal, PersistProposal, Recorded, ClaimInv, SendInv
<1>4. \A d \in Claims : ClaimInv(d)'
  BY DEF SignEscrow, SignProposal, PersistProposal, ClaimInv, SendInv
<1>. QED
  BY <1>1, <1>2, <1>3, <1>4

LEMMA StartClaimInv ==
    ASSUME Inv, NEW c \in Claims, NEW l \in Sends, StartClaim(c, l)
    PROVE  Inv'
<1>. USE LinksAssumption DEF Inv, TypeOK, TypeOKProposals, Stages, Rows, Statuses,
             SendPC, ClaimPC, Ended, Opened, Terminal
<1>1. TypeOK'
  BY DEF StartClaim, Token, SendInv, ClaimInv
<1>2. \A k \in Sends : SendInv(k)'
  BY DEF StartClaim, Token, SendInv, ClaimInv
<1>3. \A k \in Sends : Recorded(k)'
  BY DEF StartClaim, Token, Recorded, ClaimInv, SendInv
<1>4. \A d \in Claims : ClaimInv(d)'
  BY DEF StartClaim, Token, ClaimInv, SendInv
<1>. QED
  BY <1>1, <1>2, <1>3, <1>4

LEMMA ReadLinkInv ==
    ASSUME Inv, NEW c \in Claims, ReadLink(c)
    PROVE  Inv'
<1>. USE DEF Inv
<1>1. TypeOK'
  <2>. USE TypedRows
  <2>1. claim' \in [Claims -> ClaimCall]
    BY GotoTyped DEF ReadLink, ClaimPC
  <2>2. stage' \in [Proposals -> Stages] /\ mirror' \in [Proposals -> Rows]
    BY LinksAssumption DEF ReadLink
  <2>3. link' \in [Sends -> LinkRow]
    BY DEF ReadLink
  <2>. QED
    BY <2>1, <2>2, <2>3, TypedStep DEF ReadLink
<1>. USE LinksAssumption DEF TypeOK, TypeOKProposals, Stages, Rows, Statuses,
             SendPC, ClaimPC, Ended, Opened, Terminal
<1>2. \A k \in Sends : SendInv(k)'
  BY DEF ReadLink, Goto, SendInv, ClaimInv
<1>3. \A k \in Sends : Recorded(k)'
  BY DEF ReadLink, Goto, Recorded, ClaimInv, SendInv
<1>4. \A d \in Claims : ClaimInv(d)'
  BY DEF ReadLink, Goto, ClaimInv, SendInv
<1>. QED
  BY <1>1, <1>2, <1>3, <1>4

LEMMA CheckDeadlineInv ==
    ASSUME Inv, NEW c \in Claims, CheckDeadline(c)
    PROVE  Inv'
<1>. USE DEF Inv
<1>1. TypeOK'
  <2>. USE TypedRows
  <2>1. claim' \in [Claims -> ClaimCall]
    BY GotoTyped DEF CheckDeadline, ClaimPC
  <2>2. stage' \in [Proposals -> Stages] /\ mirror' \in [Proposals -> Rows]
    BY LinksAssumption DEF CheckDeadline
  <2>3. link' \in [Sends -> LinkRow]
    BY DEF CheckDeadline
  <2>. QED
    BY <2>1, <2>2, <2>3, TypedStep DEF CheckDeadline
<1>. USE LinksAssumption DEF TypeOK, TypeOKProposals, Stages, Rows, Statuses,
             SendPC, ClaimPC, Ended, Opened, Terminal
<1>2. \A k \in Sends : SendInv(k)'
  BY DEF CheckDeadline, Goto, SendInv, ClaimInv
<1>3. \A k \in Sends : Recorded(k)'
  BY DEF CheckDeadline, Goto, Recorded, ClaimInv, SendInv
<1>4. \A d \in Claims : ClaimInv(d)'
  BY DEF CheckDeadline, Goto, ClaimInv, SendInv
<1>. QED
  BY <1>1, <1>2, <1>3, <1>4

LEMMA WriteExpiredInv ==
    ASSUME Inv, NEW c \in Claims, WriteExpired(c)
    PROVE  Inv'
<1>. USE DEF Inv
<1>1. TypeOK'
  <2>. USE TypedRows
  <2>1. claim' \in [Claims -> ClaimCall]
    BY GotoTyped DEF WriteExpired, ClaimPC
  <2>2. stage' \in [Proposals -> Stages] /\ mirror' \in [Proposals -> Rows]
    BY LinksAssumption DEF WriteExpired
  <2>3. link' \in [Sends -> LinkRow]
    <3>1. claim[c].link \in Sends
      BY DEF WriteExpired, ClaimInv
    <3>2. [link[claim[c].link] EXCEPT !.status = "EXPIRED"] \in LinkRow
      BY <3>1 DEF LinkRow, Statuses
    <3>. QED
      BY <3>1, <3>2 DEF WriteExpired
  <2>. QED
    BY <2>1, <2>2, <2>3, TypedStep DEF WriteExpired
<1>. USE LinksAssumption DEF TypeOK, TypeOKProposals, Stages, Rows, Statuses,
             SendPC, ClaimPC, Ended, Opened, Terminal
<1>2. \A k \in Sends : SendInv(k)'
  BY DEF WriteExpired, Goto, SendInv, ClaimInv
<1>3. \A k \in Sends : Recorded(k)'
  BY DEF WriteExpired, Goto, Recorded, ClaimInv, SendInv
<1>4. \A d \in Claims : ClaimInv(d)'
  BY DEF WriteExpired, Goto, ClaimInv, SendInv
<1>. QED
  BY <1>1, <1>2, <1>3, <1>4

LEMMA ProposeReleaseInv ==
    ASSUME Inv, NEW c \in Claims, ProposeRelease(c)
    PROVE  Inv'
<1>. USE DEF Inv
<1>1. TypeOK'
  <2>. USE TypedRows
  <2>1. claim' \in [Claims -> ClaimCall]
    BY GotoTyped DEF ProposeRelease, ClaimPC
  <2>2. stage' \in [Proposals -> Stages] /\ mirror' \in [Proposals -> Rows]
    BY LinksAssumption DEF ProposeRelease, CreateProposal, Stages
  <2>3. link' \in [Sends -> LinkRow]
    BY DEF ProposeRelease
  <2>. QED
    BY <2>1, <2>2, <2>3, TypedStep DEF ProposeRelease
<1>. USE LinksAssumption DEF TypeOK, TypeOKProposals, Stages, Rows, Statuses,
             SendPC, ClaimPC, Ended, Opened, Terminal
<1>2. \A k \in Sends : SendInv(k)'
  BY DEF ProposeRelease, Goto, CreateProposal, SendInv, ClaimInv
<1>3. \A k \in Sends : Recorded(k)'
  BY DEF ProposeRelease, Goto, CreateProposal, Recorded, ClaimInv, SendInv
<1>4. \A d \in Claims : ClaimInv(d)'
  BY DEF ProposeRelease, Goto, CreateProposal, ClaimInv, SendInv
<1>. QED
  BY <1>1, <1>2, <1>3, <1>4

LEMMA PersistReleaseInv ==
    ASSUME Inv, NEW c \in Claims, PersistRelease(c)
    PROVE  Inv'
<1>. USE DEF Inv
<1>1. TypeOK'
  <2>. USE TypedRows
  <2>1. claim' \in [Claims -> ClaimCall]
    BY GotoTyped DEF PersistRelease, ClaimPC
  <2>2. stage' \in [Proposals -> Stages] /\ mirror' \in [Proposals -> Rows]
    BY LinksAssumption DEF PersistRelease, PersistProposal, Rows
  <2>3. link' \in [Sends -> LinkRow]
    BY DEF PersistRelease
  <2>. QED
    BY <2>1, <2>2, <2>3, TypedStep DEF PersistRelease
<1>. USE LinksAssumption DEF TypeOK, TypeOKProposals, Stages, Rows, Statuses,
             SendPC, ClaimPC, Ended, Opened, Terminal
<1>2. \A k \in Sends : SendInv(k)'
  BY DEF PersistRelease, Goto, PersistProposal, SendInv, ClaimInv
<1>3. \A k \in Sends : Recorded(k)'
  BY DEF PersistRelease, Goto, PersistProposal, Recorded, ClaimInv, SendInv
<1>4. \A d \in Claims : ClaimInv(d)'
  BY DEF PersistRelease, Goto, PersistProposal, ClaimInv, SendInv
<1>. QED
  BY <1>1, <1>2, <1>3, <1>4

LEMMA PollSignPayloadInv ==
    ASSUME Inv, NEW c \in Claims, PollSignPayload(c)
    PROVE  Inv'
<1>. USE LinksAssumption DEF Inv, TypeOK, TypeOKProposals, Stages, Rows, Statuses,
             SendPC, ClaimPC, Ended, Opened, Terminal
<1>. USE DEF PollSignPayload
<1>1. CASE stage[c] = "ready" /\ Goto(c, "sign")
  <2>1. TypeOK'
    BY <1>1 DEF Goto
  <2>2. \A k \in Sends : SendInv(k)' /\ Recorded(k)'
    BY <1>1 DEF Goto, SendInv, Recorded
  <2>3. \A d \in Claims : ClaimInv(d)'
    BY <1>1 DEF Goto, ClaimInv
  <2>. QED
    BY <2>1, <2>2, <2>3
<1>2. CASE claim[c].attempt < MaxAttempts - 1 /\ claim' = [claim EXCEPT ![c].attempt = @ + 1]
  <2>1. TypeOK'
    BY <1>2 DEF Attempts
  <2>2. \A k \in Sends : SendInv(k)' /\ Recorded(k)'
    BY <1>2 DEF SendInv, Recorded
  <2>3. \A d \in Claims : ClaimInv(d)'
    BY <1>2 DEF ClaimInv
  <2>. QED
    BY <2>1, <2>2, <2>3
<1>3. CASE Goto(c, "failed")
  <2>1. TypeOK'
    BY <1>3 DEF Goto
  <2>2. \A k \in Sends : SendInv(k)' /\ Recorded(k)'
    BY <1>3 DEF Goto, SendInv, Recorded
  <2>3. \A d \in Claims : ClaimInv(d)'
    BY <1>3 DEF Goto, ClaimInv
  <2>. QED
    BY <2>1, <2>2, <2>3
<1>. QED
  BY <1>1, <1>2, <1>3

LEMMA SignReleaseInv ==
    ASSUME Inv, NEW c \in Claims, SignRelease(c)
    PROVE  Inv'
<1>. USE DEF Inv
<1>1. TypeOK'
  <2>. USE TypedRows
  <2>1. claim' \in [Claims -> ClaimCall]
    BY GotoTyped DEF SignRelease, ClaimPC
  <2>2. stage' \in [Proposals -> Stages] /\ mirror' \in [Proposals -> Rows]
    BY LinksAssumption DEF SignRelease, SignProposal, Stages
  <2>3. link' \in [Sends -> LinkRow]
    BY DEF SignRelease
  <2>. QED
    BY <2>1, <2>2, <2>3, TypedStep DEF SignRelease
<1>. USE LinksAssumption DEF TypeOK, TypeOKProposals, Stages, Rows, Statuses,
             SendPC, ClaimPC, Ended, Opened, Terminal
<1>2. \A k \in Sends : SendInv(k)'
  BY DEF SignRelease, Goto, SignProposal, SendInv, ClaimInv
<1>3. \A k \in Sends : Recorded(k)'
  <2>1. \A d \in Claims : claim'[d].link = claim[d].link
    BY DEF SignRelease, Goto
  <2>2. \A d \in Claims : stage[d] \in {"signed", "executed", "rejected", "expired"} => stage'[d] = stage[d]
    BY DEF SignRelease, SignProposal
  <2>. QED
    BY <2>1, <2>2, RecordedFrame DEF SignRelease
<1>4. \A d \in Claims : ClaimInv(d)'
  BY DEF SignRelease, Goto, SignProposal, ClaimInv, SendInv
<1>. QED
  BY <1>1, <1>2, <1>3, <1>4

LEMMA PersistSignatureInv ==
    ASSUME Inv, NEW c \in Claims, PersistSignature(c)
    PROVE  Inv'
<1>. USE DEF Inv
<1>1. TypeOK'
  <2>. USE TypedRows
  <2>1. claim' \in [Claims -> ClaimCall]
    BY GotoTyped DEF PersistSignature, ClaimPC
  <2>2. stage' \in [Proposals -> Stages] /\ mirror' \in [Proposals -> Rows]
    BY LinksAssumption DEF PersistSignature, PersistProposal, Rows
  <2>3. link' \in [Sends -> LinkRow]
    BY DEF PersistSignature
  <2>. QED
    BY <2>1, <2>2, <2>3, TypedStep DEF PersistSignature
<1>. USE LinksAssumption DEF TypeOK, TypeOKProposals, Stages, Rows, Statuses,
             SendPC, ClaimPC, Ended, Opened, Terminal
<1>2. \A k \in Sends : SendInv(k)'
  BY DEF PersistSignature, Goto, PersistProposal, SendInv, ClaimInv
<1>3. \A k \in Sends : Recorded(k)'
  BY DEF PersistSignature, Goto, PersistProposal, Recorded, ClaimInv, SendInv
<1>4. \A d \in Claims : ClaimInv(d)'
  BY DEF PersistSignature, Goto, PersistProposal, ClaimInv, SendInv
<1>. QED
  BY <1>1, <1>2, <1>3, <1>4

LEMMA WriteClaimedInv ==
    ASSUME Inv, NEW c \in Claims, WriteClaimed(c)
    PROVE  Inv'
<1>. USE DEF Inv
<1>1. TypeOK'
  <2>. USE TypedRows
  <2>1. claim' \in [Claims -> ClaimCall]
    BY GotoTyped DEF WriteClaimed, ClaimPC
  <2>2. stage' \in [Proposals -> Stages] /\ mirror' \in [Proposals -> Rows]
    BY LinksAssumption DEF WriteClaimed
  <2>3. link' \in [Sends -> LinkRow]
    <3>1. claim[c].link \in Sends /\ Claimant[c] \in Users
      BY LinksAssumption DEF WriteClaimed, ClaimInv
    <3>2. [link[claim[c].link] EXCEPT !.status = "CLAIMED", !.claimedBy = Claimant[c],
                                      !.release = c] \in LinkRow
      BY <3>1, ClaimedRow
    <3>. QED
      BY <3>1, <3>2 DEF WriteClaimed
  <2>. QED
    BY <2>1, <2>2, <2>3, TypedStep DEF WriteClaimed
<1>2. /\ claim[c].link \in Sends /\ link[claim[c].link].status \in Opened
      /\ stage[c] \in {"signed", "executed", "rejected", "expired"} /\ mirror[c] # "none"
      /\ UNCHANGED <<stage, mirror, send>>
  BY DEF WriteClaimed, ClaimInv
<1>3. \A d \in Claims : claim'[d].link = claim[d].link
  BY DEF WriteClaimed, Goto, TypeOK
<1>4. \A k \in Sends \ {claim[c].link} : link'[k] = link[k]
  BY <1>2 DEF WriteClaimed, TypeOK
<1>5. LET k == claim[c].link IN
        link'[k] = [status |-> "CLAIMED", escrow |-> link[k].escrow,
                    claimedBy |-> Claimant[c], release |-> c]
  <2>. DEFINE k == claim[c].link
  <2>1. link[k] \in LinkRow
    BY <1>2, TypedRows
  <2>2. link'[k] = [link[k] EXCEPT !.status = "CLAIMED", !.claimedBy = Claimant[c],
                                   !.release = c]
    BY <1>2, TypedRows DEF WriteClaimed
  <2>. QED
    BY <2>1, <2>2 DEF LinkRow
<1>6. \A k \in Sends : SendInv(k)'
  <2>. SUFFICES ASSUME NEW k \in Sends
                PROVE  SendInv(k)'
    OBVIOUS
  <2>1. CASE k # claim[c].link
    BY <1>2, <1>4, <2>1 DEF SendInv
  <2>2. CASE k = claim[c].link
    <3>1. SendInv(k)
      OBVIOUS
    <3>2. /\ link'[k].status = "CLAIMED" /\ link'[k].escrow = link[k].escrow
          /\ link'[k].release = c /\ link[k].status \in Opened
      BY <1>2, <1>5, <2>2
    <3>. QED
      BY LinksAssumption, <1>2, <3>1, <3>2 DEF SendInv, Opened, Terminal
  <2>. QED
    BY <2>1, <2>2
<1>7. \A k \in Sends : Recorded(k)'
  <2>. SUFFICES ASSUME NEW k \in Sends
                PROVE  Recorded(k)'
    OBVIOUS
  <2>1. CASE k # claim[c].link
    BY <1>2, <1>3, <1>4, <2>1, RecordedFrame
  <2>2. CASE k = claim[c].link
    BY <1>2, <1>3, <1>5, <2>2 DEF Recorded
  <2>. QED
    BY <2>1, <2>2
<1>. USE LinksAssumption DEF TypeOK, TypeOKProposals, Stages, Rows, Statuses,
             SendPC, ClaimPC, Ended, Opened, Terminal
<1>8. \A d \in Claims : ClaimInv(d)'
  BY DEF WriteClaimed, Goto, ClaimInv, SendInv
<1>. QED
  BY <1>1, <1>6, <1>7, <1>8

LEMMA AbortClaimInv ==
    ASSUME Inv, NEW c \in Claims, AbortClaim(c)
    PROVE  Inv'
<1>. USE DEF Inv
<1>1. TypeOK'
  <2>. USE TypedRows
  <2>1. claim' \in [Claims -> ClaimCall]
    BY GotoTyped DEF AbortClaim, ClaimPC
  <2>2. stage' \in [Proposals -> Stages] /\ mirror' \in [Proposals -> Rows]
    BY LinksAssumption DEF AbortClaim
  <2>3. link' \in [Sends -> LinkRow]
    BY DEF AbortClaim
  <2>. QED
    BY <2>1, <2>2, <2>3, TypedStep DEF AbortClaim
<1>. USE LinksAssumption DEF TypeOK, TypeOKProposals, Stages, Rows, Statuses,
             SendPC, ClaimPC, Ended, Opened, Terminal
<1>2. \A k \in Sends : SendInv(k)'
  BY DEF AbortClaim, Goto, SendInv, ClaimInv
<1>3. \A k \in Sends : Recorded(k)'
  BY DEF AbortClaim, Goto, Recorded, ClaimInv, SendInv
<1>4. \A d \in Claims : ClaimInv(d)'
  BY DEF AbortClaim, Goto, ClaimInv, SendInv
<1>. QED
  BY <1>1, <1>2, <1>3, <1>4

LEMMA BmoniStepInv ==
    ASSUME Inv, NEW p \in Proposals, BmoniStep(p)
    PROVE  Inv'
<1>. USE DEF Inv
<1>1. TypeOK'
  <2>. USE TypedRows
  <2>1. stage' \in [Proposals -> Stages] /\ mirror' \in [Proposals -> Rows]
    BY LinksAssumption DEF BmoniStep, BmoniMoves, PreparePayload, Execute, Expire, Stages, Rows
  <2>2. link' \in [Sends -> LinkRow]
    BY DEF BmoniStep
  <2>3. send' \in [Sends -> SendPC] /\ expired' \subseteq Sends
    BY DEF BmoniStep, TypeOK, SendPC
  <2>. QED
    BY <2>1, <2>2, <2>3, TypedOutside DEF BmoniStep
<1>. USE LinksAssumption DEF TypeOK, TypeOKProposals, Stages, Rows, Statuses,
             SendPC, ClaimPC, Ended, Opened, Terminal
<1>2. \A k \in Sends : SendInv(k)'
  BY DEF BmoniStep, BmoniMoves, PreparePayload, Execute, Expire, SendInv, ClaimInv
<1>3. \A k \in Sends : Recorded(k)'
  BY DEF BmoniStep, BmoniMoves, PreparePayload, Execute, Expire, Recorded, ClaimInv, SendInv
<1>4. \A d \in Claims : ClaimInv(d)'
  BY DEF BmoniStep, BmoniMoves, PreparePayload, Execute, Expire, ClaimInv, SendInv
<1>. QED
  BY <1>1, <1>2, <1>3, <1>4

LEMMA DeclineInv ==
    ASSUME Inv, NEW p \in Proposals, Decline(p)
    PROVE  Inv'
<1>. USE DEF Inv
<1>1. TypeOK'
  <2>. USE TypedRows
  <2>1. stage' \in [Proposals -> Stages] /\ mirror' \in [Proposals -> Rows]
    BY LinksAssumption DEF Decline, RejectProposal, PersistProposal, Stages, Rows
  <2>2. link' \in [Sends -> LinkRow]
    BY DEF Decline
  <2>3. send' \in [Sends -> SendPC] /\ expired' \subseteq Sends
    BY DEF Decline, TypeOK, SendPC
  <2>. QED
    BY <2>1, <2>2, <2>3, TypedOutside DEF Decline
<1>. USE LinksAssumption DEF TypeOK, TypeOKProposals, Stages, Rows, Statuses,
             SendPC, ClaimPC, Ended, Opened, Terminal
<1>2. \A k \in Sends : SendInv(k)'
  BY DEF Decline, RejectProposal, PersistProposal, SendInv, ClaimInv
<1>3. \A k \in Sends : Recorded(k)'
  BY DEF Decline, RejectProposal, PersistProposal, Recorded, ClaimInv, SendInv
<1>4. \A d \in Claims : ClaimInv(d)'
  BY DEF Decline, RejectProposal, PersistProposal, ClaimInv, SendInv
<1>. QED
  BY <1>1, <1>2, <1>3, <1>4

LEMMA StepInv ==
    ASSUME Inv, [Next]_vars
    PROVE  Inv'
<1>1. ASSUME NEW l \in Sends, SendStep(l) \/ PassDeadline(l) \/ SignEscrow(l)
      PROVE  Inv'
  BY <1>1, StartDirectInv, StartEscrowInv, ProposeSendInv, PersistSendInv,
     WriteEscrowedInv, AbortSendInv, PassDeadlineInv, SignEscrowInv DEF SendStep
<1>2. ASSUME NEW c \in Claims, ClaimStep(c) \/ AbortClaim(c)
      PROVE  Inv'
  BY <1>2, ReadLinkInv, CheckDeadlineInv, WriteExpiredInv, ProposeReleaseInv,
     PersistReleaseInv, PollSignPayloadInv, SignReleaseInv, PersistSignatureInv,
     WriteClaimedInv, AbortClaimInv DEF ClaimStep
<1>3. ASSUME NEW c \in Claims, NEW l \in Sends, StartClaim(c, l)
      PROVE  Inv'
  BY <1>3, StartClaimInv
<1>4. ASSUME NEW p \in Proposals, BmoniStep(p) \/ Decline(p)
      PROVE  Inv'
  BY <1>4, BmoniStepInv, DeclineInv
<1>5. CASE UNCHANGED vars
  BY <1>5 DEF vars, Inv, TypeOK, TypeOKProposals, SendInv, ClaimInv, Recorded
<1>. QED
  BY <1>1, <1>2, <1>3, <1>4, <1>5 DEF Next

(* The inductive invariant: the row, the escrow and the release agree with *)
(* the step each handler has reached.                                      *)
THEOREM Invariance == Spec => []Inv
<1>. QED
  BY InitInv, StepInv, PTL DEF Spec

(* The state stays well typed for any number of requests. *)
THEOREM TypeCorrect == Spec => []TypeOK
<1>1. Inv => TypeOK
  BY DEF Inv
<1>. QED
  BY <1>1, Invariance, PTL

(* A CLAIMED row names a release that was made for the link and for the    *)
(* claimant it names, and that the treasury signed (claim, lines 132-154). *)
THEOREM ClaimRecord == Spec => []ClaimNamesItsRelease
<1>1. Inv => ClaimNamesItsRelease
  BY DEF Inv, Recorded, ClaimNamesItsRelease
<1>. QED
  BY <1>1, Invariance, PTL

(* No release is made for a link whose escrow proposal is not on record at *)
(* BMONI and at PayFlex (createEscrowedLink, lines 57-76).                 *)
THEOREM EscrowFirst == Spec => []ReleaseFollowsEscrow
<1>1. Inv => ReleaseFollowsEscrow
  <2>. SUFFICES ASSUME Inv, NEW c \in Claims, stage[c] # "absent"
                PROVE  LET l == claim[c].link IN
                       /\ link[l].status \in {"ESCROWED", "CLAIMED", "EXPIRED"}
                       /\ link[l].escrow = l
                       /\ stage[l] # "absent"
                       /\ mirror[l] # "none"
    BY DEF ReleaseFollowsEscrow
  <2>1. claim[c].link \in Sends /\ link[claim[c].link].status \in Opened
    BY DEF Inv, ClaimInv
  <2>. QED
    BY <2>1 DEF Inv, SendInv, Opened, Terminal
<1>. QED
  BY <1>1, Invariance, PTL

(* A row that is CLAIMED or EXPIRED stays one of the two, and keeps the    *)
(* release it names.                                                       *)
LEMMA SettledRow ==
    ASSUME Inv, [Next]_vars, NEW l \in Sends, link[l].status \in Terminal
    PROVE  /\ link'[l].status \in Terminal
           /\ link[l].release # None => link'[l].release # None
<1>. USE LinksAssumption
<1>1. CASE UNCHANGED link
  BY <1>1
<1>2. ASSUME NEW k \in Sends, StartEscrow(k) \/ WriteEscrowed(k)
      PROVE  link'[l] = link[l]
  BY <1>2 DEF StartEscrow, WriteEscrowed, Inv, SendInv, TypeOK, Terminal
<1>3. ASSUME NEW c \in Claims, WriteExpired(c)
      PROVE  link'[l].status \in Terminal /\ link'[l].release = link[l].release
  BY <1>3 DEF WriteExpired, Inv, TypeOK, Terminal
<1>4. ASSUME NEW c \in Claims, WriteClaimed(c)
      PROVE  /\ link'[l].status \in Terminal
             /\ link[l].release # None => link'[l].release # None
  BY <1>4 DEF WriteClaimed, Inv, TypeOK, Terminal
<1>5. UNCHANGED link \/ (\E k \in Sends : StartEscrow(k) \/ WriteEscrowed(k))
                      \/ (\E c \in Claims : WriteExpired(c) \/ WriteClaimed(c))
  BY DEF vars, Next, SendStep, StartDirect, ProposeSend, PersistSend, AbortSend,
         PassDeadline, SignEscrow, ClaimStep, AbortClaim, StartClaim, ReadLink,
         CheckDeadline, ProposeRelease, PersistRelease, PollSignPayload,
         SignRelease, PersistSignature, BmoniStep, Decline
<1>. QED
  BY <1>1, <1>2, <1>3, <1>4, <1>5

(* A claim on record is never forgotten (claim, lines 124-128, 146-154). *)
THEOREM RecordedForGood == Spec => ClaimStaysOnRecord
<1> DEFINE Kept == \A l \in Sends : link[l].release # None =>
                      /\ link'[l].release # None
                      /\ link[l].status \in Terminal /\ link'[l].status \in Terminal
<1>1. Inv /\ [Next]_vars => [Kept]_vars
  <2>. SUFFICES ASSUME Inv, [Next]_vars, NEW l \in Sends, link[l].release # None
                PROVE  /\ link'[l].release # None
                       /\ link[l].status \in Terminal /\ link'[l].status \in Terminal
    OBVIOUS
  <2>1. link[l].status \in Terminal
    BY DEF Inv, SendInv
  <2>. QED
    BY <2>1, SettledRow
<1>. QED
  BY <1>1, Invariance, PTL DEF Spec, ClaimStaysOnRecord

(* The link is settled, and claim c, if it is for the link, has got no     *)
(* further than reading it.                                                *)
Late(c, l) ==
    /\ link[l].status \in Terminal
    /\ claim[c].link = l => claim[c].pc \in {"read", "failed"} /\ stage[c] = "absent"

(* Nothing but its own handler moves a claim on.                           *)
LEMMA OwnStep ==
    ASSUME Inv, [Next]_vars, NEW c \in Claims
    PROVE  \/ claim'[c] = claim[c]
           \/ ClaimStep(c) \/ AbortClaim(c)
           \/ \E l \in Sends : StartClaim(c, l)
<1>1. \/ UNCHANGED claim
      \/ \E d \in Claims : \/ ClaimStep(d) \/ AbortClaim(d)
                           \/ \E l \in Sends : StartClaim(d, l)
  BY DEF vars, Next, SendStep, StartDirect, StartEscrow, ProposeSend, PersistSend,
         WriteEscrowed, AbortSend, PassDeadline, SignEscrow, BmoniStep, Decline
<1>2. ASSUME NEW d \in Claims, d # c, ClaimStep(d) \/ AbortClaim(d)
      PROVE  claim'[c] = claim[c]
  BY <1>2 DEF Inv, TypeOK, Goto, ClaimStep, AbortClaim, ReadLink, CheckDeadline,
         WriteExpired, ProposeRelease, PersistRelease, PollSignPayload,
         SignRelease, PersistSignature, WriteClaimed
<1>3. ASSUME NEW d \in Claims, d # c, NEW l \in Sends, StartClaim(d, l)
      PROVE  claim'[c] = claim[c]
  BY <1>3 DEF Inv, TypeOK, StartClaim
<1>. QED
  BY <1>1, <1>2, <1>3

(* A release appears only when its handler proposes it.                    *)
LEMMA OwnRelease ==
    ASSUME Inv, [Next]_vars, NEW c \in Claims, stage[c] = "absent", ~ProposeRelease(c)
    PROVE  stage'[c] = "absent"
<1>. USE LinksAssumption DEF Inv, TypeOK, TypeOKProposals
<1>1. ASSUME NEW l \in Sends, SendStep(l) \/ PassDeadline(l) \/ SignEscrow(l)
      PROVE  stage'[c] = "absent"
  BY <1>1 DEF SendStep, StartDirect, StartEscrow, ProposeSend, PersistSend,
         WriteEscrowed, AbortSend, PassDeadline, SignEscrow, CreateProposal, SignProposal
<1>2. ASSUME NEW d \in Claims, ProposeRelease(d)
      PROVE  stage'[c] = "absent"
  BY <1>2 DEF ProposeRelease, CreateProposal
<1>3. ASSUME NEW d \in Claims, SignRelease(d)
      PROVE  stage'[c] = "absent"
  BY <1>3 DEF SignRelease, SignProposal
<1>4. ASSUME NEW p \in Proposals, BmoniStep(p) \/ Decline(p)
      PROVE  stage'[c] = "absent"
  BY <1>4 DEF BmoniStep, BmoniMoves, PreparePayload, Execute, Expire, Decline, RejectProposal
<1>5. \/ UNCHANGED stage
      \/ \E l \in Sends : SendStep(l) \/ PassDeadline(l) \/ SignEscrow(l)
      \/ \E d \in Claims : ProposeRelease(d) \/ SignRelease(d)
      \/ \E p \in Proposals : BmoniStep(p) \/ Decline(p)
  BY DEF vars, Next, ClaimStep, AbortClaim, StartClaim, ReadLink, CheckDeadline,
         WriteExpired, PersistRelease, PollSignPayload, PersistSignature, WriteClaimed
<1>. QED
  BY <1>1, <1>2, <1>3, <1>4, <1>5

LEMMA LateStep ==
    ASSUME Inv, [Next]_vars, NEW c \in Claims, NEW l \in Sends, Late(c, l)
    PROVE  Late(c, l)'
<1>1. link'[l].status \in Terminal
  BY SettledRow DEF Late
<1>2. CASE claim'[c] = claim[c]
  BY <1>1, <1>2, OwnRelease DEF Late, ProposeRelease
<1>3. CASE ClaimStep(c) \/ AbortClaim(c)
  <2>1. CASE claim[c].link = l
    <3>1. ReadLink(c) \/ AbortClaim(c)
      BY <1>3, <2>1 DEF Late, ClaimStep, CheckDeadline, WriteExpired, ProposeRelease,
         PersistRelease, PollSignPayload, SignRelease, PersistSignature, WriteClaimed
    <3>2. claim'[c].pc = "failed"
      BY <2>1, <3>1 DEF Late, ReadLink, AbortClaim, Goto, Inv, TypeOK, Terminal
    <3>3. stage'[c] = "absent"
      BY <2>1, <3>1 DEF Late, ReadLink, AbortClaim
    <3>. QED
      BY <1>1, <3>2, <3>3 DEF Late
  <2>2. CASE claim[c].link # l
    <3>1. claim'[c].link = claim[c].link
      BY <1>3 DEF Inv, TypeOK, Goto, ClaimStep, AbortClaim, ReadLink, CheckDeadline,
         WriteExpired, ProposeRelease, PersistRelease, PollSignPayload,
         SignRelease, PersistSignature, WriteClaimed
    <3>. QED
      BY <1>1, <2>2, <3>1 DEF Late
  <2>. QED
    BY <2>1, <2>2
<1>4. ASSUME NEW k \in Sends, StartClaim(c, k)
      PROVE  Late(c, l)'
  <2>1. claim'[c].pc = "read" /\ stage'[c] = "absent"
    BY <1>4 DEF StartClaim, Inv, TypeOK, ClaimInv
  <2>. QED
    BY <1>1, <2>1 DEF Late
<1>. QED
  BY <1>2, <1>3, <1>4, OwnStep

(* A claim that starts when the link is already CLAIMED or EXPIRED makes   *)
(* no release, whatever the claims in flight do (claim, lines 119-123).    *)
THEOREM LateClaimsRefused == Spec => SettledLinkReleasesNoMore
<1>. SUFFICES ASSUME NEW c \in Claims, NEW l \in Sends
              PROVE  Spec => [](link[l].status \in Terminal /\ claim[c].pc = "idle"
                                  => [](claim[c].link = l => stage[c] = "absent"))
  BY DEF SettledLinkReleasesNoMore
<1>1. Inv /\ link[l].status \in Terminal /\ claim[c].pc = "idle" => Late(c, l)
  BY LinksAssumption DEF Inv, ClaimInv, Late
<1>2. Inv /\ Late(c, l) /\ [Next]_vars => Late(c, l)'
  BY LateStep
<1>3. Late(c, l) => (claim[c].link = l => stage[c] = "absent")
  BY DEF Late
<1>. QED
  BY <1>1, <1>2, <1>3, Invariance, PTL DEF Spec

----------------------------------------------------------------------------
(* Links implements Release. *)

Finding   == {"deadline", "propose"}
Answering == {"store", "update"}

LEMMA InitReleases == Init => Treasury!Init
<1>. SUFFICES ASSUME Init PROVE Treasury!Init
  OBVIOUS
<1>1. CauseOf = [l \in Sends |-> [status |-> "none", by |-> None]]
  <2>1. \A l \in Sends : link[l].status = "none" /\ link[l].release = None
    BY DEF Init
  <2>2. \A l \in Sends : Cause(link[l]) = [status |-> "none", by |-> None]
    BY <2>1 DEF Cause, Terminal
  <2>. QED
    BY <2>2 DEF CauseOf
<1>2. PaymentOf = [c \in Claims |-> [status |-> "none", for |-> None]]
  BY LinksAssumption DEF Init, InitProposals, PaymentOf, Standing
<1>3. Admitted = {} /\ Filed = {} /\ Answered = {}
  BY LinksAssumption DEF Init, InitProposals, Admitted, Filed, Answered
<1>. QED
  BY <1>1, <1>2, <1>3 DEF Treasury!Init

(* What a step may do to a claim and to its release without moving the     *)
(* payment it stands for.                                                  *)
Undisturbed(c) ==
    /\ claim'[c].pc \in Finding <=> claim[c].pc \in Finding
    /\ claim'[c].pc \in Answering <=> claim[c].pc \in Answering
    /\ claim[c].pc # "idle" => claim'[c].link = claim[c].link
    /\ stage'[c] = "absent" <=> stage[c] = "absent"
    /\ Standing(stage'[c]) = Standing(stage[c])
    /\ mirror'[c] # "none" <=> mirror[c] # "none"

LEMMA UndisturbedClaims ==
    ASSUME Inv, \A c \in Claims : Undisturbed(c)
    PROVE  UNCHANGED <<Admitted, PaymentOf, Filed, Answered>>
<1>1. \A c \in Claims : stage[c] # "absent" => claim[c].pc # "idle"
  BY DEF Inv, ClaimInv
<1>2. UNCHANGED PaymentOf
  BY <1>1 DEF PaymentOf, Undisturbed
<1>3. UNCHANGED Filed /\ UNCHANGED Answered
  BY DEF Filed, Answered, Answering, Undisturbed
<1>4. UNCHANGED Admitted
  BY DEF Admitted, Finding, Undisturbed
<1>. QED
  BY <1>2, <1>3, <1>4

(* The claim that moves, the others standing still. *)
Alone(c) ==
    /\ claim'[c].link = claim[c].link
    /\ \A d \in Claims \ {c} :
          claim'[d] = claim[d] /\ stage'[d] = stage[d] /\ mirror'[d] = mirror[d]

LEMMA ClaimMoves ==
    ASSUME NEW c \in Claims, Alone(c)
    PROVE  /\ claim[c].pc \notin Finding /\ claim'[c].pc \in Finding =>
                 Admitted' = Admitted \union {<<c, claim[c].link>>}
           /\ claim'[c].pc \notin Finding => Admitted' = Admitted \ {<<c, claim[c].link>>}
           /\ (claim'[c].pc \in Finding <=> claim[c].pc \in Finding) => UNCHANGED Admitted
           /\ claim'[c].pc \in Answering => Answered' = Answered \union {c}
           /\ claim'[c].pc \notin Answering => Answered' = Answered \ {c}
           /\ (claim'[c].pc \in Answering <=> claim[c].pc \in Answering) => UNCHANGED Answered
BY DEF Alone, Admitted, Answered, Finding, Answering

LEMMA ReleaseMoves ==
    ASSUME NEW c \in Claims, Alone(c)
    PROVE  /\ PaymentOf' = [PaymentOf EXCEPT ![c] =
                 [status |-> Standing(stage'[c]),
                  for    |-> IF stage'[c] = "absent" THEN None ELSE claim[c].link]]
           /\ stage'[c] = stage[c] => UNCHANGED PaymentOf
           /\ mirror'[c] # "none" => Filed' = Filed \union {c}
           /\ (mirror'[c] # "none" <=> mirror[c] # "none") => UNCHANGED Filed
BY DEF Alone, PaymentOf, Filed

LEMMA WentAlone ==
    ASSUME Inv, NEW c \in Claims, NEW pc \in ClaimPC, Goto(c, pc),
           \A d \in Claims \ {c} : stage'[d] = stage[d] /\ mirror'[d] = mirror[d]
    PROVE  Alone(c) /\ claim'[c].pc = pc
BY TypedRows DEF Inv, Goto, ClaimCall, Alone

(* The link whose row is written, as a cause. *)
LEMMA RowWritten ==
    ASSUME Inv, NEW l \in Sends, NEW row \in LinkRow, link' = [link EXCEPT ![l] = row]
    PROVE  CauseOf' = [CauseOf EXCEPT ![l] = Cause(row)]
BY TypedRows DEF Inv, CauseOf

LEMMA ReadReleases ==
    ASSUME Inv, NEW c \in Claims, ReadLink(c)
    PROVE  Treasury!Next \/ UNCHANGED Treasury!releaseVars
<1>. DEFINE l == claim[c].link
<1>1. /\ claim[c].pc = "read" /\ stage[c] = "absent" /\ l \in Sends
      /\ UNCHANGED <<stage, mirror, link>>
  BY DEF ReadLink, Inv, ClaimInv
<1>2. UNCHANGED CauseOf
  BY <1>1 DEF CauseOf
<1>3. CASE Goto(c, "failed")
  <2>1. Alone(c) /\ claim'[c].pc = "failed"
    BY <1>1, <1>3, WentAlone DEF ClaimPC
  <2>2. UNCHANGED <<Admitted, Answered, PaymentOf, Filed>>
    BY <1>1, <2>1, ClaimMoves, ReleaseMoves DEF Finding, Answering
  <2>. QED
    BY <1>2, <2>2 DEF Treasury!releaseVars
<1>4. CASE link[l].status = "ESCROWED" /\ Goto(c, "deadline")
  <2>1. Alone(c) /\ claim'[c].pc = "deadline"
    BY <1>1, <1>4, WentAlone DEF ClaimPC
  <2>2. UNCHANGED <<Answered, PaymentOf, Filed>>
    BY <1>1, <2>1, ClaimMoves, ReleaseMoves DEF Finding, Answering
  <2>3. Admitted' = Admitted \union {<<c, l>>}
    BY <1>1, <2>1, ClaimMoves DEF Finding
  <2>4. Treasury!Free(c)
    BY <1>1 DEF Treasury!Free, PaymentOf, Standing, Admitted
  <2>5. CauseOf[l].status = "open"
    BY <1>1, <1>4 DEF CauseOf, Cause, Terminal
  <2>6. Treasury!Admit(c, l)
    BY <1>2, <2>2, <2>3, <2>4, <2>5 DEF Treasury!Admit
  <2>. QED
    BY <1>1, <2>6 DEF Treasury!Next
<1>. QED
  BY <1>3, <1>4 DEF ReadLink

LEMMA DeadlineReleases ==
    ASSUME Inv, NEW c \in Claims, CheckDeadline(c)
    PROVE  Treasury!Next \/ UNCHANGED Treasury!releaseVars
<1>. DEFINE l == claim[c].link
<1>1. /\ claim[c].pc = "deadline" /\ l \in Sends
      /\ UNCHANGED <<stage, mirror, link>>
  BY DEF CheckDeadline, Inv, ClaimInv
<1>2. UNCHANGED CauseOf
  BY <1>1 DEF CauseOf
<1>3. CASE Goto(c, "propose")
  <2>1. Alone(c) /\ claim'[c].pc = "propose"
    BY <1>1, <1>3, WentAlone DEF ClaimPC
  <2>2. UNCHANGED <<Admitted, Answered, PaymentOf, Filed>>
    BY <1>1, <2>1, ClaimMoves, ReleaseMoves DEF Finding, Answering
  <2>. QED
    BY <1>2, <2>2 DEF Treasury!releaseVars
<1>4. CASE Goto(c, "expire")
  <2>1. Alone(c) /\ claim'[c].pc = "expire"
    BY <1>1, <1>4, WentAlone DEF ClaimPC
  <2>2. UNCHANGED <<Answered, PaymentOf, Filed>>
    BY <1>1, <2>1, ClaimMoves, ReleaseMoves DEF Finding, Answering
  <2>3. Admitted' = Admitted \ {<<c, l>>}
    BY <2>1, ClaimMoves DEF Finding
  <2>4. Treasury!Withdraw(c, l)
    BY <1>2, <2>2, <2>3 DEF Treasury!Withdraw
  <2>. QED
    BY <1>1, <2>4 DEF Treasury!Next
<1>. QED
  BY <1>3, <1>4 DEF CheckDeadline

LEMMA ExpiryReleases ==
    ASSUME Inv, NEW c \in Claims, WriteExpired(c)
    PROVE  Treasury!Close(claim[c].link) /\ claim[c].link \in Sends
<1>. DEFINE l == claim[c].link
            row == [link[l] EXCEPT !.status = "EXPIRED"]
<1>1. /\ claim[c].pc = "expire" /\ l \in Sends /\ link[l].status \in Opened
      /\ link' = [link EXCEPT ![l].status = "EXPIRED"]
      /\ UNCHANGED <<stage, mirror>> /\ Goto(c, "failed")
  BY DEF WriteExpired, Inv, ClaimInv
<1>2. link[l] \in LinkRow
  BY <1>1, TypedRows DEF Inv
<1>3. row \in LinkRow /\ row.status = "EXPIRED" /\ row.release = link[l].release
  BY <1>2 DEF LinkRow, Statuses
<1>4. CauseOf' = [CauseOf EXCEPT ![l] = Cause(row)]
  BY <1>1, <1>3, RowWritten
<1>5. Cause(row) = [Cause(link[l]) EXCEPT !.status = "closed"]
  BY <1>3 DEF Cause, Terminal
<1>6. Cause(link[l]).status # "none" /\ CauseOf[l] = Cause(link[l])
  BY <1>1 DEF Cause, Terminal, Opened, CauseOf
<1>7. CauseOf' = [CauseOf EXCEPT ![l].status = "closed"]
  BY <1>4, <1>5, <1>6
<1>8. Alone(c) /\ claim'[c].pc = "failed"
  BY <1>1, WentAlone DEF ClaimPC
<1>9. UNCHANGED <<Admitted, Answered, PaymentOf, Filed>>
  BY <1>1, <1>8, ClaimMoves, ReleaseMoves DEF Finding, Answering
<1>. QED
  BY <1>1, <1>6, <1>7, <1>9 DEF Treasury!Close

LEMMA ProposeReleases ==
    ASSUME Inv, NEW c \in Claims, ProposeRelease(c)
    PROVE  Treasury!Make(c, claim[c].link) /\ claim[c].link \in Sends
<1>. DEFINE l == claim[c].link
<1>1. /\ claim[c].pc = "propose" /\ l \in Sends /\ UNCHANGED <<mirror, link>>
      /\ CreateProposal(c) /\ \E next \in {"persist", "failed"} : Goto(c, next)
  BY DEF ProposeRelease, Inv, ClaimInv
<1>2. stage'[c] = "preparing" /\ \A d \in Claims \ {c} : stage'[d] = stage[d]
  BY <1>1, LinksAssumption DEF CreateProposal, Inv, TypeOK, TypeOKProposals
<1>3. Alone(c) /\ claim'[c].pc \in {"persist", "failed"}
  BY <1>1, <1>2, WentAlone DEF ClaimPC
<1>4. <<c, l>> \in Admitted
  BY <1>1 DEF Admitted
<1>5. Admitted' = Admitted \ {<<c, l>>} /\ UNCHANGED <<Answered, Filed>>
  BY <1>1, <1>3, ClaimMoves, ReleaseMoves DEF Finding, Answering
<1>6. PaymentOf' = [PaymentOf EXCEPT ![c] = [status |-> "made", for |-> l]]
  BY <1>2, <1>3, ReleaseMoves DEF Standing
<1>7. UNCHANGED CauseOf
  BY <1>1 DEF CauseOf
<1>. QED
  BY <1>1, <1>4, <1>5, <1>6, <1>7 DEF Treasury!Make

LEMMA PersistReleases ==
    ASSUME Inv, NEW c \in Claims, PersistRelease(c) \/ PersistSignature(c)
    PROVE  Treasury!File(c) \/ UNCHANGED Treasury!releaseVars
<1>1. UNCHANGED <<stage, link>> /\ claim[c].pc \in {"persist", "store"}
  BY DEF PersistRelease, PersistSignature
<1>2. /\ mirror'[c] # "none" /\ \A d \in Claims \ {c} : mirror'[d] = mirror[d]
  BY LinksAssumption DEF PersistRelease, PersistSignature, PersistProposal, Inv, TypeOK,
                         TypeOKProposals
<1>3. UNCHANGED CauseOf
  BY <1>1 DEF CauseOf
<1>4. CASE PersistRelease(c)
  <2>1. Alone(c) /\ claim'[c].pc = "poll" /\ claim[c].pc = "persist"
    BY <1>1, <1>2, <1>4, WentAlone DEF PersistRelease, ClaimPC
  <2>2. UNCHANGED <<Admitted, Answered, PaymentOf>> /\ Filed' = Filed \union {c}
    BY <1>1, <1>2, <2>1, ClaimMoves, ReleaseMoves DEF Finding, Answering
  <2>3. CASE stage[c] # "absent"
    <3>1. PaymentOf[c].status # "none"
      BY <2>3, LinksAssumption DEF PaymentOf, Standing, Inv, TypeOK, TypeOKProposals, Stages
    <3>. QED
      BY <1>3, <2>2, <3>1 DEF Treasury!File
  <2>. QED
    BY <2>1, <2>3 DEF Inv, ClaimInv
<1>5. CASE PersistSignature(c)
  <2>1. Alone(c) /\ claim'[c].pc = "update" /\ claim[c].pc = "store"
    BY <1>1, <1>2, <1>5, WentAlone DEF PersistSignature, ClaimPC
  <2>2. mirror[c] # "none"
    BY <2>1 DEF Inv, ClaimInv
  <2>3. UNCHANGED <<Admitted, Answered, PaymentOf, Filed>>
    BY <1>1, <1>2, <2>1, <2>2, ClaimMoves, ReleaseMoves DEF Finding, Answering
  <2>. QED
    BY <1>3, <2>3 DEF Treasury!releaseVars
<1>. QED
  BY <1>4, <1>5

LEMMA PollReleases ==
    ASSUME Inv, NEW c \in Claims, PollSignPayload(c)
    PROVE  UNCHANGED Treasury!releaseVars
<1>1. claim[c].pc = "poll" /\ UNCHANGED <<stage, mirror, link>>
  BY DEF PollSignPayload
<1>2. /\ claim'[c].pc \in {"poll", "sign", "failed"} /\ claim'[c].link = claim[c].link
      /\ \A d \in Claims \ {c} : claim'[d] = claim[d]
  BY <1>1, TypedRows DEF PollSignPayload, Goto, Inv, ClaimCall
<1>3. Alone(c)
  BY <1>1, <1>2 DEF Alone
<1>4. UNCHANGED <<Admitted, Answered, PaymentOf, Filed>>
  BY <1>1, <1>2, <1>3, ClaimMoves, ReleaseMoves DEF Finding, Answering
<1>. QED
  BY <1>1, <1>4 DEF Treasury!releaseVars, CauseOf

LEMMA SignReleases ==
    ASSUME Inv, NEW c \in Claims, SignRelease(c)
    PROVE  Treasury!Sign(c) \/ UNCHANGED Treasury!releaseVars
<1>. DEFINE l == claim[c].link
<1>1. /\ claim[c].pc = "sign" /\ stage[c] # "absent" /\ mirror[c] # "none"
      /\ UNCHANGED <<mirror, link>>
  BY DEF SignRelease, Inv, ClaimInv
<1>2. UNCHANGED CauseOf
  BY <1>1 DEF CauseOf
<1>3. CASE UNCHANGED stage /\ Goto(c, "failed")
  <2>1. Alone(c) /\ claim'[c].pc = "failed"
    BY <1>1, <1>3, WentAlone DEF ClaimPC
  <2>2. UNCHANGED <<Admitted, Answered, PaymentOf, Filed>>
    BY <1>1, <1>3, <2>1, ClaimMoves, ReleaseMoves DEF Finding, Answering
  <2>. QED
    BY <1>2, <2>2 DEF Treasury!releaseVars
<1>4. CASE SignProposal(c) /\ \E next \in {"store", "update", "failed"} : Goto(c, next)
  <2>1. /\ stage[c] = "ready" /\ stage'[c] = "signed"
        /\ \A d \in Claims \ {c} : stage'[d] = stage[d]
    BY <1>4, LinksAssumption DEF SignProposal, Inv, TypeOK, TypeOKProposals
  <2>2. Alone(c) /\ claim'[c].pc \in {"store", "update", "failed"}
    BY <1>1, <1>4, <2>1, WentAlone DEF ClaimPC
  <2>3. UNCHANGED <<Admitted, Filed>> /\ c \in Filed
    BY <1>1, <2>2, ClaimMoves, ReleaseMoves DEF Finding, Filed
  <2>4. Answered' \in {Answered, Answered \union {c}}
    BY <1>1, <2>2, ClaimMoves DEF Answering
  <2>5. PaymentOf[c] = [status |-> "made", for |-> l]
    BY <2>1 DEF PaymentOf, Standing
  <2>6. PaymentOf' = [PaymentOf EXCEPT ![c] = [status |-> "sent", for |-> l]]
    BY <2>1, <2>2, ReleaseMoves DEF Standing
  <2>7. PaymentOf' = [PaymentOf EXCEPT ![c].status = "sent"]
    <3>1. [PaymentOf[c] EXCEPT !.status = "sent"] = [status |-> "sent", for |-> l]
      BY <2>5
    <3>. QED
      BY <2>6, <3>1
  <2>. QED
    BY <1>2, <2>3, <2>4, <2>5, <2>7 DEF Treasury!Sign
<1>. QED
  BY <1>3, <1>4 DEF SignRelease

LEMMA WriteReleases ==
    ASSUME Inv, NEW c \in Claims, WriteClaimed(c)
    PROVE  Treasury!Record(c, claim[c].link) /\ claim[c].link \in Sends
<1>. DEFINE l == claim[c].link
            row == [link[l] EXCEPT !.status = "CLAIMED", !.claimedBy = Claimant[c], !.release = c]
<1>1. /\ claim[c].pc = "update" /\ l \in Sends
      /\ stage[c] \in {"signed", "executed", "rejected", "expired"}
      /\ link' = [link EXCEPT ![l].status = "CLAIMED", ![l].claimedBy = Claimant[c],
                              ![l].release = c]
      /\ UNCHANGED <<stage, mirror>> /\ Goto(c, "done")
  BY DEF WriteClaimed, Inv, ClaimInv
<1>2. link[l] \in LinkRow
  BY <1>1, TypedRows DEF Inv
<1>3. row \in LinkRow /\ row.status = "CLAIMED" /\ row.release = c
  <2>1. row \in LinkRow
    BY <1>2, ClaimedRow, LinksAssumption
  <2>. QED
    BY <1>2, <2>1 DEF LinkRow
<1>4. CauseOf' = [CauseOf EXCEPT ![l] = Cause(row)]
  <2>1. link' = [link EXCEPT ![l] = row]
    BY <1>1, TypedRows DEF Inv, LinkRow
  <2>. QED
    BY <1>1, <1>3, <2>1, RowWritten
<1>5. Cause(row) = [status |-> "closed", by |-> c]
  BY <1>3 DEF Cause, Terminal
<1>6. c \in Answered /\ PaymentOf[c].for = l
  BY <1>1 DEF Answered, PaymentOf
<1>7. Alone(c) /\ claim'[c].pc = "done"
  BY <1>1, WentAlone DEF ClaimPC
<1>8. UNCHANGED <<Admitted, PaymentOf, Filed>> /\ Answered' = Answered \ {c}
  BY <1>1, <1>7, ClaimMoves, ReleaseMoves DEF Finding, Answering
<1>. QED
  BY <1>1, <1>4, <1>5, <1>6, <1>8 DEF Treasury!Record

LEMMA AbortReleases ==
    ASSUME Inv, NEW c \in Claims, AbortClaim(c)
    PROVE  Treasury!Next \/ UNCHANGED Treasury!releaseVars
<1>. DEFINE l == claim[c].link
<1>1. /\ claim[c].pc # "idle" /\ l \in Sends /\ UNCHANGED <<stage, mirror, link>>
  BY DEF AbortClaim, Inv, ClaimInv
<1>2. Alone(c) /\ claim'[c].pc = "failed"
  BY <1>1, WentAlone DEF AbortClaim, ClaimPC
<1>3. UNCHANGED <<PaymentOf, Filed>> /\ UNCHANGED CauseOf
  BY <1>1, <1>2, ReleaseMoves DEF CauseOf
<1>4. /\ Admitted' = Admitted \ {<<c, l>>}
      /\ Answered' = Answered \ {c}
  BY <1>2, ClaimMoves DEF Finding, Answering
<1>5. CASE claim[c].pc \in Answering
  <2>1. UNCHANGED Admitted
    BY <1>2, <1>5, ClaimMoves DEF Finding, Answering
  <2>. QED
    BY <1>3, <1>4, <2>1 DEF Treasury!Forget, Treasury!Next
<1>6. CASE claim[c].pc \notin Answering
  <2>1. UNCHANGED Answered
    BY <1>2, <1>6, ClaimMoves DEF Finding, Answering
  <2>. QED
    BY <1>1, <1>3, <1>4, <2>1 DEF Treasury!Withdraw, Treasury!Next
<1>. QED
  BY <1>5, <1>6

(* The send handler opens the link's cause, and does nothing else of it. *)
LEMMA SendReleases ==
    ASSUME Inv, NEW l \in Sends,
           \/ SendStep(l) \/ PassDeadline(l) \/ SignEscrow(l)
    PROVE  Treasury!Open(l) \/ UNCHANGED Treasury!releaseVars
<1>1. l \notin Claims /\ l \in Proposals
  BY LinksAssumption
<1>2. \A c \in Claims : claim'[c] = claim[c] /\ stage'[c] = stage[c] /\ mirror'[c] = mirror[c]
  <2>1. \A c \in Claims : c \in Proposals
    BY LinksAssumption
  <2>. QED
    BY <1>1, <2>1 DEF Inv, TypeOK, TypeOKProposals, SendStep, StartDirect, StartEscrow, ProposeSend,
                PersistSend, WriteEscrowed, AbortSend, PassDeadline, SignEscrow,
                CreateProposal, SignProposal, PersistProposal
<1>3. UNCHANGED <<Admitted, PaymentOf, Filed, Answered>>
  BY <1>2, UndisturbedClaims DEF Undisturbed
<1>4. CASE UNCHANGED link
  BY <1>3, <1>4 DEF CauseOf, Treasury!releaseVars
<1>5. CASE StartEscrow(l)
  <2>. DEFINE row == [link[l] EXCEPT !.status = "PENDING_ESCROW"]
  <2>1. link[l] \in LinkRow /\ link[l].status = "none"
    BY <1>5, TypedRows DEF StartEscrow, Inv, SendInv
  <2>2. row \in LinkRow /\ row.status = "PENDING_ESCROW" /\ row.release = link[l].release
    BY <2>1 DEF LinkRow, Statuses
  <2>3. link' = [link EXCEPT ![l] = row]
    BY <1>5 DEF StartEscrow
  <2>4. CauseOf' = [CauseOf EXCEPT ![l] = Cause(row)]
    BY <2>2, <2>3, RowWritten
  <2>5. Cause(row) = CauseOf[l]
    BY <2>1, <2>2 DEF Cause, CauseOf, Terminal
  <2>6. UNCHANGED CauseOf
    BY <2>4, <2>5 DEF CauseOf
  <2>. QED
    BY <1>3, <2>6 DEF Treasury!releaseVars
<1>6. CASE WriteEscrowed(l)
  <2>. DEFINE row == [link[l] EXCEPT !.status = "ESCROWED", !.escrow = l]
  <2>1. link[l] \in LinkRow /\ link[l].status = "PENDING_ESCROW"
    BY <1>6, TypedRows DEF WriteEscrowed, Inv, SendInv
  <2>2. row \in LinkRow
    BY <2>1, EscrowedRow
  <2>3. row.status = "ESCROWED" /\ row.release = link[l].release
    BY <2>1 DEF LinkRow
  <2>4. link' = [link EXCEPT ![l] = row]
    BY <1>6, TypedRows DEF WriteEscrowed, Inv, LinkRow
  <2>5. CauseOf' = [CauseOf EXCEPT ![l] = Cause(row)]
    BY <2>2, <2>4, RowWritten
  <2>6. /\ CauseOf[l] = [status |-> "none", by |-> link[l].release]
        /\ Cause(row) = [status |-> "open", by |-> link[l].release]
    BY <2>1, <2>3 DEF Cause, CauseOf, Terminal
  <2>7. CauseOf' = [CauseOf EXCEPT ![l].status = "open"]
    <3>1. [CauseOf[l] EXCEPT !.status = "open"] = Cause(row)
      BY <2>6
    <3>. QED
      BY <2>5, <3>1
  <2>. QED
    BY <1>3, <2>6, <2>7 DEF Treasury!Open
<1>. QED
  BY <1>4, <1>5, <1>6 DEF SendStep, StartDirect, ProposeSend, PersistSend, AbortSend,
                          PassDeadline, SignEscrow

LEMMA StartReleases ==
    ASSUME Inv, NEW c \in Claims, NEW l \in Sends, StartClaim(c, l)
    PROVE  UNCHANGED Treasury!releaseVars
<1>1. claim[c].pc = "idle" /\ UNCHANGED <<stage, mirror, link>>
  BY DEF StartClaim
<1>2. claim'[c].pc = "read" /\ \A d \in Claims \ {c} : claim'[d] = claim[d]
  BY TypedRows DEF StartClaim, Inv, ClaimCall
<1>3. \A d \in Claims : Undisturbed(d)
  BY <1>1, <1>2 DEF Undisturbed, Finding, Answering
<1>. QED
  BY <1>1, <1>3, UndisturbedClaims DEF CauseOf, Treasury!releaseVars

LEMMA BmoniReleases ==
    ASSUME Inv, NEW p \in Proposals, BmoniStep(p), ~ Expire(p)
    PROVE  UNCHANGED Treasury!releaseVars
<1>1. UNCHANGED <<mirror, link, claim>>
  BY DEF BmoniStep, BmoniMoves, PreparePayload, Execute
<1>2. \A c \in Claims : /\ Standing(stage'[c]) = Standing(stage[c])
                        /\ stage'[c] = "absent" <=> stage[c] = "absent"
  BY LinksAssumption DEF BmoniStep, BmoniMoves, PreparePayload, Execute, Standing,
     Inv, TypeOK, TypeOKProposals
<1>. QED
  BY <1>1, <1>2, UndisturbedClaims DEF Undisturbed, CauseOf, Treasury!releaseVars

LEMMA DeclineReleases ==
    ASSUME Inv, NEW p \in Proposals, Decline(p) \/ (BmoniStep(p) /\ Expire(p))
    PROVE  (p \in Claims /\ Treasury!Decline(p)) \/ UNCHANGED Treasury!releaseVars
<1>1. /\ UNCHANGED <<link, claim>>
      /\ stage[p] \in {"preparing", "ready", "signed"} /\ stage'[p] \in {"rejected", "expired"}
      /\ \A q \in Proposals \ {p} : stage'[q] = stage[q] /\ mirror'[q] = mirror[q]
      /\ mirror'[p] = mirror[p] \/ mirror'[p] # "none"
  BY DEF Decline, RejectProposal, PersistProposal, BmoniStep, Expire, Inv, TypeOK,
     TypeOKProposals
<1>2. UNCHANGED CauseOf
  BY <1>1 DEF CauseOf
<1>3. CASE p \notin Claims
  <2>1. \A c \in Claims : Undisturbed(c)
    BY <1>1, <1>3, LinksAssumption DEF Undisturbed
  <2>. QED
    BY <1>2, <2>1, UndisturbedClaims DEF Treasury!releaseVars
<1>4. CASE p \in Claims
  <2>1. Alone(p)
    BY <1>1, <1>4, LinksAssumption DEF Alone
  <2>2. UNCHANGED <<Admitted, Answered>> /\ Filed' \in {Filed, Filed \union {p}}
    BY <1>1, <1>4, <2>1, ClaimMoves, ReleaseMoves
  <2>3. /\ PaymentOf[p].status \in {"made", "sent"}
        /\ PaymentOf[p] = [status |-> PaymentOf[p].status, for |-> claim[p].link]
    BY <1>1, <1>4 DEF PaymentOf, Standing
  <2>4. PaymentOf' = [PaymentOf EXCEPT ![p] = [status |-> "declined", for |-> claim[p].link]]
    BY <1>1, <1>4, <2>1, ReleaseMoves DEF Standing
  <2>5. PaymentOf' = [PaymentOf EXCEPT ![p].status = "declined"]
    <3>1. [PaymentOf[p] EXCEPT !.status = "declined"]
            = [status |-> "declined", for |-> claim[p].link]
      BY <2>3
    <3>. QED
      BY <2>4, <3>1
  <2>. QED
    BY <1>2, <1>4, <2>2, <2>3, <2>5 DEF Treasury!Decline
<1>. QED
  BY <1>3, <1>4

LEMMA StepReleases ==
    ASSUME Inv, [Next]_vars
    PROVE  Treasury!Next \/ UNCHANGED Treasury!releaseVars
<1>1. ASSUME NEW l \in Sends, SendStep(l) \/ PassDeadline(l) \/ SignEscrow(l)
      PROVE  Treasury!Next \/ UNCHANGED Treasury!releaseVars
  BY <1>1, SendReleases DEF Treasury!Next
<1>2. ASSUME NEW c \in Claims, ClaimStep(c)
      PROVE  Treasury!Next \/ UNCHANGED Treasury!releaseVars
  BY <1>2, ReadReleases, DeadlineReleases, ExpiryReleases, ProposeReleases, PersistReleases,
     PollReleases, SignReleases, WriteReleases DEF ClaimStep, Treasury!Next
<1>3. ASSUME NEW c \in Claims, AbortClaim(c) \/ \E l \in Sends : StartClaim(c, l)
      PROVE  Treasury!Next \/ UNCHANGED Treasury!releaseVars
  BY <1>3, AbortReleases, StartReleases
<1>4. ASSUME NEW p \in Proposals, BmoniStep(p) \/ Decline(p)
      PROVE  Treasury!Next \/ UNCHANGED Treasury!releaseVars
  BY <1>4, BmoniReleases, DeclineReleases DEF Treasury!Next
<1>5. CASE UNCHANGED vars
  BY <1>5 DEF vars, Treasury!releaseVars, CauseOf, Admitted, PaymentOf, Filed, Answered
<1>. QED
  BY <1>1, <1>2, <1>3, <1>4, <1>5 DEF Next

(* Links implements Release: a claim is paid only if it found the link     *)
(* ESCROWED, the treasury signs a release only after PayFlex has its row,  *)
(* and the link is CLAIMED only by a release that was signed for it        *)
(* (links.service.ts, claim; transfer.service.ts, createTransfer and       *)
(* submitSignature).                                                       *)
THEOREM ClaimsReleased == Spec => ClaimsAreReleases
<1>1. Inv /\ [Next]_vars => [Treasury!Next]_(Treasury!releaseVars)
  BY StepReleases
<1>. QED
  BY <1>1, InitReleases, Invariance, PTL DEF Spec, ClaimsAreReleases, Treasury!Spec

=============================================================================
