-------------------------- MODULE TransferProposals --------------------------
(***************************************************************************)
(* BMONI's transfer proposals and PayFlex's table of them.                 *)
(*                                                                         *)
(* Every way of moving money in PayFlex (a transfer, a claimable link, a   *)
(* split-bill share, a savings contribution, a loan) is one BMONI          *)
(* proposal, created and signed through TransferService.  This module      *)
(* holds the state they share and the two ends of each call: what the call *)
(* does at BMONI (external) and what TransferService stores afterwards.    *)
(* The modules that model the handlers extend it.                          *)
(*                                                                         *)
(* A handler makes at most one createProposal call, so a proposal is named *)
(* by the request whose handler created it.                                *)
(***************************************************************************)

CONSTANT Proposals     \* the requests that may create a proposal

VARIABLES
    stage,             \* BMONI's side: how far each proposal has come
    mirror             \* the TransferProposal rows: the last report stored

proposalVars == <<stage, mirror>>

(* A proposal is created unprepared (its sign payload answers 409), becomes *)
(* ready, is signed (signing is the approval), and executes when the wallet *)
(* can fund it, which may be never.  Until it executes it can be declined,  *)
(* and runs out at its expiresAt.                                          *)
Stages == {"absent", "preparing", "ready", "signed", "executed", "rejected", "expired"}

Rows == {"none", "created", "signed", "executed", "rejected"}

(* The status and nextAction BMONI reports of a proposal at stage s: an    *)
(* unsigned proposal reads the same whether or not its payload is ready.   *)
Report(s) == IF s \in {"preparing", "ready"} THEN "created" ELSE s

(* What a proposal at stage s amounts to: it may be signed, its money may  *)
(* move, or neither any more.                                              *)
Standing(s) ==
    CASE s = "absent"                   -> "none"
      [] s \in {"preparing", "ready"}  -> "made"
      [] s \in {"signed", "executed"}  -> "sent"
      [] s \in {"rejected", "expired"} -> "declined"

Funded(p) == stage[p] \in {"signed", "executed"}

InitProposals ==
    /\ stage  = [p \in Proposals |-> "absent"]
    /\ mirror = [p \in Proposals |-> "none"]

TypeOKProposals ==
    /\ stage  \in [Proposals -> Stages]
    /\ mirror \in [Proposals -> Rows]

----------------------------------------------------------------------------
(* What BMONI does when it receives a call.                                *)

CreateProposal(p) ==
    /\ stage[p] = "absent"
    /\ stage' = [stage EXCEPT ![p] = "preparing"]

SignProposal(p) ==
    /\ stage[p] = "ready"
    /\ stage' = [stage EXCEPT ![p] = "signed"]

RejectProposal(p) ==
    /\ stage[p] \in {"preparing", "ready", "signed"}
    /\ stage' = [stage EXCEPT ![p] = "rejected"]

(* What BMONI does on its own. *)

PreparePayload(p) ==
    /\ stage[p] = "preparing"
    /\ stage' = [stage EXCEPT ![p] = "ready"]
    /\ UNCHANGED mirror

Execute(p) ==
    /\ stage[p] = "signed"
    /\ stage' = [stage EXCEPT ![p] = "executed"]
    /\ UNCHANGED mirror

Expire(p) ==
    /\ stage[p] \in {"preparing", "ready", "signed"}
    /\ stage' = [stage EXCEPT ![p] = "expired"]
    /\ UNCHANGED mirror

BmoniMoves(p) == PreparePayload(p) \/ Execute(p) \/ Expire(p)

----------------------------------------------------------------------------
(* TransferService.persistProposal: an upsert keyed by BMONI's id, so it   *)
(* creates the row if there is none and overwrites its status otherwise.   *)
PersistProposal(p, report) ==
    mirror' = [mirror EXCEPT ![p] = report]

=============================================================================
