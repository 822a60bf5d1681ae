--------------------------- MODULE AccountScripts ---------------------------
(***************************************************************************)
(* backend/scripts: the sandbox scripts that take one new person through   *)
(* the services of Accounts and declare what they saw verified - phase 1   *)
(* (sandbox-lifecycle.ts), phase 2, kyc-bvn-mismatch-check.ts and          *)
(* provision-treasury.ts.  The person is open to other requests meanwhile. *)
(***************************************************************************)
EXTENDS Accounts, SequencesExt

CONSTANTS
    Me,                \* the caller that is the script
    MaxPolls           \* how often it asks again: 10 and 15 in the code

ASSUME ScriptAssumption ==
    Me \in Callers /\ MaxPolls \in Nat /\ IsFiniteSet(Documents)

VARIABLE script        \* the script that runs, and how far it is

allVars == <<vars, script>>

(* Phase 1 picks cNGN, the naira wallet, or where BMONI does not list it   *)
(* whatever it lists first: "phase1Other".                                 *)
Scripts == {"phase1", "phase1Other", "phase2", "mismatch", "treasury"}

WalletFor(name) == IF name = "phase1Other" THEN "USD" ELSE "NGN"

(* A request that keeps nothing: bvn-lookup, supported currencies, KYC     *)
(* options and occupations, and in the end the wallets' home screen.       *)
Forward == Op("forward", None)

(* Mutant: the wallet's owner is generated after the challenge is asked.   *)
Provision_AddressLate ==
    <<Op("challenge", None), Op("address", None), Op("wallet", "NGN")>>

(* The owner's address, the owner-proof challenge, the NGN (cNGN) wallet.  *)
Provision ==
    <<Op("address", None), Op("challenge", None), Op("wallet", "NGN")>>

PlanPhase1(name) ==
    <<Op("register", None), Forward, Op("address", None), Forward,
      Op("challenge", None), Op("wallet", WalletFor(name)), Op("status", None)>>

Documentation == [i \in 1 .. Cardinality(Documents) |-> Op("submit", SetToSeq(Documents)[i])]

PlanPhase2 ==
    <<Op("register", None)>> \o Provision \o <<Forward, Forward>> \o Documentation \o
    <<Op("readiness", None), Op("activate", "NGN"), Op("startNigeria", None),
      Op("status", None), Forward, Forward, Forward>>

PlanMismatch ==
    <<Op("register", None), Forward>> \o Provision \o
    <<Op("startNigeria", None), Op("status", None)>>

PlanTreasury == <<Op("register", None)>> \o Provision

Plan == [phase1 |-> PlanPhase1("phase1"), phase1Other |-> PlanPhase1("phase1Other"),
         phase2 |-> PlanPhase2, mismatch |-> PlanMismatch, treasury |-> PlanTreasury]

(* Scripts are where their code lets them be, over well-typed Accounts.    *)
ScriptTypeOK ==
    /\ TypeOK
    /\ script \in [name     : Scripts,
                   at       : 1 .. Len(PlanPhase2),
                   polls    : 0 .. MaxPolls,
                   rejected : BOOLEAN,
                   saw      : {"none"} \union RailStages,
                   state    : {"off", "running", "passed", "failed"}]

(* A script makes its phone number from the time of day, so nobody has     *)
(* heard of it; or there is only the backend, and no script.               *)
ScriptInit ==
    \E name \in Scripts, state \in {"running", "off"} :
        /\ IF state = "running" THEN InitNew ELSE Init /\ name = "treasury"
        /\ script = [name |-> name, at |-> 1, polls |-> 0, rejected |-> FALSE,
                     saw |-> "none", state |-> state]

----------------------------------------------------------------------------

Running == script.state = "running"
Wanted == Plan[script.name][script.at]

ScriptCall == Running /\ Begin(Me, Wanted) /\ UNCHANGED script

(* The script is done with this request and will make another. *)
Reset(s) ==
    /\ req' = [req EXCEPT ![Me] = Unasked[Me]]
    /\ script' = s
    /\ UNCHANGED <<bmoni, row, code>>

Stop(state) == script' = [script EXCEPT !.state = state] /\ UNCHANGED vars

Move(s) == IF s.at = Len(Plan[s.name]) THEN [s EXCEPT !.state = "passed"]
           ELSE [s EXCEPT !.at = @ + 1]

Saw == IF Wanted.kind = "status" THEN [script EXCEPT !.saw = req[Me].told] ELSE script

Unsettled ==
    /\ Wanted.kind = "status"
    /\ \/ script.name = "phase2"
       \/ script.name = "mismatch" /\ ~script.rejected
    /\ req[Me].told # "active"

(* Mutant: the attempt is not counted. *)
PollAgain_Uncounted ==
    /\ Unsettled
    /\ Reset(Saw)

(* Mutant: it asks once more than the loop allows. *)
PollAgain_OneTooMany ==
    /\ Unsettled
    /\ script.polls <= MaxPolls
    /\ Reset([Saw EXCEPT !.polls = @ + 1])

(* anchorStatus flips some time after start-nigeria returns. *)
PollAgain ==
    /\ Unsettled
    /\ script.polls < MaxPolls
    /\ Reset([Saw EXCEPT !.polls = @ + 1])

(* Mutant: the last status read need not be "active". *)
Unexpected_AnyStatus == Wanted.kind = "readiness" /\ req[Me].told # "ready"

(* What makes phase 2 throw: not ready, or not active in time. *)
Unexpected ==
    \/ Wanted.kind = "readiness" /\ req[Me].told # "ready"
    \/ script.name = "phase2" /\ Unsettled

ScriptReturn ==
    /\ Running
    /\ req[Me].pc = "done"
    /\ \/ PollAgain
       \/ /\ Unsettled => script.polls = MaxPolls
          /\ IF Unexpected THEN Stop("failed") ELSE Reset(Move(Saw))

(* Whatever makes start-nigeria throw is the rejection kyc-bvn-mismatch    *)
(* looks for; any other error ends the script.                             *)
ScriptThrows ==
    /\ Running
    /\ req[Me].pc \in Ends \ {"done"}
    /\ IF script.name = "mismatch" /\ Wanted.kind = "startNigeria"
       THEN Reset(Move([script EXCEPT !.rejected = TRUE]))
       ELSE Stop("failed")

ScriptStep == ScriptCall \/ ScriptReturn \/ ScriptThrows

Served == Running /\ (Handle(Me) \/ Abort(Me)) /\ UNCHANGED script

Scripted == script.state # "off"

(* Without a script its caller is one more client, and codes are shown: no *)
(* script here scans one.                                                  *)
Clients == IF Scripted THEN Callers \ {Me} ELSE Callers

ScriptNext ==
    \/ ScriptStep
    \/ Served
    \/ BmoniStep /\ UNCHANGED script
    \/ CodeStep /\ ~Scripted /\ UNCHANGED script
    \/ \E r \in Clients : Request(r) /\ UNCHANGED script

(* The script goes on when its request is over, and a request is over: a   *)
(* call to BMONI is answered or given up after 30 seconds.                 *)
ScriptSpec ==
    /\ ScriptInit
    /\ [][ScriptNext]_allVars
    /\ WF_allVars(ScriptStep)
    /\ WF_allVars(Served)

----------------------------------------------------------------------------
(* Properties *)

(* A script that declares its phase verified leaves a person that can be   *)
(* used: user, owner and wallet in the rows; after phase 2 also documents, *)
(* review and a rail that BMONI really opened, and kyc-bvn-mismatch warns  *)
(* only of a rail that is open - whatever else happened in between.        *)
VerifiedMeansProvisioned ==
    script.state = "passed" =>
        /\ row.user /\ row.address /\ WalletFor(script.name) \in row.wallet
        /\ script.name = "phase2" =>
              row.submitted = Documents /\ row.ready /\ bmoni.rail["NGN"] = "active"
        /\ script.name \in {"phase2", "mismatch"} /\ ~script.rejected =>
              row.rail["NGN"] = "submitted"
        /\ script.saw = "active" => bmoni.rail["NGN"] = "active"

(* Beside a script as without one, overlapping requests lose nothing of    *)
(* what OnlyFailuresLose names - until kyc-bvn-mismatch has taken a failed *)
(* start-nigeria, which may have got through, for the rejection it awaits. *)
OverlapsKeepRows == ~script.rejected => OnlyFailuresLose

(* The scripts ask for each step only when the services let them: no order *)
(* of events makes a handler refuse one for a row that is missing.         *)
ScriptNeverRefused == Running => req[Me].pc # "refused"

(* Every script comes to a verdict: polling is bounded, so a rail that     *)
(* never opens does not keep it forever.                                   *)
ScriptEnds == <>~Running

=============================================================================
