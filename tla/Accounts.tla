------------------------------ MODULE Accounts ------------------------------
(***************************************************************************)
(* backend/src/users, onboarding, kyc, agent, and the entry points of      *)
(* transfer: how one person, who is one phone number, gets a BMONI user, a *)
(* wallet, a reviewed identity and a payment rail, how they then pay - to  *)
(* somebody, a QR code, or over an agent's counter - and what PayFlex's    *)
(* rows say of it all.  The signing of a payment is TransferService's.     *)
(*                                                                         *)
(* The handlers have one shape: read PayFlex's rows and perhaps refuse,    *)
(* call BMONI, and store what it answered.  Between two awaits any other   *)
(* handler runs, at any of them the handler may fail, and the answer to a  *)
(* call that took effect may be lost.  Each request is used once.          *)
(***************************************************************************)
EXTENDS FiniteSets, Naturals

CONSTANTS
    Callers,           \* requests to the backend
    Documents,         \* what BMONI wants before it reviews an identity
    None               \* the argument of an operation that takes none

Rails == {"NGN", "USD"}

ASSUME AccountsAssumption == None \notin Rails \union Documents

VARIABLES
    bmoni,             \* what BMONI holds of this person
    row,               \* this person's rows in PayFlex's database
    req,               \* the handler of each request
    code               \* the QR code another person shows this one

vars == <<bmoni, row, req, code>>

(* A rail at BMONI, and what a RailOnboarding row may say of it. *)
RailStages   == {"not_started", "pending", "active"}
RailStatuses == {"none", "submitted", "action_required"} \union RailStages

Op(kind, arg) == [kind |-> kind, arg |-> arg]

(* A transfer to a user, an address or a PayTag, the payment of a scanned  *)
(* QR code, and an agent's business: all create one proposal, in NGN.      *)
Cash     == {"cashIn", "cashOut"}
Payments == {"transfer", "payQr"} \union Cash

(* "forward" stands for the endpoints that pass a call on and keep nothing: *)
(* options, occupations, bvn-lookup, wallets, balances, banks, the         *)
(* CAD/EUR/MXN stubs.  Registering a PayTag, signing and rejecting are not *)
(* this module's.                                                          *)
UserOperations == [kind : {"register", "address"}, arg : {None}]

OnboardingOperations ==
    [kind : {"challenge", "status", "startNigeria", "startUsa", "vbaStatus", "forward"},
     arg : {None}]
      \union [kind : {"wallet"}, arg : Rails]

KycOperations ==
    [kind : {"readiness", "forward"}, arg : {None}]
      \union [kind : {"submit"}, arg : Documents]
      \union [kind : {"activate"}, arg : Rails]

TransferOperations == [kind : {"transfer", "forward"}, arg : {None}]
QrPayOperations    == [kind : {"payQr"}, arg : {None}]
WalletOperations   == [kind : {"forward"}, arg : {None}]

AgentOperations ==
    [kind : Cash, arg : {None}] \union [kind : {"agentStatus"}, arg : {"on", "off"}]

(* A withdrawal names the wallet it debits; a deposit goes to USD.         *)
PaymentsOperations ==
    [kind : {"deposit", "forward"}, arg : {None}] \union [kind : {"withdraw"}, arg : Rails]

Operations ==
    UserOperations \union OnboardingOperations \union KycOperations
      \union TransferOperations \union QrPayOperations \union WalletOperations
      \union AgentOperations \union PaymentsOperations

Ends == {"done", "refused", "denied", "failed"}
PCs  == {"idle", "call", "profile", "store", "store422", "ledger"} \union Ends

BmoniState ==
    [user      : {"none", "ours", "other"},
     wallet    : SUBSET Rails,
     kyc       : SUBSET Documents,
     ready     : BOOLEAN,
     activated : SUBSET Rails,
     rail      : [Rails -> RailStages],
     proposals : SUBSET Callers,
     signed    : SUBSET Callers]

(* AppUser (and its owner's address and isAgent), SmartWallet, KycProfile, *)
(* RailOnboarding, TransferProposal and AgentTransaction.                  *)
RowState ==
    [user      : BOOLEAN,
     address   : BOOLEAN,
     agent     : BOOLEAN,
     wallet    : SUBSET Rails,
     submitted : SUBSET Documents,
     ready     : BOOLEAN,
     activated : SUBSET Rails,
     rail      : [Rails -> RailStatuses],
     proposals : SUBSET Callers,
     ledger    : SUBSET Callers]

(* What a handler remembers: the activated currencies it has read, and     *)
(* what BMONI told it.                                                     *)
Handler == [pc : PCs, op : Operations, seen : SUBSET Rails, told : RailStages \union {"ready"}]

(* Rows and handlers hold what the schema and the code let them hold.      *)
TypeOK ==
    /\ bmoni \in BmoniState
    /\ row \in RowState
    /\ req \in [Callers -> Handler]
    /\ code \in {"none", "live", "expired"}

Unasked == [r \in Callers |->
              [pc |-> "idle", op |-> Op("forward", None), seen |-> {}, told |-> "not_started"]]

(* Nobody has heard of this person. *)
InitNew ==
    /\ bmoni = [user |-> "none", wallet |-> {}, kyc |-> {}, ready |-> FALSE,
                activated |-> {}, rail |-> [c \in Rails |-> "not_started"],
                proposals |-> {}, signed |-> {}]
    /\ row = [user |-> FALSE, address |-> FALSE, wallet |-> {}, submitted |-> {},
              ready |-> FALSE, activated |-> {}, rail |-> [c \in Rails |-> "none"],
              agent |-> FALSE, proposals |-> {}, ledger |-> {}]
    /\ req = Unasked
    /\ code = "none"

(* Served one request at a time, the person has come as far as having both *)
(* wallets and all documents in, and no rail is started.                   *)
InitProvisioned ==
    /\ bmoni = [user |-> "ours", wallet |-> Rails, kyc |-> Documents, ready |-> FALSE,
                activated |-> {}, rail |-> [c \in Rails |-> "not_started"],
                proposals |-> {}, signed |-> {}]
    /\ row = [user |-> TRUE, address |-> TRUE, wallet |-> Rails, submitted |-> Documents,
              ready |-> FALSE, activated |-> {}, rail |-> [c \in Rails |-> "none"],
              agent |-> FALSE, proposals |-> {}, ledger |-> {}]
    /\ req = Unasked
    /\ code = "none"

Init == InitNew \/ InitProvisioned

----------------------------------------------------------------------------
(* The start of a handler: what it requires of PayFlex's rows.  It awaits  *)
(* them one after the other; no row is ever deleted, so one step that      *)
(* looks at all of them refuses the same requests.                         *)

Goto(r, pc) == req' = [req EXCEPT ![r].pc = pc]

(* Mutant: a row does not keep getOrCreate from posting again. *)
HasRow_Never(op) == FALSE

(* getOrCreate answers with the row if there is one. *)
HasRow(op) == op.kind = "register" /\ row.user

(* findById *)
UserKnown(op) == op.kind = "register" \/ row.user

(* requestOwnerProofChallenge, createSmartWallet *)
AddressKnown(op) == op.kind \in {"challenge", "wallet"} => row.address

(* findSmartWalletByCurrency, and findSmartWallet of transfers and payments *)
WalletOnFile(op) ==
    /\ op.kind \in {"startNigeria"} \union Payments => "NGN" \in row.wallet
    /\ op.kind \in {"startUsa", "deposit"} => "USD" \in row.wallet
    /\ op.kind = "withdraw" => op.arg \in row.wallet

(* requireAgent *)
IsAgent(op) == op.kind = "cashIn" => row.agent

(* Mutant: the token's signature is checked, its expiry is not. *)
CodeVerified_Forever(op) == op.kind = "payQr" => code # "none"

(* HmacTokenService.verify, at the start of pay. *)
CodeVerified(op) == op.kind = "payQr" => code = "live"

Allowed(op) ==
    /\ UserKnown(op) /\ AddressKnown(op) /\ WalletOnFile(op)
    /\ IsAgent(op) /\ CodeVerified(op)

(* The other side is not this model's person: their PayTag may not resolve *)
(* and they may be no agent.                                               *)
MayBeUnknown(op) == op.kind \in {"transfer"} \union Cash

Local(op) == op.kind \in {"address", "agentStatus"}

(* What no row answers or forbids goes to BMONI, except an owner's address *)
(* and an agent's status, which are only stored.                           *)
Begin(r, op) ==
    /\ req[r].pc = "idle"
    /\ \E pc \in {"done", "refused", "store", "call"} :
          /\ pc = "done" <=> HasRow(op)
          /\ pc = "refused" => ~HasRow(op) /\ (MayBeUnknown(op) \/ ~Allowed(op))
          /\ pc \in {"store", "call"} => Allowed(op) /\ (pc = "store" <=> Local(op))
          /\ req' = [req EXCEPT ![r].op = op, ![r].pc = pc]
    /\ UNCHANGED <<bmoni, row, code>>

----------------------------------------------------------------------------
(* Calls to BMONI.  What BMONI makes of a call is external. *)

Calling(r, kinds) == req[r].pc = "call" /\ req[r].op.kind \in kinds

(* The call took effect: its answer arrives, or is given up after 30 s. *)
Answered(r, pc)           == \E then \in {pc, "failed"} : Goto(r, then)
AnsweredWith(r, pc, told) == req' = [req EXCEPT ![r].pc = pc, ![r].told = told]

(* Phone numbers are unique at BMONI, across all its partners: 409. *)
CallRegister(r) ==
    /\ Calling(r, {"register"})
    /\ \/ /\ bmoni.user = "none"
          /\ bmoni' = [bmoni EXCEPT !.user = "ours"]
          /\ Answered(r, "store")
       \/ /\ bmoni.user # "none"
          /\ Goto(r, "denied")
          /\ UNCHANGED bmoni
    /\ UNCHANGED <<row, code>>

CallWallet(r) ==
    /\ Calling(r, {"wallet"})
    /\ bmoni' = [bmoni EXCEPT !.wallet = @ \union {req[r].op.arg}]
    /\ Answered(r, "store")
    /\ UNCHANGED <<row, code>>

(* The three document uploads and the details of PATCH kyc. *)
CallSubmit(r) ==
    /\ Calling(r, {"submit"})
    /\ bmoni' = [bmoni EXCEPT !.kyc = @ \union {req[r].op.arg}]
    /\ Answered(r, "store")
    /\ UNCHANGED <<row, code>>

CallReadiness(r) ==
    /\ Calling(r, {"readiness"})
    /\ IF bmoni.ready THEN AnsweredWith(r, "store", "ready") ELSE Goto(r, "done")
    /\ UNCHANGED <<bmoni, row, code>>

(* activated is true or false in the answer; BMONI is not told the rail. *)
CallActivate(r) ==
    /\ Calling(r, {"activate"})
    /\ \/ /\ bmoni.ready
          /\ bmoni' = [bmoni EXCEPT !.activated = @ \union {req[r].op.arg}]
          /\ Answered(r, "profile")
       \/ Goto(r, "done") /\ UNCHANGED bmoni
    /\ UNCHANGED <<row, code>>

Started(c) == [bmoni EXCEPT !.rail[c] = IF @ = "not_started" THEN "pending" ELSE @]

CallStartNigeria(r) ==
    /\ Calling(r, {"startNigeria"})
    /\ bmoni' = Started("NGN")
    /\ Answered(r, "store")
    /\ UNCHANGED <<row, code>>

(* Accepted, or 422 while the identity check has something to ask for. *)
CallStartUsa(r) ==
    /\ Calling(r, {"startUsa"})
    /\ \/ bmoni' = Started("USD") /\ Answered(r, "store")
       \/ /\ bmoni.rail["USD"] = "not_started"
          /\ Goto(r, "store422")
          /\ UNCHANGED bmoni
    /\ UNCHANGED <<row, code>>

CallVbaStatus(r) ==
    /\ Calling(r, {"vbaStatus"})
    /\ AnsweredWith(r, "store", bmoni.rail["USD"])
    /\ UNCHANGED <<bmoni, row, code>>

(* anchorStatus, and everything that is passed on and not kept. *)
CallForward(r) ==
    /\ Calling(r, {"status", "challenge", "deposit", "forward"})
    /\ AnsweredWith(r, "done", bmoni.rail["NGN"])
    /\ UNCHANGED <<bmoni, row, code>>

(* withdrawWalletNigeria creates a proposal too, which no row tells of.    *)
CallWithdraw(r) ==
    /\ Calling(r, {"withdraw"})
    /\ bmoni' = [bmoni EXCEPT !.proposals = @ \union {r}]
    /\ Answered(r, "done")
    /\ UNCHANGED <<row, code>>

(* createProposal, called by every payment. *)
CallPropose(r) ==
    /\ Calling(r, Payments)
    /\ bmoni' = [bmoni EXCEPT !.proposals = @ \union {r}]
    /\ Answered(r, "store")
    /\ UNCHANGED <<row, code>>

CallBmoni(r) ==
    \/ CallRegister(r) \/ CallWallet(r) \/ CallSubmit(r) \/ CallReadiness(r)
    \/ CallActivate(r) \/ CallStartNigeria(r) \/ CallStartUsa(r)
    \/ CallVbaStatus(r) \/ CallForward(r) \/ CallWithdraw(r) \/ CallPropose(r)

----------------------------------------------------------------------------
(* Storing the answer. *)

Storing(r, kind) == req[r].pc = "store" /\ req[r].op.kind = kind

Stored(r, newRow) ==
    /\ row' = newRow
    /\ Goto(r, "done")
    /\ UNCHANGED <<bmoni, code>>

(* The unique keys refuse a second row for the phone or the BMONI user. *)
StoreUser(r) ==
    /\ Storing(r, "register")
    /\ \/ ~row.user /\ Stored(r, [row EXCEPT !.user = TRUE])
       \/ row.user /\ Goto(r, "failed") /\ UNCHANGED <<bmoni, row, code>>

StoreAddress(r) ==
    Storing(r, "address") /\ Stored(r, [row EXCEPT !.address = TRUE])

StoreAgent(r) ==
    Storing(r, "agentStatus") /\ Stored(r, [row EXCEPT !.agent = req[r].op.arg = "on"])

(* Mutant: a user has one wallet row, whatever its currency. *)
StoreWallet_OneRow(r) ==
    Storing(r, "wallet") /\ Stored(r, [row EXCEPT !.wallet = {req[r].op.arg}])

StoreWallet(r) ==
    Storing(r, "wallet") /\ Stored(r, [row EXCEPT !.wallet = @ \union {req[r].op.arg}])

StoreSubmitted(r) ==
    Storing(r, "submit") /\ Stored(r, [row EXCEPT !.submitted = @ \union {req[r].op.arg}])

StoreReady(r) ==
    Storing(r, "readiness") /\ Stored(r, [row EXCEPT !.ready = TRUE])

(* activatedCurrencies is read in one statement ... *)
ReadProfile(r) ==
    /\ req[r].pc = "profile"
    /\ req' = [req EXCEPT ![r].pc = "store", ![r].seen = row.activated]
    /\ UNCHANGED <<bmoni, row, code>>

(* Mutant: the list is replaced, not extended. *)
StoreActivated_Replaces(r) ==
    Storing(r, "activate") /\ Stored(r, [row EXCEPT !.activated = {req[r].op.arg}])

(* ... and written in the next, with this request's currency added to what *)
(* was read.                                                               *)
StoreActivated(r) ==
    /\ Storing(r, "activate")
    /\ Stored(r, [row EXCEPT !.activated = req[r].seen \union {req[r].op.arg}])

StoreNigeria(r) ==
    Storing(r, "startNigeria") /\ Stored(r, [row EXCEPT !.rail["NGN"] = "submitted"])

StoreUsa(r) ==
    Storing(r, "startUsa") /\ Stored(r, [row EXCEPT !.rail["USD"] = "submitted"])

(* 422 is recorded before it is passed on to the caller. *)
Store422(r) ==
    /\ req[r].pc = "store422"
    /\ row' = [row EXCEPT !.rail["USD"] = "action_required"]
    /\ Goto(r, "denied")
    /\ UNCHANGED <<bmoni, code>>

(* Mutant: the status is stored where there is no row to update. *)
StoreVbaStatus_Upserts(r) ==
    Storing(r, "vbaStatus") /\ Stored(r, [row EXCEPT !.rail["USD"] = "submitted"])

(* updateMany: a status is kept only where a start has left a row. *)
StoreVbaStatus(r) ==
    /\ Storing(r, "vbaStatus")
    /\ Stored(r, IF row.rail["USD"] = "none" THEN row
                 ELSE [row EXCEPT !.rail["USD"] = req[r].told])

(* persistProposal, which ends a payment that is not an agent's. *)
StoreProposal(r) ==
    /\ req[r].pc = "store" /\ req[r].op.kind \in Payments
    /\ row' = [row EXCEPT !.proposals = @ \union {r}]
    /\ Goto(r, IF req[r].op.kind \in Cash THEN "ledger" ELSE "done")
    /\ UNCHANGED <<bmoni, code>>

(* Mutant: only an agent's own request is entered. *)
StoreLedger_CashInOnly(r) ==
    /\ req[r].pc = "ledger"
    /\ Stored(r, IF req[r].op.kind = "cashIn"
                 THEN [row EXCEPT !.ledger = @ \union {r}] ELSE row)

(* The agent's ledger: an AgentTransaction, never touched again. *)
StoreLedger(r) ==
    /\ req[r].pc = "ledger"
    /\ Stored(r, [row EXCEPT !.ledger = @ \union {r}])

StoreAnswer(r) ==
    \/ StoreUser(r) \/ StoreAddress(r) \/ StoreWallet(r) \/ StoreSubmitted(r)
    \/ StoreReady(r) \/ ReadProfile(r) \/ StoreActivated(r) \/ StoreNigeria(r)
    \/ StoreUsa(r) \/ Store422(r) \/ StoreVbaStatus(r) \/ StoreAgent(r)
    \/ StoreProposal(r) \/ StoreLedger(r)

(* BMONI refuses or cannot be reached, the database fails, or the process  *)
(* dies: nothing the handler did is undone.                                *)
Abort(r) ==
    /\ req[r].pc \notin {"idle"} \union Ends
    /\ Goto(r, "failed")
    /\ UNCHANGED <<bmoni, row, code>>

----------------------------------------------------------------------------
(* What happens at BMONI without PayFlex. *)

(* Another partner of BMONI registers the same phone number first. *)
TakenElsewhere ==
    /\ bmoni.user = "none"
    /\ bmoni' = [bmoni EXCEPT !.user = "other"]
    /\ UNCHANGED <<row, req, code>>

Review ==
    /\ bmoni.kyc = Documents
    /\ bmoni' = [bmoni EXCEPT !.ready = TRUE]
    /\ UNCHANGED <<row, req, code>>

OpenRail(c) ==
    /\ bmoni.rail[c] = "pending"
    /\ bmoni' = [bmoni EXCEPT !.rail[c] = "active"]
    /\ UNCHANGED <<row, req, code>>

(* The person signs a proposal: any BMONI lists, so a forgotten one too. *)
Sign(r) ==
    /\ r \in bmoni.proposals \ bmoni.signed
    /\ bmoni' = [bmoni EXCEPT !.signed = @ \union {r}]
    /\ UNCHANGED <<row, req, code>>

BmoniStep ==
    \/ TakenElsewhere \/ Review
    \/ \E c \in Rails : OpenRail(c)
    \/ \E r \in Callers : Sign(r)

(* QrPayService.generate, by the payee, keeps nothing; a code has its time. *)
CodeStep ==
    /\ \/ code = "none" /\ code' = "live"
       \/ code = "live" /\ code' = "expired"
    /\ UNCHANGED <<bmoni, row, req>>

----------------------------------------------------------------------------

Handle(r) == CallBmoni(r) \/ StoreAnswer(r)

Request(r) == Handle(r) \/ Abort(r) \/ \E op \in Operations : Begin(r, op)

Next == BmoniStep \/ CodeStep \/ \E r \in Callers : Request(r)

Spec == Init /\ [][Next]_vars

----------------------------------------------------------------------------
(* Properties *)

(* However requests overlap and wherever they fail, PayFlex never claims   *)
(* what BMONI does not have: no user, wallet, document, reviewed identity, *)
(* activation, started rail or payment, and no agent's entry without one   *)
(* (each row is written after the answer).                                 *)
RowsNeverAhead ==
    /\ row.user => bmoni.user = "ours"
    /\ row.wallet \subseteq bmoni.wallet
    /\ row.submitted \subseteq bmoni.kyc
    /\ row.ready => bmoni.ready
    /\ row.activated \subseteq bmoni.activated
    /\ row.rail["NGN"] = "submitted" => bmoni.rail["NGN"] # "not_started"
    /\ row.rail["USD"] \in {"submitted", "pending"} => bmoni.rail["USD"] # "not_started"
    /\ row.rail["USD"] = "active" => bmoni.rail["USD"] = "active"
    /\ row.ledger \subseteq row.proposals /\ row.proposals \subseteq bmoni.proposals

(* "An existing local row always wins over calling POST /v1/users again"   *)
(* (users.service.ts, getOrCreate): a registration that arrives once the   *)
(* row exists is answered with it, never with a conflict or a failure.     *)
ExistingRowWins ==
    \A r \in Callers :
        [](row.user /\ req[r].pc = "idle"
             => [](req[r].op.kind = "register" => req[r].pc = "done"))

(* One request at a time, and none has failed. *)
OneAtATime ==
    /\ \A r \in Callers : req[r].pc # "failed"
    /\ \A r, q \in Callers : {req[r].pc, req[q].pc} \cap ({"idle"} \union Ends) = {} => r = q

Quiet == \A r \in Callers : req[r].pc \in {"idle"} \union Ends

RowsAgree ==
    /\ row.user <=> bmoni.user = "ours"
    /\ row.wallet = bmoni.wallet
    /\ row.submitted = bmoni.kyc
    /\ row.activated = bmoni.activated
    /\ \A c \in Rails : row.rail[c] \notin {"submitted", "pending", "active"}
                          <=> bmoni.rail[c] = "not_started"
    /\ row.proposals = {r \in bmoni.proposals : req[r].op.kind \in Payments}
    /\ row.ledger = {r \in bmoni.proposals : req[r].op.kind \in Cash}

(* Served one at a time and without failures, PayFlex's rows report all    *)
(* that BMONI was asked for: no activation or payment is forgotten, all of *)
(* an agent's business is in the ledger, no rail goes back to an older     *)
(* status, and a phone number is refused with a conflict only if it is     *)
(* registered elsewhere.  What is lost is lost to an overlap.  A withdrawal *)
(* is the exception: PayFlex has no row for it.                            *)
SerialRequestsMirror ==
    []OneAtATime =>
        [](/\ Quiet => RowsAgree
           /\ \A r \in Callers :
                 req[r].pc = "denied" /\ req[r].op.kind = "register" => bmoni.user = "other")

Failed(op) == \E r \in Callers : req[r].pc = "failed" /\ req[r].op = op

(* Overlapping requests lose nothing of these: when all is quiet, a user,  *)
(* wallet, document, naira rail or payment that BMONI has and no row tells *)
(* of was asked for by a handler that failed.  (Activations and the dollar *)
(* rail's status are not among them: their rows can be overwritten.)       *)
OnlyFailuresLose ==
    Quiet =>
        /\ bmoni.user = "ours" /\ ~row.user => Failed(Op("register", None))
        /\ \A c \in bmoni.wallet \ row.wallet : Failed(Op("wallet", c))
        /\ \A d \in bmoni.kyc \ row.submitted : Failed(Op("submit", d))
        /\ bmoni.rail["NGN"] # "not_started" /\ row.rail["NGN"] # "submitted" =>
              Failed(Op("startNigeria", None))
        /\ \A r \in bmoni.proposals :
              /\ req[r].op.kind \in Payments => r \in row.proposals \/ req[r].pc = "failed"
              /\ req[r].op.kind \in Cash => r \in row.ledger \/ req[r].pc = "failed"

(* A QR code that has expired is over: no request that arrives then leads  *)
(* to a proposal, however often it is repeated (HmacTokenService.verify).  *)
ExpiredCodePaysNothing ==
    \A r \in Callers :
        [](code = "expired" /\ req[r].pc = "idle"
             => [](req[r].op.kind = "payQr" => r \notin bmoni.proposals))

(* "The code expires shortly and can only be paid once" (the app's QR      *)
(* screen): the payer signs at most one payment of it.                     *)
CodePaidOnce ==
    Cardinality({r \in bmoni.signed : req[r].op.kind = "payQr"}) <= 1

=============================================================================
