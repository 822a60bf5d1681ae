--------------------------- MODULE AccountsProofs ---------------------------
(***************************************************************************)
(* Accounts, proved for any number of requests and any documents: the rows *)
(* keep their types and never claim what BMONI does not have.              *)
(*                                                                         *)
(* A row is written some steps after BMONI's answer, so the argument is    *)
(* what a handler that is about to write knows of BMONI (Knows), and that  *)
(* BMONI forgets nothing of it meanwhile (Remembers).                      *)
(***************************************************************************)
EXTENDS Accounts, TLAPS

AboutToStore(r, kinds) == req[r].pc = "store" /\ req[r].op.kind \in kinds

Knows(r) ==
    /\ AboutToStore(r, {"register"}) => bmoni.user = "ours"
    /\ AboutToStore(r, {"wallet"}) => req[r].op.arg \in bmoni.wallet
    /\ AboutToStore(r, {"submit"}) => req[r].op.arg \in bmoni.kyc
    /\ AboutToStore(r, {"readiness"}) => bmoni.ready
    /\ AboutToStore(r, {"activate"}) =>
          req[r].op.arg \in bmoni.activated /\ req[r].seen \subseteq bmoni.activated
    /\ req[r].pc = "profile" =>
          req[r].op.kind = "activate" /\ req[r].op.arg \in bmoni.activated
    /\ AboutToStore(r, {"startNigeria"}) => bmoni.rail["NGN"] # "not_started"
    /\ AboutToStore(r, {"startUsa"}) => bmoni.rail["USD"] # "not_started"
    /\ AboutToStore(r, {"vbaStatus"}) =>
          /\ req[r].told \in RailStages
          /\ req[r].told = "pending" => bmoni.rail["USD"] # "not_started"
          /\ req[r].told = "active" => bmoni.rail["USD"] = "active"
    /\ AboutToStore(r, Payments) => r \in bmoni.proposals
    /\ req[r].pc = "ledger" => r \in row.proposals

Inv ==
    /\ TypeOK
    /\ RowsNeverAhead
    /\ \A r \in Callers : Knows(r)

(* BMONI takes back nothing that PayFlex may have heard of. *)
Remembers ==
    /\ bmoni.user = "ours" => bmoni'.user = "ours"
    /\ bmoni.wallet \subseteq bmoni'.wallet
    /\ bmoni.kyc \subseteq bmoni'.kyc
    /\ bmoni.ready => bmoni'.ready
    /\ bmoni.activated \subseteq bmoni'.activated
    /\ \A c \in Rails : /\ bmoni.rail[c] # "not_started" => bmoni'.rail[c] # "not_started"
                        /\ bmoni.rail[c] = "active" => bmoni'.rail[c] = "active"
    /\ bmoni.proposals \subseteq bmoni'.proposals

TypeOKNext ==
    /\ bmoni' \in BmoniState
    /\ row' \in RowState
    /\ req' \in [Callers -> Handler]
    /\ code' \in {"none", "live", "expired"}

LEMMA InitInv == Init => Inv
<1>. SUFFICES ASSUME Init PROVE Inv
  OBVIOUS
<1>1. TypeOK
  <2>1. bmoni \in BmoniState
    <3>1. CASE InitNew
      BY <3>1 DEF InitNew, BmoniState, RailStages
    <3>2. CASE InitProvisioned
      BY <3>2 DEF InitProvisioned, BmoniState, RailStages
    <3>. QED
      BY <3>1, <3>2 DEF Init
  <2>2. row \in RowState
    <3>1. CASE InitNew
      BY <3>1 DEF InitNew, RowState, RailStatuses
    <3>2. CASE InitProvisioned
      BY <3>2 DEF InitProvisioned, RowState, RailStatuses
    <3>. QED
      BY <3>1, <3>2 DEF Init
  <2>3. req \in [Callers -> Handler]
    <3>1. Op("forward", None) \in Operations
      BY DEF Op, Operations, UserOperations, OnboardingOperations, KycOperations,
         TransferOperations, QrPayOperations, WalletOperations, AgentOperations, PaymentsOperations
    <3>. QED
      BY <3>1 DEF Init, InitNew, InitProvisioned, Unasked, Handler, PCs, RailStages
  <2>. QED
    BY <2>1, <2>2, <2>3 DEF Init, InitNew, InitProvisioned, TypeOK
<1>2. RowsNeverAhead
  BY DEF Init, InitNew, InitProvisioned, RowsNeverAhead, Rails
<1>3. ASSUME NEW r \in Callers PROVE Knows(r)
  BY DEF Init, InitNew, InitProvisioned, Unasked, Knows, AboutToStore
<1>. QED
  BY <1>1, <1>2, <1>3 DEF Inv

(* The requests that do not move keep knowing what they know. *)
LEMMA OthersKnow ==
    ASSUME Inv, TypeOKNext, Remembers, NEW q \in Callers, req'[q] = req[q],
           row.proposals \subseteq row'.proposals
    PROVE  Knows(q)'
BY DEF Inv, TypeOK, Remembers, Knows, AboutToStore, Rails

LEMMA RowsStayBehind ==
    ASSUME Inv, TypeOKNext, Remembers, row' = row
    PROVE  RowsNeverAhead'
BY DEF Inv, TypeOK, Remembers, RowsNeverAhead, Rails

LEMMA HandlerStep ==
    ASSUME Inv, TypeOKNext, Remembers, RowsNeverAhead', NEW r \in Callers, Knows(r)',
           \A q \in Callers \ {r} : req'[q] = req[q], row.proposals \subseteq row'.proposals
    PROVE  Inv'
<1>1. \A q \in Callers : Knows(q)'
  BY OthersKnow
<1>. QED
  BY <1>1 DEF Inv, TypeOK, TypeOKNext

LEMMA GotoTyped ==
    ASSUME TypeOK, NEW r \in Callers, NEW pc \in PCs, Goto(r, pc)
    PROVE  /\ req' \in [Callers -> Handler]
           /\ \A q \in Callers \ {r} : req'[q] = req[q]
           /\ req'[r].pc = pc /\ req'[r].op = req[r].op
           /\ req'[r].seen = req[r].seen /\ req'[r].told = req[r].told
BY DEF TypeOK, Goto, Handler

LEMMA AnsweredWithTyped ==
    ASSUME TypeOK, NEW r \in Callers, NEW pc \in PCs,
           NEW told \in RailStages \union {"ready"}, AnsweredWith(r, pc, told)
    PROVE  /\ req' \in [Callers -> Handler]
           /\ \A q \in Callers \ {r} : req'[q] = req[q]
           /\ req'[r].pc = pc /\ req'[r].op = req[r].op /\ req'[r].told = told
BY DEF TypeOK, AnsweredWith, Handler

LEMMA BeginInv ==
    ASSUME Inv, NEW r \in Callers, NEW op \in Operations, Begin(r, op)
    PROVE  Inv'
<1>1. PICK pc \in {"done", "refused", "store", "call"} :
         /\ req' = [req EXCEPT ![r].op = op, ![r].pc = pc]
         /\ pc = "store" => Local(op)
  BY DEF Begin
<1>2. UNCHANGED <<bmoni, row, code>>
  BY DEF Begin
<1>3. /\ req' \in [Callers -> Handler]
      /\ \A q \in Callers \ {r} : req'[q] = req[q]
      /\ req'[r].pc = pc /\ req'[r].op = op
  BY <1>1 DEF Inv, TypeOK, Handler, PCs, Ends
<1>4. TypeOKNext /\ Remembers
  BY <1>2, <1>3 DEF Inv, TypeOK, TypeOKNext, Remembers
<1>5. Knows(r)'
  BY <1>1, <1>3 DEF Knows, AboutToStore, Local, Payments, Cash
<1>6. RowsNeverAhead'
  BY <1>2, <1>4, RowsStayBehind
<1>. QED
  BY <1>2, <1>3, <1>4, <1>5, <1>6, HandlerStep

LEMMA ArgTyped ==
    ASSUME TypeOK, NEW r \in Callers
    PROVE  /\ req[r].op.kind \in {"wallet", "activate"} => req[r].op.arg \in Rails
           /\ req[r].op.kind = "submit" => req[r].op.arg \in Documents
<1>1. req[r].op \in Operations
  BY DEF TypeOK, Handler
<1>. QED
  BY <1>1 DEF Operations, UserOperations, OnboardingOperations, KycOperations,
     TransferOperations, QrPayOperations, WalletOperations, AgentOperations, PaymentsOperations, Payments, Cash

LEMMA EndedKnows ==
    ASSUME NEW r \in Callers, req'[r].pc \notin {"store", "profile", "ledger"}
    PROVE  Knows(r)'
BY DEF Knows, AboutToStore

LEMMA CallRegisterInv ==
    ASSUME Inv, NEW r \in Callers, CallRegister(r)
    PROVE  Inv'
<1>. USE DEF Inv
<1>1. PICK pc \in PCs : /\ Goto(r, pc) /\ pc \in {"store", "denied", "failed"}
                        /\ pc = "store" => bmoni' = [bmoni EXCEPT !.user = "ours"]
  BY DEF CallRegister, Answered, PCs, Ends
<1>2. bmoni' \in BmoniState
  BY ArgTyped DEF CallRegister, TypeOK, BmoniState, Calling
<1>3. Remembers
  BY DEF CallRegister, TypeOK, BmoniState, Remembers
<1>4. TypeOKNext /\ row' = row
  BY <1>1, <1>2, GotoTyped DEF CallRegister, TypeOK, TypeOKNext
<1>5. /\ req'[r].pc = pc /\ req'[r].op = req[r].op
      /\ req[r].op.kind = "register"
  BY <1>1, GotoTyped DEF CallRegister, Calling
<1>6. pc = "store" => bmoni'.user = "ours"
  BY <1>1 DEF TypeOK, BmoniState
<1>7. Knows(r)'
  BY <1>1, <1>5, <1>6 DEF Knows, AboutToStore, Payments, Cash
<1>. QED
  BY <1>1, <1>3, <1>4, <1>7, GotoTyped, RowsStayBehind, HandlerStep

LEMMA CallWalletInv ==
    ASSUME Inv, NEW r \in Callers, CallWallet(r)
    PROVE  Inv'
<1>. USE DEF Inv
<1>1. PICK pc \in PCs : /\ Goto(r, pc) /\ pc \in {"store", "failed"}
                        /\ bmoni' = [bmoni EXCEPT !.wallet = @ \union {req[r].op.arg}]
  BY DEF CallWallet, Answered, PCs, Ends
<1>2. bmoni' \in BmoniState
  BY ArgTyped DEF CallWallet, TypeOK, BmoniState, Calling
<1>3. Remembers
  BY DEF CallWallet, TypeOK, BmoniState, Remembers
<1>4. TypeOKNext /\ row' = row
  BY <1>1, <1>2, GotoTyped DEF CallWallet, TypeOK, TypeOKNext
<1>5. /\ req'[r].pc = pc /\ req'[r].op = req[r].op
      /\ req[r].op.kind = "wallet"
  BY <1>1, GotoTyped DEF CallWallet, Calling
<1>6. req[r].op.arg \in bmoni'.wallet
  BY <1>1 DEF TypeOK, BmoniState
<1>7. Knows(r)'
  BY <1>1, <1>5, <1>6 DEF Knows, AboutToStore, Payments, Cash
<1>. QED
  BY <1>1, <1>3, <1>4, <1>7, GotoTyped, RowsStayBehind, HandlerStep

LEMMA CallSubmitInv ==
    ASSUME Inv, NEW r \in Callers, CallSubmit(r)
    PROVE  Inv'
<1>. USE DEF Inv
<1>1. PICK pc \in PCs : /\ Goto(r, pc) /\ pc \in {"store", "failed"}
                        /\ bmoni' = [bmoni EXCEPT !.kyc = @ \union {req[r].op.arg}]
  BY DEF CallSubmit, Answered, PCs, Ends
<1>2. bmoni' \in BmoniState
  BY ArgTyped DEF CallSubmit, TypeOK, BmoniState, Calling
<1>3. Remembers
  BY DEF CallSubmit, TypeOK, BmoniState, Remembers
<1>4. TypeOKNext /\ row' = row
  BY <1>1, <1>2, GotoTyped DEF CallSubmit, TypeOK, TypeOKNext
<1>5. /\ req'[r].pc = pc /\ req'[r].op = req[r].op
      /\ req[r].op.kind = "submit"
  BY <1>1, GotoTyped DEF CallSubmit, Calling
<1>6. req[r].op.arg \in bmoni'.kyc
  BY <1>1 DEF TypeOK, BmoniState
<1>7. Knows(r)'
  BY <1>1, <1>5, <1>6 DEF Knows, AboutToStore, Payments, Cash
<1>. QED
  BY <1>1, <1>3, <1>4, <1>7, GotoTyped, RowsStayBehind, HandlerStep

LEMMA CallActivateInv ==
    ASSUME Inv, NEW r \in Callers, CallActivate(r)
    PROVE  Inv'
<1>. USE DEF Inv
<1>1. PICK pc \in PCs : /\ Goto(r, pc) /\ pc \in {"profile", "done", "failed"}
                        /\ pc = "profile" => bmoni' = [bmoni EXCEPT !.activated = @ \union {req[r].op.arg}]
  BY DEF CallActivate, Answered, PCs, Ends
<1>2. bmoni' \in BmoniState
  BY ArgTyped DEF CallActivate, TypeOK, BmoniState, Calling
<1>3. Remembers
  BY DEF CallActivate, TypeOK, BmoniState, Remembers
<1>4. TypeOKNext /\ row' = row
  BY <1>1, <1>2, GotoTyped DEF CallActivate, TypeOK, TypeOKNext
<1>5. /\ req'[r].pc = pc /\ req'[r].op = req[r].op
      /\ req[r].op.kind = "activate"
  BY <1>1, GotoTyped DEF CallActivate, Calling
<1>6. pc = "profile" => req[r].op.arg \in bmoni'.activated
  BY <1>1 DEF TypeOK, BmoniState
<1>7. Knows(r)'
  BY <1>1, <1>5, <1>6 DEF Knows, AboutToStore, Payments, Cash
<1>. QED
  BY <1>1, <1>3, <1>4, <1>7, GotoTyped, RowsStayBehind, HandlerStep

LEMMA CallStartNigeriaInv ==
    ASSUME Inv, NEW r \in Callers, CallStartNigeria(r)
    PROVE  Inv'
<1>. USE DEF Inv
<1>1. PICK pc \in PCs : /\ Goto(r, pc) /\ pc \in {"store", "failed"}
                        /\ bmoni' = Started("NGN")
  BY DEF CallStartNigeria, Answered, PCs, Ends
<1>2. bmoni' \in BmoniState
  BY ArgTyped DEF CallStartNigeria, TypeOK, BmoniState, Calling, Started, Rails, RailStages
<1>3. Remembers
  BY DEF CallStartNigeria, TypeOK, BmoniState, Remembers, Started, Rails, RailStages
<1>4. TypeOKNext /\ row' = row
  BY <1>1, <1>2, GotoTyped DEF CallStartNigeria, TypeOK, TypeOKNext
<1>5. /\ req'[r].pc = pc /\ req'[r].op = req[r].op
      /\ req[r].op.kind = "startNigeria"
  BY <1>1, GotoTyped DEF CallStartNigeria, Calling
<1>6. bmoni'.rail["NGN"] # "not_started"
  BY <1>1 DEF TypeOK, BmoniState, Started, Rails, RailStages
<1>7. Knows(r)'
  BY <1>1, <1>5, <1>6 DEF Knows, AboutToStore, Payments, Cash
<1>. QED
  BY <1>1, <1>3, <1>4, <1>7, GotoTyped, RowsStayBehind, HandlerStep

LEMMA CallStartUsaInv ==
    ASSUME Inv, NEW r \in Callers, CallStartUsa(r)
    PROVE  Inv'
<1>. USE DEF Inv
<1>1. PICK pc \in PCs : /\ Goto(r, pc) /\ pc \in {"store", "store422", "failed"}
                        /\ pc = "store" => bmoni' = Started("USD")
  BY DEF CallStartUsa, Answered, PCs, Ends
<1>2. bmoni' \in BmoniState
  BY ArgTyped DEF CallStartUsa, TypeOK, BmoniState, Calling, Started, Rails, RailStages
<1>3. Remembers
  BY DEF CallStartUsa, TypeOK, BmoniState, Remembers, Started, Rails, RailStages
<1>4. TypeOKNext /\ row' = row
  BY <1>1, <1>2, GotoTyped DEF CallStartUsa, TypeOK, TypeOKNext
<1>5. /\ req'[r].pc = pc /\ req'[r].op = req[r].op
      /\ req[r].op.kind = "startUsa"
  BY <1>1, GotoTyped DEF CallStartUsa, Calling
<1>6. pc = "store" => bmoni'.rail["USD"] # "not_started"
  BY <1>1 DEF TypeOK, BmoniState, Started, Rails, RailStages
<1>7. Knows(r)'
  BY <1>1, <1>5, <1>6 DEF Knows, AboutToStore, Payments, Cash
<1>. QED
  BY <1>1, <1>3, <1>4, <1>7, GotoTyped, RowsStayBehind, HandlerStep

LEMMA CallProposeInv ==
    ASSUME Inv, NEW r \in Callers, CallPropose(r)
    PROVE  Inv'
<1>. USE DEF Inv
<1>1. PICK pc \in PCs : /\ Goto(r, pc) /\ pc \in {"store", "failed"}
                        /\ bmoni' = [bmoni EXCEPT !.proposals = @ \union {r}]
  BY DEF CallPropose, Answered, PCs, Ends
<1>2. bmoni' \in BmoniState
  BY ArgTyped DEF CallPropose, TypeOK, BmoniState, Calling
<1>3. Remembers
  BY DEF CallPropose, TypeOK, BmoniState, Remembers
<1>4. TypeOKNext /\ row' = row
  BY <1>1, <1>2, GotoTyped DEF CallPropose, TypeOK, TypeOKNext
<1>5. /\ req'[r].pc = pc /\ req'[r].op = req[r].op
      /\ req[r].op.kind \in Payments
  BY <1>1, GotoTyped DEF CallPropose, Calling
<1>6. r \in bmoni'.proposals
  BY <1>1 DEF TypeOK, BmoniState
<1>7. Knows(r)'
  BY <1>1, <1>5, <1>6 DEF Knows, AboutToStore, Payments, Cash
<1>. QED
  BY <1>1, <1>3, <1>4, <1>7, GotoTyped, RowsStayBehind, HandlerStep

LEMMA CallWithdrawInv ==
    ASSUME Inv, NEW r \in Callers, CallWithdraw(r)
    PROVE  Inv'
<1>. USE DEF Inv
<1>1. PICK pc \in PCs : /\ Goto(r, pc) /\ pc \in {"done", "failed"}
                        /\ bmoni' = [bmoni EXCEPT !.proposals = @ \union {r}]
  BY DEF CallWithdraw, Answered, PCs, Ends
<1>2. bmoni' \in BmoniState
  BY ArgTyped DEF CallWithdraw, TypeOK, BmoniState, Calling
<1>3. Remembers
  BY DEF CallWithdraw, TypeOK, BmoniState, Remembers
<1>4. TypeOKNext /\ row' = row
  BY <1>1, <1>2, GotoTyped DEF CallWithdraw, TypeOK, TypeOKNext
<1>5. /\ req'[r].pc = pc /\ req'[r].op = req[r].op
      /\ req[r].op.kind = "withdraw"
  BY <1>1, GotoTyped DEF CallWithdraw, Calling
<1>6. r \in bmoni'.proposals
  BY <1>1 DEF TypeOK, BmoniState
<1>7. Knows(r)'
  BY <1>1, <1>5, <1>6 DEF Knows, AboutToStore, Payments, Cash
<1>. QED
  BY <1>1, <1>3, <1>4, <1>7, GotoTyped, RowsStayBehind, HandlerStep

LEMMA CallReadinessInv ==
    ASSUME Inv, NEW r \in Callers, CallReadiness(r)
    PROVE  Inv'
<1>. USE DEF Inv
<1>1. req[r].op.kind = "readiness"
  BY DEF CallReadiness, Calling
<1>. {"store", "done"} \subseteq PCs
  BY DEF PCs, Ends
<1>2. /\ req' \in [Callers -> Handler]
      /\ \A q \in Callers \ {r} : req'[q] = req[q]
      /\ req'[r].op = req[r].op
      /\ req'[r].pc \in {"done", "store"} /\ (req'[r].pc = "store" => bmoni.ready)
  <2>1. CASE bmoni.ready
    BY <2>1, AnsweredWithTyped DEF CallReadiness
  <2>2. CASE ~bmoni.ready
    <3>1. Goto(r, "done")
      BY <2>2 DEF CallReadiness
    <3>. QED
      BY <3>1, GotoTyped
  <2>. QED
    BY <2>1, <2>2
<1>3. TypeOKNext /\ Remembers /\ UNCHANGED <<bmoni, row>>
  BY <1>2 DEF CallReadiness, TypeOK, TypeOKNext, Remembers
<1>4. Knows(r)'
  BY <1>1, <1>2, <1>3 DEF Knows, AboutToStore, Payments, Cash
<1>. QED
  BY <1>2, <1>3, <1>4, RowsStayBehind, HandlerStep

LEMMA CallVbaStatusInv ==
    ASSUME Inv, NEW r \in Callers, CallVbaStatus(r)
    PROVE  Inv'
<1>. USE DEF Inv
<1>1. req[r].op.kind = "vbaStatus" /\ AnsweredWith(r, "store", bmoni.rail["USD"])
  BY DEF CallVbaStatus, Calling
<1>. /\ {"store", "done"} \subseteq PCs
     /\ \A c \in Rails : bmoni.rail[c] \in RailStages
     /\ {"NGN", "USD"} = Rails
  BY DEF PCs, Ends, TypeOK, BmoniState, Rails
<1>2. /\ req' \in [Callers -> Handler]
      /\ \A q \in Callers \ {r} : req'[q] = req[q]
      /\ req'[r].op = req[r].op
      /\ req'[r].told = bmoni.rail["USD"] /\ req'[r].pc = "store"
  BY <1>1, GotoTyped, AnsweredWithTyped
<1>3. TypeOKNext /\ Remembers /\ UNCHANGED <<bmoni, row>>
  BY <1>2 DEF CallVbaStatus, TypeOK, TypeOKNext, Remembers
<1>4. Knows(r)'
  BY <1>1, <1>2, <1>3 DEF Knows, AboutToStore, Payments, Cash, TypeOK, BmoniState, RailStages, Rails
<1>. QED
  BY <1>2, <1>3, <1>4, RowsStayBehind, HandlerStep

LEMMA CallForwardInv ==
    ASSUME Inv, NEW r \in Callers, CallForward(r)
    PROVE  Inv'
<1>. USE DEF Inv
<1>1. AnsweredWith(r, "done", bmoni.rail["NGN"])
  BY DEF CallForward, Calling
<1>. /\ {"store", "done"} \subseteq PCs
     /\ \A c \in Rails : bmoni.rail[c] \in RailStages
     /\ {"NGN", "USD"} = Rails
  BY DEF PCs, Ends, TypeOK, BmoniState, Rails
<1>2. /\ req' \in [Callers -> Handler]
      /\ \A q \in Callers \ {r} : req'[q] = req[q]
      /\ req'[r].op = req[r].op
      /\ req'[r].pc = "done"
  BY <1>1, GotoTyped, AnsweredWithTyped
<1>3. TypeOKNext /\ Remembers /\ UNCHANGED <<bmoni, row>>
  BY <1>2 DEF CallForward, TypeOK, TypeOKNext, Remembers
<1>4. Knows(r)'
  BY <1>1, <1>2, <1>3 DEF Knows, AboutToStore, Payments, Cash, TypeOK, BmoniState, RailStages, Rails
<1>. QED
  BY <1>2, <1>3, <1>4, RowsStayBehind, HandlerStep

LEMMA StoreUserInv ==
    ASSUME Inv, NEW r \in Callers, StoreUser(r)
    PROVE  Inv'
<1>. USE DEF Inv
<1>1. PICK pc \in {"done", "failed"} : Goto(r, pc)
  BY DEF StoreUser, Stored
<1>2. row' \in RowState /\ UNCHANGED <<bmoni, code>>
  BY ArgTyped DEF StoreUser, Stored, Storing, TypeOK, RowState, BmoniState, Handler
<1>3. TypeOKNext /\ Remembers
  BY <1>1, <1>2, GotoTyped DEF TypeOK, TypeOKNext, Remembers, PCs, Ends
<1>4. RowsNeverAhead' /\ row.proposals \subseteq row'.proposals
  BY <1>2, <1>3 DEF StoreUser, Stored, Storing, AboutToStore, Knows, RowsNeverAhead, TypeOK, RowState,
     BmoniState, Rails
<1>5. Knows(r)'
  BY <1>1, GotoTyped, EndedKnows DEF PCs, Ends
<1>. QED
  BY <1>1, <1>3, <1>4, <1>5, GotoTyped, HandlerStep DEF PCs, Ends

LEMMA StoreAddressInv ==
    ASSUME Inv, NEW r \in Callers, StoreAddress(r)
    PROVE  Inv'
<1>. USE DEF Inv
<1>1. PICK pc \in {"done"} : Goto(r, pc)
  BY DEF StoreAddress, Stored
<1>2. row' \in RowState /\ UNCHANGED <<bmoni, code>>
  BY ArgTyped DEF StoreAddress, Stored, Storing, TypeOK, RowState, BmoniState, Handler
<1>3. TypeOKNext /\ Remembers
  BY <1>1, <1>2, GotoTyped DEF TypeOK, TypeOKNext, Remembers, PCs, Ends
<1>4. RowsNeverAhead' /\ row.proposals \subseteq row'.proposals
  BY <1>2, <1>3 DEF StoreAddress, Stored, Storing, AboutToStore, Knows, RowsNeverAhead, TypeOK, RowState,
     BmoniState, Rails
<1>5. Knows(r)'
  BY <1>1, GotoTyped, EndedKnows DEF PCs, Ends
<1>. QED
  BY <1>1, <1>3, <1>4, <1>5, GotoTyped, HandlerStep DEF PCs, Ends

LEMMA StoreAgentInv ==
    ASSUME Inv, NEW r \in Callers, StoreAgent(r)
    PROVE  Inv'
<1>. USE DEF Inv
<1>1. PICK pc \in {"done"} : Goto(r, pc)
  BY DEF StoreAgent, Stored
<1>2. row' \in RowState /\ UNCHANGED <<bmoni, code>>
  BY ArgTyped DEF StoreAgent, Stored, Storing, TypeOK, RowState, BmoniState, Handler
<1>3. TypeOKNext /\ Remembers
  BY <1>1, <1>2, GotoTyped DEF TypeOK, TypeOKNext, Remembers, PCs, Ends
<1>4. RowsNeverAhead' /\ row.proposals \subseteq row'.proposals
  BY <1>2, <1>3 DEF StoreAgent, Stored, Storing, AboutToStore, Knows, RowsNeverAhead, TypeOK, RowState,
     BmoniState, Rails
<1>5. Knows(r)'
  BY <1>1, GotoTyped, EndedKnows DEF PCs, Ends
<1>. QED
  BY <1>1, <1>3, <1>4, <1>5, GotoTyped, HandlerStep DEF PCs, Ends

LEMMA StoreWalletInv ==
    ASSUME Inv, NEW r \in Callers, StoreWallet(r)
    PROVE  Inv'
<1>. USE DEF Inv
<1>1. PICK pc \in {"done"} : Goto(r, pc)
  BY DEF StoreWallet, Stored
<1>2. row' \in RowState /\ UNCHANGED <<bmoni, code>>
  BY ArgTyped DEF StoreWallet, Stored, Storing, TypeOK, RowState, BmoniState, Handler
<1>3. TypeOKNext /\ Remembers
  BY <1>1, <1>2, GotoTyped DEF TypeOK, TypeOKNext, Remembers, PCs, Ends
<1>4. RowsNeverAhead' /\ row.proposals \subseteq row'.proposals
  BY <1>2, <1>3 DEF StoreWallet, Stored, Storing, AboutToStore, Knows, RowsNeverAhead, TypeOK, RowState,
     BmoniState, Rails
<1>5. Knows(r)'
  BY <1>1, GotoTyped, EndedKnows DEF PCs, Ends
<1>. QED
  BY <1>1, <1>3, <1>4, <1>5, GotoTyped, HandlerStep DEF PCs, Ends

LEMMA StoreSubmittedInv ==
    ASSUME Inv, NEW r \in Callers, StoreSubmitted(r)
    PROVE  Inv'
<1>. USE DEF Inv
<1>1. PICK pc \in {"done"} : Goto(r, pc)
  BY DEF StoreSubmitted, Stored
<1>2. row' \in RowState /\ UNCHANGED <<bmoni, code>>
  BY ArgTyped DEF StoreSubmitted, Stored, Storing, TypeOK, RowState, BmoniState, Handler
<1>3. TypeOKNext /\ Remembers
  BY <1>1, <1>2, GotoTyped DEF TypeOK, TypeOKNext, Remembers, PCs, Ends
<1>4. RowsNeverAhead' /\ row.proposals \subseteq row'.proposals
  BY <1>2, <1>3 DEF StoreSubmitted, Stored, Storing, AboutToStore, Knows, RowsNeverAhead, TypeOK, RowState,
     BmoniState, Rails
<1>5. Knows(r)'
  BY <1>1, GotoTyped, EndedKnows DEF PCs, Ends
<1>. QED
  BY <1>1, <1>3, <1>4, <1>5, GotoTyped, HandlerStep DEF PCs, Ends

LEMMA StoreReadyInv ==
    ASSUME Inv, NEW r \in Callers, StoreReady(r)
    PROVE  Inv'
<1>. USE DEF Inv
<1>1. PICK pc \in {"done"} : Goto(r, pc)
  BY DEF StoreReady, Stored
<1>2. row' \in RowState /\ UNCHANGED <<bmoni, code>>
  BY ArgTyped DEF StoreReady, Stored, Storing, TypeOK, RowState, BmoniState, Handler
<1>3. TypeOKNext /\ Remembers
  BY <1>1, <1>2, GotoTyped DEF TypeOK, TypeOKNext, Remembers, PCs, Ends
<1>4. RowsNeverAhead' /\ row.proposals \subseteq row'.proposals
  BY <1>2, <1>3 DEF StoreReady, Stored, Storing, AboutToStore, Knows, RowsNeverAhead, TypeOK, RowState,
     BmoniState, Rails
<1>5. Knows(r)'
  BY <1>1, GotoTyped, EndedKnows DEF PCs, Ends
<1>. QED
  BY <1>1, <1>3, <1>4, <1>5, GotoTyped, HandlerStep DEF PCs, Ends

LEMMA StoreActivatedInv ==
    ASSUME Inv, NEW r \in Callers, StoreActivated(r)
    PROVE  Inv'
<1>. USE DEF Inv
<1>1. PICK pc \in {"done"} : Goto(r, pc)
  BY DEF StoreActivated, Stored
<1>2. row' \in RowState /\ UNCHANGED <<bmoni, code>>
  BY ArgTyped DEF StoreActivated, Stored, Storing, TypeOK, RowState, BmoniState, Handler
<1>3. TypeOKNext /\ Remembers
  BY <1>1, <1>2, GotoTyped DEF TypeOK, TypeOKNext, Remembers, PCs, Ends
<1>4. RowsNeverAhead' /\ row.proposals \subseteq row'.proposals
  BY <1>2, <1>3 DEF StoreActivated, Stored, Storing, AboutToStore, Knows, RowsNeverAhead, TypeOK, RowState,
     BmoniState, Rails
<1>5. Knows(r)'
  BY <1>1, GotoTyped, EndedKnows DEF PCs, Ends
<1>. QED
  BY <1>1, <1>3, <1>4, <1>5, GotoTyped, HandlerStep DEF PCs, Ends

LEMMA StoreNigeriaInv ==
    ASSUME Inv, NEW r \in Callers, StoreNigeria(r)
    PROVE  Inv'
<1>. USE DEF Inv
<1>1. PICK pc \in {"done"} : Goto(r, pc)
  BY DEF StoreNigeria, Stored
<1>2. row' \in RowState /\ UNCHANGED <<bmoni, code>>
  BY ArgTyped DEF StoreNigeria, Stored, Storing, TypeOK, RowState, BmoniState, Handler, RailStatuses, RailStages
<1>3. TypeOKNext /\ Remembers
  BY <1>1, <1>2, GotoTyped DEF TypeOK, TypeOKNext, Remembers, PCs, Ends
<1>4. RowsNeverAhead' /\ row.proposals \subseteq row'.proposals
  BY <1>2, <1>3 DEF StoreNigeria, Stored, Storing, AboutToStore, Knows, RowsNeverAhead, TypeOK, RowState,
     BmoniState, Rails, RailStatuses, RailStages
<1>5. Knows(r)'
  BY <1>1, GotoTyped, EndedKnows DEF PCs, Ends
<1>. QED
  BY <1>1, <1>3, <1>4, <1>5, GotoTyped, HandlerStep DEF PCs, Ends

LEMMA StoreUsaInv ==
    ASSUME Inv, NEW r \in Callers, StoreUsa(r)
    PROVE  Inv'
<1>. USE DEF Inv
<1>1. PICK pc \in {"done"} : Goto(r, pc)
  BY DEF StoreUsa, Stored
<1>2. row' \in RowState /\ UNCHANGED <<bmoni, code>>
  BY ArgTyped DEF StoreUsa, Stored, Storing, TypeOK, RowState, BmoniState, Handler, RailStatuses, RailStages
<1>3. TypeOKNext /\ Remembers
  BY <1>1, <1>2, GotoTyped DEF TypeOK, TypeOKNext, Remembers, PCs, Ends
<1>4. RowsNeverAhead' /\ row.proposals \subseteq row'.proposals
  BY <1>2, <1>3 DEF StoreUsa, Stored, Storing, AboutToStore, Knows, RowsNeverAhead, TypeOK, RowState,
     BmoniState, Rails, RailStatuses, RailStages
<1>5. Knows(r)'
  BY <1>1, GotoTyped, EndedKnows DEF PCs, Ends
<1>. QED
  BY <1>1, <1>3, <1>4, <1>5, GotoTyped, HandlerStep DEF PCs, Ends

LEMMA StoreVbaStatusInv ==
    ASSUME Inv, NEW r \in Callers, StoreVbaStatus(r)
    PROVE  Inv'
<1>. USE DEF Inv
<1>1. PICK pc \in {"done"} : Goto(r, pc)
  BY DEF StoreVbaStatus, Stored
<1>2. row' \in RowState /\ UNCHANGED <<bmoni, code>>
  BY ArgTyped DEF StoreVbaStatus, Stored, Storing, TypeOK, RowState, BmoniState, Handler, RailStatuses, RailStages, Knows, AboutToStore
<1>3. TypeOKNext /\ Remembers
  BY <1>1, <1>2, GotoTyped DEF TypeOK, TypeOKNext, Remembers, PCs, Ends
<1>4. RowsNeverAhead' /\ row.proposals \subseteq row'.proposals
  BY <1>2, <1>3 DEF StoreVbaStatus, Stored, Storing, AboutToStore, Knows, RowsNeverAhead, TypeOK, RowState,
     BmoniState, Rails, RailStatuses, RailStages, Knows, AboutToStore
<1>5. Knows(r)'
  BY <1>1, GotoTyped, EndedKnows DEF PCs, Ends
<1>. QED
  BY <1>1, <1>3, <1>4, <1>5, GotoTyped, HandlerStep DEF PCs, Ends

LEMMA Store422Inv ==
    ASSUME Inv, NEW r \in Callers, Store422(r)
    PROVE  Inv'
<1>. USE DEF Inv
<1>1. PICK pc \in {"denied"} : Goto(r, pc)
  BY DEF Store422, Stored
<1>2. row' \in RowState /\ UNCHANGED <<bmoni, code>>
  BY ArgTyped DEF Store422, Stored, Storing, TypeOK, RowState, BmoniState, Handler, RailStatuses, RailStages
<1>3. TypeOKNext /\ Remembers
  BY <1>1, <1>2, GotoTyped DEF TypeOK, TypeOKNext, Remembers, PCs, Ends
<1>4. RowsNeverAhead' /\ row.proposals \subseteq row'.proposals
  BY <1>2, <1>3 DEF Store422, Stored, Storing, AboutToStore, Knows, RowsNeverAhead, TypeOK, RowState,
     BmoniState, Rails, RailStatuses, RailStages
<1>5. Knows(r)'
  BY <1>1, GotoTyped, EndedKnows DEF PCs, Ends
<1>. QED
  BY <1>1, <1>3, <1>4, <1>5, GotoTyped, HandlerStep DEF PCs, Ends

LEMMA StoreProposalInv ==
    ASSUME Inv, NEW r \in Callers, StoreProposal(r)
    PROVE  Inv'
<1>. USE DEF Inv
<1>1. PICK pc \in {"ledger", "done"} : Goto(r, pc)
  BY DEF StoreProposal, Stored
<1>2. row' \in RowState /\ UNCHANGED <<bmoni, code>>
  BY ArgTyped DEF StoreProposal, Stored, Storing, TypeOK, RowState, BmoniState, Handler, Payments, Cash
<1>3. TypeOKNext /\ Remembers
  BY <1>1, <1>2, GotoTyped DEF TypeOK, TypeOKNext, Remembers, PCs, Ends
<1>4. RowsNeverAhead' /\ row.proposals \subseteq row'.proposals
  BY <1>2, <1>3 DEF StoreProposal, Stored, Storing, AboutToStore, Knows, RowsNeverAhead, TypeOK, RowState,
     BmoniState, Rails, Payments, Cash
<1>5. Knows(r)'
  BY <1>1, GotoTyped DEF Knows, AboutToStore, StoreProposal, TypeOK, RowState, PCs, Ends
<1>. QED
  BY <1>1, <1>3, <1>4, <1>5, GotoTyped, HandlerStep DEF PCs, Ends

LEMMA StoreLedgerInv ==
    ASSUME Inv, NEW r \in Callers, StoreLedger(r)
    PROVE  Inv'
<1>. USE DEF Inv
<1>1. PICK pc \in {"done"} : Goto(r, pc)
  BY DEF StoreLedger, Stored
<1>2. row' \in RowState /\ UNCHANGED <<bmoni, code>>
  BY ArgTyped DEF StoreLedger, Stored, Storing, TypeOK, RowState, BmoniState, Handler
<1>3. TypeOKNext /\ Remembers
  BY <1>1, <1>2, GotoTyped DEF TypeOK, TypeOKNext, Remembers, PCs, Ends
<1>4. RowsNeverAhead' /\ row.proposals \subseteq row'.proposals
  BY <1>2, <1>3 DEF StoreLedger, Stored, Storing, AboutToStore, Knows, RowsNeverAhead, TypeOK, RowState,
     BmoniState, Rails
<1>5. Knows(r)'
  BY <1>1, GotoTyped, EndedKnows DEF PCs, Ends
<1>. QED
  BY <1>1, <1>3, <1>4, <1>5, GotoTyped, HandlerStep DEF PCs, Ends

LEMMA ReadProfileInv ==
    ASSUME Inv, NEW r \in Callers, ReadProfile(r)
    PROVE  Inv'
<1>. USE DEF Inv
<1>1. req' = [req EXCEPT ![r].pc = "store", ![r].seen = row.activated]
  BY DEF ReadProfile
<1>2. /\ req' \in [Callers -> Handler]
      /\ \A q \in Callers \ {r} : req'[q] = req[q]
      /\ req'[r].op = req[r].op /\ req'[r].seen = row.activated
  BY <1>1 DEF TypeOK, RowState, Handler, PCs
<1>3. TypeOKNext /\ Remembers /\ UNCHANGED <<bmoni, row>>
  BY <1>2 DEF ReadProfile, TypeOK, TypeOKNext, Remembers
<1>4. Knows(r)'
  BY <1>2, <1>3 DEF ReadProfile, Knows, AboutToStore, RowsNeverAhead, Payments, Cash
<1>. QED
  BY <1>2, <1>3, <1>4, RowsStayBehind, HandlerStep

LEMMA AbortInv ==
    ASSUME Inv, NEW r \in Callers, Abort(r)
    PROVE  Inv'
<1>. USE DEF Inv
<1>1. /\ req' \in [Callers -> Handler]
      /\ \A q \in Callers \ {r} : req'[q] = req[q]
      /\ req'[r].pc = "failed"
  BY GotoTyped DEF Abort, PCs, Ends
<1>2. TypeOKNext /\ Remembers /\ UNCHANGED <<bmoni, row>>
  BY <1>1 DEF Abort, TypeOK, TypeOKNext, Remembers
<1>3. Knows(r)'
  BY <1>1, EndedKnows
<1>. QED
  BY <1>1, <1>2, <1>3, RowsStayBehind, HandlerStep

(* A step that leaves the handlers and the rows alone. *)
LEMMA OutsideInv ==
    ASSUME Inv, TypeOKNext, Remembers, UNCHANGED <<row, req>>
    PROVE  Inv'
<1>1. \A q \in Callers : Knows(q)'
  BY OthersKnow
<1>2. RowsNeverAhead'
  BY RowsStayBehind
<1>. QED
  BY <1>1, <1>2 DEF Inv, TypeOK, TypeOKNext

LEMMA BmoniStepInv ==
    ASSUME Inv, BmoniStep
    PROVE  Inv'
<1>. USE DEF Inv
<1>1. UNCHANGED <<row, req, code>>
  BY DEF BmoniStep, TakenElsewhere, Review, OpenRail, Sign
<1>2. bmoni' \in BmoniState /\ Remembers
  <2>1. CASE TakenElsewhere
    BY <2>1 DEF TakenElsewhere, TypeOK, BmoniState, Remembers
  <2>2. CASE Review
    BY <2>2 DEF Review, TypeOK, BmoniState, Remembers
  <2>3. ASSUME NEW c \in Rails, OpenRail(c)
        PROVE  bmoni' \in BmoniState /\ Remembers
    BY <2>3 DEF OpenRail, TypeOK, BmoniState, RailStages, Remembers
  <2>4. ASSUME NEW r \in Callers, Sign(r)
        PROVE  bmoni' \in BmoniState /\ Remembers
    BY <2>4 DEF Sign, TypeOK, BmoniState, Remembers
  <2>. QED
    BY <2>1, <2>2, <2>3, <2>4 DEF BmoniStep
<1>. QED
  BY <1>1, <1>2, OutsideInv DEF TypeOK, TypeOKNext

LEMMA CodeStepInv ==
    ASSUME Inv, CodeStep
    PROVE  Inv'
<1>1. TypeOKNext /\ Remembers /\ UNCHANGED <<row, req>>
  BY DEF CodeStep, Inv, TypeOK, TypeOKNext, Remembers
<1>. QED
  BY <1>1, OutsideInv

LEMMA StepInv == Inv /\ [Next]_vars => Inv'
<1>. SUFFICES ASSUME Inv, [Next]_vars PROVE Inv'
  OBVIOUS
<1>1. ASSUME NEW r \in Callers, CallBmoni(r) PROVE Inv'
  BY <1>1, CallRegisterInv, CallWalletInv, CallSubmitInv, CallReadinessInv,
     CallActivateInv, CallStartNigeriaInv, CallStartUsaInv, CallVbaStatusInv,
     CallForwardInv, CallWithdrawInv, CallProposeInv DEF CallBmoni
<1>2. ASSUME NEW r \in Callers, StoreAnswer(r) PROVE Inv'
  BY <1>2, StoreUserInv, StoreAddressInv, StoreWalletInv, StoreSubmittedInv,
     StoreReadyInv, ReadProfileInv, StoreActivatedInv, StoreNigeriaInv, StoreUsaInv,
     Store422Inv, StoreVbaStatusInv, StoreAgentInv, StoreProposalInv, StoreLedgerInv
     DEF StoreAnswer
<1>3. ASSUME NEW r \in Callers, Abort(r) \/ \E op \in Operations : Begin(r, op)
      PROVE  Inv'
  BY <1>3, AbortInv, BeginInv
<1>4. CASE UNCHANGED vars
  <2>1. TypeOKNext /\ Remembers /\ UNCHANGED <<row, req>>
    BY <1>4 DEF vars, Inv, TypeOK, TypeOKNext, Remembers
  <2>. QED
    BY <2>1, OutsideInv
<1>. QED
  BY <1>1, <1>2, <1>3, <1>4, BmoniStepInv, CodeStepInv DEF Next, Request, Handle

(* In every behaviour, whatever overlaps and fails, the rows keep their    *)
(* types and a handler that is about to write knows that BMONI has it.     *)
THEOREM Invariance == Spec => []Inv
  BY InitInv, StepInv, PTL DEF Spec

(* Rows and handlers hold what the schema and the code let them hold.      *)
THEOREM TypeCorrect == Spec => []TypeOK
<1>1. Inv => TypeOK
  BY DEF Inv
<1>. QED
  BY <1>1, Invariance, PTL

(* PayFlex never claims what BMONI does not have, for any number of        *)
(* requests: every row is written after the answer it records.             *)
THEOREM NeverAhead == Spec => []RowsNeverAhead
<1>1. Inv => RowsNeverAhead
  BY DEF Inv
<1>. QED
  BY <1>1, Invariance, PTL

----------------------------------------------------------------------------
(* What a request that has not begun stands for: no payment, and no        *)
(* operation of its own.                                                   *)
Untouched(r) ==
    req[r].pc = "idle" => req[r].op.kind = "forward" /\ r \notin bmoni.proposals

(* A step of one handler, seen from outside. *)
OwnMove(r) ==
    /\ \A q \in Callers \ {r} : req'[q] = req[q]
    /\ req[r].pc \notin {"idle"} \union Ends
    /\ req'[r].pc # "idle" /\ req'[r].op = req[r].op
    /\ \A q \in bmoni'.proposals : q \in bmoni.proposals \/ q = r

LEMMA CallMoves ==
    ASSUME Inv, NEW r \in Callers, CallBmoni(r)
    PROVE  OwnMove(r)
<1>. USE DEF Inv
<1>1. req[r].pc = "call"
  BY DEF CallBmoni, CallRegister, CallWallet, CallSubmit, CallReadiness, CallActivate,
         CallStartNigeria, CallStartUsa, CallVbaStatus, CallForward, CallWithdraw, CallPropose, Calling
<1>2. \/ \E pc \in PCs \ {"idle"} : Goto(r, pc)
      \/ \E pc \in PCs \ {"idle"}, told \in RailStages \union {"ready"} : AnsweredWith(r, pc, told)
  <2>1. bmoni.rail["NGN"] \in RailStages /\ bmoni.rail["USD"] \in RailStages
    BY DEF TypeOK, BmoniState, Rails
  <2>. QED
    BY <2>1 DEF CallBmoni, CallRegister, CallWallet, CallSubmit, CallReadiness, CallActivate,
         CallStartNigeria, CallStartUsa, CallVbaStatus, CallForward, CallWithdraw, CallPropose, Answered,
         PCs, Ends
<1>3. /\ \A q \in Callers \ {r} : req'[q] = req[q]
      /\ req'[r].pc # "idle" /\ req'[r].op = req[r].op
  <2>1. ASSUME NEW pc \in PCs, pc # "idle", Goto(r, pc)
        PROVE  /\ \A q \in Callers \ {r} : req'[q] = req[q]
               /\ req'[r].pc # "idle" /\ req'[r].op = req[r].op
    BY <2>1, GotoTyped
  <2>2. ASSUME NEW pc \in PCs, pc # "idle", NEW told \in RailStages \union {"ready"},
               AnsweredWith(r, pc, told)
        PROVE  /\ \A q \in Callers \ {r} : req'[q] = req[q]
               /\ req'[r].pc # "idle" /\ req'[r].op = req[r].op
    BY <2>2, AnsweredWithTyped
  <2>. QED
    BY <1>2, <2>1, <2>2
<1>4. \A q \in bmoni'.proposals : q \in bmoni.proposals \/ q = r
  BY DEF CallBmoni, CallRegister, CallWallet, CallSubmit, CallReadiness, CallActivate,
         CallStartNigeria, CallStartUsa, CallVbaStatus, CallForward, CallWithdraw, CallPropose, Started,
         TypeOK, BmoniState
<1>. QED
  BY <1>1, <1>3, <1>4 DEF OwnMove, Ends

LEMMA StoreMoves ==
    ASSUME Inv, NEW r \in Callers, StoreAnswer(r)
    PROVE  OwnMove(r)
<1>. USE DEF Inv
<1>1. req[r].pc \in {"store", "store422", "profile", "ledger"} /\ bmoni' = bmoni
  BY DEF StoreAnswer, StoreUser, StoreAddress, StoreWallet, StoreSubmitted, StoreReady,
         ReadProfile, StoreActivated, StoreNigeria, StoreUsa, Store422, StoreVbaStatus,
         StoreAgent, StoreProposal, StoreLedger, Storing, Stored
<1>2. ReadProfile(r) \/ \E pc \in {"done", "failed", "denied", "ledger"} : Goto(r, pc)
  BY DEF StoreAnswer, StoreUser, StoreAddress, StoreWallet, StoreSubmitted, StoreReady,
         StoreActivated, StoreNigeria, StoreUsa, Store422, StoreVbaStatus,
         StoreAgent, StoreProposal, StoreLedger, Stored
<1>3. /\ \A q \in Callers \ {r} : req'[q] = req[q]
      /\ req'[r].pc # "idle" /\ req'[r].op = req[r].op
  <2>1. CASE ReadProfile(r)
    BY <2>1 DEF ReadProfile, TypeOK, Handler
  <2>2. CASE \E pc \in {"done", "failed", "denied", "ledger"} : Goto(r, pc)
    BY <2>2, GotoTyped DEF PCs, Ends
  <2>. QED
    BY <1>2, <2>1, <2>2
<1>. QED
  BY <1>1, <1>3 DEF OwnMove, Ends

LEMMA AbortMoves ==
    ASSUME Inv, NEW r \in Callers, Abort(r)
    PROVE  OwnMove(r)
<1>1. "failed" \in PCs /\ Goto(r, "failed") /\ bmoni' = bmoni
  BY DEF Abort, PCs, Ends
<1>2. /\ \A q \in Callers \ {r} : req'[q] = req[q]
      /\ req'[r].pc = "failed" /\ req'[r].op = req[r].op
  BY <1>1, GotoTyped DEF Inv
<1>. QED
  BY <1>1, <1>2 DEF Abort, OwnMove

LEMMA Steps ==
    ASSUME Inv, [Next]_vars
    PROVE  \/ \E r \in Callers : Handle(r) /\ OwnMove(r)
           \/ \E r \in Callers : Abort(r) /\ OwnMove(r)
           \/ \E r \in Callers, op \in Operations : Begin(r, op)
           \/ req' = req /\ bmoni'.proposals = bmoni.proposals /\ row' = row
<1>1. CASE BmoniStep
  BY <1>1 DEF BmoniStep, TakenElsewhere, Review, OpenRail, Sign, Inv, TypeOK, BmoniState
<1>2. CASE CodeStep \/ UNCHANGED vars
  BY <1>2 DEF CodeStep, vars
<1>. QED
  BY <1>1, <1>2, CallMoves, StoreMoves, AbortMoves DEF Next, Request, Handle

LEMMA BeginMoves ==
    ASSUME Inv, NEW r \in Callers, NEW op \in Operations, Begin(r, op)
    PROVE  /\ \A q \in Callers \ {r} : req'[q] = req[q]
           /\ req[r].pc = "idle" /\ req'[r].op = op
           /\ req'[r].pc \in {"done", "refused", "store", "call"}
           /\ HasRow(op) <=> req'[r].pc = "done"
           /\ req'[r].pc = "call" \/ req'[r].pc = "store" => Allowed(op)
           /\ req'[r].pc = "store" => Local(op)
           /\ UNCHANGED <<bmoni, row, code>>
BY DEF Inv, TypeOK, Handler, Begin

NoneBegun == \A r \in Callers : Untouched(r)

LEMMA UntouchedStep ==
    ASSUME Inv, [Next]_vars, NoneBegun, NEW q \in Callers
    PROVE  Untouched(q)'
<1>1. ASSUME NEW r \in Callers, OwnMove(r)
      PROVE  Untouched(q)'
  BY <1>1 DEF OwnMove, Untouched, NoneBegun
<1>2. ASSUME NEW r \in Callers, NEW op \in Operations, Begin(r, op)
      PROVE  Untouched(q)'
  BY <1>2, BeginMoves DEF Untouched, NoneBegun
<1>. QED
  BY <1>1, <1>2, Steps DEF Untouched, NoneBegun

LEMMA AllUntouched == Spec => []NoneBegun
<1>1. Init => NoneBegun
  BY DEF Init, InitNew, InitProvisioned, Unasked, Op, Untouched, NoneBegun
<1>2. Inv /\ NoneBegun /\ [Next]_vars => NoneBegun'
  BY UntouchedStep DEF NoneBegun
<1>. QED
  BY <1>1, <1>2, Invariance, PTL DEF Spec

(* The row exists, and if request r registers it has been answered. *)
RowAnswers(r) == row.user /\ (req[r].op.kind = "register" => req[r].pc = "done")

LEMMA UserStays ==
    ASSUME Inv, [Next]_vars, row.user
    PROVE  row'.user
<1>. USE DEF Storing, Stored
<1>1. row \in RowState
  BY DEF Inv, TypeOK
<1>2. CASE UNCHANGED row
  BY <1>2
<1>3. ASSUME NEW r \in Callers, StoreAnswer(r)
      PROVE  row'.user
  <2>1. CASE StoreUser(r) \/ StoreAddress(r) \/ StoreWallet(r) \/ StoreSubmitted(r)
    BY <1>1, <2>1 DEF RowState, StoreUser, StoreAddress, StoreWallet, StoreSubmitted
  <2>2. CASE StoreReady(r) \/ ReadProfile(r) \/ StoreActivated(r) \/ StoreNigeria(r)
    BY <1>1, <2>2 DEF RowState, StoreReady, ReadProfile, StoreActivated, StoreNigeria
  <2>3. CASE StoreUsa(r) \/ Store422(r) \/ StoreVbaStatus(r) \/ StoreAgent(r)
    BY <1>1, <2>3 DEF RowState, StoreUsa, Store422, StoreVbaStatus, StoreAgent
  <2>4. CASE StoreProposal(r) \/ StoreLedger(r)
    BY <1>1, <2>4 DEF RowState, StoreProposal, StoreLedger
  <2>. QED
    BY <1>3, <2>1, <2>2, <2>3, <2>4 DEF StoreAnswer
<1>4. ASSUME NEW r \in Callers, CallBmoni(r)
      PROVE  UNCHANGED row
  BY <1>4 DEF CallBmoni, CallRegister, CallWallet, CallSubmit, CallReadiness, CallActivate,
              CallStartNigeria, CallStartUsa, CallVbaStatus, CallForward, CallWithdraw,
              CallPropose
<1>5. ASSUME NEW r \in Callers, Abort(r) \/ \E op \in Operations : Begin(r, op)
      PROVE  UNCHANGED row
  BY <1>5 DEF Abort, Begin
<1>6. ASSUME BmoniStep \/ CodeStep \/ UNCHANGED vars
      PROVE  UNCHANGED row
  BY <1>6 DEF BmoniStep, TakenElsewhere, Review, OpenRail, Sign, CodeStep, vars
<1>. QED
  BY <1>2, <1>3, <1>4, <1>5, <1>6 DEF Next, Request, Handle

LEMMA RowAnswersStep ==
    ASSUME Inv, [Next]_vars, NEW q \in Callers, RowAnswers(q)
    PROVE  RowAnswers(q)'
<1>1. row'.user
  BY UserStays DEF RowAnswers
<1>2. ASSUME NEW r \in Callers, OwnMove(r)
      PROVE  RowAnswers(q)'
  BY <1>1, <1>2 DEF OwnMove, RowAnswers, Ends
<1>3. ASSUME NEW r \in Callers, NEW op \in Operations, Begin(r, op)
      PROVE  RowAnswers(q)'
  BY <1>1, <1>3, BeginMoves DEF RowAnswers, HasRow
<1>. QED
  BY <1>1, <1>2, <1>3, Steps DEF RowAnswers

(* Once a person has a row, a registration that arrives is answered with   *)
(* it, whatever overlaps (getOrCreate).                                    *)
THEOREM RowWins == Spec => ExistingRowWins
<1>. SUFFICES ASSUME NEW r \in Callers
              PROVE  Spec => [](row.user /\ req[r].pc = "idle"
                                  => [](req[r].op.kind = "register" => req[r].pc = "done"))
  BY DEF ExistingRowWins
<1>1. NoneBegun /\ row.user /\ req[r].pc = "idle" => RowAnswers(r)
  BY DEF NoneBegun, Untouched, RowAnswers
<1>2. Inv /\ RowAnswers(r) /\ [Next]_vars => RowAnswers(r)'
  BY RowAnswersStep
<1>3. RowAnswers(r) => (req[r].op.kind = "register" => req[r].pc = "done")
  BY DEF RowAnswers
<1>. QED
  BY <1>1, <1>2, <1>3, Invariance, AllUntouched, PTL DEF Spec

(* The code has expired, and if request r pays it, it was turned away. *)
TurnedAway(r) ==
    /\ code = "expired"
    /\ req[r].op.kind = "payQr" =>
          req[r].pc \in {"idle", "refused"} /\ r \notin bmoni.proposals
    /\ req[r].pc = "idle" => req[r].op.kind = "forward" /\ r \notin bmoni.proposals

LEMMA ExpiredStays ==
    ASSUME [Next]_vars, code = "expired"
    PROVE  code' = "expired"
BY DEF Next, vars, BmoniStep, TakenElsewhere, Review, OpenRail, Sign,
       CodeStep, Request, Handle, Abort, Begin, StoreAnswer, StoreUser, StoreAddress,
       StoreWallet, StoreSubmitted, StoreReady, ReadProfile, StoreActivated, StoreNigeria,
       StoreUsa, Store422, StoreVbaStatus, StoreAgent, StoreProposal, StoreLedger,
       Stored, CallBmoni, CallRegister, CallWallet, CallSubmit, CallReadiness, CallActivate,
       CallStartNigeria, CallStartUsa, CallVbaStatus, CallForward, CallWithdraw, CallPropose

LEMMA TurnedAwayStep ==
    ASSUME Inv, [Next]_vars, NEW q \in Callers, TurnedAway(q)
    PROVE  TurnedAway(q)'
<1>1. code' = "expired"
  BY ExpiredStays DEF TurnedAway
<1>2. ASSUME NEW r \in Callers, OwnMove(r)
      PROVE  TurnedAway(q)'
  BY <1>1, <1>2 DEF OwnMove, TurnedAway, Ends
<1>3. ASSUME NEW r \in Callers, NEW op \in Operations, Begin(r, op)
      PROVE  TurnedAway(q)'
  <2>1. op.kind = "payQr" => req'[r].pc = "refused"
    BY <1>1, <1>3, BeginMoves DEF Allowed, CodeVerified, Local, HasRow
  <2>. QED
    BY <1>1, <1>3, <2>1, BeginMoves DEF TurnedAway
<1>. QED
  BY <1>1, <1>2, <1>3, Steps DEF TurnedAway

(* No request that arrives after a QR code has expired leads to a          *)
(* proposal (HmacTokenService.verify).                                     *)
THEOREM ExpiredCode == Spec => ExpiredCodePaysNothing
<1>. SUFFICES ASSUME NEW r \in Callers
              PROVE  Spec => [](code = "expired" /\ req[r].pc = "idle"
                                  => [](req[r].op.kind = "payQr" => r \notin bmoni.proposals))
  BY DEF ExpiredCodePaysNothing
<1>1. NoneBegun /\ code = "expired" /\ req[r].pc = "idle"
        => TurnedAway(r)
  BY DEF NoneBegun, Untouched, TurnedAway
<1>2. Inv /\ TurnedAway(r) /\ [Next]_vars => TurnedAway(r)'
  BY TurnedAwayStep
<1>3. TurnedAway(r) => (req[r].op.kind = "payQr" => r \notin bmoni.proposals)
  BY DEF TurnedAway
<1>. QED
  BY <1>1, <1>2, <1>3, Invariance, AllUntouched, PTL DEF Spec

----------------------------------------------------------------------------
(* What BMONI has is told by a row, or owed by a handler: one that is      *)
(* about to store it, or has failed.  Other requests change nothing of it. *)

(* Which operations come as far as these steps. *)
StepsOf ==
    \A r \in Callers :
        /\ req[r].pc = "store422" => req[r].op.kind = "startUsa"
        /\ req[r].pc = "ledger" => req[r].op.kind \in Cash

(* Each operation has its own steps. *)
LEMMA CallsOf ==
    ASSUME NEW r \in Callers
    PROVE  /\ CallRegister(r) => req[r].op.kind = "register"
           /\ CallWallet(r) => req[r].op.kind = "wallet"
           /\ CallSubmit(r) => req[r].op.kind = "submit"
           /\ CallReadiness(r) => req[r].op.kind = "readiness"
           /\ CallActivate(r) => req[r].op.kind = "activate"
           /\ CallStartNigeria(r) => req[r].op.kind = "startNigeria"
           /\ CallStartUsa(r) => req[r].op.kind = "startUsa"
           /\ CallVbaStatus(r) => req[r].op.kind = "vbaStatus"
           /\ CallForward(r) => req[r].op.kind \in {"status", "challenge", "deposit", "forward"}
           /\ CallWithdraw(r) => req[r].op.kind = "withdraw"
           /\ CallPropose(r) => req[r].op.kind \in Payments
BY DEF CallRegister, CallWallet, CallSubmit, CallReadiness, CallActivate, CallStartNigeria,
       CallStartUsa, CallVbaStatus, CallForward, CallWithdraw, CallPropose, Calling

LEMMA StoresOf ==
    ASSUME Inv, StepsOf, NEW r \in Callers
    PROVE  /\ StoreUser(r) => req[r].op.kind = "register"
           /\ StoreAddress(r) => req[r].op.kind = "address"
           /\ StoreWallet(r) => req[r].op.kind = "wallet"
           /\ StoreSubmitted(r) => req[r].op.kind = "submit"
           /\ StoreReady(r) => req[r].op.kind = "readiness"
           /\ ReadProfile(r) \/ StoreActivated(r) => req[r].op.kind = "activate"
           /\ StoreNigeria(r) => req[r].op.kind = "startNigeria"
           /\ StoreUsa(r) \/ Store422(r) => req[r].op.kind = "startUsa"
           /\ StoreVbaStatus(r) => req[r].op.kind = "vbaStatus"
           /\ StoreAgent(r) => req[r].op.kind = "agentStatus"
           /\ StoreProposal(r) => req[r].op.kind \in Payments
           /\ StoreLedger(r) => req[r].op.kind \in Cash
<1>1. req[r].pc = "profile" => req[r].op.kind = "activate"
  BY DEF Inv, Knows
<1>. QED
  BY <1>1 DEF StepsOf, StoreUser, StoreAddress, StoreWallet, StoreSubmitted, StoreReady,
     ReadProfile, StoreActivated, StoreNigeria, StoreUsa, Store422, StoreVbaStatus,
     StoreAgent, StoreProposal, StoreLedger, Storing

LEMMA StepsOfKind ==
    ASSUME Inv, StepsOf, NEW r \in Callers, Handle(r)
    PROVE  /\ req[r].op.kind = "register" => CallRegister(r) \/ StoreUser(r)
           /\ req[r].op.kind = "wallet" => CallWallet(r) \/ StoreWallet(r)
           /\ req[r].op.kind = "submit" => CallSubmit(r) \/ StoreSubmitted(r)
           /\ req[r].op.kind = "activate" =>
                 CallActivate(r) \/ ReadProfile(r) \/ StoreActivated(r)
           /\ req[r].op.kind = "startNigeria" => CallStartNigeria(r) \/ StoreNigeria(r)
           /\ req[r].op.kind = "startUsa" => CallStartUsa(r) \/ StoreUsa(r) \/ Store422(r)
           /\ req[r].op.kind = "vbaStatus" => CallVbaStatus(r) \/ StoreVbaStatus(r)
           /\ req[r].op.kind = "withdraw" => CallWithdraw(r)
           /\ req[r].op.kind \in Payments =>
                 CallPropose(r) \/ StoreProposal(r) \/ StoreLedger(r)
BY CallsOf, StoresOf DEF Handle, CallBmoni, StoreAnswer, Payments, Cash

(* And touches nothing of the others'. *)
Touches(r) ==
    LET kind == req[r].op.kind IN
    /\ kind # "register" => bmoni'.user = bmoni.user /\ row'.user = row.user
    /\ kind # "wallet" => bmoni'.wallet = bmoni.wallet /\ row'.wallet = row.wallet
    /\ kind # "submit" => bmoni'.kyc = bmoni.kyc /\ row'.submitted = row.submitted
    /\ kind # "activate" =>
          bmoni'.activated = bmoni.activated /\ row'.activated = row.activated
    /\ kind # "startNigeria" =>
          bmoni'.rail["NGN"] = bmoni.rail["NGN"] /\ row'.rail["NGN"] = row.rail["NGN"]
    /\ kind \notin {"startUsa", "vbaStatus"} =>
          bmoni'.rail["USD"] = bmoni.rail["USD"] /\ row'.rail["USD"] = row.rail["USD"]
    /\ kind \notin Payments =>
          row'.proposals = row.proposals /\ row'.ledger = row.ledger
    /\ kind \notin Payments \union {"withdraw"} => bmoni'.proposals = bmoni.proposals

LEMMA Rows2 ==
    ASSUME Inv
    PROVE  bmoni \in BmoniState /\ row \in RowState /\ "NGN" \in Rails /\ "USD" \in Rails
BY DEF Inv, TypeOK, Rails

LEMMA CallTouches ==
    ASSUME Inv, NEW r \in Callers, CallBmoni(r)
    PROVE  Touches(r)
<1>. USE Rows2 DEF BmoniState, Touches, Payments, Cash
<1>1. CASE CallRegister(r)
  BY <1>1, CallsOf DEF CallRegister
<1>2. CASE CallWallet(r)
  BY <1>2, CallsOf DEF CallWallet
<1>3. CASE CallSubmit(r)
  BY <1>3, CallsOf DEF CallSubmit
<1>4. CASE CallReadiness(r)
  BY <1>4, CallsOf DEF CallReadiness
<1>5. CASE CallActivate(r)
  BY <1>5, CallsOf DEF CallActivate
<1>6. CASE CallStartNigeria(r)
  BY <1>6, CallsOf DEF CallStartNigeria, Started
<1>7. CASE CallStartUsa(r)
  BY <1>7, CallsOf DEF CallStartUsa, Started
<1>8. CASE CallVbaStatus(r)
  BY <1>8, CallsOf DEF CallVbaStatus
<1>9. CASE CallForward(r)
  BY <1>9, CallsOf DEF CallForward
<1>10. CASE CallWithdraw(r)
  BY <1>10, CallsOf DEF CallWithdraw
<1>11. CASE CallPropose(r)
  BY <1>11, CallsOf DEF CallPropose
<1>. QED
  BY <1>1, <1>2, <1>3, <1>4, <1>5, <1>6, <1>7, <1>8, <1>9, <1>10, <1>11 DEF CallBmoni

LEMMA StoreTouches ==
    ASSUME Inv, StepsOf, NEW r \in Callers, StoreAnswer(r)
    PROVE  Touches(r)
<1>. USE Rows2 DEF RowState, Touches, Payments, Cash, Stored
<1>1. CASE StoreUser(r)
  BY <1>1, StoresOf DEF StoreUser
<1>2. CASE StoreAddress(r)
  BY <1>2, StoresOf DEF StoreAddress
<1>3. CASE StoreWallet(r)
  BY <1>3, StoresOf DEF StoreWallet
<1>4. CASE StoreSubmitted(r)
  BY <1>4, StoresOf DEF StoreSubmitted
<1>5. CASE StoreReady(r)
  BY <1>5, StoresOf DEF StoreReady
<1>6. CASE ReadProfile(r)
  BY <1>6, StoresOf DEF ReadProfile
<1>7. CASE StoreActivated(r)
  BY <1>7, StoresOf DEF StoreActivated
<1>8. CASE StoreNigeria(r)
  BY <1>8, StoresOf DEF StoreNigeria
<1>9. CASE StoreUsa(r)
  BY <1>9, StoresOf DEF StoreUsa
<1>10. CASE Store422(r)
  BY <1>10, StoresOf DEF Store422
<1>11. CASE StoreVbaStatus(r)
  BY <1>11, StoresOf DEF StoreVbaStatus
<1>12. CASE StoreAgent(r)
  BY <1>12, StoresOf DEF StoreAgent
<1>13. CASE StoreProposal(r)
  BY <1>13, StoresOf DEF StoreProposal
<1>14. CASE StoreLedger(r)
  BY <1>14, StoresOf DEF StoreLedger
<1>. QED
  BY <1>1, <1>2, <1>3, <1>4, <1>5, <1>6, <1>7, <1>8, <1>9, <1>10, <1>11, <1>12, <1>13, <1>14 DEF StoreAnswer

LEMMA StepsOfMove ==
    ASSUME Inv, StepsOf, NEW r \in Callers, Handle(r)
    PROVE  StepsOf'
<1>1. Handle(r) /\ OwnMove(r)
  BY CallMoves, StoreMoves DEF Handle
<1>2. \/ CallStartUsa(r) \/ StoreProposal(r) \/ ReadProfile(r)
      \/ \E pc \in {"store", "profile", "done", "denied", "failed"} : Goto(r, pc)
      \/ \E pc \in {"store", "done"}, told \in RailStages \union {"ready"} :
            AnsweredWith(r, pc, told)
  <2>1. bmoni.rail["NGN"] \in RailStages /\ bmoni.rail["USD"] \in RailStages
    BY DEF Inv, TypeOK, BmoniState, Rails
  <2>. QED
    BY <1>1, <2>1 DEF Handle, CallBmoni, CallRegister, CallWallet, CallSubmit, CallReadiness,
       CallActivate, CallStartNigeria, CallVbaStatus, CallForward, CallWithdraw, CallPropose,
       Answered, StoreAnswer, StoreUser, StoreAddress, StoreWallet, StoreSubmitted, StoreReady,
       StoreActivated, StoreNigeria, StoreUsa, Store422, StoreVbaStatus,
       StoreAgent, StoreLedger, Stored
<1>3. /\ req'[r].pc = "store422" => req[r].op.kind = "startUsa"
      /\ req'[r].pc = "ledger" => req[r].op.kind \in Cash
  <2>1. CASE CallStartUsa(r)
    <3>1. PICK pc \in {"store", "store422", "failed"} : Goto(r, pc)
      BY <2>1 DEF CallStartUsa, Answered
    <3>. QED
      BY <2>1, <3>1, CallsOf, GotoTyped DEF Inv, PCs, Ends
  <2>2. CASE StoreProposal(r)
    <3>1. PICK pc \in {"ledger", "done"} :
             Goto(r, pc) /\ (pc = "ledger" => req[r].op.kind \in Cash)
      BY <2>2 DEF StoreProposal
    <3>. QED
      BY <3>1, GotoTyped DEF Inv, PCs, Ends
  <2>3. CASE ReadProfile(r)
    BY <2>3 DEF ReadProfile, Inv, TypeOK, Handler
  <2>4. CASE \E pc \in {"store", "profile", "done", "denied", "failed"} : Goto(r, pc)
    BY <2>4, GotoTyped DEF Inv, PCs, Ends
  <2>5. CASE \E pc \in {"store", "done"}, told \in RailStages \union {"ready"} :
                AnsweredWith(r, pc, told)
    BY <2>5, AnsweredWithTyped DEF Inv, PCs, Ends
  <2>. QED
    BY <1>2, <2>1, <2>2, <2>3, <2>4, <2>5
<1>. QED
  BY <1>1, <1>3 DEF OwnMove, StepsOf

LEMMA StepsOfStep ==
    ASSUME Inv, StepsOf, [Next]_vars
    PROVE  StepsOf'
<1>1. ASSUME NEW r \in Callers, Abort(r)
      PROVE  StepsOf'
  BY <1>1, GotoTyped DEF Abort, StepsOf, Inv, PCs, Ends
<1>2. ASSUME NEW r \in Callers, NEW op \in Operations, Begin(r, op)
      PROVE  StepsOf'
  BY <1>2, BeginMoves DEF StepsOf
<1>3. ASSUME req' = req
      PROVE  StepsOf'
  BY <1>3 DEF StepsOf
<1>. QED
  BY <1>1, <1>2, <1>3, StepsOfMove, Steps

(* Nothing a handler has reached is undone by a later step: rows are never *)
(* deleted, and BMONI closes no rail.                                      *)
Kept ==
    /\ row.user => row'.user
    /\ row.address => row'.address
    /\ row.wallet \subseteq row'.wallet
    /\ row.submitted \subseteq row'.submitted
    /\ row.ready => row'.ready
    /\ row.rail["NGN"] = "submitted" => row'.rail["NGN"] = "submitted"
    /\ bmoni.rail["NGN"] = "active" => bmoni'.rail["NGN"] = "active"

LEMMA StoreKeeps ==
    ASSUME Inv, NEW r \in Callers, StoreAnswer(r)
    PROVE  Kept
<1>. USE DEF Storing, Stored, Rails, RowState
<1>1. row \in RowState
  BY DEF Inv, TypeOK
<1>2. UNCHANGED bmoni
  BY DEF StoreAnswer, StoreUser, StoreAddress, StoreWallet, StoreSubmitted, StoreReady, ReadProfile,
         StoreActivated, StoreNigeria, StoreUsa, Store422, StoreVbaStatus, StoreAgent,
         StoreProposal, StoreLedger
<1>3. CASE StoreUser(r) \/ StoreAddress(r) \/ StoreWallet(r) \/ StoreSubmitted(r)
  BY <1>1, <1>2, <1>3 DEF Kept, StoreUser, StoreAddress, StoreWallet, StoreSubmitted
<1>4. CASE StoreReady(r) \/ ReadProfile(r) \/ StoreActivated(r) \/ StoreNigeria(r)
  BY <1>1, <1>2, <1>4 DEF Kept, StoreReady, ReadProfile, StoreActivated, StoreNigeria
<1>5. CASE StoreUsa(r) \/ Store422(r) \/ StoreVbaStatus(r) \/ StoreAgent(r)
  BY <1>1, <1>2, <1>5 DEF Kept, StoreUsa, Store422, StoreVbaStatus, StoreAgent
<1>6. CASE StoreProposal(r) \/ StoreLedger(r)
  BY <1>1, <1>2, <1>6 DEF Kept, StoreProposal, StoreLedger
<1>. QED
  BY <1>3, <1>4, <1>5, <1>6 DEF StoreAnswer

LEMMA CallKeeps ==
    ASSUME Inv, NEW r \in Callers, CallBmoni(r)
    PROVE  Kept
<1>1. UNCHANGED row
  BY DEF CallBmoni, CallRegister, CallWallet, CallSubmit, CallReadiness, CallActivate,
         CallStartNigeria, CallStartUsa, CallVbaStatus, CallForward, CallWithdraw, CallPropose
<1>2. bmoni \in BmoniState
  BY DEF Inv, TypeOK
<1>3. bmoni.rail["NGN"] = "active" => bmoni'.rail["NGN"] = "active"
  BY <1>2 DEF CallBmoni, CallRegister, CallWallet, CallSubmit, CallReadiness, CallActivate,
         CallStartNigeria, CallStartUsa, CallVbaStatus, CallForward, CallWithdraw, CallPropose,
         Started, BmoniState, Rails
<1>. QED
  BY <1>1, <1>3 DEF Kept

LEMMA StepKeeps ==
    ASSUME Inv, [Next]_vars
    PROVE  Kept
<1>1. CASE BmoniStep
  <2>1. UNCHANGED row /\ bmoni \in BmoniState
    BY <1>1 DEF BmoniStep, TakenElsewhere, Review, OpenRail, Sign, Inv, TypeOK
  <2>2. bmoni.rail["NGN"] = "active" => bmoni'.rail["NGN"] = "active"
    BY <1>1, <2>1 DEF BmoniStep, TakenElsewhere, Review, OpenRail, Sign, BmoniState, Rails
  <2>. QED
    BY <2>1, <2>2 DEF Kept
<1>2. CASE CodeStep \/ UNCHANGED vars
  BY <1>2 DEF CodeStep, vars, Kept
<1>3. ASSUME NEW r \in Callers, Abort(r) \/ \E op \in Operations : Begin(r, op)
      PROVE  Kept
  BY <1>3 DEF Abort, Begin, Kept
<1>. QED
  BY <1>1, <1>2, <1>3, StoreKeeps, CallKeeps DEF Next, Request, Handle

(* BMONI has what this operation asks for, and PayFlex has the row of it.  *)
Has(op) ==
    \/ op.kind = "register" /\ bmoni.user = "ours"
    \/ op.kind = "wallet" /\ op.arg \in bmoni.wallet
    \/ op.kind = "submit" /\ op.arg \in bmoni.kyc
    \/ op.kind = "startNigeria" /\ bmoni.rail["NGN"] # "not_started"

Told(op) ==
    /\ op.kind = "register" => row.user
    /\ op.kind = "wallet" => op.arg \in row.wallet
    /\ op.kind = "submit" => op.arg \in row.submitted
    /\ op.kind = "startNigeria" => row.rail["NGN"] = "submitted"

Owes(r, op) == req[r].op = op /\ req[r].pc \in {"store", "failed"}

Covered(op) == Has(op) => Told(op) \/ \E r \in Callers : Owes(r, op)

PaymentsOwed ==
    \A r \in bmoni.proposals :
        /\ req[r].op.kind \in Payments => r \in row.proposals \/ req[r].pc \in {"store", "failed"}
        /\ req[r].op.kind \in Cash =>
              r \in row.ledger \/ req[r].pc \in {"store", "ledger", "failed"}

OwedInv == StepsOf /\ PaymentsOwed /\ \A op \in Operations : Covered(op)

LEMMA SameOperation ==
    ASSUME NEW op \in Operations, NEW other \in Operations,
           op.kind = other.kind, op.kind \in {"register", "wallet", "submit", "startNigeria"},
           op.kind \in {"wallet", "submit"} => op.arg = other.arg
    PROVE  op = other
BY DEF Operations, UserOperations, OnboardingOperations, KycOperations, TransferOperations,
       QrPayOperations, WalletOperations, AgentOperations, PaymentsOperations, Cash

(* A call that gives BMONI something new is owed from then on.             *)
LEMMA CallIsOwed ==
    ASSUME Inv, StepsOf, NEW r \in Callers, Handle(r), NEW op \in Operations, ~Has(op), Has(op)'
    PROVE  Owes(r, op)'
<1>1. /\ Touches(r) /\ OwnMove(r) /\ req[r].op \in Operations
      /\ bmoni \in BmoniState /\ req'[r].op = req[r].op
  BY CallTouches, StoreTouches, CallMoves, StoreMoves, Rows2
     DEF Handle, OwnMove, Inv, TypeOK, Handler
<1>2. CASE op.kind = "register"
  <2>1. req[r].op.kind = "register"
    BY <1>1, <1>2 DEF Touches, Has
  <2>2. CallRegister(r) /\ Answered(r, "store")
    BY <2>1, <1>2, StepsOfKind DEF CallRegister, StoreUser, Stored, Has
  <2>3. req'[r].pc \in {"store", "failed"}
    BY <2>2, GotoTyped DEF Answered, Inv, PCs, Ends
  <2>. QED
    BY <1>1, <1>2, <2>1, <2>3, SameOperation DEF Owes
<1>3. CASE op.kind = "wallet"
  <2>1. req[r].op.kind = "wallet"
    BY <1>1, <1>3 DEF Touches, Has
  <2>2. CallWallet(r)
    BY <2>1, <1>3, StepsOfKind DEF StoreWallet, Stored, Has
  <2>3. req'[r].pc \in {"store", "failed"}
    BY <2>2, GotoTyped DEF CallWallet, Answered, Inv, PCs, Ends
  <2>4. op.arg = req[r].op.arg
    BY <1>1, <1>3, <2>2 DEF CallWallet, Has, BmoniState
  <2>. QED
    BY <1>1, <1>3, <2>1, <2>3, <2>4, SameOperation DEF Owes
<1>4. CASE op.kind = "submit"
  <2>1. req[r].op.kind = "submit"
    BY <1>1, <1>4 DEF Touches, Has
  <2>2. CallSubmit(r)
    BY <2>1, <1>4, StepsOfKind DEF StoreSubmitted, Stored, Has
  <2>3. req'[r].pc \in {"store", "failed"}
    BY <2>2, GotoTyped DEF CallSubmit, Answered, Inv, PCs, Ends
  <2>4. op.arg = req[r].op.arg
    BY <1>1, <1>4, <2>2 DEF CallSubmit, Has, BmoniState
  <2>. QED
    BY <1>1, <1>4, <2>1, <2>3, <2>4, SameOperation DEF Owes
<1>5. CASE op.kind = "startNigeria"
  <2>1. req[r].op.kind = "startNigeria"
    BY <1>1, <1>5 DEF Touches, Has
  <2>2. CallStartNigeria(r)
    BY <2>1, <1>5, StepsOfKind DEF StoreNigeria, Stored, Has
  <2>3. req'[r].pc \in {"store", "failed"}
    BY <2>2, GotoTyped DEF CallStartNigeria, Answered, Inv, PCs, Ends
  <2>. QED
    BY <1>1, <1>5, <2>1, <2>3, SameOperation DEF Owes
<1>. QED
  BY <1>2, <1>3, <1>4, <1>5 DEF Has

(* What a handler owes it stores, unless it fails.                         *)
LEMMA DebtIsStored ==
    ASSUME Inv, StepsOf, NEW r \in Callers, Handle(r), NEW op \in Operations,
           Has(op), Owes(r, op)
    PROVE  Told(op)' \/ Owes(r, op)'
<1>1. OwnMove(r) /\ req[r].op = op /\ req[r].pc = "store" /\ row \in RowState
  BY CallMoves, StoreMoves, Rows2 DEF Handle, OwnMove, Owes, Ends
<1>2. CASE op.kind = "register"
  <2>1. StoreUser(r)
    BY <1>1, <1>2, StepsOfKind DEF CallRegister, Calling
  <2>2. CASE ~row.user /\ Stored(r, [row EXCEPT !.user = TRUE])
    BY <1>1, <1>2, <2>2 DEF Stored, Told, RowState
  <2>3. CASE Goto(r, "failed")
    BY <1>1, <2>3, GotoTyped DEF Owes, Inv, PCs, Ends
  <2>. QED
    BY <2>1, <2>2, <2>3 DEF StoreUser
<1>3. CASE op.kind = "wallet"
  <2>1. StoreWallet(r)
    BY <1>1, <1>3, StepsOfKind DEF CallWallet, Calling
  <2>. QED
    BY <1>1, <1>3, <2>1 DEF StoreWallet, Stored, Told, RowState
<1>4. CASE op.kind = "submit"
  <2>1. StoreSubmitted(r)
    BY <1>1, <1>4, StepsOfKind DEF CallSubmit, Calling
  <2>. QED
    BY <1>1, <1>4, <2>1 DEF StoreSubmitted, Stored, Told, RowState
<1>5. CASE op.kind = "startNigeria"
  <2>1. StoreNigeria(r)
    BY <1>1, <1>5, StepsOfKind DEF CallStartNigeria, Calling
  <2>. QED
    BY <1>1, <1>5, <2>1, Rows2 DEF StoreNigeria, Stored, Told, RowState
<1>. QED
  BY <1>2, <1>3, <1>4, <1>5 DEF Has

LEMMA CoveredStep ==
    ASSUME Inv, StepsOf, [Next]_vars, NEW op \in Operations, Covered(op)
    PROVE  Covered(op)'
<1>1. Told(op) => Told(op)'
  BY StepKeeps DEF Kept, Told
<1>2. ASSUME NEW r \in Callers, Handle(r)
      PROVE  Covered(op)'
  <2>1. \A q \in Callers \ {r} : Owes(q, op) => Owes(q, op)'
    BY <1>2, CallMoves, StoreMoves DEF Handle, OwnMove, Owes
  <2>. QED
    BY <1>1, <1>2, <2>1, CallIsOwed, DebtIsStored DEF Covered
<1>3. ASSUME NEW r \in Callers, Abort(r)
      PROVE  Covered(op)'
  <2>1. /\ \A q \in Callers \ {r} : req'[q] = req[q]
        /\ req'[r].pc = "failed" /\ req'[r].op = req[r].op /\ UNCHANGED <<bmoni, row>>
    BY <1>3, GotoTyped DEF Abort, Inv, PCs, Ends
  <2>. QED
    BY <2>1 DEF Covered, Owes, Has, Told
<1>4. ASSUME NEW r \in Callers, NEW asked \in Operations, Begin(r, asked)
      PROVE  Covered(op)'
  <2>1. \A q \in Callers : Owes(q, op) => Owes(q, op)'
    BY <1>4, BeginMoves DEF Owes
  <2>2. UNCHANGED <<bmoni, row>>
    BY <1>4, BeginMoves
  <2>. QED
    BY <2>1, <2>2 DEF Covered, Has, Told
<1>5. ASSUME BmoniStep \/ CodeStep \/ UNCHANGED vars
      PROVE  Covered(op)'
  <2>1. /\ row' = row /\ req' = req
        /\ bmoni'.user = "ours" => bmoni.user = "ours"
        /\ bmoni'.wallet = bmoni.wallet /\ bmoni'.kyc = bmoni.kyc
        /\ bmoni'.rail["NGN"] = "not_started" <=> bmoni.rail["NGN"] = "not_started"
    BY <1>5, Rows2 DEF BmoniStep, TakenElsewhere, Review, OpenRail, Sign, CodeStep, vars, BmoniState
  <2>. QED
    BY <2>1 DEF Covered, Owes, Has, Told
<1>. QED
  BY <1>2, <1>3, <1>4, <1>5 DEF Next, Request

LEMMA PaymentsOwedStep ==
    ASSUME Inv, NoneBegun, StepsOf, PaymentsOwed, [Next]_vars
    PROVE  PaymentsOwed'
<1>1. row \in RowState /\ bmoni \in BmoniState /\ Cash \subseteq Payments
  BY Rows2 DEF Payments, Cash
<1>2. ASSUME NEW r \in Callers, Handle(r)
      PROVE  PaymentsOwed'
  <2>1. OwnMove(r) /\ bmoni'.proposals \subseteq Callers
    BY <1>2, CallMoves, StoreMoves, StepInv DEF Handle, Next, Request, Inv, TypeOK, BmoniState
  <2>2. row.proposals \subseteq row'.proposals /\ row.ledger \subseteq row'.ledger
    BY <1>1, <1>2 DEF Handle, CallBmoni, CallRegister, CallWallet, CallSubmit, CallReadiness,
       CallActivate, CallStartNigeria, CallStartUsa, CallVbaStatus, CallForward, CallWithdraw,
       CallPropose, StoreAnswer, StoreUser, StoreAddress, StoreWallet, StoreSubmitted, StoreReady,
       ReadProfile, StoreActivated, StoreNigeria, StoreUsa, Store422, StoreVbaStatus, StoreAgent,
       StoreProposal, StoreLedger, Stored, RowState
  <2>3. CASE req[r].op.kind \notin Payments
    BY <1>1, <2>1, <2>2, <2>3 DEF OwnMove, PaymentsOwed
  <2>4. CASE CallPropose(r)
    <3>1. req'[r].pc \in {"store", "failed"}
      BY <2>4, GotoTyped DEF CallPropose, Answered, Inv, PCs, Ends
    <3>. QED
      BY <1>1, <2>1, <2>2, <3>1 DEF OwnMove, PaymentsOwed
  <2>5. CASE StoreProposal(r)
    <3>1. /\ r \in row'.proposals
          /\ req[r].op.kind \in Cash => req'[r].pc = "ledger"
      BY <1>1, <2>5, GotoTyped DEF StoreProposal, RowState, Inv, PCs, Ends
    <3>. QED
      BY <1>1, <2>1, <2>2, <3>1 DEF OwnMove, PaymentsOwed
  <2>6. CASE StoreLedger(r)
    <3>1. r \in row'.ledger /\ r \in row.proposals
      BY <1>1, <2>6 DEF StoreLedger, Stored, RowState, Inv, Knows
    <3>. QED
      BY <1>1, <2>1, <2>2, <3>1 DEF OwnMove, PaymentsOwed
  <2>. QED
    BY <1>2, <2>3, <2>4, <2>5, <2>6, StepsOfKind
<1>3. ASSUME NEW r \in Callers, Abort(r)
      PROVE  PaymentsOwed'
  <2>1. /\ \A q \in Callers \ {r} : req'[q] = req[q]
        /\ req'[r].pc = "failed" /\ req'[r].op = req[r].op /\ UNCHANGED <<bmoni, row>>
    BY <1>3, GotoTyped DEF Abort, Inv, PCs, Ends
  <2>. QED
    BY <1>1, <2>1 DEF PaymentsOwed, BmoniState
<1>4. ASSUME NEW r \in Callers, NEW op \in Operations, Begin(r, op)
      PROVE  PaymentsOwed'
  <2>1. /\ \A q \in Callers \ {r} : req'[q] = req[q]
        /\ UNCHANGED <<bmoni, row>> /\ r \notin bmoni.proposals
    BY <1>4, BeginMoves DEF NoneBegun, Untouched
  <2>. QED
    BY <1>1, <2>1 DEF PaymentsOwed, BmoniState
<1>5. ASSUME BmoniStep \/ CodeStep \/ UNCHANGED vars
      PROVE  PaymentsOwed'
  <2>1. row' = row /\ req' = req /\ bmoni'.proposals = bmoni.proposals
    BY <1>1, <1>5 DEF BmoniStep, TakenElsewhere, Review, OpenRail, Sign, CodeStep, vars, BmoniState
  <2>. QED
    BY <2>1 DEF PaymentsOwed
<1>. QED
  BY <1>2, <1>3, <1>4, <1>5 DEF Next, Request

LEMMA InitOwed == Init => OwedInv
<1>. SUFFICES ASSUME Init PROVE OwedInv
  OBVIOUS
<1>1. \A r \in Callers : req[r].pc = "idle"
  BY DEF Init, InitNew, InitProvisioned, Unasked
<1>2. /\ bmoni.user = "ours" => row.user
      /\ bmoni.wallet = row.wallet /\ bmoni.kyc = row.submitted
      /\ bmoni.rail["NGN"] = "not_started" /\ bmoni.proposals = {}
  BY DEF Init, InitNew, InitProvisioned, Rails
<1>. QED
  BY <1>1, <1>2 DEF OwedInv, StepsOf, PaymentsOwed, Covered, Has, Told

LEMMA OwedStep ==
    ASSUME Inv, NoneBegun, OwedInv, [Next]_vars
    PROVE  OwedInv'
BY StepsOfStep, PaymentsOwedStep, CoveredStep DEF OwedInv, Operations

LEMMA OwedMeans ==
    ASSUME Inv, OwedInv
    PROVE  OnlyFailuresLose
<1>. SUFFICES ASSUME Quiet
              PROVE  OnlyFailuresLose
  BY DEF OnlyFailuresLose
<1>1. /\ \A r \in Callers : req[r].pc \notin {"store", "ledger"}
      /\ \A op \in Operations : Has(op) => Told(op) \/ Failed(op)
  BY DEF Quiet, Ends, OwedInv, Covered, Owes, Failed
<1>2. /\ bmoni.wallet \subseteq Rails /\ bmoni.kyc \subseteq Documents
      /\ bmoni.proposals \subseteq Callers
  BY Rows2 DEF BmoniState
<1>3. /\ Op("register", None) \in Operations /\ Op("startNigeria", None) \in Operations
      /\ \A c \in Rails : Op("wallet", c) \in Operations
      /\ \A d \in Documents : Op("submit", d) \in Operations
  BY DEF Operations, UserOperations, OnboardingOperations, KycOperations, Op
<1>4. bmoni.user = "ours" /\ ~row.user => Failed(Op("register", None))
  BY <1>1, <1>3 DEF Has, Told, Op
<1>5. \A c \in bmoni.wallet \ row.wallet : Failed(Op("wallet", c))
  BY <1>1, <1>2, <1>3 DEF Has, Told, Op
<1>6. \A d \in bmoni.kyc \ row.submitted : Failed(Op("submit", d))
  BY <1>1, <1>2, <1>3 DEF Has, Told, Op
<1>7. bmoni.rail["NGN"] # "not_started" /\ row.rail["NGN"] # "submitted" =>
         Failed(Op("startNigeria", None))
  BY <1>1, <1>3 DEF Has, Told, Op
<1>8. \A r \in bmoni.proposals :
         /\ req[r].op.kind \in Payments => r \in row.proposals \/ req[r].pc = "failed"
         /\ req[r].op.kind \in Cash => r \in row.ledger \/ req[r].pc = "failed"
  BY <1>1, <1>2 DEF OwedInv, PaymentsOwed
<1>. QED
  BY <1>4, <1>5, <1>6, <1>7, <1>8 DEF OnlyFailuresLose

(* When all is quiet, a user, wallet, document, naira rail or payment that *)
(* BMONI has and no row tells of was asked for by a handler that failed:   *)
(* no overlap of any number of requests loses one (users, onboarding, kyc, *)
(* transfer and agent services).                                           *)
THEOREM OverlapsLoseNothing == Spec => []OnlyFailuresLose
<1>1. Inv /\ NoneBegun /\ OwedInv /\ [Next]_vars => OwedInv'
  BY OwedStep
<1>2. Inv /\ OwedInv => OnlyFailuresLose
  BY OwedMeans
<1>. QED
  BY <1>1, <1>2, InitOwed, Invariance, AllUntouched, PTL DEF Spec

----------------------------------------------------------------------------
(* Requests served one at a time: what BMONI has and the rows do not tell  *)
(* is what the one request in flight is about to store.                    *)

InFlight(r) == req[r].pc \notin {"idle"} \union Ends

UserTold ==
    /\ bmoni.user = "ours" => row.user \/ \E r \in Callers : AboutToStore(r, {"register"})
    /\ \A r \in Callers : req[r].op.kind = "register" =>
          /\ req[r].pc = "call" => ~row.user
          /\ req[r].pc = "denied" => bmoni.user = "other"

WalletTold ==
    \A c \in bmoni.wallet :
        c \in row.wallet \/ \E r \in Callers : AboutToStore(r, {"wallet"}) /\ req[r].op.arg = c

KycTold ==
    \A d \in bmoni.kyc :
        d \in row.submitted \/ \E r \in Callers : AboutToStore(r, {"submit"}) /\ req[r].op.arg = d

ActivatedTold ==
    /\ \A r \in Callers : AboutToStore(r, {"activate"}) => req[r].seen = row.activated
    /\ \A c \in bmoni.activated :
          \/ c \in row.activated
          \/ \E r \in Callers : /\ req[r].pc = "profile" \/ AboutToStore(r, {"activate"})
                                /\ req[r].op.arg = c

NigeriaTold ==
    /\ row.rail["NGN"] \in {"none", "submitted"}
    /\ bmoni.rail["NGN"] # "not_started" =>
          \/ row.rail["NGN"] = "submitted"
          \/ \E r \in Callers : AboutToStore(r, {"startNigeria"})

UsaTold ==
    /\ \A r \in Callers :
          /\ req[r].pc = "store422" => bmoni.rail["USD"] = "not_started"
          /\ AboutToStore(r, {"vbaStatus"}) /\ req[r].told = "not_started" =>
                bmoni.rail["USD"] = "not_started"
    /\ bmoni.rail["USD"] # "not_started" =>
          \/ row.rail["USD"] \in {"submitted", "pending", "active"}
          \/ \E r \in Callers : AboutToStore(r, {"startUsa"})

PaymentsTold ==
    /\ \A r \in bmoni.proposals : req[r].op.kind \in Payments =>
          r \in row.proposals \/ AboutToStore(r, Payments)
    /\ \A r \in row.proposals :
          /\ req[r].op.kind \in Payments
          /\ req[r].op.kind \in Cash => r \in row.ledger \/ req[r].pc = "ledger"
    /\ \A r \in row.ledger : req[r].op.kind \in Cash

SerialInv ==
    /\ StepsOf
    /\ UserTold /\ WalletTold /\ KycTold /\ ActivatedTold
    /\ NigeriaTold /\ UsaTold /\ PaymentsTold

(* The handler that moves, moves alone, and does not fail. *)
Solo(r) ==
    /\ Handle(r) /\ OwnMove(r)
    /\ req'[r].pc # "failed"
    /\ \A q \in Callers \ {r} : ~InFlight(q)

LEMMA OnlyOne ==
    ASSUME NEW r \in Callers, Solo(r), NEW q \in Callers \ {r}
    PROVE  /\ req'[q] = req[q]
           /\ req[q].pc \notin {"call", "profile", "store", "store422", "ledger"}
BY DEF Solo, OwnMove, InFlight, Ends

LEMMA SoloTouches ==
    ASSUME Inv, StepsOf, NEW r \in Callers, Solo(r)
    PROVE  /\ Touches(r)
           /\ req'[r].op = req[r].op /\ req'[r].pc # "idle"
           /\ req' \in [Callers -> Handler]
<1>1. Handle(r) /\ OwnMove(r)
  BY DEF Solo
<1>2. Touches(r)
  BY <1>1, CallTouches, StoreTouches DEF Handle
<1>3. Inv'
  BY <1>1, StepInv DEF Next, Request
<1>. QED
  BY <1>1, <1>2, <1>3 DEF OwnMove, Inv, TypeOK

LEMMA UserMove ==
    ASSUME Inv, SerialInv, NEW r \in Callers, Solo(r)
    PROVE  UserTold'
<1>. USE DEF SerialInv, AboutToStore
<1>. USE OnlyOne
<1>1. /\ req'[r].op = req[r].op /\ req'[r].pc \notin {"idle", "failed"} /\ Handle(r)
      /\ row \in RowState /\ bmoni \in BmoniState
  BY SoloTouches, Rows2 DEF Solo
<1>2. CASE req[r].op.kind # "register"
  <2>1. bmoni'.user = bmoni.user /\ row'.user = row.user
    BY <1>2, SoloTouches DEF Touches
  <2>. QED
    BY <1>1, <1>2, <2>1 DEF UserTold
<1>3. CASE req[r].op.kind = "register" /\ CallRegister(r)
  <2>1. req[r].pc = "call" /\ ~row.user /\ row' = row
    BY <1>3 DEF CallRegister, Calling, UserTold
  <2>2. bmoni.user # "ours"
    BY <2>1 DEF UserTold
  <2>3. \/ bmoni.user = "none" /\ bmoni'.user = "ours" /\ Goto(r, "store")
        \/ bmoni.user = "other" /\ bmoni' = bmoni /\ Goto(r, "denied")
    <3>1. ~Goto(r, "failed")
      BY <1>1, GotoTyped DEF PCs, Ends, Inv
    <3>. QED
      BY <1>1, <1>3, <2>2, <3>1 DEF CallRegister, Answered, BmoniState
  <2>4. \/ bmoni'.user = "ours" /\ req'[r].pc = "store"
        \/ bmoni'.user = "other" /\ req'[r].pc = "denied"
    BY <2>3, GotoTyped DEF PCs, Ends, Inv
  <2>5. ASSUME NEW q \in Callers, req'[q].op.kind = "register"
        PROVE  /\ req'[q].pc = "call" => ~row'.user
               /\ req'[q].pc = "denied" => bmoni'.user = "other"
    <3>1. CASE q = r
      BY <2>4, <3>1
    <3>2. CASE q # r
      BY <2>3, <2>5, <3>2 DEF UserTold
    <3>. QED
      BY <3>1, <3>2
  <2>. QED
    BY <1>1, <1>3, <2>1, <2>4, <2>5 DEF UserTold
<1>4. CASE req[r].op.kind = "register" /\ StoreUser(r)
  <2>1. ~Goto(r, "failed")
    BY <1>1, GotoTyped DEF PCs, Ends, Inv
  <2>2. row' = [row EXCEPT !.user = TRUE] /\ Goto(r, "done") /\ bmoni' = bmoni
    BY <1>4, <2>1 DEF StoreUser, Stored
  <2>3. row'.user /\ req'[r].pc = "done"
    BY <1>1, <2>2, GotoTyped DEF PCs, Ends, Inv, RowState
  <2>. QED
    BY <1>1, <2>2, <2>3 DEF UserTold
<1>. QED
  BY <1>1, <1>2, <1>3, <1>4, StepsOfKind

LEMMA WalletMove ==
    ASSUME Inv, SerialInv, NEW r \in Callers, Solo(r)
    PROVE  WalletTold'
<1>. USE DEF SerialInv, AboutToStore
<1>. USE OnlyOne
<1>1. /\ req'[r].op = req[r].op /\ req'[r].pc \notin {"idle", "failed"} /\ Handle(r)
      /\ row \in RowState /\ bmoni \in BmoniState
  BY SoloTouches, Rows2 DEF Solo
<1>2. CASE req[r].op.kind # "wallet"
  <2>1. bmoni'.wallet = bmoni.wallet /\ row'.wallet = row.wallet
    BY <1>2, SoloTouches DEF Touches
  <2>. QED
    BY <1>1, <1>2, <2>1 DEF WalletTold
<1>3. CASE req[r].op.kind = "wallet" /\ CallWallet(r)
  <2>1. /\ req[r].pc = "call" /\ row' = row /\ Goto(r, "store")
        /\ bmoni'.wallet = bmoni.wallet \union {req[r].op.arg}
    <3>1. ~Goto(r, "failed")
      BY <1>1, GotoTyped DEF PCs, Ends, Inv
    <3>. QED
      BY <1>1, <1>3, <3>1 DEF CallWallet, Calling, Answered, BmoniState
  <2>2. req'[r].pc = "store"
    BY <2>1, GotoTyped DEF PCs, Inv
  <2>. QED
    BY <1>1, <1>3, <2>1, <2>2 DEF WalletTold
<1>4. CASE req[r].op.kind = "wallet" /\ StoreWallet(r)
  <2>1. row'.wallet = row.wallet \union {req[r].op.arg} /\ bmoni' = bmoni
    BY <1>1, <1>4 DEF StoreWallet, Stored, RowState
  <2>. QED
    BY <1>1, <2>1 DEF WalletTold
<1>. QED
  BY <1>1, <1>2, <1>3, <1>4, StepsOfKind

LEMMA KycMove ==
    ASSUME Inv, SerialInv, NEW r \in Callers, Solo(r)
    PROVE  KycTold'
<1>. USE DEF SerialInv, AboutToStore
<1>. USE OnlyOne
<1>1. /\ req'[r].op = req[r].op /\ req'[r].pc \notin {"idle", "failed"} /\ Handle(r)
      /\ row \in RowState /\ bmoni \in BmoniState
  BY SoloTouches, Rows2 DEF Solo
<1>2. CASE req[r].op.kind # "submit"
  <2>1. bmoni'.kyc = bmoni.kyc /\ row'.submitted = row.submitted
    BY <1>2, SoloTouches DEF Touches
  <2>. QED
    BY <1>1, <1>2, <2>1 DEF KycTold
<1>3. CASE req[r].op.kind = "submit" /\ CallSubmit(r)
  <2>1. /\ req[r].pc = "call" /\ row' = row /\ Goto(r, "store")
        /\ bmoni'.kyc = bmoni.kyc \union {req[r].op.arg}
    <3>1. ~Goto(r, "failed")
      BY <1>1, GotoTyped DEF PCs, Ends, Inv
    <3>. QED
      BY <1>1, <1>3, <3>1 DEF CallSubmit, Calling, Answered, BmoniState
  <2>2. req'[r].pc = "store"
    BY <2>1, GotoTyped DEF PCs, Inv
  <2>. QED
    BY <1>1, <1>3, <2>1, <2>2 DEF KycTold
<1>4. CASE req[r].op.kind = "submit" /\ StoreSubmitted(r)
  <2>1. row'.submitted = row.submitted \union {req[r].op.arg} /\ bmoni' = bmoni
    BY <1>1, <1>4 DEF StoreSubmitted, Stored, RowState
  <2>. QED
    BY <1>1, <2>1 DEF KycTold
<1>. QED
  BY <1>1, <1>2, <1>3, <1>4, StepsOfKind

LEMMA ActivatedMove ==
    ASSUME Inv, SerialInv, NEW r \in Callers, Solo(r)
    PROVE  ActivatedTold'
<1>. USE DEF SerialInv, AboutToStore
<1>. USE OnlyOne
<1>1. /\ req'[r].op = req[r].op /\ req'[r].pc \notin {"idle", "failed"} /\ Handle(r)
      /\ row \in RowState /\ bmoni \in BmoniState
  BY SoloTouches, Rows2 DEF Solo
<1>2. CASE req[r].op.kind # "activate"
  <2>1. bmoni'.activated = bmoni.activated /\ row'.activated = row.activated
    BY <1>2, SoloTouches DEF Touches
  <2>2. req[r].pc # "profile" /\ req'[r].pc # "profile"
    <3>1. Inv'
      BY <1>1, StepInv DEF Next, Request
    <3>. QED
      BY <1>1, <1>2, <3>1 DEF Inv, Knows
  <2>. QED
    BY <1>1, <1>2, <2>1, <2>2 DEF ActivatedTold
<1>3. CASE req[r].op.kind = "activate" /\ CallActivate(r)
  <2>1. req[r].pc = "call" /\ row' = row
    BY <1>3 DEF CallActivate, Calling
  <2>2. \/ /\ Goto(r, "profile")
           /\ bmoni'.activated = bmoni.activated \union {req[r].op.arg}
        \/ Goto(r, "done") /\ bmoni' = bmoni
    <3>1. ~Goto(r, "failed")
      BY <1>1, GotoTyped DEF PCs, Ends, Inv
    <3>. QED
      BY <1>1, <1>3, <3>1 DEF CallActivate, Answered, BmoniState
  <2>3. \/ /\ req'[r].pc = "profile"
           /\ bmoni'.activated = bmoni.activated \union {req[r].op.arg}
        \/ req'[r].pc = "done" /\ bmoni' = bmoni
    BY <2>2, GotoTyped DEF PCs, Ends, Inv
  <2>. QED
    BY <1>1, <1>3, <2>1, <2>3 DEF ActivatedTold
<1>4. CASE req[r].op.kind = "activate" /\ ReadProfile(r)
  <2>1. /\ req[r].pc = "profile" /\ UNCHANGED <<bmoni, row>>
        /\ req'[r].pc = "store" /\ req'[r].seen = row.activated
    BY <1>4 DEF ReadProfile, Inv, TypeOK, Handler
  <2>. QED
    BY <1>1, <1>4, <2>1 DEF ActivatedTold
<1>5. CASE req[r].op.kind = "activate" /\ StoreActivated(r)
  <2>1. /\ req[r].pc = "store" /\ bmoni' = bmoni /\ Goto(r, "done")
        /\ row'.activated = req[r].seen \union {req[r].op.arg}
    BY <1>1, <1>5 DEF StoreActivated, Storing, Stored, RowState
  <2>2. req'[r].pc = "done"
    BY <2>1, GotoTyped DEF PCs, Ends, Inv
  <2>3. req[r].seen = row.activated
    BY <1>5, <2>1 DEF ActivatedTold
  <2>. QED
    BY <1>1, <2>1, <2>2, <2>3 DEF ActivatedTold
<1>. QED
  BY <1>1, <1>2, <1>3, <1>4, <1>5, StepsOfKind

LEMMA NigeriaMove ==
    ASSUME Inv, SerialInv, NEW r \in Callers, Solo(r)
    PROVE  NigeriaTold'
<1>. USE DEF SerialInv, AboutToStore
<1>. USE OnlyOne
<1>1. /\ req'[r].op = req[r].op /\ req'[r].pc \notin {"idle", "failed"} /\ Handle(r)
      /\ row \in RowState /\ bmoni \in BmoniState
  BY SoloTouches, Rows2 DEF Solo
<1>2. CASE req[r].op.kind # "startNigeria"
  <2>1. bmoni'.rail["NGN"] = bmoni.rail["NGN"] /\ row'.rail["NGN"] = row.rail["NGN"]
    BY <1>2, SoloTouches DEF Touches
  <2>. QED
    BY <1>1, <1>2, <2>1 DEF NigeriaTold
<1>3. CASE req[r].op.kind = "startNigeria" /\ CallStartNigeria(r)
  <2>1. Goto(r, "store") /\ row' = row
    <3>1. ~Goto(r, "failed")
      BY <1>1, GotoTyped DEF PCs, Ends, Inv
    <3>. QED
      BY <1>3, <3>1 DEF CallStartNigeria, Answered
  <2>2. req'[r].pc = "store"
    BY <2>1, GotoTyped DEF PCs, Inv
  <2>. QED
    BY <1>1, <1>3, <2>1, <2>2 DEF NigeriaTold
<1>4. CASE req[r].op.kind = "startNigeria" /\ StoreNigeria(r)
  <2>1. row'.rail["NGN"] = "submitted"
    BY <1>1, <1>4, Rows2 DEF StoreNigeria, Stored, RowState
  <2>. QED
    BY <2>1 DEF NigeriaTold
<1>. QED
  BY <1>1, <1>2, <1>3, <1>4, StepsOfKind

LEMMA UsaMove ==
    ASSUME Inv, SerialInv, NEW r \in Callers, Solo(r)
    PROVE  UsaTold'
<1>. USE DEF SerialInv, AboutToStore
<1>. USE OnlyOne
<1>1. /\ req'[r].op = req[r].op /\ req'[r].pc \notin {"idle", "failed"} /\ Handle(r)
      /\ row \in RowState /\ bmoni \in BmoniState
  BY SoloTouches, Rows2 DEF Solo
<1>2. CASE req[r].op.kind \notin {"startUsa", "vbaStatus"}
  <2>1. bmoni'.rail["USD"] = bmoni.rail["USD"] /\ row'.rail["USD"] = row.rail["USD"]
    BY <1>2, SoloTouches DEF Touches
  <2>2. req'[r].pc # "store422"
    BY <1>1, <1>2, StepsOfMove DEF StepsOf
  <2>. QED
    BY <1>1, <1>2, <2>1, <2>2 DEF UsaTold
<1>3. CASE req[r].op.kind = "startUsa" /\ CallStartUsa(r)
  <2>1. row' = row
    BY <1>3 DEF CallStartUsa
  <2>2. \/ Goto(r, "store")
        \/ Goto(r, "store422") /\ bmoni' = bmoni /\ bmoni.rail["USD"] = "not_started"
    <3>1. ~Goto(r, "failed")
      BY <1>1, GotoTyped DEF PCs, Ends, Inv
    <3>. QED
      BY <1>3, <3>1 DEF CallStartUsa, Answered
  <2>3. \/ req'[r].pc = "store"
        \/ req'[r].pc = "store422" /\ bmoni' = bmoni /\ bmoni.rail["USD"] = "not_started"
    BY <2>2, GotoTyped DEF PCs, Inv
  <2>. QED
    BY <1>1, <1>3, <2>1, <2>3 DEF UsaTold
<1>4. CASE req[r].op.kind = "startUsa" /\ StoreUsa(r)
  <2>1. row'.rail["USD"] = "submitted" /\ bmoni' = bmoni /\ req'[r].pc = "done"
    BY <1>1, <1>4, Rows2, GotoTyped DEF StoreUsa, Stored, RowState, PCs, Ends, Inv
  <2>. QED
    BY <1>1, <1>4, <2>1 DEF UsaTold
<1>5. CASE req[r].op.kind = "startUsa" /\ Store422(r)
  <2>1. bmoni.rail["USD"] = "not_started" /\ bmoni' = bmoni
    BY <1>5 DEF Store422, UsaTold
  <2>. QED
    BY <1>1, <1>5, <2>1 DEF UsaTold
<1>6. CASE req[r].op.kind = "vbaStatus" /\ CallVbaStatus(r)
  <2>1. bmoni.rail["USD"] \in RailStages /\ UNCHANGED <<bmoni, row>>
        /\ AnsweredWith(r, "store", bmoni.rail["USD"])
    BY <1>1, <1>6, Rows2 DEF CallVbaStatus, BmoniState
  <2>2. req'[r].pc = "store" /\ req'[r].told = bmoni.rail["USD"]
    BY <2>1, AnsweredWithTyped DEF PCs, Inv
  <2>. QED
    BY <1>1, <1>6, <2>1, <2>2 DEF UsaTold
<1>7. CASE req[r].op.kind = "vbaStatus" /\ StoreVbaStatus(r)
  <2>1. /\ req[r].pc = "store" /\ bmoni' = bmoni /\ req'[r].pc = "done"
        /\ row'.rail["USD"] = IF row.rail["USD"] = "none" THEN "none" ELSE req[r].told
    BY <1>1, <1>7, Rows2, GotoTyped DEF StoreVbaStatus, Storing, Stored, RowState, PCs, Ends, Inv
  <2>2. req[r].told \in RailStages
    BY <1>7, <2>1 DEF Inv, Knows
  <2>. QED
    BY <1>1, <1>7, <2>1, <2>2 DEF UsaTold, RailStages
<1>. QED
  BY <1>1, <1>2, <1>3, <1>4, <1>5, <1>6, <1>7, StepsOfKind

LEMMA PaymentsMove ==
    ASSUME Inv, SerialInv, NEW r \in Callers, Solo(r)
    PROVE  PaymentsTold'
<1>. USE DEF SerialInv, AboutToStore
<1>. USE OnlyOne
<1>1. /\ req'[r].op = req[r].op /\ req'[r].pc \notin {"idle", "failed"} /\ Handle(r)
      /\ row \in RowState /\ bmoni \in BmoniState
  BY SoloTouches, Rows2 DEF Solo
<1>2. row.ledger \subseteq row.proposals /\ row.proposals \subseteq bmoni.proposals
      /\ bmoni.proposals \subseteq Callers
  BY <1>1 DEF Inv, RowsNeverAhead, BmoniState
<1>3. "withdraw" \notin Payments /\ Cash \subseteq Payments
  BY DEF Payments, Cash
<1>4. CASE req[r].op.kind \notin Payments \union {"withdraw"}
  <2>1. /\ row'.proposals = row.proposals /\ row'.ledger = row.ledger
        /\ bmoni'.proposals = bmoni.proposals
    BY <1>4, SoloTouches DEF Touches
  <2>. QED
    BY <1>1, <1>2, <1>3, <1>4, <2>1 DEF PaymentsTold
<1>5. CASE req[r].op.kind = "withdraw" /\ CallWithdraw(r)
  <2>1. row' = row /\ bmoni'.proposals = bmoni.proposals \union {r}
    BY <1>1, <1>5 DEF CallWithdraw, BmoniState
  <2>. QED
    BY <1>1, <1>2, <1>3, <1>5, <2>1 DEF PaymentsTold
<1>6. CASE req[r].op.kind \in Payments /\ CallPropose(r)
  <2>1. /\ req[r].pc = "call" /\ row' = row /\ Goto(r, "store")
        /\ bmoni'.proposals = bmoni.proposals \union {r}
    <3>1. ~Goto(r, "failed")
      BY <1>1, GotoTyped DEF PCs, Ends, Inv
    <3>. QED
      BY <1>1, <1>6, <3>1 DEF CallPropose, Calling, Answered, BmoniState
  <2>2. req'[r].pc = "store"
    BY <2>1, GotoTyped DEF PCs, Inv
  <2>3. r \notin row.ledger => ~(r \in row.proposals /\ req[r].op.kind \in Cash)
    BY <2>1 DEF PaymentsTold
  <2>. QED
    BY <1>1, <1>2, <1>3, <1>6, <2>1, <2>2, <2>3 DEF PaymentsTold
<1>7. CASE req[r].op.kind \in Payments /\ StoreProposal(r)
  <2>1. /\ req[r].pc = "store" /\ bmoni' = bmoni
        /\ row'.proposals = row.proposals \union {r} /\ row'.ledger = row.ledger
        /\ req'[r].pc = IF req[r].op.kind \in Cash THEN "ledger" ELSE "done"
    BY <1>1, <1>7, GotoTyped DEF StoreProposal, RowState, PCs, Ends, Inv
  <2>. QED
    BY <1>1, <1>2, <1>3, <1>7, <2>1 DEF PaymentsTold
<1>8. CASE req[r].op.kind \in Payments /\ StoreLedger(r)
  <2>1. /\ req[r].pc = "ledger" /\ bmoni' = bmoni /\ req[r].op.kind \in Cash
        /\ row'.proposals = row.proposals /\ row'.ledger = row.ledger \union {r}
    BY <1>1, <1>8 DEF StoreLedger, Stored, RowState, StepsOf
  <2>. QED
    BY <1>1, <1>2, <1>3, <1>8, <2>1 DEF PaymentsTold
<1>. QED
  BY <1>1, <1>4, <1>5, <1>6, <1>7, <1>8, StepsOfKind

(* A request that begins changes no row; a registration goes to BMONI only *)
(* when there is no row, and no operation of its own is half done.         *)
LEMMA BeginSerial ==
    ASSUME Inv, SerialInv, NEW r \in Callers, NEW op \in Operations, Begin(r, op), NoneBegun
    PROVE  SerialInv'
<1>1. /\ UNCHANGED <<bmoni, row>> /\ req[r].pc = "idle" /\ req'[r].op = op
      /\ \A q \in Callers \ {r} : req'[q] = req[q]
      /\ req'[r].pc \in {"done", "refused", "store", "call"}
      /\ HasRow(op) <=> req'[r].pc = "done"
      /\ req'[r].pc = "store" => op.kind \in {"address", "agentStatus"}
  BY BeginMoves DEF Local
<1>2. r \notin bmoni.proposals
  BY <1>1 DEF NoneBegun, Untouched
<1>3. row.ledger \subseteq row.proposals /\ row.proposals \subseteq bmoni.proposals
      /\ bmoni.proposals \subseteq Callers
  BY Rows2 DEF Inv, RowsNeverAhead, BmoniState
<1>. USE DEF SerialInv, AboutToStore
<1>4. StepsOf'
  BY <1>1 DEF StepsOf
<1>5. UserTold'
  BY <1>1 DEF UserTold, HasRow
<1>6. WalletTold' /\ KycTold' /\ ActivatedTold'
  BY <1>1 DEF WalletTold, KycTold, ActivatedTold
<1>7. NigeriaTold' /\ UsaTold'
  BY <1>1 DEF NigeriaTold, UsaTold
<1>8. PaymentsTold'
  BY <1>1, <1>2, <1>3 DEF PaymentsTold, Payments, Cash
<1>. QED
  BY <1>4, <1>5, <1>6, <1>7, <1>8

(* Nothing BMONI does by itself is of a kind the rows are to tell.         *)
LEMMA OutsideSerial ==
    ASSUME Inv, SerialInv, BmoniStep \/ CodeStep \/ UNCHANGED vars
    PROVE  SerialInv'
<1>1. /\ row' = row /\ req' = req
      /\ bmoni'.user = bmoni.user \/ (bmoni.user = "none" /\ bmoni'.user = "other")
      /\ bmoni'.wallet = bmoni.wallet /\ bmoni'.kyc = bmoni.kyc
      /\ bmoni'.activated = bmoni.activated /\ bmoni'.proposals = bmoni.proposals
      /\ \A c \in Rails : bmoni'.rail[c] = "not_started" <=> bmoni.rail[c] = "not_started"
  BY Rows2 DEF BmoniStep, TakenElsewhere, Review, OpenRail, Sign, CodeStep, vars, BmoniState
<1>. USE <1>1 DEF SerialInv, AboutToStore
<1>2. StepsOf' /\ UserTold' /\ PaymentsTold'
  BY DEF StepsOf, UserTold, PaymentsTold
<1>3. WalletTold' /\ KycTold' /\ ActivatedTold'
  BY DEF WalletTold, KycTold, ActivatedTold
<1>4. NigeriaTold' /\ UsaTold'
  BY DEF NigeriaTold, UsaTold, Rails
<1>. QED
  BY <1>2, <1>3, <1>4

LEMMA InitSerial == Init => SerialInv
<1>. SUFFICES ASSUME Init PROVE SerialInv
  OBVIOUS
<1>1. \A r \in Callers : req[r].pc = "idle" /\ req[r].op.kind = "forward"
  BY DEF Init, InitNew, InitProvisioned, Unasked, Op
<1>2. /\ bmoni.user = "ours" => row.user
      /\ bmoni.wallet = row.wallet /\ bmoni.kyc = row.submitted
      /\ bmoni.activated = {} /\ bmoni.proposals = {} /\ row.proposals = {} /\ row.ledger = {}
      /\ \A c \in Rails : bmoni.rail[c] = "not_started" /\ row.rail[c] = "none"
  BY DEF Init, InitNew, InitProvisioned
<1>3. StepsOf /\ UserTold
  BY <1>1, <1>2 DEF StepsOf, UserTold
<1>4. WalletTold /\ KycTold
  BY <1>2 DEF WalletTold, KycTold
<1>5. ActivatedTold /\ PaymentsTold
  BY <1>1, <1>2 DEF ActivatedTold, PaymentsTold, AboutToStore
<1>6. NigeriaTold /\ UsaTold
  BY <1>1, <1>2 DEF NigeriaTold, UsaTold, Rails
<1>. QED
  BY <1>3, <1>4, <1>5, <1>6 DEF SerialInv

LEMMA SerialStep ==
    ASSUME Inv, NoneBegun, SerialInv, OneAtATime, OneAtATime', [Next]_vars
    PROVE  SerialInv'
<1>1. ASSUME NEW r \in Callers, Handle(r)
      PROVE  SerialInv'
  <2>1. OwnMove(r)
    BY <1>1, CallMoves, StoreMoves DEF Handle
  <2>2. \A q \in Callers \ {r} : ~InFlight(q)
    BY <2>1 DEF OwnMove, OneAtATime, InFlight
  <2>3. Solo(r)
    BY <1>1, <2>1, <2>2 DEF Solo, OneAtATime
  <2>4. StepsOf'
    BY <1>1, StepsOfMove DEF SerialInv
  <2>. QED
    BY <2>3, <2>4, UserMove, WalletMove, KycMove, ActivatedMove, NigeriaMove,
       UsaMove, PaymentsMove DEF SerialInv
<1>2. ASSUME NEW r \in Callers, Abort(r)
      PROVE  FALSE
  BY <1>2, GotoTyped DEF Abort, OneAtATime, Inv, PCs, Ends
<1>. QED
  BY <1>1, <1>2, BeginSerial, OutsideSerial DEF Next, Request

LEMMA QuietAgrees ==
    ASSUME Inv, SerialInv, Quiet
    PROVE  RowsAgree
<1>1. \A r \in Callers : /\ ~AboutToStore(r, {req[r].op.kind})
                         /\ req[r].pc \notin {"store", "profile", "ledger"}
  BY DEF Quiet, AboutToStore, Ends
<1>2. /\ row.user <=> bmoni.user = "ours"
      /\ row.wallet = bmoni.wallet /\ row.submitted = bmoni.kyc
      /\ row.activated = bmoni.activated
  <2>1. row.user <=> bmoni.user = "ours"
    BY <1>1, Rows2 DEF Inv, RowsNeverAhead, SerialInv, UserTold, AboutToStore, RowState
  <2>2. row.wallet = bmoni.wallet
    BY <1>1 DEF Inv, RowsNeverAhead, SerialInv, WalletTold, AboutToStore
  <2>3. row.submitted = bmoni.kyc
    BY <1>1 DEF Inv, RowsNeverAhead, SerialInv, KycTold, AboutToStore
  <2>4. row.activated = bmoni.activated
    BY <1>1 DEF Inv, RowsNeverAhead, SerialInv, ActivatedTold, AboutToStore
  <2>. QED
    BY <2>1, <2>2, <2>3, <2>4
<1>3. \A c \in Rails : row.rail[c] \notin {"submitted", "pending", "active"}
                          <=> bmoni.rail[c] = "not_started"
  BY <1>1 DEF Inv, RowsNeverAhead, SerialInv, NigeriaTold, UsaTold, AboutToStore, Rails
<1>4. /\ row.proposals = {r \in bmoni.proposals : req[r].op.kind \in Payments}
      /\ row.ledger = {r \in bmoni.proposals : req[r].op.kind \in Cash}
  BY <1>1, Rows2 DEF Inv, RowsNeverAhead, SerialInv, PaymentsTold, AboutToStore, Payments,
     Cash, BmoniState
<1>. QED
  BY <1>2, <1>3, <1>4 DEF RowsAgree

(* Served one at a time and without failures, PayFlex's rows report all    *)
(* that BMONI was asked for, and a phone number is refused with a conflict *)
(* only if it is registered elsewhere (the services of Accounts).          *)
THEOREM SerialMirror == Spec => SerialRequestsMirror
<1>. DEFINE Agreed == /\ Quiet => RowsAgree
                      /\ \A r \in Callers :
                            req[r].pc = "denied" /\ req[r].op.kind = "register"
                              => bmoni.user = "other"
<1>1. Inv /\ SerialInv => Agreed
  BY QuietAgrees DEF SerialInv, UserTold
<1>2. Init => SerialInv
  BY InitSerial
<1>3. Inv /\ NoneBegun /\ SerialInv /\ OneAtATime /\ OneAtATime' /\ [Next]_vars => SerialInv'
  BY SerialStep
<1>4. SerialRequestsMirror <=> ([]OneAtATime => []Agreed)
  BY DEF SerialRequestsMirror
<1>. HIDE DEF Agreed
<1>. QED
  BY <1>1, <1>2, <1>3, <1>4, Invariance, AllUntouched, PTL DEF Spec

=============================================================================
