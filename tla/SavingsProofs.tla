---------------------------- MODULE SavingsProofs ----------------------------
(***************************************************************************)
(* Proofs about Savings, for any number of goals, due checks and requests, *)
(* any period and any length of the clock.                                 *)
(*                                                                         *)
(* What matters of a due check is that the goals it has yet to mark have   *)
(* no contribution of its own (CheckInv), and of a contribute request that *)
(* its proposal exists from the step after it was asked for (PayInv).      *)
(***************************************************************************)
EXTENDS Savings, TLAPS

Row       == [status : {"none", "DUE", "PROPOSED"}, dueAt : Times, prop : Pays \union {None}]
CheckCall == [pc : CheckPC, now : Times, due : SUBSET Goals]
PayCall   == [pc : PayPC, for : Contributions \union {None}]
NextTimes == 0 .. (MaxTime + Period)

CheckInv(k) ==
    /\ check[k].pc \in {"idle", "read"} =>
          \A g \in Goals : contribution[<<k, g>>].status = "none"
    /\ \A g \in check[k].due : contribution[<<k, g>>].status = "none"

RowInv(x) == contribution[x].status = "none" => contribution[x].prop = None

PayInv(r) ==
    /\ pay[r].pc = "idle" <=> pay[r].for = None
    /\ pay[r].pc # "idle" => contribution[pay[r].for].status # "none"
    /\ pay[r].pc \in {"idle", "read", "propose"} => stage[r] = "absent"
    /\ pay[r].pc \in {"persist", "update", "done"} => stage[r] # "absent"

Inv ==
    /\ TypeOK
    /\ \A k \in Checks : CheckInv(k)
    /\ \A x \in Contributions : RowInv(x)
    /\ \A r \in Pays : PayInv(r)

LEMMA Typed ==
    ASSUME TypeOK
    PROVE  /\ stage \in [Pays -> Stages] /\ mirror \in [Pays -> Rows]
           /\ clock \in Times
           /\ next \in [Goals -> {None} \union NextTimes]
           /\ contribution \in [Contributions -> Row]
           /\ check \in [Checks -> CheckCall] /\ pay \in [Pays -> PayCall]
BY SavingsAssumption DEF TypeOK, TypeOKProposals, Row, CheckCall, PayCall, NextTimes

LEMMA TypedStep ==
    ASSUME stage' \in [Pays -> Stages], mirror' \in [Pays -> Rows], clock' \in Times,
           next' \in [Goals -> {None} \union NextTimes],
           contribution' \in [Contributions -> Row],
           check' \in [Checks -> CheckCall], pay' \in [Pays -> PayCall]
    PROVE  TypeOK'
BY SavingsAssumption DEF TypeOK, TypeOKProposals, Row, CheckCall, PayCall, NextTimes

LEMMA TimesAdd ==
    ASSUME NEW t \in Times
    PROVE  t + Period \in NextTimes /\ t + Period # None
BY SavingsAssumption DEF Times, NextTimes

LEMMA GotoTyped ==
    ASSUME TypeOK, NEW r \in Pays, NEW pc \in PayPC, Goto(r, pc)
    PROVE  /\ pay' \in [Pays -> PayCall]
           /\ \A q \in Pays \ {r} : pay'[q] = pay[q]
           /\ pay'[r].pc = pc /\ pay'[r].for = pay[r].for
BY Typed DEF Goto, PayCall

LEMMA InitInv == Init => Inv
<1>. SUFFICES ASSUME Init PROVE Inv
  OBVIOUS
<1>1. TypeOK
  BY SavingsAssumption DEF Init, InitProposals, TypeOK, TypeOKProposals, Stages, Rows,
     Times, CheckPC, PayPC
<1>2. \A k \in Checks : CheckInv(k)
  BY DEF Init, CheckInv, Contributions
<1>3. \A x \in Contributions : RowInv(x)
  BY DEF Init, RowInv
<1>4. \A r \in Pays : PayInv(r)
  BY SavingsAssumption DEF Init, InitProposals, PayInv
<1>. QED
  BY <1>1, <1>2, <1>3, <1>4 DEF Inv

(* The steps of a contribute request that leave the rows alone. *)
LEMMA PayStepInv ==
    ASSUME Inv, NEW r \in Pays, stage' \in [Pays -> Stages], mirror' \in [Pays -> Rows],
           pay' \in [Pays -> PayCall],
           UNCHANGED <<clock, next, contribution, check>>,
           \A q \in Pays \ {r} : pay'[q] = pay[q] /\ stage'[q] = stage[q],
           PayInv(r)'
    PROVE  Inv'
<1>. USE DEF Inv
<1>1. TypeOK'
  BY Typed, TypedStep
<1>2. \A q \in Pays : PayInv(q)'
  BY DEF PayInv
<1>. QED
  BY <1>1, <1>2 DEF CheckInv, RowInv

(* The steps of a due check and of the clock that leave the rows alone. *)
LEMMA CheckStepInv ==
    ASSUME Inv, clock' \in Times, check' \in [Checks -> CheckCall],
           UNCHANGED <<stage, mirror, next, contribution, pay>>,
           \A k \in Checks : CheckInv(k)'
    PROVE  Inv'
<1>. USE DEF Inv
<1>1. TypeOK'
  BY Typed, TypedStep
<1>. QED
  BY <1>1 DEF PayInv, RowInv

LEMMA TickInv ==
    ASSUME Inv, Tick
    PROVE  Inv'
<1>1. clock' \in Times
  BY Typed, SavingsAssumption DEF Tick, Inv, Times
<1>2. \A k \in Checks : CheckInv(k)'
  BY DEF Tick, Inv, CheckInv
<1>. QED
  BY <1>1, <1>2, Typed, CheckStepInv DEF Tick, Inv

LEMMA CreateGoalInv ==
    ASSUME Inv, NEW h \in Goals, CreateGoal(h)
    PROVE  Inv'
<1>. USE DEF Inv
<1>1. next' \in [Goals -> {None} \union NextTimes]
  BY Typed, TimesAdd DEF CreateGoal
<1>2. TypeOK'
  BY <1>1, Typed, TypedStep DEF CreateGoal
<1>. QED
  BY <1>2 DEF CreateGoal, CheckInv, RowInv, PayInv

LEMMA StartCheckInv ==
    ASSUME Inv, NEW k \in Checks, StartCheck(k)
    PROVE  Inv'
<1>1. check' \in [Checks -> CheckCall]
  BY Typed DEF StartCheck, Inv, CheckCall, CheckPC
<1>2. \A j \in Checks : CheckInv(j)'
  BY Typed DEF StartCheck, Inv, CheckInv, CheckCall
<1>. QED
  BY <1>1, <1>2, Typed, CheckStepInv DEF StartCheck, Inv

LEMMA ReadDueInv ==
    ASSUME Inv, NEW k \in Checks, ReadDue(k)
    PROVE  Inv'
<1>. DEFINE due == Due(check[k].now)
<1>1. PICK pc \in {"done", "write"} : check' = [check EXCEPT ![k].due = due, ![k].pc = pc]
  BY DEF ReadDue
<1>2. due \subseteq Goals
  BY DEF Due
<1>. HIDE DEF due
<1>3. check' \in [Checks -> CheckCall]
  BY <1>1, <1>2, Typed DEF Inv, CheckCall, CheckPC
<1>4. \A j \in Checks : CheckInv(j)'
  BY <1>1, <1>2, Typed DEF ReadDue, Inv, CheckInv, CheckCall
<1>. QED
  BY <1>3, <1>4, Typed, CheckStepInv DEF ReadDue, Inv

LEMMA AbortCheckInv ==
    ASSUME Inv, NEW k \in Checks, AbortCheck(k)
    PROVE  Inv'
<1>1. check' \in [Checks -> CheckCall]
  BY Typed DEF AbortCheck, Inv, CheckCall, CheckPC
<1>2. \A j \in Checks : CheckInv(j)'
  BY Typed DEF AbortCheck, Inv, CheckInv, CheckCall
<1>. QED
  BY <1>1, <1>2, Typed, CheckStepInv DEF AbortCheck, Inv

(* What WriteDue does to the rows. *)
LEMMA Written ==
    ASSUME Inv, NEW k \in Checks, NEW g \in Goals, WriteDue(k, g)
    PROVE  /\ contribution[<<k, g>>].status = "none"
           /\ contribution' \in [Contributions -> Row]
           /\ contribution'[<<k, g>>].status = "DUE"
           /\ contribution'[<<k, g>>].prop = contribution[<<k, g>>].prop
           /\ contribution'[<<k, g>>].dueAt = check[k].now
           /\ \A x \in Contributions \ {<<k, g>>} : contribution'[x] = contribution[x]
<1>1. check[k].now \in Times /\ <<k, g>> \in Contributions
  BY Typed DEF Inv, CheckCall, Contributions
<1>2. contribution' = [contribution EXCEPT ![<<k, g>>].status = "DUE",
                                           ![<<k, g>>].dueAt = check[k].now]
  BY DEF WriteDue
<1>3. contribution[<<k, g>>].status = "none"
  BY DEF WriteDue, Inv, CheckInv
<1>. QED
  BY <1>1, <1>2, <1>3, Typed DEF Inv, Row

LEMMA WriteDueInv ==
    ASSUME Inv, NEW k \in Checks, NEW g \in Goals, WriteDue(k, g)
    PROVE  Inv'
<1>. USE DEF Inv
<1>1. PICK pc \in {"done", "write"} :
         check' = [check EXCEPT ![k].due = @ \ {g}, ![k].pc = pc]
  BY DEF WriteDue
<1>2. /\ check' \in [Checks -> CheckCall]
      /\ check'[k].due = check[k].due \ {g} /\ check'[k].pc = pc
      /\ \A j \in Checks \ {k} : check'[j] = check[j]
  BY <1>1, Typed DEF CheckCall, CheckPC
<1>3. check[k].now \in Times
  BY Typed DEF CheckCall
<1>4. /\ next' \in [Goals -> {None} \union NextTimes]
      /\ next'[g] = check[k].now + Period
      /\ \A h \in Goals \ {g} : next'[h] = next[h]
  BY <1>3, Typed, TimesAdd DEF WriteDue
<1>5. TypeOK'
  BY <1>2, <1>4, Written, Typed, TypedStep DEF WriteDue
<1>6. \A j \in Checks : CheckInv(j)'
  <2>1. CheckInv(k)'
    <3>1. \A h \in check'[k].due : h # g /\ h \in Goals /\ h \in check[k].due
      BY <1>2, Typed DEF CheckCall
    <3>2. \A h \in check'[k].due : contribution'[<<k, h>>] = contribution[<<k, h>>]
      BY <3>1, Written DEF Contributions
    <3>. QED
      BY <1>2, <3>1, <3>2 DEF CheckInv
  <2>2. ASSUME NEW j \in Checks, j # k PROVE CheckInv(j)'
    <3>1. \A h \in Goals : contribution'[<<j, h>>] = contribution[<<j, h>>]
      BY <2>2, Written DEF Contributions
    <3>2. check[j].due \subseteq Goals /\ check'[j] = check[j]
      BY <1>2, <2>2, Typed DEF CheckCall
    <3>. QED
      BY <3>1, <3>2 DEF CheckInv
  <2>. QED
    BY <2>1, <2>2
<1>7. \A x \in Contributions : RowInv(x)'
  BY Written DEF RowInv
<1>8. \A r \in Pays : PayInv(r)'
  <2>1. ASSUME NEW r \in Pays, pay[r].pc # "idle"
        PROVE  contribution'[pay[r].for].status # "none"
    <3>1. pay[r].for \in Contributions
      BY <2>1, Typed DEF PayInv, PayCall
    <3>. QED
      BY <2>1, <3>1, Written DEF PayInv
  <2>. QED
    BY <2>1 DEF WriteDue, PayInv
<1>. QED
  BY <1>5, <1>6, <1>7, <1>8

LEMMA StartPayInv ==
    ASSUME Inv, NEW r \in Pays, NEW x \in Contributions, StartPay(r, x)
    PROVE  Inv'
<1>. USE DEF Inv
<1>1. /\ pay' \in [Pays -> PayCall]
      /\ \A q \in Pays \ {r} : pay'[q] = pay[q]
      /\ pay'[r].pc = "read" /\ pay'[r].for = x
  BY Typed DEF StartPay, PayCall, PayPC
<1>2. PayInv(r)'
  BY <1>1, SavingsAssumption DEF StartPay, PayInv, Contributions
<1>. QED
  BY <1>1, <1>2, Typed, PayStepInv DEF StartPay

LEMMA ReadContributionInv ==
    ASSUME Inv, NEW r \in Pays, ReadContribution(r)
    PROVE  Inv'
<1>. USE DEF Inv
<1>1. PICK pc \in {"propose", "failed"} : Goto(r, pc)
  BY DEF ReadContribution
<1>2. /\ pay' \in [Pays -> PayCall]
      /\ \A q \in Pays \ {r} : pay'[q] = pay[q]
      /\ pay'[r].pc = pc /\ pay'[r].for = pay[r].for
  BY <1>1, GotoTyped DEF PayPC
<1>3. PayInv(r)'
  BY <1>2 DEF ReadContribution, PayInv
<1>. QED
  BY <1>2, <1>3, Typed, PayStepInv DEF ReadContribution

LEMMA ProposeContributionInv ==
    ASSUME Inv, NEW r \in Pays, ProposeContribution(r)
    PROVE  Inv'
<1>. USE DEF Inv
<1>1. PICK pc \in {"persist", "failed"} : Goto(r, pc)
  BY DEF ProposeContribution
<1>2. /\ pay' \in [Pays -> PayCall]
      /\ \A q \in Pays \ {r} : pay'[q] = pay[q]
      /\ pay'[r].pc = pc /\ pay'[r].for = pay[r].for
  BY <1>1, GotoTyped DEF PayPC
<1>3. /\ stage' \in [Pays -> Stages] /\ stage'[r] = "preparing"
      /\ \A q \in Pays \ {r} : stage'[q] = stage[q]
  BY Typed DEF ProposeContribution, CreateProposal, Stages
<1>4. PayInv(r)'
  BY <1>2, <1>3 DEF ProposeContribution, PayInv
<1>. QED
  BY <1>2, <1>3, <1>4, Typed, PayStepInv DEF ProposeContribution

LEMMA PersistContributionInv ==
    ASSUME Inv, NEW r \in Pays, PersistContribution(r)
    PROVE  Inv'
<1>. USE DEF Inv
<1>1. "update" \in PayPC /\ Goto(r, "update")
  BY DEF PersistContribution, PayPC
<1>2. /\ pay' \in [Pays -> PayCall]
      /\ \A q \in Pays \ {r} : pay'[q] = pay[q]
      /\ pay'[r].pc = "update" /\ pay'[r].for = pay[r].for
  BY <1>1, GotoTyped
<1>3. PayInv(r)'
  BY <1>2 DEF PersistContribution, PayInv
<1>4. mirror' \in [Pays -> Rows]
  BY Typed DEF PersistContribution, PersistProposal, Rows
<1>. QED
  BY <1>2, <1>3, <1>4, Typed, PayStepInv DEF PersistContribution

LEMMA AbortPayInv ==
    ASSUME Inv, NEW r \in Pays, AbortPay(r)
    PROVE  Inv'
<1>. USE DEF Inv
<1>1. "failed" \in PayPC /\ Goto(r, "failed")
  BY DEF AbortPay, PayPC
<1>2. /\ pay' \in [Pays -> PayCall]
      /\ \A q \in Pays \ {r} : pay'[q] = pay[q]
      /\ pay'[r].pc = "failed" /\ pay'[r].for = pay[r].for
  BY <1>1, GotoTyped
<1>3. PayInv(r)'
  BY <1>2 DEF AbortPay, PayInv
<1>. QED
  BY <1>2, <1>3, Typed, PayStepInv DEF AbortPay

(* What WriteProposed does to the rows. *)
LEMMA Proposed ==
    ASSUME Inv, NEW r \in Pays, WriteProposed(r)
    PROVE  /\ pay[r].for \in Contributions
           /\ contribution[pay[r].for].status # "none"
           /\ contribution' \in [Contributions -> Row]
           /\ \A x \in Contributions : contribution'[x].dueAt = contribution[x].dueAt
           /\ contribution'[pay[r].for].status = "PROPOSED"
           /\ contribution'[pay[r].for].prop = r
           /\ \A x \in Contributions \ {pay[r].for} : contribution'[x] = contribution[x]
<1>1. pay[r].for \in Contributions /\ contribution[pay[r].for].status # "none"
  BY Typed DEF Inv, WriteProposed, PayInv, PayCall
<1>. QED
  BY <1>1, Typed DEF WriteProposed, Inv, Row

LEMMA WriteProposedInv ==
    ASSUME Inv, NEW r \in Pays, WriteProposed(r)
    PROVE  Inv'
<1>. USE DEF Inv
<1>1. "done" \in PayPC /\ Goto(r, "done")
  BY DEF WriteProposed, PayPC
<1>2. /\ pay' \in [Pays -> PayCall]
      /\ \A q \in Pays \ {r} : pay'[q] = pay[q]
      /\ pay'[r].pc = "done" /\ pay'[r].for = pay[r].for
  BY <1>1, GotoTyped
<1>3. TypeOK'
  BY <1>2, Proposed, Typed, TypedStep DEF WriteProposed
<1>4. \A x \in Contributions : contribution'[x].status = "none"
                                 <=> contribution[x].status = "none"
  BY Proposed
<1>5. \A k \in Checks : CheckInv(k)'
  <2>1. \A k \in Checks : check[k].due \subseteq Goals
    BY Typed DEF CheckCall
  <2>. QED
    BY <1>4, <2>1 DEF WriteProposed, CheckInv, Contributions
<1>6. \A x \in Contributions : RowInv(x)'
  BY Proposed DEF RowInv
<1>7. \A q \in Pays : PayInv(q)'
  <2>1. \A q \in Pays : pay[q].pc # "idle" => pay[q].for \in Contributions
    BY Typed DEF PayInv, PayCall
  <2>2. stage' = stage /\ pay[r].pc = "update"
    BY DEF WriteProposed
  <2>3. \A q \in Pays : PayInv(q)
    OBVIOUS
  <2>. HIDE DEF Inv
  <2>4. PayInv(r)'
    BY <1>2, <1>4, <2>1, <2>2, <2>3 DEF PayInv
  <2>5. ASSUME NEW q \in Pays \ {r} PROVE PayInv(q)'
    BY <1>2, <1>4, <2>1, <2>2, <2>3 DEF PayInv
  <2>. QED
    BY <2>4, <2>5
<1>. QED
  BY <1>3, <1>5, <1>6, <1>7

(* BMONI's own steps, the signature and the refusal of a proposal. *)
Moved(r) ==
    /\ stage[r] # "absent"
    /\ \E s \in Stages \ {"absent"} : stage' = [stage EXCEPT ![r] = s]
    /\ mirror' = mirror \/ \E report \in Rows : PersistProposal(r, report)
    /\ UNCHANGED <<clock, next, contribution, check, pay>>

LEMMA Moves ==
    ASSUME NEW r \in Pays, SignContribution(r) \/ Decline(r) \/ BmoniStep(r)
    PROVE  Moved(r)
BY DEF Moved, SignContribution, SignProposal, Decline, RejectProposal, BmoniStep,
       BmoniMoves, PreparePayload, Execute, Expire, PersistProposal, Stages, Rows

LEMMA MovedInv ==
    ASSUME Inv, NEW r \in Pays, Moved(r)
    PROVE  Inv'
<1>. USE DEF Inv
<1>1. PICK s \in Stages \ {"absent"} : stage' = [stage EXCEPT ![r] = s]
  BY DEF Moved
<1>2. /\ stage' \in [Pays -> Stages] /\ stage'[r] # "absent"
      /\ \A q \in Pays \ {r} : stage'[q] = stage[q]
  BY <1>1, Typed
<1>3. mirror' \in [Pays -> Rows]
  BY Typed DEF Moved, PersistProposal
<1>4. PayInv(r)'
  BY <1>2 DEF Moved, PayInv
<1>. QED
  BY <1>2, <1>3, <1>4, Typed, PayStepInv DEF Moved

LEMMA StepInv == Inv /\ [Next]_vars => Inv'
<1>. SUFFICES ASSUME Inv, [Next]_vars PROVE Inv'
  OBVIOUS
<1>1. ASSUME NEW k \in Checks, CheckStep(k) PROVE Inv'
  BY <1>1, StartCheckInv, ReadDueInv, AbortCheckInv, WriteDueInv DEF CheckStep
<1>2. ASSUME NEW r \in Pays, PayStep(r) PROVE Inv'
  BY <1>2, StartPayInv, ReadContributionInv, ProposeContributionInv,
     PersistContributionInv, WriteProposedInv, AbortPayInv DEF PayStep
<1>3. ASSUME NEW r \in Pays, SignContribution(r) \/ Decline(r) \/ BmoniStep(r)
      PROVE  Inv'
  BY <1>3, Moves, MovedInv
<1>4. CASE UNCHANGED vars
  BY <1>4 DEF vars, Inv, TypeOK, TypeOKProposals, CheckInv, RowInv, PayInv
<1>. QED
  BY <1>1, <1>2, <1>3, <1>4, TickInv, CreateGoalInv DEF Next

(* In every behaviour, however checks and requests interleave and die, the *)
(* rows keep their types and their relations to the handlers.              *)
THEOREM Invariance == Spec => []Inv
  BY InitInv, StepInv, PTL DEF Spec

(* Rows and handlers hold what the schema and the code let them hold.      *)
THEOREM TypeCorrect == Spec => []TypeOK
<1>1. Inv => TypeOK
  BY DEF Inv
<1>. QED
  BY <1>1, Invariance, PTL

----------------------------------------------------------------------------
(* No due goal is skipped by a check that ends. *)

(* Goal g had the contributions S when check k was still to start and g    *)
(* was due.  It has more by now; or it is due still, as check k will read  *)
(* or has read; or check k has died.                                       *)
Unskipped(k, g, S) ==
    /\ S \subseteq Made(g)
    /\ Made(g) = S =>
          /\ next[g] # None
          /\ \/ check[k].pc = "idle"  /\ next[g] <= clock
             \/ check[k].pc = "read"  /\ next[g] <= check[k].now
             \/ check[k].pc = "write" /\ g \in check[k].due
             \/ check[k].pc = "failed"

LEMMA MadeGrows ==
    ASSUME Inv, [Next]_vars, NEW g \in Goals
    PROVE  Made(g) \subseteq Made(g)'
<1>. SUFFICES ASSUME NEW k \in Checks, contribution[<<k, g>>].status # "none"
              PROVE  contribution'[<<k, g>>].status # "none"
  BY DEF Made
<1>. DEFINE x == <<k, g>>
<1>0. x \in Contributions
  BY DEF Contributions
<1>1. ASSUME NEW j \in Checks, NEW h \in Goals, WriteDue(j, h)
      PROVE  contribution'[x].status # "none"
  BY <1>0, <1>1, Written
<1>2. ASSUME NEW r \in Pays, WriteProposed(r)
      PROVE  contribution'[x].status # "none"
  BY <1>0, <1>2, Proposed
<1>. QED
  BY <1>1, <1>2 DEF Next, vars, Tick, CreateGoal, CheckStep, StartCheck, ReadDue,
     AbortCheck, PayStep, StartPay, ReadContribution, ProposeContribution,
     PersistContribution, AbortPay, SignContribution, Decline, BmoniStep, BmoniMoves,
     PreparePayload, Execute, Expire

(* A date moves only together with a contribution, once the goal is made.  *)
LEMMA DateStays ==
    ASSUME Inv, [Next]_vars, NEW g \in Goals, Made(g)' = Made(g), next[g] # None
    PROVE  next'[g] = next[g]
<1>1. ASSUME NEW j \in Checks, NEW h \in Goals, WriteDue(j, h)
      PROVE  next'[g] = next[g]
  <2>1. h # g
    BY <1>1, Written DEF Made
  <2>. QED
    BY <1>1, <2>1, Typed DEF WriteDue, Inv
<1>2. ASSUME NEW h \in Goals, CreateGoal(h)
      PROVE  next'[g] = next[g]
  BY <1>2, Typed DEF CreateGoal, Inv
<1>. QED
  BY <1>1, <1>2 DEF Next, vars, Tick, CheckStep, StartCheck, ReadDue,
     AbortCheck, PayStep, StartPay, ReadContribution, ProposeContribution,
     PersistContribution, WriteProposed, AbortPay, SignContribution, Decline, BmoniStep,
     BmoniMoves, PreparePayload, Execute, Expire

(* A step, seen from one due check and one goal. *)
LEMMA CheckGoesOn ==
    ASSUME Inv, [Next]_vars, NEW k \in Checks, NEW g \in Goals, Made(g)' = Made(g)
    PROVE  \/ StartCheck(k) \/ ReadDue(k) \/ AbortCheck(k)
           \/ /\ check[k].pc = "write" /\ g \in check[k].due
              /\ check'[k].pc = "write" /\ g \in check'[k].due
           \/ /\ check[k].pc = "write" /\ g \notin check[k].due
           \/ check'[k] = check[k]
<1>1. ASSUME NEW h \in Goals, WriteDue(k, h)
      PROVE  /\ check[k].pc = "write"
             /\ g \in check[k].due => check'[k].pc = "write" /\ g \in check'[k].due
  <2>1. h # g
    BY <1>1, Written DEF Made
  <2>. QED
    BY <1>1, <2>1, Typed DEF WriteDue, Inv, CheckCall
<1>2. ASSUME NEW j \in Checks \ {k}, CheckStep(j)
      PROVE  check'[k] = check[k]
  BY <1>2, Typed DEF CheckStep, StartCheck, ReadDue, AbortCheck, WriteDue, Inv
<1>3. ASSUME \/ UNCHANGED vars \/ Tick \/ \E h \in Goals : CreateGoal(h)
             \/ \E r \in Pays : \/ PayStep(r) \/ SignContribution(r)
                                \/ Decline(r) \/ BmoniStep(r)
      PROVE  check'[k] = check[k]
  BY <1>3 DEF vars, Tick, CreateGoal, PayStep, StartPay, ReadContribution,
     ProposeContribution, PersistContribution, WriteProposed, AbortPay, SignContribution,
     Decline, BmoniStep
<1>. QED
  BY <1>1, <1>2, <1>3 DEF Next, CheckStep

LEMMA UnskippedStep ==
    ASSUME Inv, [Next]_vars, NEW k \in Checks, NEW g \in Goals, NEW S \in SUBSET Checks,
           Unskipped(k, g, S)
    PROVE  Unskipped(k, g, S)'
<1>1. S \subseteq Made(g)'
  BY MadeGrows DEF Unskipped
<1>2. ASSUME Made(g)' = S
      PROVE  /\ next'[g] # None
             /\ \/ check'[k].pc = "idle"  /\ next'[g] <= clock'
                \/ check'[k].pc = "read"  /\ next'[g] <= check'[k].now
                \/ check'[k].pc = "write" /\ g \in check'[k].due
                \/ check'[k].pc = "failed"
  <2>1. Made(g)' = Made(g) /\ Made(g) = S
    BY <1>2, MadeGrows DEF Unskipped
  <2>2. next[g] # None /\ next'[g] = next[g]
    BY <2>1, DateStays DEF Unskipped
  <2>3. next[g] \in Nat /\ clock \in Nat /\ clock' \in Nat /\ clock <= clock'
    <3>1. next[g] \in Nat /\ clock \in Nat
      BY <2>2, Typed, SavingsAssumption DEF Inv, NextTimes, Times
    <3>2. clock' = clock \/ clock' = clock + 1
      BY DEF Next, vars, Tick, CreateGoal, CheckStep, StartCheck, ReadDue, AbortCheck,
         WriteDue, PayStep, StartPay, ReadContribution, ProposeContribution,
         PersistContribution, WriteProposed, AbortPay, SignContribution, Decline, BmoniStep
    <3>. QED
      BY <3>1, <3>2
  <2>4. CASE StartCheck(k)
    <3>1. check'[k].pc = "read" /\ check'[k].now = clock /\ check[k].pc = "idle"
      BY <2>4, Typed DEF StartCheck, Inv, CheckCall
    <3>. QED
      BY <2>1, <2>2, <3>1 DEF Unskipped
  <2>5. CASE ReadDue(k)
    <3>1. next[g] <= check[k].now
      BY <2>1, <2>5 DEF ReadDue, Unskipped
    <3>2. g \in Due(check[k].now)
      BY <2>2, <3>1 DEF Due
    <3>. DEFINE due == Due(check[k].now)
    <3>3. check' = [check EXCEPT ![k].due = due,
                                 ![k].pc = IF due = {} THEN "done" ELSE "write"]
      BY <2>5 DEF ReadDue
    <3>. HIDE DEF due
    <3>4. check'[k].pc = "write" /\ check'[k].due = due
      BY <3>2, <3>3, Typed DEF Inv, CheckCall, due
    <3>. QED
      BY <2>2, <3>2, <3>4 DEF due
  <2>6. CASE AbortCheck(k)
    <3>1. check'[k].pc = "failed"
      BY <2>6, Typed DEF AbortCheck, Inv, CheckCall
    <3>. QED
      BY <2>2, <3>1
  <2>7. CASE /\ check[k].pc = "write" /\ g \in check[k].due
             /\ check'[k].pc = "write" /\ g \in check'[k].due
    BY <2>2, <2>7
  <2>8. CASE check[k].pc = "write" /\ g \notin check[k].due
    BY <2>1, <2>8 DEF Unskipped
  <2>9. CASE check'[k] = check[k]
    BY <2>1, <2>2, <2>3, <2>9 DEF Unskipped
  <2>. QED
    BY <2>1, <2>4, <2>5, <2>6, <2>7, <2>8, <2>9, CheckGoesOn
<1>. QED
  BY <1>1, <1>2 DEF Unskipped

(* For any number of goals and of checks that overlap and die anywhere: a  *)
(* check that starts while a goal is due and ends has seen to it that the  *)
(* goal has one contribution more than before (runDueCheck).               *)
THEOREM DueMarked == Spec => DueGoalIsMarked
<1>. SUFFICES ASSUME NEW k \in Checks, NEW g \in Goals, NEW S \in SUBSET Checks
              PROVE  Spec => [](check[k].pc = "idle" /\ next[g] # None
                                   /\ next[g] <= clock /\ Made(g) = S
                                  => [](check[k].pc = "done" => Made(g) # S))
  BY DEF DueGoalIsMarked
<1>1. check[k].pc = "idle" /\ next[g] # None /\ next[g] <= clock /\ Made(g) = S
        => Unskipped(k, g, S)
  BY DEF Unskipped
<1>2. Inv /\ Unskipped(k, g, S) /\ [Next]_vars => Unskipped(k, g, S)'
  BY UnskippedStep
<1>3. Unskipped(k, g, S) => (check[k].pc = "done" => Made(g) # S)
  BY DEF Unskipped
<1>. QED
  BY <1>1, <1>2, <1>3, Invariance, PTL DEF Spec

----------------------------------------------------------------------------
(* The refinement: what each step does to the debts, to what a request has *)
(* been let through for (Accepted) and to what it has asked for (Asked).   *)

Debt == [x \in Contributions |-> [status |-> contribution[x].status,
                                   prop   |-> contribution[x].prop]]

LEMMA SameAccepted ==
    ASSUME \A q \in Pays : /\ pay'[q].pc = "propose" <=> pay[q].pc = "propose"
                           /\ pay[q].pc = "propose" => pay'[q].for = pay[q].for
    PROVE  Accepted' = Accepted
BY DEF Accepted

LEMMA SameAsked ==
    ASSUME \A q \in Pays : /\ stage'[q] = "absent" <=> stage[q] = "absent"
                           /\ stage[q] # "absent" => pay'[q].for = pay[q].for
    PROVE  Asked' = Asked
BY DEF Asked

LEMMA SameDebt ==
    ASSUME contribution' = contribution
    PROVE  Debt' = Debt
BY DEF Debt

LEMMA InitObliged == Init => Owed!Init
<1>. SUFFICES ASSUME Init PROVE Owed!Init
  OBVIOUS
<1>1. Accepted = {} /\ Asked = {}
  <2>1. \A q \in Pays : pay[q].pc = "idle" /\ stage[q] = "absent"
    BY SavingsAssumption DEF Init, InitProposals
  <2>. QED
    BY <2>1 DEF Accepted, Asked
<1>2. Debt = [x \in Contributions |-> [status |-> "none", prop |-> None]]
  BY DEF Init, Debt
<1>. QED
  BY <1>1, <1>2 DEF Owed!Init, Debt

LEMMA WriteDueRaises ==
    ASSUME Inv, NEW k \in Checks, NEW g \in Goals, WriteDue(k, g)
    PROVE  Owed!Raise({<<k, g>>})
<1>1. <<k, g>> \in Contributions
  BY DEF Contributions
<1>2. contribution[<<k, g>>].status = "none" /\ contribution[<<k, g>>].prop = None
  BY <1>1, Written DEF Inv, RowInv
<1>3. Debt' = [x \in Contributions |-> IF x \in {<<k, g>>}
                                       THEN [status |-> "DUE", prop |-> None] ELSE Debt[x]]
  BY <1>1, <1>2, Written DEF Debt
<1>4. UNCHANGED <<Accepted, Asked>>
  BY SameAccepted, SameAsked DEF WriteDue
<1>. QED
  BY <1>1, <1>2, <1>3, <1>4 DEF Owed!Raise, Debt

LEMMA ReadAccepts ==
    ASSUME Inv, NEW r \in Pays, ReadContribution(r)
    PROVE  \/ Owed!Accept(r, pay[r].for)
           \/ UNCHANGED <<Debt, Accepted, Asked>>
<1>1. /\ pay[r].pc = "read" /\ stage[r] = "absent" /\ pay[r].for \in Contributions
      /\ UNCHANGED <<contribution, stage>>
  BY Typed DEF ReadContribution, Inv, PayInv, PayCall
<1>2. CASE contribution[pay[r].for].status = "DUE"
  <2>1. "propose" \in PayPC /\ Goto(r, "propose")
    BY <1>2 DEF ReadContribution, PayPC
  <2>2. /\ \A q \in Pays \ {r} : pay'[q] = pay[q]
        /\ pay'[r].pc = "propose" /\ pay'[r].for = pay[r].for
    BY <2>1, GotoTyped DEF Inv
  <2>3. Accepted' = Accepted \union {<<r, pay[r].for>>}
    BY <1>1, <2>2 DEF Accepted
  <2>4. UNCHANGED <<Debt, Asked>>
    BY <1>1, <2>2, SameDebt, SameAsked
  <2>5. \A x \in Contributions : <<r, x>> \notin Accepted \union Asked
    BY <1>1 DEF Accepted, Asked
  <2>. QED
    BY <1>1, <1>2, <2>3, <2>4, <2>5 DEF Owed!Accept, Debt
<1>3. CASE contribution[pay[r].for].status # "DUE"
  <2>1. "failed" \in PayPC /\ Goto(r, "failed")
    BY <1>3 DEF ReadContribution, PayPC
  <2>2. /\ \A q \in Pays \ {r} : pay'[q] = pay[q]
        /\ pay'[r].pc = "failed" /\ pay'[r].for = pay[r].for
    BY <2>1, GotoTyped DEF Inv
  <2>. QED
    BY <1>1, <2>2, SameDebt, SameAccepted, SameAsked
<1>. QED
  BY <1>2, <1>3

LEMMA ProposeAsks ==
    ASSUME Inv, NEW r \in Pays, ProposeContribution(r)
    PROVE  Owed!Ask(r, pay[r].for)
<1>1. PICK pc \in {"persist", "failed"} : Goto(r, pc)
  BY DEF ProposeContribution
<1>2. /\ \A q \in Pays \ {r} : pay'[q] = pay[q]
      /\ pay'[r].pc = pc /\ pay'[r].for = pay[r].for
  BY <1>1, GotoTyped DEF PayPC, Inv
<1>3. /\ stage'[r] # "absent" /\ stage[r] = "absent" /\ pay[r].pc = "propose"
      /\ \A q \in Pays \ {r} : stage'[q] = stage[q]
  BY Typed DEF ProposeContribution, CreateProposal, Inv
<1>4. <<r, pay[r].for>> \in Accepted /\ Accepted' = Accepted \ {<<r, pay[r].for>>}
  BY <1>2, <1>3 DEF Accepted
<1>5. Asked' = Asked \union {<<r, pay[r].for>>}
  BY <1>2, <1>3 DEF Asked
<1>6. Debt' = Debt
  BY SameDebt DEF ProposeContribution
<1>. QED
  BY <1>4, <1>5, <1>6 DEF Owed!Ask, Debt

LEMMA AbortWithdraws ==
    ASSUME Inv, NEW r \in Pays, AbortPay(r)
    PROVE  Owed!Withdraw(r, pay[r].for)
<1>1. "failed" \in PayPC /\ Goto(r, "failed") /\ UNCHANGED <<stage, contribution>>
  BY DEF AbortPay, PayPC
<1>2. /\ \A q \in Pays \ {r} : pay'[q] = pay[q]
      /\ pay'[r].pc = "failed" /\ pay'[r].for = pay[r].for
  BY <1>1, GotoTyped DEF Inv
<1>3. Accepted' = Accepted \ {<<r, pay[r].for>>}
  BY <1>2 DEF Accepted
<1>4. UNCHANGED <<Debt, Asked>>
  BY <1>1, <1>2, SameDebt, SameAsked
<1>. QED
  BY <1>3, <1>4 DEF Owed!Withdraw, Debt

LEMMA WriteRecords ==
    ASSUME Inv, NEW r \in Pays, WriteProposed(r), NEW x \in Contributions, x = pay[r].for
    PROVE  Owed!Record(r, x)
<1>1. "done" \in PayPC /\ Goto(r, "done") /\ pay[r].pc = "update" /\ stage' = stage
  BY DEF WriteProposed, PayPC
<1>2. /\ \A q \in Pays \ {r} : pay'[q] = pay[q]
      /\ pay'[r].pc = "done" /\ pay'[r].for = pay[r].for
  BY <1>1, GotoTyped DEF Inv
<1>3. <<r, pay[r].for>> \in Asked
  BY <1>1 DEF Asked, Inv, PayInv
<1>4. Debt' = [Debt EXCEPT ![pay[r].for] = [status |-> "PROPOSED", prop |-> r]]
  BY Proposed DEF Debt
<1>5. UNCHANGED <<Accepted, Asked>>
  BY <1>1, <1>2, SameAccepted, SameAsked
<1>. QED
  BY <1>3, <1>4, <1>5 DEF Owed!Record, Debt

LEMMA StartStutters ==
    ASSUME Inv, NEW r \in Pays, NEW x \in Contributions, StartPay(r, x)
    PROVE  UNCHANGED <<Debt, Accepted, Asked>>
<1>1. /\ pay[r].pc = "idle" /\ stage[r] = "absent"
      /\ pay'[r].pc = "read" /\ \A q \in Pays \ {r} : pay'[q] = pay[q]
      /\ UNCHANGED <<stage, contribution>>
  BY Typed DEF StartPay, Inv, PayInv, PayCall
<1>. QED
  BY <1>1, SameDebt, SameAccepted, SameAsked

LEMMA PersistStutters ==
    ASSUME Inv, NEW r \in Pays, PersistContribution(r)
    PROVE  UNCHANGED <<Debt, Accepted, Asked>>
<1>1. /\ "update" \in PayPC /\ Goto(r, "update") /\ pay[r].pc = "persist"
      /\ UNCHANGED <<stage, contribution>>
  BY DEF PersistContribution, PayPC
<1>2. /\ \A q \in Pays \ {r} : pay'[q] = pay[q]
      /\ pay'[r].pc = "update" /\ pay'[r].for = pay[r].for
  BY <1>1, GotoTyped DEF Inv
<1>. QED
  BY <1>1, <1>2, SameDebt, SameAccepted, SameAsked

LEMMA MovedStutters ==
    ASSUME Inv, NEW r \in Pays, Moved(r)
    PROVE  UNCHANGED <<Debt, Accepted, Asked>>
<1>1. /\ \A q \in Pays : stage'[q] = "absent" <=> stage[q] = "absent"
      /\ UNCHANGED <<contribution, pay>>
  BY Typed DEF Moved, Inv
<1>. QED
  BY <1>1, SameDebt, SameAccepted, SameAsked

(* Every step raises a debt, accepts, withdraws, asks or records, or is    *)
(* none of the obligations' business.                                      *)
LEMMA StepObliged ==
    ASSUME Inv, [Next]_vars
    PROVE  Owed!Next \/ UNCHANGED <<Debt, Accepted, Asked>>
<1>1. ASSUME NEW k \in Checks, NEW g \in Goals, WriteDue(k, g)
      PROVE  Owed!Next
  <2>1. {<<k, g>>} \in SUBSET Contributions
    BY DEF Contributions
  <2>. QED
    BY <1>1, <2>1, WriteDueRaises DEF Owed!Next
<1>2. ASSUME NEW r \in Pays, PayStep(r)
      PROVE  Owed!Next \/ UNCHANGED <<Debt, Accepted, Asked>>
  <2>1. CASE \E x \in Contributions : StartPay(r, x)
    BY <2>1, StartStutters
  <2>2. CASE PersistContribution(r)
    BY <2>2, PersistStutters
  <2>3. pay[r].pc # "idle" => pay[r].for \in Contributions
    BY Typed DEF Inv, PayInv, PayCall
  <2>4. CASE ReadContribution(r)
    BY <2>3, <2>4, ReadAccepts DEF Owed!Next, ReadContribution
  <2>5. CASE ProposeContribution(r)
    BY <2>3, <2>5, ProposeAsks DEF Owed!Next, ProposeContribution
  <2>6. CASE WriteProposed(r)
    <3>1. pay[r].for \in Contributions
      BY <2>6, Proposed
    <3>2. PICK x \in Contributions : x = pay[r].for
      BY <3>1
    <3>3. Owed!Record(r, x)
      BY <2>6, <3>2, WriteRecords
    <3>. QED
      BY <3>3 DEF Owed!Next
  <2>7. CASE AbortPay(r)
    BY <2>3, <2>7, AbortWithdraws DEF Owed!Next, AbortPay
  <2>. QED
    BY <1>2, <2>1, <2>2, <2>4, <2>5, <2>6, <2>7 DEF PayStep
<1>3. ASSUME NEW r \in Pays, SignContribution(r) \/ Decline(r) \/ BmoniStep(r)
      PROVE  UNCHANGED <<Debt, Accepted, Asked>>
  BY <1>3, Moves, MovedStutters
<1>4. ASSUME \/ UNCHANGED vars \/ Tick \/ \E g \in Goals : CreateGoal(g)
             \/ \E k \in Checks : StartCheck(k) \/ ReadDue(k) \/ AbortCheck(k)
      PROVE  UNCHANGED <<Debt, Accepted, Asked>>
  <2>1. UNCHANGED <<contribution, pay, stage>>
    BY <1>4 DEF vars, Tick, CreateGoal, StartCheck, ReadDue, AbortCheck
  <2>. QED
    BY <2>1, SameDebt, SameAccepted, SameAsked
<1>. QED
  BY <1>1, <1>2, <1>3, <1>4 DEF Next, CheckStep

(* Savings implements Obligation: a contribution falls due once, is asked  *)
(* for by a request that found it DUE, and is recorded as PROPOSED only    *)
(* under a request whose proposal exists.                                  *)
THEOREM Obliged == Spec => ContributionsAreObligations
<1>1. Inv /\ [Next]_vars => [Owed!Next]_(Owed!obligationVars)
  BY StepObliged DEF Owed!obligationVars, Debt
<1>. QED
  BY <1>1, InitObliged, Invariance, PTL DEF Spec, ContributionsAreObligations, Owed!Spec

----------------------------------------------------------------------------
(* Due checks that do not overlap. *)

NoOverlap == \A j, k \in Checks : Running(j) /\ Running(k) => j = k

Marked(k, g) == contribution[<<k, g>>].status # "none"

(* The next date lies a period after every contribution so far, and a goal *)
(* a check has yet to mark is still due when its turn comes.               *)
SerialInv ==
    /\ \A g \in Goals, k \in Checks : Marked(k, g) =>
          next[g] # None /\ next[g] >= contribution[<<k, g>>].dueAt + Period
    /\ \A k \in Checks : check[k].pc = "write" =>
          \A g \in check[k].due : next[g] # None /\ next[g] <= check[k].now
    /\ Spaced

LEMMA SpacedIs ==
    Spaced <=> \A g \in Goals, j, k \in Checks :
                  Marked(j, g) /\ Marked(k, g) /\ j # k =>
                     \/ contribution[<<j, g>>].dueAt >= contribution[<<k, g>>].dueAt + Period
                     \/ contribution[<<k, g>>].dueAt >= contribution[<<j, g>>].dueAt + Period
BY DEF Spaced, Made, Marked

LEMMA InitSerial == Init => SerialInv
<1>. SUFFICES ASSUME Init PROVE SerialInv
  OBVIOUS
<1>1. \A g \in Goals, k \in Checks : ~Marked(k, g)
  BY DEF Init, Marked, Contributions
<1>2. Spaced
  BY <1>1 DEF Spaced, Made, Marked
<1>. QED
  BY <1>1, <1>2 DEF Init, SerialInv

(* Every step but WriteDue leaves the contributions' dates as they are.    *)
LEMMA SameDates ==
    ASSUME Inv, SerialInv, \A x \in Contributions :
              /\ contribution'[x].status = "none" <=> contribution[x].status = "none"
              /\ contribution'[x].dueAt = contribution[x].dueAt
    PROVE  /\ Spaced'
           /\ \A g \in Goals, k \in Checks : Marked(k, g)' <=> Marked(k, g)
<1>1. \A g \in Goals, k \in Checks :
         /\ Marked(k, g)' <=> Marked(k, g)
         /\ contribution'[<<k, g>>].dueAt = contribution[<<k, g>>].dueAt
  BY DEF Marked, Contributions
<1>2. \A g \in Goals : Made(g)' = Made(g)
  BY <1>1 DEF Made, Marked
<1>3. \A g \in Goals : \A k \in Made(g) : k \in Checks
  BY DEF Made
<1>. QED
  BY <1>1, <1>2, <1>3 DEF SerialInv, Spaced

(* Steps that touch neither dates nor checks.                              *)
LEMMA UndatedSerial ==
    ASSUME Inv, SerialInv, UNCHANGED <<next, check>>,
           \A x \in Contributions :
              /\ contribution'[x].status = "none" <=> contribution[x].status = "none"
              /\ contribution'[x].dueAt = contribution[x].dueAt
    PROVE  SerialInv'
<1>1. \A g \in Goals, k \in Checks : <<k, g>> \in Contributions
  BY DEF Contributions
<1>2. Spaced' /\ \A g \in Goals, k \in Checks : Marked(k, g)' <=> Marked(k, g)
  BY SameDates
<1>. QED
  BY <1>1, <1>2 DEF SerialInv

LEMMA CreateGoalSerial ==
    ASSUME Inv, SerialInv, NEW g \in Goals, CreateGoal(g)
    PROVE  SerialInv'
<1>1. /\ next[g] = None /\ UNCHANGED <<contribution, check>>
      /\ \A h \in Goals \ {g} : next'[h] = next[h]
  BY Typed DEF CreateGoal, Inv
<1>2. Spaced' /\ \A h \in Goals, k \in Checks : Marked(k, h)' <=> Marked(k, h)
  BY <1>1, SameDates
<1>3. \A k \in Checks : ~Marked(k, g)
  BY <1>1 DEF SerialInv
<1>4. \A k \in Checks : check[k].pc = "write" => g \notin check[k].due
  BY <1>1 DEF SerialInv
<1>5. \A k \in Checks : check[k].due \subseteq Goals
  BY Typed DEF Inv, CheckCall
<1>. QED
  BY <1>1, <1>2, <1>3, <1>4, <1>5 DEF SerialInv

(* A check starts, reads what is due, or dies.                             *)
LEMMA CheckMovesSerial ==
    ASSUME Inv, SerialInv, NEW k \in Checks, StartCheck(k) \/ ReadDue(k) \/ AbortCheck(k)
    PROVE  SerialInv'
<1>1. UNCHANGED <<next, contribution>>
  BY DEF StartCheck, ReadDue, AbortCheck
<1>2. Spaced' /\ \A g \in Goals, j \in Checks : Marked(j, g)' <=> Marked(j, g)
  BY <1>1, SameDates
<1>3. \A j \in Checks \ {k} : check'[j] = check[j]
  BY Typed DEF StartCheck, ReadDue, AbortCheck, Inv
<1>4. check'[k].pc = "write" => \A g \in check'[k].due : next[g] # None /\ next[g] <= check'[k].now
  <2>1. CASE ReadDue(k)
    <3>1. check'[k].now = check[k].now /\ check'[k].due = Due(check[k].now)
      BY <2>1, Typed DEF ReadDue, Inv, CheckCall
    <3>. QED
      BY <3>1 DEF Due
  <2>2. CASE StartCheck(k) \/ AbortCheck(k)
    BY <2>2, Typed DEF StartCheck, AbortCheck, Inv, CheckCall
  <2>. QED
    BY <2>1, <2>2
<1>. QED
  BY <1>1, <1>2, <1>3, <1>4 DEF SerialInv

(* The check that is alone marks a goal a period after every mark before.  *)
LEMMA WriteDueSerial ==
    ASSUME Inv, SerialInv, NoOverlap, NEW k \in Checks, NEW g \in Goals, WriteDue(k, g)
    PROVE  SerialInv'
<1>. DEFINE now == check[k].now
<1>1. /\ check[k].pc = "write" /\ g \in check[k].due
      /\ now \in Nat /\ Period \in Nat \ {0} /\ now + Period # None
  BY Typed, TimesAdd, SavingsAssumption DEF WriteDue, Inv, CheckCall, Times
<1>2. next[g] \in Nat /\ next[g] <= now
  BY <1>1, Typed DEF SerialInv, Inv, NextTimes
<1>3. /\ \A h \in Goals \ {g} : next'[h] = next[h]
      /\ next'[g] = now + Period
  BY Typed DEF WriteDue, Inv
<1>4. /\ \A x \in Contributions \ {<<k, g>>} : contribution'[x] = contribution[x]
      /\ contribution'[<<k, g>>].status = "DUE" /\ contribution'[<<k, g>>].dueAt = now
  BY Typed DEF WriteDue, Inv, Row, Contributions
<1>5. \A j \in Checks, h \in Goals : contribution[<<j, h>>].dueAt \in Nat
  BY Typed DEF Inv, Row, Contributions, Times
<1>6. /\ \A j \in Checks \ {k} : check'[j] = check[j] /\ check[j].pc # "write"
      /\ check'[k].now = now /\ check'[k].due = check[k].due \ {g}
      /\ check[k].due \subseteq Goals
  BY <1>1, Typed DEF WriteDue, Inv, CheckCall, NoOverlap, Running
<1>7. \A j \in Checks, h \in Goals :
         <<j, h>> # <<k, g>> => /\ contribution'[<<j, h>>] = contribution[<<j, h>>]
                                /\ Marked(j, h)' <=> Marked(j, h)
  BY <1>4 DEF Contributions, Marked
<1>8. \A j \in Checks \ {k} : Marked(j, g) => now >= contribution[<<j, g>>].dueAt + Period
  BY <1>1, <1>2, <1>5 DEF SerialInv
<1>9. ASSUME NEW h \in Goals, NEW j \in Checks, Marked(j, h)'
      PROVE  next'[h] # None /\ next'[h] >= contribution'[<<j, h>>].dueAt + Period
  <2>1. CASE h # g
    BY <1>3, <1>7, <1>9, <2>1 DEF SerialInv
  <2>2. CASE h = g /\ j = k
    BY <1>1, <1>3, <1>4, <2>2
  <2>3. CASE h = g /\ j # k
    <3>1. now >= contribution[<<j, g>>].dueAt + Period
      BY <1>7, <1>8, <1>9, <2>3
    <3>. QED
      BY <1>1, <1>3, <1>5, <1>7, <2>3, <3>1
  <2>. QED
    BY <2>1, <2>2, <2>3
<1>10. ASSUME NEW j \in Checks, check'[j].pc = "write", NEW h \in check'[j].due
       PROVE  next'[h] # None /\ next'[h] <= check'[j].now
  BY <1>1, <1>3, <1>6, <1>10 DEF SerialInv
<1>11. ASSUME NEW h \in Goals, NEW i \in Checks, NEW j \in Checks,
              Marked(i, h)', Marked(j, h)', i # j
       PROVE  \/ contribution'[<<i, h>>].dueAt >= contribution'[<<j, h>>].dueAt + Period
              \/ contribution'[<<j, h>>].dueAt >= contribution'[<<i, h>>].dueAt + Period
  <2>1. CASE h # g \/ (i # k /\ j # k)
    BY <1>7, <1>11, <2>1, SpacedIs DEF SerialInv
  <2>2. CASE h = g /\ i = k
    BY <1>4, <1>7, <1>8, <1>11, <2>2
  <2>3. CASE h = g /\ j = k
    BY <1>4, <1>7, <1>8, <1>11, <2>3
  <2>. QED
    BY <2>1, <2>2, <2>3
<1>12. Spaced'
  BY <1>11 DEF Spaced, Made, Marked
<1>. QED
  BY <1>9, <1>10, <1>12 DEF SerialInv

LEMMA SerialStep ==
    ASSUME Inv, SerialInv, NoOverlap, [Next]_vars
    PROVE  SerialInv'
<1>1. ASSUME NEW r \in Pays, WriteProposed(r)
      PROVE  SerialInv'
  <2>1. pay[r].for \in Contributions /\ contribution[pay[r].for].status # "none"
    BY <1>1, Typed DEF WriteProposed, Inv, PayInv, PayCall
  <2>2. \A x \in Contributions :
           /\ contribution'[x].status = "none" <=> contribution[x].status = "none"
           /\ contribution'[x].dueAt = contribution[x].dueAt
    BY <1>1, <2>1, Typed DEF WriteProposed, Inv, Row
  <2>. QED
    BY <1>1, <2>2, UndatedSerial DEF WriteProposed
<1>2. CASE UNCHANGED <<next, contribution, check>>
  BY <1>2, UndatedSerial
<1>3. \/ UNCHANGED <<next, contribution, check>>
      \/ \E g \in Goals : CreateGoal(g)
      \/ \E k \in Checks : CheckStep(k)
      \/ \E r \in Pays : WriteProposed(r)
  BY DEF Next, vars, Tick, PayStep, StartPay, ReadContribution, ProposeContribution,
         PersistContribution, AbortPay, SignContribution, Decline, BmoniStep
<1>. QED
  BY <1>1, <1>2, <1>3, CreateGoalSerial, CheckMovesSerial, WriteDueSerial DEF CheckStep

(* Due checks that do not overlap, though they may fail half way, never    *)
(* ask for two contributions to a goal within one period (runDueCheck).    *)
THEOREM ChecksSpace == Spec => SerialChecksSpace
<1>1. SerialInv => Spaced
  BY DEF SerialInv
<1>2. Init => SerialInv
  BY InitSerial
<1>3. Inv /\ SerialInv /\ NoOverlap /\ [Next]_vars => SerialInv'
  BY SerialStep
<1>4. SerialChecksSpace <=> ([]NoOverlap => []Spaced)
  BY DEF SerialChecksSpace, NoOverlap
<1>. QED
  BY <1>1, <1>2, <1>3, <1>4, Invariance, PTL DEF Spec

=============================================================================
