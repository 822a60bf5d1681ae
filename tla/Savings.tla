------------------------------- MODULE Savings -------------------------------
(***************************************************************************)
(* backend/src/savings/: goals, the due check and contributions.           *)
(*                                                                         *)
(* runDueCheck is started by the hourly cron and by the admin endpoint,    *)
(* and nothing keeps two of them apart.  Each takes the time, reads the    *)
(* goals that are due, and then marks them one transaction at a time.  A   *)
(* contribution is named by the check that made it and its goal, its       *)
(* proposal by the contribute request that created it.                     *)
(***************************************************************************)
EXTENDS Naturals, TransferProposals

CONSTANTS
    Goals,             \* savings goals
    Checks,            \* runs of the due check
    Pays,              \* contribute requests
    None,              \* a value that is no contribution and no request
    Period,            \* a goal's frequency, in clock ticks
    MaxTime            \* the clock stops here: a bound of the model

ASSUME SavingsAssumption ==
    /\ Proposals = Pays
    /\ None \notin Nat \union Pays \union (Checks \X Goals)
    /\ Period \in Nat \ {0}
    /\ MaxTime \in Nat

VARIABLES
    clock,             \* the server's clock
    next,              \* nextContributionAt of each goal, None before it is made
    contribution,      \* the SavingsContribution rows
    check,             \* the runDueCheck in each check
    pay                \* the contribute handler of each request

vars == <<stage, mirror, clock, next, contribution, check, pay>>

Contributions == Checks \X Goals
Times   == 0 .. MaxTime
CheckPC == {"idle", "read", "write", "done", "failed"}
PayPC   == {"idle", "read", "propose", "persist", "update", "done", "failed"}
Ended   == {"done", "failed"}

(* Rows and handlers hold what the schema and the code let them hold; no   *)
(* next date is more than a period past the last time (runDueCheck).       *)
TypeOK ==
    /\ TypeOKProposals
    /\ clock \in Times
    /\ next \in [Goals -> {None} \union 0 .. (MaxTime + Period)]
    /\ contribution \in [Contributions -> [status : {"none", "DUE", "PROPOSED"},
                                           dueAt  : Times,
                                           prop   : Pays \union {None}]]
    /\ check \in [Checks -> [pc : CheckPC, now : Times, due : SUBSET Goals]]
    /\ pay \in [Pays -> [pc : PayPC, for : Contributions \union {None}]]

Init ==
    /\ InitProposals
    /\ clock = 0
    /\ next = [g \in Goals |-> None]
    /\ contribution = [x \in Contributions |->
                         [status |-> "none", dueAt |-> 0, prop |-> None]]
    /\ check = [k \in Checks |-> [pc |-> "idle", now |-> 0, due |-> {}]]
    /\ pay = [r \in Pays |-> [pc |-> "idle", for |-> None]]

Made(g) == {k \in Checks : contribution[<<k, g>>].status # "none"}

----------------------------------------------------------------------------
(* createGoal and the due check *)

Tick ==
    /\ clock < MaxTime
    /\ clock' = clock + 1
    /\ UNCHANGED <<stage, mirror, next, contribution, check, pay>>

CreateGoal(g) ==
    /\ next[g] = None
    /\ next' = [next EXCEPT ![g] = clock + Period]
    /\ UNCHANGED <<stage, mirror, clock, contribution, check, pay>>

(* The time is taken once, before the query is sent. *)
StartCheck(k) ==
    /\ check[k].pc = "idle"
    /\ check' = [check EXCEPT ![k].pc = "read", ![k].now = clock]
    /\ UNCHANGED <<stage, mirror, clock, next, contribution, pay>>

(* Mutant: a goal is picked a tick before its time. *)
Due_Early(now) == {g \in Goals : next[g] # None /\ next[g] <= now + 1}

(* Mutant: lt for lte, a goal is not due at its date.                      *)
Due_Late(now) == {g \in Goals : next[g] # None /\ next[g] < now}

(* Every goal is ACTIVE: nothing in the code pauses or completes one. *)
Due(now) == {g \in Goals : next[g] # None /\ next[g] <= now}

ReadDue(k) ==
    /\ check[k].pc = "read"
    /\ LET due == Due(check[k].now) IN
         check' = [check EXCEPT ![k].due = due,
                                ![k].pc = IF due = {} THEN "done" ELSE "write"]
    /\ UNCHANGED <<stage, mirror, clock, next, contribution, pay>>

(* Mutant: the period is added to the date and to the time. *)
WriteDue_AddsBoth(k, g) ==
    /\ check[k].pc = "write"
    /\ g \in check[k].due
    /\ contribution' = [contribution EXCEPT ![<<k, g>>].status = "DUE",
                                            ![<<k, g>>].dueAt = check[k].now]
    /\ next' = [next EXCEPT ![g] = @ + check[k].now + Period]
    /\ check' = [check EXCEPT ![k].due = @ \ {g},
                              ![k].pc = IF check[k].due = {g} THEN "done" ELSE "write"]
    /\ UNCHANGED <<stage, mirror, clock, pay>>

(* One transaction: the contribution falls due and the goal's next date    *)
(* moves one period on from the time this check started, whatever another  *)
(* check has done to either since.                                         *)
WriteDue(k, g) ==
    /\ check[k].pc = "write"
    /\ g \in check[k].due
    /\ contribution' = [contribution EXCEPT ![<<k, g>>].status = "DUE",
                                            ![<<k, g>>].dueAt = check[k].now]
    /\ next' = [next EXCEPT ![g] = check[k].now + Period]
    /\ check' = [check EXCEPT ![k].due = @ \ {g},
                              ![k].pc = IF check[k].due = {g} THEN "done" ELSE "write"]
    /\ UNCHANGED <<stage, mirror, clock, pay>>

(* A database error or a crash leaves the goals not yet marked for later. *)
AbortCheck(k) ==
    /\ check[k].pc \in {"read", "write"}
    /\ check' = [check EXCEPT ![k].pc = "failed"]
    /\ UNCHANGED <<stage, mirror, clock, next, contribution, pay>>

----------------------------------------------------------------------------
(* contribute *)

Goto(r, pc) == pay' = [pay EXCEPT ![r].pc = pc]

StartPay(r, x) ==
    /\ pay[r].pc = "idle"
    /\ contribution[x].status # "none"
    /\ pay' = [pay EXCEPT ![r].pc = "read", ![r].for = x]
    /\ UNCHANGED <<stage, mirror, clock, next, contribution, check>>

(* Mutant: the status is not looked at. *)
ReadContribution_AnyStatus(r) ==
    /\ pay[r].pc = "read"
    /\ Goto(r, "propose")
    /\ UNCHANGED <<stage, mirror, clock, next, contribution, check>>

(* The contribution must still be DUE. *)
ReadContribution(r) ==
    /\ pay[r].pc = "read"
    /\ Goto(r, IF contribution[pay[r].for].status = "DUE" THEN "propose" ELSE "failed")
    /\ UNCHANGED <<stage, mirror, clock, next, contribution, check>>

(* createTransfer customer -> treasury, at BMONI. *)
ProposeContribution(r) ==
    /\ pay[r].pc = "propose"
    /\ CreateProposal(r)
    /\ \E then \in {"persist", "failed"} : Goto(r, then)
    /\ UNCHANGED <<mirror, clock, next, contribution, check>>

PersistContribution(r) ==
    /\ pay[r].pc = "persist"
    /\ PersistProposal(r, "created")
    /\ Goto(r, "update")
    /\ UNCHANGED <<stage, clock, next, contribution, check>>

WriteProposed(r) ==
    /\ pay[r].pc = "update"
    /\ contribution' = [contribution EXCEPT ![pay[r].for].status = "PROPOSED",
                                            ![pay[r].for].prop = r]
    /\ Goto(r, "done")
    /\ UNCHANGED <<stage, mirror, clock, next, check>>

(* Another user's contribution, no treasury wallet, a refusal, a database  *)
(* error or a crash: nothing the handler did is undone.                    *)
AbortPay(r) ==
    /\ pay[r].pc \notin {"idle"} \union Ended
    /\ Goto(r, "failed")
    /\ UNCHANGED <<stage, mirror, clock, next, contribution, check>>

(* The customer signs or declines through the transfer endpoints.         *)
SignContribution(r) ==
    /\ SignProposal(r)
    /\ PersistProposal(r, "signed") \/ UNCHANGED mirror
    /\ UNCHANGED <<clock, next, contribution, check, pay>>

Decline(r) ==
    /\ RejectProposal(r)
    /\ PersistProposal(r, "rejected") \/ UNCHANGED mirror
    /\ UNCHANGED <<clock, next, contribution, check, pay>>

BmoniStep(r) ==
    BmoniMoves(r) /\ UNCHANGED <<clock, next, contribution, check, pay>>

CheckStep(k) ==
    \/ StartCheck(k) \/ ReadDue(k) \/ AbortCheck(k)
    \/ \E g \in Goals : WriteDue(k, g)

PayStep(r) ==
    \/ \E x \in Contributions : StartPay(r, x)
    \/ ReadContribution(r) \/ ProposeContribution(r) \/ PersistContribution(r)
    \/ WriteProposed(r) \/ AbortPay(r)

Next ==
    \/ Tick
    \/ \E g \in Goals : CreateGoal(g)
    \/ \E k \in Checks : CheckStep(k)
    \/ \E r \in Pays : PayStep(r) \/ SignContribution(r) \/ Decline(r) \/ BmoniStep(r)

Spec == Init /\ [][Next]_vars

----------------------------------------------------------------------------
(* Properties *)

(* Whichever checks overlap it or failed before it, a check that starts    *)
(* while a goal is due and gets to its end leaves the goal with a           *)
(* contribution it did not have, its own or another check's: what a check   *)
(* that died has not marked is still due (runDueCheck: each goal's date     *)
(* moves with its own contribution and not before).                         *)
DueGoalIsMarked ==
    \A k \in Checks, g \in Goals : \A S \in SUBSET Checks :
        [](check[k].pc = "idle" /\ next[g] # None /\ next[g] <= clock /\ Made(g) = S
             => [](check[k].pc = "done" => Made(g) # S))

Spaced ==
    \A g \in Goals : \A j, k \in Made(g) :
        j # k => \/ contribution[<<j, g>>].dueAt >= contribution[<<k, g>>].dueAt + Period
                 \/ contribution[<<k, g>>].dueAt >= contribution[<<j, g>>].dueAt + Period

Running(k) == check[k].pc \in {"read", "write"}

(* Checks that do not overlap, though they may fail half way, never ask    *)
(* for two contributions to a goal within one period.                      *)
SerialChecksSpace == [](\A j, k \in Checks : Running(j) /\ Running(k) => j = k) => []Spaced

(* What a request has been let through for, and what it has asked for. *)
Accepted == {<<r, pay[r].for>> : r \in {q \in Pays : pay[q].pc = "propose"}}
Asked    == {<<r, pay[r].for>> : r \in {q \in Pays : stage[q] # "absent"}}

Owed == INSTANCE Obligation WITH
          Debts <- Contributions, Requests <- Pays, Open <- "DUE",
          debt <- [x \in Contributions |-> [status |-> contribution[x].status,
                                            prop   |-> contribution[x].prop]],
          accepted <- Accepted, made <- Asked

(* Contributions are obligations: each falls due once, is asked for by a   *)
(* request that found it DUE, and is PROPOSED only when its proposal       *)
(* exists, however the due checks and the requests interleave.             *)
ContributionsAreObligations == Owed!Spec

(* The due check makes a contribution only for a goal whose next date has  *)
(* passed (savings.service.ts, the comment on runDueCheck).                *)
DueWhenMarked ==
    [][\A k \in Checks, g \in Goals :
          contribution[<<k, g>>].status = "none" /\ contribution'[<<k, g>>].status = "DUE"
            => next[g] <= clock]_vars

=============================================================================
