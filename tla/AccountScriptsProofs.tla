------------------------ MODULE AccountScriptsProofs ------------------------
(***************************************************************************)
(* AccountScripts, proved for any finite set of documents, any number of   *)
(* polls and any number of requests that come in meanwhile.                *)
(*                                                                         *)
(* First the plans, as data: each asks for a step only after the steps it  *)
(* rests on, and lists all that its verdict claims.  Then what a handler's *)
(* answer tells its caller of the rows (Learnt), and from it what a script *)
(* has achieved with each step behind it (Achieved), which nothing undoes. *)
(***************************************************************************)
EXTENDS AccountScripts, AccountsProofs, FiniteSetTheorems, SequenceTheorems

n == Cardinality(Documents)

Kinds == {"register", "address", "challenge", "wallet", "submit", "readiness",
          "activate", "startNigeria", "status", "forward"}

LEMMA StepsTyped ==
    /\ \A kind \in {"register", "address", "challenge", "readiness", "startNigeria",
                    "status", "forward"} : Op(kind, None) \in Operations
    /\ \A c \in Rails : Op("wallet", c) \in Operations /\ Op("activate", c) \in Operations
    /\ \A d \in Documents : Op("submit", d) \in Operations
    /\ Forward \in Operations
BY DEF Op, Forward, Operations, UserOperations, OnboardingOperations, KycOperations,
       TransferOperations, QrPayOperations, WalletOperations, AgentOperations,
       PaymentsOperations

(* SetToSeq lists every document once. *)
LEMMA DocumentsListed ==
    /\ n \in Nat
    /\ SetToSeq(Documents) \in [1 .. n -> Documents]
    /\ \A d \in Documents : \E k \in 1 .. n : SetToSeq(Documents)[k] = d
<1>1. n \in Nat /\ ExistsBijection(1 .. n, Documents)
  BY ScriptAssumption, FS_CardinalityType DEF n
<1>2. \E f \in [1 .. n -> Documents] : IsInjective(f)
  BY <1>1 DEF ExistsBijection, Bijection, Injection
<1>. DEFINE listed == SetToSeq(Documents)
<1>3. listed \in Injection(1 .. n, Documents)
  BY <1>2 DEF SetToSeq, n, Injection
<1>. HIDE DEF listed
<1>4. Cardinality(1 .. n) = n
  BY <1>1, FS_Interval
<1>5. listed \in Surjection(1 .. n, Documents)
  BY <1>3, <1>4, FS_Injection, ScriptAssumption DEF n
<1>. QED
  BY <1>1, <1>3, <1>5 DEF Injection, Surjection, listed

LEMMA DocumentationListed ==
    /\ Documentation \in Seq(Operations)
    /\ Len(Documentation) = n
    /\ \A k \in 1 .. n : \E d \in Documents : Documentation[k] = Op("submit", d)
    /\ \A d \in Documents : \E k \in 1 .. n : Documentation[k] = Op("submit", d)
<1>1. /\ n \in Nat
      /\ \A k \in 1 .. n : SetToSeq(Documents)[k] \in Documents
      /\ \A d \in Documents : \E k \in 1 .. n : SetToSeq(Documents)[k] = d
  BY DocumentsListed
<1>2. Documentation = [k \in 1 .. n |-> Op("submit", SetToSeq(Documents)[k])]
  BY DEF Documentation, n
<1>3. Documentation \in [1 .. n -> Operations]
  BY <1>1, <1>2, StepsTyped
<1>4. Documentation \in Seq(Operations)
  BY <1>1, <1>3, SeqDef
<1>5. Len(Documentation) = n
  BY <1>1, <1>3, <1>4, LenProperties
<1>. QED
  BY <1>1, <1>2, <1>4, <1>5

(* u is the plan s followed by the plan t. *)
Joins(u, s, t) ==
    /\ u \in Seq(Operations)
    /\ Len(u) = Len(s) + Len(t)
    /\ \A i \in 1 .. Len(s) + Len(t) : u[i] = IF i <= Len(s) THEN s[i] ELSE t[i - Len(s)]

LEMMA Joined ==
    ASSUME NEW s \in Seq(Operations), NEW t \in Seq(Operations)
    PROVE  Joins(s \o t, s, t)
BY ConcatProperties, Zenon DEF Joins

(* The plan of phase 2, step by step. *)
LEMMA Phase2Steps ==
    /\ PlanPhase2 \in Seq(Operations)
    /\ n \in Nat /\ Len(PlanPhase2) = 13 + n
    /\ PlanPhase2[1] = Op("register", None) /\ PlanPhase2[2] = Op("address", None)
    /\ PlanPhase2[3] = Op("challenge", None) /\ PlanPhase2[4] = Op("wallet", "NGN")
    /\ PlanPhase2[5] = Forward /\ PlanPhase2[6] = Forward
    /\ \A i \in 7 .. 6 + n : PlanPhase2[i] = Documentation[i - 6]
    /\ PlanPhase2[7 + n] = Op("readiness", None)
    /\ PlanPhase2[8 + n] = Op("activate", "NGN")
    /\ PlanPhase2[9 + n] = Op("startNigeria", None)
    /\ PlanPhase2[10 + n] = Op("status", None)
    /\ PlanPhase2[11 + n] = Forward /\ PlanPhase2[12 + n] = Forward
    /\ PlanPhase2[13 + n] = Forward
<1>. DEFINE person == <<Op("register", None)>>
            pair   == <<Forward, Forward>>
            owner  == person \o Provision
            asked  == owner \o pair
            known  == asked \o Documentation
            rest   == <<Op("readiness", None), Op("activate", "NGN"), Op("startNigeria", None),
                        Op("status", None), Forward, Forward, Forward>>
<1>1. /\ person \in Seq(Operations) /\ Provision \in Seq(Operations)
      /\ pair \in Seq(Operations) /\ rest \in Seq(Operations)
  BY StepsTyped DEF Provision, Rails
<1>2. /\ Len(person) = 1 /\ Len(Provision) = 3 /\ Len(pair) = 2 /\ Len(rest) = 7
  BY DEF Provision
<1>. HIDE DEF person, pair, rest
<1>3. /\ owner \in Seq(Operations) /\ Len(owner) = 4
      /\ owner[1] = Op("register", None) /\ owner[2] = Op("address", None)
      /\ owner[3] = Op("challenge", None) /\ owner[4] = Op("wallet", "NGN")
  <2>1. Joins(owner, person, Provision)
    BY <1>1, Joined
  <2>. HIDE DEF owner
  <2>2. /\ owner \in Seq(Operations) /\ Len(owner) = 4
        /\ owner[1] = person[1] /\ owner[2] = Provision[1]
        /\ owner[3] = Provision[2] /\ owner[4] = Provision[3]
    BY <1>2, <2>1 DEF Joins
  <2>. QED
    BY <2>2 DEF Provision, person
<1>. HIDE DEF owner
<1>4. /\ asked \in Seq(Operations) /\ Len(asked) = 6
      /\ \A i \in 1 .. 4 : asked[i] = owner[i]
      /\ asked[5] = Forward /\ asked[6] = Forward
  <2>1. Joins(asked, owner, pair)
    BY <1>1, <1>3, Joined
  <2>. HIDE DEF asked
  <2>2. /\ asked \in Seq(Operations) /\ Len(asked) = 6
        /\ \A i \in 1 .. 4 : asked[i] = owner[i]
        /\ asked[5] = pair[1] /\ asked[6] = pair[2]
    BY <1>2, <1>3, <2>1 DEF Joins
  <2>. QED
    BY <2>2 DEF pair
<1>. HIDE DEF asked
<1>5. n \in Nat /\ Documentation \in Seq(Operations) /\ Len(Documentation) = n
  BY DocumentsListed, DocumentationListed
<1>6. /\ known \in Seq(Operations) /\ Len(known) = 6 + n
      /\ \A i \in 1 .. 6 + n : known[i] = IF i <= 6 THEN asked[i] ELSE Documentation[i - 6]
  <2>1. Joins(known, asked, Documentation)
    BY <1>4, <1>5, Joined
  <2>. HIDE DEF known
  <2>. QED
    BY <1>4, <1>5, <2>1 DEF Joins
<1>. HIDE DEF known
<1>. DEFINE plan == known \o rest
<1>7. /\ plan \in Seq(Operations) /\ Len(plan) = 13 + n
      /\ \A i \in 1 .. 13 + n :
            plan[i] = IF i <= 6 + n THEN known[i] ELSE rest[i - (6 + n)]
  <2>1. Joins(plan, known, rest)
    BY <1>1, <1>6, Joined
  <2>. HIDE DEF plan
  <2>. QED
    BY <1>2, <1>5, <1>6, <2>1 DEF Joins
<1>8. PlanPhase2 = plan
  BY DEF PlanPhase2, known, asked, owner, person, pair, rest
<1>. HIDE DEF plan
<1>9. /\ rest[1] = Op("readiness", None) /\ rest[2] = Op("activate", "NGN")
      /\ rest[3] = Op("startNigeria", None) /\ rest[4] = Op("status", None)
      /\ rest[5] = Forward /\ rest[6] = Forward /\ rest[7] = Forward
  BY DEF rest
<1>10. \A i \in 1 .. 13 + n :
          PlanPhase2[i] = IF i <= 6 THEN asked[i]
                          ELSE IF i <= 6 + n THEN Documentation[i - 6] ELSE rest[i - (6 + n)]
  BY <1>5, <1>6, <1>7, <1>8
<1>11. /\ \A i \in 1 .. 6 : PlanPhase2[i] = asked[i]
       /\ \A i \in 7 .. 6 + n : PlanPhase2[i] = Documentation[i - 6]
       /\ \A k \in 1 .. 7 : PlanPhase2[k + (6 + n)] = rest[k]
  BY <1>5, <1>10
<1>12. /\ PlanPhase2[7 + n] = rest[1] /\ PlanPhase2[8 + n] = rest[2]
       /\ PlanPhase2[9 + n] = rest[3] /\ PlanPhase2[10 + n] = rest[4]
       /\ PlanPhase2[11 + n] = rest[5] /\ PlanPhase2[12 + n] = rest[6]
       /\ PlanPhase2[13 + n] = rest[7]
  BY <1>5, <1>11
<1>. QED
  BY <1>3, <1>4, <1>5, <1>7, <1>8, <1>9, <1>11, <1>12

LEMMA MismatchSteps ==
    /\ PlanMismatch \in Seq(Operations) /\ Len(PlanMismatch) = 7
    /\ PlanMismatch[1] = Op("register", None) /\ PlanMismatch[2] = Forward
    /\ PlanMismatch[3] = Op("address", None) /\ PlanMismatch[4] = Op("challenge", None)
    /\ PlanMismatch[5] = Op("wallet", "NGN")
    /\ PlanMismatch[6] = Op("startNigeria", None) /\ PlanMismatch[7] = Op("status", None)
<1>. DEFINE person == <<Op("register", None), Forward>>
            owner  == person \o Provision
            rest   == <<Op("startNigeria", None), Op("status", None)>>
            plan   == owner \o rest
<1>1. /\ person \in Seq(Operations) /\ Provision \in Seq(Operations) /\ rest \in Seq(Operations)
      /\ Len(person) = 2 /\ Len(Provision) = 3 /\ Len(rest) = 2
  BY StepsTyped DEF Provision, Rails
<1>2. /\ person[1] = Op("register", None) /\ person[2] = Forward
      /\ Provision[1] = Op("address", None) /\ Provision[2] = Op("challenge", None)
      /\ Provision[3] = Op("wallet", "NGN")
      /\ rest[1] = Op("startNigeria", None) /\ rest[2] = Op("status", None)
  BY DEF Provision
<1>3. PlanMismatch = plan
  BY DEF PlanMismatch
<1>. HIDE DEF person, rest
<1>4. Joins(owner, person, Provision)
  BY <1>1, Joined
<1>. HIDE DEF owner
<1>5. Joins(plan, owner, rest)
  BY <1>1, <1>4, Joined DEF Joins
<1>. HIDE DEF plan
<1>6. /\ Len(owner) = 5 /\ owner[1] = person[1] /\ owner[2] = person[2]
      /\ owner[3] = Provision[1] /\ owner[4] = Provision[2] /\ owner[5] = Provision[3]
  BY <1>1, <1>4 DEF Joins
<1>7. /\ plan \in Seq(Operations) /\ Len(plan) = 7
      /\ plan[1] = owner[1] /\ plan[2] = owner[2] /\ plan[3] = owner[3]
      /\ plan[4] = owner[4] /\ plan[5] = owner[5] /\ plan[6] = rest[1] /\ plan[7] = rest[2]
  BY <1>1, <1>5, <1>6 DEF Joins
<1>. QED
  BY <1>2, <1>3, <1>6, <1>7

LEMMA TreasurySteps ==
    /\ PlanTreasury \in Seq(Operations) /\ Len(PlanTreasury) = 4
    /\ PlanTreasury[1] = Op("register", None) /\ PlanTreasury[2] = Op("address", None)
    /\ PlanTreasury[3] = Op("challenge", None) /\ PlanTreasury[4] = Op("wallet", "NGN")
<1>. DEFINE person == <<Op("register", None)>>
            plan   == person \o Provision
<1>1. /\ person \in Seq(Operations) /\ Provision \in Seq(Operations)
      /\ Len(person) = 1 /\ Len(Provision) = 3
  BY StepsTyped DEF Provision, Rails
<1>2. /\ person[1] = Op("register", None)
      /\ Provision[1] = Op("address", None) /\ Provision[2] = Op("challenge", None)
      /\ Provision[3] = Op("wallet", "NGN")
  BY DEF Provision
<1>3. PlanTreasury = plan
  BY DEF PlanTreasury
<1>. HIDE DEF person
<1>4. Joins(plan, person, Provision)
  BY <1>1, Joined
<1>. HIDE DEF plan
<1>5. /\ plan \in Seq(Operations) /\ Len(plan) = 4 /\ plan[1] = person[1]
      /\ plan[2] = Provision[1] /\ plan[3] = Provision[2] /\ plan[4] = Provision[3]
  BY <1>1, <1>4 DEF Joins
<1>. QED
  BY <1>2, <1>3, <1>5

LEMMA Phase1Steps ==
    ASSUME NEW name
    PROVE  /\ PlanPhase1(name) \in Seq(Operations) /\ Len(PlanPhase1(name)) = 7
           /\ PlanPhase1(name)[1] = Op("register", None) /\ PlanPhase1(name)[2] = Forward
           /\ PlanPhase1(name)[3] = Op("address", None) /\ PlanPhase1(name)[4] = Forward
           /\ PlanPhase1(name)[5] = Op("challenge", None)
           /\ PlanPhase1(name)[6] = Op("wallet", WalletFor(name))
           /\ PlanPhase1(name)[7] = Op("status", None)
<1>1. WalletFor(name) \in Rails
  BY DEF WalletFor, Rails
<1>. QED
  BY <1>1, StepsTyped DEF PlanPhase1

(* One of the first k steps of a plan is op. *)
Asks(name, op, k) == \E j \in 1 .. k : Plan[name][j] = op

(* What step op of a plan rests on is asked for before it, at step k + 1.  *)
RestsOn(name, op, k) ==
    /\ op.kind \in Kinds
    /\ op.kind # "register" => Asks(name, Op("register", None), k)
    /\ op.kind \in {"challenge", "wallet"} => Asks(name, Op("address", None), k)
    /\ op.kind = "startNigeria" => Asks(name, Op("wallet", "NGN"), k)

LEMMA PlansTyped ==
    ASSUME NEW name \in Scripts
    PROVE  /\ Plan[name] \in Seq(Operations)
           /\ Len(Plan[name]) \in 1 .. Len(PlanPhase2)
           /\ Len(PlanPhase2) \in Nat
           /\ \A i \in 1 .. Len(Plan[name]) : Plan[name][i] \in Operations
<1>1. /\ Plan["phase1"] = PlanPhase1("phase1")
      /\ Plan["phase1Other"] = PlanPhase1("phase1Other") /\ Plan["phase2"] = PlanPhase2
      /\ Plan["mismatch"] = PlanMismatch /\ Plan["treasury"] = PlanTreasury
  BY DEF Plan
<1>2. Plan[name] \in Seq(Operations)
  BY <1>1, Phase1Steps, Phase2Steps, MismatchSteps, TreasurySteps DEF Scripts
<1>3. /\ Len(PlanPhase2) \in Nat /\ Len(PlanPhase2) >= 13
      /\ Len(Plan[name]) \in {4, 7, Len(PlanPhase2)}
  <2>1. Len(PlanPhase2) = 13 + n /\ n \in Nat
    BY Phase2Steps
  <2>2. Len(PlanPhase1(name)) = 7 /\ Len(PlanMismatch) = 7 /\ Len(PlanTreasury) = 4
    BY Phase1Steps, MismatchSteps, TreasurySteps
  <2>. QED
    BY <1>1, <2>1, <2>2 DEF Scripts
<1>4. Len(Plan[name]) \in 1 .. Len(PlanPhase2)
  <2>1. \A most \in Nat : \A k \in {4, 7, most} : most >= 13 => k \in 1 .. most
    OBVIOUS
  <2>. QED
    BY <1>3, <2>1
<1>5. \A i \in 1 .. Len(Plan[name]) : Plan[name][i] \in Operations
  BY <1>2, ElementOfSeq
<1>. QED
  BY <1>2, <1>3, <1>4, <1>5

LEMMA PlansInOrder ==
    ASSUME NEW name \in Scripts, NEW i \in 1 .. Len(Plan[name])
    PROVE  RestsOn(name, Plan[name][i], i - 1)
<1>. USE DEF Op, Forward, Kinds, RestsOn, Asks
<1>1. CASE name \in {"phase1", "phase1Other"}
  <2>1. Plan[name] = PlanPhase1(name)
    <3>1. /\ Plan["phase1"] = PlanPhase1("phase1")
          /\ Plan["phase1Other"] = PlanPhase1("phase1Other")
      BY DEF Plan
    <3>. QED
      BY <1>1, <3>1
  <2>2. Plan[name] \in Seq(Operations) /\ Len(Plan[name]) = 7 /\ i \in 1 .. 7
    BY <2>1, Phase1Steps
  <2>. DEFINE plan == Plan[name]
  <2>4. /\ plan[1].kind = "register" /\ plan[2].kind = "forward" /\ plan[3].kind = "address"
        /\ plan[4].kind = "forward" /\ plan[5].kind = "challenge" /\ plan[6].kind = "wallet"
        /\ plan[7].kind = "status"
        /\ plan[1] = Op("register", None) /\ plan[3] = Op("address", None)
    <3>1. /\ PlanPhase1(name)[1] = Op("register", None) /\ PlanPhase1(name)[2] = Forward
          /\ PlanPhase1(name)[3] = Op("address", None) /\ PlanPhase1(name)[4] = Forward
          /\ PlanPhase1(name)[5] = Op("challenge", None)
          /\ PlanPhase1(name)[6] = Op("wallet", WalletFor(name))
          /\ PlanPhase1(name)[7] = Op("status", None)
      BY Phase1Steps, Zenon
    <3>. QED
      BY <2>1, <3>1
  <2>. HIDE DEF plan
  <2>5. CASE i \in 1 .. 3
    <3>1. plan[i].kind \in {"register", "forward", "address"} /\ (i > 1 \/ plan[i].kind = "register")
      <4>1. i = 1 \/ i = 2 \/ i = 3
        BY <2>5
      <4>. QED
        BY <2>4, <4>1
    <3>. QED
      BY <2>4, <2>5, <3>1 DEF plan
  <2>6. CASE i \in 4 .. 7
    <3>1. plan[i].kind \in {"forward", "challenge", "wallet", "status"}
      <4>1. i = 4 \/ i = 5 \/ i = 6 \/ i = 7
        BY <2>6
      <4>. QED
        BY <2>4, <4>1
    <3>2. 1 \in 1 .. i - 1 /\ 3 \in 1 .. i - 1
      BY <2>6
    <3>. QED
      BY <2>4, <3>1, <3>2 DEF plan
  <2>. QED
    BY <2>2, <2>5, <2>6
<1>2. CASE name = "treasury"
  <2>1. i \in 1 .. 4 /\ Plan[name] = PlanTreasury
    BY <1>2, TreasurySteps DEF Plan
  <2>. QED
    BY <2>1, TreasurySteps
<1>3. CASE name = "mismatch"
  <2>1. i \in 1 .. 7 /\ Plan[name] = PlanMismatch
    BY <1>3, MismatchSteps DEF Plan
  <2>. QED
    BY <2>1, MismatchSteps
<1>4. CASE name = "phase2"
  <2>1. i \in 1 .. 13 + n /\ Plan[name] = PlanPhase2 /\ n \in Nat
    BY <1>4, Phase2Steps DEF Plan
  <2>2. CASE i <= 6
    <3>1. i = 1 \/ i = 2 \/ i = 3 \/ i = 4 \/ i = 5 \/ i = 6
      BY <2>1, <2>2
    <3>2. /\ PlanPhase2[1] = Op("register", None) /\ PlanPhase2[2] = Op("address", None)
          /\ PlanPhase2[3] = Op("challenge", None) /\ PlanPhase2[4] = Op("wallet", "NGN")
          /\ PlanPhase2[5] = Forward /\ PlanPhase2[6] = Forward
      BY Phase2Steps
    <3>3. CASE i \in {1, 2, 3}
      BY <2>1, <3>2, <3>3
    <3>4. CASE i \in {4, 5, 6}
      <4>1. /\ 1 \in 1 .. i - 1 /\ 3 \in 1 .. i - 1
            /\ PlanPhase2[i].kind \in {"wallet", "forward"}
        BY <3>2, <3>4
      <4>. QED
        BY <2>1, <3>2, <4>1
    <3>. QED
      BY <3>1, <3>3, <3>4
  <2>3. CASE i > 6 /\ i <= 6 + n
    <3>1. PlanPhase2[i] = Documentation[i - 6] /\ i - 6 \in 1 .. n
      BY <2>1, <2>3, Phase2Steps
    <3>2. PlanPhase2[i].kind = "submit"
      BY <3>1, DocumentationListed
    <3>. QED
      BY <2>1, <2>3, <3>2, Phase2Steps
  <2>4. CASE i > 6 + n
    <3>1. PlanPhase2[i].kind \in {"readiness", "activate", "startNigeria", "status", "forward"}
      <4>1. \/ i = 7 + n \/ i = 8 + n \/ i = 9 + n \/ i = 10 + n
            \/ i = 11 + n \/ i = 12 + n \/ i = 13 + n
        BY <2>1, <2>4
      <4>. QED
        BY <4>1, Phase2Steps
    <3>2. 1 \in 1 .. i - 1 /\ 4 \in 1 .. i - 1
      BY <2>1, <2>4
    <3>. QED
      BY <2>1, <3>1, <3>2, Phase2Steps
  <2>. QED
    BY <2>1, <2>2, <2>3, <2>4
<1>. QED
  BY <1>1, <1>2, <1>3, <1>4 DEF Scripts

(* What a plan's verdict claims is all among its steps. *)
LEMMA PlansComplete ==
    ASSUME NEW name \in Scripts
    PROVE  LET k == Len(Plan[name])
           IN  /\ Asks(name, Op("register", None), k)
               /\ Asks(name, Op("address", None), k)
               /\ Asks(name, Op("wallet", WalletFor(name)), k)
               /\ name = "phase2" =>
                     /\ \A d \in Documents : Asks(name, Op("submit", d), k)
                     /\ Asks(name, Op("readiness", None), k)
                     /\ Asks(name, Op("status", None), k)
               /\ name \in {"phase2", "mismatch"} => Asks(name, Op("startNigeria", None), k)
<1>. USE DEF Asks, WalletFor
<1>1. CASE name \in {"phase1", "phase1Other"}
  <2>1. Plan[name] = PlanPhase1(name) /\ Len(PlanPhase1(name)) = 7
    BY <1>1, Phase1Steps DEF Plan
  <2>. QED
    BY <1>1, <2>1, Phase1Steps
<1>2. CASE name = "treasury"
  <2>1. Plan[name] = PlanTreasury /\ Len(PlanTreasury) = 4
    BY <1>2, TreasurySteps DEF Plan
  <2>. QED
    BY <1>2, <2>1, TreasurySteps
<1>3. CASE name = "mismatch"
  <2>1. Plan[name] = PlanMismatch /\ Len(PlanMismatch) = 7
    BY <1>3, MismatchSteps DEF Plan
  <2>. QED
    BY <1>3, <2>1, MismatchSteps
<1>4. CASE name = "phase2"
  <2>1. Plan[name] = PlanPhase2 /\ n \in Nat
    BY <1>4, Phase2Steps DEF Plan
  <2>2. ASSUME NEW d \in Documents
        PROVE  Asks(name, Op("submit", d), Len(PlanPhase2))
    <3>1. PICK k \in 1 .. n : Documentation[k] = Op("submit", d)
      BY DocumentationListed
    <3>2. PlanPhase2[k + 6] = Documentation[k] /\ k + 6 \in 1 .. Len(PlanPhase2)
      BY <2>1, Phase2Steps
    <3>. QED
      BY <2>1, <3>1, <3>2
  <2>3. /\ Asks(name, Op("register", None), Len(PlanPhase2))
        /\ Asks(name, Op("address", None), Len(PlanPhase2))
        /\ Asks(name, Op("wallet", "NGN"), Len(PlanPhase2))
    BY <2>1, Phase2Steps
  <2>4. /\ Asks(name, Op("readiness", None), Len(PlanPhase2))
        /\ Asks(name, Op("status", None), Len(PlanPhase2))
        /\ Asks(name, Op("startNigeria", None), Len(PlanPhase2))
    <3>1. {7 + n, 9 + n, 10 + n} \subseteq 1 .. Len(PlanPhase2)
      BY <2>1, Phase2Steps
    <3>. QED
      BY <2>1, <3>1, Phase2Steps
  <2>. QED
    BY <1>4, <2>1, <2>2, <2>3, <2>4
<1>. QED
  BY <1>1, <1>2, <1>3, <1>4 DEF Scripts
----------------------------------------------------------------------------
(* What a request that is answered has reached, whatever else overlaps.    *)
Learnt(r) ==
    /\ req[r].pc \in {"idle", "call"} => req[r].told = "not_started"
    /\ req[r].pc = "ledger" => req[r].op.kind \in Cash
    /\ req[r].pc = "done" =>
          /\ req[r].op.kind = "register" => row.user
          /\ req[r].op.kind = "address" => row.address
          /\ req[r].op.kind = "wallet" => req[r].op.arg \in row.wallet
          /\ req[r].op.kind = "submit" => req[r].op.arg \in row.submitted
          /\ req[r].op.kind = "readiness" /\ req[r].told = "ready" => row.ready
          /\ req[r].op.kind = "startNigeria" => row.rail["NGN"] = "submitted"
          /\ req[r].op.kind = "status" =>
                /\ req[r].told \in RailStages
                /\ req[r].told = "active" => bmoni.rail["NGN"] = "active"

LEMMA StaysLearnt ==
    ASSUME Kept, NEW q \in Callers, req'[q] = req[q], Learnt(q)
    PROVE  Learnt(q)'
BY DEF Kept, Learnt

(* A handler that is not done has nothing to show yet. *)
LEMMA NotYetLearnt ==
    ASSUME NEW r \in Callers, req'[r].pc \notin {"idle", "call", "ledger", "done"}
    PROVE  Learnt(r)'
BY DEF Learnt

LEMMA CallLearns ==
    ASSUME Inv, NEW r \in Callers, Learnt(r), CallBmoni(r)
    PROVE  Learnt(r)' /\ req'[r].pc # "refused"
<1>. USE DEF Calling
<1>1. TypeOK /\ bmoni.rail["NGN"] \in RailStages /\ bmoni.rail["USD"] \in RailStages
  BY DEF Inv, TypeOK, BmoniState, Rails
<1>. /\ "store" \in PCs /\ "denied" \in PCs /\ "failed" \in PCs
     /\ "profile" \in PCs /\ "store422" \in PCs /\ "done" \in PCs
  BY DEF PCs, Ends
<1>2. ASSUME \E pc \in {"store", "denied", "failed", "profile", "store422"} : Goto(r, pc)
      PROVE  Learnt(r)' /\ req'[r].pc # "refused"
  <2>1. req'[r].pc \in {"store", "denied", "failed", "profile", "store422"}
    BY <1>1, <1>2, GotoTyped
  <2>. QED
    BY <2>1, NotYetLearnt
<1>3. CASE \/ CallRegister(r) \/ CallWallet(r) \/ CallSubmit(r)
           \/ CallStartNigeria(r) \/ CallStartUsa(r) \/ CallPropose(r)
  BY <1>2, <1>3 DEF CallRegister, CallWallet, CallSubmit, CallStartNigeria, CallStartUsa,
                    CallPropose, Answered
<1>4. CASE CallReadiness(r)
  <2>1. req[r].op.kind = "readiness" /\ req[r].told = "not_started"
    BY <1>4 DEF CallReadiness, Learnt
  <2>2. CASE AnsweredWith(r, "store", "ready")
    <3>1. req'[r].pc = "store"
      BY <1>1, <2>2, AnsweredWithTyped
    <3>. QED
      BY <3>1, NotYetLearnt
  <2>3. CASE Goto(r, "done")
    <3>1. req'[r].pc = "done" /\ req'[r].op = req[r].op /\ req'[r].told = req[r].told
      BY <1>1, <2>3, GotoTyped
    <3>. QED
      BY <2>1, <3>1 DEF Learnt
  <2>. QED
    BY <1>4, <2>2, <2>3 DEF CallReadiness
<1>5. CASE CallActivate(r)
  <2>1. req[r].op.kind = "activate" /\ \E pc \in {"profile", "failed", "done"} : Goto(r, pc)
    BY <1>5 DEF CallActivate, Answered
  <2>2. req'[r].pc \in {"profile", "failed", "done"} /\ req'[r].op = req[r].op
    BY <1>1, <2>1, GotoTyped
  <2>. QED
    BY <2>1, <2>2 DEF Learnt
<1>6. CASE CallVbaStatus(r)
  <2>1. req'[r].pc = "store"
    BY <1>1, <1>6, AnsweredWithTyped DEF CallVbaStatus
  <2>. QED
    BY <2>1, NotYetLearnt
<1>7. CASE CallForward(r)
  <2>1. /\ req'[r].pc = "done" /\ req'[r].op = req[r].op
        /\ req'[r].told = bmoni.rail["NGN"] /\ bmoni' = bmoni
    BY <1>1, <1>7, AnsweredWithTyped DEF CallForward
  <2>2. req[r].op.kind \in {"status", "challenge", "deposit", "forward"}
    BY <1>7 DEF CallForward
  <2>. QED
    BY <1>1, <2>1, <2>2 DEF Learnt
<1>8. CASE CallWithdraw(r)
  <2>1. req[r].op.kind = "withdraw" /\ \E pc \in {"failed", "done"} : Goto(r, pc)
    BY <1>8 DEF CallWithdraw, Answered
  <2>2. req'[r].pc \in {"failed", "done"} /\ req'[r].op = req[r].op
    BY <1>1, <2>1, GotoTyped
  <2>. QED
    BY <2>1, <2>2 DEF Learnt
<1>. QED
  BY <1>3, <1>4, <1>5, <1>6, <1>7, <1>8 DEF CallBmoni

LEMMA StoreLearns ==
    ASSUME Inv, NEW r \in Callers, Learnt(r), StoreAnswer(r)
    PROVE  Learnt(r)' /\ req'[r].pc # "refused"
<1>. USE DEF Storing, Stored
<1>1. TypeOK /\ row \in RowState
  BY DEF Inv, TypeOK
<1>. "failed" \in PCs /\ "denied" \in PCs /\ "done" \in PCs /\ "ledger" \in PCs
  BY DEF PCs, Ends
<1>2. ASSUME Goto(r, "done")
      PROVE  req'[r].pc = "done" /\ req'[r].op = req[r].op
  BY <1>1, <1>2, GotoTyped
<1>3. CASE StoreUser(r)
  <2>1. CASE Goto(r, "failed")
    <3>1. req'[r].pc = "failed"
      BY <1>1, <2>1, GotoTyped
    <3>. QED
      BY <3>1, NotYetLearnt
  <2>2. CASE Goto(r, "done") /\ row' = [row EXCEPT !.user = TRUE]
    BY <1>1, <1>2, <1>3, <2>2 DEF StoreUser, Learnt, RowState
  <2>. QED
    BY <1>3, <2>1, <2>2 DEF StoreUser
<1>4. CASE StoreAddress(r) \/ StoreAgent(r) \/ StoreWallet(r) \/ StoreSubmitted(r) \/ StoreReady(r)
  BY <1>1, <1>2, <1>4 DEF StoreAddress, StoreAgent, StoreWallet, StoreSubmitted, StoreReady,
                          Learnt, RowState
<1>5. CASE StoreNigeria(r) \/ StoreUsa(r) \/ StoreVbaStatus(r) \/ StoreActivated(r)
  BY <1>1, <1>2, <1>5 DEF StoreNigeria, StoreUsa, StoreVbaStatus, StoreActivated,
                          Learnt, RowState, Rails
<1>6. CASE ReadProfile(r)
  <2>1. req'[r].pc = "store"
    BY <1>1, <1>6 DEF ReadProfile, TypeOK, Handler
  <2>. QED
    BY <2>1, NotYetLearnt
<1>7. CASE Store422(r)
  <2>1. req'[r].pc = "denied"
    BY <1>1, <1>7, GotoTyped DEF Store422
  <2>. QED
    BY <2>1, NotYetLearnt
<1>8. CASE StoreProposal(r)
  <2>1. /\ req[r].op.kind \in Payments
        /\ Goto(r, IF req[r].op.kind \in Cash THEN "ledger" ELSE "done")
    BY <1>8 DEF StoreProposal
  <2>2. /\ req'[r].pc = IF req[r].op.kind \in Cash THEN "ledger" ELSE "done"
        /\ req'[r].op = req[r].op
    BY <1>1, <2>1, GotoTyped
  <2>. QED
    BY <2>1, <2>2 DEF Learnt, Payments, Cash
<1>9. CASE StoreLedger(r)
  <2>1. Goto(r, "done") /\ req[r].op.kind \in Cash
    BY <1>9 DEF StoreLedger, Learnt
  <2>. QED
    BY <1>2, <2>1 DEF Learnt, Cash
<1>. QED
  BY <1>3, <1>4, <1>5, <1>6, <1>7, <1>8, <1>9 DEF StoreAnswer
AllLearnt == \A r \in Callers : Learnt(r)

LEMMA BeginLearns ==
    ASSUME Inv, NEW r \in Callers, NEW op \in Operations, Begin(r, op), Learnt(r)
    PROVE  Learnt(r)'
<1>1. req'[r].told = req[r].told /\ req[r].pc = "idle"
  BY DEF Inv, TypeOK, Handler, Begin
<1>2. CASE req'[r].pc = "done"
  BY <1>2, BeginMoves DEF HasRow, Learnt
<1>3. CASE req'[r].pc # "done"
  BY <1>1, <1>3, BeginMoves DEF Learnt
<1>. QED
  BY <1>2, <1>3

LEMMA AllLearntStep ==
    ASSUME Inv, [Next]_vars, AllLearnt
    PROVE  AllLearnt'
<1>. SUFFICES ASSUME NEW q \in Callers
              PROVE  Learnt(q)'
  BY DEF AllLearnt
<1>1. Learnt(q) /\ Kept
  BY StepKeeps DEF AllLearnt
<1>2. ASSUME NEW r \in Callers, Handle(r), OwnMove(r)
      PROVE  Learnt(q)'
  BY <1>1, <1>2, CallLearns, StoreLearns, StaysLearnt DEF Handle, OwnMove
<1>3. ASSUME NEW r \in Callers, Abort(r), OwnMove(r)
      PROVE  Learnt(q)'
  <2>1. req'[r].pc = "failed"
    BY <1>3, GotoTyped DEF Abort, Inv, PCs, Ends
  <2>. QED
    BY <1>1, <1>3, <2>1, NotYetLearnt, StaysLearnt DEF OwnMove
<1>4. ASSUME NEW r \in Callers, NEW op \in Operations, Begin(r, op)
      PROVE  Learnt(q)'
  BY <1>1, <1>4, BeginLearns, BeginMoves, StaysLearnt
<1>5. CASE req' = req
  BY <1>1, <1>5, StaysLearnt
<1>. QED
  BY <1>2, <1>3, <1>4, <1>5, Steps

----------------------------------------------------------------------------
(* What a step of a plan has left behind, once the script is past it.      *)
Achieved(op) ==
    /\ op.kind = "register" => row.user
    /\ op.kind = "address" => row.address
    /\ op.kind = "wallet" => op.arg \in row.wallet
    /\ op.kind = "submit" => op.arg \in row.submitted
    /\ op.kind = "readiness" => row.ready
    /\ op.kind = "startNigeria" => script.rejected \/ row.rail["NGN"] = "submitted"
    /\ op.kind = "status" /\ script.name = "phase2" => bmoni.rail["NGN"] = "active"

Behind == 1 .. (IF script.state = "passed" THEN script.at ELSE script.at - 1)

ScriptState ==
    [name     : Scripts,
     at       : 1 .. Len(PlanPhase2),
     polls    : 0 .. MaxPolls,
     rejected : BOOLEAN,
     saw      : {"none"} \union RailStages,
     state    : {"off", "running", "passed", "failed"}]

(* The script's own request is the step it stands at, and it never stood   *)
(* before a step that is refused.                                          *)
OnPlan ==
    Running => /\ req[Me].pc # "refused"
               /\ req[Me].pc # "idle" => req[Me].op = Wanted

ScriptInv ==
    /\ Inv /\ AllLearnt
    /\ script \in ScriptState
    /\ script.at <= Len(Plan[script.name])
    /\ script.state = "passed" => script.at = Len(Plan[script.name])
    /\ script.rejected => script.name = "mismatch"
    /\ script.saw = "active" => bmoni.rail["NGN"] = "active"
    /\ \A i \in Behind : Achieved(Plan[script.name][i])
    /\ OnPlan

LEMMA WantedTyped ==
    ASSUME ScriptInv
    PROVE  /\ script.name \in Scripts /\ script.at \in 1 .. Len(Plan[script.name])
           /\ script.at \in Nat /\ Len(Plan[script.name]) \in Nat
           /\ Wanted \in Operations
<1>1. script.name \in Scripts
  BY DEF ScriptInv, ScriptState
<1>2. Len(Plan[script.name]) \in Nat
  BY <1>1, PlansTyped, LenProperties
<1>3. script.at \in 1 .. Len(Plan[script.name]) /\ script.at \in Nat
  BY <1>1, <1>2, PlansTyped DEF ScriptInv, ScriptState
<1>. QED
  BY <1>1, <1>2, <1>3, PlansTyped DEF Wanted

(* The steps before the one the script stands at are enough for it.        *)
LEMMA WantedAllowed ==
    ASSUME ScriptInv, Running
    PROVE  Allowed(Wanted) /\ ~MayBeUnknown(Wanted) /\ Wanted.kind \in Kinds
<1>1. RestsOn(script.name, Wanted, script.at - 1)
  BY WantedTyped, PlansInOrder DEF Wanted
<1>2. ASSUME NEW op, Asks(script.name, op, script.at - 1)
      PROVE  Achieved(op)
  BY <1>2 DEF ScriptInv, Behind, Running, Asks
<1>3. Wanted.kind # "register" => row.user
  BY <1>1, <1>2 DEF RestsOn, Achieved, Op
<1>4. Wanted.kind \in {"challenge", "wallet"} => row.address
  BY <1>1, <1>2 DEF RestsOn, Achieved, Op
<1>5. Wanted.kind = "startNigeria" => "NGN" \in row.wallet
  BY <1>1, <1>2 DEF RestsOn, Achieved, Op
<1>6. Wanted.kind \in Kinds
  BY <1>1 DEF RestsOn
<1>. QED
  BY <1>3, <1>4, <1>5, <1>6
     DEF Allowed, UserKnown, AddressKnown, WalletOnFile, IsAgent, CodeVerified, MayBeUnknown,
         Kinds, Payments, Cash

LEMMA StaysAchieved ==
    ASSUME Kept, NEW op, Achieved(op), script'.name = script.name,
           script.rejected => script'.rejected
    PROVE  Achieved(op)'
BY DEF Kept, Achieved

(* Steps that leave the script where it is.                                *)
LEMMA ScriptStays ==
    ASSUME ScriptInv, Inv', AllLearnt', Kept, script' = script, OnPlan'
    PROVE  ScriptInv'
<1>1. \A i \in Behind : Achieved(Plan[script.name][i])'
  BY StaysAchieved DEF ScriptInv
<1>2. Behind' = Behind
  BY DEF Behind
<1>3. script.saw = "active" => bmoni'.rail["NGN"] = "active"
  BY DEF ScriptInv, Kept
<1>. QED
  BY <1>1, <1>2, <1>3 DEF ScriptInv, Achieved

LEMMA ServiceStepInv ==
    ASSUME ScriptInv, [Next]_vars, script' = script, OnPlan'
    PROVE  ScriptInv'
<1>1. Inv' /\ AllLearnt' /\ Kept
  BY StepInv, AllLearntStep, StepKeeps DEF ScriptInv
<1>. QED
  BY <1>1, ScriptStays

LEMMA ScriptCallInv ==
    ASSUME ScriptInv, ScriptCall
    PROVE  ScriptInv'
<1>1. /\ Running /\ Begin(Me, Wanted) /\ script' = script
      /\ Wanted \in Operations /\ Me \in Callers /\ Inv
  BY WantedTyped, ScriptAssumption DEF ScriptCall, ScriptInv
<1>2. [Next]_vars
  BY <1>1 DEF Next, Request
<1>3. req'[Me].op = Wanted
  BY <1>1, BeginMoves
<1>4. req'[Me].pc # "refused"
  <2>1. PICK pc \in {"done", "refused", "store", "call"} :
           /\ pc = "refused" => ~HasRow(Wanted) /\ (MayBeUnknown(Wanted) \/ ~Allowed(Wanted))
           /\ req' = [req EXCEPT ![Me].op = Wanted, ![Me].pc = pc]
    BY <1>1 DEF Begin
  <2>2. pc # "refused"
    BY <1>1, <2>1, WantedAllowed
  <2>. QED
    BY <1>1, <2>1, <2>2 DEF Inv, TypeOK, Handler
<1>5. OnPlan'
  BY <1>1, <1>3, <1>4 DEF OnPlan, Wanted
<1>. QED
  BY <1>1, <1>2, <1>5, ServiceStepInv

LEMMA ServedInv ==
    ASSUME ScriptInv, Served
    PROVE  ScriptInv'
<1>1. /\ Running /\ (Handle(Me) \/ Abort(Me)) /\ script' = script
      /\ Me \in Callers /\ Inv /\ Learnt(Me)
  BY ScriptAssumption DEF Served, ScriptInv, AllLearnt
<1>2. [Next]_vars
  BY <1>1 DEF Next, Request
<1>3. OwnMove(Me)
  BY <1>1, CallMoves, StoreMoves, AbortMoves DEF Handle
<1>4. req'[Me].pc # "refused"
  <2>1. CASE Handle(Me)
    BY <1>1, <2>1, CallLearns, StoreLearns DEF Handle
  <2>2. CASE Abort(Me)
    BY <1>1, <2>2, GotoTyped DEF Abort, Inv, PCs, Ends
  <2>. QED
    BY <1>1, <2>1, <2>2
<1>5. OnPlan'
  <2>1. req'[Me].op = Wanted
    BY <1>1, <1>3 DEF OnPlan, OwnMove, ScriptInv
  <2>. QED
    BY <1>1, <1>4, <2>1 DEF OnPlan, Wanted
<1>. QED
  BY <1>1, <1>2, <1>5, ServiceStepInv

LEMMA OthersInv ==
    ASSUME ScriptInv, script' = script,
           BmoniStep \/ CodeStep \/ (\E r \in Clients : Request(r)) \/ UNCHANGED vars
    PROVE  ScriptInv'
<1>1. [Next]_vars /\ Inv
  BY DEF Next, Clients, ScriptInv
<1>2. Running => req'[Me] = req[Me]
  <2>1. CASE BmoniStep \/ CodeStep \/ UNCHANGED vars
    BY <2>1 DEF BmoniStep, TakenElsewhere, Review, OpenRail, Sign, CodeStep, vars
  <2>2. ASSUME Running, NEW r \in Clients, Request(r)
        PROVE  req'[Me] = req[Me]
    <3>1. r \in Callers /\ Me \in Callers \ {r}
      BY <2>2, ScriptAssumption DEF Clients, Scripted, Running
    <3>2. CASE Handle(r) \/ Abort(r)
      BY <1>1, <3>1, <3>2, CallMoves, StoreMoves, AbortMoves DEF Handle, OwnMove
    <3>3. CASE \E op \in Operations : Begin(r, op)
      BY <1>1, <3>1, <3>3, BeginMoves
    <3>. QED
      BY <2>2, <3>2, <3>3 DEF Request
  <2>. QED
    BY <2>1, <2>2
<1>3. OnPlan'
  BY <1>2 DEF OnPlan, Running, Wanted, ScriptInv
<1>. QED
  BY <1>1, <1>3, ServiceStepInv
(* A script that is done with a request forgets it. *)
LEMMA ResetInv ==
    ASSUME ScriptInv, NEW s, Reset(s)
    PROVE  /\ Inv' /\ AllLearnt' /\ script' = s
           /\ UNCHANGED <<bmoni, row, code>> /\ req'[Me].pc = "idle"
<1>. USE ScriptAssumption
<1>1. /\ req' = [req EXCEPT ![Me] = Unasked[Me]] /\ script' = s
      /\ UNCHANGED <<bmoni, row, code>> /\ Me \in Callers /\ Inv /\ AllLearnt
  BY DEF Reset, ScriptInv
<1>2. /\ Unasked[Me] \in Handler /\ Unasked[Me].pc = "idle"
      /\ Unasked[Me].told = "not_started"
  <2>1. Op("forward", None) \in Operations
    BY StepsTyped
  <2>. QED
    BY <2>1 DEF Unasked, Handler, PCs, RailStages
<1>3. /\ req' \in [Callers -> Handler] /\ req'[Me] = Unasked[Me]
      /\ \A q \in Callers \ {Me} : req'[q] = req[q]
  BY <1>1, <1>2 DEF Inv, TypeOK
<1>4. TypeOKNext /\ Remembers
  BY <1>1, <1>3 DEF Inv, TypeOK, TypeOKNext, Remembers
<1>5. Knows(Me)' /\ RowsNeverAhead'
  BY <1>1, <1>2, <1>3, <1>4, EndedKnows, RowsStayBehind
<1>6. Inv'
  BY <1>1, <1>3, <1>4, <1>5, HandlerStep
<1>7. Kept
  BY <1>1 DEF Kept
<1>8. Learnt(Me)'
  BY <1>2, <1>3 DEF Learnt
<1>9. AllLearnt'
  BY <1>1, <1>3, <1>7, <1>8, StaysLearnt DEF AllLearnt
<1>. QED
  BY <1>1, <1>2, <1>3, <1>6, <1>9

(* The script that goes on, or passes: the step it stood at is behind it.  *)
LEMMA MoveInv ==
    ASSUME ScriptInv, Running, NEW s \in ScriptState,
           s.name = script.name, s.at = script.at, s.state = "running",
           script.rejected => s.rejected, s.rejected => s.name = "mismatch",
           s.saw = "active" => bmoni.rail["NGN"] = "active",
           Reset(Move(s)),
           NEW op, op = Wanted, Achieved(op)'
    PROVE  ScriptInv'
<1>1. /\ Inv' /\ AllLearnt' /\ script' = Move(s)
      /\ UNCHANGED <<bmoni, row, code>> /\ req'[Me].pc = "idle"
  BY ResetInv
<1>2. /\ script.name \in Scripts /\ script.at \in 1 .. Len(Plan[script.name])
      /\ script.at \in Nat /\ Len(Plan[script.name]) \in Nat
      /\ Len(Plan[script.name]) <= Len(PlanPhase2) /\ Len(PlanPhase2) \in Nat
  BY WantedTyped, PlansTyped
<1>3. /\ script' \in ScriptState /\ script'.name = script.name
      /\ script'.rejected = s.rejected /\ script'.saw = s.saw
      /\ script'.at <= Len(Plan[script.name])
      /\ script'.state = "passed" => script'.at = Len(Plan[script.name])
      /\ Behind' = 1 .. script.at
  <2>1. CASE script.at = Len(Plan[script.name])
    <3>1. script' = [s EXCEPT !.state = "passed"]
      BY <1>1, <2>1 DEF Move
    <3>2. /\ script' \in ScriptState /\ script'.name = script.name
          /\ script'.rejected = s.rejected /\ script'.saw = s.saw
          /\ script'.at = script.at /\ script'.state = "passed"
      BY <3>1 DEF ScriptState
    <3>. QED
      BY <1>2, <2>1, <3>2 DEF Behind
  <2>2. CASE script.at # Len(Plan[script.name])
    <3>1. script' = [s EXCEPT !.at = s.at + 1]
      BY <1>1, <2>2 DEF Move
    <3>2. script.at + 1 \in 1 .. Len(PlanPhase2) /\ script.at + 1 <= Len(Plan[script.name])
      BY <1>2, <2>2
    <3>3. /\ script' \in ScriptState /\ script'.name = script.name
          /\ script'.rejected = s.rejected /\ script'.saw = s.saw
          /\ script'.at = script.at + 1 /\ script'.state = "running"
      BY <3>1, <3>2 DEF ScriptState
    <3>. QED
      BY <1>2, <3>2, <3>3 DEF Behind
  <2>. QED
    BY <2>1, <2>2
<1>4. Kept
  BY <1>1 DEF Kept
<1>5. ASSUME NEW i \in Behind'
      PROVE  Achieved(Plan[script.name][i])'
  <2>1. CASE i = script.at
    <3>1. Plan[script.name][i] = op /\ Plan[script'.name][i] = op
      BY <1>3, <2>1 DEF Wanted
    <3>. QED
      BY <3>1
  <2>2. CASE i # script.at
    <3>1. i \in Behind
      <4>1. i \in 1 .. script.at - 1 /\ script.state # "passed"
        BY <1>2, <1>3, <2>2 DEF Running
      <4>. QED
        BY <4>1 DEF Behind
    <3>2. Achieved(Plan[script.name][i])
      BY <3>1 DEF ScriptInv
    <3>. QED
      BY <1>3, <1>4, <3>2, StaysAchieved
  <2>. QED
    BY <2>1, <2>2
<1>6. OnPlan'
  BY <1>1 DEF OnPlan
<1>. QED
  BY <1>1, <1>3, <1>5, <1>6 DEF ScriptInv

LEMMA StopInv ==
    ASSUME ScriptInv, Running, Stop("failed")
    PROVE  ScriptInv'
<1>1. script' = [script EXCEPT !.state = "failed"] /\ UNCHANGED vars /\ script \in ScriptState
  BY DEF Stop, ScriptInv
<1>2. /\ script' \in ScriptState /\ script'.state = "failed"
      /\ script'.name = script.name /\ script'.at = script.at
      /\ script'.rejected = script.rejected /\ script'.saw = script.saw
  BY <1>1 DEF ScriptState
<1>3. UNCHANGED <<bmoni, row, req, code>> /\ [Next]_vars
  BY <1>1 DEF vars
<1>4. Inv' /\ AllLearnt' /\ Kept
  BY <1>3, StepInv, AllLearntStep, StepKeeps DEF ScriptInv
<1>5. Behind' = Behind
  BY <1>2 DEF Behind, Running
<1>6. \A i \in Behind : Achieved(Plan[script.name][i])'
  BY <1>2, <1>4, StaysAchieved DEF ScriptInv
<1>. QED
  BY <1>2, <1>3, <1>4, <1>5, <1>6 DEF ScriptInv, OnPlan, Running

(* What the answer to a status request shows the script is true of BMONI.  *)
LEMMA SawTyped ==
    ASSUME ScriptInv, Running, req[Me].pc = "done"
    PROVE  /\ Saw \in ScriptState
           /\ Saw.name = script.name /\ Saw.at = script.at /\ Saw.state = "running"
           /\ Saw.rejected = script.rejected /\ Saw.polls = script.polls
           /\ Saw.saw = "active" => bmoni.rail["NGN"] = "active"
<1>1. script \in ScriptState /\ Learnt(Me) /\ req[Me].op = Wanted
  BY ScriptAssumption DEF ScriptInv, AllLearnt, OnPlan
<1>2. CASE Wanted.kind = "status"
  <2>1. req[Me].told \in RailStages /\ (req[Me].told = "active" => bmoni.rail["NGN"] = "active")
    BY <1>1, <1>2 DEF Learnt
  <2>2. Saw = [script EXCEPT !.saw = req[Me].told]
    BY <1>2 DEF Saw
  <2>. QED
    BY <1>1, <2>1, <2>2 DEF ScriptState, Running
<1>3. CASE Wanted.kind # "status"
  BY <1>1, <1>3 DEF Saw, Running, ScriptInv
<1>. QED
  BY <1>2, <1>3

LEMMA ScriptReturnInv ==
    ASSUME ScriptInv, ScriptReturn
    PROVE  ScriptInv'
<1>1. /\ Running /\ req[Me].pc = "done" /\ script \in ScriptState
      /\ Learnt(Me) /\ req[Me].op = Wanted /\ MaxPolls \in Nat
  BY ScriptAssumption DEF ScriptReturn, ScriptInv, AllLearnt, OnPlan
<1>2. /\ Saw \in ScriptState
      /\ Saw.name = script.name /\ Saw.at = script.at /\ Saw.state = "running"
      /\ Saw.rejected = script.rejected /\ Saw.polls = script.polls
      /\ Saw.saw = "active" => bmoni.rail["NGN"] = "active"
  BY <1>1, SawTyped
<1>3. CASE PollAgain
  <2>. DEFINE again == [Saw EXCEPT !.polls = Saw.polls + 1]
  <2>1. script.polls < MaxPolls /\ Reset(again)
    BY <1>3 DEF PollAgain
  <2>2. /\ again \in ScriptState
        /\ again.name = script.name /\ again.at = script.at /\ again.state = "running"
        /\ again.rejected = script.rejected
        /\ again.saw = "active" => bmoni.rail["NGN"] = "active"
    <3>1. script.polls + 1 \in 0 .. MaxPolls
      BY <1>1, <2>1 DEF ScriptState
    <3>. QED
      BY <1>2, <3>1 DEF ScriptState
  <2>. HIDE DEF again
  <2>3. /\ Inv' /\ AllLearnt' /\ script' = again
        /\ UNCHANGED <<bmoni, row, code>> /\ req'[Me].pc = "idle"
    BY <2>1, ResetInv
  <2>4. Kept /\ OnPlan'
    BY <2>3 DEF Kept, OnPlan
  <2>5. Behind' = Behind
    BY <1>1, <2>2, <2>3 DEF Behind, Running
  <2>6. \A i \in Behind : Achieved(Plan[script.name][i])'
    BY <2>2, <2>3, <2>4, StaysAchieved DEF ScriptInv
  <2>. QED
    BY <2>2, <2>3, <2>4, <2>5, <2>6 DEF ScriptInv
<1>4. CASE Unexpected /\ Stop("failed")
  BY <1>1, <1>4, StopInv
<1>5. CASE ~Unexpected /\ Reset(Move(Saw))
  <2>1. script'.name = script.name /\ script'.rejected = script.rejected
        /\ UNCHANGED <<bmoni, row>>
    BY <1>2, <1>5, ResetInv DEF Move, ScriptState
  <2>2. Wanted.kind = "readiness" => row.ready
    BY <1>1, <1>5 DEF Unexpected, Learnt
  <2>3. Wanted.kind = "status" /\ script.name = "phase2" => bmoni.rail["NGN"] = "active"
    BY <1>1, <1>5 DEF Unexpected, Unsettled, Learnt
  <2>4. Achieved(Wanted)
    BY <1>1, <2>2, <2>3 DEF Achieved, Learnt
  <2>5. ASSUME NEW op, op = Wanted
        PROVE  Achieved(op)'
    BY <2>1, <2>4, <2>5 DEF Achieved
  <2>6. script.rejected => script.name = "mismatch"
    BY DEF ScriptInv
  <2>. QED
    BY <1>1, <1>2, <1>5, <2>5, <2>6, MoveInv
<1>. QED
  BY <1>3, <1>4, <1>5 DEF ScriptReturn
LEMMA ScriptThrowsInv ==
    ASSUME ScriptInv, ScriptThrows
    PROVE  ScriptInv'
<1>1. Running /\ script \in ScriptState
  BY DEF ScriptThrows, ScriptInv
<1>2. CASE script.name = "mismatch" /\ Wanted.kind = "startNigeria"
  <2>. DEFINE warned == [script EXCEPT !.rejected = TRUE]
  <2>1. Reset(Move(warned))
    BY <1>2 DEF ScriptThrows
  <2>2. /\ warned \in ScriptState /\ warned.rejected
        /\ warned.name = script.name /\ warned.at = script.at /\ warned.state = "running"
        /\ warned.saw = script.saw
    BY <1>1 DEF ScriptState, Running
  <2>3. Move(warned).rejected
    BY <2>2 DEF Move, ScriptState
  <2>. HIDE DEF warned
  <2>4. script'.rejected
    BY <2>1, <2>3, ResetInv
  <2>5. ASSUME NEW op, op = Wanted
        PROVE  Achieved(op)'
    BY <1>2, <2>4, <2>5 DEF Achieved
  <2>6. script.saw = "active" => bmoni.rail["NGN"] = "active"
    BY DEF ScriptInv
  <2>. QED
    BY <1>1, <1>2, <2>1, <2>2, <2>5, <2>6, MoveInv
<1>3. CASE Stop("failed")
  BY <1>1, <1>3, StopInv
<1>. QED
  BY <1>2, <1>3 DEF ScriptThrows

LEMMA InitScript == ScriptInit => ScriptInv
<1>. SUFFICES ASSUME ScriptInit PROVE ScriptInv
  OBVIOUS
<1>1. PICK name \in Scripts, state \in {"running", "off"} :
         /\ IF state = "running" THEN InitNew ELSE Init /\ name = "treasury"
         /\ script = [name |-> name, at |-> 1, polls |-> 0, rejected |-> FALSE,
                      saw |-> "none", state |-> state]
  BY DEF ScriptInit
<1>2. Init
  BY <1>1 DEF Init
<1>3. req = Unasked
  BY <1>2 DEF Init, InitNew, InitProvisioned
<1>4. AllLearnt
  BY <1>3 DEF AllLearnt, Learnt, Unasked
<1>5. script \in ScriptState /\ script.at <= Len(Plan[script.name])
  <2>1. /\ Len(Plan[name]) \in 1 .. Len(PlanPhase2) /\ Len(PlanPhase2) \in Nat
        /\ MaxPolls \in Nat
    BY PlansTyped, ScriptAssumption
  <2>2. 1 \in 1 .. Len(PlanPhase2) /\ 0 \in 0 .. MaxPolls /\ 1 <= Len(Plan[name])
    BY <2>1
  <2>. QED
    BY <1>1, <2>2 DEF ScriptState
<1>6. \A i \in Behind : Achieved(Plan[script.name][i])
  BY <1>1 DEF Behind
<1>7. OnPlan
  BY <1>3, ScriptAssumption DEF OnPlan, Unasked
<1>. QED
  BY <1>1, <1>2, <1>4, <1>5, <1>6, <1>7, InitInv DEF ScriptInv

LEMMA ScriptStepInv == ScriptInv /\ [ScriptNext]_allVars => ScriptInv'
<1>. SUFFICES ASSUME ScriptInv, [ScriptNext]_allVars PROVE ScriptInv'
  OBVIOUS
<1>1. CASE ScriptStep
  BY <1>1, ScriptCallInv, ScriptReturnInv, ScriptThrowsInv DEF ScriptStep
<1>2. CASE Served
  BY <1>2, ServedInv
<1>3. CASE /\ script' = script
           /\ BmoniStep \/ CodeStep \/ (\E r \in Clients : Request(r)) \/ UNCHANGED vars
  BY <1>3, OthersInv
<1>. QED
  BY <1>1, <1>2, <1>3 DEF ScriptNext, allVars

(* However requests overlap with a script and wherever they fail, the rows *)
(* stay true, and every step behind the script stays achieved.             *)
THEOREM ScriptInvariance == ScriptSpec => []ScriptInv
  BY InitScript, ScriptStepInv, PTL DEF ScriptSpec

(* Scripts are where their code lets them be, over well-typed Accounts.    *)
THEOREM ScriptTypeCorrect == ScriptSpec => []ScriptTypeOK
<1>1. ScriptInv => ScriptTypeOK
  BY DEF ScriptInv, ScriptState, ScriptTypeOK, Inv
<1>. QED
  BY <1>1, ScriptInvariance, PTL

(* Under a script too, which uses one caller for request after request,    *)
(* PayFlex never claims what BMONI does not have.                          *)
THEOREM ScriptRowsNeverAhead == ScriptSpec => []RowsNeverAhead
<1>1. ScriptInv => RowsNeverAhead
  BY DEF ScriptInv, Inv
<1>. QED
  BY <1>1, ScriptInvariance, PTL

(* No handler refuses a script's request: each step of each plan rests     *)
(* only on steps before it, whose rows nothing deletes.                    *)
THEOREM NeverRefused == ScriptSpec => []ScriptNeverRefused
<1>1. ScriptInv => ScriptNeverRefused
  BY DEF ScriptInv, OnPlan, ScriptNeverRefused
<1>. QED
  BY <1>1, ScriptInvariance, PTL

(* A script that passes leaves a person that can be used: for any finite   *)
(* set of documents and any number of polls, whatever happens meanwhile.   *)
THEOREM VerifiedProvisioned == ScriptSpec => []VerifiedMeansProvisioned
<1>1. ASSUME ScriptInv, script.state = "passed"
      PROVE  /\ row.user /\ row.address /\ WalletFor(script.name) \in row.wallet
             /\ script.name = "phase2" =>
                   row.submitted = Documents /\ row.ready /\ bmoni.rail["NGN"] = "active"
             /\ script.name \in {"phase2", "mismatch"} /\ ~script.rejected =>
                   row.rail["NGN"] = "submitted"
             /\ script.saw = "active" => bmoni.rail["NGN"] = "active"
  <2>1. script.name \in Scripts /\ script.at = Len(Plan[script.name])
    BY <1>1 DEF ScriptInv, ScriptState
  <2>2. ASSUME NEW op, Asks(script.name, op, Len(Plan[script.name]))
        PROVE  Achieved(op)
    BY <1>1, <2>1, <2>2 DEF ScriptInv, Behind, Asks
  <2>3. row.user /\ row.address /\ WalletFor(script.name) \in row.wallet
    <3>1. /\ Achieved(Op("register", None)) /\ Achieved(Op("address", None))
          /\ Achieved(Op("wallet", WalletFor(script.name)))
      BY <2>1, <2>2, PlansComplete
    <3>. QED
      BY <3>1 DEF Achieved, Op
  <2>4. ASSUME script.name = "phase2"
        PROVE  row.submitted = Documents /\ row.ready /\ bmoni.rail["NGN"] = "active"
    <3>1. /\ \A d \in Documents : Achieved(Op("submit", d))
          /\ Achieved(Op("readiness", None)) /\ Achieved(Op("status", None))
      BY <2>1, <2>2, <2>4, PlansComplete
    <3>2. row.submitted \subseteq Documents
      BY <1>1 DEF ScriptInv, Inv, TypeOK, RowState
    <3>. QED
      BY <2>4, <3>1, <3>2 DEF Achieved, Op
  <2>5. ASSUME script.name \in {"phase2", "mismatch"}, ~script.rejected
        PROVE  row.rail["NGN"] = "submitted"
    <3>1. Achieved(Op("startNigeria", None))
      BY <2>1, <2>2, <2>5, PlansComplete
    <3>. QED
      BY <2>5, <3>1 DEF Achieved, Op
  <2>. QED
    BY <1>1, <2>3, <2>4, <2>5 DEF ScriptInv
<1>2. ScriptInv => VerifiedMeansProvisioned
  BY <1>1 DEF VerifiedMeansProvisioned
<1>. QED
  BY <1>2, ScriptInvariance, PTL
----------------------------------------------------------------------------
(* What Accounts promises each caller holds for the callers beside a       *)
(* script, and for the script, whose requests are new ones every time.     *)

(* The script is done with a request, and it is as if it had made none.    *)
Forgets ==
    /\ Running /\ req[Me].pc \in Ends
    /\ req' = [req EXCEPT ![Me] = Unasked[Me]]
    /\ UNCHANGED <<bmoni, row, code>>

LEMMA ScriptMoves ==
    ASSUME ScriptInv, [ScriptNext]_allVars
    PROVE  [Next]_vars \/ Forgets
<1>1. CASE ScriptStep
  <2>1. Wanted \in Operations /\ Me \in Callers
    BY WantedTyped, ScriptAssumption
  <2>2. ASSUME ScriptReturn \/ ScriptThrows
        PROVE  UNCHANGED vars \/ Forgets
    BY <2>2 DEF ScriptReturn, ScriptThrows, PollAgain, Stop, Reset, Forgets, Ends
  <2>. QED
    BY <1>1, <2>1, <2>2 DEF ScriptStep, ScriptCall, Next, Request
<1>2. CASE Served \/ BmoniStep \/ CodeStep \/ (\E r \in Clients : Request(r))
  BY <1>2, ScriptAssumption DEF Served, Clients, Next, Request
<1>. QED
  BY <1>1, <1>2 DEF ScriptNext, allVars

LEMMA Forgotten ==
    ASSUME Inv, Forgets
    PROVE  /\ UNCHANGED <<bmoni, row, code>> /\ Me \in Callers /\ req[Me].pc \in Ends
           /\ req'[Me].pc = "idle" /\ req'[Me].op.kind = "forward"
           /\ \A q \in Callers \ {Me} : req'[q] = req[q]
BY ScriptAssumption DEF Forgets, Inv, TypeOK, Unasked, Op

(* No script pays. *)
Payless == Running => Me \notin bmoni.proposals

LEMMA PaylessStep ==
    ASSUME ScriptInv, Payless, [ScriptNext]_allVars
    PROVE  Payless'
<1>1. Inv /\ Me \in Callers /\ bmoni \in BmoniState /\ (Running' => Running)
  <2>1. script \in ScriptState
    BY DEF ScriptInv
  <2>2. Running' => Running
    BY <2>1 DEF Running, ScriptNext, allVars, ScriptStep, ScriptCall, ScriptReturn, ScriptThrows,
                Served
  <2>. QED
    BY <2>2, ScriptAssumption DEF ScriptInv, Inv, TypeOK
<1>2. CASE Forgets
  BY <1>1, <1>2, Forgotten DEF Payless
<1>3. CASE [Next]_vars /\ Running
  <2>1. ASSUME NEW r \in Callers \ {Me}, OwnMove(r)
        PROVE  Payless'
    BY <1>1, <1>3, <2>1 DEF OwnMove, Payless
  <2>2. ASSUME Abort(Me)
        PROVE  Payless'
    BY <1>1, <1>3, <2>2 DEF Abort, Payless
  <2>3. ASSUME Handle(Me)
        PROVE  Payless'
    <3>1. req[Me].op.kind \in Kinds
      BY <1>1, <1>3, <2>3, CallMoves, StoreMoves, WantedAllowed DEF Handle, OwnMove, ScriptInv, OnPlan
    <3>2. bmoni'.proposals = bmoni.proposals
      BY <1>1, <2>3, <3>1 DEF Handle, Kinds, Calling, Payments, Cash, CallBmoni, CallRegister, CallWallet,
         CallSubmit, CallReadiness, CallActivate, CallStartNigeria, CallStartUsa, CallVbaStatus,
         CallForward, CallWithdraw, CallPropose, Started, BmoniState, StoreAnswer, StoreUser,
         StoreAddress, StoreWallet, StoreSubmitted, StoreReady, ReadProfile, StoreActivated,
         StoreNigeria, StoreUsa, Store422, StoreVbaStatus, StoreAgent, StoreProposal,
         StoreLedger, Stored
    <3>. QED
      BY <1>3, <3>2 DEF Payless
  <2>4. ASSUME NEW r \in Callers, NEW op \in Operations, Begin(r, op)
        PROVE  Payless'
    BY <1>1, <1>3, <2>4, BeginMoves DEF Payless
  <2>5. CASE bmoni'.proposals = bmoni.proposals
    BY <1>3, <2>5 DEF Payless
  <2>. QED
    BY <1>1, <1>3, <2>1, <2>2, <2>3, <2>4, <2>5, Steps
<1>. QED
  BY <1>1, <1>2, <1>3, ScriptMoves DEF Payless

LEMMA ScriptNoneBegun == ScriptSpec => [](NoneBegun /\ Payless)
<1>1. ScriptInit => NoneBegun /\ Payless
  <2>1. ScriptInit => Init
    BY DEF ScriptInit, Init
  <2>2. Init => NoneBegun /\ bmoni.proposals = {}
    BY DEF Init, InitNew, InitProvisioned, Unasked, Op, Untouched, NoneBegun
  <2>. QED
    BY <2>1, <2>2 DEF Payless
<1>2. ScriptInv /\ NoneBegun /\ Payless /\ [ScriptNext]_allVars => NoneBegun'
  <2>. SUFFICES ASSUME ScriptInv, NoneBegun, Payless, [ScriptNext]_allVars, NEW q \in Callers
                PROVE  Untouched(q)'
    BY DEF NoneBegun
  <2>1. Inv
    BY DEF ScriptInv
  <2>2. CASE [Next]_vars
    BY <2>1, <2>2, UntouchedStep
  <2>3. CASE Forgets
    <3>1. Running
      BY <2>3 DEF Forgets
    <3>. QED
      BY <2>1, <2>3, <3>1, Forgotten DEF NoneBegun, Untouched, Payless
  <2>. QED
    BY <2>2, <2>3, ScriptMoves
<1>3. ScriptInv /\ Payless /\ [ScriptNext]_allVars => Payless'
  BY PaylessStep
<1>. QED
  BY <1>1, <1>2, <1>3, ScriptInvariance, PTL DEF ScriptSpec

(* Beside a script too, a registration that arrives once the row exists is *)
(* answered with it.                                                       *)
THEOREM ScriptRowWins == ScriptSpec => ExistingRowWins
<1>. SUFFICES ASSUME NEW r \in Callers
              PROVE  ScriptSpec => [](row.user /\ req[r].pc = "idle"
                                  => [](req[r].op.kind = "register" => req[r].pc = "done"))
  BY DEF ExistingRowWins
<1>1. NoneBegun /\ row.user /\ req[r].pc = "idle" => RowAnswers(r)
  BY DEF NoneBegun, Untouched, RowAnswers
<1>2. ScriptInv /\ RowAnswers(r) /\ [ScriptNext]_allVars => RowAnswers(r)'
  <2>. SUFFICES ASSUME ScriptInv, RowAnswers(r), [ScriptNext]_allVars
                PROVE  RowAnswers(r)'
    OBVIOUS
  <2>1. Inv
    BY DEF ScriptInv
  <2>2. CASE [Next]_vars
    BY <2>1, <2>2, RowAnswersStep
  <2>3. CASE Forgets
    BY <2>1, <2>3, Forgotten DEF RowAnswers
  <2>. QED
    BY <2>2, <2>3, ScriptMoves
<1>3. RowAnswers(r) => (req[r].op.kind = "register" => req[r].pc = "done")
  BY DEF RowAnswers
<1>4. NoneBegun /\ Payless => NoneBegun
  OBVIOUS
<1>. QED
  BY <1>1, <1>2, <1>3, <1>4, ScriptInvariance, ScriptNoneBegun, PTL DEF ScriptSpec

(* Beside a script too, an expired QR code is over. *)
THEOREM ScriptExpiredCode == ScriptSpec => ExpiredCodePaysNothing
<1>. SUFFICES ASSUME NEW r \in Callers
              PROVE  ScriptSpec => [](code = "expired" /\ req[r].pc = "idle"
                                  => [](req[r].op.kind = "payQr" => r \notin bmoni.proposals))
  BY DEF ExpiredCodePaysNothing
<1>1. NoneBegun /\ code = "expired" /\ req[r].pc = "idle"
        => TurnedAway(r)
  BY DEF NoneBegun, Untouched, TurnedAway
<1>2. ScriptInv /\ Payless /\ TurnedAway(r) /\ [ScriptNext]_allVars => TurnedAway(r)'
  <2>. SUFFICES ASSUME ScriptInv, Payless, TurnedAway(r), [ScriptNext]_allVars
                PROVE  TurnedAway(r)'
    OBVIOUS
  <2>1. Inv
    BY DEF ScriptInv
  <2>2. CASE [Next]_vars
    BY <2>1, <2>2, TurnedAwayStep
  <2>3. CASE Forgets
    <3>1. Running
      BY <2>3 DEF Forgets
    <3>. QED
      BY <2>1, <2>3, <3>1, Forgotten DEF TurnedAway, Payless
  <2>. QED
    BY <2>2, <2>3, ScriptMoves
<1>3. TurnedAway(r) => (req[r].op.kind = "payQr" => r \notin bmoni.proposals)
  BY DEF TurnedAway
<1>4. NoneBegun /\ Payless => NoneBegun
  OBVIOUS
<1>5. NoneBegun /\ Payless => Payless
  OBVIOUS
<1>. QED
  BY <1>1, <1>2, <1>3, <1>4, <1>5, ScriptInvariance, ScriptNoneBegun, PTL DEF ScriptSpec

(* What a script forgets while it has seen no rejection was answered: it    *)
(* leaves no debt behind.                                                  *)
LEMMA AnsweredOrThrown ==
    ASSUME ScriptInv, [ScriptNext]_allVars, ~script'.rejected
    PROVE  /\ ~script.rejected
           /\ [Next]_vars \/ (Forgets /\ req[Me].pc = "done")
<1>1. script \in ScriptState
  BY DEF ScriptInv
<1>2. CASE ScriptReturn
  <2>1. Saw.rejected = script.rejected /\ Move(Saw).rejected = script.rejected
    BY <1>1 DEF Saw, Move, ScriptState
  <2>2. script'.rejected = script.rejected
    BY <1>1, <1>2, <2>1 DEF ScriptReturn, PollAgain, Reset, Stop, ScriptState, Saw
  <2>. QED
    BY <1>2, <2>2 DEF ScriptReturn, PollAgain, Stop, Reset, Forgets, Ends
<1>3. CASE ScriptThrows
  <2>1. Move([script EXCEPT !.rejected = TRUE]).rejected
    BY <1>1 DEF Move, ScriptState
  <2>2. Stop("failed")
    BY <1>3, <2>1 DEF ScriptThrows, Reset
  <2>. QED
    BY <1>1, <2>2 DEF Stop, ScriptState
<1>4. CASE ScriptCall \/ ~ScriptStep
  <2>1. script' = script
    BY <1>4 DEF ScriptNext, ScriptStep, ScriptCall, Served, allVars
  <2>2. [Next]_vars
    <3>1. Me \in Callers /\ Wanted \in Operations
      BY WantedTyped, ScriptAssumption
    <3>. QED
      BY <1>4, <3>1 DEF ScriptNext, ScriptStep, ScriptCall, Served, Clients, allVars, Next, Request
  <2>. QED
    BY <2>1, <2>2
<1>. QED
  BY <1>2, <1>3, <1>4 DEF ScriptStep

LEMMA ForgetsOwed ==
    ASSUME Inv, OwedInv, Payless, Forgets, req[Me].pc = "done"
    PROVE  OwedInv'
<1>1. /\ UNCHANGED <<bmoni, row>> /\ req[Me].pc = "done"
      /\ req'[Me].pc = "idle" /\ req'[Me].op.kind = "forward"
      /\ \A q \in Callers \ {Me} : req'[q] = req[q]
      /\ Me \notin bmoni.proposals /\ bmoni.proposals \subseteq Callers
  BY Forgotten, Rows2 DEF Payless, Forgets, BmoniState
<1>2. StepsOf'
  BY <1>1 DEF OwedInv, StepsOf
<1>3. PaymentsOwed'
  BY <1>1 DEF OwedInv, PaymentsOwed
<1>4. ASSUME NEW op \in Operations
      PROVE  Covered(op)'
  BY <1>1 DEF OwedInv, Covered, Owes, Has, Told
<1>. QED
  BY <1>2, <1>3, <1>4 DEF OwedInv, Operations

(* Beside a script too, and for the script, whatever no row tells of was   *)
(* asked for by a handler that failed, as long as the script has not taken *)
(* a failure for the rejection it looks for.                               *)
THEOREM ScriptKeepsRows == ScriptSpec => []OverlapsKeepRows
<1>. DEFINE Tracked == ~script.rejected => OwedInv
<1>1. ScriptInit => Tracked
  BY InitOwed DEF ScriptInit, Init
<1>2. ScriptInv /\ NoneBegun /\ Payless /\ Tracked /\ [ScriptNext]_allVars => Tracked'
  <2>. SUFFICES ASSUME ScriptInv, NoneBegun, Payless, Tracked, [ScriptNext]_allVars,
                       ~script'.rejected
                PROVE  OwedInv'
    OBVIOUS
  <2>1. Inv /\ OwedInv
    BY AnsweredOrThrown DEF ScriptInv
  <2>2. CASE [Next]_vars
    BY <2>1, <2>2, OwedStep
  <2>3. CASE Forgets /\ req[Me].pc = "done"
    BY <2>1, <2>3, ForgetsOwed
  <2>. QED
    BY <2>2, <2>3, AnsweredOrThrown
<1>3. ScriptInv /\ Tracked => OverlapsKeepRows
  BY OwedMeans DEF ScriptInv, OverlapsKeepRows
<1>4. NoneBegun /\ Payless => NoneBegun
  OBVIOUS
<1>5. NoneBegun /\ Payless => Payless
  OBVIOUS
<1>. HIDE DEF Tracked
<1>. QED
  BY <1>1, <1>2, <1>3, <1>4, <1>5, ScriptInvariance, ScriptNoneBegun, PTL DEF ScriptSpec

(* What a script forgets is over, and was no payment: the rows tell as     *)
(* much as before.                                                         *)
LEMMA ForgetsSerial ==
    ASSUME Inv, SerialInv, Payless, Forgets
    PROVE  SerialInv'
<1>1. /\ UNCHANGED <<bmoni, row>> /\ req[Me].pc \in Ends
      /\ req'[Me].pc = "idle" /\ req'[Me].op.kind = "forward"
      /\ \A q \in Callers \ {Me} : req'[q] = req[q]
      /\ Me \notin bmoni.proposals
  BY Forgotten DEF Payless, Forgets
<1>2. /\ row.ledger \subseteq row.proposals /\ row.proposals \subseteq bmoni.proposals
      /\ bmoni.proposals \subseteq Callers
  BY Rows2 DEF Inv, RowsNeverAhead, BmoniState
<1>. USE DEF SerialInv, AboutToStore
<1>3. StepsOf'
  BY <1>1 DEF StepsOf
<1>4. UserTold'
  BY <1>1 DEF UserTold, Ends
<1>5. WalletTold' /\ KycTold' /\ ActivatedTold'
  BY <1>1 DEF WalletTold, KycTold, ActivatedTold, Ends
<1>6. NigeriaTold' /\ UsaTold'
  BY <1>1 DEF NigeriaTold, UsaTold, Ends
<1>7. PaymentsTold'
  BY <1>1, <1>2 DEF PaymentsTold
<1>. QED
  BY <1>3, <1>4, <1>5, <1>6, <1>7

(* Beside a script too, requests served one at a time and without failures *)
(* leave rows that report all that BMONI was asked for.                    *)
THEOREM ScriptSerialMirror == ScriptSpec => SerialRequestsMirror
<1>. DEFINE Agreed == /\ Quiet => RowsAgree
                      /\ \A r \in Callers :
                            req[r].pc = "denied" /\ req[r].op.kind = "register"
                              => bmoni.user = "other"
<1>1. ScriptInv /\ SerialInv => Agreed
  BY QuietAgrees DEF ScriptInv, SerialInv, UserTold
<1>2. ScriptInit => SerialInv
  BY InitSerial DEF ScriptInit, Init
<1>3. ScriptInv /\ NoneBegun /\ Payless /\ SerialInv /\ OneAtATime /\ OneAtATime'
        /\ [ScriptNext]_allVars => SerialInv'
  BY ScriptMoves, SerialStep, ForgetsSerial DEF ScriptInv
<1>4. SerialRequestsMirror <=> ([]OneAtATime => []Agreed)
  BY DEF SerialRequestsMirror
<1>. HIDE DEF Agreed
<1>. QED
  BY <1>1, <1>2, <1>3, <1>4, ScriptInvariance, ScriptNoneBegun, PTL DEF ScriptSpec

=============================================================================
