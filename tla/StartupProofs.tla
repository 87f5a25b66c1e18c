--------------------------- MODULE StartupProofs ----------------------------
(***************************************************************************)
(* Proofs about Startup, for any number of faults: what the record of      *)
(* versions says of the schema, what a serving gateway can count on, and   *)
(* that a password of the administrator's own is never replaced.           *)
(*                                                                         *)
(* Of the list of migrations they use four facts (Statements below): how   *)
(* many there are, what the first creates, which one is the backfill, and  *)
(* that none drops the table of versions.                                  *)
(***************************************************************************)
EXTENDS Startup, Integers, WellFoundedInduction, TLAPS

-----------------------------------------------------------------------------
(* The least-number principle, from the well-foundedness of < on Nat: what *)
(* follows uses it where a proof by induction would.                       *)
LEMMA Least ==
    \A T \in SUBSET Nat : T # {} => \E m \in T : \A k \in T : m <= k
<1> SUFFICES ASSUME NEW T \in SUBSET Nat, T # {}
             PROVE  \E m \in T : \A k \in T : m <= k
    OBVIOUS
<1> DEFINE R == {ss \in Nat \X Nat : ss[1] < ss[2]}
<1>1. IsWellFoundedOn(R, Nat)
    BY NatLessThanWellFounded DEF OpToRel
<1>2. \A j, k \in Nat : j < k => <<j, k>> \in R
    OBVIOUS
<1> HIDE DEF R
<1>3. PICK m \in T : \A k \in T : <<k, m>> \notin R
    BY <1>1, WFMin
<1>4. ASSUME NEW k \in T
      PROVE  m <= k
  <2>1. m \in Nat /\ k \in Nat
      OBVIOUS
  <2>2. ~(k < m)
    <3> SUFFICES ASSUME k < m
                 PROVE  FALSE
        OBVIOUS
    <3>1. <<k, m>> \in R
        BY <1>2, <2>1, Zenon
    <3> QED BY <3>1, <1>3, Zenon
  <2> QED BY <2>1, <2>2
<1> QED BY <1>4

(* What the proofs use of the list of migrations. *)
LEMMA Statements ==
    /\ Last = 18
    /\ Migrations[1] = Create("schema_migrations", {})
    /\ Migrations[15].kind = "backfill"
    /\ \A n \in 1 .. Last : "schema_migrations" \notin Migrations[n].drops
<1>1. Last = 18
    BY DEF Last, Migrations
<1>2. Migrations[1] = Create("schema_migrations", {})
    BY DEF Migrations
<1>3. Migrations[15].kind = "backfill"
    BY DEF Migrations
<1> DEFINE Drops(n) == Migrations[n].drops
           Safe(n) == "schema_migrations" \notin Drops(n)
<1>4. Safe(1) /\ Safe(2) /\ Safe(3) /\ Safe(4) /\ Safe(5) /\ Safe(6)
    BY DEF Migrations, Create, Alter
<1>5. Safe(7) /\ Safe(8) /\ Safe(9) /\ Safe(10) /\ Safe(11) /\ Safe(12)
    BY DEF Migrations, Create, Alter
<1>6. Safe(13) /\ Safe(14) /\ Safe(15) /\ Safe(16) /\ Safe(17) /\ Safe(18)
    BY DEF Migrations, Create, Alter
<1> HIDE DEF Safe
<1>7. \A n \in 1 .. Last : Safe(n)
    BY <1>1, <1>4, <1>5, <1>6
<1> QED BY <1>1, <1>2, <1>3, <1>7 DEF Safe

(* Repeating a statement at once changes nothing. *)
LEMMA EffectTwice ==
    \A n, s : Effect(n, Effect(n, s)) = Effect(n, s)
BY DEF Effect

(* The table of versions, once there, stays. *)
LEMMA EffectKeepsVersions ==
    \A n \in 1 .. Last : \A s :
        "schema_migrations" \in s => "schema_migrations" \in Effect(n, s)
BY Statements DEF Effect

(* The recursive definition of After defines a function: for every n there *)
(* is one on 0 .. n that satisfies the equation.                           *)
LEMMA AfterDefined ==
    After = [n \in 0 .. Last |-> IF n = 0 THEN {}
                                 ELSE Effect(n, After[n - 1])]
<1> DEFINE Fits(f, m) ==
        f = [n \in 0 .. m |-> IF n = 0 THEN {} ELSE Effect(n, f[n - 1])]
           T == {m \in Nat : ~ \E f : Fits(f, m)}
<1>1. T = {}
  <2> SUFFICES ASSUME T # {}
               PROVE  FALSE
      OBVIOUS
  <2>1. PICK m \in T : \A k \in T : m <= k
      BY Least
  <2>2. m # 0
    <3>1. Fits([n \in 0 .. 0 |-> {}], 0)
        OBVIOUS
    <3> QED BY <3>1
  <2>3. m \in Nat /\ m - 1 \in Nat
      BY <2>2
  <2>4. \E g : Fits(g, m - 1)
    <3>1. m - 1 \notin T
      <4> HIDE DEF T
      <4> QED BY <2>1, <2>3
    <3> HIDE DEF Fits
    <3> QED BY <2>3, <3>1
  <2>5. PICK g : Fits(g, m - 1)
      BY <2>4
  <2> DEFINE f == [n \in 0 .. m |-> IF n = m THEN Effect(m, g[m - 1])
                                             ELSE g[n]]
  <2>6. Fits(f, m)
    <3>1. ASSUME NEW n \in 0 .. m
          PROVE  f[n] = IF n = 0 THEN {} ELSE Effect(n, f[n - 1])
      <4>1. CASE n = m
        <5>1. f[n] = Effect(n, g[n - 1]) /\ f[n - 1] = g[n - 1]
            BY <2>2, <4>1
        <5> QED BY <2>2, <4>1, <5>1
      <4>2. CASE n # m
        <5>1. n \in 0 .. (m - 1) /\ f[n] = g[n]
            BY <4>2
        <5>2. g[n] = IF n = 0 THEN {} ELSE Effect(n, g[n - 1])
            BY <2>5, <5>1
        <5>3. n # 0 => f[n - 1] = g[n - 1]
            BY <5>1
        <5> QED BY <5>1, <5>2, <5>3
      <4> QED BY <4>1, <4>2
    <3> HIDE DEF f
    <3>2. f = [n \in 0 .. m |-> f[n]]
        BY DEF f
    <3> QED BY <3>1, <3>2
  <2> QED BY <2>1, <2>6
<1>2. \E f : Fits(f, Last)
  <2> HIDE DEF Fits
  <2> QED BY <1>1, Statements
<1> QED BY <1>2 DEF After

LEMMA AfterStep ==
    /\ After[0] = {}
    /\ \A n \in 1 .. Last : After[n] = Effect(n, After[n - 1])
<1>1. Last \in Nat
    BY Statements
<1> HIDE DEF After
<1>2. \A n \in 0 .. Last :
          After[n] = IF n = 0 THEN {} ELSE Effect(n, After[n - 1])
    BY AfterDefined
<1> QED BY <1>1, <1>2

(* The first statement leaves the table of versions, and it stays. *)
LEMMA VersionsThere ==
    \A n \in 1 .. Last : "schema_migrations" \in After[n]
<1> DEFINE T == {n \in Nat : /\ n \in 1 .. Last
                             /\ "schema_migrations" \notin After[n]}
<1>1. SUFFICES ASSUME T # {}
               PROVE  FALSE
    BY Statements
<1>2. PICK m \in T : \A k \in T : m <= k
    BY <1>1, Least
<1>3. m \in 1 .. Last /\ "schema_migrations" \notin After[m]
    OBVIOUS
<1>4. m # 1
  <2>1. After[1] = Effect(1, {})
    <3>1. 1 \in 1 .. Last /\ 1 - 1 = 0
        BY Statements
    <3> QED BY <3>1, AfterStep
  <2>2. "schema_migrations" \in Effect(1, {})
      BY Statements DEF Effect, Create
  <2> QED BY <1>3, <2>1, <2>2
<1>5. "schema_migrations" \in After[m - 1]
  <2>1. m - 1 \in Nat /\ m - 1 \in 1 .. Last /\ ~(m <= m - 1)
      BY <1>3, <1>4, Statements
  <2>2. m - 1 \notin T
    <3> HIDE DEF T
    <3> QED BY <1>2, <2>1
  <2> QED BY <2>1, <2>2
<1> QED BY <1>3, <1>5, AfterStep, EffectKeepsVersions

-----------------------------------------------------------------------------
(* The inductive invariant.                                                *)

(* How far a start has come: the gateway is not ahead of the record by     *)
(* more than one statement, and the first may be repeated.                 *)
Progress(n) ==
    /\ recorded = 1 .. n
    /\ schema = After[n] \/ (n < Last /\ schema = After[n + 1])
    /\ pc = "check" => i <= n + 1
    /\ pc = "apply" => i = n + 1 \/ i = 1
    /\ pc = "record" => \/ i = n + 1 /\ schema = After[n + 1]
                        \/ i = 1 /\ n >= 1
    /\ pc \in {"seed", "serving"} => n = Last

ProgressMade == \E n \in 0 .. Last : Progress(n)

(* The backfill gives a resource its account, and nothing takes it back. *)
AccountOf(r) == [column \in Column |-> AccountFor(r[column])]

AccountShape ==
    row # NoRow =>
        /\ account \in {NoAccount, AccountOf(row)}
        /\ 15 \in recorded \/ (pc = "record" /\ i = 15) =>
              account = AccountOf(row)

(* Nothing but an administrator touches the status of an account. *)
AdminShape ==
    /\ admin # NoAdmin =>
          admin.status = IF disabled THEN "disabled" ELSE "active"
    /\ admin = NoAdmin => ~disabled
    /\ pc = "serving" => /\ admin # NoAdmin
                         /\ admin.role = "admin"
                         /\ admin.password \in {"default", "own"}

(* The types without the one of schema, which follows from Progress. *)
Types ==
    /\ row \in {NoRow} \cup WriteAccount
    /\ account \in [Column -> {"NULL", "reader", "writer"}]
    /\ admin \in {NoAdmin} \cup AdminAccount
    /\ disabled \in BOOLEAN
    /\ pc \in {"down", "wait", "check", "apply", "record", "seed", "serving"}
    /\ i \in 1 .. Last
    /\ faults \in 0 .. MaxFaults

IInv == Types /\ ProgressMade /\ AccountShape /\ AdminShape

LEMMA ProgressSchema ==
    ProgressMade => SchemaFitsRecord
BY DEF ProgressMade, Progress, SchemaFitsRecord

LEMMA InvTypes ==
    IInv => TypeOK
<1> SUFFICES ASSUME IInv
             PROVE  TypeOK
    OBVIOUS
<1>1. PICK n \in 0 .. Last : Progress(n)
    BY DEF IInv, ProgressMade
<1>2. Last \in Nat
    BY Statements
<1>3. recorded \subseteq 1 .. Last
    BY <1>1, <1>2 DEF Progress
<1>4. \E m \in 0 .. Last : schema = After[m]
  <2>1. CASE schema = After[n]
      BY <2>1
  <2>2. CASE n < Last /\ schema = After[n + 1]
      BY <1>2, <2>2
  <2> QED BY <1>1, <2>1, <2>2 DEF Progress
<1>5. schema \subseteq UNION {After[m] : m \in 0 .. Last}
  <2> HIDE DEF After
  <2> QED BY <1>4
<1> QED BY <1>3, <1>5 DEF IInv, Types, TypeOK

(* The columns of an account are those of no account, or each the one its  *)
(* write column makes of it.                                               *)
LEMMA AccountTypes ==
    ASSUME row \in WriteAccount
    PROVE  /\ AccountOf(row) \in [Column -> {"reader", "writer"}]
           /\ \A column \in Column : AccountOf(row)[column] # "NULL"
<1>1. \A column \in Column : AccountFor(row[column]) \in {"reader", "writer"}
    BY DEF WriteAccount, AccountFor
<1> QED BY <1>1 DEF AccountOf

(* No account is not one an account named admin can be. *)
LEMMA NoAdminIsNone == NoAdmin \notin AdminAccount
<1>1. NoAdmin.status \notin Status
    BY DEF NoAdmin, Status
<1>2. \A a \in AdminAccount : a.status \in Status
    BY DEF AdminAccount
<1> QED BY <1>1, <1>2

(* An earlier release leaves a database in which the invariant holds. *)
LEMMA InitInv ==
    Init => IInv
<1> SUFFICES ASSUME Init
             PROVE  IInv
    OBVIOUS
<1>1. Last = 18
    BY Statements
<1>2. PICK n \in 0 .. Last :
          /\ schema = After[n]
          /\ recorded = 1 .. n
          /\ row \in {NoRow} \cup (IF n < 4 THEN {} ELSE WriteAccount)
          /\ account = IF n < 15 \/ row = NoRow THEN NoAccount
                       ELSE [column \in Column |-> AccountFor(row[column])]
          /\ admin \in {NoAdmin} \cup
                {a \in AdminAccount :
                    /\ n >= 2
                    /\ n < 9 => a.password = "NULL" /\ a.role = "user"}
    BY DEF Init
<1>3. /\ pc = "down" /\ i = 1 /\ faults = 0
      /\ disabled = (admin.status = "disabled")
    BY DEF Init
<1>4. Types
  <2>1. row \in {NoRow} \cup WriteAccount
      BY <1>2
  <2>2. account \in [Column -> {"NULL", "reader", "writer"}]
    <3>1. NoAccount \in [Column -> {"NULL", "reader", "writer"}]
        BY DEF NoAccount
    <3>2. row # NoRow =>
              AccountOf(row) \in [Column -> {"NULL", "reader", "writer"}]
        BY <2>1, AccountTypes
    <3>3. /\ account \in {NoAccount, AccountOf(row)}
          /\ row = NoRow => account = NoAccount
        BY <1>2 DEF AccountOf
    <3> QED BY <3>1, <3>2, <3>3
  <2>3. admin \in {NoAdmin} \cup AdminAccount
      BY <1>2
  <2>4. i \in 1 .. Last /\ faults \in 0 .. MaxFaults
      BY <1>1, <1>3, StartupAssumption
  <2>5. /\ pc \in {"down", "wait", "check", "apply", "record", "seed", "serving"}
        /\ disabled \in BOOLEAN
      BY <1>3
  <2> QED BY <2>1, <2>2, <2>3, <2>4, <2>5 DEF Types
<1>5. ProgressMade
    BY <1>2, <1>3 DEF ProgressMade, Progress
<1>6. AccountShape
  <2>1. 15 \in recorded => ~(n < 15)
    <3>1. recorded = 1 .. n
        BY <1>2, Zenon
    <3>2. n \in Nat
        BY <1>1
    <3> QED BY <3>1, <3>2
  <2> QED BY <1>2, <1>3, <2>1 DEF AccountShape, AccountOf
<1>7. AdminShape
  <2>1. admin # NoAdmin => admin.status \in {"active", "disabled"}
      BY <1>2 DEF AdminAccount, Status
  <2>2. NoAdmin.status # "disabled"
      BY DEF NoAdmin
  <2> QED BY <1>3, <2>1, <2>2 DEF AdminShape
<1> QED BY <1>4, <1>5, <1>6, <1>7 DEF IInv

(* What Leave comes to at the two stages. *)
LEMMA Leaves ==
    /\ Leave("apply") <=> pc' = "record" /\ UNCHANGED i
    /\ Leave("record") <=> Advance
<1>1. (CHOOSE n \in DOMAIN Stages : Stages[n] = "apply") = 1
    BY DEF Stages
<1>2. (CHOOSE n \in DOMAIN Stages : Stages[n] = "record") = 2
    BY DEF Stages
<1>3. 1 + 1 = 2 /\ 1 # 2 /\ Len(Stages) = 2 /\ Stages[2] = "record"
    BY DEF Stages
<1>4. Leave("apply") <=> pc' = "record" /\ UNCHANGED i
    BY <1>1, <1>3, Zenon DEF Leave
<1>5. Leave("record") <=> Advance
    BY <1>2, <1>3, Zenon DEF Leave
<1> QED BY <1>4, <1>5

(* The first statement, tried again later, finds its table. *)
LEMMA FirstAgain ==
    ASSUME NEW n \in 1 .. Last, Progress(n)
    PROVE  Effect(1, schema) = schema
<1>1. "schema_migrations" \in schema
  <2>1. n < Last => n + 1 \in 1 .. Last
      BY Statements
  <2> QED BY <2>1, VersionsThere DEF Progress
<1> QED BY <1>1, Statements DEF Effect, Create

(* Where SkipRecorded and the end of Record lead. *)
LEMMA AdvanceProgress ==
    ASSUME NEW n \in 0 .. Last, NEW m \in 0 .. Last, i \in 1 .. Last,
           recorded' = 1 .. m, i <= m,
           schema' = After[m] \/ (m < Last /\ schema' = After[m + 1]),
           Advance
    PROVE  Progress(m)' /\ i' \in 1 .. Last /\ pc' \in {"seed", "check"}
<1>1. Last = 18
    BY Statements
<1>2. CASE i = Last
    BY <1>1, <1>2 DEF Advance, Progress
<1>3. CASE i # Last
    BY <1>1, <1>3 DEF Advance, Progress
<1> QED BY <1>2, <1>3

-----------------------------------------------------------------------------
(* Each action keeps the invariant.                                        *)

(* A step that leaves the store alone, by what it must show. *)
LEMMA UntouchedStore ==
    ASSUME IInv, UNCHANGED <<recorded, row, account, admin, disabled>>,
           ProgressMade',
           pc' \in {"down", "wait", "check", "apply", "record", "seed"},
           i' \in 1 .. Last, ~(pc' = "record" /\ i' = 15),
           faults' \in 0 .. MaxFaults
    PROVE  IInv'
<1>1. AccountOf(row)' = AccountOf(row)
    BY DEF AccountOf, AccountFor
<1>2. AccountShape'
    BY <1>1 DEF IInv, AccountShape
<1>3. Types'
    BY DEF IInv, Types
<1>4. AdminShape'
    BY DEF IInv, AdminShape
<1> QED BY <1>2, <1>3, <1>4 DEF IInv

(* A step that stops the gateway, or starts it anew. *)
LEMMA StoppedStep ==
    ASSUME IInv,
           UNCHANGED <<schema, recorded, row, account, admin, disabled, i>>,
           pc' \in {"down", "wait"}, faults' \in 0 .. MaxFaults
    PROVE  IInv'
<1>1. PICK n \in 0 .. Last : Progress(n)
    BY DEF IInv, ProgressMade
<1>2. Progress(n)'
    BY <1>1 DEF Progress
<1>3. ProgressMade'
    BY <1>2 DEF ProgressMade
<1>4. i' \in 1 .. Last
    BY DEF IInv, Types
<1> QED BY <1>3, <1>4, UntouchedStore

(* The count of faults stays within its bound. *)
LEMMA FaultsBounded ==
    ASSUME Types
    PROVE  /\ faults \in 0 .. MaxFaults
           /\ faults < MaxFaults => faults + 1 \in 0 .. MaxFaults
<1>1. faults \in 0 .. MaxFaults /\ MaxFaults \in Nat
    BY StartupAssumption DEF Types
<1> QED BY <1>1

LEMMA StartStep ==
    ASSUME IInv, Start
    PROVE  IInv'
BY StoppedStep, FaultsBounded DEF Start, store, IInv

LEMMA ExitStep ==
    ASSUME IInv, Exit
    PROVE  IInv'
BY StoppedStep, FaultsBounded DEF Exit, store, IInv

LEMMA ApplyRefusedStep ==
    ASSUME IInv, ApplyRefused
    PROVE  IInv'
BY StoppedStep, FaultsBounded DEF ApplyRefused, store, IInv

LEMMA StoreAnswersStep ==
    ASSUME IInv, StoreAnswers
    PROVE  IInv'
<1> USE DEF StoreAnswers, store
<1>1. PICK n \in 0 .. Last : Progress(n)
    BY DEF IInv, ProgressMade
<1>2. Last = 18
    BY Statements
<1>3. Progress(n)'
    BY <1>1, <1>2 DEF Progress
<1>4. ProgressMade'
    BY <1>3 DEF ProgressMade
<1>5. faults' \in 0 .. MaxFaults /\ i' \in 1 .. Last
    BY <1>2, FaultsBounded DEF IInv
<1> QED BY <1>4, <1>5, UntouchedStore

(* A version that is recorded is passed over; the first, if it is not, has *)
(* left its table and is recorded; any other is applied.                   *)
LEMMA CheckStep ==
    ASSUME IInv, Check
    PROVE  IInv'
<1> USE DEF Check, store
<1>1. PICK n \in 0 .. Last : Progress(n)
    BY DEF IInv, ProgressMade
<1>2. Last = 18 /\ n \in Nat /\ i \in 1 .. Last
  <2>1. i \in 1 .. Last
      BY DEF IInv, Types
  <2> QED BY <2>1, Statements
<1>3. /\ pc = "check" /\ i <= n + 1 /\ recorded = 1 .. n
      /\ schema = After[n] \/ (n < Last /\ schema = After[n + 1])
      /\ UNCHANGED <<schema, recorded, row, account, admin, disabled, faults>>
    BY <1>1 DEF Progress
<1>4. faults' \in 0 .. MaxFaults
    BY <1>3, FaultsBounded DEF IInv
<1>5. CASE i \in recorded
  <2>1. Advance /\ i <= n
      BY <1>2, <1>3, <1>5
  <2>2. Progress(n)' /\ i' \in 1 .. Last /\ pc' \in {"seed", "check"}
      BY <1>2, <1>3, <2>1, AdvanceProgress
  <2>3. ProgressMade'
      BY <2>2 DEF ProgressMade
  <2> QED BY <1>3, <1>4, <2>2, <2>3, UntouchedStore
<1>6. CASE i \notin recorded /\ i = 1
  <2>1. pc' = "record" /\ i' = 1
      BY <1>6
  <2>2. n = 0 /\ schema = After[1]
    <3>1. n = 0
        BY <1>2, <1>3, <1>6
    <3>2. "schema_migrations" \notin After[0]
        BY AfterStep
    <3> QED BY <1>3, <3>1, <3>2
  <2>3. Progress(n)'
      BY <1>3, <2>1, <2>2 DEF Progress
  <2>4. ProgressMade'
      BY <2>3 DEF ProgressMade
  <2> QED BY <1>2, <1>3, <1>4, <2>1, <2>4, UntouchedStore
<1>7. CASE i \notin recorded /\ i # 1
  <2>1. pc' = "apply" /\ i' = i
      BY <1>7 DEF Stages
  <2>2. i = n + 1
      BY <1>2, <1>3, <1>7
  <2>3. Progress(n)'
      BY <1>3, <2>1, <2>2 DEF Progress
  <2>4. ProgressMade'
      BY <2>3 DEF ProgressMade
  <2> QED BY <1>2, <1>3, <1>4, <2>1, <2>4, UntouchedStore
<1> QED BY <1>5, <1>6, <1>7

(* Only a failure of the first check is passed over. *)
LEMMA CheckFailedStep ==
    ASSUME IInv, CheckFailed
    PROVE  IInv'
<1> USE DEF CheckFailed, store
<1>1. faults' \in 0 .. MaxFaults
    BY FaultsBounded DEF IInv
<1>2. CASE i # 1
  <2>1. pc' = "down"
      BY <1>2 DEF Forgiven
  <2> QED BY <1>1, <2>1, StoppedStep
<1>3. CASE i = 1
  <2>1. PICK n \in 0 .. Last : Progress(n)
      BY DEF IInv, ProgressMade
  <2>2. pc' = "apply" /\ i' = 1
      BY <1>3 DEF Forgiven
  <2>3. Progress(n)'
      BY <2>1, <2>2 DEF Progress
  <2>4. ProgressMade'
      BY <2>3 DEF ProgressMade
  <2>5. i' \in 1 .. Last
      BY <2>2, Statements
  <2> QED BY <1>1, <2>2, <2>4, <2>5, UntouchedStore
<1> QED BY <1>2, <1>3

(* The statement applied is the one after those recorded, for the first or *)
(* the second time, or the first of all, which finds its table.            *)
LEMMA ApplyStep ==
    ASSUME IInv, Apply
    PROVE  IInv'
<1> USE DEF Apply
<1>1. PICK n \in 0 .. Last : Progress(n)
    BY DEF IInv, ProgressMade
<1>2. Last = 18 /\ n \in Nat /\ i \in 1 .. Last
  <2>1. i \in 1 .. Last
      BY DEF IInv, Types
  <2> QED BY <2>1, Statements
<1>3. /\ pc = "apply" /\ recorded = 1 .. n /\ (i = n + 1 \/ i = 1)
      /\ schema = After[n] \/ (n < Last /\ schema = After[n + 1])
      /\ pc' = "record" /\ i' = i /\ schema' = Effect(i, schema)
      /\ UNCHANGED <<recorded, row, admin, disabled, faults>>
    BY <1>1, Leaves DEF Progress
<1>4. ProgressMade'
  <2>1. CASE i = n + 1
    <3>1. After[n + 1] = Effect(n + 1, After[n])
      <4>1. n + 1 \in 1 .. Last /\ (n + 1) - 1 = n
          BY <1>2, <2>1
      <4> QED BY <4>1, AfterStep
    <3>2. schema' = After[n + 1]
        BY <1>3, <2>1, <3>1, EffectTwice
    <3>3. n < Last
        BY <1>2, <2>1
    <3>4. Progress(n)'
        BY <1>3, <2>1, <3>2, <3>3 DEF Progress
    <3> QED BY <3>4 DEF ProgressMade
  <2>2. CASE i # n + 1
    <3>1. i = 1 /\ n \in 1 .. Last
        BY <1>2, <1>3, <2>2
    <3>2. schema' = schema
        BY <1>1, <1>3, <3>1, FirstAgain
    <3>3. Progress(n)'
        BY <1>3, <3>1, <3>2 DEF Progress
    <3> QED BY <3>3 DEF ProgressMade
  <2> QED BY <2>1, <2>2
<1>5. account' \in [Column -> {"NULL", "reader", "writer"}] /\ AccountShape'
  <2>1. row' = row /\ recorded' = recorded /\ i' = i
      BY <1>3
  <2>2. AccountOf(row)' = AccountOf(row)
      BY <2>1 DEF AccountOf, AccountFor
  <2>3. [column \in Column |-> BackfilledFrom(row[column])] = AccountOf(row)
      BY DEF AccountOf, BackfilledFrom
  <2>4. account' = account \/ (row # NoRow /\ account' = AccountOf(row))
      BY <2>3
  <2>5. row # NoRow => /\ row \in WriteAccount
                       /\ account \in {NoAccount, AccountOf(row)}
                       /\ 15 \in recorded => account = AccountOf(row)
      BY DEF IInv, Types, AccountShape
  <2>6. account \in [Column -> {"NULL", "reader", "writer"}]
      BY DEF IInv, Types
  <2>7. row # NoRow /\ i = 15 => account' = AccountOf(row)
    <3>1. SUFFICES ASSUME row # NoRow, i = 15, account["username"] # "NULL"
                   PROVE  account' = AccountOf(row)
        BY <2>3, Statements
    <3>2. NoAccount["username"] = "NULL"
        BY DEF NoAccount, Column
    <3>3. account = AccountOf(row)
        BY <2>5, <3>1, <3>2
    <3> QED BY <2>4, <3>3
  <2>8. AccountShape'
      BY <2>1, <2>2, <2>4, <2>5, <2>7 DEF AccountShape
  <2>9. account' \in [Column -> {"NULL", "reader", "writer"}]
      BY <2>4, <2>5, <2>6, AccountTypes
  <2> QED BY <2>8, <2>9
<1> QED BY <1>2, <1>3, <1>4, <1>5 DEF IInv, Types, AdminShape

LEMMA RecordStep ==
    ASSUME IInv, Record
    PROVE  IInv'
<1> USE DEF Record
<1>1. PICK n \in 0 .. Last : Progress(n)
    BY DEF IInv, ProgressMade
<1>2. Last = 18 /\ n \in Nat /\ i \in 1 .. Last
  <2>1. i \in 1 .. Last
      BY DEF IInv, Types
  <2> QED BY <2>1, Statements
<1>3. /\ pc = "record" /\ recorded = 1 .. n /\ recorded' = 1 .. n \cup {i}
      /\ schema = After[n] \/ (n < Last /\ schema = After[n + 1])
      /\ \/ i = n + 1 /\ schema = After[n + 1]
         \/ i = 1 /\ n >= 1
      /\ Advance
      /\ UNCHANGED <<schema, row, account, admin, disabled, faults>>
    BY <1>1, Leaves DEF Progress
<1>4. \E m \in 0 .. Last :
          /\ i <= m
          /\ recorded' = 1 .. m
          /\ schema' = After[m] \/ (m < Last /\ schema' = After[m + 1])
  <2>1. CASE i = n + 1 /\ schema = After[n + 1]
    <3>1. n + 1 \in 0 .. Last /\ recorded' = 1 .. (n + 1) /\ i <= n + 1
        BY <1>2, <1>3, <2>1
    <3>2. schema' = After[n + 1]
        BY <1>3, <2>1
    <3> QED BY <3>1, <3>2
  <2>2. CASE i = 1 /\ n >= 1
    <3>1. recorded' = 1 .. n
        BY <1>2, <1>3, <2>2
    <3> QED BY <1>2, <1>3, <2>2, <3>1
  <2> QED BY <1>3, <2>1, <2>2
<1>5. PICK m \in 0 .. Last :
          /\ i <= m
          /\ recorded' = 1 .. m
          /\ schema' = After[m] \/ (m < Last /\ schema' = After[m + 1])
    BY <1>4
<1>6. Progress(m)' /\ i' \in 1 .. Last /\ pc' \in {"seed", "check"}
    BY <1>2, <1>3, <1>5, AdvanceProgress
<1>7. ProgressMade'
    BY <1>6 DEF ProgressMade
<1>8. AccountShape'
  <2>1. AccountOf(row)' = AccountOf(row)
      BY <1>3 DEF AccountOf, AccountFor
  <2>2. 15 \in recorded' => 15 \in recorded \/ i = 15
      BY <1>3
  <2> QED BY <1>3, <1>6, <2>1, <2>2 DEF IInv, AccountShape
<1>9. Types'
    BY <1>3, <1>6 DEF IInv, Types
<1> QED BY <1>6, <1>7, <1>8, <1>9 DEF IInv, AdminShape

(* The statement behind EnsureDefaultAdmin leaves an administrator, and    *)
(* the password and the status an account has.                             *)
LEMMA PromotedAdmin ==
    ASSUME Types
    PROVE  /\ Promoted(admin) \in AdminAccount
           /\ Promoted(admin).role = "admin"
           /\ Promoted(admin).password \in {"default", "own"}
           /\ Promoted(admin).status = IF admin = NoAdmin THEN "active"
                                                         ELSE admin.status
           /\ admin.password = "own" => Promoted(admin).password = "own"
<1>1. CASE admin = NoAdmin
    BY <1>1 DEF Promoted, Password, NoAdmin, AdminAccount, Status
<1>2. CASE admin \in AdminAccount
  <2>1. admin.password \in Password /\ admin.status \in Status
      BY <1>2 DEF AdminAccount
  <2>2. admin # NoAdmin
      BY <1>2, NoAdminIsNone
  <2> QED BY <2>1, <2>2 DEF Promoted, Password, AdminAccount
<1> QED BY <1>1, <1>2 DEF Types

LEMMA EnsureDefaultAdminStep ==
    ASSUME IInv, EnsureDefaultAdmin
    PROVE  IInv'
<1> USE DEF EnsureDefaultAdmin
<1>1. PICK n \in 0 .. Last : Progress(n)
    BY DEF IInv, ProgressMade
<1>2. Progress(n)'
    BY <1>1 DEF Progress
<1>3. ProgressMade'
    BY <1>2 DEF ProgressMade
<1>4. AccountShape'
  <2>1. AccountOf(row)' = AccountOf(row)
      BY DEF AccountOf, AccountFor
  <2> QED BY <2>1 DEF IInv, AccountShape
<1>5. Types'
    BY PromotedAdmin DEF IInv, Types
<1>6. AdminShape'
  <2>1. admin' # NoAdmin
      BY PromotedAdmin, NoAdminIsNone DEF IInv
  <2>2. admin'.status = IF disabled' THEN "disabled" ELSE "active"
      BY PromotedAdmin DEF IInv, AdminShape
  <2> QED BY <2>1, <2>2, PromotedAdmin DEF IInv, AdminShape
<1> QED BY <1>3, <1>4, <1>5, <1>6 DEF IInv

LEMMA ChangePasswordStep ==
    ASSUME IInv, ChangePassword
    PROVE  IInv'
<1> USE DEF ChangePassword
<1>1. PICK n \in 0 .. Last : Progress(n)
    BY DEF IInv, ProgressMade
<1>2. Progress(n)'
    BY <1>1 DEF Progress
<1>3. ProgressMade'
    BY <1>2 DEF ProgressMade
<1>4. AccountShape'
  <2>1. AccountOf(row)' = AccountOf(row)
      BY DEF AccountOf, AccountFor
  <2> QED BY <2>1 DEF IInv, AccountShape
<1>5. admin \in AdminAccount /\ admin.role = "admin"
      /\ admin.password \in {"default", "own"}
    BY DEF IInv, Types, AdminShape
<1>6. /\ admin' \in AdminAccount /\ admin'.role = "admin"
      /\ admin'.password \in {"default", "own"}
      /\ admin'.status = IF disabled' THEN "disabled" ELSE "active"
  <2>1. admin.status = IF disabled THEN "disabled" ELSE "active"
      BY <1>5, NoAdminIsNone DEF IInv, AdminShape
  <2> QED BY <1>5, <2>1 DEF AdminAccount, Password
<1>7. admin' # NoAdmin
    BY <1>6, NoAdminIsNone
<1>8. Types' /\ AdminShape'
    BY <1>6, <1>7 DEF IInv, Types, AdminShape
<1> QED BY <1>3, <1>4, <1>8 DEF IInv

LEMMA UpdateStatusStep ==
    ASSUME IInv, UpdateStatus
    PROVE  IInv'
<1> USE DEF UpdateStatus
<1>1. PICK n \in 0 .. Last : Progress(n)
    BY DEF IInv, ProgressMade
<1>2. Progress(n)'
    BY <1>1 DEF Progress
<1>3. ProgressMade'
    BY <1>2 DEF ProgressMade
<1>4. AccountShape'
  <2>1. AccountOf(row)' = AccountOf(row)
      BY DEF AccountOf, AccountFor
  <2> QED BY <2>1 DEF IInv, AccountShape
<1>5. admin \in AdminAccount /\ admin.role = "admin"
      /\ admin.password \in {"default", "own"}
    BY DEF IInv, Types, AdminShape
<1>6. /\ admin' \in AdminAccount /\ admin'.role = "admin"
      /\ admin'.password \in {"default", "own"} /\ disabled' \in BOOLEAN
      /\ admin'.status = IF disabled' THEN "disabled" ELSE "active"
  <2>1. PICK status \in Status :
            /\ admin' = [admin EXCEPT !.status = status]
            /\ disabled' = (status = "disabled")
      OBVIOUS
  <2> QED BY <1>5, <2>1 DEF AdminAccount, Status
<1>7. admin' # NoAdmin
    BY <1>6, NoAdminIsNone
<1>8. Types' /\ AdminShape'
    BY <1>6, <1>7 DEF IInv, Types, AdminShape
<1> QED BY <1>3, <1>4, <1>8 DEF IInv

LEMMA StutterStep ==
    ASSUME IInv, UNCHANGED vars
    PROVE  IInv'
<1> USE DEF vars
<1>1. PICK n \in 0 .. Last : Progress(n)
    BY DEF IInv, ProgressMade
<1>2. Progress(n)'
    BY <1>1 DEF Progress
<1>3. ProgressMade'
    BY <1>2 DEF ProgressMade
<1>4. AccountOf(row)' = AccountOf(row)
    BY DEF AccountOf, AccountFor
<1> QED BY <1>3, <1>4 DEF IInv, Types, AccountShape, AdminShape

-----------------------------------------------------------------------------
(* The theorems.                                                           *)

(* The inductive invariant holds throughout, for any number of faults.     *)
THEOREM StartupInvariance ==
    Spec => []IInv
<1>1. IInv /\ [Next]_vars => IInv'
  <2> SUFFICES ASSUME IInv, [Next]_vars
               PROVE  IInv'
      OBVIOUS
  <2> QED BY StartStep, StoreAnswersStep, CheckStep, CheckFailedStep,
             ApplyStep, ApplyRefusedStep, RecordStep, EnsureDefaultAdminStep,
             ChangePasswordStep, UpdateStatusStep, ExitStep, StutterStep
          DEF Next, Boot
<1> QED BY <1>1, InitInv, PTL DEF Spec

(* The state keeps its types.                                              *)
THEOREM StartupTypes ==
    Spec => []TypeOK
BY StartupInvariance, InvTypes, PTL

(* Whatever stops a start, and however often: at most one statement is     *)
(* applied and not recorded, none is recorded and not applied, and none is *)
(* skipped (store.go:38-62).                                               *)
THEOREM SchemaIsRecorded ==
    Spec => []SchemaFitsRecord
<1>1. IInv => SchemaFitsRecord
    BY ProgressSchema DEF IInv
<1> QED BY <1>1, StartupInvariance, PTL

(* A gateway that serves has the whole schema, an account named admin with *)
(* the role and a password, active unless an administrator has disabled it *)
(* (store.go:112-118), and its resources have the account they had in the  *)
(* earlier release, column by column (migrations.go:118-121).              *)
THEOREM ServingHasAll ==
    Spec => []ServesWhatItNeeds
<1>1. IInv => ServesWhatItNeeds
  <2> SUFFICES ASSUME IInv, pc = "serving"
               PROVE  ServesWhatItNeeds
      BY DEF ServesWhatItNeeds
  <2>1. PICK n \in 0 .. Last : Progress(n)
      BY DEF IInv, ProgressMade
  <2>2. n = Last /\ Last = 18
      BY <2>1, Statements DEF Progress
  <2>3. schema = After[Last]
      BY <2>1, <2>2 DEF Progress
  <2>4. 15 \in recorded
      BY <2>1, <2>2 DEF Progress
  <2>5. row # NoRow =>
            account = [column \in Column |->
                          IF row[column] = "writer" THEN "writer"
                                                    ELSE "reader"]
    <3>1. SUFFICES ASSUME row # NoRow
                   PROVE  account = [column \in Column |->
                                        IF row[column] = "writer" THEN "writer"
                                                                  ELSE "reader"]
        OBVIOUS
    <3>2. row \in WriteAccount /\ account = AccountOf(row)
        BY <2>4, <3>1 DEF IInv, Types, AccountShape
    <3>3. \A column \in Column :
              AccountFor(row[column]) = IF row[column] = "writer" THEN "writer"
                                                                  ELSE "reader"
        BY <3>2 DEF WriteAccount, AccountFor
    <3> QED BY <3>2, <3>3 DEF AccountOf
  <2> QED BY <2>3, <2>5 DEF IInv, AdminShape, ServesWhatItNeeds
<1> QED BY <1>1, StartupInvariance, PTL

(* No step, and so no later start, replaces a password the administrator   *)
(* has chosen (store.go:109-123).                                          *)
THEOREM OwnPasswordKept ==
    Spec => OwnPasswordStays
<1>1. IInv /\ [Next]_vars =>
          [admin.password = "own" => admin'.password = "own"]_vars
  <2> SUFFICES ASSUME IInv, Next, admin.password = "own"
               PROVE  admin'.password = "own"
      OBVIOUS
  <2>1. CASE EnsureDefaultAdmin
      BY <2>1, PromotedAdmin DEF EnsureDefaultAdmin, IInv
  <2>2. CASE ChangePassword
    <3>1. admin \in AdminAccount
        BY <2>2 DEF ChangePassword, IInv, Types, AdminShape
    <3> QED BY <2>2, <3>1 DEF ChangePassword, AdminAccount
  <2>3. CASE UpdateStatus
    <3>1. admin \in AdminAccount
        BY <2>3 DEF UpdateStatus, IInv, Types, AdminShape
    <3> QED BY <2>3, <3>1 DEF UpdateStatus, AdminAccount
  <2>4. CASE admin' = admin
      BY <2>4
  <2> QED BY <2>1, <2>2, <2>3, <2>4 DEF Next, Boot, Start, StoreAnswers, Check,
             CheckFailed, Apply, ApplyRefused, Record, Exit, store
<1> QED BY <1>1, StartupInvariance, PTL DEF Spec, OwnPasswordStays
=============================================================================
