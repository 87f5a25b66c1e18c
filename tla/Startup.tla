------------------------------- MODULE Startup ------------------------------
(***************************************************************************)
(* How a gateway comes up (cmd/gateway/main.go): it brings the control     *)
(* store's schema up to date (Store.Migrate and the statements of          *)
(* internal/control/migrations.go), makes sure there is an administrator   *)
(* (EnsureDefaultAdmin) and serves.  Whatever goes wrong on the way, the   *)
(* process exits and the container is started again.  One gateway: with    *)
(* several, README.en.md:232 asks for a lock around the migrations.        *)
(*                                                                         *)
(* The schema is the set of tables and columns that later statements rely  *)
(* on.  In it "account" stands for the columns username and secret_ref,    *)
(* "read" and "write" for the two pairs of columns these replace; the      *)
(* values of a pair are kept apart, for the backfill sets each by itself.  *)
(***************************************************************************)
EXTENDS Naturals, Sequences

CONSTANTS
    MaxFaults    \* bound on crashes, failed statements and missed deadlines

ASSUME StartupAssumption == MaxFaults \in Nat

Create(table, columns) ==
    [kind |-> "create", table |-> table, adds |-> columns, drops |-> {}]

Alter(table, adds, drops) ==
    [kind |-> "alter", table |-> table, adds |-> adds, drops |-> drops]

Migrations == <<
    Create("schema_migrations", {}),
    Create("principals", {}),
    Create("api_tokens", {}),
    Create("database_resources", {"read", "write"}),
    Create("grants", {}),
    Create("audit_logs", {}),
    Create("admin_audit_logs", {}),
    Alter("audit_logs", {"sql_text"}, {}),
    Alter("principals", {"role", "password_hash"}, {}),
    Create("web_sessions", {}),
    Create("masking_rules", {}),
    Alter("masking_rules", {"keep_prefix", "keep_suffix"}, {}),
    Alter("api_tokens", {"token_ciphertext"}, {}),
    Alter("database_resources", {"account"}, {}),
    [kind |-> "backfill", table |-> "database_resources",
     adds |-> {}, drops |-> {}],
    [kind |-> "modify", table |-> "database_resources",
     adds |-> {"account NOT NULL"}, drops |-> {}],
    Alter("database_resources", {}, {"read", "write"}),
    Alter("database_resources", {"password_ciphertext"}, {}) >>

Last == Len(Migrations)

(* The schema a statement leaves.  CREATE TABLE IF NOT EXISTS leaves a     *)
(* table that is there alone.                                              *)
Effect(i, s) ==
    LET m == Migrations[i]
    IN CASE m.kind = "create" ->
              IF m.table \in s THEN s ELSE s \cup {m.table} \cup m.adds
         [] OTHER -> (s \cup m.adds) \ m.drops

(* What the first n statements make of an empty database. *)
After[n \in 0 .. Last] == IF n = 0 THEN {} ELSE Effect(n, After[n - 1])

VARIABLES
    schema,    \* tables and columns of the control store
    recorded,  \* the versions in schema_migrations
    row,       \* a resource of an old release: its write account, or NoRow
    account,   \* that resource's account
    admin,     \* the account named admin
    disabled,  \* whether an administrator has disabled that account
    pc, i,     \* where the gateway stands, and at which statement
    faults     \* faults so far

store == <<schema, recorded, row, account, admin, disabled>>
vars == <<schema, recorded, row, account, admin, disabled, pc, i, faults>>

Column == {"username", "secret_ref"}
NoRow == [column \in Column |-> "absent"]
WriteAccount == [Column -> {"NULL", "", "writer"}]
NoAccount == [column \in Column |-> "NULL"]

Password == {"NULL", "default", "own"}
Status == {"active", "disabled"}
NoAdmin == [password |-> "none", role |-> "none", status |-> "none"]
AdminAccount == [password : Password, role : {"user", "admin"}, status : Status]

(* A column of the write account that is the empty string counts as none. *)
AccountFor(write) == IF write \in {"NULL", ""} THEN "reader" ELSE write

(* An empty database, or one that an earlier release has left, with an     *)
(* account and a resource its version admits.                              *)
Init ==
    /\ \E n \in 0 .. Last :
          /\ schema = After[n]
          /\ recorded = 1 .. n
          /\ row \in {NoRow} \cup (IF n < 4 THEN {} ELSE WriteAccount)
          /\ account = IF n < 15 \/ row = NoRow THEN NoAccount
                       ELSE [column \in Column |-> AccountFor(row[column])]
          /\ admin \in {NoAdmin} \cup
                {a \in AdminAccount :
                    /\ n >= 2
                    /\ n < 9 => a.password = "NULL" /\ a.role = "user"}
    /\ disabled = (admin.status = "disabled")
    /\ pc = "down"
    /\ i = 1
    /\ faults = 0

TypeOK ==
    /\ schema \subseteq UNION {After[n] : n \in 0 .. Last}
    /\ recorded \subseteq 1 .. Last
    /\ row \in {NoRow} \cup WriteAccount
    /\ account \in [Column -> {"NULL", "reader", "writer"}]
    /\ admin \in {NoAdmin} \cup AdminAccount
    /\ disabled \in BOOLEAN
    /\ pc \in {"down", "wait", "check", "apply", "record", "seed", "serving"}
    /\ i \in 1 .. Last
    /\ faults \in 0 .. MaxFaults

-----------------------------------------------------------------------------
(* The container is started; the process waits for the store to answer.    *)
Start ==
    /\ pc = "down"
    /\ pc' = "wait"
    /\ UNCHANGED <<store, i, faults>>

StoreAnswers ==
    /\ pc = "wait"
    /\ pc' = "check"
    /\ i' = 1
    /\ UNCHANGED <<store, faults>>

(* On to the next statement, or out of Migrate. *)
Advance ==
    IF i = Last THEN pc' = "seed" /\ UNCHANGED i
                ELSE pc' = "check" /\ i' = i + 1

(* Mutant: a statement is recorded, then applied. *)
RecordFirst == <<"record", "apply">>

Stages == <<"apply", "record">>

Leave(stage) ==
    LET n == CHOOSE n \in DOMAIN Stages : Stages[n] = stage
    IN IF n = Len(Stages) THEN Advance ELSE pc' = Stages[n + 1] /\ UNCHANGED i

(* The first statement is not applied if its table can be read. *)
Check ==
    /\ pc = "check"
    /\ "schema_migrations" \in schema
    /\ IF i \in recorded THEN Advance
       ELSE /\ pc' = IF i = 1 THEN "record" ELSE Head(Stages)
            /\ UNCHANGED i
    /\ UNCHANGED <<store, faults>>

(* Mutant: an error of the first check is an error like any other. *)
NoneForgiven == {}

(* The versions whose check may fail, for whatever reason: the table is    *)
(* then created, if need be.                                               *)
Forgiven == {1}

CheckFailed ==
    /\ pc = "check"
    /\ IF "schema_migrations" \in schema
       THEN faults < MaxFaults /\ faults' = faults + 1
       ELSE UNCHANGED faults
    /\ pc' = IF i \in Forgiven THEN "apply" ELSE "down"
    /\ UNCHANGED <<store, i>>

(* MySQL refuses a column that is there, a column or a table that is not,  *)
(* and NOT NULL where there is a NULL.                                     *)
Refused(n) ==
    LET m == Migrations[n]
    IN \/ m.kind # "create" /\ m.table \notin schema
       \/ m.kind = "alter" /\ m.adds \cap schema # {}
       \/ m.kind = "alter" /\ ~(m.drops \subseteq schema)
       \/ /\ m.kind = "backfill"
          /\ ~({"account", "read", "write"} \subseteq schema)
       \/ /\ m.kind = "modify"
          /\ row # NoRow
          /\ \E column \in Column : account[column] = "NULL"

(* Mutant: COALESCE without NULLIF takes the empty string. *)
AnyWriteAccount(write) == IF write = "NULL" THEN "reader" ELSE write

BackfilledFrom(write) == AccountFor(write)

(* The backfill sets both columns where username is NULL, each from its    *)
(* own: of a write account of which one part is missing it makes a mixed   *)
(* pair.  A statement is applied as a whole; it may be lost to a deadline  *)
(* or a crash after that, which is Exit.                                   *)
Apply ==
    /\ pc = "apply"
    /\ ~Refused(i)
    /\ schema' = Effect(i, schema)
    /\ account' = IF /\ Migrations[i].kind = "backfill"
                     /\ row # NoRow
                     /\ account["username"] = "NULL"
                  THEN [column \in Column |-> BackfilledFrom(row[column])]
                  ELSE account
    /\ Leave("apply")
    /\ UNCHANGED <<recorded, row, admin, disabled, faults>>

ApplyRefused ==
    /\ pc = "apply"
    /\ Refused(i)
    /\ pc' = "down"
    /\ UNCHANGED <<store, i, faults>>

Record ==
    /\ pc = "record"
    /\ recorded' = recorded \cup {i}
    /\ Leave("record")
    /\ UNCHANGED <<schema, row, account, admin, disabled, faults>>

-----------------------------------------------------------------------------
(* Mutant: the password is set whether the account has one or not. *)
AlwaysDefault(a) ==
    [password |-> "default", role |-> "admin",
     status |-> IF a = NoAdmin THEN "active" ELSE a.status]

(* Mutant: the role is all that counts, the status is set with it. *)
Reactivated(a) ==
    [password |-> IF a.password \in {"none", "NULL"} THEN "default"
                                                     ELSE a.password,
     role |-> "admin", status |-> "active"]

(* INSERT ... ON DUPLICATE KEY UPDATE: an account named admin gets the     *)
(* role, and the default password if it has none; its status is left.      *)
Promoted(a) ==
    [password |-> IF a.password \in {"none", "NULL"} THEN "default"
                                                     ELSE a.password,
     role |-> "admin",
     status |-> IF a = NoAdmin THEN "active" ELSE a.status]

EnsureDefaultAdmin ==
    /\ pc = "seed"
    /\ admin' = Promoted(admin)
    /\ pc' = "serving"
    /\ UNCHANGED <<schema, recorded, row, account, disabled, i, faults>>

(* The administrator changes the default password, for which the account   *)
(* has to be active.                                                       *)
ChangePassword ==
    /\ pc = "serving"
    /\ admin.status = "active"
    /\ admin' = [admin EXCEPT !.password = "own"]
    /\ UNCHANGED <<schema, recorded, row, account, disabled, pc, i, faults>>

(* An administrator, or who has ADMIN_TOKEN, disables the account or       *)
(* enables it again.                                                       *)
UpdateStatus ==
    /\ pc = "serving"
    /\ \E status \in Status :
          /\ admin' = [admin EXCEPT !.status = status]
          /\ disabled' = (status = "disabled")
    /\ UNCHANGED <<schema, recorded, row, account, pc, i, faults>>

(* A crash, a statement that fails or is lost to the deadline of 45 s, a   *)
(* store that does not answer, a stop of the container.                    *)
Exit ==
    /\ pc # "down"
    /\ faults < MaxFaults
    /\ faults' = faults + 1
    /\ pc' = "down"
    /\ UNCHANGED <<store, i>>

-----------------------------------------------------------------------------
Boot ==
    \/ Start \/ StoreAnswers \/ Check \/ CheckFailed
    \/ Apply \/ ApplyRefused \/ Record \/ EnsureDefaultAdmin

Next == Boot \/ ChangePassword \/ UpdateStatus \/ Exit

Spec == Init /\ [][Next]_vars

(* docker-compose.yml restarts the container whenever it stops, and the    *)
(* process runs on until something stops it.                               *)
FairSpec == Spec /\ WF_vars(Boot)

-----------------------------------------------------------------------------
(* Properties.                                                             *)

(* The versions recorded are a prefix of the statements, and the schema is *)
(* the one they make or the one a step further: whatever stops a start, at *)
(* most one statement is applied and not recorded, none is recorded and    *)
(* not applied, and none is skipped (store.go:38-62).                      *)
SchemaFitsRecord ==
    \E n \in 0 .. Last :
        /\ recorded = 1 .. n
        /\ \/ schema = After[n]
           \/ n < Last /\ schema = After[n + 1]

(* A gateway that serves has the whole schema, and an account named admin  *)
(* with the role and a password, which is active unless an administrator   *)
(* has disabled it: a start neither enables nor disables an account        *)
(* (store.go:112-118).  Its resources have the account of the earlier      *)
(* release, column by column: what the write account had there, or else    *)
(* what the read account had, however often the backfill ran               *)
(* (migrations.go:118-121).                                                *)
ServesWhatItNeeds ==
    pc = "serving" =>
        /\ schema = After[Last]
        /\ admin.role = "admin" /\ admin.password \in {"default", "own"}
        /\ admin.status = IF disabled THEN "disabled" ELSE "active"
        /\ row # NoRow =>
              account = [column \in Column |->
                            IF row[column] = "writer" THEN "writer"
                                                      ELSE "reader"]

(* README.en.md:91 and 167: the administrator changes the default          *)
(* password.  No later start of the gateway brings the default back.       *)
OwnPasswordStays ==
    [][admin.password = "own" => admin'.password = "own"]_vars

(* A statement that cannot be repeated is applied but not recorded. *)
HalfDone ==
    \E n \in 1 .. Last :
        /\ Migrations[n].kind = "alter"
        /\ n \notin recorded
        /\ schema = After[n]

(* Faults stop for a while: the gateway then comes up and keeps serving,   *)
(* unless an ALTER was applied and not recorded; every start then ends at  *)
(* that statement (store.go:54-56).                                        *)
ComesUpUnlessHalfDone == <>[](pc = "serving") \/ <>[]HalfDone
=============================================================================
