------------------------------- MODULE Query --------------------------------
(***************************************************************************)
(* The query service (internal/query/service.go): Execute with its read    *)
(* and write paths, ListTables and DescribeTable, running against a        *)
(* control store that administrators change at the same time.              *)
(*                                                                         *)
(* Every read and write of the control store is one statement, or one      *)
(* transaction, and one step; between two of them the policy may change.   *)
(* The policy that bears on one principal and one resource is a record;    *)
(* policy[n] is its n-th state and policy[now] the current one, so that a  *)
(* request's reads are remembered as positions in that history.            *)
(***************************************************************************)
EXTENDS Authz

CONSTANTS
    Request,      \* executions of Execute, ListTables and DescribeTable
    Kinds,        \* what they ask for: "read", "write", "tables", "describe"
    WriteLimits,  \* values of max_write_rows
    MaxAffected,  \* bound on the rows a write statement touches
    MaxChanges,   \* bound on the number of policy changes
    Grantable,    \* the actions grants are given for
    Terms,        \* what a grant may ask for besides its action
    NoGrant,      \* no effective grant for an action
    Faults        \* a subset of {"audit", "crash"}: what may go wrong

Kind == {"read", "write", "tables", "describe"}

ASSUME QueryAssumption ==
    /\ Kinds \subseteq Kind
    /\ WriteLimits \subseteq Nat
    /\ MaxAffected \in Nat
    /\ MaxChanges \in Nat
    /\ Grantable \subseteq Action
    /\ Faults \subseteq {"audit", "crash"}
    /\ NoGrant \notin Terms

VARIABLES
    policy,    \* the states of the control store, up to now
    now,       \* the current one
    pc,        \* where a request stands
    kind,      \* what it asks for
    reason,    \* whether it carries a reason
    round,     \* first or second run of authorizeResource
    resource,  \* when GetResourceByKey read the resource
    rulesAt,   \* when MaskRules read the masking rules
    ranAt,     \* when the target was done with the statement
    endAt,     \* when rows were handed over or the write committed
    affected,  \* the rows a write touched
    verdict,   \* the outcome auditFailure is to record
    audit,     \* the outcome in the request's audit row
    lost,      \* history: a write of that row has reported an error
    tx,        \* its transaction on the target
    reply      \* what the caller got

policyVars == <<policy, now>>
given == <<policyVars, kind, reason>>
traceVars == <<resource, rulesAt, ranAt, endAt>>
auditVars == <<audit, lost>>
vars == <<policy, now, pc, kind, reason, round, resource, rulesAt, ranAt,
          endAt, affected, verdict, audit, lost, tx, reply>>

Outcome == {"none", "RECEIVED", "REJECTED", "DENIED", "FAILED", "SUCCEEDED",
            "COMMITTED"}
PC == {"idle", "lookup", "receive", "vet", "principal", "resource", "grants",
       "pool", "rules", "run", "commit", "audit", "fail", "unwind", "done"}
Reply == {"none", "error", "rows", "committed", "withheld", "unaudited",
          "crashed"}

Policy == [active : BOOLEAN,                \* principal status is active
           enabled : BOOLEAN,               \* resource enabled
           version : Nat,                   \* resource version
           masked : BOOLEAN,                \* a masking rule is not plain
           writeLimit : WriteLimits,        \* max_write_rows
           grants : [Grantable -> Terms \cup {NoGrant}]]

Moment == 0 .. MaxChanges

TypeOK ==
    /\ policy \in [Moment -> Policy]
    /\ now \in Moment
    /\ pc \in [Request -> PC]
    /\ kind \in [Request -> Kinds]
    /\ reason \in [Request -> BOOLEAN]
    /\ round \in [Request -> 1 .. 2]
    /\ resource \in [Request -> Moment]
    /\ rulesAt \in [Request -> Moment]
    /\ ranAt \in [Request -> Moment]
    /\ endAt \in [Request -> Moment]
    /\ affected \in [Request -> 0 .. MaxAffected]
    /\ verdict \in [Request -> Outcome]
    /\ audit \in [Request -> Outcome]
    /\ lost \in [Request -> BOOLEAN]
    /\ tx \in [Request -> {"none", "open", "committed", "rolledback"}]
    /\ reply \in [Request -> Reply]

(* The first policy fills the history: positions after now mean nothing. *)
Init ==
    /\ \E masking \in BOOLEAN, limit \in WriteLimits,
          granted \in [Grantable -> Terms \cup {NoGrant}] :
          policy = [n \in Moment |->
                      [active |-> TRUE, enabled |-> TRUE, version |-> 1,
                       masked |-> masking, writeLimit |-> limit,
                       grants |-> granted]]
    /\ now = 0
    /\ pc = [q \in Request |-> "idle"]
    /\ kind \in [Request -> Kinds]
    /\ reason \in [Request -> BOOLEAN]
    /\ round = [q \in Request |-> 1]
    /\ resource = [q \in Request |-> 0]
    /\ rulesAt = [q \in Request |-> 0]
    /\ ranAt = [q \in Request |-> 0]
    /\ endAt = [q \in Request |-> 0]
    /\ affected = [q \in Request |-> 0]
    /\ verdict = [q \in Request |-> "none"]
    /\ audit = [q \in Request |-> "none"]
    /\ lost = [q \in Request |-> FALSE]
    /\ tx = [q \in Request |-> "none"]
    /\ reply = [q \in Request |-> "none"]

-----------------------------------------------------------------------------
(* The control store's administrators.                                     *)

(* Bounds: MaxChanges, and changes only while a request is under way. *)
Change(p) ==
    /\ now < MaxChanges
    /\ \E q \in Request : pc[q] \notin {"idle", "done"}
    /\ policy' = [policy EXCEPT ![now + 1] = p]
    /\ now' = now + 1
    /\ UNCHANGED <<pc, kind, reason, round, traceVars, affected, verdict,
                   auditVars, tx, reply>>

Current == policy[now]

(* UpdatePrincipal disables or enables the account. *)
SetPrincipalStatus == Change([Current EXCEPT !.active = ~@])

(* Mutant: an update leaves the resource's version as it is. *)
SameVersion(p) == p

NextVersion(p) == [p EXCEPT !.version = @ + 1]

UpdateResource ==
    \E limit \in WriteLimits, on \in BOOLEAN :
        Change([NextVersion(Current) EXCEPT !.writeLimit = limit,
                                            !.enabled = on])

RuleVersion(p) == NextVersion(p)

(* Rule and version change in one transaction. *)
SaveMaskRule ==
    \E on \in BOOLEAN : Change([RuleVersion(Current) EXCEPT !.masked = on])

UpsertGrant ==
    \E a \in Grantable, t \in Terms : Change([Current EXCEPT !.grants[a] = t])

RevokeGrant ==
    \E a \in Grantable : /\ Current.grants[a] # NoGrant
                         /\ Change([Current EXCEPT !.grants[a] = NoGrant])

AdminStep ==
    SetPrincipalStatus \/ UpdateResource \/ SaveMaskRule \/ UpsertGrant
        \/ RevokeGrant

-----------------------------------------------------------------------------
(* What a request does.                                                    *)

IsQuery(q) == kind[q] \in {"read", "write"}

ActionFor(what) ==
    CASE what = "read" -> "query_read"
      [] what = "write" -> "query_write"
      [] OTHER -> "schema_read"

ActionOf(q) == ActionFor(kind[q])

(* The rows EffectiveGrants returns: those not revoked. *)
EffectiveGrants(p) ==
    LET row(a) == [action |-> a, requireReason |-> p.grants[a].requireReason,
                   rowLimit |-> p.grants[a].rowLimit, timeout |-> Unset]
        held == SelectSeq(<<"query_read", "query_write", "schema_read">>,
                          LAMBDA a : a \in Grantable /\ p.grants[a] # NoGrant)
    IN [i \in DOMAIN held |-> row(held[i])]

DecisionOn(p, q) == Evaluate(EffectiveGrants(p), ActionOf(q))

Permits(p, q) == DecisionOn(p, q).allowed

SameResource(q, n) == policy[n].version = policy[resource[q]].version

Goto(q, there) ==
    /\ pc' = [pc EXCEPT ![q] = there]
    /\ UNCHANGED reply

Answer(q, what) ==
    /\ pc' = [pc EXCEPT ![q] = "done"]
    /\ reply' = [reply EXCEPT ![q] = what]

(* An error: Execute first records the outcome, the schema tools do not. *)
Fail(q, outcome) ==
    IF IsQuery(q)
    THEN /\ Goto(q, "fail")
         /\ verdict' = [verdict EXCEPT ![q] = outcome]
    ELSE /\ Answer(q, "error")
         /\ UNCHANGED verdict

Start(q) ==
    /\ pc[q] = "idle"
    /\ Goto(q, "lookup")
    /\ UNCHANGED <<given, round, traceVars, affected, verdict, auditVars, tx>>

(* GetResourceByKey.  Only Execute looks at Enabled here. *)
Lookup(q) ==
    /\ pc[q] = "lookup"
    /\ IsQuery(q) => Current.enabled
    /\ resource' = [resource EXCEPT ![q] = now]
    /\ Goto(q, IF IsQuery(q) THEN "receive" ELSE "principal")
    /\ UNCHANGED <<given, round, rulesAt, ranAt, endAt, affected, verdict,
                   auditVars, tx>>

(* The resource is disabled, unknown or cannot be read: no audit row. *)
LookupFailed(q) ==
    /\ pc[q] = "lookup"
    /\ Answer(q, "error")
    /\ UNCHANGED <<given, round, traceVars, affected, verdict, auditVars, tx>>

(* InsertAudit precedes everything else Execute does. *)
Receive(q) ==
    /\ pc[q] = "receive"
    /\ audit' = [audit EXCEPT ![q] = "RECEIVED"]
    /\ Goto(q, "vet")
    /\ UNCHANGED <<given, round, traceVars, affected, verdict, lost, tx>>

(* An insert that reports an error may have been applied all the same. *)
ReceiveFailed(q) ==
    /\ pc[q] = "receive"
    /\ "audit" \in Faults
    /\ \E outcome \in {"none", "RECEIVED"} :
          audit' = [audit EXCEPT ![q] = outcome]
    /\ lost' = [lost EXCEPT ![q] = TRUE]
    /\ Answer(q, "error")
    /\ UNCHANGED <<given, round, traceVars, affected, verdict, tx>>

(* The reason is too long, or sqlguard.Inspect refuses the statement. *)
VetFailed(q) ==
    /\ pc[q] = "vet"
    /\ Fail(q, "REJECTED")
    /\ UNCHANGED <<given, round, traceVars, affected, auditVars, tx>>

Vet(q) ==
    /\ pc[q] = "vet"
    /\ Goto(q, "principal")
    /\ UNCHANGED <<given, round, traceVars, affected, verdict, auditVars, tx>>

-----------------------------------------------------------------------------
(* authorizeResource: three reads of the store.  Each of them may fail.    *)

AuthorizeFailed(q) ==
    /\ pc[q] \in {"principal", "resource", "grants"}
    /\ Fail(q, "DENIED")
    /\ UNCHANGED <<given, round, traceVars, affected, auditVars, tx>>

(* Mutant: the status is not looked at. *)
AnyStatus(p) == TRUE

StatusIsActive(p) == p.active

CheckPrincipal(q) ==
    /\ pc[q] = "principal"
    /\ StatusIsActive(Current)
    /\ Goto(q, "resource")
    /\ UNCHANGED <<given, round, traceVars, affected, verdict, auditVars, tx>>

ResourceUnchanged(q) == Current.enabled /\ SameResource(q, now)

CheckResource(q) ==
    /\ pc[q] = "resource"
    /\ ResourceUnchanged(q)
    /\ Goto(q, "grants")
    /\ UNCHANGED <<given, round, traceVars, affected, verdict, auditVars, tx>>

(* Mutant: a required reason is not asked for. *)
GrantAlone(q) == Permits(Current, q)

(* The first time, a reason that a grant requires must be there.  The      *)
(* second time the constraints are not looked at.                          *)
GrantSuffices(q) ==
    /\ Permits(Current, q)
    /\ IsQuery(q) /\ round[q] = 1 /\ DecisionOn(Current, q).requireReason
         => reason[q]

NextAfterGrants(q) ==
    IF round[q] = 1 THEN "pool"
    ELSE IF kind[q] = "write" THEN "commit" ELSE "audit"

CheckGrants(q) ==
    /\ pc[q] = "grants"
    /\ GrantSuffices(q)
    /\ Goto(q, NextAfterGrants(q))
    /\ UNCHANGED <<given, round, traceVars, affected, verdict, auditVars, tx>>

-----------------------------------------------------------------------------
(* Pool, masking rules and the statement itself.                           *)

(* registry.Get; ListTables goes straight on to its statement. *)
GetPool(q) ==
    /\ pc[q] = "pool"
    /\ Goto(q, IF kind[q] = "tables" THEN "run" ELSE "rules")
    /\ UNCHANGED <<given, round, traceVars, affected, verdict, auditVars, tx>>

(* The pool, the rules or the target are not available, or the statement   *)
(* fails or runs into its timeout.  A write's transaction may be open.     *)
TargetFailed(q) ==
    /\ pc[q] \in {"pool", "rules", "run"}
    /\ Fail(q, "FAILED")
    /\ tx' \in {tx, IF kind[q] = "write" /\ pc[q] = "run"
                    THEN [tx EXCEPT ![q] = "open"] ELSE tx}
    /\ UNCHANGED <<given, round, traceVars, affected, auditVars>>

(* With an active rule a read is rewritten; a write is refused. *)
ReadRules(q) ==
    /\ pc[q] = "rules"
    /\ kind[q] = "write" => ~Current.masked
    /\ rulesAt' = [rulesAt EXCEPT ![q] = now]
    /\ Goto(q, "run")
    /\ UNCHANGED <<given, round, resource, ranAt, endAt, affected, verdict,
                   auditVars, tx>>

(* masking.Rewrite refuses a statement it cannot mask safely. *)
MaskingRejects(q) ==
    /\ pc[q] = "rules"
    /\ IsQuery(q)
    /\ Current.masked
    /\ rulesAt' = [rulesAt EXCEPT ![q] = now]
    /\ Fail(q, "REJECTED")
    /\ UNCHANGED <<given, round, resource, ranAt, endAt, affected, auditVars, tx>>

(* executeRead has fetched its rows and authorizes once more. *)
RunRead(q) ==
    /\ pc[q] = "run"
    /\ kind[q] = "read"
    /\ ranAt' = [ranAt EXCEPT ![q] = now]
    /\ round' = [round EXCEPT ![q] = 2]
    /\ Goto(q, "principal")
    /\ UNCHANGED <<given, resource, rulesAt, endAt, affected, verdict, auditVars,
                   tx>>

(* ListTables and DescribeTable return what they read. *)
RunSchema(q) ==
    /\ pc[q] = "run"
    /\ ~IsQuery(q)
    /\ ranAt' = [ranAt EXCEPT ![q] = now]
    /\ endAt' = [endAt EXCEPT ![q] = now]
    /\ Answer(q, "rows")
    /\ UNCHANGED <<given, round, resource, rulesAt, affected, verdict, auditVars,
                   tx>>

(* executeWrite opens a transaction and runs the statement; a statement    *)
(* that touches too many rows is refused, the others authorize once more.  *)
RunWrite(q) ==
    /\ pc[q] = "run"
    /\ kind[q] = "write"
    /\ tx' = [tx EXCEPT ![q] = "open"]
    /\ ranAt' = [ranAt EXCEPT ![q] = now]
    /\ \E n \in 0 .. MaxAffected :
          /\ affected' = [affected EXCEPT ![q] = n]
          /\ \/ /\ n > policy[resource[q]].writeLimit
                /\ Fail(q, "REJECTED")
                /\ UNCHANGED round
             \/ /\ n <= policy[resource[q]].writeLimit
                /\ Goto(q, "principal")
                /\ round' = [round EXCEPT ![q] = 2]
                /\ UNCHANGED verdict
    /\ UNCHANGED <<given, resource, rulesAt, endAt, auditVars>>

-----------------------------------------------------------------------------
(* The end of a request.                                                   *)

Commit(q) ==
    /\ pc[q] = "commit"
    /\ tx' = [tx EXCEPT ![q] = "committed"]
    /\ endAt' = [endAt EXCEPT ![q] = now]
    /\ Goto(q, "audit")
    /\ UNCHANGED <<given, round, resource, rulesAt, ranAt, affected, verdict,
                   auditVars>>

(* Commit reports an error.  The answer may have been lost on its way, so  *)
(* the target may have committed.                                          *)
CommitFailed(q) ==
    /\ pc[q] = "commit"
    /\ \E state \in {"committed", "rolledback"} :
          tx' = [tx EXCEPT ![q] = state]
    /\ endAt' = [endAt EXCEPT ![q] = now]
    /\ Fail(q, "FAILED")
    /\ UNCHANGED <<given, round, resource, rulesAt, ranAt, affected, auditVars>>

Final(q) == IF kind[q] = "write" THEN "COMMITTED" ELSE "SUCCEEDED"

(* The final UpdateAudit, then the answer. *)
FinalAudit(q) ==
    /\ pc[q] = "audit"
    /\ audit' = [audit EXCEPT ![q] = Final(q)]
    /\ Answer(q, IF kind[q] = "write" THEN "committed" ELSE "rows")
    /\ endAt' = IF kind[q] = "write" THEN endAt
                                     ELSE [endAt EXCEPT ![q] = now]
    /\ UNCHANGED <<given, round, resource, rulesAt, ranAt, affected, verdict,
                   lost, tx>>

(* Mutant: the rows are returned although their audit failed. *)
FailedAuditReturnsRows(q) == IF kind[q] = "write" THEN "unaudited" ELSE "rows"

FailedAuditReply(q) == IF kind[q] = "write" THEN "unaudited" ELSE "withheld"

(* The update reports an error, applied or not: rows are withheld, and of  *)
(* a committed write the caller is told that its audit failed.             *)
FinalAuditFailed(q) ==
    /\ pc[q] = "audit"
    /\ "audit" \in Faults
    /\ \E outcome \in {audit[q], Final(q)} :
          audit' = [audit EXCEPT ![q] = outcome]
    /\ lost' = [lost EXCEPT ![q] = TRUE]
    /\ Answer(q, FailedAuditReply(q))
    /\ UNCHANGED <<given, round, traceVars, affected, verdict, tx>>

(* Mutant: the outcome is not written. *)
ForgetOutcome(q) ==
    /\ pc[q] = "fail"
    /\ Goto(q, "unwind")
    /\ UNCHANGED <<given, round, traceVars, affected, verdict, auditVars, tx>>

(* auditFailure ignores the error of its UpdateAudit. *)
AuditFailure(q) ==
    /\ pc[q] = "fail"
    /\ \/ /\ audit' = [audit EXCEPT ![q] = verdict[q]]
          /\ UNCHANGED lost
       \/ /\ "audit" \in Faults
          /\ audit' \in {audit, [audit EXCEPT ![q] = verdict[q]]}
          /\ lost' = [lost EXCEPT ![q] = TRUE]
    /\ Goto(q, "unwind")
    /\ UNCHANGED <<given, round, traceVars, affected, verdict, tx>>

(* Mutant: the transaction is not rolled back on an error. *)
NotUndone(q) == tx

Undone(q) == [tx EXCEPT ![q] = IF @ = "open" THEN "rolledback" ELSE @]

(* The deferred Rollback of executeWrite, then the error is returned. *)
Unwind(q) ==
    /\ pc[q] = "unwind"
    /\ tx' = Undone(q)
    /\ Answer(q, "error")
    /\ UNCHANGED <<given, round, traceVars, affected, verdict, auditVars>>

(* The gateway dies with all its requests; the target rolls back what was  *)
(* not committed.                                                          *)
Crash ==
    /\ "crash" \in Faults
    /\ \E q \in Request : pc[q] \notin {"idle", "done"}
    /\ pc' = [q \in Request |-> IF pc[q] = "idle" THEN "idle" ELSE "done"]
    /\ reply' = [q \in Request |-> IF pc[q] \in {"idle", "done"}
                                   THEN reply[q] ELSE "crashed"]
    /\ tx' = [q \in Request |-> Undone(q)[q]]
    /\ UNCHANGED <<given, round, traceVars, affected, verdict, auditVars>>

RequestStep(q) ==
    \/ Lookup(q) \/ LookupFailed(q) \/ Receive(q) \/ ReceiveFailed(q)
    \/ Vet(q) \/ VetFailed(q)
    \/ CheckPrincipal(q) \/ CheckResource(q) \/ CheckGrants(q)
    \/ AuthorizeFailed(q)
    \/ GetPool(q) \/ TargetFailed(q) \/ ReadRules(q) \/ MaskingRejects(q)
    \/ RunRead(q) \/ RunSchema(q) \/ RunWrite(q)
    \/ Commit(q) \/ CommitFailed(q)
    \/ FinalAudit(q) \/ FinalAuditFailed(q) \/ AuditFailure(q) \/ Unwind(q)

(* Every request has its answer. *)
Quiet == (\A q \in Request : pc[q] = "done") /\ UNCHANGED vars

Next ==
    \/ AdminStep
    \/ \E q \in Request : Start(q) \/ RequestStep(q)
    \/ Crash
    \/ Quiet

Spec == Init /\ [][Next]_vars

(* A statement on the target runs under the statement timeout, a failure's *)
(* UpdateAudit under two seconds of its own.  The reads of the control     *)
(* store run under the request's context, and the final UpdateAudit under  *)
(* none: that they end is what a reachable store and its driver promise.   *)
Fairness == \A q \in Request : WF_vars(RequestStep(q))

FairSpec == Spec /\ Fairness

-----------------------------------------------------------------------------
(* Properties.                                                             *)

(* The three things authorizeResource reads held one after the other,      *)
(* after the target was done with the statement and before the end.        *)
RecheckedSince(q) ==
    \E i, j, k \in Moment :
        /\ ranAt[q] <= i /\ i <= j /\ j <= k /\ k <= endAt[q]
        /\ policy[i].active
        /\ policy[j].enabled /\ SameResource(q, j)
        /\ Permits(policy[k], q)

HasRows(q) == kind[q] = "read" /\ reply[q] = "rows"
HasCommitted(q) == tx[q] = "committed"

(* README.en.md:34: rows are returned, and a write is committed, only if,  *)
(* after the statement ran, the principal was active, the resource enabled *)
(* and unchanged, and a grant permitted it.  A policy withdrawn while the  *)
(* statement ran, and not restored, withholds the rows and rolls back.     *)
AuthorizedAgain ==
    \A q \in Request : HasRows(q) \/ HasCommitted(q) => RecheckedSince(q)

(* docs/masking-and-mcp.md:48: the rows returned were masked by rules that *)
(* were still in force after the query ran, whatever rules changed since   *)
(* the request began; no write commits while a rule is active, or with     *)
(* more rows than the max_write_rows then in force, not merely the one the *)
(* request began with.                                                     *)
CurrentRulesApplied ==
    \A q \in Request : HasRows(q) \/ HasCommitted(q) =>
        \E j \in ranAt[q] .. endAt[q] :
            /\ SameResource(q, j)
            /\ policy[rulesAt[q]].masked = policy[j].masked
            /\ HasCommitted(q) => /\ ~policy[j].masked
                                  /\ affected[q] <= policy[j].writeLimit

(* What the audit row of a request says of it. *)
AuditTells(q) ==
    /\ tx[q] # "none" => audit[q] # "none"
    /\ audit[q] = "COMMITTED" => tx[q] = "committed"
    /\ audit[q] \in {"REJECTED", "DENIED"} => tx[q] # "committed"
    /\ audit[q] = "SUCCEEDED" =>
          kind[q] = "read" /\ reply[q] \in {"rows", "withheld"}
    /\ HasRows(q) => audit[q] = "SUCCEEDED"
    /\ reply[q] = "committed" =>
          tx[q] = "committed" /\ audit[q] = "COMMITTED"
    /\ reply[q] = "unaudited" => tx[q] = "committed"

(* The audit row is there before the target is touched, and what it says   *)
(* is true: REJECTED and DENIED requests have changed nothing, COMMITTED   *)
(* ones have.  A committed write may be shown as RECEIVED, or as FAILED    *)
(* when the answer to the commit was lost, but never as refused.  And      *)
(* rows reach the caller only when the audit says so, and a write is       *)
(* reported as committed only when it is, and audited                      *)
(* (docs/security.md:11).                                                  *)
AuditIsTrue == \A q \in Request : AuditTells(q)

(* Every request ends, and with it its transaction on the target.          *)
RequestsEnd ==
    \A q \in Request :
        pc[q] # "idle" ~> pc[q] = "done" /\ tx[q] # "open"

(* README.en.md:62: the audit row of a request does not stay at RECEIVED,  *)
(* unless the gateway dies or a write of the row reports an error.         *)
AuditSettles ==
    \A q \in Request :
        audit[q] = "RECEIVED" ~>
            audit[q] # "RECEIVED" \/ lost[q] \/ reply[q] = "crashed"

-----------------------------------------------------------------------------
(* The service implements the promise of Answers.                          *)

StageOf(q) ==
    IF HasCommitted(q) \/ reply[q] = "rows" THEN "released"
    ELSE IF pc[q] \in {"fail", "unwind", "done"} THEN "over"
    ELSE IF pc[q] \in {"idle", "lookup"} THEN "new"
    ELSE IF round[q] = 2 THEN "ran"
    ELSE IF pc[q] \in {"pool", "rules", "run"} THEN "admitted"
    ELSE "found"

(* The rounds of authorization in which the grants of a policy let pass a  *)
(* request for something, with a reason or without one.                    *)
Rounds(p, what, explained) ==
    LET decision == Evaluate(EffectiveGrants(p), ActionFor(what))
    IN {n \in 1 .. 2 : /\ decision.allowed
                       /\ what \in {"read", "write"} /\ n = 1
                              /\ decision.requireReason
                            => explained}

Promise == INSTANCE Answers WITH
    Passes <- Rounds,
    stage <- [q \in Request |-> StageOf(q)],
    found <- resource,
    ran <- ranAt,
    row <- audit

(* Every behaviour of the service is one of Answers: the target is asked   *)
(* for nothing before the request was authorized, with the reason a grant  *)
(* requires, since its resource was read; rows and commits need it again;  *)
(* a released request stays released and an ended one stays ended; and an  *)
(* audit row gets one outcome, never before the request has had its own.   *)
ImplementsAnswers == Promise!Spec

-----------------------------------------------------------------------------
(* What the code does not do.                                              *)

(* internal/control/masking.go:34 says that a new resource version         *)
(* invalidates reads in flight that use the old policy.  DescribeTable     *)
(* masks column defaults by rules that may have changed before it answers. *)
DescribeUsesCurrentRules ==
    \A q \in Request : kind[q] = "describe" /\ reply[q] = "rows" =>
        \E j \in ranAt[q] .. endAt[q] :
            policy[rulesAt[q]].masked = policy[j].masked
=============================================================================
