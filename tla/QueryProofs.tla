----------------------------- MODULE QueryProofs -----------------------------
(***************************************************************************)
(* Proofs about Query, for any set of requests, any number of policy       *)
(* changes and every fault: what is returned and committed was authorized  *)
(* again under the rules in force, the audit rows say what happened, and   *)
(* every behaviour of the service is one of Answers.                       *)
(***************************************************************************)
EXTENDS Query, TLAPS

(* The store's history: versions do not decrease, and of two states with   *)
(* one version the masking rules and the resource's limit are the same.    *)
HistoryShape ==
    \A i, j \in Moment : i <= j /\ j <= now =>
        /\ policy[i].version <= policy[j].version
        /\ policy[i].version = policy[j].version =>
              /\ policy[i].masked = policy[j].masked
              /\ policy[i].writeLimit = policy[j].writeLimit

(* A request stands at a step of its own handler: only Execute writes      *)
(* audit rows, and only after a statement has run does it authorize again. *)
PlaceShape(q) ==
    /\ round[q] = 2 => IsQuery(q) /\ pc[q] \in
          {"principal", "resource", "grants", "commit", "audit", "fail",
           "unwind", "done"}
    /\ pc[q] \in {"commit", "audit"} => round[q] = 2
    /\ pc[q] = "commit" => kind[q] = "write"
    /\ pc[q] \in {"receive", "vet", "fail", "unwind"} => IsQuery(q)
    /\ pc[q] = "done" <=> reply[q] # "none"
    /\ HasRows(q) => round[q] = 2

(* The row says RECEIVED from its insertion to the end of the request.     *)
AuditShape(q) ==
    /\ ~IsQuery(q) => audit[q] = "none"
    /\ pc[q] \in {"idle", "lookup", "receive"} => audit[q] = "none"
    /\ IsQuery(q) /\ pc[q] \notin {"idle", "lookup", "receive", "unwind", "done"}
          => audit[q] = "RECEIVED"
    /\ pc[q] = "unwind" => audit[q] \in {"RECEIVED", verdict[q]}
    /\ pc[q] \in {"fail", "unwind"}
          => verdict[q] \in {"REJECTED", "DENIED", "FAILED"}

(* A transaction is committed only after the second authorization, and a   *)
(* request that has failed by then has lost the answer to the commit.      *)
TxShape(q) ==
    /\ tx[q] # "none" => /\ kind[q] = "write"
                         /\ \/ round[q] = 2
                            \/ pc[q] \in {"fail", "unwind", "done"}
    /\ tx[q] = "committed" =>
          /\ round[q] = 2
          /\ \/ pc[q] \in {"audit", "done"}
             \/ pc[q] \in {"fail", "unwind"} /\ verdict[q] = "FAILED"
    /\ pc[q] = "audit" /\ kind[q] = "write" => tx[q] = "committed"

(* The rules were read after the resource and before the statement ran; a  *)
(* write found none active and kept to the limit it had read.              *)
ReadShape(q) ==
    /\ resource[q] <= now /\ rulesAt[q] <= now
    /\ ranAt[q] <= now /\ endAt[q] <= now
    /\ round[q] = 2 \/ (IsQuery(q) /\ pc[q] = "run") =>
          /\ resource[q] <= rulesAt[q]
          /\ kind[q] = "write" => ~policy[rulesAt[q]].masked
    /\ round[q] = 2 =>
          /\ rulesAt[q] <= ranAt[q]
          /\ kind[q] = "write" => affected[q] <= policy[resource[q]].writeLimit

(* What the second authorization has found so far, up to the moment n.     *)
FoundActive(q, n) ==
    \E i \in Moment : ranAt[q] <= i /\ i <= n /\ policy[i].active

FoundUnchanged(q, n) ==
    \E i, j \in Moment :
        /\ ranAt[q] <= i /\ i <= j /\ j <= n
        /\ policy[i].active
        /\ policy[j].enabled /\ SameResource(q, j)

FoundPermitted(q, n) ==
    \E i, j, k \in Moment :
        /\ ranAt[q] <= i /\ i <= j /\ j <= k /\ k <= n
        /\ policy[i].active
        /\ policy[j].enabled /\ SameResource(q, j)
        /\ Permits(policy[k], q)

RecheckShape(q) ==
    /\ round[q] = 2 /\ pc[q] = "resource" => FoundActive(q, now)
    /\ round[q] = 2 /\ pc[q] = "grants" => FoundUnchanged(q, now)
    /\ pc[q] = "commit" \/ (pc[q] = "audit" /\ kind[q] = "read")
          => FoundPermitted(q, now)
    /\ HasRows(q) \/ HasCommitted(q) => FoundPermitted(q, endAt[q])

RequestShape(q) ==
    /\ PlaceShape(q)
    /\ AuditShape(q)
    /\ TxShape(q)
    /\ ReadShape(q)
    /\ RecheckShape(q)
    /\ AuditTells(q)

IInv ==
    /\ TypeOK
    /\ HistoryShape
    /\ \A q \in Request : RequestShape(q)

-----------------------------------------------------------------------------
(* A step of one request leaves the others alone.                          *)
Unmoved(p) ==
    /\ pc'[p] = pc[p] /\ round'[p] = round[p] /\ resource'[p] = resource[p]
    /\ rulesAt'[p] = rulesAt[p] /\ ranAt'[p] = ranAt[p] /\ endAt'[p] = endAt[p]
    /\ affected'[p] = affected[p] /\ verdict'[p] = verdict[p]
    /\ audit'[p] = audit[p] /\ tx'[p] = tx[p] /\ reply'[p] = reply[p]

LEMMA OthersKeep ==
    ASSUME NEW q \in Request, RequestShape(q), Unmoved(q), UNCHANGED <<policy, now, kind>>
    PROVE  RequestShape(q)'
<1> USE DEF RequestShape, Unmoved
<1>1. PlaceShape(q)'
      BY DEF PlaceShape, IsQuery, HasRows
<1>2. AuditShape(q)'
      BY DEF AuditShape, IsQuery
<1>3. TxShape(q)'
      BY DEF TxShape
<1>4. ReadShape(q)'
      BY DEF ReadShape, IsQuery
<1>5. RecheckShape(q)'
      BY DEF RecheckShape, FoundActive, FoundUnchanged, FoundPermitted,
             SameResource, Permits, DecisionOn, ActionOf, HasRows, HasCommitted
<1>6. AuditTells(q)'
      BY DEF AuditTells, HasRows
<1> QED BY <1>1, <1>2, <1>3, <1>4, <1>5, <1>6

LEMMA RequestKeeps ==
    ASSUME IInv, TypeOK', UNCHANGED <<policy, now, kind>>, NEW q \in Request,
           \A p \in Request \ {q} : Unmoved(p), RequestShape(q)'
    PROVE  IInv'
<1>1. HistoryShape'
      BY DEF IInv, HistoryShape
<1>2. \A p \in Request : RequestShape(p)'
      BY OthersKeep DEF IInv
<1> QED BY <1>1, <1>2 DEF IInv

(* The steps that change nothing but where the request stands, what it is  *)
(* answered and its audit row.                                             *)
LEMMA LocalKeeps ==
    ASSUME IInv, NEW q \in Request,
           UNCHANGED <<given, round, traceVars, affected, tx>>,
           pc' \in [Request -> PC], reply' \in [Request -> Reply],
           verdict' \in [Request -> Outcome], audit' \in [Request -> Outcome],
           lost' \in [Request -> BOOLEAN],
           \A p \in Request \ {q} : /\ pc'[p] = pc[p] /\ reply'[p] = reply[p]
                                    /\ verdict'[p] = verdict[p]
                                    /\ audit'[p] = audit[p],
           PlaceShape(q)', AuditShape(q)', TxShape(q)', AuditTells(q)',
           pc'[q] = "run" => ~IsQuery(q),
           kind[q] = "read" => reply'[q] # "rows",
           round[q] = 2 /\ pc'[q] = "resource" => FoundActive(q, now),
           round[q] = 2 /\ pc'[q] = "grants" => FoundUnchanged(q, now),
           pc'[q] = "commit" \/ (pc'[q] = "audit" /\ kind[q] = "read")
               => FoundPermitted(q, now)
    PROVE  IInv'
<1> USE DEF given, policyVars, traceVars
<1>1. TypeOK'
      BY DEF IInv, TypeOK
<1>2. \A p \in Request \ {q} : Unmoved(p)
      BY DEF Unmoved
<1>3. ReadShape(q)'
      BY DEF IInv, RequestShape, ReadShape, IsQuery
<1>4. RecheckShape(q)'
      BY DEF IInv, RequestShape, RecheckShape, FoundActive, FoundUnchanged,
             FoundPermitted, SameResource, Permits, DecisionOn, ActionOf,
             HasRows, HasCommitted
<1> QED BY <1>1, <1>2, <1>3, <1>4, RequestKeeps DEF RequestShape

(* A request that goes on, and changes nothing else.                       *)
LEMMA GotoKeeps ==
    ASSUME IInv, NEW q \in Request, NEW there \in PC \ {"idle", "done"},
           UNCHANGED <<given, round, traceVars, affected, verdict, auditVars, tx>>,
           Goto(q, there), pc[q] # "done",
           there \in {"lookup", "receive"} => audit[q] = "none",
           IsQuery(q) /\ there \notin {"lookup", "receive"} => audit[q] = "RECEIVED",
           there \notin {"fail", "unwind"},
           there \in {"receive", "vet"} => IsQuery(q),
           round[q] = 2 => there \in {"resource", "grants", "commit", "audit"},
           there \in {"commit", "audit"} => round[q] = 2,
           there = "commit" => kind[q] = "write",
           there = "audit" => kind[q] # "write",
           tx[q] # "committed", round[q] = 1 => tx[q] = "none",
           there = "run" => ~IsQuery(q),
           round[q] = 2 /\ there = "resource" => FoundActive(q, now),
           round[q] = 2 /\ there = "grants" => FoundUnchanged(q, now),
           there \in {"commit", "audit"} => FoundPermitted(q, now)
    PROVE  IInv'
<1> USE DEF given, policyVars, traceVars, auditVars
<1>1. /\ pc' \in [Request -> PC] /\ reply' = reply
      /\ pc'[q] = there /\ \A p \in Request \ {q} : pc'[p] = pc[p]
      BY DEF Goto, IInv, TypeOK
<1>2. PlaceShape(q)
      BY DEF IInv, RequestShape
<1>3. reply[q] = "none" /\ round[q] \in {1, 2}
      BY <1>2 DEF IInv, TypeOK, PlaceShape
<1>4. PlaceShape(q)'
      BY <1>1, <1>2, <1>3 DEF PlaceShape, IsQuery, HasRows
<1>5. AuditShape(q)'
      BY <1>1, <1>3 DEF IInv, RequestShape, AuditShape, IsQuery
<1>6. TxShape(q)'
      BY <1>1, <1>3 DEF IInv, RequestShape, TxShape
<1>7. AuditTells(q)'
      BY <1>1, <1>3 DEF IInv, RequestShape, AuditTells, HasRows
<1>8. /\ verdict' \in [Request -> Outcome] /\ audit' \in [Request -> Outcome]
      /\ lost' \in [Request -> BOOLEAN] /\ reply' \in [Request -> Reply]
      BY <1>1 DEF IInv, TypeOK
<1> QED BY <1>1, <1>3, <1>4, <1>5, <1>6, <1>7, <1>8, LocalKeeps

(* A request that fails: Execute first records why, the schema tools       *)
(* answer at once.                                                         *)
LEMMA FailFacts ==
    ASSUME TypeOK, NEW q \in Request, NEW outcome \in Outcome, Fail(q, outcome)
    PROVE  /\ pc' \in [Request -> PC] /\ reply' \in [Request -> Reply]
           /\ verdict' \in [Request -> Outcome]
           /\ \A p \in Request \ {q} :
                 pc'[p] = pc[p] /\ reply'[p] = reply[p] /\ verdict'[p] = verdict[p]
           /\ IsQuery(q) => /\ pc'[q] = "fail" /\ reply'[q] = reply[q]
                            /\ verdict'[q] = outcome
           /\ ~IsQuery(q) => /\ pc'[q] = "done" /\ reply'[q] = "error"
                             /\ verdict'[q] = verdict[q]
BY DEF Fail, Goto, Answer, TypeOK, PC, Reply

(* What a request that is not yet done knows of itself.                    *)
LEMMA Underway ==
    ASSUME IInv, NEW q \in Request, pc[q] # "done"
    PROVE  /\ reply[q] = "none" /\ round[q] \in {1, 2}
           /\ tx[q] = "committed" => pc[q] \in {"audit", "fail", "unwind"}
           /\ audit[q] \notin {"SUCCEEDED", "COMMITTED"} \/ pc[q] = "unwind"
           /\ PlaceShape(q) /\ AuditShape(q) /\ TxShape(q) /\ ReadShape(q)
           /\ RecheckShape(q) /\ AuditTells(q)
BY DEF IInv, TypeOK, RequestShape, PlaceShape, AuditShape, TxShape, AuditTells

-----------------------------------------------------------------------------
LEMMA Initially == Init => IInv
<1> SUFFICES ASSUME Init PROVE IInv
    OBVIOUS
<1>1. TypeOK
  <2>1. policy \in [Moment -> Policy]
        BY DEF Init, Policy
  <2>2. 0 \in Moment /\ 0 \in 0 .. MaxAffected
        BY QueryAssumption DEF Moment
  <2>3. /\ now \in Moment /\ round \in [Request -> 1 .. 2]
        /\ kind \in [Request -> Kinds] /\ reason \in [Request -> BOOLEAN]
        /\ resource \in [Request -> Moment] /\ rulesAt \in [Request -> Moment]
        /\ ranAt \in [Request -> Moment] /\ endAt \in [Request -> Moment]
        /\ affected \in [Request -> 0 .. MaxAffected]
        BY <2>2 DEF Init
  <2>4. /\ pc \in [Request -> PC] /\ reply \in [Request -> Reply]
        /\ verdict \in [Request -> Outcome] /\ audit \in [Request -> Outcome]
        /\ lost \in [Request -> BOOLEAN]
        /\ tx \in [Request -> {"none", "open", "committed", "rolledback"}]
        BY DEF Init, PC, Outcome, Reply
  <2> QED BY <2>1, <2>3, <2>4 DEF TypeOK
<1>2. HistoryShape
      BY DEF Init, HistoryShape
<1>3. ASSUME NEW q \in Request PROVE RequestShape(q)
  <2> USE DEF Init
  <2>1. PlaceShape(q)
        BY DEF PlaceShape, HasRows
  <2>2. AuditShape(q)
        BY DEF AuditShape
  <2>3. TxShape(q)
        BY DEF TxShape
  <2>4. ReadShape(q)
        BY DEF ReadShape
  <2>5. RecheckShape(q)
        BY DEF RecheckShape, HasRows, HasCommitted
  <2>6. AuditTells(q)
        BY DEF AuditTells, HasRows
  <2> QED BY <2>1, <2>2, <2>3, <2>4, <2>5, <2>6 DEF RequestShape
<1> QED BY <1>1, <1>2, <1>3 DEF IInv

LEMMA StartKeeps ==
    ASSUME IInv, NEW q \in Request, Start(q)
    PROVE  IInv'
<1>1. pc[q] = "idle" /\ Goto(q, "lookup")
      /\ UNCHANGED <<given, round, traceVars, affected, verdict, auditVars, tx>>
      BY DEF Start
<1>2. audit[q] = "none" /\ round[q] = 1 /\ tx[q] = "none"
      BY <1>1, Underway DEF AuditShape, PlaceShape, TxShape
<1> QED BY <1>1, <1>2, GotoKeeps DEF PC

LEMMA LookupKeeps ==
    ASSUME IInv, NEW q \in Request, Lookup(q)
    PROVE  IInv'
<1> USE DEF given, policyVars, traceVars, auditVars
<1>1. PICK there \in {"receive", "principal"} :
          /\ pc' = [pc EXCEPT ![q] = there]
          /\ there = "receive" <=> IsQuery(q)
      BY DEF Lookup, Goto
<1>2. /\ pc[q] = "lookup" /\ reply' = reply
      /\ resource' = [resource EXCEPT ![q] = now]
      /\ UNCHANGED <<policy, now, kind, reason, round, rulesAt, ranAt, endAt, affected,
                     verdict, audit, lost, tx>>
      BY DEF Lookup, Goto
<1>3. TypeOK'
      BY <1>1, <1>2 DEF IInv, TypeOK, PC
<1>4. pc'[q] = there /\ resource'[q] = now
      BY <1>1, <1>2 DEF IInv, TypeOK
<1>5. \A p \in Request \ {q} : Unmoved(p)
      BY <1>1, <1>2 DEF Unmoved
<1>6. round[q] = 1 /\ tx[q] = "none" /\ audit[q] = "none" /\ reply[q] = "none"
      BY <1>2, Underway DEF AuditShape, PlaceShape, TxShape
<1>7. PlaceShape(q)'
      BY <1>1, <1>2, <1>4, <1>6 DEF PlaceShape, IsQuery, HasRows
<1>8. AuditShape(q)'
      BY <1>1, <1>2, <1>4, <1>6 DEF AuditShape, IsQuery
<1>9. TxShape(q)'
      BY <1>2, <1>4, <1>6 DEF TxShape
<1>10. ReadShape(q)'
      BY <1>2, <1>4, <1>6, Underway DEF ReadShape, IInv, TypeOK, Moment
<1>11. RecheckShape(q)'
      BY <1>2, <1>4, <1>6 DEF RecheckShape, HasRows, HasCommitted
<1>12. AuditTells(q)'
      BY <1>2, <1>6 DEF AuditTells, HasRows
<1> QED BY <1>2, <1>3, <1>5, <1>7, <1>8, <1>9, <1>10, <1>11, <1>12, RequestKeeps
        DEF RequestShape

(* The answers Execute gives before it has an audit row.                   *)
LEMMA EarlyAnswerKeeps ==
    ASSUME IInv, NEW q \in Request, LookupFailed(q) \/ ReceiveFailed(q)
    PROVE  IInv'
<1> USE DEF given, policyVars, traceVars, auditVars
<1>1. PICK outcome \in {"none", "RECEIVED"} :
          /\ audit' = [audit EXCEPT ![q] = outcome]
          /\ outcome = "RECEIVED" => IsQuery(q)
  <2>1. CASE LookupFailed(q)
    <3>1. audit[q] = "none"
          BY <2>1, Underway DEF LookupFailed, AuditShape
    <3>2. audit' = [audit EXCEPT ![q] = "none"]
          BY <2>1, <3>1 DEF LookupFailed, IInv, TypeOK
    <3> QED BY <3>2
  <2>2. CASE ReceiveFailed(q)
        BY <2>2, Underway DEF ReceiveFailed, PlaceShape
  <2> QED BY <2>1, <2>2
<1>2. /\ pc[q] \in {"lookup", "receive"} /\ Answer(q, "error")
      /\ lost' \in [Request -> BOOLEAN]
      /\ UNCHANGED <<policy, now, kind, reason, round, resource, rulesAt, ranAt, endAt,
                     affected, verdict, tx>>
      BY DEF LookupFailed, ReceiveFailed, IInv, TypeOK
<1>3. /\ pc' \in [Request -> PC] /\ reply' \in [Request -> Reply]
      /\ audit' \in [Request -> Outcome]
      /\ pc'[q] = "done" /\ reply'[q] = "error" /\ audit'[q] = outcome
      /\ \A p \in Request \ {q} : /\ pc'[p] = pc[p] /\ reply'[p] = reply[p]
                                  /\ audit'[p] = audit[p]
      BY <1>1, <1>2 DEF Answer, IInv, TypeOK, PC, Reply, Outcome
<1>4. round[q] = 1 /\ tx[q] = "none"
      BY <1>2, Underway DEF PlaceShape, TxShape
<1>5. PlaceShape(q)' /\ AuditShape(q)' /\ TxShape(q)' /\ AuditTells(q)'
      BY <1>1, <1>2, <1>3, <1>4
         DEF PlaceShape, AuditShape, TxShape, AuditTells, IsQuery, HasRows
<1>6. verdict' \in [Request -> Outcome]
      BY <1>2 DEF IInv, TypeOK
<1> QED BY <1>2, <1>3, <1>5, <1>6, LocalKeeps

LEMMA ReceiveKeeps ==
    ASSUME IInv, NEW q \in Request, Receive(q)
    PROVE  IInv'
<1> USE DEF given, policyVars, traceVars, auditVars
<1>1. /\ pc[q] = "receive" /\ Goto(q, "vet")
      /\ audit' = [audit EXCEPT ![q] = "RECEIVED"]
      /\ UNCHANGED <<policy, now, kind, reason, round, resource, rulesAt, ranAt, endAt,
                     affected, verdict, lost, tx>>
      BY DEF Receive
<1>2. /\ pc' \in [Request -> PC] /\ reply' \in [Request -> Reply]
      /\ audit' \in [Request -> Outcome] /\ verdict' \in [Request -> Outcome]
      /\ lost' \in [Request -> BOOLEAN]
      /\ pc'[q] = "vet" /\ reply'[q] = reply[q] /\ audit'[q] = "RECEIVED"
      /\ \A p \in Request \ {q} : /\ pc'[p] = pc[p] /\ reply'[p] = reply[p]
                                  /\ audit'[p] = audit[p]
      BY <1>1 DEF Goto, IInv, TypeOK, PC, Outcome
<1>3. round[q] = 1 /\ tx[q] = "none" /\ IsQuery(q) /\ reply[q] = "none"
      BY <1>1, Underway DEF PlaceShape, TxShape
<1>4. PlaceShape(q)' /\ AuditShape(q)' /\ TxShape(q)' /\ AuditTells(q)'
      BY <1>1, <1>2, <1>3
         DEF PlaceShape, AuditShape, TxShape, AuditTells, IsQuery, HasRows
<1> QED BY <1>1, <1>2, <1>3, <1>4, LocalKeeps

(* A statement or a policy is refused.                                     *)
LEMMA RefusalKeeps ==
    ASSUME IInv, NEW q \in Request, VetFailed(q) \/ AuthorizeFailed(q)
    PROVE  IInv'
<1> USE DEF given, policyVars, traceVars, auditVars
<1>1. PICK outcome \in {"REJECTED", "DENIED"} : Fail(q, outcome)
      BY DEF VetFailed, AuthorizeFailed
<1>2. /\ pc[q] \in {"vet", "principal", "resource", "grants"}
      /\ UNCHANGED <<policy, now, kind, reason, round, resource, rulesAt, ranAt, endAt,
                     affected, audit, lost, tx>>
      BY DEF VetFailed, AuthorizeFailed
<1>3. outcome \in Outcome
      BY DEF Outcome
<1>4. /\ pc' \in [Request -> PC] /\ reply' \in [Request -> Reply]
      /\ verdict' \in [Request -> Outcome]
      /\ audit' \in [Request -> Outcome] /\ lost' \in [Request -> BOOLEAN]
      /\ \A p \in Request \ {q} :
            pc'[p] = pc[p] /\ reply'[p] = reply[p] /\ verdict'[p] = verdict[p]
      /\ IsQuery(q) => /\ pc'[q] = "fail" /\ reply'[q] = reply[q]
                       /\ verdict'[q] = outcome
      /\ ~IsQuery(q) => /\ pc'[q] = "done" /\ reply'[q] = "error"
                        /\ verdict'[q] = verdict[q]
      BY <1>1, <1>2, <1>3, FailFacts DEF IInv, TypeOK
<1>5. /\ tx[q] # "committed" /\ reply[q] = "none"
      /\ audit[q] \notin {"SUCCEEDED", "COMMITTED"}
      /\ PlaceShape(q) /\ AuditShape(q) /\ TxShape(q) /\ AuditTells(q)
      BY <1>2, Underway
<1>6. PlaceShape(q)'
      BY <1>2, <1>4, <1>5 DEF PlaceShape, IsQuery, HasRows
<1>7. AuditShape(q)'
      BY <1>2, <1>4, <1>5 DEF AuditShape, IsQuery
<1>8. TxShape(q)'
      BY <1>2, <1>4, <1>5 DEF TxShape, IsQuery
<1>9. AuditTells(q)'
      BY <1>2, <1>4, <1>5 DEF AuditTells, HasRows, AuditShape, IsQuery
<1> QED BY <1>2, <1>4, <1>5, <1>6, <1>7, <1>8, <1>9, LocalKeeps

LEMMA VetKeeps ==
    ASSUME IInv, NEW q \in Request, Vet(q)
    PROVE  IInv'
<1>1. pc[q] = "vet" /\ Goto(q, "principal")
      /\ UNCHANGED <<given, round, traceVars, affected, verdict, auditVars, tx>>
      BY DEF Vet
<1>2. /\ audit[q] = "RECEIVED" /\ round[q] = 1 /\ tx[q] = "none" /\ IsQuery(q)
      BY <1>1, Underway DEF AuditShape, PlaceShape, TxShape
<1> QED BY <1>1, <1>2, GotoKeeps DEF PC

(* The three checks of authorizeResource.  The second time, each of them   *)
(* finds what it asks for at this moment.                                  *)
LEMMA ChecksKeep ==
    ASSUME IInv, NEW q \in Request,
           CheckPrincipal(q) \/ CheckResource(q) \/ CheckGrants(q)
    PROVE  IInv'
<1>1. /\ pc[q] \in {"principal", "resource", "grants"}
      /\ UNCHANGED <<given, round, traceVars, affected, verdict, auditVars, tx>>
      BY DEF CheckPrincipal, CheckResource, CheckGrants
<1>2. /\ IsQuery(q) => audit[q] = "RECEIVED"
      /\ tx[q] # "committed" /\ (round[q] = 1 => tx[q] = "none")
      /\ round[q] \in {1, 2} /\ (round[q] = 2 => IsQuery(q))
      /\ now \in Moment /\ ranAt[q] <= now
      /\ RecheckShape(q)
      BY <1>1, Underway DEF AuditShape, PlaceShape, TxShape, ReadShape, IInv, TypeOK
<1>3. CASE CheckPrincipal(q)
  <2>1. Goto(q, "resource") /\ policy[now].active
        BY <1>3 DEF CheckPrincipal, StatusIsActive, Current
  <2>2. FoundActive(q, now)
        BY <1>2, <2>1 DEF FoundActive, Moment
  <2> QED BY <1>1, <1>2, <2>1, <2>2, GotoKeeps DEF PC
<1>4. CASE CheckResource(q)
  <2>1. /\ pc[q] = "resource" /\ Goto(q, "grants")
        /\ policy[now].enabled /\ SameResource(q, now)
        BY <1>4 DEF CheckResource, ResourceUnchanged, Current
  <2>2. round[q] = 2 => FoundUnchanged(q, now)
        BY <1>2, <2>1 DEF RecheckShape, FoundActive, FoundUnchanged, Moment
  <2> QED BY <1>1, <1>2, <2>1, <2>2, GotoKeeps DEF PC
<1>5. CASE CheckGrants(q)
  <2>1. /\ pc[q] = "grants" /\ Permits(policy[now], q)
        /\ Goto(q, NextAfterGrants(q))
        BY <1>5 DEF CheckGrants, GrantSuffices, Current
  <2>2. /\ round[q] = 1 => NextAfterGrants(q) = "pool"
        /\ round[q] # 1 /\ kind[q] = "write" => NextAfterGrants(q) = "commit"
        /\ round[q] # 1 /\ kind[q] # "write" => NextAfterGrants(q) = "audit"
        BY DEF NextAfterGrants
  <2>3. round[q] = 2 => FoundPermitted(q, now)
        BY <1>2, <2>1 DEF RecheckShape, FoundUnchanged, FoundPermitted, Moment
  <2>4. CASE round[q] = 1
        BY <1>1, <1>2, <2>1, <2>2, <2>4, GotoKeeps DEF PC
  <2>5. CASE round[q] = 2 /\ kind[q] = "write"
        BY <1>1, <1>2, <2>1, <2>2, <2>3, <2>5, GotoKeeps DEF PC
  <2>6. CASE round[q] = 2 /\ kind[q] # "write"
        BY <1>1, <1>2, <2>1, <2>2, <2>3, <2>6, GotoKeeps DEF PC
  <2> QED BY <1>2, <2>4, <2>5, <2>6
<1> QED BY <1>3, <1>4, <1>5

LEMMA GetPoolKeeps ==
    ASSUME IInv, NEW q \in Request, GetPool(q)
    PROVE  IInv'
<1>1. /\ pc[q] = "pool" /\ Goto(q, IF kind[q] = "tables" THEN "run" ELSE "rules")
      /\ UNCHANGED <<given, round, traceVars, affected, verdict, auditVars, tx>>
      BY DEF GetPool
<1>2. /\ IsQuery(q) => audit[q] = "RECEIVED"
      /\ round[q] = 1 /\ tx[q] = "none"
      BY <1>1, Underway DEF AuditShape, PlaceShape, TxShape
<1>3. CASE kind[q] = "tables"
  <2>1. Goto(q, "run") /\ ~IsQuery(q)
        BY <1>1, <1>3 DEF IsQuery
  <2> QED BY <1>1, <1>2, <2>1, GotoKeeps DEF PC
<1>4. CASE kind[q] # "tables"
        BY <1>1, <1>2, <1>4, GotoKeeps DEF PC
<1> QED BY <1>3, <1>4

-----------------------------------------------------------------------------
(* Pool, masking rules and the statement itself.                           *)

(* The first run failed: the target, the rules, the statement.             *)
LEMMA TargetKeeps ==
    ASSUME IInv, NEW q \in Request, TargetFailed(q) \/ MaskingRejects(q)
    PROVE  IInv'
<1> USE DEF given, policyVars, traceVars, auditVars
<1>1. PICK outcome \in {"FAILED", "REJECTED"} : Fail(q, outcome)
      BY DEF TargetFailed, MaskingRejects
<1>2. /\ pc[q] \in {"pool", "rules", "run"}
      /\ UNCHANGED <<policy, now, kind, reason, round, resource, ranAt, endAt,
                     affected, audit, lost>>
      BY DEF TargetFailed, MaskingRejects
<1>3. PICK state \in {tx[q], "open"} :
          /\ tx' = [tx EXCEPT ![q] = state]
          /\ state = tx[q] \/ kind[q] = "write"
  <2>1. tx = [tx EXCEPT ![q] = tx[q]]
        BY DEF IInv, TypeOK
  <2> QED BY <2>1 DEF TargetFailed, MaskingRejects
<1>4. PICK n \in {rulesAt[q], now} : rulesAt' = [rulesAt EXCEPT ![q] = n]
  <2>1. rulesAt = [rulesAt EXCEPT ![q] = rulesAt[q]]
        BY DEF IInv, TypeOK
  <2> QED BY <2>1 DEF TargetFailed, MaskingRejects
<1>5. outcome \in Outcome
      BY DEF Outcome
<1>6. /\ pc' \in [Request -> PC] /\ reply' \in [Request -> Reply]
      /\ verdict' \in [Request -> Outcome]
      /\ \A p \in Request \ {q} :
            pc'[p] = pc[p] /\ reply'[p] = reply[p] /\ verdict'[p] = verdict[p]
      /\ IsQuery(q) => /\ pc'[q] = "fail" /\ reply'[q] = reply[q]
                       /\ verdict'[q] = outcome
      /\ ~IsQuery(q) => /\ pc'[q] = "done" /\ reply'[q] = "error"
                        /\ verdict'[q] = verdict[q]
      BY <1>1, <1>5, FailFacts DEF IInv
<1>7. TypeOK'
      BY <1>2, <1>3, <1>4, <1>6 DEF IInv, TypeOK
<1>8. \A p \in Request \ {q} : Unmoved(p)
      BY <1>2, <1>3, <1>4, <1>6 DEF Unmoved
<1>9. /\ tx[q] = "none" /\ reply[q] = "none" /\ round[q] = 1
      /\ audit[q] \notin {"SUCCEEDED", "COMMITTED"}
      /\ PlaceShape(q) /\ AuditShape(q) /\ AuditTells(q) /\ ReadShape(q)
      BY <1>2, Underway DEF TxShape, PlaceShape
<1>10. tx'[q] = state /\ rulesAt'[q] = n /\ n <= now
      BY <1>3, <1>4, <1>9 DEF IInv, TypeOK, ReadShape, Moment
<1>11. PlaceShape(q)'
      BY <1>2, <1>6, <1>9 DEF PlaceShape, IsQuery, HasRows
<1>12. AuditShape(q)'
      BY <1>2, <1>6, <1>9 DEF AuditShape, IsQuery
<1>13. TxShape(q)'
      BY <1>2, <1>3, <1>6, <1>9, <1>10 DEF TxShape, IsQuery
<1>14. ReadShape(q)'
      BY <1>2, <1>6, <1>9, <1>10 DEF ReadShape, IsQuery
<1>15. RecheckShape(q)'
      BY <1>2, <1>3, <1>6, <1>9, <1>10
         DEF RecheckShape, HasRows, HasCommitted, IsQuery
<1>16. AuditTells(q)'
      BY <1>2, <1>3, <1>6, <1>9, <1>10
         DEF AuditTells, AuditShape, HasRows, IsQuery
<1> QED BY <1>2, <1>7, <1>8, <1>11, <1>12, <1>13, <1>14, <1>15, <1>16, RequestKeeps
        DEF RequestShape

LEMMA ReadRulesKeeps ==
    ASSUME IInv, NEW q \in Request, ReadRules(q)
    PROVE  IInv'
<1> USE DEF given, policyVars, traceVars, auditVars
<1>1. /\ pc[q] = "rules" /\ (kind[q] = "write" => ~policy[now].masked)
      /\ rulesAt' = [rulesAt EXCEPT ![q] = now]
      /\ pc' = [pc EXCEPT ![q] = "run"]
      /\ UNCHANGED <<policy, now, kind, reason, round, resource, ranAt, endAt,
                     affected, verdict, audit, lost, tx, reply>>
      BY DEF ReadRules, Goto, Current
<1>2. TypeOK'
      BY <1>1 DEF IInv, TypeOK, PC
<1>3. pc'[q] = "run" /\ rulesAt'[q] = now
      BY <1>1 DEF IInv, TypeOK
<1>4. \A p \in Request \ {q} : Unmoved(p)
      BY <1>1 DEF Unmoved
<1>5. /\ round[q] = 1 /\ tx[q] = "none" /\ reply[q] = "none"
      /\ PlaceShape(q) /\ AuditShape(q) /\ ReadShape(q) /\ AuditTells(q)
      BY <1>1, Underway DEF PlaceShape, TxShape
<1>6. PlaceShape(q)'
      BY <1>1, <1>3, <1>5 DEF PlaceShape, IsQuery, HasRows
<1>7. AuditShape(q)'
      BY <1>1, <1>3, <1>5 DEF AuditShape, IsQuery
<1>8. TxShape(q)'
      BY <1>1, <1>3, <1>5 DEF TxShape
<1>9. ReadShape(q)'
      BY <1>1, <1>3, <1>5 DEF ReadShape, IInv, TypeOK, Moment
<1>10. RecheckShape(q)'
      BY <1>1, <1>3, <1>5 DEF RecheckShape, HasRows, HasCommitted
<1>11. AuditTells(q)'
      BY <1>1, <1>5 DEF AuditTells, HasRows
<1> QED BY <1>1, <1>2, <1>4, <1>6, <1>7, <1>8, <1>9, <1>10, <1>11, RequestKeeps
        DEF RequestShape

(* The statement has run: the second authorization begins at this moment.  *)
LEMMA RunReadKeeps ==
    ASSUME IInv, NEW q \in Request, RunRead(q)
    PROVE  IInv'
<1> USE DEF given, policyVars, traceVars, auditVars
<1>1. /\ pc[q] = "run" /\ kind[q] = "read"
      /\ ranAt' = [ranAt EXCEPT ![q] = now]
      /\ round' = [round EXCEPT ![q] = 2]
      /\ pc' = [pc EXCEPT ![q] = "principal"]
      /\ UNCHANGED <<policy, now, kind, reason, resource, rulesAt, endAt,
                     affected, verdict, audit, lost, tx, reply>>
      BY DEF RunRead, Goto
<1>2. TypeOK'
      BY <1>1 DEF IInv, TypeOK, PC
<1>3. pc'[q] = "principal" /\ ranAt'[q] = now /\ round'[q] = 2 /\ IsQuery(q)
      BY <1>1 DEF IInv, TypeOK, IsQuery
<1>4. \A p \in Request \ {q} : Unmoved(p)
      BY <1>1 DEF Unmoved
<1>5. /\ round[q] = 1 /\ tx[q] = "none" /\ reply[q] = "none"
      /\ PlaceShape(q) /\ AuditShape(q) /\ ReadShape(q) /\ AuditTells(q)
      BY <1>1, Underway DEF PlaceShape, TxShape
<1>6. PlaceShape(q)'
      BY <1>1, <1>3, <1>5 DEF PlaceShape, IsQuery, HasRows
<1>7. AuditShape(q)'
      BY <1>1, <1>3, <1>5 DEF AuditShape, IsQuery
<1>8. TxShape(q)'
      BY <1>1, <1>3, <1>5 DEF TxShape
<1>9. ReadShape(q)'
      BY <1>1, <1>3, <1>5 DEF ReadShape, IInv, TypeOK, Moment
<1>10. RecheckShape(q)'
      BY <1>1, <1>3, <1>5 DEF RecheckShape, HasRows, HasCommitted
<1>11. AuditTells(q)'
      BY <1>1, <1>5 DEF AuditTells, HasRows
<1> QED BY <1>1, <1>2, <1>4, <1>6, <1>7, <1>8, <1>9, <1>10, <1>11, RequestKeeps
        DEF RequestShape

LEMMA RunSchemaKeeps ==
    ASSUME IInv, NEW q \in Request, RunSchema(q)
    PROVE  IInv'
<1> USE DEF given, policyVars, traceVars, auditVars
<1>1. /\ pc[q] = "run" /\ ~IsQuery(q)
      /\ ranAt' = [ranAt EXCEPT ![q] = now]
      /\ endAt' = [endAt EXCEPT ![q] = now]
      /\ pc' = [pc EXCEPT ![q] = "done"]
      /\ reply' = [reply EXCEPT ![q] = "rows"]
      /\ UNCHANGED <<policy, now, kind, reason, round, resource, rulesAt,
                     affected, verdict, audit, lost, tx>>
      BY DEF RunSchema, Answer
<1>2. TypeOK'
      BY <1>1 DEF IInv, TypeOK, PC, Reply
<1>3. /\ pc'[q] = "done" /\ reply'[q] = "rows" /\ kind[q] # "read"
      /\ ranAt'[q] = now /\ endAt'[q] = now
      BY <1>1 DEF IInv, TypeOK, IsQuery
<1>4. \A p \in Request \ {q} : Unmoved(p)
      BY <1>1 DEF Unmoved
<1>5. /\ round[q] = 1 /\ tx[q] = "none" /\ audit[q] = "none"
      /\ PlaceShape(q) /\ ReadShape(q)
      BY <1>1, Underway DEF PlaceShape, TxShape, AuditShape
<1>6. PlaceShape(q)'
      BY <1>1, <1>3, <1>5 DEF PlaceShape, IsQuery, HasRows
<1>7. AuditShape(q)'
      BY <1>1, <1>3, <1>5 DEF AuditShape, IsQuery
<1>8. TxShape(q)'
      BY <1>1, <1>3, <1>5 DEF TxShape
<1>9. ReadShape(q)'
      BY <1>1, <1>3, <1>5 DEF ReadShape, IInv, TypeOK, Moment
<1>10. RecheckShape(q)'
      BY <1>1, <1>3, <1>5 DEF RecheckShape, HasRows, HasCommitted
<1>11. AuditTells(q)'
      BY <1>1, <1>3, <1>5 DEF AuditTells, HasRows
<1> QED BY <1>1, <1>2, <1>4, <1>6, <1>7, <1>8, <1>9, <1>10, <1>11, RequestKeeps
        DEF RequestShape

LEMMA RunWriteKeeps ==
    ASSUME IInv, NEW q \in Request, RunWrite(q)
    PROVE  IInv'
<1> USE DEF given, policyVars, traceVars, auditVars
<1>1. /\ pc[q] = "run" /\ kind[q] = "write" /\ IsQuery(q)
      /\ tx' = [tx EXCEPT ![q] = "open"]
      /\ ranAt' = [ranAt EXCEPT ![q] = now]
      /\ UNCHANGED <<policy, now, kind, reason, resource, rulesAt, endAt, audit, lost>>
      BY DEF RunWrite, IsQuery
<1>2. PICK n \in 0 .. MaxAffected :
          /\ affected' = [affected EXCEPT ![q] = n]
          /\ \/ Fail(q, "REJECTED") /\ UNCHANGED round
             \/ /\ n <= policy[resource[q]].writeLimit
                /\ Goto(q, "principal")
                /\ round' = [round EXCEPT ![q] = 2]
                /\ UNCHANGED verdict
      BY DEF RunWrite
<1>3. \/ /\ pc' = [pc EXCEPT ![q] = "fail"]
         /\ verdict' = [verdict EXCEPT ![q] = "REJECTED"]
         /\ UNCHANGED <<round, reply>>
      \/ /\ n <= policy[resource[q]].writeLimit
         /\ pc' = [pc EXCEPT ![q] = "principal"]
         /\ round' = [round EXCEPT ![q] = 2]
         /\ UNCHANGED <<verdict, reply>>
      BY <1>1, <1>2 DEF Fail, Goto
<1>4. TypeOK'
  <2>1. pc' \in [Request -> PC] /\ verdict' \in [Request -> Outcome]
        BY <1>3 DEF IInv, TypeOK, PC, Outcome
  <2>2. round' \in [Request -> 1 .. 2] /\ reply' \in [Request -> Reply]
        BY <1>3 DEF IInv, TypeOK
  <2>3. /\ tx' \in [Request -> {"none", "open", "committed", "rolledback"}]
        /\ ranAt' \in [Request -> Moment]
        /\ affected' \in [Request -> 0 .. MaxAffected]
        BY <1>1, <1>2 DEF IInv, TypeOK
  <2> QED BY <1>1, <2>1, <2>2, <2>3 DEF IInv, TypeOK
<1>5. /\ tx'[q] = "open" /\ ranAt'[q] = now /\ affected'[q] = n /\ reply'[q] = reply[q]
      /\ \/ pc'[q] = "fail" /\ verdict'[q] = "REJECTED" /\ round'[q] = round[q]
         \/ /\ pc'[q] = "principal" /\ round'[q] = 2
            /\ n <= policy[resource[q]].writeLimit
      BY <1>1, <1>2, <1>3 DEF IInv, TypeOK
<1>6. \A p \in Request \ {q} : Unmoved(p)
  <2> TAKE p \in Request \ {q}
  <2>1. pc'[p] = pc[p] /\ round'[p] = round[p]
        BY <1>3 DEF IInv, TypeOK
  <2>2. verdict'[p] = verdict[p] /\ reply'[p] = reply[p]
        BY <1>3 DEF IInv, TypeOK
  <2>3. tx'[p] = tx[p] /\ ranAt'[p] = ranAt[p] /\ affected'[p] = affected[p]
        BY <1>1, <1>2
  <2> QED BY <1>1, <2>1, <2>2, <2>3 DEF Unmoved
<1>7. /\ round[q] = 1 /\ reply[q] = "none" /\ audit[q] = "RECEIVED"
      /\ PlaceShape(q) /\ ReadShape(q)
      BY <1>1, Underway DEF PlaceShape, AuditShape
<1>8. PlaceShape(q)'
      BY <1>1, <1>5, <1>7 DEF PlaceShape, IsQuery, HasRows
<1>9. AuditShape(q)'
      BY <1>1, <1>5, <1>7 DEF AuditShape, IsQuery
<1>10. TxShape(q)'
      BY <1>1, <1>5, <1>7 DEF TxShape
<1>11. ReadShape(q)'
      BY <1>1, <1>5, <1>7 DEF ReadShape, IInv, TypeOK, Moment
<1>12. RecheckShape(q)'
      BY <1>1, <1>5, <1>7 DEF RecheckShape, HasRows, HasCommitted
<1>13. AuditTells(q)'
      BY <1>1, <1>5, <1>7 DEF AuditTells, HasRows
<1> QED BY <1>1, <1>4, <1>6, <1>8, <1>9, <1>10, <1>11, <1>12, <1>13, RequestKeeps
        DEF RequestShape

-----------------------------------------------------------------------------
(* The end of a request.                                                   *)
LEMMA CommitKeeps ==
    ASSUME IInv, NEW q \in Request, Commit(q) \/ CommitFailed(q)
    PROVE  IInv'
<1> USE DEF given, policyVars, traceVars, auditVars
<1>1. /\ pc[q] = "commit"
      /\ endAt' = [endAt EXCEPT ![q] = now]
      /\ UNCHANGED <<policy, now, kind, reason, round, resource, rulesAt, ranAt,
                     affected, audit, lost>>
      BY DEF Commit, CommitFailed
<1>2. /\ kind[q] = "write" /\ IsQuery(q) /\ round[q] = 2
      /\ reply[q] = "none" /\ audit[q] = "RECEIVED"
      /\ PlaceShape(q) /\ ReadShape(q)
      /\ FoundPermitted(q, now)
      BY <1>1, Underway DEF PlaceShape, AuditShape, RecheckShape
<1>3. PICK state \in {"committed", "rolledback"} :
          /\ tx' = [tx EXCEPT ![q] = state]
          /\ \/ /\ state = "committed"
                /\ Goto(q, "audit") /\ UNCHANGED verdict
             \/ Fail(q, "FAILED")
      BY DEF Commit, CommitFailed
<1>4. PICK there \in {"audit", "fail"} :
          /\ pc' = [pc EXCEPT ![q] = there]
          /\ reply' = reply
          /\ there = "audit" => state = "committed" /\ verdict' = verdict
          /\ there = "fail" => verdict' = [verdict EXCEPT ![q] = "FAILED"]
      BY <1>2, <1>3 DEF Fail, Goto
<1>5. TypeOK'
  <2>1. verdict' \in [Request -> Outcome]
        BY <1>4 DEF IInv, TypeOK, Outcome
  <2>2. pc' \in [Request -> PC] /\ reply' \in [Request -> Reply]
        BY <1>4 DEF IInv, TypeOK, PC
  <2>3. /\ tx' \in [Request -> {"none", "open", "committed", "rolledback"}]
        /\ endAt' \in [Request -> Moment]
        BY <1>1, <1>3 DEF IInv, TypeOK
  <2> QED BY <1>1, <2>1, <2>2, <2>3 DEF IInv, TypeOK
<1>6. /\ pc'[q] = there /\ tx'[q] = state /\ endAt'[q] = now
      /\ reply'[q] = reply[q]
      /\ there = "fail" => verdict'[q] = "FAILED"
      BY <1>1, <1>3, <1>4 DEF IInv, TypeOK
<1>7. \A p \in Request \ {q} : Unmoved(p)
  <2> TAKE p \in Request \ {q}
  <2>1. pc'[p] = pc[p] /\ reply'[p] = reply[p] /\ verdict'[p] = verdict[p]
        BY <1>4 DEF IInv, TypeOK
  <2>2. tx'[p] = tx[p] /\ endAt'[p] = endAt[p]
        BY <1>1, <1>3
  <2> QED BY <1>1, <2>1, <2>2 DEF Unmoved
<1>8. PlaceShape(q)'
      BY <1>1, <1>2, <1>6 DEF PlaceShape, IsQuery, HasRows
<1>9. AuditShape(q)'
      BY <1>1, <1>2, <1>6 DEF AuditShape, IsQuery
<1>10. TxShape(q)'
      BY <1>1, <1>2, <1>4, <1>6 DEF TxShape
<1>11. ReadShape(q)'
      BY <1>1, <1>2, <1>6 DEF ReadShape, IInv, TypeOK, Moment
<1>12. RecheckShape(q)'
  <2>1. FoundPermitted(q, endAt[q])'
        BY <1>1, <1>2, <1>6
           DEF FoundPermitted, SameResource, Permits, DecisionOn, ActionOf
  <2> QED BY <1>1, <1>2, <1>6, <2>1 DEF RecheckShape, HasRows, HasCommitted
<1>13. AuditTells(q)'
      BY <1>1, <1>2, <1>6 DEF AuditTells, HasRows
<1> QED BY <1>1, <1>5, <1>7, <1>8, <1>9, <1>10, <1>11, <1>12, <1>13, RequestKeeps
        DEF RequestShape

LEMMA FinalAuditKeeps ==
    ASSUME IInv, NEW q \in Request, FinalAudit(q)
    PROVE  IInv'
<1> USE DEF given, policyVars, traceVars, auditVars
<1>1. /\ pc[q] = "audit"
      /\ audit' = [audit EXCEPT ![q] = Final(q)]
      /\ pc' = [pc EXCEPT ![q] = "done"]
      /\ reply' = [reply EXCEPT ![q] = IF kind[q] = "write" THEN "committed" ELSE "rows"]
      /\ endAt' = IF kind[q] = "write" THEN endAt ELSE [endAt EXCEPT ![q] = now]
      /\ UNCHANGED <<policy, now, kind, reason, round, resource, rulesAt, ranAt,
                     affected, verdict, lost, tx>>
      BY DEF FinalAudit, Answer
<1>2. /\ round[q] = 2 /\ IsQuery(q)
      /\ kind[q] = "write" => tx[q] = "committed"
      /\ kind[q] # "write" => kind[q] = "read" /\ tx[q] = "none"
      /\ PlaceShape(q) /\ ReadShape(q) /\ RecheckShape(q)
      BY <1>1, Underway DEF PlaceShape, TxShape, IsQuery
<1>3. TypeOK'
  <2>1. audit' \in [Request -> Outcome]
        BY <1>1 DEF Final, IInv, TypeOK, Outcome
  <2>2. pc' \in [Request -> PC] /\ reply' \in [Request -> Reply]
        BY <1>1 DEF IInv, TypeOK, PC, Reply
  <2>3. endAt' \in [Request -> Moment]
        BY <1>1 DEF IInv, TypeOK
  <2> QED BY <1>1, <2>1, <2>2, <2>3 DEF IInv, TypeOK
<1>4. /\ pc'[q] = "done"
      /\ kind[q] = "write" =>
            audit'[q] = "COMMITTED" /\ reply'[q] = "committed" /\ endAt'[q] = endAt[q]
      /\ kind[q] # "write" =>
            audit'[q] = "SUCCEEDED" /\ reply'[q] = "rows" /\ endAt'[q] = now
      BY <1>1 DEF Final, IInv, TypeOK
<1>5. \A p \in Request \ {q} : Unmoved(p)
      BY <1>1 DEF Unmoved
<1>6. PlaceShape(q)'
      BY <1>1, <1>2, <1>4 DEF PlaceShape, IsQuery, HasRows
<1>7. AuditShape(q)'
      BY <1>1, <1>2, <1>4 DEF AuditShape, IsQuery
<1>8. TxShape(q)'
      BY <1>1, <1>2, <1>4 DEF TxShape
<1>9. ReadShape(q)'
      BY <1>1, <1>2, <1>4 DEF ReadShape, IInv, TypeOK, Moment
<1>10. RecheckShape(q)'
  <2>1. CASE kind[q] = "write"
    <3>1. FoundPermitted(q, endAt[q])
          BY <1>2, <2>1 DEF RecheckShape, HasCommitted
    <3>2. FoundPermitted(q, endAt[q])'
          BY <1>1, <1>4, <2>1, <3>1
             DEF FoundPermitted, SameResource, Permits, DecisionOn, ActionOf
    <3> QED BY <1>4, <3>2 DEF RecheckShape
  <2>2. CASE kind[q] # "write"
    <3>1. FoundPermitted(q, now)
          BY <1>1, <1>2, <2>2 DEF RecheckShape
    <3>2. FoundPermitted(q, endAt[q])'
          BY <1>1, <1>4, <2>2, <3>1
             DEF FoundPermitted, SameResource, Permits, DecisionOn, ActionOf
    <3> QED BY <1>4, <3>2 DEF RecheckShape
  <2> QED BY <2>1, <2>2
<1>11. AuditTells(q)'
      BY <1>1, <1>2, <1>4 DEF AuditTells, HasRows
<1> QED BY <1>1, <1>3, <1>5, <1>6, <1>7, <1>8, <1>9, <1>10, <1>11, RequestKeeps
        DEF RequestShape

LEMMA FinalAuditFailedKeeps ==
    ASSUME IInv, NEW q \in Request, FinalAuditFailed(q)
    PROVE  IInv'
<1> USE DEF given, policyVars, traceVars, auditVars
<1>1. PICK outcome \in {audit[q], Final(q)} : audit' = [audit EXCEPT ![q] = outcome]
      BY DEF FinalAuditFailed
<1>2. /\ pc[q] = "audit" /\ Answer(q, FailedAuditReply(q))
      /\ lost' = [lost EXCEPT ![q] = TRUE]
      /\ UNCHANGED <<policy, now, kind, reason, round, resource, rulesAt, ranAt,
                     endAt, affected, verdict, tx>>
      BY DEF FinalAuditFailed
<1>3. /\ round[q] = 2 /\ IsQuery(q) /\ audit[q] = "RECEIVED"
      /\ kind[q] = "write" => tx[q] = "committed"
      /\ kind[q] # "write" => kind[q] = "read" /\ tx[q] = "none"
      /\ PlaceShape(q) /\ TxShape(q)
      BY <1>2, Underway DEF PlaceShape, AuditShape, TxShape, IsQuery
<1>4. /\ outcome \in Outcome /\ FailedAuditReply(q) \in {"unaudited", "withheld"}
      /\ kind[q] = "write" => /\ outcome \in {"RECEIVED", "COMMITTED"}
                              /\ FailedAuditReply(q) = "unaudited"
      /\ kind[q] # "write" => /\ outcome \in {"RECEIVED", "SUCCEEDED"}
                              /\ FailedAuditReply(q) = "withheld"
      BY <1>3 DEF Final, FailedAuditReply, Outcome
<1>5. /\ pc' \in [Request -> PC] /\ reply' \in [Request -> Reply]
      /\ pc'[q] = "done" /\ reply'[q] = FailedAuditReply(q)
      /\ \A p \in Request \ {q} : pc'[p] = pc[p] /\ reply'[p] = reply[p]
      BY <1>2, <1>4 DEF Answer, IInv, TypeOK, PC, Reply
<1>6. /\ audit' \in [Request -> Outcome] /\ audit'[q] = outcome
      /\ \A p \in Request \ {q} : audit'[p] = audit[p]
      /\ verdict' \in [Request -> Outcome] /\ lost' \in [Request -> BOOLEAN]
      BY <1>1, <1>2, <1>4 DEF IInv, TypeOK
<1>7. PlaceShape(q)'
      BY <1>2, <1>3, <1>4, <1>5 DEF PlaceShape, IsQuery, HasRows
<1>8. AuditShape(q)'
      BY <1>2, <1>3, <1>5 DEF AuditShape, IsQuery
<1>9. TxShape(q)'
      BY <1>2, <1>3, <1>5 DEF TxShape
<1>10. AuditTells(q)'
      BY <1>2, <1>3, <1>4, <1>5, <1>6 DEF AuditTells, HasRows
<1> QED BY <1>2, <1>3, <1>4, <1>5, <1>6, <1>7, <1>8, <1>9, <1>10, LocalKeeps

LEMMA AuditFailureKeeps ==
    ASSUME IInv, NEW q \in Request, AuditFailure(q)
    PROVE  IInv'
<1> USE DEF given, policyVars, traceVars, auditVars
<1>1. PICK outcome \in {audit[q], verdict[q]} : audit' = [audit EXCEPT ![q] = outcome]
  <2>1. audit = [audit EXCEPT ![q] = audit[q]]
        BY DEF IInv, TypeOK
  <2> QED BY <2>1 DEF AuditFailure
<1>2. /\ pc[q] = "fail" /\ Goto(q, "unwind")
      /\ lost' \in [Request -> BOOLEAN]
      /\ UNCHANGED <<policy, now, kind, reason, round, resource, rulesAt, ranAt,
                     endAt, affected, verdict, tx>>
      BY DEF AuditFailure, IInv, TypeOK
<1>3. /\ IsQuery(q) /\ audit[q] = "RECEIVED" /\ reply[q] = "none"
      /\ verdict[q] \in {"REJECTED", "DENIED", "FAILED"}
      /\ PlaceShape(q) /\ TxShape(q) /\ AuditTells(q)
      BY <1>2, Underway DEF PlaceShape, AuditShape
<1>4. /\ pc' \in [Request -> PC] /\ reply' \in [Request -> Reply]
      /\ pc'[q] = "unwind" /\ reply' = reply
      /\ \A p \in Request \ {q} : pc'[p] = pc[p]
      BY <1>2 DEF Goto, IInv, TypeOK, PC
<1>5. /\ audit' \in [Request -> Outcome] /\ audit'[q] = outcome
      /\ \A p \in Request \ {q} : audit'[p] = audit[p]
      /\ verdict' \in [Request -> Outcome]
      BY <1>1, <1>2 DEF IInv, TypeOK
<1>6. PlaceShape(q)'
      BY <1>2, <1>3, <1>4 DEF PlaceShape, IsQuery, HasRows
<1>7. AuditShape(q)'
      BY <1>2, <1>3, <1>4, <1>5 DEF AuditShape, IsQuery
<1>8. TxShape(q)'
      BY <1>2, <1>3, <1>4 DEF TxShape
<1>9. AuditTells(q)'
      BY <1>2, <1>3, <1>4, <1>5 DEF AuditTells, HasRows, TxShape
<1> QED BY <1>2, <1>3, <1>4, <1>5, <1>6, <1>7, <1>8, <1>9, LocalKeeps

LEMMA UnwindKeeps ==
    ASSUME IInv, NEW q \in Request, Unwind(q)
    PROVE  IInv'
<1> USE DEF given, policyVars, traceVars, auditVars
<1>1. /\ pc[q] = "unwind"
      /\ tx' = [tx EXCEPT ![q] = IF tx[q] = "open" THEN "rolledback" ELSE tx[q]]
      /\ pc' = [pc EXCEPT ![q] = "done"]
      /\ reply' = [reply EXCEPT ![q] = "error"]
      /\ UNCHANGED <<policy, now, kind, reason, round, resource, rulesAt, ranAt,
                     endAt, affected, verdict, audit, lost>>
      BY DEF Unwind, Undone, Answer
<1>2. TypeOK'
      BY <1>1 DEF IInv, TypeOK, PC, Reply
<1>3. /\ pc'[q] = "done" /\ reply'[q] = "error"
      /\ tx'[q] = IF tx[q] = "open" THEN "rolledback" ELSE tx[q]
      BY <1>1 DEF IInv, TypeOK
<1>4. \A p \in Request \ {q} : Unmoved(p)
      BY <1>1 DEF Unmoved
<1>5. /\ PlaceShape(q) /\ AuditShape(q) /\ TxShape(q) /\ ReadShape(q)
      /\ RecheckShape(q) /\ AuditTells(q) /\ reply[q] = "none"
      BY <1>1, Underway
<1>6. PlaceShape(q)'
      BY <1>1, <1>3, <1>5 DEF PlaceShape, IsQuery, HasRows
<1>7. AuditShape(q)'
      BY <1>1, <1>3, <1>5 DEF AuditShape, IsQuery
<1>8. TxShape(q)'
      BY <1>1, <1>3, <1>5 DEF TxShape
<1>9. ReadShape(q)'
      BY <1>1, <1>3, <1>5 DEF ReadShape, IsQuery
<1>10. RecheckShape(q)'
      BY <1>1, <1>3, <1>5
         DEF RecheckShape, HasRows, HasCommitted, FoundPermitted, SameResource,
             Permits, DecisionOn, ActionOf
<1>11. AuditTells(q)'
      BY <1>1, <1>3, <1>5 DEF AuditTells, AuditShape, HasRows
<1> QED BY <1>1, <1>2, <1>4, <1>6, <1>7, <1>8, <1>9, <1>10, <1>11, RequestKeeps
        DEF RequestShape

(* The gateway dies: requests that were under way have no answer, and what *)
(* they had not committed is rolled back.                                  *)
LEMMA CrashKeeps ==
    ASSUME IInv, Crash
    PROVE  IInv'
<1> USE DEF given, policyVars, traceVars, auditVars
<1>1. /\ pc' = [q \in Request |-> IF pc[q] = "idle" THEN "idle" ELSE "done"]
      /\ reply' = [q \in Request |-> IF pc[q] \in {"idle", "done"}
                                     THEN reply[q] ELSE "crashed"]
      /\ UNCHANGED <<policy, now, kind, reason, round, resource, rulesAt, ranAt,
                     endAt, affected, verdict, audit, lost>>
      BY DEF Crash
<1>2. tx' = [q \in Request |-> IF tx[q] = "open" THEN "rolledback" ELSE tx[q]]
      BY DEF Crash, Undone, IInv, TypeOK
<1>3. TypeOK'
  <2>1. pc' \in [Request -> PC] /\ reply' \in [Request -> Reply]
        BY <1>1 DEF IInv, TypeOK, PC, Reply
  <2>2. tx' \in [Request -> {"none", "open", "committed", "rolledback"}]
        BY <1>2 DEF IInv, TypeOK
  <2> QED BY <1>1, <2>1, <2>2 DEF IInv, TypeOK
<1>4. HistoryShape'
      BY <1>1 DEF IInv, HistoryShape
<1>5. ASSUME NEW q \in Request PROVE RequestShape(q)'
  <2>1. /\ PlaceShape(q) /\ AuditShape(q) /\ TxShape(q) /\ ReadShape(q)
        /\ RecheckShape(q) /\ AuditTells(q)
        BY DEF IInv, RequestShape
  <2>2. /\ pc'[q] = IF pc[q] = "idle" THEN "idle" ELSE "done"
        /\ reply'[q] = IF pc[q] \in {"idle", "done"} THEN reply[q] ELSE "crashed"
        /\ tx'[q] = IF tx[q] = "open" THEN "rolledback" ELSE tx[q]
        BY <1>1, <1>2
  <2>3. PlaceShape(q)'
        BY <1>1, <2>1, <2>2 DEF PlaceShape, IsQuery, HasRows
  <2>4. AuditShape(q)'
        BY <1>1, <2>1, <2>2 DEF AuditShape, IsQuery
  <2>5. TxShape(q)'
        BY <1>1, <2>1, <2>2 DEF TxShape, PlaceShape
  <2>6. ReadShape(q)'
        BY <1>1, <2>1, <2>2 DEF ReadShape, IsQuery
  <2>7. RecheckShape(q)'
        BY <1>1, <2>1, <2>2
           DEF RecheckShape, HasRows, HasCommitted, FoundPermitted,
               SameResource, Permits, DecisionOn, ActionOf
  <2>8. AuditTells(q)'
        BY <1>1, <2>1, <2>2 DEF AuditTells, PlaceShape, AuditShape, HasRows
  <2> QED BY <2>3, <2>4, <2>5, <2>6, <2>7, <2>8 DEF RequestShape
<1> QED BY <1>3, <1>4, <1>5 DEF IInv

-----------------------------------------------------------------------------
(* A change of the policy leaves the history up to now as it was.          *)
LEMMA ChangeKeeps ==
    ASSUME IInv, NEW p \in Policy, Change(p),
           policy[now].version <= p.version,
           policy[now].version = p.version =>
               /\ policy[now].masked = p.masked
               /\ policy[now].writeLimit = p.writeLimit
    PROVE  IInv'
<1> USE DEF traceVars, auditVars
<1>1. /\ now < MaxChanges
      /\ policy' = [policy EXCEPT ![now + 1] = p] /\ now' = now + 1
      /\ UNCHANGED <<pc, kind, reason, round, resource, rulesAt, ranAt, endAt,
                     affected, verdict, audit, lost, tx, reply>>
      BY DEF Change
<1>2. now \in Moment /\ now + 1 \in Moment
      BY <1>1, QueryAssumption DEF IInv, TypeOK, Moment
<1>3. /\ policy' \in [Moment -> Policy] /\ policy'[now + 1] = p
      /\ \A i \in Moment : i <= now => policy'[i] = policy[i]
      BY <1>1, <1>2 DEF IInv, TypeOK, Moment
<1>4. TypeOK'
      BY <1>1, <1>2, <1>3 DEF IInv, TypeOK
<1>5. HistoryShape'
  <2>1. \A i \in Moment : policy[i].version \in Nat
        BY DEF IInv, TypeOK, Policy
  <2>2. p.version \in Nat
        BY DEF Policy
  <2> SUFFICES ASSUME NEW i \in Moment, NEW j \in Moment, i <= j, j <= now + 1
               PROVE  /\ policy'[i].version <= policy'[j].version
                      /\ policy'[i].version = policy'[j].version =>
                            /\ policy'[i].masked = policy'[j].masked
                            /\ policy'[i].writeLimit = policy'[j].writeLimit
      BY <1>1 DEF HistoryShape
  <2>3. CASE j <= now
    <3>1. i <= now
          BY <1>2, <2>3 DEF Moment
    <3>2. policy'[i] = policy[i] /\ policy'[j] = policy[j]
          BY <1>3, <2>3, <3>1
    <3> QED BY <2>3, <3>2 DEF IInv, HistoryShape
  <2>4. CASE j = now + 1 /\ i <= now
    <3>1. /\ policy[i].version <= policy[now].version
          /\ policy[i].version = policy[now].version =>
                /\ policy[i].masked = policy[now].masked
                /\ policy[i].writeLimit = policy[now].writeLimit
          BY <1>2, <2>4 DEF IInv, HistoryShape, Moment
    <3>2. policy'[i] = policy[i] /\ policy'[j] = p
          BY <1>3, <2>4
    <3> QED BY <1>2, <2>1, <2>2, <3>1, <3>2
  <2>5. CASE j = now + 1 /\ i = now + 1
        BY <1>3, <2>2, <2>5
  <2> QED BY <1>2, <2>3, <2>4, <2>5 DEF Moment
<1>6. ASSUME NEW q \in Request PROVE RequestShape(q)'
  <2>1. /\ PlaceShape(q) /\ AuditShape(q) /\ TxShape(q) /\ ReadShape(q)
        /\ RecheckShape(q) /\ AuditTells(q)
        BY DEF IInv, RequestShape
  <2>2. /\ resource[q] \in Moment /\ rulesAt[q] \in Moment
        /\ ranAt[q] \in Moment /\ endAt[q] \in Moment
        BY DEF IInv, TypeOK
  <2>3. /\ policy'[resource[q]] = policy[resource[q]]
        /\ policy'[rulesAt[q]] = policy[rulesAt[q]]
        BY <1>3, <2>1, <2>2 DEF ReadShape
  <2>4. PlaceShape(q)'
        BY <1>1, <2>1 DEF PlaceShape, IsQuery, HasRows
  <2>5. AuditShape(q)'
        BY <1>1, <2>1 DEF AuditShape, IsQuery
  <2>6. TxShape(q)'
        BY <1>1, <2>1 DEF TxShape
  <2>7. ReadShape(q)'
        BY <1>1, <1>2, <2>1, <2>2, <2>3 DEF ReadShape, IsQuery, Moment
  <2>8. ASSUME NEW n \in Moment, n <= now
        PROVE  /\ FoundActive(q, n) =>
                     \E i \in Moment : ranAt[q] <= i /\ i <= n /\ policy'[i].active
               /\ FoundUnchanged(q, n) =>
                     \E i, j \in Moment :
                         /\ ranAt[q] <= i /\ i <= j /\ j <= n
                         /\ policy'[i].active /\ policy'[j].enabled
                         /\ policy'[j].version = policy'[resource[q]].version
               /\ FoundPermitted(q, n) =>
                     \E i, j, k \in Moment :
                         /\ ranAt[q] <= i /\ i <= j /\ j <= k /\ k <= n
                         /\ policy'[i].active /\ policy'[j].enabled
                         /\ policy'[j].version = policy'[resource[q]].version
                         /\ Permits(policy'[k], q)
    <3>1. ASSUME NEW i \in Moment, i <= n PROVE policy'[i] = policy[i]
          BY <1>2, <1>3, <2>8, <3>1 DEF Moment
    <3>2. ASSUME NEW i \in Moment, NEW j \in Moment, i <= j, j <= n PROVE i <= n
          BY <3>2 DEF Moment
    <3>3. ASSUME NEW i \in Moment, NEW j \in Moment, NEW k \in Moment,
                 i <= j, j <= k, k <= n
          PROVE  i <= n /\ j <= n
          BY <3>3 DEF Moment
    <3> QED BY <2>3, <3>1, <3>2, <3>3
            DEF FoundActive, FoundUnchanged, FoundPermitted, SameResource
  <2>9. RecheckShape(q)'
    <3>1. now \in Moment /\ now' = now + 1 /\ endAt[q] <= now
          BY <1>1, <1>2, <2>1 DEF ReadShape
    <3>2. FoundActive(q, now) => FoundActive(q, now)'
          BY <1>1, <1>2, <2>2, <2>8, <3>1 DEF FoundActive, Moment
    <3>3. FoundUnchanged(q, now) => FoundUnchanged(q, now)'
          BY <1>1, <1>2, <2>2, <2>8, <3>1 DEF FoundUnchanged, SameResource, Moment
    <3>4. ASSUME FoundPermitted(q, now) PROVE FoundPermitted(q, now)'
      <4>1. PICK i \in Moment, j \in Moment, k \in Moment :
                /\ ranAt[q] <= i /\ i <= j /\ j <= k /\ k <= now
                /\ policy'[i].active /\ policy'[j].enabled
                /\ policy'[j].version = policy'[resource[q]].version
                /\ Permits(policy'[k], q)
        <5>1. now <= now
              BY <1>2 DEF Moment
        <5> QED BY <2>8, <3>1, <3>4, <5>1
      <4>2. k <= now'
            BY <1>2, <3>1, <4>1 DEF Moment
      <4>3. Permits(policy[k], q)'
            BY <1>1, <4>1 DEF Permits, DecisionOn, ActionOf
      <4>4. SameResource(q, j)'
            BY <1>1, <4>1 DEF SameResource
      <4> QED BY <1>1, <4>1, <4>2, <4>3, <4>4 DEF FoundPermitted
    <3>5. FoundPermitted(q, endAt[q]) => FoundPermitted(q, endAt[q])'
          BY <1>1, <2>2, <2>8, <3>1
             DEF FoundPermitted, SameResource, Permits, DecisionOn, ActionOf
    <3> QED BY <1>1, <2>1, <3>2, <3>3, <3>4, <3>5
            DEF RecheckShape, HasRows, HasCommitted
  <2>10. AuditTells(q)'
        BY <1>1, <2>1 DEF AuditTells, HasRows
  <2> QED BY <2>4, <2>5, <2>6, <2>7, <2>9, <2>10 DEF RequestShape
<1> QED BY <1>4, <1>5, <1>6 DEF IInv

(* What an administrator writes is a policy; the version grows with every  *)
(* change of the resource and of its rules, and with no other.             *)
LEMMA AdminKeeps ==
    ASSUME IInv, AdminStep
    PROVE  IInv'
<1>1. /\ Current \in Policy /\ Current = policy[now]
      /\ Current.version \in Nat
      BY DEF Current, IInv, TypeOK, Policy
<1>2. NextVersion(Current) \in Policy /\ NextVersion(Current).version = Current.version + 1
  <2>1. NextVersion(Current) =
            [active |-> Current.active, enabled |-> Current.enabled,
             version |-> Current.version + 1, masked |-> Current.masked,
             writeLimit |-> Current.writeLimit, grants |-> Current.grants]
        BY <1>1 DEF NextVersion, Policy
  <2> QED BY <1>1, <2>1 DEF Policy
<1>3. CASE SetPrincipalStatus
  <2> DEFINE p == [Current EXCEPT !.active = ~@]
  <2>1. /\ p \in Policy /\ p.version = Current.version
        /\ p.masked = Current.masked /\ p.writeLimit = Current.writeLimit
        BY <1>1 DEF Policy
  <2>2. Change(p)
        BY <1>3 DEF SetPrincipalStatus
  <2> HIDE DEF p
  <2> QED BY <1>1, <2>1, <2>2, ChangeKeeps
<1>4. CASE UpdateResource
  <2>1. PICK limit \in WriteLimits, on \in BOOLEAN :
            Change([NextVersion(Current) EXCEPT !.writeLimit = limit, !.enabled = on])
        BY <1>4 DEF UpdateResource
  <2> DEFINE p == [NextVersion(Current) EXCEPT !.writeLimit = limit, !.enabled = on]
  <2>2. p \in Policy /\ p.version = Current.version + 1
        BY <1>2 DEF Policy
  <2> HIDE DEF p
  <2>3. Change(p)
        BY <2>1 DEF p
  <2> QED BY <1>1, <2>2, <2>3, ChangeKeeps
<1>5. CASE SaveMaskRule
  <2>1. PICK on \in BOOLEAN : Change([RuleVersion(Current) EXCEPT !.masked = on])
        BY <1>5 DEF SaveMaskRule
  <2> DEFINE p == [RuleVersion(Current) EXCEPT !.masked = on]
  <2>2. p \in Policy /\ p.version = Current.version + 1
        BY <1>2 DEF RuleVersion, Policy
  <2> HIDE DEF p
  <2>3. Change(p)
        BY <2>1 DEF p
  <2> QED BY <1>1, <2>2, <2>3, ChangeKeeps
<1>6. ASSUME NEW a \in Grantable, NEW t \in Terms \cup {NoGrant},
             Change([Current EXCEPT !.grants[a] = t])
      PROVE  IInv'
  <2> DEFINE p == [Current EXCEPT !.grants[a] = t]
  <2>1. /\ p \in Policy /\ p.version = Current.version
        /\ p.masked = Current.masked /\ p.writeLimit = Current.writeLimit
        BY <1>1 DEF Policy
  <2> HIDE DEF p
  <2>2. Change(p)
        BY <1>6 DEF p
  <2> QED BY <1>1, <2>1, <2>2, ChangeKeeps
<1>7. CASE UpsertGrant \/ RevokeGrant
      BY <1>6, <1>7 DEF UpsertGrant, RevokeGrant
<1> QED BY <1>3, <1>4, <1>5, <1>7 DEF AdminStep

LEMMA StepKeeps == IInv /\ [Next]_vars => IInv'
<1> SUFFICES ASSUME IInv, [Next]_vars PROVE IInv'
    OBVIOUS
<1>1. ASSUME NEW q \in Request, RequestStep(q) PROVE IInv'
      BY <1>1, LookupKeeps, EarlyAnswerKeeps, ReceiveKeeps, RefusalKeeps,
         VetKeeps, ChecksKeep, GetPoolKeeps, TargetKeeps, ReadRulesKeeps,
         RunReadKeeps, RunSchemaKeeps, RunWriteKeeps, CommitKeeps,
         FinalAuditKeeps, FinalAuditFailedKeeps, AuditFailureKeeps, UnwindKeeps
         DEF RequestStep
<1>2. CASE UNCHANGED vars
  <2>1. TypeOK' /\ HistoryShape'
        BY <1>2 DEF vars, IInv, TypeOK, HistoryShape
  <2>2. \A q \in Request : Unmoved(q)
        BY <1>2 DEF vars, Unmoved
  <2> QED BY <1>2, <2>1, <2>2, OthersKeep DEF vars, IInv
<1> QED BY <1>1, <1>2, StartKeeps, AdminKeeps, CrashKeeps DEF Next, Quiet

(* The inductive invariant of the requests, their audit rows and their     *)
(* transactions, and of the policy they run under.                         *)
THEOREM QueryInvariance == Spec => []IInv
BY Initially, StepKeeps, PTL DEF Spec

(* The state of the requests, the store and the target keeps its types,    *)
(* for any set of requests, of any kinds, with any limits and faults.      *)
THEOREM QueryTypes == Spec => []TypeOK
<1>1. IInv => TypeOK
      BY DEF IInv
<1> QED BY <1>1, QueryInvariance, PTL

(* Rows are returned, and a write is committed, only if authorizeResource  *)
(* has found all three of its conditions again, in order, after the        *)
(* statement ran (query/service.go, README.en.md:34).                      *)
THEOREM AuthorizedTwice == Spec => []AuthorizedAgain
<1>1. IInv => AuthorizedAgain
      BY DEF IInv, RequestShape, RecheckShape, FoundPermitted, AuthorizedAgain,
             RecheckedSince
<1> QED BY <1>1, QueryInvariance, PTL

(* The version that the second authorization compares stands for the rules *)
(* and the limit: those the statement ran with were still in force         *)
(* (docs/masking-and-mcp.md:48).                                           *)
THEOREM RulesAreCurrent == Spec => []CurrentRulesApplied
<1>1. ASSUME IInv, NEW q \in Request, HasRows(q) \/ HasCommitted(q)
      PROVE  \E j \in ranAt[q] .. endAt[q] :
                 /\ SameResource(q, j)
                 /\ policy[rulesAt[q]].masked = policy[j].masked
                 /\ HasCommitted(q) => /\ ~policy[j].masked
                                       /\ affected[q] <= policy[j].writeLimit
  <2>1. /\ PlaceShape(q) /\ TxShape(q) /\ ReadShape(q) /\ RecheckShape(q)
        /\ TypeOK /\ HistoryShape
        BY <1>1 DEF IInv, RequestShape
  <2>2. round[q] = 2 /\ (HasCommitted(q) => kind[q] = "write")
        BY <1>1, <2>1 DEF PlaceShape, TxShape, HasCommitted
  <2>3. PICK j \in Moment :
            ranAt[q] <= j /\ j <= endAt[q] /\ SameResource(q, j)
    <3>1. PICK i \in Moment, j \in Moment, k \in Moment :
              /\ ranAt[q] <= i /\ i <= j /\ j <= k /\ k <= endAt[q]
              /\ SameResource(q, j)
          BY <1>1, <2>1 DEF RecheckShape, FoundPermitted
    <3>2. ranAt[q] \in Moment /\ endAt[q] \in Moment
          BY <2>1 DEF TypeOK
    <3>3. ranAt[q] <= j /\ j <= endAt[q]
          BY <3>1, <3>2 DEF Moment
    <3> QED BY <3>1, <3>3
  <2>4. /\ resource[q] \in Moment /\ rulesAt[q] \in Moment /\ ranAt[q] \in Moment
        /\ endAt[q] \in Moment /\ now \in Moment
        /\ resource[q] <= rulesAt[q] /\ rulesAt[q] <= ranAt[q] /\ endAt[q] <= now
        BY <2>1, <2>2 DEF TypeOK, ReadShape
  <2>5. rulesAt[q] <= j /\ resource[q] <= j /\ j <= now /\ rulesAt[q] <= now
        BY <2>3, <2>4 DEF Moment
  <2>6. /\ policy[resource[q]].version \in Nat /\ policy[rulesAt[q]].version \in Nat
        /\ policy[j].version \in Nat
        BY <2>1, <2>4 DEF TypeOK, Policy
  <2>7. /\ policy[resource[q]].version <= policy[rulesAt[q]].version
        /\ policy[rulesAt[q]].version <= policy[j].version
        /\ policy[j].version = policy[resource[q]].version
        BY <2>1, <2>3, <2>4, <2>5 DEF HistoryShape, SameResource
  <2>8. /\ policy[rulesAt[q]].version = policy[j].version
        /\ policy[resource[q]].version = policy[j].version
        BY <2>6, <2>7
  <2>9. /\ policy[rulesAt[q]].masked = policy[j].masked
        /\ policy[resource[q]].writeLimit = policy[j].writeLimit
        BY <2>1, <2>4, <2>5, <2>8 DEF HistoryShape
  <2>10. HasCommitted(q) => /\ ~policy[rulesAt[q]].masked
                            /\ affected[q] <= policy[resource[q]].writeLimit
        BY <2>1, <2>2 DEF ReadShape
  <2>11. j \in ranAt[q] .. endAt[q]
        BY <2>3, <2>4 DEF Moment
  <2> QED BY <2>3, <2>9, <2>10, <2>11
<1>2. IInv => CurrentRulesApplied
      BY <1>1 DEF CurrentRulesApplied
<1> QED BY <1>2, QueryInvariance, PTL

(* The audit rows are true, and what the caller is told agrees with them   *)
(* (docs/security.md:11), whatever fails and whenever the gateway dies.    *)
THEOREM AuditsAreTrue == Spec => []AuditIsTrue
<1>1. IInv => AuditIsTrue
      BY DEF IInv, RequestShape, AuditIsTrue
<1> QED BY <1>1, QueryInvariance, PTL

-----------------------------------------------------------------------------
(* The refinement needs one thing more: what the first authorization has   *)
(* found when a request is admitted to the target.                         *)

(* What the first authorization has found so far, since the resource was   *)
(* read.                                                                   *)
FirstShape(q) ==
    /\ round[q] = 1 /\ pc[q] = "resource" =>
          \E i \in Moment : resource[q] <= i /\ i <= now /\ policy[i].active
    /\ round[q] = 1 /\ pc[q] = "grants" =>
          \E i, j \in Moment :
              /\ resource[q] <= i /\ i <= j /\ j <= now
              /\ policy[i].active
              /\ policy[j].enabled /\ SameResource(q, j)

(* The inductive invariant of the refinement.                              *)
PInv == IInv /\ \A q \in Request : FirstShape(q)

(* A request's own steps concern nobody else.                              *)
LEMMA OneMoves ==
    ASSUME IInv, NEW q \in Request, Start(q) \/ RequestStep(q)
    PROVE  /\ UNCHANGED <<policy, now, kind, reason>>
           /\ \A p \in Request \ {q} : Unmoved(p)
<1> USE DEF given, policyVars, traceVars, auditVars, Unmoved, IInv, TypeOK
<1>1. CASE Start(q) \/ Lookup(q) \/ LookupFailed(q) \/ Receive(q) \/ ReceiveFailed(q) \/ Vet(q)
      BY <1>1 DEF Start, Lookup, LookupFailed, Receive, ReceiveFailed, Vet, Goto, Answer
<1>2. CASE VetFailed(q) \/ AuthorizeFailed(q) \/ TargetFailed(q) \/ MaskingRejects(q)
      BY <1>2 DEF VetFailed, AuthorizeFailed, TargetFailed, MaskingRejects, Fail, Goto, Answer
<1>3. CASE CheckPrincipal(q) \/ CheckResource(q) \/ CheckGrants(q) \/ GetPool(q) \/ ReadRules(q)
      BY <1>3 DEF CheckPrincipal, CheckResource, CheckGrants, GetPool, ReadRules, Goto
<1>4. CASE RunRead(q) \/ RunSchema(q) \/ RunWrite(q)
      BY <1>4 DEF RunRead, RunSchema, RunWrite, Fail, Goto, Answer
<1>5. CASE Commit(q) \/ CommitFailed(q)
      BY <1>5 DEF Commit, CommitFailed, Fail, Goto, Answer
<1>6. CASE FinalAudit(q) \/ FinalAuditFailed(q) \/ AuditFailure(q) \/ Unwind(q)
      BY <1>6 DEF FinalAudit, FinalAuditFailed, AuditFailure, Unwind, Undone, Goto, Answer
<1> QED BY <1>1, <1>2, <1>3, <1>4, <1>5, <1>6 DEF RequestStep

(* No authorization has begun.                                             *)
LEMMA FirstInitially == Init => \A q \in Request : FirstShape(q)
BY DEF Init, FirstShape

(* An authorization goes on from what it has found.                        *)
LEMMA FirstStepKeeps ==
    ASSUME PInv, NEW q \in Request, Start(q) \/ RequestStep(q)
    PROVE  \A p \in Request : FirstShape(p)'
<1>1. /\ UNCHANGED <<policy, now>>
      /\ \A p \in Request \ {q} : Unmoved(p)
      BY OneMoves DEF PInv
<1>2. \A p \in Request \ {q} : FirstShape(p)'
      BY <1>1 DEF PInv, FirstShape, Unmoved, SameResource
<1>3. CASE CheckPrincipal(q)
  <2>1. pc'[q] = "resource" /\ resource' = resource /\ policy[now].active
        BY <1>3 DEF CheckPrincipal, StatusIsActive, Current, Goto, traceVars, PInv,
                    IInv, TypeOK
  <2>2. now \in Moment /\ resource[q] <= now /\ now <= now
        BY DEF PInv, IInv, TypeOK, RequestShape, ReadShape, Moment
  <2> QED BY <1>1, <1>2, <2>1, <2>2 DEF FirstShape
<1>4. CASE CheckResource(q)
  <2>1. /\ pc[q] = "resource" /\ pc'[q] = "grants" /\ resource' = resource
        /\ round' = round
        /\ policy[now].enabled /\ SameResource(q, now)
        BY <1>4 DEF CheckResource, ResourceUnchanged, Current, Goto, traceVars, PInv,
                    IInv, TypeOK
  <2>2. now \in Moment /\ now <= now
        BY DEF PInv, IInv, TypeOK, Moment
  <2>3. round[q] = 1 => \E i \in Moment : resource[q] <= i /\ i <= now /\ policy[i].active
        BY <2>1 DEF PInv, FirstShape
  <2>4. round[q] = 1 =>
            \E i, j \in Moment :
                /\ resource[q] <= i /\ i <= j /\ j <= now
                /\ policy[i].active
                /\ policy[j].enabled /\ SameResource(q, j)
        BY <2>1, <2>2, <2>3
  <2>5. FirstShape(q)'
        BY <1>1, <2>1, <2>4 DEF FirstShape, SameResource
  <2> QED BY <1>2, <2>5
<1>5. CASE ~CheckPrincipal(q) /\ ~CheckResource(q)
  <2>1. pc'[q] \notin {"resource", "grants"}
    <3> USE DEF PInv, IInv, TypeOK
    <3>1. CASE Start(q) \/ Lookup(q) \/ LookupFailed(q) \/ Receive(q)
               \/ ReceiveFailed(q) \/ Vet(q)
          BY <3>1 DEF Start, Lookup, LookupFailed, Receive, ReceiveFailed, Vet,
                      Goto, Answer
    <3>2. CASE VetFailed(q) \/ AuthorizeFailed(q) \/ TargetFailed(q)
               \/ MaskingRejects(q)
          BY <3>2 DEF VetFailed, AuthorizeFailed, TargetFailed, MaskingRejects,
                      Fail, Goto, Answer
    <3>3. CASE CheckGrants(q) \/ GetPool(q) \/ ReadRules(q)
          BY <3>3 DEF CheckGrants, NextAfterGrants, GetPool, ReadRules, Goto
    <3>4. CASE RunRead(q) \/ RunSchema(q) \/ RunWrite(q)
          BY <3>4 DEF RunRead, RunSchema, RunWrite, Fail, Goto, Answer
    <3>5. CASE Commit(q) \/ CommitFailed(q)
          BY <3>5 DEF Commit, CommitFailed, Fail, Goto, Answer
    <3>6. CASE FinalAudit(q) \/ FinalAuditFailed(q) \/ AuditFailure(q) \/ Unwind(q)
          BY <3>6 DEF FinalAudit, FinalAuditFailed, AuditFailure, Unwind, Goto,
                      Answer
    <3> QED BY <1>5, <3>1, <3>2, <3>3, <3>4, <3>5, <3>6 DEF RequestStep
  <2> QED BY <1>2, <2>1 DEF FirstShape
<1> QED BY <1>3, <1>4, <1>5

(* What the store has been, it stays.                                      *)
LEMMA PastKept ==
    ASSUME IInv, NEW p \in Policy, Change(p)
    PROVE  /\ now \in Moment /\ now' = now + 1 /\ now < MaxChanges
           /\ \A n \in Moment : n <= now => policy'[n] = policy[n]
           /\ UNCHANGED <<pc, kind, reason, round, resource, ranAt, audit, tx, reply>>
<1>1. /\ now \in Moment /\ now' = now + 1 /\ now < MaxChanges
      /\ policy' = [policy EXCEPT ![now + 1] = p]
      /\ UNCHANGED <<pc, kind, reason, round, resource, ranAt, audit, tx, reply>>
      BY DEF Change, IInv, TypeOK, traceVars, auditVars
<1>2. ASSUME NEW n \in Moment, n <= now PROVE n # now + 1
      BY <1>1, <1>2 DEF Moment
<1>3. DOMAIN policy = Moment
      BY DEF IInv, TypeOK
<1> QED BY <1>1, <1>2, <1>3

(* A change of the policy takes nothing from what was found before it.     *)
LEMMA FirstChangeKeeps ==
    ASSUME PInv, NEW p \in Policy, Change(p)
    PROVE  \A q \in Request : FirstShape(q)'
<1>1. /\ now \in Moment /\ now' = now + 1
      /\ \A n \in Moment : n <= now => policy'[n] = policy[n]
      /\ UNCHANGED <<pc, round, resource>>
      BY PastKept DEF PInv
<1> SUFFICES ASSUME NEW q \in Request PROVE FirstShape(q)'
    OBVIOUS
<1>2. /\ FirstShape(q) /\ resource[q] \in Moment /\ resource[q] <= now
      BY DEF PInv, IInv, TypeOK, RequestShape, ReadShape
<1>3. \A n \in Moment : n <= now => n <= now'
      BY <1>1 DEF Moment
<1>4. \A i, j \in Moment : i <= j /\ j <= now => i <= now
      BY <1>1 DEF Moment
<1>5. policy'[resource[q]] = policy[resource[q]]
      BY <1>1, <1>2
<1>6. round[q] = 1 /\ pc[q] = "resource" =>
          \E i \in Moment : resource[q] <= i /\ i <= now' /\ policy'[i].active
      BY <1>1, <1>2, <1>3 DEF FirstShape
<1>7. round[q] = 1 /\ pc[q] = "grants" =>
          \E i, j \in Moment :
              /\ resource[q] <= i /\ i <= j /\ j <= now'
              /\ policy'[i].active /\ policy'[j].enabled
              /\ policy'[j].version = policy'[resource[q]].version
      BY <1>1, <1>2, <1>3, <1>4, <1>5 DEF FirstShape, SameResource
<1> QED BY <1>1, <1>6, <1>7 DEF FirstShape, SameResource

(* What an administrator writes is a policy.                               *)
LEMMA AdminChanges ==
    ASSUME IInv, AdminStep
    PROVE  \E p \in Policy : Change(p)
<1>1. Current \in Policy
      BY DEF Current, IInv, TypeOK
<1>2. NextVersion(Current) \in Policy
  <2>1. NextVersion(Current) =
            [active |-> Current.active, enabled |-> Current.enabled,
             version |-> Current.version + 1, masked |-> Current.masked,
             writeLimit |-> Current.writeLimit, grants |-> Current.grants]
        BY <1>1 DEF NextVersion, Policy
  <2> QED BY <1>1, <2>1 DEF Policy
<1>3. CASE SetPrincipalStatus
  <2>1. [Current EXCEPT !.active = ~@] \in Policy
        BY <1>1 DEF Policy
  <2> QED BY <1>3, <2>1 DEF SetPrincipalStatus
<1>4. CASE UpdateResource
  <2>1. \A limit \in WriteLimits, on \in BOOLEAN :
            [NextVersion(Current) EXCEPT !.writeLimit = limit, !.enabled = on]
                \in Policy
        BY <1>2 DEF Policy
  <2> QED BY <1>4, <2>1 DEF UpdateResource
<1>5. CASE SaveMaskRule
  <2>1. \A on \in BOOLEAN : [RuleVersion(Current) EXCEPT !.masked = on] \in Policy
        BY <1>2 DEF RuleVersion, Policy
  <2> QED BY <1>5, <2>1 DEF SaveMaskRule
<1>6. CASE UpsertGrant \/ RevokeGrant
  <2>1. \A a \in Grantable, t \in Terms \cup {NoGrant} :
            [Current EXCEPT !.grants[a] = t] \in Policy
        BY <1>1 DEF Policy
  <2> QED BY <1>6, <2>1 DEF UpsertGrant, RevokeGrant
<1> QED BY <1>3, <1>4, <1>5, <1>6 DEF AdminStep

(* What the first authorization has found stays true, and no step goes on  *)
(* without it.                                                             *)
LEMMA FirstKept == PInv /\ [Next]_vars => \A q \in Request : FirstShape(q)'
<1> SUFFICES ASSUME PInv, [Next]_vars PROVE \A q \in Request : FirstShape(q)'
    OBVIOUS
<1>1. CASE AdminStep
      BY <1>1, AdminChanges, FirstChangeKeeps DEF PInv
<1>2. CASE Crash
  <2>1. /\ UNCHANGED <<policy, now, round, resource>>
        /\ \A q \in Request : pc'[q] \in {"idle", "done"}
        BY <1>2 DEF Crash, given, policyVars, traceVars
  <2> QED BY <2>1 DEF FirstShape
<1>3. CASE UNCHANGED vars
      BY <1>3 DEF vars, PInv, FirstShape, SameResource
<1> QED BY <1>1, <1>2, <1>3, FirstStepKeeps DEF Next, Quiet

(* It holds in every reachable state of the service.                       *)
LEMMA PInvInvariance == Spec => []PInv
<1>1. Init => PInv
      BY Initially, FirstInitially DEF PInv
<1>2. PInv /\ [Next]_vars => PInv'
      BY StepKeeps, FirstKept DEF PInv
<1> QED BY <1>1, <1>2, PTL DEF Spec

-----------------------------------------------------------------------------
(* The service implements Answers: initial states map to initial states,   *)
(* and in a state of the inductive invariant every step maps to a step of  *)
(* Answers or to a stutter.                                                *)

(* The only variable of Answers that is not one of the service.            *)
Stages == [q \in Request |-> StageOf(q)]

(* The initial states of the service are initial states of Answers.        *)
LEMMA InitRefines == Init => Promise!Init
<1> SUFFICES ASSUME Init PROVE Promise!Init
    OBVIOUS
<1>1. \A q \in Request : StageOf(q) = "new"
      BY DEF Init, StageOf, HasCommitted
<1> QED BY <1>1 DEF Init, Promise!Init

(* The abstract state after a step of one request.                         *)
LEMMA StagesMove ==
    ASSUME UNCHANGED <<policy, now, kind, reason>>, NEW q \in Request,
           \A p \in Request \ {q} : Unmoved(p)
    PROVE  Stages' = [Stages EXCEPT ![q] = StageOf(q)']
<1>1. \A p \in Request \ {q} : StageOf(p)' = StageOf(p)
      BY DEF StageOf, HasCommitted, Unmoved
<1> QED BY <1>1 DEF Stages

(* What the second authorization has found is the promise's condition.     *)
LEMMA FoundAgain ==
    ASSUME NEW q \in Request, FoundPermitted(q, now)
    PROVE  Promise!Authorized(q, ranAt[q], 2)
<1>1. PICK i \in Moment, j \in Moment, k \in Moment :
          /\ ranAt[q] <= i /\ i <= j /\ j <= k /\ k <= now
          /\ policy[i].active
          /\ policy[j].enabled /\ SameResource(q, j)
          /\ Permits(policy[k], q)
      BY DEF FoundPermitted
<1>2. 2 \in Rounds(policy[k], kind[q], reason[q])
      BY <1>1 DEF Rounds, Permits, DecisionOn, ActionOf
<1> QED BY <1>1, <1>2
        DEF Promise!Authorized, Promise!Moment, Moment, SameResource

(* So is what the first one has when its grants suffice.                   *)
LEMMA FoundFirst ==
    ASSUME PInv, NEW q \in Request, CheckGrants(q), round[q] = 1
    PROVE  Promise!Authorized(q, resource[q], 1)
<1>1. /\ pc[q] = "grants" /\ Permits(policy[now], q)
      /\ IsQuery(q) /\ DecisionOn(policy[now], q).requireReason => reason[q]
      BY DEF CheckGrants, GrantSuffices, Current
<1>2. PICK i \in Moment, j \in Moment :
          /\ resource[q] <= i /\ i <= j /\ j <= now
          /\ policy[i].active
          /\ policy[j].enabled /\ SameResource(q, j)
      BY <1>1 DEF PInv, FirstShape
<1>3. now \in Moment /\ now <= now
      BY DEF PInv, IInv, TypeOK, Moment
<1>4. 1 \in Rounds(policy[now], kind[q], reason[q])
      BY <1>1 DEF Rounds, Permits, DecisionOn, ActionOf, IsQuery
<1> QED BY <1>2, <1>3, <1>4
        DEF Promise!Authorized, Promise!Moment, Moment, SameResource

(* A step that leaves a request where it is in Answers is a stutter.       *)
LEMMA Stutters ==
    ASSUME UNCHANGED <<policy, now, kind, reason>>, NEW q \in Request,
           \A p \in Request \ {q} : Unmoved(p),
           UNCHANGED <<resource, ranAt, audit>>, StageOf(q)' = StageOf(q)
    PROVE  UNCHANGED Promise!answerVars
<1>1. Stages' = [Stages EXCEPT ![q] = StageOf(q)']
      BY StagesMove
<1>2. [Stages EXCEPT ![q] = StageOf(q)] = Stages
      BY DEF Stages
<1>3. Stages' = Stages
      BY <1>1, <1>2
<1> QED BY <1>1, <1>3 DEF Promise!answerVars, Stages

(* A step that ends a request with nothing released is its giving up.      *)
LEMMA GivesUp ==
    ASSUME UNCHANGED <<policy, now, kind, reason>>, NEW q \in Request,
           \A p \in Request \ {q} : Unmoved(p),
           UNCHANGED <<resource, ranAt, audit>>,
           StageOf(q) # "released", StageOf(q)' = "over"
    PROVE  Promise!Next
<1>1. Stages' = [Stages EXCEPT ![q] = StageOf(q)']
      BY StagesMove
<1>2. Stages' = [p \in Request |-> IF p \in {q} THEN "over" ELSE Stages[p]]
      BY <1>1 DEF Stages
<1>3. \A p \in {q} : Stages[p] # "released"
      BY DEF Stages
<1>4. Promise!GiveUp({q})
      BY <1>1, <1>2, <1>3 DEF Promise!GiveUp, Stages
<1>5. {q} \in SUBSET Request
      OBVIOUS
<1> QED BY <1>4, <1>5 DEF Promise!Next

(* The stages of a request that is under way.                              *)
LEMMA StageUnderway ==
    ASSUME IInv, NEW q \in Request, pc[q] # "done"
    PROVE  /\ pc[q] \in {"idle", "lookup"} => StageOf(q) = "new"
           /\ pc[q] \in {"receive", "vet"} => StageOf(q) = "found"
           /\ pc[q] \in {"principal", "resource", "grants"} =>
                 StageOf(q) = IF round[q] = 2 THEN "ran" ELSE "found"
           /\ pc[q] \in {"pool", "rules", "run"} =>
                 round[q] = 1 /\ StageOf(q) = "admitted"
           /\ pc[q] = "commit" => StageOf(q) = "ran"
           /\ pc[q] = "audit" =>
                 StageOf(q) = IF kind[q] = "write" THEN "released" ELSE "ran"
           /\ pc[q] \in {"fail", "unwind"} =>
                 StageOf(q) = IF tx[q] = "committed" THEN "released" ELSE "over"
<1>1. /\ reply[q] = "none" /\ round[q] \in {1, 2} /\ PlaceShape(q) /\ TxShape(q)
      /\ tx[q] = "committed" => pc[q] \in {"audit", "fail", "unwind"}
      BY Underway
<1> QED BY <1>1 DEF StageOf, HasCommitted, PlaceShape, TxShape, IsQuery

(* Before the authorization: a request is found and its row is entered.    *)
LEMMA EarlyRefines ==
    ASSUME PInv, NEW q \in Request,
           \/ Start(q) \/ Lookup(q) \/ LookupFailed(q)
           \/ Receive(q) \/ ReceiveFailed(q) \/ Vet(q) \/ VetFailed(q)
    PROVE  [Promise!Next]_(Promise!answerVars)
<1> USE DEF PInv, given, policyVars, traceVars, auditVars
<1>1. /\ UNCHANGED <<policy, now, kind, reason>>
      /\ \A p \in Request \ {q} : Unmoved(p)
      BY OneMoves DEF RequestStep
<1>2. Stages' = [Stages EXCEPT ![q] = StageOf(q)']
      BY <1>1, StagesMove
<1>3. pc[q] \in {"idle", "lookup", "receive", "vet"}
      BY DEF Start, Lookup, LookupFailed, Receive, ReceiveFailed, Vet, VetFailed
<1>4. /\ reply[q] = "none" /\ round[q] = 1 /\ tx[q] = "none"
      /\ pc[q] \in {"receive", "vet"} => IsQuery(q)
      /\ pc[q] = "receive" => audit[q] = "none"
      BY <1>3, Underway DEF PlaceShape, TxShape, AuditShape
<1>5. StageOf(q) = IF pc[q] \in {"idle", "lookup"} THEN "new" ELSE "found"
      BY <1>3, StageUnderway
<1>6. /\ round' = round /\ tx' = tx /\ ranAt' = ranAt
      /\ reply'[q] # "rows"
      BY <1>3, <1>4 DEF Start, Lookup, LookupFailed, Receive, ReceiveFailed, Vet,
             VetFailed, Fail, Goto, Answer, IInv, TypeOK
<1>7. StageOf(q)' = IF pc'[q] \in {"fail", "unwind", "done"} THEN "over"
                    ELSE IF pc'[q] \in {"idle", "lookup"} THEN "new"
                    ELSE IF pc'[q] \in {"pool", "rules", "run"} THEN "admitted"
                    ELSE "found"
      BY <1>4, <1>6 DEF StageOf, HasCommitted
<1>8. CASE Start(q) \/ Vet(q)
  <2>1. UNCHANGED <<resource, ranAt, audit>> /\ StageOf(q)' = StageOf(q)
        BY <1>5, <1>7, <1>8 DEF Start, Vet, Goto, IInv, TypeOK
  <2> QED BY <1>1, <2>1, Stutters
<1>9. CASE LookupFailed(q) \/ VetFailed(q)
  <2>1. UNCHANGED <<resource, ranAt, audit>> /\ StageOf(q)' = "over"
        BY <1>4, <1>7, <1>9 DEF LookupFailed, VetFailed, Fail, Goto, Answer, IInv, TypeOK
  <2> QED BY <1>1, <1>5, <2>1, GivesUp
<1>10. CASE Lookup(q)
  <2>1. /\ StageOf(q) = "new" /\ StageOf(q)' = "found"
        /\ resource' = [resource EXCEPT ![q] = now] /\ audit' = audit
        BY <1>5, <1>7, <1>10 DEF Lookup, Goto, IInv, TypeOK
  <2>2. Stages[q] = "new"
        BY <2>1 DEF Stages
  <2>3. Promise!Find(q)
        BY <1>1, <1>2, <1>6, <2>1, <2>2
           DEF Promise!Find, Promise!Moves, Stages
  <2> QED BY <2>3 DEF Promise!Next
<1>11. CASE Receive(q) \/ ReceiveFailed(q)
  <2>1. /\ pc[q] = "receive" /\ resource' = resource
        /\ \E outcome \in {"none", "RECEIVED"} : audit' = [audit EXCEPT ![q] = outcome]
        /\ StageOf(q)' \in {"found", "over"}
        /\ audit' = [audit EXCEPT ![q] = "RECEIVED"] \/ StageOf(q)' = "over"
        BY <1>7, <1>11 DEF Receive, ReceiveFailed, Goto, Answer, IInv, TypeOK
  <2>2. Stages[q] = "found" /\ Promise!IsQuery(q)
        BY <1>4, <1>5, <2>1 DEF Stages, Promise!IsQuery, IsQuery
  <2>3. CASE audit' = [audit EXCEPT ![q] = "RECEIVED"]
    <3>1. Promise!Enter(q)
          BY <1>1, <1>2, <1>4, <1>6, <2>1, <2>2, <2>3
             DEF Promise!Enter, Promise!Moves, Promise!Writes, Stages
    <3> QED BY <3>1 DEF Promise!Next
  <2>4. CASE audit' # [audit EXCEPT ![q] = "RECEIVED"]
    <3>1. audit' = [audit EXCEPT ![q] = audit[q]] /\ StageOf(q)' = "over"
          BY <1>4, <2>1, <2>4
    <3>2. audit' = audit
          BY <3>1 DEF IInv, TypeOK
    <3> QED BY <1>1, <1>5, <1>6, <2>1, <3>1, <3>2, GivesUp
  <2> QED BY <2>3, <2>4
<1> QED BY <1>8, <1>9, <1>10, <1>11

(* The authorizations: only the end of the first one shows in Answers.     *)
LEMMA AuthorizeRefines ==
    ASSUME PInv, NEW q \in Request,
           CheckPrincipal(q) \/ CheckResource(q) \/ CheckGrants(q) \/ AuthorizeFailed(q)
    PROVE  [Promise!Next]_(Promise!answerVars)
<1> USE DEF PInv, given, policyVars, traceVars, auditVars
<1>1. /\ UNCHANGED <<policy, now, kind, reason>>
      /\ \A p \in Request \ {q} : Unmoved(p)
      BY OneMoves DEF RequestStep
<1>2. Stages' = [Stages EXCEPT ![q] = StageOf(q)']
      BY <1>1, StagesMove
<1>3. /\ pc[q] \in {"principal", "resource", "grants"}
      /\ UNCHANGED <<round, resource, ranAt, audit, tx>>
      BY DEF CheckPrincipal, CheckResource, CheckGrants, AuthorizeFailed
<1>4. /\ reply[q] = "none" /\ round[q] \in {1, 2} /\ tx[q] # "committed"
      /\ IsQuery(q) => audit[q] = "RECEIVED"
      /\ round[q] = 2 => IsQuery(q)
      BY <1>3, Underway DEF PlaceShape, TxShape, AuditShape
<1>5. StageOf(q) = IF round[q] = 2 THEN "ran" ELSE "found"
      BY <1>3, StageUnderway
<1>6. CASE AuthorizeFailed(q)
  <2>1. pc'[q] \in {"fail", "done"} /\ reply'[q] # "rows"
        BY <1>4, <1>6 DEF AuthorizeFailed, Fail, Goto, Answer, IInv, TypeOK
  <2>2. StageOf(q)' = "over"
        BY <1>3, <1>4, <2>1 DEF StageOf, HasCommitted
  <2> QED BY <1>1, <1>3, <1>5, <2>2, GivesUp
<1>7. CASE ~AuthorizeFailed(q) /\ (~CheckGrants(q) \/ round[q] = 2)
  <2>1. /\ reply' = reply
        /\ pc'[q] \in {"resource", "grants"} \/ (round[q] = 2 /\ pc'[q] \in {"commit", "audit"})
        BY <1>3, <1>7 DEF CheckPrincipal, CheckResource, CheckGrants, NextAfterGrants,
               Goto, IInv, TypeOK
  <2>2. StageOf(q)' = StageOf(q)
        BY <1>3, <1>4, <1>5, <2>1 DEF StageOf, HasCommitted
  <2> QED BY <1>1, <1>3, <2>2, Stutters
<1>8. CASE CheckGrants(q) /\ round[q] = 1
  <2>1. reply' = reply /\ pc'[q] = "pool"
        BY <1>8 DEF CheckGrants, NextAfterGrants, Goto, IInv, TypeOK
  <2>2. StageOf(q)' = "admitted"
        BY <1>3, <1>4, <1>8, <2>1 DEF StageOf, HasCommitted
  <2>3. Stages[q] = "found" /\ (Promise!IsQuery(q) => audit[q] = "RECEIVED")
        BY <1>4, <1>5, <1>8 DEF Stages, Promise!IsQuery, IsQuery
  <2>4. Promise!Authorized(q, resource[q], 1)
        BY <1>8, FoundFirst
  <2>5. Promise!Admit(q)
        BY <1>1, <1>2, <1>3, <2>2, <2>3, <2>4
           DEF Promise!Admit, Promise!Moves, Stages
  <2> QED BY <2>5 DEF Promise!Next
<1> QED BY <1>4, <1>6, <1>7, <1>8

(* On the way to the target nothing shows but a failure.                   *)
LEMMA TargetRefines ==
    ASSUME PInv, NEW q \in Request,
           GetPool(q) \/ ReadRules(q) \/ TargetFailed(q) \/ MaskingRejects(q)
    PROVE  [Promise!Next]_(Promise!answerVars)
<1> USE DEF PInv, given, policyVars, traceVars, auditVars
<1>1. /\ UNCHANGED <<policy, now, kind, reason>>
      /\ \A p \in Request \ {q} : Unmoved(p)
      BY OneMoves DEF RequestStep
<1>2. /\ pc[q] \in {"pool", "rules", "run"}
      /\ UNCHANGED <<round, resource, ranAt, audit>>
      BY DEF GetPool, ReadRules, TargetFailed, MaskingRejects
<1>3. reply[q] = "none" /\ tx[q] # "committed"
      BY <1>2, Underway
<1>4. round[q] = 1 /\ StageOf(q) = "admitted"
      BY <1>2, StageUnderway
<1>5. tx'[q] # "committed"
      BY <1>3 DEF GetPool, ReadRules, TargetFailed, MaskingRejects, IInv, TypeOK
<1>6. CASE GetPool(q) \/ ReadRules(q)
  <2>1. reply' = reply /\ pc'[q] \in {"rules", "run"}
        BY <1>6 DEF GetPool, ReadRules, Goto, IInv, TypeOK
  <2>2. StageOf(q)' = StageOf(q)
        BY <1>2, <1>3, <1>4, <1>5, <2>1 DEF StageOf, HasCommitted
  <2> QED BY <1>1, <1>2, <2>2, Stutters
<1>7. CASE TargetFailed(q) \/ MaskingRejects(q)
  <2>1. pc'[q] \in {"fail", "done"} /\ reply'[q] # "rows"
        BY <1>3, <1>7 DEF TargetFailed, MaskingRejects, Fail, Goto, Answer, IInv, TypeOK
  <2>2. StageOf(q)' = "over"
        BY <1>5, <2>1 DEF StageOf, HasCommitted
  <2> QED BY <1>1, <1>2, <1>4, <2>2, GivesUp
<1> QED BY <1>6, <1>7

(* The statement is run, or what the schema tools read is shown.           *)
LEMMA RunRefines ==
    ASSUME PInv, NEW q \in Request,
           RunRead(q) \/ RunSchema(q) \/ RunWrite(q)
    PROVE  [Promise!Next]_(Promise!answerVars)
<1> USE DEF PInv, given, policyVars, traceVars, auditVars
<1>1. /\ UNCHANGED <<policy, now, kind, reason>>
      /\ \A p \in Request \ {q} : Unmoved(p)
      BY OneMoves DEF RequestStep
<1>2. Stages' = [Stages EXCEPT ![q] = StageOf(q)']
      BY <1>1, StagesMove
<1>3. /\ pc[q] = "run" /\ UNCHANGED <<resource, audit>>
      /\ ranAt' = [ranAt EXCEPT ![q] = now]
      BY DEF RunRead, RunSchema, RunWrite
<1>4. /\ reply[q] = "none" /\ tx[q] # "committed"
      /\ round[q] = 1 /\ StageOf(q) = "admitted"
      BY <1>3, Underway, StageUnderway
<1>5. Stages[q] = "admitted" /\ (Promise!IsQuery(q) <=> IsQuery(q))
      BY <1>4 DEF Stages, Promise!IsQuery, IsQuery
<1>6. tx'[q] # "committed"
      BY <1>4 DEF RunRead, RunSchema, RunWrite, IInv, TypeOK
<1>7. CASE RunSchema(q)
  <2>1. StageOf(q)' = "released" /\ ~IsQuery(q)
        BY <1>7 DEF RunSchema, Answer, StageOf, IInv, TypeOK
  <2>2. Promise!Show(q)
        BY <1>1, <1>2, <1>3, <1>5, <2>1
           DEF Promise!Show, Promise!Moves, Stages
  <2> QED BY <2>2 DEF Promise!Next
<1>8. CASE RunRead(q) \/ RunWrite(q)
  <2>1. IsQuery(q)
        BY <1>8 DEF RunRead, RunWrite, IsQuery
  <2>2. /\ reply' = reply
        /\ \/ pc'[q] = "principal" /\ round'[q] = 2
           \/ pc'[q] = "fail"
        BY <1>8, <2>1 DEF RunRead, RunWrite, Fail, Goto, IInv, TypeOK
  <2>3. StageOf(q)' \in {"ran", "over"}
        BY <1>4, <1>6, <2>2 DEF StageOf, HasCommitted
  <2>4. Promise!Run(q)
        BY <1>1, <1>2, <1>3, <1>5, <2>1, <2>3
           DEF Promise!Run, Promise!Moves, Stages
  <2> QED BY <2>4 DEF Promise!Next
<1> QED BY <1>7, <1>8

(* A commit releases the request, even one whose answer is lost.           *)
LEMMA CommitRefines ==
    ASSUME PInv, NEW q \in Request, Commit(q) \/ CommitFailed(q)
    PROVE  [Promise!Next]_(Promise!answerVars)
<1> USE DEF PInv, given, policyVars, traceVars, auditVars
<1>1. /\ UNCHANGED <<policy, now, kind, reason>>
      /\ \A p \in Request \ {q} : Unmoved(p)
      BY OneMoves DEF RequestStep
<1>2. Stages' = [Stages EXCEPT ![q] = StageOf(q)']
      BY <1>1, StagesMove
<1>3. pc[q] = "commit" /\ UNCHANGED <<resource, ranAt, audit>>
      BY DEF Commit, CommitFailed
<1>4. /\ reply[q] = "none" /\ kind[q] = "write" /\ IsQuery(q)
      /\ FoundPermitted(q, now)
      BY <1>3, Underway DEF PlaceShape, RecheckShape, IsQuery
<1>5. StageOf(q) = "ran"
      BY <1>3, StageUnderway
<1>6. CASE tx'[q] = "committed"
  <2>1. StageOf(q)' = "released"
        BY <1>6 DEF StageOf, HasCommitted
  <2>2. Stages[q] = "ran"
        BY <1>5 DEF Stages
  <2>3. Promise!Authorized(q, ranAt[q], 2)
        BY <1>4, FoundAgain
  <2>4. Promise!Commit(q)
        BY <1>1, <1>2, <1>3, <1>4, <2>1, <2>2, <2>3
           DEF Promise!Commit, Promise!Moves, Stages
  <2> QED BY <2>4 DEF Promise!Next
<1>7. CASE tx'[q] # "committed"
  <2>1. pc'[q] = "fail" /\ reply' = reply
        BY <1>4, <1>7 DEF Commit, CommitFailed, Fail, Goto, IInv, TypeOK
  <2>2. StageOf(q)' = "over"
        BY <1>4, <1>7, <2>1 DEF StageOf, HasCommitted
  <2> QED BY <1>1, <1>3, <1>5, <2>2, GivesUp
<1> QED BY <1>6, <1>7

(* The outcome of the request is in its row, or the row is as it was.      *)
LEMMA FinalRefines ==
    ASSUME PInv, NEW q \in Request, FinalAudit(q) \/ FinalAuditFailed(q)
    PROVE  [Promise!Next]_(Promise!answerVars)
<1> USE DEF PInv, given, policyVars, traceVars, auditVars
<1>1. /\ UNCHANGED <<policy, now, kind, reason>>
      /\ \A p \in Request \ {q} : Unmoved(p)
      BY OneMoves DEF RequestStep
<1>2. Stages' = [Stages EXCEPT ![q] = StageOf(q)']
      BY <1>1, StagesMove
<1>3. /\ pc[q] = "audit" /\ UNCHANGED <<resource, ranAt, tx>>
      /\ pc'[q] = "done"
      BY DEF FinalAudit, FinalAuditFailed, Answer, IInv, TypeOK
<1>4. /\ reply[q] = "none" /\ IsQuery(q) /\ audit[q] = "RECEIVED"
      /\ kind[q] = "write" => tx[q] = "committed"
      /\ kind[q] # "write" => kind[q] = "read" /\ tx[q] # "committed"
      BY <1>3, Underway DEF PlaceShape, AuditShape, TxShape, IsQuery
<1>5. StageOf(q) = IF kind[q] = "write" THEN "released" ELSE "ran"
      BY <1>3, StageUnderway
<1>6. \/ audit' = [audit EXCEPT ![q] = Final(q)]
      \/ audit' = audit /\ FinalAuditFailed(q)
  <2>1. [audit EXCEPT ![q] = audit[q]] = audit
        BY DEF IInv, TypeOK
  <2> QED BY <2>1 DEF FinalAudit, FinalAuditFailed
<1>7. CASE kind[q] = "write"
  <2>1. StageOf(q)' = "released"
        BY <1>3, <1>4, <1>7 DEF StageOf, HasCommitted
  <2>2. CASE audit' = audit
        BY <1>1, <1>3, <1>5, <1>7, <2>1, <2>2, Stutters
  <2>3. CASE audit' = [audit EXCEPT ![q] = Final(q)]
    <3>1. /\ Stages[q] = "released"
          /\ [Stages EXCEPT ![q] = "released"] = Stages
          /\ Final(q) = "COMMITTED"
          BY <1>5, <1>7 DEF Stages, Final
    <3>2. Promise!Writes(q, "RECEIVED", "COMMITTED")
          BY <1>4, <2>3, <3>1 DEF Promise!Writes
    <3>3. Promise!Settle(q)
          BY <1>1, <1>2, <1>3, <2>1, <3>1, <3>2
             DEF Promise!Settle, Stages
    <3> QED BY <3>3 DEF Promise!Next
  <2> QED BY <1>6, <2>2, <2>3
<1>8. CASE kind[q] = "read"
  <2>1. StageOf(q)' \in {"released", "over"}
        BY <1>3 DEF StageOf
  <2>2. CASE audit' = audit /\ FinalAuditFailed(q)
    <3>1. StageOf(q)' = "over"
          BY <1>3, <1>4, <1>8, <2>2 DEF FinalAuditFailed, FailedAuditReply, Answer,
                 StageOf, HasCommitted, IInv, TypeOK
    <3> QED BY <1>1, <1>3, <1>5, <1>8, <2>2, <3>1, GivesUp
  <2>3. CASE audit' = [audit EXCEPT ![q] = Final(q)]
    <3>1. Stages[q] = "ran" /\ Final(q) = "SUCCEEDED"
          BY <1>5, <1>8 DEF Stages, Final
    <3>2. Promise!Writes(q, "RECEIVED", "SUCCEEDED")
          BY <1>4, <2>3, <3>1 DEF Promise!Writes
    <3>3. FoundPermitted(q, now)
          BY <1>3, <1>8, Underway DEF RecheckShape
    <3>4. Promise!Authorized(q, ranAt[q], 2)
          BY <3>3, FoundAgain
    <3>5. Promise!Deliver(q)
          BY <1>1, <1>2, <1>3, <1>8, <2>1, <3>1, <3>2, <3>4
             DEF Promise!Deliver, Promise!Moves, Stages
    <3> QED BY <3>5 DEF Promise!Next
  <2> QED BY <1>6, <2>2, <2>3
<1> QED BY <1>4, <1>7, <1>8

(* A failure is recorded once, and undoes nothing that was released.       *)
LEMMA EndRefines ==
    ASSUME PInv, NEW q \in Request, AuditFailure(q) \/ Unwind(q)
    PROVE  [Promise!Next]_(Promise!answerVars)
<1> USE DEF PInv, given, policyVars, traceVars, auditVars
<1>1. /\ UNCHANGED <<policy, now, kind, reason>>
      /\ \A p \in Request \ {q} : Unmoved(p)
      BY OneMoves DEF RequestStep
<1>2. Stages' = [Stages EXCEPT ![q] = StageOf(q)']
      BY <1>1, StagesMove
<1>3. /\ pc[q] \in {"fail", "unwind"} /\ UNCHANGED <<resource, ranAt>>
      BY DEF AuditFailure, Unwind
<1>4. StageOf(q) = IF tx[q] = "committed" THEN "released" ELSE "over"
      BY <1>3, StageUnderway
<1>5. /\ pc'[q] \in {"unwind", "done"} /\ reply'[q] # "rows"
      /\ tx'[q] = "committed" <=> tx[q] = "committed"
      BY <1>3, Underway DEF AuditFailure, Unwind, Undone, Goto, Answer, IInv, TypeOK
<1>6. StageOf(q)' = StageOf(q)
      BY <1>4, <1>5 DEF StageOf, HasCommitted
<1>7. CASE audit' = audit
      BY <1>1, <1>3, <1>6, <1>7, Stutters
<1>8. CASE audit' # audit
  <2>1. AuditFailure(q) /\ audit' = [audit EXCEPT ![q] = verdict[q]]
        BY <1>8 DEF AuditFailure, Unwind
  <2>2. pc[q] = "fail"
        BY <2>1 DEF AuditFailure
  <2>3. /\ audit[q] = "RECEIVED" /\ verdict[q] \in {"REJECTED", "DENIED", "FAILED"}
        /\ tx[q] = "committed" => verdict[q] = "FAILED"
        BY <2>2, Underway DEF PlaceShape, AuditShape, TxShape
  <2>4. Promise!Writes(q, "RECEIVED", verdict[q])
        BY <2>1, <2>3 DEF Promise!Writes
  <2>5. Stages[q] = StageOf(q) /\ Stages' = Stages
        BY <1>2, <1>6 DEF Stages
  <2>6. Promise!Settle(q)
        BY <1>1, <1>2, <1>3, <1>4, <2>3, <2>4, <2>5
           DEF Promise!Settle, Stages
  <2> QED BY <2>6 DEF Promise!Next
<1> QED BY <1>7, <1>8

(* A death ends every request that is under way, the commits that have     *)
(* happened excepted.                                                      *)
LEMMA CrashRefines ==
    ASSUME PInv, Crash
    PROVE  Promise!Next
<1> USE DEF PInv, IInv, TypeOK, given, policyVars, traceVars, auditVars
<1> DEFINE some == {q \in Request : pc[q] \notin {"idle", "done"}
                                       /\ StageOf(q) # "released"}
<1>1. UNCHANGED <<policy, now, kind, reason, resource, ranAt, audit>>
      BY DEF Crash
<1>2. ASSUME NEW q \in Request
      PROVE  StageOf(q)' = IF q \in some THEN "over" ELSE StageOf(q)
  <2>1. /\ pc'[q] = IF pc[q] = "idle" THEN "idle" ELSE "done"
        /\ reply'[q] = IF pc[q] \in {"idle", "done"} THEN reply[q] ELSE "crashed"
        /\ tx'[q] = "committed" <=> tx[q] = "committed"
        BY DEF Crash, Undone
  <2>2. CASE pc[q] \in {"idle", "done"}
        BY <2>1, <2>2 DEF StageOf, HasCommitted
  <2>3. CASE pc[q] \notin {"idle", "done"}
    <3>1. reply[q] = "none"
          BY <2>3, Underway
    <3> QED BY <2>1, <2>3, <3>1 DEF StageOf, HasCommitted
  <2> QED BY <2>2, <2>3
<1>3. /\ some \in SUBSET Request
      /\ \A q \in some : Stages[q] # "released"
      BY DEF Stages
<1>4. Stages' = [q \in Request |-> IF q \in some THEN "over" ELSE Stages[q]]
      BY <1>2 DEF Stages
<1> HIDE DEF some
<1>5. Promise!GiveUp(some)
      BY <1>1, <1>3, <1>4 DEF Promise!GiveUp, Stages
<1> QED BY <1>3, <1>5 DEF Promise!Next

(* An administrator adds to the history of the store.                      *)
LEMMA AdminRefines ==
    ASSUME PInv, AdminStep
    PROVE  Promise!Next
<1>1. PICK p \in Policy : Change(p)
      BY AdminChanges DEF PInv
<1>2. /\ now \in Moment /\ now' = now + 1
      /\ \A n \in Moment : n <= now => policy'[n] = policy[n]
      /\ UNCHANGED <<pc, kind, reason, round, resource, ranAt, audit, tx, reply>>
      BY <1>1, PastKept DEF PInv
<1>3. \A n \in 0 .. now : n \in Moment /\ n <= now
      BY <1>2, QueryAssumption DEF Moment
<1>4. \A n \in 0 .. now : policy'[n] = policy[n]
      BY <1>2, <1>3
<1>5. Stages' = Stages
      BY <1>2 DEF Stages, StageOf, HasCommitted
<1>6. Promise!PolicyChange
      BY <1>2, <1>4, <1>5 DEF Promise!PolicyChange, Stages
<1> QED BY <1>6 DEF Promise!Next

(* Every step of the service is one of Answers or a stutter.               *)
LEMMA StepRefines ==
    PInv /\ [Next]_vars => [Promise!Next]_(Promise!answerVars)
<1> SUFFICES ASSUME PInv, [Next]_vars
             PROVE  [Promise!Next]_(Promise!answerVars)
    OBVIOUS
<1>1. CASE UNCHANGED vars
  <2>1. Stages' = Stages
        BY <1>1 DEF vars, Stages, StageOf, HasCommitted
  <2> QED BY <1>1, <2>1 DEF vars, Promise!answerVars, Stages
<1>2. ASSUME NEW q \in Request, Start(q) \/ RequestStep(q)
      PROVE  [Promise!Next]_(Promise!answerVars)
      BY <1>2, EarlyRefines, AuthorizeRefines, TargetRefines, RunRefines,
         CommitRefines, FinalRefines, EndRefines DEF RequestStep
<1> QED BY <1>1, <1>2, AdminRefines, CrashRefines DEF Next, Quiet

(* The query service implements Answers.                                   *)
THEOREM ServiceImplementsAnswers == Spec => ImplementsAnswers
<1>1. Init => Promise!Init
      BY InitRefines
<1>2. PInv /\ [Next]_vars => [Promise!Next]_(Promise!answerVars)
      BY StepRefines
<1> QED BY <1>1, <1>2, PInvInvariance, PTL DEF Spec, ImplementsAnswers, Promise!Spec
=============================================================================
