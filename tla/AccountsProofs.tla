--------------------------- MODULE AccountsProofs ----------------------------
(***************************************************************************)
(* Proofs about Accounts, for any set of requests of any kinds on one      *)
(* account and a store that may fail: old passwords, statuses and revoked  *)
(* tokens.                                                                 *)
(***************************************************************************)
EXTENDS Accounts, TLAPS

(* A request stands at a step of its own handler. *)
PlaceShape ==
    \A o \in Op :
        /\ kind[o] = "login" => pc[o] \in {"idle", "read", "insert", "done"}
        /\ kind[o] = "logout" => pc[o] \in {"idle", "drop", "done"}
        /\ kind[o] = "password" =>
              pc[o] \in {"idle", "auth", "again", "write", "delete", "insert", "done"}
        /\ kind[o] = "update" => pc[o] \in {"idle", "read", "write", "delete", "done"}
        /\ kind[o] = "update" /\ pc[o] = "delete" => resets[o]
        /\ kind[o] = "create" => pc[o] \in {"idle", "auth", "again", "insert", "done"}
        /\ kind[o] = "revoke" => pc[o] \in {"idle", "auth", "again", "revoke", "done"}
        /\ kind[o] = "call" => pc[o] \in {"idle", "use", "done"}
        /\ pc[o] = "done" <=> reply[o] # "none"

(* Sessions are swept after the password was written, once for a request.  *)
(* From then on every session, there or about to be inserted, rests on the *)
(* new password or was about to be inserted at that moment.                *)
SessionShape ==
    /\ \A o \in Op : swept[o] => pc[o] \in {"insert", "done"}
    /\ hash = First => \A s \in Credential : known[s] = First
    /\ \A o \in Op : kind[o] = "password" /\ pc[o] \in {"delete", "insert"}
                       => known[o] = o
    /\ hash \in Op /\ swept[hash] =>
          /\ First \notin sessions
          /\ \A p \in Op : Opening(p) \/ p \in sessions
                             => known[p] = hash \/ p \in slipped[hash]

(* A race has brought a status back: an update that asked for none was     *)
(* overtaken by one that did, and has written.                             *)
RaceLost == \E o \in Op : overtaken[o] /\ want[o] = "" /\ pc[o] # "write"

(* Without a race the status is the one last asked for, and so is what an  *)
(* update that is about to write has read.                                 *)
StatusShape ==
    /\ \A o \in Op : overtaken[o] =>
          kind[o] = "update" /\ pc[o] \in {"write", "delete", "done"}
    /\ status # asked => RaceLost
    /\ \A o \in Op : kind[o] = "update" /\ pc[o] = "write" /\ seen[o] # asked
                       => RaceLost \/ overtaken[o]

(* A token that was handed out is not inserted again, so one that was      *)
(* revoked is gone for good; what a request knows to be answered is.       *)
TokenShape ==
    /\ \A o \in Op : \/ token[o] = First
                     \/ token[o] \in Op /\ pc[token[o]] = "done"
    /\ \A o \in Op : kind[o] = "revoke" /\ reply[o] = "ok" => token[o] \notin tokens
    /\ \A o \in Op : \A p \in after[o] : pc[p] = "done"

IInv ==
    /\ TypeOK
    /\ PlaceShape
    /\ SessionShape
    /\ StatusShape
    /\ TokenShape
    /\ RevokedTokensAreRefused

-----------------------------------------------------------------------------
LEMMA KindFacts ==
    ASSUME TypeOK, NEW o \in Op
    PROVE  kind[o] \in {"login", "logout", "password", "update", "create",
                       "revoke", "call"}
BY AccountsAssumption DEF TypeOK, Kind

(* The plans, and where they start. *)
LEMMA PlanFacts ==
    ASSUME NEW o \in Op
    PROVE  /\ kind[o] \in {"login", "create"} =>
                 Plan(o) = <<"insert">> /\ Head(Plan(o)) = "insert"
           /\ kind[o] = "password" =>
                 Plan(o) = <<"write", "delete", "insert">> /\ Head(Plan(o)) = "write"
           /\ kind[o] = "revoke" =>
                 Plan(o) = <<"revoke">> /\ Head(Plan(o)) = "revoke"
           /\ kind[o] = "update" /\ resets[o] =>
                 Plan(o) = <<"write", "delete">> /\ Head(Plan(o)) = "write"
           /\ kind[o] = "update" /\ ~resets[o] =>
                 Plan(o) = <<"write">> /\ Head(Plan(o)) = "write"
<1>1. kind[o] \in {"login", "create"} => Plan(o) = <<"insert">>
      BY DEF Plan
<1>2. kind[o] = "password" => Plan(o) = <<"write", "delete", "insert">>
      BY DEF Plan
<1>3. kind[o] = "revoke" => Plan(o) = <<"revoke">>
      BY DEF Plan
<1>4. kind[o] = "update" => Plan(o) = IF resets[o] THEN <<"write", "delete">> ELSE <<"write">>
      BY DEF Plan
<1> QED BY <1>1, <1>2, <1>3, <1>4

LEMMA OneStatement ==
    ASSUME NEW o \in Op, Plan(o) = <<pc[o]>>, Proceed(o)
    PROVE  Answer(o, "ok")
<1> DEFINE i == CHOOSE i \in {1} : <<pc[o]>>[i] = pc[o]
<1>1. IF i = 1 THEN Answer(o, "ok") ELSE Goto(o, <<pc[o]>>[i + 1])
      BY DEF Proceed
<1>2. i \in {1}
      OBVIOUS
<1> HIDE DEF i
<1> QED BY <1>1, <1>2

LEMMA UpdateProceeds ==
    ASSUME NEW o \in Op, kind[o] = "update", resets[o], Proceed(o)
    PROVE  /\ pc[o] = "write" => Goto(o, "delete")
           /\ pc[o] = "delete" => Answer(o, "ok")
<1> DEFINE plan == <<"write", "delete">>
           i == CHOOSE i \in 1..2 : plan[i] = pc[o]
<1>1. IF i = 2 THEN Answer(o, "ok") ELSE Goto(o, plan[i + 1])
      BY PlanFacts DEF Proceed
<1>2. pc[o] \in {"write", "delete"} => i \in 1..2 /\ plan[i] = pc[o]
  <2>1. pc[o] \in {"write", "delete"} => \E n \in 1..2 : plan[n] = pc[o]
        OBVIOUS
  <2> QED BY <2>1
<1> HIDE DEF i
<1> QED BY <1>1, <1>2

LEMMA PasswordProceeds ==
    ASSUME NEW o \in Op, kind[o] = "password", Proceed(o)
    PROVE  /\ pc[o] = "write" => Goto(o, "delete")
           /\ pc[o] = "delete" => Goto(o, "insert")
           /\ pc[o] = "insert" => Answer(o, "ok")
<1> DEFINE plan == <<"write", "delete", "insert">>
           i == CHOOSE i \in DOMAIN plan : plan[i] = pc[o]
<1>1. Plan(o) = plan
      BY PlanFacts
<1>2. DOMAIN plan = 1..3 /\ Len(plan) = 3
      OBVIOUS
<1>3. plan[1] = "write" /\ plan[2] = "delete" /\ plan[3] = "insert"
      OBVIOUS
<1> HIDE DEF plan
<1>4. IF i = 3 THEN Answer(o, "ok") ELSE Goto(o, plan[i + 1])
      BY <1>1, <1>2 DEF Proceed
<1>5. pc[o] \in {"write", "delete", "insert"} => i \in 1..3 /\ plan[i] = pc[o]
  <2>1. pc[o] \in {"write", "delete", "insert"} => \E n \in 1..3 : plan[n] = pc[o]
        BY <1>3
  <2> QED BY <2>1, <1>2
<1> HIDE DEF i
<1> QED BY <1>3, <1>4, <1>5

(* What follows the statements of a handler, if it goes on. *)
LEMMA ProceedFacts ==
    ASSUME TypeOK, PlaceShape, NEW o \in Op,
           pc[o] \in {"write", "delete", "insert", "revoke"}, Proceed(o)
    PROVE  \/ Answer(o, "ok")
           \/ /\ pc[o] = "write"
              /\ kind[o] = "password" \/ (kind[o] = "update" /\ resets[o])
              /\ Goto(o, "delete")
           \/ pc[o] = "delete" /\ kind[o] = "password" /\ Goto(o, "insert")
<1>1. CASE kind[o] \in {"login", "create", "revoke"}
      BY <1>1, PlanFacts, OneStatement DEF PlaceShape
<1>2. CASE kind[o] = "password"
      BY <1>2, PasswordProceeds DEF PlaceShape
<1>3. CASE kind[o] = "update" /\ resets[o]
      BY <1>3, UpdateProceeds DEF PlaceShape
<1>4. CASE kind[o] = "update" /\ ~resets[o]
  <2>1. CASE pc[o] = "write"
        BY <1>4, <2>1, PlanFacts, OneStatement
  <2>2. CASE pc[o] = "delete"
        BY <1>4, <2>2 DEF PlaceShape
  <2> QED BY <1>4, <2>1, <2>2 DEF PlaceShape
<1> QED BY <1>1, <1>2, <1>3, <1>4, KindFacts DEF PlaceShape

(* A request takes a step of its handler: what every step but the first    *)
(* has in common, whether it goes on or answers.                           *)
Moved(o) ==
    /\ UNCHANGED <<kind, want, resets>>
    /\ pc[o] \notin {"idle", "done"}
    /\ pc' \in [Op -> PC] /\ reply' \in [Op -> Reply]
    /\ \A p \in Op \ {o} : pc'[p] = pc[p] /\ reply'[p] = reply[p]
    /\ pc'[o] \notin {"idle", "auth", "read"}
    /\ pc'[o] = "write" => pc[o] \in {"again", "read"}
    /\ PlaceShape'

LEMMA GotoMoves ==
    ASSUME TypeOK, PlaceShape, NEW o \in Op, pc[o] \notin {"idle", "done"},
           NEW there \in {"again", "write", "delete", "insert", "revoke"},
           Goto(o, there), UNCHANGED <<kind, want, resets>>,
           there = "write" => pc[o] \in {"again", "read"},
           there = "again" => kind[o] \in {"password", "create", "revoke"},
           there = "write" => kind[o] \in {"password", "update"},
           there = "delete" => kind[o] = "password" \/ (kind[o] = "update" /\ resets[o]),
           there = "insert" => kind[o] \in {"login", "password", "create"},
           there = "revoke" => kind[o] = "revoke"
    PROVE  Moved(o) /\ pc'[o] = there /\ reply'[o] = "none"
<1>1. /\ pc' \in [Op -> PC] /\ reply' \in [Op -> Reply]
      /\ \A p \in Op \ {o} : pc'[p] = pc[p] /\ reply'[p] = reply[p]
      /\ pc'[o] = there /\ reply'[o] = "none"
      BY DEF TypeOK, PlaceShape, Goto, PC
<1>2. PlaceShape'
      BY <1>1 DEF PlaceShape
<1> QED BY <1>1, <1>2 DEF Moved

LEMMA AnswerMoves ==
    ASSUME TypeOK, PlaceShape, NEW o \in Op, pc[o] \notin {"idle", "done"},
           NEW what \in Reply \ {"none"}, Answer(o, what),
           UNCHANGED <<kind, want, resets>>
    PROVE  Moved(o) /\ pc'[o] = "done" /\ reply'[o] = what
<1>1. /\ pc' \in [Op -> PC] /\ reply' \in [Op -> Reply]
      /\ \A p \in Op \ {o} : pc'[p] = pc[p] /\ reply'[p] = reply[p]
      /\ pc'[o] = "done" /\ reply'[o] = what
      BY DEF TypeOK, Answer, PC
<1>2. PlaceShape'
      BY <1>1 DEF PlaceShape
<1> QED BY <1>1, <1>2 DEF Moved

LEMMA ProceedMoves ==
    ASSUME TypeOK, PlaceShape, NEW o \in Op,
           pc[o] \in {"write", "delete", "insert", "revoke"}, Proceed(o),
           UNCHANGED <<kind, want, resets>>
    PROVE  /\ Moved(o)
           /\ \/ pc'[o] = "done" /\ reply'[o] = "ok"
              \/ pc'[o] = "delete" /\ pc[o] = "write" /\ reply'[o] = "none"
              \/ /\ pc'[o] = "insert" /\ pc[o] = "delete" /\ reply'[o] = "none"
                 /\ kind[o] = "password"
BY ProceedFacts, GotoMoves, AnswerMoves DEF Reply

LEMMA AppliedMoves ==
    ASSUME TypeOK, PlaceShape, NEW o \in Op,
           pc[o] \in {"write", "insert", "revoke"}, Applied(o),
           UNCHANGED <<kind, want, resets>>
    PROVE  /\ Moved(o)
           /\ \/ pc'[o] = "done"
              \/ pc'[o] = "delete" /\ pc[o] = "write" /\ reply'[o] = "none"
BY ProceedMoves, AnswerMoves DEF Applied, Reply

LEMMA ChecksPassedMoves ==
    ASSUME TypeOK, PlaceShape, NEW o \in Op, pc[o] \in {"again", "read"},
           ChecksPassed(o), UNCHANGED <<kind, want, resets>>
    PROVE  /\ Moved(o)
           /\ pc'[o] \in {"insert", "write", "revoke"} /\ reply'[o] = "none"
           /\ pc[o] = "again" => kind[o] \in {"password", "create", "revoke"}
           /\ kind[o] = "password" => pc'[o] = "write"
<1>1. /\ kind[o] \in {"login", "password", "update", "create", "revoke"}
      /\ pc[o] = "again" => kind[o] \in {"password", "create", "revoke"}
      BY KindFacts DEF PlaceShape
<1>2. CASE kind[o] \in {"login", "create"}
      BY <1>1, <1>2, PlanFacts, GotoMoves DEF ChecksPassed
<1>3. CASE kind[o] \in {"password", "update"}
      BY <1>1, <1>3, PlanFacts, GotoMoves DEF ChecksPassed
<1>4. CASE kind[o] = "revoke"
      BY <1>1, <1>4, PlanFacts, GotoMoves DEF ChecksPassed
<1> QED BY <1>1, <1>2, <1>3, <1>4

-----------------------------------------------------------------------------
(* What each part of the invariant asks of a step.                         *)
LEMMA SessionsKeep ==
    ASSUME IInv, NEW o \in Op, Moved(o), UNCHANGED <<hash, known, swept, slipped>>,
           sessions' \subseteq
               sessions \cup {p \in {o} : Opening(p) /\ pc[p] = "insert"},
           kind[o] \in {"login", "password"} /\ pc'[o] \in {"delete", "insert"}
               => pc[o] \in {"delete", "insert"},
           pc[o] = "insert" => pc'[o] = "done"
    PROVE  SessionShape'
BY AccountsAssumption DEF IInv, Moved, SessionShape, Opening

LEMMA StatusKeeps ==
    ASSUME IInv, NEW o \in Op, Moved(o), UNCHANGED <<status, asked, overtaken, seen>>,
           kind[o] = "update" => pc'[o] # "write"
    PROVE  StatusShape'
<1> USE DEF IInv, Moved
<1>1. RaceLost => RaceLost'
      BY DEF RaceLost, StatusShape
<1>2. \A p \in Op : overtaken[p] =>
          kind[p] = "update" /\ pc'[p] \in {"write", "delete", "done"}
      BY DEF StatusShape, PlaceShape
<1> QED BY <1>1, <1>2 DEF StatusShape

LEMMA TokensKeep ==
    ASSUME IInv, NEW o \in Op, Moved(o), UNCHANGED <<token, after>>,
           tokens' \subseteq tokens \cup {o},
           kind[o] = "revoke" /\ reply'[o] = "ok" => token[o] \notin tokens',
           kind[o] = "call" /\ reply'[o] = "ok" => token[o] \in tokens
    PROVE  TokenShape' /\ RevokedTokensAreRefused'
<1> USE DEF IInv, Moved
<1>1. \A p \in Op : after[p] \subseteq Op
      BY DEF TypeOK
<1>2. TokenShape'
      BY <1>1, AccountsAssumption DEF TokenShape
<1>3. ASSUME NEW q \in Op, kind[q] = "call", reply'[q] = "ok",
             NEW p \in after[q], kind[p] = "revoke", reply'[p] = "ok"
      PROVE  token[p] # token[q]
  <2>1. pc[p] = "done" /\ reply[p] = "ok" /\ p # o
        BY <1>1, <1>3 DEF TokenShape
  <2>2. CASE q = o
        BY <1>1, <1>3, <2>1, <2>2 DEF TokenShape
  <2>3. CASE q # o
        BY <1>3, <2>1, <2>3 DEF RevokedTokensAreRefused, Answered
  <2> QED BY <2>2, <2>3
<1>4. RevokedTokensAreRefused'
      BY <1>3 DEF RevokedTokensAreRefused, Answered
<1> QED BY <1>2, <1>4

(* The steps that change nothing but where the request stands.             *)
LEMMA LocalKeeps ==
    ASSUME IInv, NEW o \in Op, Moved(o),
           UNCHANGED <<store, inputs, seen, known, history>>,
           kind[o] \in {"login", "password"} /\ pc'[o] \in {"delete", "insert"}
               => pc[o] \in {"delete", "insert"},
           pc[o] = "insert" => pc'[o] = "done",
           kind[o] = "update" => pc'[o] # "write",
           kind[o] = "revoke" => reply'[o] # "ok",
           kind[o] = "call" /\ reply'[o] = "ok" => token[o] \in tokens
    PROVE  IInv'
<1> USE DEF store, inputs, history
<1>1. TypeOK'
      BY DEF IInv, TypeOK, Moved
<1>2. SessionShape'
      BY SessionsKeep
<1>3. StatusShape'
      BY StatusKeeps
<1>4. TokenShape' /\ RevokedTokensAreRefused'
      BY TokensKeep
<1> QED BY <1>1, <1>2, <1>3, <1>4 DEF IInv, Moved

-----------------------------------------------------------------------------
LEMMA Initially == Init => IInv
<1> SUFFICES ASSUME Init PROVE IInv
    OBVIOUS
<1> USE DEF Init
<1>1. TypeOK
      BY AccountsAssumption DEF TypeOK, Credential, Status, PC, Reply
<1>2. PlaceShape
      BY DEF PlaceShape
<1>3. SessionShape
      BY AccountsAssumption DEF SessionShape
<1>4. StatusShape
      BY DEF StatusShape
<1>5. TokenShape
      BY DEF TokenShape
<1>6. RevokedTokensAreRefused
      BY DEF RevokedTokensAreRefused
<1> QED BY <1>1, <1>2, <1>3, <1>4, <1>5, <1>6 DEF IInv

LEMMA StartKeeps ==
    ASSUME IInv, NEW o \in Op, Start(o)
    PROVE  IInv'
<1> USE DEF IInv
<1>1. /\ pc[o] = "idle" /\ reply[o] = "none"
      /\ UNCHANGED <<store, kind, want, resets, seen, known, asked, overtaken,
                     swept, slipped, reply>>
      /\ after' = [after EXCEPT ![o] = {p \in Op : reply[p] # "none"}]
      BY DEF Start, Goto, PlaceShape
<1>2. PICK there \in {"read", "drop", "use", "auth"} :
          /\ pc' = [pc EXCEPT ![o] = there]
          /\ there = "read" => kind[o] \in {"login", "update"}
          /\ there = "drop" => kind[o] = "logout"
          /\ there = "use" => kind[o] = "call"
          /\ there = "auth" => kind[o] \in {"password", "create", "revoke"}
  <2> DEFINE there == CASE kind[o] \in {"login", "update"} -> "read"
                        [] kind[o] = "logout" -> "drop"
                        [] kind[o] = "call" -> "use"
                        [] OTHER -> "auth"
  <2>1. pc' = [pc EXCEPT ![o] = there]
        BY DEF Start, Goto
  <2>2. /\ kind[o] \in {"login", "update"} => there = "read"
        /\ kind[o] = "logout" => there = "drop"
        /\ kind[o] = "call" => there = "use"
        /\ kind[o] \in {"password", "create", "revoke"} => there = "auth"
        OBVIOUS
  <2> HIDE DEF there
  <2> QED BY <2>1, <2>2, KindFacts
<1>3. /\ \A K : Issued(K) \subseteq Credential
      /\ \A K : \A t \in Issued(K) : t = First \/ (t \in Op /\ pc[t] = "done")
      BY DEF Issued, Credential, PlaceShape
<1>4. cookie' \in [Op -> Credential]
      BY <1>3 DEF Start, TypeOK
<1>5. /\ token' \in [Op -> Credential]
      /\ \A p \in Op \ {o} : token'[p] = token[p]
      /\ \/ token'[o] = token[o]
         \/ token'[o] = First
         \/ token'[o] \in Op /\ pc[token'[o]] = "done"
  <2>1. CASE kind[o] \in {"revoke", "call"}
    <3>1. PICK t \in Issued({"create"}) : token' = [token EXCEPT ![o] = t]
          BY <2>1 DEF Start
    <3> QED BY <3>1, <1>3 DEF TypeOK
  <2>2. CASE kind[o] \notin {"revoke", "call"}
        BY <2>2 DEF Start, TypeOK
  <2> QED BY <2>1, <2>2
<1>6. /\ after' \in [Op -> SUBSET Op]
      /\ \A p \in Op \ {o} : after'[p] = after[p] /\ pc'[p] = pc[p]
      /\ after'[o] \subseteq {p \in Op : reply[p] # "none"}
      /\ pc'[o] = there /\ pc' \in [Op -> PC]
      BY <1>1, <1>2 DEF TypeOK, PC
<1> USE DEF store
<1>7. TypeOK'
      BY <1>1, <1>4, <1>5, <1>6 DEF TypeOK
<1>8. PlaceShape'
      BY <1>1, <1>2, <1>6 DEF PlaceShape
<1>9. SessionShape'
      BY <1>1, <1>2, <1>6 DEF SessionShape, Opening
<1>10. StatusShape'
  <2>1. RaceLost => RaceLost'
        BY <1>1, <1>2, <1>6 DEF RaceLost
  <2> QED BY <1>1, <1>2, <1>6, <2>1 DEF StatusShape
<1>11. TokenShape'
      BY <1>1, <1>2, <1>5, <1>6 DEF TokenShape, PlaceShape
<1>12. RevokedTokensAreRefused'
  <2>1. ASSUME NEW q \in Op, kind[q] = "call", reply[q] = "ok",
               NEW p \in after'[q], kind[p] = "revoke", reply[p] = "ok"
        PROVE  token'[p] # token'[q]
    <3>1. q # o /\ p # o /\ after'[q] = after[q]
          BY <1>1, <1>6, <2>1
    <3>2. p \in Op
          BY <2>1, <3>1 DEF TypeOK
    <3> QED BY <1>5, <2>1, <3>1, <3>2 DEF RevokedTokensAreRefused, Answered
  <2> QED BY <1>1, <2>1 DEF RevokedTokensAreRefused, Answered
<1> QED BY <1>7, <1>8, <1>9, <1>10, <1>11, <1>12

(* The checks, and the answers that change nothing.                        *)
LEMMA CheckKeeps ==
    ASSUME IInv, NEW o \in Op,
           \/ Authenticate(o) \/ AuthenticateAgain(o) \/ Refused(o)
           \/ StatementFailed(o) \/ CallAdmitted(o) \/ CallRefused(o)
    PROVE  IInv'
<1> USE DEF IInv
<1>1. /\ UNCHANGED <<store, inputs, seen, known, history>>
      /\ UNCHANGED <<kind, want, resets>>
      BY DEF Authenticate, AuthenticateAgain, Refused, StatementFailed,
             CallAdmitted, CallRefused, inputs
<1>2. CASE Authenticate(o)
  <2>1. /\ pc[o] = "auth" /\ Goto(o, "again")
        /\ kind[o] \in {"password", "create", "revoke"}
        BY <1>2, KindFacts DEF Authenticate, PlaceShape
  <2>2. Moved(o) /\ pc'[o] = "again" /\ reply'[o] = "none"
        BY <1>1, <2>1, GotoMoves
  <2> QED BY <1>1, <2>1, <2>2, LocalKeeps
<1>3. CASE AuthenticateAgain(o)
  <2>1. /\ Moved(o) /\ reply'[o] = "none" /\ pc[o] = "again"
        /\ kind[o] \in {"password", "create", "revoke"}
        /\ pc'[o] \in {"insert", "write", "revoke"}
        /\ kind[o] = "password" => pc'[o] = "write"
        BY <1>1, <1>3, ChecksPassedMoves DEF AuthenticateAgain
  <2> QED BY <1>1, <2>1, LocalKeeps
<1>4. CASE Refused(o) \/ CallRefused(o)
  <2>1. Moved(o) /\ pc'[o] = "done" /\ reply'[o] = "refused"
        BY <1>1, <1>4, AnswerMoves DEF Refused, CallRefused, Reply
  <2> QED BY <1>1, <2>1, LocalKeeps
<1>5. CASE StatementFailed(o)
  <2>1. \/ Answer(o, "error")
        \/ Answer(o, "ok") /\ kind[o] = "update"
        BY <1>5 DEF StatementFailed
  <2>2. /\ Moved(o) /\ pc'[o] = "done"
        /\ reply'[o] = "error" \/ (reply'[o] = "ok" /\ kind[o] = "update")
        BY <1>1, <1>5, <2>1, AnswerMoves DEF StatementFailed, Reply
  <2> QED BY <1>1, <2>2, LocalKeeps
<1>6. CASE CallAdmitted(o)
  <2>1. /\ Moved(o) /\ pc'[o] = "done" /\ reply'[o] = "ok"
        /\ pc[o] = "use" /\ token[o] \in tokens
        BY <1>1, <1>6, AnswerMoves DEF CallAdmitted, Reply
  <2>2. kind[o] = "call"
        BY <2>1, KindFacts DEF PlaceShape
  <2> QED BY <1>1, <2>1, <2>2, LocalKeeps
<1> QED BY <1>2, <1>3, <1>4, <1>5, <1>6

LEMMA LoginReadKeeps ==
    ASSUME IInv, NEW o \in Op, LoginRead(o)
    PROVE  IInv'
<1> USE DEF IInv
<1>1. /\ pc[o] = "read" /\ kind[o] = "login"
      /\ known' = [known EXCEPT ![o] = hash]
      /\ UNCHANGED <<status, hash, sessions, tokens, kind, want, resets, cookie, token,
                     seen, asked, overtaken, swept, slipped, after>>
      BY DEF LoginRead, store, inputs, history
<1>2. /\ Moved(o) /\ reply'[o] = "none"
      /\ pc'[o] \in {"insert", "write", "revoke"}
      BY <1>1, ChecksPassedMoves DEF LoginRead
<1>3. /\ o \in Credential /\ known'[o] = hash
      /\ \A s \in Credential \ {o} : known'[s] = known[s]
      /\ Op \subseteq Credential
      BY <1>1 DEF TypeOK, Credential
<1>4. TypeOK'
      BY <1>1, <1>2 DEF TypeOK, Moved
<1>5. SessionShape'
      BY <1>1, <1>2, <1>3 DEF SessionShape, Opening, Moved
<1>6. StatusShape'
      BY <1>1, <1>2, StatusKeeps
<1>7. TokenShape' /\ RevokedTokensAreRefused'
      BY <1>1, <1>2, TokensKeep
<1> QED BY <1>2, <1>4, <1>5, <1>6, <1>7 DEF Moved

LEMMA UpdateReadKeeps ==
    ASSUME IInv, NEW o \in Op, UpdateRead(o)
    PROVE  IInv'
<1> USE DEF IInv
<1>1. /\ pc[o] = "read" /\ kind[o] = "update"
      /\ seen' = [seen EXCEPT ![o] = status]
      /\ UNCHANGED <<status, hash, sessions, tokens, kind, want, resets, cookie, token,
                     known, asked, overtaken, swept, slipped, after>>
      BY DEF UpdateRead, store, inputs, history
<1>2. /\ Moved(o) /\ reply'[o] = "none"
      /\ pc'[o] \in {"insert", "write", "revoke"}
      BY <1>1, ChecksPassedMoves DEF UpdateRead
<1>3. TypeOK'
      BY <1>1, <1>2 DEF TypeOK, Moved
<1>4. SessionShape'
      BY <1>1, <1>2, SessionsKeep
<1>5. StatusShape'
  <2>1. RaceLost => RaceLost'
        BY <1>1, <1>2 DEF RaceLost, Moved, StatusShape
  <2>2. \A p \in Op : overtaken[p] =>
            kind[p] = "update" /\ pc'[p] \in {"write", "delete", "done"}
        BY <1>1, <1>2 DEF StatusShape, Moved
  <2>3. seen'[o] = status /\ \A p \in Op \ {o} : seen'[p] = seen[p]
        BY <1>1 DEF TypeOK
  <2> QED BY <1>1, <1>2, <2>1, <2>2, <2>3 DEF StatusShape, Moved
<1>6. TokenShape' /\ RevokedTokensAreRefused'
      BY <1>1, <1>2, TokensKeep
<1> QED BY <1>2, <1>3, <1>4, <1>5, <1>6 DEF Moved

LEMMA PasswordWriteKeeps ==
    ASSUME IInv, NEW o \in Op, PasswordWrite(o)
    PROVE  IInv'
<1> USE DEF IInv
<1>1. /\ pc[o] = "write" /\ kind[o] = "password"
      /\ hash' = o /\ known' = [known EXCEPT ![o] = o]
      /\ UNCHANGED <<status, sessions, tokens, kind, want, resets, cookie, token,
                     seen, asked, overtaken, swept, slipped, after>>
      BY DEF PasswordWrite, inputs, history
<1>2. /\ Moved(o)
      /\ pc'[o] \in {"delete", "done"}
      BY <1>1, AppliedMoves DEF PasswordWrite
<1>3. /\ o \in Credential /\ known'[o] = o
      /\ \A s \in Credential \ {o} : known'[s] = known[s]
      /\ Op \subseteq Credential
      BY <1>1 DEF TypeOK, Credential
<1>4. TypeOK'
      BY <1>1, <1>2, <1>3 DEF TypeOK, Moved
<1>5. SessionShape'
      BY <1>1, <1>2, <1>3, AccountsAssumption DEF SessionShape, Opening, Moved
<1>6. StatusShape'
      BY <1>1, <1>2, StatusKeeps
<1>7. TokenShape' /\ RevokedTokensAreRefused'
      BY <1>1, <1>2, TokensKeep
<1> QED BY <1>2, <1>4, <1>5, <1>6, <1>7 DEF Moved

LEMMA UpdateWriteKeeps ==
    ASSUME IInv, NEW o \in Op, UpdateWrite(o)
    PROVE  IInv'
<1> USE DEF IInv
<1>1. /\ pc[o] = "write" /\ kind[o] = "update"
      /\ status' = IF want[o] = "" THEN seen[o] ELSE want[o]
      /\ hash' = IF resets[o] THEN o ELSE hash
      /\ asked' = IF want[o] = "" THEN asked ELSE want[o]
      /\ overtaken' = [p \in Op |-> \/ overtaken[p]
                                    \/ /\ want[o] # ""
                                       /\ kind[p] = "update"
                                       /\ pc[p] = "write"
                                       /\ p # o]
      /\ UNCHANGED <<sessions, tokens, kind, want, resets, cookie, token, seen,
                     known, swept, slipped, after>>
      BY DEF UpdateWrite, StatusToWrite, inputs
<1>2. Moved(o) /\ pc'[o] \in {"delete", "done"}
  <2>1. Answer(o, "notfound") \/ Applied(o)
        BY DEF UpdateWrite
  <2> QED BY <1>1, <2>1, AppliedMoves, AnswerMoves DEF Reply
<1>3. TypeOK'
  <2>1. status' \in Status /\ asked' \in Status
        BY <1>1 DEF TypeOK
  <2>2. hash' \in Credential
        BY <1>1 DEF TypeOK, Credential
  <2>3. overtaken' \in [Op -> BOOLEAN]
        BY <1>1
  <2> QED BY <1>1, <1>2, <2>1, <2>2, <2>3 DEF TypeOK, Moved
<1>4. SessionShape'
      BY <1>1, <1>2, AccountsAssumption DEF SessionShape, Opening, Moved
<1>5. StatusShape'
  <2>1. \A p \in Op : overtaken'[p] =>
            kind[p] = "update" /\ pc'[p] \in {"write", "delete", "done"}
        BY <1>1, <1>2 DEF StatusShape, Moved
  <2>2. RaceLost => RaceLost'
        BY <1>1, <1>2 DEF RaceLost, Moved
  <2>3. overtaken[o] /\ want[o] = "" => RaceLost'
        BY <1>1, <1>2 DEF RaceLost, Moved
  <2>4. CASE want[o] = ""
        BY <1>1, <1>2, <2>1, <2>2, <2>3, <2>4 DEF StatusShape, Moved
  <2>5. CASE want[o] # ""
        BY <1>1, <1>2, <2>1, <2>5 DEF StatusShape, Moved
  <2> QED BY <2>4, <2>5
<1>6. TokenShape' /\ RevokedTokensAreRefused'
      BY <1>1, <1>2, TokensKeep
<1> QED BY <1>2, <1>3, <1>4, <1>5, <1>6 DEF Moved

LEMMA SessionsDeleteKeeps ==
    ASSUME IInv, NEW o \in Op, SessionsDelete(o)
    PROVE  IInv'
<1> USE DEF IInv
<1>1. /\ pc[o] = "delete" /\ sessions' = {}
      /\ swept' = [swept EXCEPT ![o] = TRUE]
      /\ slipped' = [slipped EXCEPT ![o] = {p \in Op \ {o} : Opening(p)}]
      /\ UNCHANGED <<status, hash, tokens, kind, want, resets, cookie, token, seen,
                     known, asked, overtaken, after>>
      BY DEF SessionsDelete, inputs
<1>2. /\ Moved(o)
      /\ pc'[o] \in {"insert", "done"}
      /\ kind[o] \in {"password", "update"}
      BY <1>1, ProceedMoves, KindFacts DEF SessionsDelete, PlaceShape
<1>3. /\ swept'[o] /\ slipped'[o] = {p \in Op \ {o} : Opening(p)}
      /\ \A p \in Op \ {o} : swept'[p] = swept[p] /\ slipped'[p] = slipped[p]
      BY <1>1 DEF TypeOK
<1>4. TypeOK'
  <2>1. slipped' \in [Op -> SUBSET Op] /\ swept' \in [Op -> BOOLEAN]
        BY <1>1 DEF TypeOK
  <2> QED BY <1>1, <1>2, <2>1 DEF TypeOK, Moved
<1>5. SessionShape'
  <2>1. \A p \in Op : swept'[p] => pc'[p] \in {"insert", "done"}
        BY <1>2, <1>3 DEF SessionShape, Moved
  <2>2. \A p \in Op : kind[p] = "password" /\ pc'[p] \in {"delete", "insert"}
                         => known[p] = p
        BY <1>1, <1>2 DEF SessionShape, Moved
  <2>3. ASSUME hash \in Op, swept'[hash], NEW p \in Op, Opening(p)'
        PROVE  known[p] = hash \/ p \in slipped'[hash]
    <3>1. Opening(p)
          BY <1>1, <1>2, <2>3 DEF Opening, Moved
    <3>2. CASE hash = o
      <4>1. CASE p = o
            BY <1>1, <1>2, <2>2, <2>3, <3>2, <4>1 DEF Opening
      <4>2. CASE p # o
            BY <1>3, <3>1, <3>2, <4>2
      <4> QED BY <4>1, <4>2
    <3>3. CASE hash # o
          BY <1>3, <2>3, <3>1, <3>3 DEF SessionShape
    <3> QED BY <3>2, <3>3
  <2> QED BY <1>1, <2>1, <2>2, <2>3 DEF SessionShape
<1>6. StatusShape'
      BY <1>1, <1>2, StatusKeeps
<1>7. TokenShape' /\ RevokedTokensAreRefused'
      BY <1>1, <1>2, TokensKeep
<1> QED BY <1>2, <1>4, <1>5, <1>6, <1>7 DEF Moved

LEMMA CredentialKeeps ==
    ASSUME IInv, NEW o \in Op,
           SessionInsert(o) \/ TokenInsert(o) \/ TokenRevoke(o) \/ Logout(o)
    PROVE  IInv'
<1> USE DEF IInv
<1>1. UNCHANGED <<status, hash, kind, want, resets, cookie, token, seen, known,
                  asked, overtaken, swept, slipped, after>>
      BY DEF SessionInsert, TokenInsert, TokenRevoke, Logout, inputs, history
<1>2. CASE SessionInsert(o)
  <2>1. /\ pc[o] = "insert" /\ kind[o] \in {"login", "password"}
        /\ sessions' = sessions \cup {o} /\ tokens' = tokens
        /\ Moved(o) /\ pc'[o] = "done"
        BY <1>1, <1>2, AppliedMoves DEF SessionInsert
  <2>2. TypeOK'
        BY <1>1, <2>1 DEF TypeOK, Moved, Credential
  <2>3. SessionShape'
        BY <1>1, <2>1, SessionsKeep DEF Opening
  <2>4. StatusShape'
        BY <1>1, <2>1, StatusKeeps
  <2>5. TokenShape' /\ RevokedTokensAreRefused'
        BY <1>1, <2>1, TokensKeep
  <2> QED BY <2>1, <2>2, <2>3, <2>4, <2>5 DEF Moved
<1>3. CASE TokenInsert(o)
  <2>1. /\ pc[o] = "insert" /\ kind[o] = "create"
        /\ tokens' = tokens \cup {o} /\ sessions' = sessions
        /\ Moved(o) /\ pc'[o] = "done"
        BY <1>1, <1>3, AppliedMoves DEF TokenInsert
  <2>2. TypeOK'
        BY <1>1, <2>1 DEF TypeOK, Moved, Credential
  <2>3. SessionShape'
        BY <1>1, <2>1, SessionsKeep
  <2>4. StatusShape'
        BY <1>1, <2>1, StatusKeeps
  <2>5. TokenShape' /\ RevokedTokensAreRefused'
        BY <1>1, <2>1, TokensKeep
  <2> QED BY <2>1, <2>2, <2>3, <2>4, <2>5 DEF Moved
<1>4. CASE TokenRevoke(o)
  <2>1. /\ pc[o] = "revoke" /\ sessions' = sessions
        /\ tokens' = tokens \ {token[o]}
        /\ Answer(o, "notfound") \/ Applied(o)
        BY <1>4 DEF TokenRevoke, TokensWithout
  <2>2. Moved(o) /\ pc'[o] = "done" /\ kind[o] = "revoke"
        BY <1>1, <2>1, AppliedMoves, AnswerMoves, KindFacts DEF PlaceShape, Reply
  <2>3. TypeOK'
        BY <1>1, <2>1, <2>2 DEF TypeOK, Moved
  <2>4. SessionShape'
        BY <1>1, <2>1, <2>2, SessionsKeep
  <2>5. StatusShape'
        BY <1>1, <2>2, StatusKeeps
  <2>6. TokenShape' /\ RevokedTokensAreRefused'
        BY <1>1, <2>1, <2>2, TokensKeep
  <2> QED BY <2>2, <2>3, <2>4, <2>5, <2>6 DEF Moved
<1>5. CASE Logout(o)
  <2>1. /\ pc[o] = "drop" /\ tokens' = tokens
        /\ sessions' \subseteq sessions
        /\ Answer(o, "ok")
        BY <1>5 DEF Logout
  <2>2. Moved(o) /\ pc'[o] = "done" /\ kind[o] = "logout"
        BY <1>1, <2>1, AnswerMoves, KindFacts DEF PlaceShape, Reply
  <2>3. TypeOK'
        BY <1>1, <2>1, <2>2 DEF TypeOK, Moved
  <2>4. SessionShape'
        BY <1>1, <2>1, <2>2, SessionsKeep
  <2>5. StatusShape'
        BY <1>1, <2>2, StatusKeeps
  <2>6. TokenShape' /\ RevokedTokensAreRefused'
        BY <1>1, <2>1, <2>2, TokensKeep
  <2> QED BY <2>2, <2>3, <2>4, <2>5, <2>6 DEF Moved
<1> QED BY <1>2, <1>3, <1>4, <1>5

LEMMA ExpiryKeeps ==
    ASSUME IInv, NEW s \in Credential, SessionExpires(s) \/ TokenExpires(s)
    PROVE  IInv'
<1>1. /\ sessions' \subseteq sessions /\ tokens' \subseteq tokens
      /\ UNCHANGED <<status, hash, pc, kind, want, resets, cookie, token, seen, known,
                     reply, asked, overtaken, swept, slipped, after>>
      BY DEF SessionExpires, TokenExpires, inputs, history
<1>2. TypeOK'
      BY <1>1 DEF IInv, TypeOK
<1>3. SessionShape'
      BY <1>1 DEF IInv, SessionShape, Opening
<1>4. PlaceShape' /\ StatusShape' /\ RevokedTokensAreRefused'
      BY <1>1 DEF IInv, PlaceShape, StatusShape, RaceLost,
                  RevokedTokensAreRefused, Answered
<1>5. TokenShape'
      BY <1>1 DEF IInv, TokenShape
<1> QED BY <1>2, <1>3, <1>4, <1>5 DEF IInv

LEMMA StepKeeps == IInv /\ [Next]_vars => IInv'
<1> SUFFICES ASSUME IInv, [Next]_vars PROVE IInv'
    OBVIOUS
<1>1. ASSUME NEW o \in Op, RequestStep(o) PROVE IInv'
      BY <1>1, StartKeeps, CheckKeeps, LoginReadKeeps, UpdateReadKeeps,
         PasswordWriteKeeps, UpdateWriteKeeps, SessionsDeleteKeeps,
         CredentialKeeps DEF RequestStep
<1>2. CASE UNCHANGED vars
      BY <1>2 DEF vars, IInv, TypeOK, PlaceShape, SessionShape, Opening,
                  StatusShape, RaceLost, TokenShape, RevokedTokensAreRefused,
                  Answered
<1> QED BY <1>1, <1>2, ExpiryKeeps DEF Next, Quiet

(* The inductive invariant of one account, its sessions and its tokens.    *)
THEOREM AccountsInvariance == Spec => []IInv
BY Initially, StepKeeps, PTL DEF Spec

(* The state of the account, its sessions and tokens keeps its types.      *)
THEOREM AccountsTypes == Spec => []TypeOK
<1>1. IInv => TypeOK
      BY DEF IInv
<1> QED BY <1>1, AccountsInvariance, PTL

(* changePassword and updateUser write the password first and delete the   *)
(* account's sessions afterwards (session.go, admin.go): a session that    *)
(* rests on an older password is gone, unless it was being opened at the   *)
(* moment of the deletion.                                                 *)
THEOREM OldPasswordsShutOut == Spec => []OldPasswordsAreShutOut
<1>1. ASSUME IInv, NEW s \in sessions, known[s] # hash
      PROVE  ~swept[hash] \/ s \in slipped[hash]
  <2>1. hash \in Op \cup {First} /\ s \in Op \cup {First}
        BY <1>1 DEF IInv, TypeOK, Credential
  <2>2. hash # First
        BY <1>1, <2>1 DEF IInv, SessionShape, Credential
  <2> QED BY <1>1, <2>1, <2>2 DEF IInv, SessionShape
<1>2. IInv => OldPasswordsAreShutOut
      BY <1>1 DEF OldPasswordsAreShutOut
<1> QED BY <1>2, AccountsInvariance, PTL

(* updateUser (admin.go) writes back the status it has read: the account   *)
(* has the status last asked for, or an update lost a race.                *)
THEOREM OnlyARaceRestoresStatus == Spec => []OnlyRacesRestoreStatus
<1>1. IInv => OnlyRacesRestoreStatus
      BY DEF IInv, StatusShape, RaceLost, OnlyRacesRestoreStatus
<1> QED BY <1>1, AccountsInvariance, PTL

(* A call that begins after a revocation was answered is not admitted with *)
(* the token it revoked (user.go, mcp.go).                                 *)
THEOREM RevokedTokensStayRefused == Spec => []RevokedTokensAreRefused
<1>1. IInv => RevokedTokensAreRefused
      BY DEF IInv
<1> QED BY <1>1, AccountsInvariance, PTL
=============================================================================
