------------------------------ MODULE Accounts ------------------------------
(***************************************************************************)
(* One account: its status, password, web sessions and access tokens       *)
(* (internal/api/session.go, user.go, updateUser in admin.go, and the      *)
(* authentication of internal/api/mcp.go).                                 *)
(*                                                                         *)
(* A member of Op is one HTTP request.  A handler is a chain of statements *)
(* on the control store, each a step of its own; other requests run        *)
(* between two of them.  A login, a password change and a token creation   *)
(* each issue at most one credential, so the request also names it.  A     *)
(* session or token row counts from its insertion until it is deleted or   *)
(* expires.  Passwords are compared, never looked into: a hash is named    *)
(* after the request that set it.                                          *)
(***************************************************************************)
EXTENDS Naturals, Sequences

CONSTANTS
    Op,       \* requests
    Kinds,    \* what they do, a subset of Kind
    First,    \* the password, the session and the token there at the start
    Faults    \* whether a statement on the store may fail

Kind == {"login", "logout", "password", "update", "create", "revoke", "call"}

ASSUME AccountsAssumption ==
    Kinds \subseteq Kind /\ First \notin Op /\ Faults \in BOOLEAN

Credential == Op \cup {First}
Status == {"active", "disabled"}

VARIABLES
    status,     \* principals.status
    hash,       \* principals.password_hash
    sessions,   \* the live rows of web_sessions
    tokens,     \* the live rows of api_tokens
    pc,         \* where a request stands
    kind,       \* what it does
    want,       \* the status an update asks for, "" when none
    resets,     \* whether an update brings a password
    cookie,     \* the session a request presents
    token,      \* the token a call presents or a revocation names
    seen,       \* the status an update has read
    known,      \* the password a session rests on
    reply,      \* what the caller got
    asked,      \* history: the last status an update asked for and wrote
    overtaken,  \* history: such a write came between an update's two steps
    swept,      \* history: the request has deleted the account's sessions
    slipped,    \* history: requests that were then about to insert a session
    after       \* history: requests answered before this one began

store == <<status, hash, sessions, tokens>>
inputs == <<kind, want, resets, cookie, token>>
history == <<asked, overtaken, swept, slipped, after>>
vars == <<status, hash, sessions, tokens, pc, kind, want, resets, cookie,
          token, seen, known, reply, asked, overtaken, swept, slipped, after>>

PC == {"idle", "auth", "again", "read", "write", "delete", "insert", "drop",
       "revoke", "use", "done"}
Reply == {"none", "ok", "refused", "notfound", "error"}

TypeOK ==
    /\ status \in Status
    /\ hash \in Credential
    /\ sessions \subseteq Credential
    /\ tokens \subseteq Credential
    /\ pc \in [Op -> PC]
    /\ kind \in [Op -> Kinds]
    /\ want \in [Op -> Status \cup {""}]
    /\ resets \in [Op -> BOOLEAN]
    /\ cookie \in [Op -> Credential]
    /\ token \in [Op -> Credential]
    /\ seen \in [Op -> Status]
    /\ known \in [Credential -> Credential]
    /\ reply \in [Op -> Reply]
    /\ asked \in Status
    /\ overtaken \in [Op -> BOOLEAN]
    /\ swept \in [Op -> BOOLEAN]
    /\ slipped \in [Op -> SUBSET Op]
    /\ after \in [Op -> SUBSET Op]

(* An update asks for a status, brings a password, or both. *)
Init ==
    /\ status = "active"
    /\ hash = First
    /\ sessions = {First}
    /\ tokens = {First}
    /\ pc = [o \in Op |-> "idle"]
    /\ kind \in [Op -> Kinds]
    /\ want \in [Op -> Status \cup {""}]
    /\ resets \in [Op -> BOOLEAN]
    /\ \A o \in Op : kind[o] = "update" <=> want[o] # "" \/ resets[o]
    /\ cookie = [o \in Op |-> First]
    /\ token = [o \in Op |-> First]
    /\ seen = [o \in Op |-> "active"]
    /\ known = [s \in Credential |-> First]
    /\ reply = [o \in Op |-> "none"]
    /\ asked = "active"
    /\ overtaken = [o \in Op |-> FALSE]
    /\ swept = [o \in Op |-> FALSE]
    /\ slipped = [o \in Op |-> {}]
    /\ after = [o \in Op |-> {}]

-----------------------------------------------------------------------------
Goto(o, there) ==
    /\ pc' = [pc EXCEPT ![o] = there]
    /\ UNCHANGED reply

Answer(o, what) ==
    /\ pc' = [pc EXCEPT ![o] = "done"]
    /\ reply' = [reply EXCEPT ![o] = what]

(* Mutant: the sessions are deleted before the password is changed. *)
SweepFirst(o) ==
    CASE kind[o] \in {"login", "create"} -> <<"insert">>
      [] kind[o] = "password" -> <<"delete", "write", "insert">>
      [] kind[o] = "revoke" -> <<"revoke">>
      [] kind[o] = "update" -> IF resets[o] THEN <<"delete", "write">>
                                            ELSE <<"write">>

(* The statements that follow a handler's checks. *)
Plan(o) ==
    CASE kind[o] \in {"login", "create"} -> <<"insert">>
      [] kind[o] = "password" -> <<"write", "delete", "insert">>
      [] kind[o] = "revoke" -> <<"revoke">>
      [] kind[o] = "update" -> IF resets[o] THEN <<"write", "delete">>
                                            ELSE <<"write">>

ChecksPassed(o) == Goto(o, Head(Plan(o)))

(* On to the next statement of the plan, or to the answer. *)
Proceed(o) ==
    LET i == CHOOSE i \in DOMAIN Plan(o) : Plan(o)[i] = pc[o]
    IN IF i = Len(Plan(o)) THEN Answer(o, "ok") ELSE Goto(o, Plan(o)[i + 1])

Issued(K) == {First} \cup {o \in Op : kind[o] \in K /\ reply[o] = "ok"}

(* A request arrives: a browser presents a session it was given, an MCP    *)
(* client a token, and a user revokes a token of the list it was shown.    *)
Start(o) ==
    /\ pc[o] = "idle"
    /\ Goto(o, CASE kind[o] \in {"login", "update"} -> "read"
                 [] kind[o] = "logout" -> "drop"
                 [] kind[o] = "call" -> "use"
                 [] OTHER -> "auth")
    /\ IF kind[o] \in {"logout", "password", "create", "revoke"}
       THEN \E s \in Issued({"login", "password"}) :
               cookie' = [cookie EXCEPT ![o] = s]
       ELSE UNCHANGED cookie
    /\ IF kind[o] \in {"revoke", "call"}
       THEN \E t \in Issued({"create"}) : token' = [token EXCEPT ![o] = t]
       ELSE UNCHANGED token
    /\ after' = [after EXCEPT ![o] = {p \in Op : reply[p] # "none"}]
    /\ UNCHANGED <<store, kind, want, resets, seen, known, asked, overtaken,
                   swept, slipped>>

-----------------------------------------------------------------------------
(* Checks.                                                                 *)

(* PrincipalBySessionDigest: the session's row and an active account. *)
SessionAdmits(o) == cookie[o] \in sessions /\ status = "active"

(* RequireAny and RequireRole look the session up, and the handler behind  *)
(* them does so again.  A password change then compares the password it    *)
(* was given with the hash just read.                                      *)
Authenticate(o) ==
    /\ pc[o] = "auth"
    /\ SessionAdmits(o)
    /\ Goto(o, "again")
    /\ UNCHANGED <<store, inputs, seen, known, history>>

AuthenticateAgain(o) ==
    /\ pc[o] = "again"
    /\ SessionAdmits(o)
    /\ ChecksPassed(o)
    /\ UNCHANGED <<store, inputs, seen, known, history>>

(* No live session, an account that is not active, a wrong password, a     *)
(* field that does not validate, or a store that does not answer.          *)
Refused(o) ==
    /\ pc[o] \in {"auth", "again", "read"}
    /\ Answer(o, "refused")
    /\ UNCHANGED <<store, inputs, seen, known, history>>

(* login reads the account and checks status and password. *)
LoginRead(o) ==
    /\ pc[o] = "read"
    /\ kind[o] = "login"
    /\ status = "active"
    /\ known' = [known EXCEPT ![o] = hash]
    /\ ChecksPassed(o)
    /\ UNCHANGED <<store, inputs, seen, history>>

(* updateUser reads the account for the status it is to keep. *)
UpdateRead(o) ==
    /\ pc[o] = "read"
    /\ kind[o] = "update"
    /\ seen' = [seen EXCEPT ![o] = status]
    /\ ChecksPassed(o)
    /\ UNCHANGED <<store, inputs, known, history>>

-----------------------------------------------------------------------------
(* Statements.                                                             *)

(* A statement was applied.  The store may still report an error. *)
Applied(o) == Proceed(o) \/ (Faults /\ Answer(o, "error"))

(* UpdatePassword.  The new hash differs from every other: it is salted. *)
PasswordWrite(o) ==
    /\ pc[o] = "write"
    /\ kind[o] = "password"
    /\ hash' = o
    /\ known' = [known EXCEPT ![o] = o]
    /\ Applied(o)
    /\ UNCHANGED <<status, sessions, tokens, inputs, seen, history>>

(* Mutant: an update that does not ask for a status enables the account. *)
ActiveByDefault(o) == IF want[o] = "" THEN "active" ELSE want[o]

(* Mutant: what the update asks for is written as it is. *)
WantedStatus(o) == want[o]

StatusToWrite(o) == IF want[o] = "" THEN seen[o] ELSE want[o]

(* UpdatePrincipal writes status and, if there is one, the new password.   *)
(* MySQL counts the rows it changed: when nothing changes it counts none,  *)
(* and updateUser answers that there is no such user.                      *)
UpdateWrite(o) ==
    /\ pc[o] = "write"
    /\ kind[o] = "update"
    /\ status' = StatusToWrite(o)
    /\ hash' = IF resets[o] THEN o ELSE hash
    /\ IF status' = status /\ hash' = hash THEN Answer(o, "notfound")
                                           ELSE Applied(o)
    /\ asked' = IF want[o] = "" THEN asked ELSE want[o]
    /\ overtaken' = [p \in Op |-> \/ overtaken[p]
                                  \/ /\ want[o] # ""
                                     /\ kind[p] = "update"
                                     /\ pc[p] = "write"
                                     /\ p # o]
    /\ UNCHANGED <<sessions, tokens, inputs, seen, known, swept, slipped,
                   after>>

(* A session is about to be inserted; its password has been checked or set. *)
Opening(p) ==
    kind[p] \in {"login", "password"} /\ pc[p] \in {"delete", "insert"}

(* DeleteSessionsForPrincipal. *)
SessionsDelete(o) ==
    /\ pc[o] = "delete"
    /\ sessions' = {}
    /\ Proceed(o)
    /\ swept' = [swept EXCEPT ![o] = TRUE]
    /\ slipped' = [slipped EXCEPT ![o] = {p \in Op \ {o} : Opening(p)}]
    /\ UNCHANGED <<status, hash, tokens, inputs, seen, known, asked,
                   overtaken, after>>

(* InsertSession, InsertToken. *)
SessionInsert(o) ==
    /\ pc[o] = "insert"
    /\ kind[o] \in {"login", "password"}
    /\ sessions' = sessions \cup {o}
    /\ Applied(o)
    /\ UNCHANGED <<status, hash, tokens, inputs, seen, known, history>>

TokenInsert(o) ==
    /\ pc[o] = "insert"
    /\ kind[o] = "create"
    /\ tokens' = tokens \cup {o}
    /\ Applied(o)
    /\ UNCHANGED <<status, hash, sessions, inputs, seen, known, history>>

(* A statement fails and changes nothing.  updateUser does not look at the *)
(* error of its second one (admin.go:150).                                 *)
StatementFailed(o) ==
    /\ Faults
    /\ pc[o] \in {"write", "delete", "insert", "revoke"}
    /\ Answer(o, IF kind[o] = "update" /\ pc[o] = "delete" THEN "ok"
                                                          ELSE "error")
    /\ UNCHANGED <<store, inputs, seen, known, history>>

(* Mutant: the token's row stays. *)
TokensKept(t) == tokens

TokensWithout(t) == tokens \ {t}

(* DeleteTokenForPrincipal: a token already gone is not found. *)
TokenRevoke(o) ==
    /\ pc[o] = "revoke"
    /\ tokens' = TokensWithout(token[o])
    /\ IF token[o] \in tokens THEN Applied(o) ELSE Answer(o, "notfound")
    /\ UNCHANGED <<status, hash, sessions, inputs, seen, known, history>>

(* logout deletes the session it is shown, and answers ok even if the      *)
(* statement failed.                                                       *)
Logout(o) ==
    /\ pc[o] = "drop"
    /\ sessions' \in {sessions \ {cookie[o]}}
                       \cup (IF Faults THEN {sessions} ELSE {})
    /\ Answer(o, "ok")
    /\ UNCHANGED <<status, hash, tokens, inputs, seen, known, history>>

(* An MCP request: PrincipalByTokenDigest finds the token's row and an     *)
(* active account, or the request is refused.                              *)
CallAdmitted(o) ==
    /\ pc[o] = "use"
    /\ token[o] \in tokens
    /\ status = "active"
    /\ Answer(o, "ok")
    /\ UNCHANGED <<store, inputs, seen, known, history>>

CallRefused(o) ==
    /\ pc[o] = "use"
    /\ Faults \/ token[o] \notin tokens \/ status # "active"
    /\ Answer(o, "refused")
    /\ UNCHANGED <<store, inputs, seen, known, history>>

(* expires_at passes. *)
SessionExpires(s) ==
    /\ s \in sessions
    /\ sessions' = sessions \ {s}
    /\ UNCHANGED <<status, hash, tokens, pc, inputs, seen, known, reply,
                   history>>

TokenExpires(t) ==
    /\ t \in tokens
    /\ tokens' = tokens \ {t}
    /\ UNCHANGED <<status, hash, sessions, pc, inputs, seen, known, reply,
                   history>>

-----------------------------------------------------------------------------
RequestStep(o) ==
    \/ Start(o)
    \/ Authenticate(o) \/ AuthenticateAgain(o) \/ Refused(o)
    \/ LoginRead(o) \/ UpdateRead(o)
    \/ PasswordWrite(o) \/ UpdateWrite(o) \/ SessionsDelete(o)
    \/ SessionInsert(o) \/ TokenInsert(o) \/ StatementFailed(o)
    \/ TokenRevoke(o) \/ Logout(o)
    \/ CallAdmitted(o) \/ CallRefused(o)

Quiet == (\A o \in Op : pc[o] = "done") /\ UNCHANGED vars

Next ==
    \/ \E o \in Op : RequestStep(o)
    \/ \E s \in Credential : SessionExpires(s) \/ TokenExpires(s)
    \/ Quiet

Spec == Init /\ [][Next]_vars

-----------------------------------------------------------------------------
(* Properties.                                                             *)

(* A session that rests on a password no longer in force is shut out as    *)
(* soon as whoever set the new one has deleted the account's sessions.     *)
(* Only a session that was being opened at that very moment slips through: *)
(* changePassword and updateUser write the password first (session.go:144, *)
(* admin.go:140) and delete afterwards, so that no later login can.        *)
OldPasswordsAreShutOut ==
    \A s \in sessions : known[s] # hash =>
        \/ ~swept[hash]
        \/ s \in slipped[hash]

(* The account has the status last asked for, unless an update that asked  *)
(* for none was between its read and its write when that was asked: only   *)
(* a race makes admin.go:119 bring an old status back.                     *)
OnlyRacesRestoreStatus ==
    status # asked =>
        \E o \in Op : overtaken[o] /\ want[o] = "" /\ pc[o] # "write"

Answered(o, what) == {p \in after[o] : kind[p] = what /\ reply[p] = "ok"}

(* docs/security.md:5, of tokens: a call that begins after a revocation    *)
(* was answered is not admitted with the token it revoked, whatever other  *)
(* revocations, creations and status changes run at the same time.         *)
RevokedTokensAreRefused ==
    \A o \in Op : kind[o] = "call" /\ reply[o] = "ok" =>
        \A p \in Answered(o, "revoke") : token[p] # token[o]

-----------------------------------------------------------------------------
(* What the code does not do.                                              *)

(* docs/security.md:5, of accounts: disabling one stops new requests at    *)
(* once.  A call that begins after a disable was answered, when nobody     *)
(* asks for the account to be enabled, is not admitted.                    *)
DisablingStopsCalls ==
    \A o \in Op : kind[o] = "call" /\ reply[o] = "ok" =>
        \A p \in Answered(o, "update") :
            want[p] = "disabled" => \E e \in Op : want[e] = "active"
=============================================================================
