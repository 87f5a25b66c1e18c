------------------------------- MODULE Grants -------------------------------
(***************************************************************************)
(* The administration of grants: upsertGrant, updateGrant and revokeGrant  *)
(* (internal/api/admin.go) over the grants table of the control store      *)
(* (internal/control/store.go), and what the lists of accessible resources *)
(* say to the principals.                                                  *)
(*                                                                         *)
(* A member of Op is one request, and the identifier a new grant gets from *)
(* it.  A grant is FOR a principal, a resource and an action; its terms    *)
(* are known by the request that wrote them.                               *)
(***************************************************************************)
EXTENDS Authz

CONSTANTS
    Op,          \* requests
    Old,         \* grants there may be before
    Principal,
    Resource,
    Text         \* what a request may ask for as an action

ASSUME GrantsAssumption == Op \cap Old = {} /\ Unset \notin Op \cup Old

Id == Op \cup Old

Subject == [principal : Principal, resource : Resource, action : Text]

(* The column takes the three actions only. *)
Row == [live : BOOLEAN, author : Id,
        for : {s \in Subject : ParsesAs(s.action)}]

NoRow == [live |-> FALSE, author |-> Unset]

(* The handler, the subject in the body, the grant in the path.  The body  *)
(* of an upsert may bring a grant's identifier too.                        *)
Request == [kind : {"upsert"}, for : Subject, id : {Unset} \cup Id] \cup
           [kind : {"edit"}, for : Subject, id : Id] \cup
           [kind : {"revoke"}, for : {Unset}, id : Id]

NoRequest == [kind |-> "none", for |-> Unset, id |-> Unset]

VARIABLES
    rows,      \* the table: a grant's row, NoRow when there is none
    enabled,   \* the enabled resources
    pc, req,
    reply,     \* what the administrator got
    made,      \* history: the writing statement wrote its row
    revived    \* history: an upsert has written an edit's grant since

vars == <<rows, enabled, pc, req, reply, made, revived>>

TypeOK ==
    /\ rows \in [Id -> {NoRow} \cup Row]
    /\ enabled \subseteq Resource
    /\ pc \in [Op -> {"idle", "write", "readback", "done"}]
    /\ req \in [Op -> {NoRequest} \cup Request]
    /\ reply \in [Op -> {"none", "ok", "invalid", "notfound", "refused",
                        "failed"}]
    /\ made \in [Op -> BOOLEAN]
    /\ revived \in [Op -> BOOLEAN]

(* The grants for s: at most one, whether revoked or not (uk_grant). *)
HolderOf(s) == {g \in Id : rows[g] # NoRow /\ rows[g].for = s}

ValidGrant(s) == ParsesAs(s.action)

Init ==
    /\ rows \in [Id -> {NoRow} \cup {row \in Row : row.author \in Old}]
    /\ \A g \in Id : rows[g] # NoRow => g \in Old /\ HolderOf(rows[g].for) = {g}
    /\ enabled \in SUBSET Resource
    /\ pc = [o \in Op |-> "idle"]
    /\ req = [o \in Op |-> NoRequest]
    /\ reply = [o \in Op |-> "none"]
    /\ made = [o \in Op |-> FALSE]
    /\ revived = [o \in Op |-> FALSE]

-----------------------------------------------------------------------------
Answer(o, what) ==
    /\ pc' = [pc EXCEPT ![o] = "done"]
    /\ reply' = [reply EXCEPT ![o] = what]

Goto(o, there) ==
    /\ pc' = [pc EXCEPT ![o] = there]
    /\ UNCHANGED reply

(* The statement of o writes these rows, and may still report an error. *)
Written(o, new, next) ==
    /\ rows' = new
    /\ made' = [made EXCEPT ![o] = TRUE]
    /\ next \/ Answer(o, "failed")

(* The statement of o writes nothing. *)
Unwritten == UNCHANGED <<rows, made>>

(* decodeJSON and validateGrant; a revocation has no body.  An identifier  *)
(* brought to an upsert is one that was seen.                              *)
Start(o) ==
    /\ pc[o] = "idle"
    /\ \E q \in Request :
          /\ q.kind = "upsert" /\ q.id # Unset => rows[q.id] # NoRow
          /\ req' = [req EXCEPT ![o] = q]
          /\ IF q.kind = "revoke" \/ ValidGrant(q.for)
             THEN Goto(o, "write")
             ELSE Answer(o, "invalid")
    /\ UNCHANGED <<rows, enabled, made, revived>>

(* INSERT ... ON DUPLICATE KEY UPDATE: a grant for the same subject, even  *)
(* a revoked one, is taken over under its own identifier, and a grant      *)
(* named by its identifier keeps its own subject.                          *)
UpsertWrite(o) ==
    LET holder == HolderOf(req[o].for)
        id == IF req[o].id # Unset THEN req[o].id
              ELSE IF holder = {} THEN o ELSE CHOOSE g \in holder : TRUE
        for == IF rows[id] = NoRow THEN req[o].for ELSE rows[id].for
    IN /\ pc[o] = "write" /\ req[o].kind = "upsert"
       /\ Written(o, [rows EXCEPT ![id] = [live |-> TRUE, author |-> o, for |-> for]],
                  Goto(o, "readback"))
       /\ revived' = [p \in Op |-> revived[p] \/ req[p].id = id]
       /\ UNCHANGED <<enabled, req>>

(* Mutant: an edit writes a revoked grant as well. *)
AnyRow(g) == rows[g] # NoRow

(* WHERE id=? AND revoked_at IS NULL. *)
InEffect(g) == rows[g].live

(* The number of rows is not looked at.  A grant cannot be given the       *)
(* subject of another one.                                                 *)
EditWrite(o) ==
    LET g == req[o].id
        others == HolderOf(req[o].for) \ {g}
    IN /\ pc[o] = "write" /\ req[o].kind = "edit"
       /\ IF ~InEffect(g)
          THEN Unwritten /\ Goto(o, "readback")
          ELSE IF others # {}
          THEN Unwritten /\ Answer(o, "refused")
          ELSE Written(o, [rows EXCEPT ![g] = [live |-> TRUE, author |-> o,
                                               for |-> req[o].for]],
                       Goto(o, "readback"))
       /\ revived' = [revived EXCEPT ![o] = FALSE]
       /\ UNCHANGED <<enabled, req>>

RevokeWrite(o) ==
    /\ pc[o] = "write" /\ req[o].kind = "revoke"
    /\ IF rows[req[o].id].live
       THEN Written(o, [rows EXCEPT ![req[o].id].live = FALSE], Answer(o, "ok"))
       ELSE Unwritten /\ Answer(o, "notfound")
    /\ UNCHANGED <<enabled, req, revived>>

(* An upsert reads its grant back by subject, revoked or not. *)
UpsertFinds(o) == HolderOf(req[o].for) # {}

(* Mutant: an edit reads its grant back though it is revoked. *)
EditFindsAny(o) == rows[req[o].id] # NoRow

EditFinds(o) == rows[req[o].id].live

ReadBack(o) ==
    /\ pc[o] = "readback"
    /\ IF req[o].kind = "upsert"
       THEN Answer(o, IF UpsertFinds(o) THEN "ok" ELSE "refused")
       ELSE Answer(o, IF EditFinds(o) THEN "ok" ELSE "notfound")
    /\ UNCHANGED <<rows, enabled, req, made, revived>>

(* A statement fails, or names a principal or a resource there is not.     *)
(* The caller of an upsert or an edit cannot tell this from a refusal.     *)
StatementFailed(o) ==
    /\ pc[o] \in {"write", "readback"}
    /\ Answer(o, "failed")
    /\ UNCHANGED <<rows, enabled, req, made, revived>>

(* updateResource switches a resource on or off. *)
SwitchResource ==
    /\ \E r \in Resource :
          enabled' = IF r \in enabled THEN enabled \ {r} ELSE enabled \cup {r}
    /\ UNCHANGED <<rows, pc, req, reply, made, revived>>

Next ==
    \/ \E o \in Op :
          \/ Start(o)
          \/ UpsertWrite(o)
          \/ EditWrite(o)
          \/ RevokeWrite(o)
          \/ ReadBack(o)
          \/ StatementFailed(o)
    \/ SwitchResource

Spec == Init /\ [][Next]_vars

-----------------------------------------------------------------------------
(* What principals are told.                                               *)

GrantsOn(p, r) ==
    {rows[g].for.action : g \in
        {g \in Id : /\ rows[g].live
                    /\ rows[g].for.principal = p
                    /\ rows[g].for.resource = r}}

(* Terms are left out: what is granted depends on the actions alone. *)
EffectiveGrants(p, r) ==
    SetToSeq({[action |-> a, requireReason |-> FALSE, rowLimit |-> Unset,
               timeout |-> Unset] : a \in GrantsOn(p, r)})

(* What testAuthorization says of an active principal. *)
TestAuthorization(p, r, a) ==
    r \in enabled /\ Evaluate(EffectiveGrants(p, r), a).allowed

(* list_databases of the MCP handler. *)
VisibleResources(p) == {r \in enabled : GrantsOn(p, r) # {}}

(* Mutant: the page shows the grants on disabled resources too. *)
AccessToDisabled(p) ==
    UNION {{[resource |-> r, action |-> a] : a \in GrantsOn(p, r)} :
              r \in Resource}

(* The page of a user's own access: resources with the actions granted. *)
ListPrincipalAccess(p) ==
    UNION {{[resource |-> r, action |-> a] : a \in GrantsOn(p, r)} :
              r \in enabled}

-----------------------------------------------------------------------------
(* Correctness.                                                            *)

(* "after the revocation the account loses the access at once"             *)
(* (web/src/features/admin.tsx:544): nothing but an upsert for the same    *)
(* subject, or one that names this very grant, gives it back, in           *)
(* particular no edit that was under way, of this grant or of another one. *)
RevocationHolds ==
    [][\A s \in Subject, g \in Id :
          g \in HolderOf(s) /\ ~rows[g].live
          /\ (\E h \in HolderOf(s)' : rows'[h].live)
          => \E o \in Op : /\ pc[o] = "write" /\ pc'[o] # "write"
                           /\ req[o].kind = "upsert"
                           /\ req[o].for = s \/ req[o].id = g]_vars

(* UpdateGrant does not look at the number of rows it changed.  Still an   *)
(* edit answered with 200 was made, unless the grant was granted anew      *)
(* between its UPDATE and the SELECT that follows.  And a request refused  *)
(* although no statement of it failed has left no grant in effect, unless  *)
(* it is an upsert that named another subject's grant.                     *)
RepliesAreTrue ==
    \A o \in Op :
        /\ req[o].kind = "edit" /\ reply[o] = "ok" /\ ~made[o]
              => revived[o]
        /\ reply[o] \in {"invalid", "notfound", "refused"}
           /\ (req[o].kind = "upsert" => req[o].id = Unset)
              => \A g \in Id : ~(rows[g].live /\ rows[g].author = o)

(* The resources a principal is shown are those whose schema it may read,  *)
(* and the actions shown with them are exactly those a test of the         *)
(* authorization, and with it a query, is allowed: three statements of the *)
(* store and a loop in the program that must agree.                        *)
ShownIsUsable ==
    \A p \in Principal, r \in Resource :
        /\ r \in VisibleResources(p) <=> TestAuthorization(p, r, "schema_read")
        /\ \A a \in Action : TestAuthorization(p, r, a) <=>
              \E shown \in ListPrincipalAccess(p) :
                  shown.resource = r /\ Includes(shown.action, a)
=============================================================================
