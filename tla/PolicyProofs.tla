---------------------------- MODULE PolicyProofs ----------------------------
(***************************************************************************)
(* Proofs about what the policy says: Grants, Authz and Statements.        *)
(*                                                                         *)
(* Grants, for any sets of requests, earlier grants, principals and        *)
(* resources: IInv is inductive; a lemma for each action shows that it     *)
(* keeps every conjunct.                                                   *)
(*                                                                         *)
(* The decisions of Authz, for grants of any number and kind: what         *)
(* Evaluate returns, the limits that follow, and that the lists of Grants  *)
(* show what Evaluate allows.                                              *)
(*                                                                         *)
(* Statements, for trees of any depth, any tables, rules and grants: what  *)
(* a node contributes is followed from the first node of a tree to the     *)
(* last by the least-number principle, as its definition follows it.       *)
(***************************************************************************)
EXTENDS Grants, Statements, Integers, WellFoundedInduction, FiniteSetTheorems, TLAPS

(* The unique key of the table: a subject has one grant at most. *)
OneGrantEach ==
    \A g, h \in Id :
        rows[g] # NoRow /\ rows[h] # NoRow /\ rows[g].for = rows[h].for
        => g = h

(* A request has its body, which was validated, once it has started; it    *)
(* brings its own identifier to the table by its write and not before, and *)
(* names, as the identifier of an upsert, a grant that there is.           *)
RequestShape ==
    \A o \in Op :
        /\ pc[o] # "idle" => req[o] \in Request
        /\ pc[o] = "idle" => req[o] = NoRequest
        /\ pc[o] # "done" <=> reply[o] = "none"
        /\ pc[o] \in {"idle", "write"} => rows[o] = NoRow /\ ~made[o]
        /\ pc[o] = "write" => req[o].kind = "revoke" \/ ValidGrant(req[o].for)
        /\ pc[o] = "write" /\ req[o].kind = "upsert" /\ req[o].id # Unset
             => rows[req[o].id] # NoRow
        /\ pc[o] = "readback" => req[o].kind \in {"upsert", "edit"}
        /\ pc[o] = "readback" /\ req[o].kind = "upsert" => made[o]

(* A grant in effect carries the terms of the request that wrote it last,  *)
(* and is still the one that request asked for.                            *)
AuthorShape ==
    \A o \in Op, g \in Id :
        rows[g].live /\ rows[g].author = o =>
            /\ pc[o] \in {"readback", "done"}
            /\ req[o].kind \in {"upsert", "edit"}
            /\ reply[o] \notin {"invalid", "notfound"}
            /\ req[o].kind = "edit" => g = req[o].id
            /\ req[o].kind = "upsert" /\ req[o].id = Unset
                 => rows[g].for = req[o].for

(* An edit that changed nothing finds its grant only if it was revived. *)
EditShape ==
    \A o \in Op :
        pc[o] = "readback" /\ req[o].kind = "edit" /\ ~made[o]
        /\ rows[req[o].id].live => revived[o]

IInv ==
    /\ TypeOK
    /\ OneGrantEach
    /\ RequestShape
    /\ AuthorShape
    /\ EditShape
    /\ RepliesAreTrue

-----------------------------------------------------------------------------
(* What a row and a request are made of. *)

LEMMA RowFacts ==
    /\ NoRow.live = FALSE /\ NoRow.author = Unset
    /\ \A row \in Row : /\ row # NoRow
                        /\ row.live \in BOOLEAN
                        /\ row.author \in Id
                        /\ row.for \in {s \in Subject : ParsesAs(s.action)}
    /\ \A l \in BOOLEAN, a \in Id, s \in {t \in Subject : ParsesAs(t.action)} :
           [live |-> l, author |-> a, for |-> s] \in Row
BY GrantsAssumption DEF NoRow, Row, Id

LEMMA RequestFacts ==
    /\ NoRequest.kind = "none"
    /\ \A q \in Request :
          /\ q # NoRequest
          /\ q.kind \in {"upsert", "edit", "revoke"}
          /\ q.kind = "upsert" => q.for \in Subject /\ q.id \in {Unset} \cup Id
          /\ q.kind = "edit" => q.for \in Subject /\ q.id \in Id
          /\ q.kind = "revoke" => q.id \in Id
BY DEF NoRequest, Request

LEMMA Initially == Init => IInv
<1> SUFFICES ASSUME Init PROVE IInv
    OBVIOUS
<1> USE DEF Init
<1>1. TypeOK
      BY RowFacts DEF TypeOK
<1>2. OneGrantEach
      BY RowFacts DEF OneGrantEach, HolderOf
<1>3. RequestShape
      BY RowFacts, RequestFacts, GrantsAssumption DEF RequestShape, Id
<1>4. AuthorShape
      BY RowFacts, GrantsAssumption DEF AuthorShape, Id
<1>5. EditShape
      BY DEF EditShape
<1>6. RepliesAreTrue
      BY DEF RepliesAreTrue
<1> QED BY <1>1, <1>2, <1>3, <1>4, <1>5, <1>6 DEF IInv

(* A request that starts writes nothing. *)
LEMMA StartKeeps ==
    ASSUME IInv, NEW o \in Op, Start(o)
    PROVE  IInv'
<1> PICK q \in Request :
        /\ q.kind = "upsert" /\ q.id # Unset => rows[q.id] # NoRow
        /\ req' = [req EXCEPT ![o] = q]
        /\ IF q.kind = "revoke" \/ ValidGrant(q.for)
           THEN Goto(o, "write")
           ELSE Answer(o, "invalid")
    BY DEF Start
<1> USE DEF IInv, Goto, Answer
<1>0. pc[o] = "idle" /\ UNCHANGED <<rows, enabled, made, revived>>
      BY DEF Start
<1>1. TypeOK'
      BY <1>0 DEF TypeOK
<1>2. OneGrantEach'
      BY <1>0 DEF OneGrantEach
<1>3. RequestShape'
      BY <1>0, RequestFacts DEF RequestShape, TypeOK
<1>4. AuthorShape'
      BY <1>0 DEF AuthorShape, TypeOK
<1>5. EditShape'
      BY <1>0 DEF EditShape, TypeOK
<1>6. RepliesAreTrue'
  <2> SUFFICES ASSUME NEW p \in Op
               PROVE  /\ req'[p].kind = "edit" /\ reply'[p] = "ok" /\ ~made'[p]
                           => revived'[p]
                      /\ reply'[p] \in {"invalid", "notfound", "refused"}
                         /\ (req'[p].kind = "upsert" => req'[p].id = Unset)
                           => \A g \in Id : ~(rows'[g].live /\ rows'[g].author = p)
      BY DEF RepliesAreTrue
  <2>1. CASE p = o
        BY <1>0, <2>1 DEF AuthorShape, RequestShape, TypeOK
  <2>2. CASE p # o
    <3>1. UNCHANGED <<req[p], reply[p], made[p], revived[p], rows>>
          BY <1>0, <2>2 DEF TypeOK
    <3> QED BY <3>1 DEF RepliesAreTrue
  <2> QED BY <2>1, <2>2
<1> QED BY <1>1, <1>2, <1>3, <1>4, <1>5, <1>6

(* The statements that write a whole row, one of its own subject.  What an *)
(* upsert and an edit have in common is all that the invariant needs.      *)
LEMMA WriteKeeps ==
    ASSUME IInv, NEW o \in Op, NEW id \in Id, NEW s \in Subject, ValidGrant(s),
           pc[o] = "write", req[o].kind \in {"upsert", "edit"},
           Goto(o, "readback") \/ Answer(o, "failed"),
           rows' = [rows EXCEPT ![id] = [live |-> TRUE, author |-> o, for |-> s]],
           made' = [made EXCEPT ![o] = TRUE],
           UNCHANGED <<enabled, req>>,
           \A h \in HolderOf(s) : h = id,
           rows[id] = NoRow => id = o,
           req[o].kind = "edit" => id = req[o].id,
           req[o].kind = "upsert" /\ req[o].id = Unset => s = req[o].for,
           revived' \in [Op -> BOOLEAN],
           \A p \in Op \ {o} : revived[p] => revived'[p],
           \A p \in Op \ {o} :
               req[p].kind = "edit" /\ req[p].id = id /\ ~rows[id].live => revived'[p]
    PROVE  IInv'
<1> DEFINE new == [live |-> TRUE, author |-> o, for |-> s]
<1> USE DEF IInv
<1>1. /\ new \in Row /\ new # NoRow /\ new.live /\ new.author = o /\ new.for = s
      /\ rows'[id] = new
      /\ \A g \in Id \ {id} : rows'[g] = rows[g]
      BY RowFacts DEF TypeOK, ValidGrant, Id
<1>2. /\ pc'[o] \in {"readback", "done"} /\ made'[o]
      /\ reply'[o] = IF pc'[o] = "done" THEN "failed" ELSE "none"
      /\ \A p \in Op \ {o} : pc'[p] = pc[p] /\ reply'[p] = reply[p] /\ made'[p] = made[p]
      BY DEF Goto, Answer, TypeOK, RequestShape
<1> HIDE DEF new
<1>3. TypeOK'
  <2>1. rows' \in [Id -> {NoRow} \cup Row]
        BY <1>1 DEF TypeOK, new
  <2>2. pc' \in [Op -> {"idle", "write", "readback", "done"}]
        BY DEF TypeOK, Goto, Answer
  <2>3. reply' \in [Op -> {"none", "ok", "invalid", "notfound", "refused", "failed"}]
        BY DEF TypeOK, Goto, Answer
  <2> QED BY <2>1, <2>2, <2>3 DEF TypeOK
<1>4. OneGrantEach'
      BY <1>1 DEF OneGrantEach, HolderOf
<1>5. RequestShape'
  <2> SUFFICES ASSUME NEW p \in Op
               PROVE  /\ pc'[p] # "idle" => req[p] \in Request
                      /\ pc'[p] = "idle" => req[p] = NoRequest
                      /\ pc'[p] # "done" <=> reply'[p] = "none"
                      /\ pc'[p] \in {"idle", "write"} => rows'[p] = NoRow /\ ~made'[p]
                      /\ pc'[p] = "write" => req[p].kind = "revoke" \/ ValidGrant(req[p].for)
                      /\ pc'[p] = "write" /\ req[p].kind = "upsert" /\ req[p].id # Unset
                           => rows'[req[p].id] # NoRow
                      /\ pc'[p] = "readback" => req[p].kind \in {"upsert", "edit"}
                      /\ pc'[p] = "readback" /\ req[p].kind = "upsert" => made'[p]
      BY DEF RequestShape
  <2>1. CASE p = o
    <3>1. req[o] \in Request /\ req[o].kind \in {"upsert", "edit"}
          BY DEF RequestShape
    <3>2. pc'[o] = "done" <=> reply'[o] = "failed"
          BY <1>2
    <3> QED BY <1>2, <2>1, <3>1, <3>2
  <2>2. CASE p # o
    <3>1. p \in Id /\ (pc[p] = "write" /\ req[p].kind = "upsert" => req[p].id \in {Unset} \cup Id)
          BY RequestFacts DEF RequestShape, Id
    <3>2. pc[p] \in {"idle", "write"} => p # id
          BY <2>2 DEF RequestShape
    <3>3. pc'[p] \in {"idle", "write"} => rows'[p] = NoRow
          BY <1>1, <1>2, <2>2, <3>1, <3>2 DEF RequestShape
    <3>4. pc'[p] = "write" /\ req[p].kind = "upsert" /\ req[p].id # Unset
            => rows'[req[p].id] # NoRow
      <4> SUFFICES ASSUME pc[p] = "write", req[p].kind = "upsert", req[p].id # Unset
                   PROVE  rows'[req[p].id] # NoRow
          BY <1>2, <2>2
      <4>1. req[p].id \in Id
            BY <3>1
      <4>2. rows[req[p].id] # NoRow
            BY DEF RequestShape
      <4> QED BY <1>1, <4>1, <4>2
    <3>5. pc'[p] = pc[p] /\ reply'[p] = reply[p] /\ made'[p] = made[p]
          BY <1>2, <2>2
    <3> QED BY <3>3, <3>4, <3>5 DEF RequestShape
  <2> QED BY <2>1, <2>2
<1>6. AuthorShape'
  <2> SUFFICES ASSUME NEW p \in Op, NEW g \in Id, rows'[g].live, rows'[g].author = p
               PROVE  /\ pc'[p] \in {"readback", "done"}
                      /\ req[p].kind \in {"upsert", "edit"}
                      /\ reply'[p] \notin {"invalid", "notfound"}
                      /\ req[p].kind = "edit" => g = req[p].id
                      /\ req[p].kind = "upsert" /\ req[p].id = Unset
                           => rows'[g].for = req[p].for
      BY DEF AuthorShape
  <2>1. CASE g = id
        BY <1>1, <1>2, <2>1
  <2>2. CASE g # id
        BY <1>1, <1>2, <2>2 DEF AuthorShape
  <2> QED BY <2>1, <2>2
<1>7. EditShape'
  <2> SUFFICES ASSUME NEW p \in Op, pc'[p] = "readback", req[p].kind = "edit",
                      ~made'[p], rows'[req[p].id].live
               PROVE  revived'[p]
      BY DEF EditShape
  <2>1. p # o /\ pc[p] = "readback" /\ ~made[p] /\ req[p].id \in Id
        BY <1>2, RequestFacts DEF RequestShape
  <2> QED BY <1>1, <2>1 DEF EditShape
<1>8. RepliesAreTrue'
  <2> SUFFICES ASSUME NEW p \in Op
               PROVE  /\ req[p].kind = "edit" /\ reply'[p] = "ok" /\ ~made'[p]
                           => revived'[p]
                      /\ reply'[p] \in {"invalid", "notfound", "refused"}
                         /\ (req[p].kind = "upsert" => req[p].id = Unset)
                           => \A g \in Id : ~(rows'[g].live /\ rows'[g].author = p)
      BY DEF RepliesAreTrue
  <2>1. CASE p = o
        BY <1>2, <2>1
  <2>2. CASE p # o
        BY <1>1, <1>2, <2>2 DEF RepliesAreTrue
  <2> QED BY <2>1, <2>2
<1> QED BY <1>3, <1>4, <1>5, <1>6, <1>7, <1>8

LEMMA UpsertKeeps ==
    ASSUME IInv, NEW o \in Op, UpsertWrite(o)
    PROVE  IInv'
<1> DEFINE holder == HolderOf(req[o].for)
           id == IF req[o].id # Unset THEN req[o].id
                 ELSE IF holder = {} THEN o ELSE CHOOSE g \in holder : TRUE
           s == IF rows[id] = NoRow THEN req[o].for ELSE rows[id].for
<1> USE DEF IInv
<1>1. /\ pc[o] = "write" /\ req[o].kind = "upsert"
      /\ rows' = [rows EXCEPT ![id] = [live |-> TRUE, author |-> o, for |-> s]]
      /\ made' = [made EXCEPT ![o] = TRUE]
      /\ Goto(o, "readback") \/ Answer(o, "failed")
      /\ revived' = [p \in Op |-> revived[p] \/ req[p].id = id]
      /\ UNCHANGED <<enabled, req>>
      BY DEF UpsertWrite, Written
<1>2. /\ req[o].for \in Subject /\ ValidGrant(req[o].for)
      /\ req[o].id \in {Unset} \cup Id
      BY <1>1, RequestFacts DEF RequestShape
<1>3. CASE req[o].id # Unset
  <2>1. id = req[o].id /\ id \in Id /\ rows[id] # NoRow
        BY <1>1, <1>2, <1>3 DEF RequestShape
  <2>2. s = rows[id].for /\ s \in Subject /\ ValidGrant(s)
        BY <2>1, RowFacts DEF TypeOK, ValidGrant
  <2>3. \A h \in HolderOf(s) : h = id
        BY <2>1, <2>2 DEF OneGrantEach, HolderOf
  <2> HIDE DEF id, s
  <2> QED BY <1>1, <1>3, <2>1, <2>2, <2>3, WriteKeeps DEF TypeOK
<1>4. CASE req[o].id = Unset /\ holder = {}
  <2>1. id = o /\ id \in Id /\ rows[id] = NoRow /\ s = req[o].for
        BY <1>1, <1>4 DEF RequestShape, Id
  <2>2. HolderOf(s) = {}
        BY <1>4, <2>1
  <2> HIDE DEF id, s
  <2> QED BY <1>1, <1>2, <2>1, <2>2, WriteKeeps DEF TypeOK
<1>5. CASE req[o].id = Unset /\ holder # {}
  <2>1. id \in holder
        BY <1>5
  <2>2. id \in Id /\ rows[id] # NoRow /\ rows[id].for = req[o].for
        BY <2>1 DEF HolderOf
  <2>3. s = req[o].for
        BY <2>2
  <2>4. \A h \in HolderOf(s) : h = id
        BY <2>2, <2>3 DEF OneGrantEach, HolderOf
  <2> HIDE DEF id, s, holder
  <2> QED BY <1>1, <1>2, <2>2, <2>3, <2>4, WriteKeeps DEF TypeOK
<1> QED BY <1>3, <1>4, <1>5

(* A step that writes no row and takes a request on from its statement. *)
LEMMA UnwrittenKeeps ==
    ASSUME IInv, NEW o \in Op, pc[o] \in {"write", "readback"},
           NEW what \in {"ok", "notfound", "refused", "failed"},
           Answer(o, what),
           Unwritten, UNCHANGED <<enabled, req>>,
           revived' \in [Op -> BOOLEAN],
           \A p \in Op \ {o} : revived'[p] = revived[p],
           req[o].kind = "edit" /\ what = "ok" /\ ~made[o] => revived'[o],
           what \in {"notfound", "refused"}
               /\ (req[o].kind = "upsert" => req[o].id = Unset)
             => \A g \in Id : ~(rows[g].live /\ rows[g].author = o),
           what = "notfound" => req[o].kind # "upsert"
    PROVE  IInv'
<1> USE DEF IInv, Unwritten
<1>1. /\ pc'[o] = "done" /\ reply'[o] = what
      /\ \A p \in Op \ {o} : pc'[p] = pc[p] /\ reply'[p] = reply[p]
      /\ UNCHANGED <<rows, made>>
      BY DEF Answer, TypeOK
<1>2. TypeOK'
      BY <1>1 DEF TypeOK, Answer
<1>3. OneGrantEach'
      BY <1>1 DEF OneGrantEach
<1>4. RequestShape'
      BY <1>1 DEF RequestShape
<1>5. AuthorShape'
  <2> SUFFICES ASSUME NEW p \in Op, NEW g \in Id, rows[g].live, rows[g].author = p
               PROVE  /\ pc'[p] \in {"readback", "done"}
                      /\ reply'[p] \notin {"invalid", "notfound"}
      BY <1>1 DEF AuthorShape
  <2> QED BY <1>1 DEF AuthorShape
<1>6. EditShape'
      BY <1>1 DEF EditShape
<1>7. RepliesAreTrue'
      BY <1>1 DEF RepliesAreTrue
<1> QED BY <1>2, <1>3, <1>4, <1>5, <1>6, <1>7

LEMMA EditKeeps ==
    ASSUME IInv, NEW o \in Op, EditWrite(o)
    PROVE  IInv'
<1> DEFINE g == req[o].id
           others == HolderOf(req[o].for) \ {g}
<1> USE DEF IInv
<1>1. /\ pc[o] = "write" /\ req[o].kind = "edit"
      /\ revived' = [revived EXCEPT ![o] = FALSE]
      /\ UNCHANGED <<enabled, req>>
      BY DEF EditWrite
<1>2. req[o].for \in Subject /\ ValidGrant(req[o].for) /\ g \in Id
      BY <1>1, RequestFacts DEF RequestShape
<1>3. \A h \in Id : ~(rows[h].live /\ rows[h].author = o)
      BY <1>1 DEF AuthorShape
<1>4. CASE ~rows[g].live
  <2>1. Unwritten /\ Goto(o, "readback")
        BY <1>4 DEF EditWrite, InEffect
  <2>2. /\ pc'[o] = "readback" /\ reply'[o] = reply[o]
        /\ \A p \in Op \ {o} : pc'[p] = pc[p] /\ revived'[p] = revived[p]
        /\ UNCHANGED <<rows, made, reply>>
        BY <1>1, <2>1 DEF Goto, Unwritten, TypeOK
  <2>3. TypeOK'
        BY <1>1, <2>1 DEF TypeOK, Goto, Unwritten
  <2>4. OneGrantEach'
        BY <2>2 DEF OneGrantEach
  <2>5. RequestShape'
        BY <1>1, <2>2 DEF RequestShape
  <2>6. AuthorShape'
        BY <1>1, <1>3, <2>2 DEF AuthorShape
  <2>7. EditShape'
        BY <1>1, <1>4, <2>2 DEF EditShape
  <2>8. RepliesAreTrue'
        BY <1>1, <2>2 DEF RepliesAreTrue, RequestShape
  <2> QED BY <2>3, <2>4, <2>5, <2>6, <2>7, <2>8
<1>5. CASE rows[g].live /\ others # {}
  <2>1. Unwritten /\ Answer(o, "refused")
        BY <1>5 DEF EditWrite, InEffect
  <2> QED BY <1>1, <1>3, <2>1, UnwrittenKeeps DEF TypeOK
<1>6. CASE rows[g].live /\ others = {}
  <2>1. /\ rows' = [rows EXCEPT ![g] = [live |-> TRUE, author |-> o, for |-> req[o].for]]
        /\ made' = [made EXCEPT ![o] = TRUE]
        /\ Goto(o, "readback") \/ Answer(o, "failed")
        BY <1>6 DEF EditWrite, InEffect, Written
  <2>2. rows[g] # NoRow
        BY <1>6, RowFacts
  <2>3. \A h \in HolderOf(req[o].for) : h = g
        BY <1>6
  <2> HIDE DEF others
  <2> QED BY <1>1, <1>2, <1>6, <2>1, <2>2, <2>3, WriteKeeps DEF TypeOK
<1> QED BY <1>4, <1>5, <1>6

LEMMA RevokeKeeps ==
    ASSUME IInv, NEW o \in Op, RevokeWrite(o)
    PROVE  IInv'
<1> DEFINE g == req[o].id
<1> USE DEF IInv
<1>1. /\ pc[o] = "write" /\ req[o].kind = "revoke"
      /\ UNCHANGED <<enabled, req, revived>>
      BY DEF RevokeWrite
<1>2. g \in Id /\ \A h \in Id : ~(rows[h].live /\ rows[h].author = o)
      BY <1>1, RequestFacts DEF RequestShape, AuthorShape
<1>3. CASE ~rows[g].live
  <2>1. Unwritten /\ Answer(o, "notfound")
        BY <1>3 DEF RevokeWrite
  <2> QED BY <1>1, <1>2, <2>1, UnwrittenKeeps DEF TypeOK
<1>4. CASE rows[g].live
  <2>1. PICK what \in {"ok", "failed"} :
           /\ rows' = [rows EXCEPT ![g].live = FALSE]
           /\ made' = [made EXCEPT ![o] = TRUE]
           /\ Answer(o, what)
        BY <1>4 DEF RevokeWrite, Written
  <2>2. /\ rows[g] \in Row /\ rows'[g] \in Row /\ rows'[g] # NoRow
        /\ ~rows'[g].live /\ rows'[g].for = rows[g].for
        /\ \A h \in Id \ {g} : rows'[h] = rows[h]
    <3>1. rows[g] \in Row
          BY <1>2, <1>4, RowFacts DEF TypeOK
    <3>2. rows'[g] = [rows[g] EXCEPT !.live = FALSE]
          BY <1>2, <2>1 DEF TypeOK
    <3>3. rows'[g] \in Row /\ ~rows'[g].live /\ rows'[g].for = rows[g].for
          BY <3>1, <3>2 DEF Row
    <3> QED BY <1>2, <2>1, <3>1, <3>3, RowFacts DEF TypeOK
  <2>3. /\ pc'[o] = "done" /\ reply'[o] = what
        /\ \A p \in Op \ {o} : pc'[p] = pc[p] /\ reply'[p] = reply[p] /\ made'[p] = made[p]
        BY <2>1 DEF Answer, TypeOK
  <2>4. TypeOK'
    <3>1. rows' \in [Id -> {NoRow} \cup Row]
          BY <1>2, <2>1, <2>2 DEF TypeOK
    <3> QED BY <1>1, <2>1, <3>1 DEF TypeOK, Answer
  <2>5. OneGrantEach'
        BY <2>2, RowFacts DEF OneGrantEach
  <2>6. RequestShape'
    <3> SUFFICES ASSUME NEW p \in Op, p # o
                 PROVE  /\ pc[p] \in {"idle", "write"} => rows'[p] = NoRow
                        /\ pc[p] = "write" /\ req[p].kind = "upsert" /\ req[p].id # Unset
                             => rows'[req[p].id] # NoRow
        BY <1>1, <2>3 DEF RequestShape
    <3>1. rows[g] # NoRow
          BY <2>2, RowFacts
    <3>2. pc[p] \in {"idle", "write"} => rows'[p] = NoRow
          BY <2>2, <3>1 DEF RequestShape, Id
    <3>3. ASSUME pc[p] = "write", req[p].kind = "upsert", req[p].id # Unset
          PROVE  rows'[req[p].id] # NoRow
      <4>1. req[p].id \in Id /\ rows[req[p].id] # NoRow
            BY <3>3, RequestFacts DEF RequestShape
      <4> QED BY <2>2, <4>1
    <3> QED BY <3>2, <3>3
  <2>7. AuthorShape'
        BY <1>1, <1>2, <2>2, <2>3 DEF AuthorShape
  <2>8. EditShape'
    <3> SUFFICES ASSUME NEW p \in Op, pc'[p] = "readback", req[p].kind = "edit",
                        ~made'[p], rows'[req[p].id].live
                 PROVE  revived[p]
        BY <1>1 DEF EditShape
    <3>1. p # o /\ pc[p] = "readback" /\ ~made[p] /\ req[p].id \in Id
          BY <2>3, RequestFacts DEF RequestShape
    <3> QED BY <2>2, <3>1 DEF EditShape
  <2>9. RepliesAreTrue'
        BY <1>1, <1>2, <2>2, <2>3 DEF RepliesAreTrue
  <2> QED BY <2>4, <2>5, <2>6, <2>7, <2>8, <2>9
<1> QED BY <1>3, <1>4

LEMMA ReadBackKeeps ==
    ASSUME IInv, NEW o \in Op, ReadBack(o)
    PROVE  IInv'
<1> USE DEF IInv
<1>1. /\ pc[o] = "readback" /\ req[o].kind \in {"upsert", "edit"}
      /\ UNCHANGED <<rows, enabled, req, made, revived>>
      BY DEF ReadBack, RequestShape
<1>2. CASE req[o].kind = "upsert"
  <2>1. PICK what \in {"ok", "refused"} :
           Answer(o, what) /\ (what = "refused" => HolderOf(req[o].for) = {})
        BY <1>2 DEF ReadBack, UpsertFinds
  <2>2. what = "refused" /\ req[o].id = Unset
          => \A g \in Id : ~(rows[g].live /\ rows[g].author = o)
        BY <1>2, <2>1, RowFacts DEF AuthorShape, HolderOf
  <2> QED BY <1>1, <1>2, <2>1, <2>2, UnwrittenKeeps DEF Unwritten, TypeOK
<1>3. CASE req[o].kind = "edit"
  <2>1. PICK what \in {"ok", "notfound"} :
           Answer(o, what) /\ (what = "ok" <=> rows[req[o].id].live)
        BY <1>3 DEF ReadBack, EditFinds
  <2>2. what = "ok" /\ ~made[o] => revived[o]
        BY <1>1, <1>3, <2>1 DEF EditShape
  <2>3. what = "notfound" => \A g \in Id : ~(rows[g].live /\ rows[g].author = o)
        BY <1>3, <2>1 DEF AuthorShape
  <2> QED BY <1>1, <1>3, <2>1, <2>2, <2>3, UnwrittenKeeps DEF Unwritten, TypeOK
<1> QED BY <1>1, <1>2, <1>3

LEMMA SwitchKeeps == ASSUME IInv, SwitchResource PROVE IInv'
BY DEF IInv, SwitchResource, TypeOK, OneGrantEach, RequestShape, AuthorShape,
       EditShape, RepliesAreTrue

LEMMA StepKeeps == IInv /\ [Next]_vars => IInv'
<1> SUFFICES ASSUME IInv, [Next]_vars PROVE IInv'
    OBVIOUS
<1>1. ASSUME NEW o \in Op, StatementFailed(o) PROVE IInv'
      BY <1>1, UnwrittenKeeps DEF StatementFailed, Unwritten, IInv, TypeOK
<1>2. CASE UNCHANGED vars
      BY <1>2 DEF vars, IInv, TypeOK, OneGrantEach, RequestShape, AuthorShape,
                  EditShape, RepliesAreTrue
<1> QED BY <1>1, <1>2, StartKeeps, UpsertKeeps, EditKeeps, RevokeKeeps,
           ReadBackKeeps, SwitchKeeps DEF Next

(* The inductive invariant of the administration of grants: any number of  *)
(* requests, grants, principals and resources.                             *)
THEOREM GrantsInvariance == Spec => []IInv
BY Initially, StepKeeps, PTL DEF Spec

(* What requests are answered is true: UpdateGrant need not look at the    *)
(* number of rows it changed (store.go, admin.go).                         *)
THEOREM RepliesTrue == Spec => []RepliesAreTrue
<1>1. IInv => RepliesAreTrue
      BY DEF IInv
<1> QED BY <1>1, GrantsInvariance, PTL

-----------------------------------------------------------------------------
(* A step that puts a grant for a subject into effect, whose grant was     *)
(* revoked, is the write of an upsert.                                     *)
LEMMA RevivedByUpsert ==
    ASSUME IInv, [Next]_vars, NEW s \in Subject, NEW g \in Id,
           rows[g] # NoRow, rows[g].for = s, ~rows[g].live,
           NEW h \in Id, rows'[h] # NoRow, rows'[h].for = s, rows'[h].live
    PROVE  \E o \in Op : /\ pc[o] = "write" /\ pc'[o] # "write"
                         /\ req[o].kind = "upsert"
                         /\ req[o].for = s \/ req[o].id = g
<1> USE DEF IInv
<1>1. rows'[h] # rows[h]
      BY DEF OneGrantEach
<1>2. ASSUME NEW o \in Op, UpsertWrite(o)
      PROVE  /\ pc[o] = "write" /\ pc'[o] # "write"
             /\ req[o].kind = "upsert"
             /\ req[o].for = s \/ req[o].id = g
  <2> DEFINE holder == HolderOf(req[o].for)
             id == IF req[o].id # Unset THEN req[o].id
                   ELSE IF holder = {} THEN o ELSE CHOOSE x \in holder : TRUE
             its == IF rows[id] = NoRow THEN req[o].for ELSE rows[id].for
  <2>1. /\ pc[o] = "write" /\ req[o].kind = "upsert"
        /\ rows' = [rows EXCEPT ![id] = [live |-> TRUE, author |-> o, for |-> its]]
        /\ Goto(o, "readback") \/ Answer(o, "failed")
        BY <1>2 DEF UpsertWrite, Written
  <2>2. pc'[o] # "write"
        BY <2>1 DEF Goto, Answer, TypeOK
  <2>3. h = id /\ its = s
        BY <1>1, <2>1 DEF TypeOK
  <2>4. CASE rows[id] = NoRow
        BY <2>1, <2>2, <2>3, <2>4
  <2>5. CASE rows[id] # NoRow
    <3>1. rows[id].for = s /\ id = g
          BY <2>3, <2>5 DEF OneGrantEach
    <3>2. CASE req[o].id # Unset
          BY <2>1, <2>2, <3>1, <3>2
    <3>3. CASE req[o].id = Unset /\ holder = {}
          BY <2>1, <2>5, <3>3 DEF RequestShape
    <3>4. CASE req[o].id = Unset /\ holder # {}
      <4>1. id \in holder
            BY <3>4
      <4>2. rows[id].for = req[o].for
            BY <4>1 DEF HolderOf
      <4> QED BY <2>1, <2>2, <3>1, <4>2
    <3> QED BY <3>2, <3>3, <3>4
  <2> QED BY <2>4, <2>5
<1>3. ASSUME NEW o \in Op, EditWrite(o) PROVE FALSE
  <2> DEFINE e == req[o].id
  <2>1. /\ rows[e].live /\ HolderOf(req[o].for) \ {e} = {}
        /\ rows' = [rows EXCEPT ![e] = [live |-> TRUE, author |-> o, for |-> req[o].for]]
        BY <1>1, <1>3 DEF EditWrite, InEffect, Unwritten, Written
  <2>2. h = e /\ req[o].for = s
        BY <1>1, <2>1 DEF TypeOK
  <2>3. g \in HolderOf(req[o].for)
        BY <2>2 DEF HolderOf
  <2> QED BY <2>1, <2>3
<1>4. ASSUME NEW o \in Op, RevokeWrite(o) PROVE FALSE
  <2> DEFINE e == req[o].id
  <2>1. rows[e].live /\ rows' = [rows EXCEPT ![e].live = FALSE]
        BY <1>1, <1>4 DEF RevokeWrite, Unwritten, Written
  <2>2. h = e
        BY <1>1, <2>1 DEF TypeOK
  <2>3. rows[h] \in Row
        BY <2>1, <2>2, RowFacts DEF TypeOK
  <2> QED BY <2>1, <2>2, <2>3 DEF TypeOK, Row
<1>5. \E o \in Op : UpsertWrite(o) \/ EditWrite(o) \/ RevokeWrite(o)
      BY <1>1 DEF Next, vars, Start, ReadBack, StatementFailed, SwitchResource
<1> QED BY <1>2, <1>3, <1>4, <1>5

(* A revoked grant stays revoked until it is granted anew, whatever edits  *)
(* were under way (store.go: UpsertGrant, UpdateGrant, RevokeGrant).       *)
THEOREM RevocationsHold == Spec => RevocationHolds
<1>1. IInv /\ [Next]_vars =>
        [\A s \in Subject, g \in Id :
            g \in HolderOf(s) /\ ~rows[g].live
            /\ (\E h \in HolderOf(s)' : rows'[h].live)
            => \E o \in Op : /\ pc[o] = "write" /\ pc'[o] # "write"
                             /\ req[o].kind = "upsert"
                             /\ req[o].for = s \/ req[o].id = g]_vars
      BY RevivedByUpsert DEF HolderOf
<1> QED BY <1>1, GrantsInvariance, PTL DEF Spec, RevocationHolds

-----------------------------------------------------------------------------
(* Decisions: Evaluate and the limits, for grants of any number.           *)

(* The least-number principle, from the well-foundedness of < on Nat: it   *)
(* stands in for induction below.                                          *)
LEMMA LeastNumber ==
    \A T \in SUBSET Nat : T # {} => \E m \in T : \A k \in T : m <= k
<1> SUFFICES ASSUME NEW T \in SUBSET Nat, T # {}
             PROVE  \E m \in T : \A k \in T : m <= k
    OBVIOUS
<1> DEFINE R == {ss \in Nat \X Nat : ss[1] < ss[2]}
<1>1. IsWellFoundedOn(R, Nat)
    BY NatLessThanWellFounded DEF OpToRel
<1>2. \A j, k \in Nat : j < k => <<j, k>> \in R
    OBVIOUS
<1> HIDE DEF R
<1>3. PICK m \in T : \A k \in T : <<k, m>> \notin R
    BY <1>1, WFMin
<1>4. ASSUME NEW k \in T
      PROVE  m <= k
  <2>1. m \in Nat /\ k \in Nat
      OBVIOUS
  <2>2. ~(k < m)
    <3> SUFFICES ASSUME k < m
                 PROVE  FALSE
        OBVIOUS
    <3>1. <<k, m>> \in R
        BY <1>2, <2>1, Zenon
    <3> QED BY <3>1, <1>3, Zenon
  <2> QED BY <2>1, <2>2
<1> QED BY <1>4

(* FoldLeft takes the elements of a sequence by the greatest index.        *)
LEMMA MaxIsLast ==
    ASSUME NEW m \in Nat, NEW s \in SUBSET (1 .. m), m \in s
    PROVE  Max(s) = m
<1>1. \A y \in s : m >= y
    OBVIOUS
<1>2. \A x \in s : (\A y \in s : x >= y) => x = m
    OBVIOUS
<1> QED BY <1>1, <1>2 DEF Max

(* The loop of Evaluate: d[k] is the decision after k grants.              *)
Loop(d, n, grants, requested) ==
    /\ d[0] = Deny
    /\ \A k \in 1 .. n : d[k] = Merge(d[k - 1], grants[k], requested)
    /\ Evaluate(grants, requested) = d[n]

(* FoldLeft is that loop.  Its recursive function on the subsets of 1 .. n *)
(* exists because for every m there is one on those of 1 .. m.             *)
LEMMA Folding ==
    ASSUME NEW grants, NEW requested, NEW n \in Nat,
           DOMAIN grants = 1 .. n
    PROVE  \E d : Loop(d, n, grants, requested)
<1> DEFINE Turn(it, s) == IF s = {} THEN Deny
                          ELSE Merge(it[s \ {Max(s)}], grants[Max(s)], requested)
           Fits(it, m) == it = [s \in SUBSET (1 .. m) |-> Turn(it, s)]
           Iter == CHOOSE it : Fits(it, n)
           T == {m \in Nat : ~ \E it : Fits(it, m)}
<1>1. Evaluate(grants, requested) = Iter[1 .. n]
    BY DEF Evaluate, FoldLeft, MapThenFoldSet
<1>2. T = {}
  <2> SUFFICES ASSUME T # {}
               PROVE  FALSE
      OBVIOUS
  <2>1. PICK m \in T : \A k \in T : m <= k
      BY LeastNumber
  <2>2. m # 0
    <3>1. SUBSET (1 .. 0) = {{}}
        OBVIOUS
    <3>2. Fits([s \in SUBSET (1 .. 0) |-> Deny], 0)
        BY <3>1
    <3> QED BY <3>2
  <2>3. m \in Nat /\ m - 1 \in Nat
      BY <2>2
  <2>4. \E g : Fits(g, m - 1)
    <3>1. m - 1 \notin T
      <4> HIDE DEF T
      <4> QED BY <2>1, <2>3
    <3> HIDE DEF Fits
    <3> QED BY <2>3, <3>1
  <2>5. PICK g : Fits(g, m - 1)
      BY <2>4
  <2> DEFINE f == [s \in SUBSET (1 .. m) |->
                     IF m \in s THEN Merge(g[s \ {m}], grants[m], requested)
                                ELSE g[s]]
  <2>6. \A s \in SUBSET (1 .. m) : m \notin s => s \in SUBSET (1 .. (m - 1))
      BY <2>3
  <2>7. ASSUME NEW s \in SUBSET (1 .. m)
        PROVE  f[s] = Turn(f, s)
    <3>1. CASE m \in s
      <4>1. Max(s) = m
          BY <2>3, <3>1, MaxIsLast
      <4>2. s \ {m} \in SUBSET (1 .. m) /\ m \notin s \ {m}
          OBVIOUS
      <4>3. f[s \ {m}] = g[s \ {m}]
          BY <4>2
      <4>4. f[s] = Merge(g[s \ {m}], grants[m], requested)
          BY <3>1
      <4> HIDE DEF f
      <4> QED BY <3>1, <4>1, <4>3, <4>4
    <3>2. CASE m \notin s
      <4> DEFINE r == s \ {Max(s)}
      <4>1. f[s] = g[s]
          BY <3>2
      <4>2. r \in SUBSET (1 .. m) /\ m \notin r
          BY <3>2
      <4>3. f[r] = g[r]
          BY <4>2
      <4>4. g[s] = Turn(g, s)
        <5>1. s \in SUBSET (1 .. (m - 1))
            BY <2>6, <3>2
        <5> HIDE DEF Turn
        <5> QED BY <2>5, <5>1
      <4> HIDE DEF f
      <4> QED BY <4>1, <4>3, <4>4
    <3> QED BY <3>1, <3>2
  <2>8. Fits(f, m)
    <3>1. f = [s \in SUBSET (1 .. m) |-> f[s]]
        OBVIOUS
    <3> HIDE DEF f, Turn
    <3> QED BY <2>7, <3>1
  <2> QED BY <2>1, <2>8
<1>3. Fits(Iter, n)
  <2> HIDE DEF Fits
  <2>1. \E it : Fits(it, n)
      BY <1>2
  <2> QED BY <2>1
<1> HIDE DEF Iter
<1> DEFINE d == [k \in 0 .. n |-> Iter[1 .. k]]
<1>4. d[0] = Deny
  <2>1. 1 .. 0 = {} /\ {} \in SUBSET (1 .. n)
      OBVIOUS
  <2>2. d[0] = Iter[{}]
      BY <2>1
  <2> QED BY <1>3, <2>1, <2>2
<1>5. ASSUME NEW k \in 1 .. n
      PROVE  d[k] = Merge(d[k - 1], grants[k], requested)
  <2>1. /\ 1 .. k \in SUBSET (1 .. n) /\ 1 .. k # {}
        /\ k \in Nat /\ k \in 1 .. k
        /\ 1 .. k \in SUBSET (1 .. k)
        /\ (1 .. k) \ {k} = 1 .. (k - 1)
      OBVIOUS
  <2>2. Max(1 .. k) = k
      BY <2>1, MaxIsLast
  <2>3. Iter[1 .. k] = Turn(Iter, 1 .. k)
    <3> HIDE DEF Turn
    <3> QED BY <1>3, <2>1
  <2>4. d[k] = Iter[1 .. k] /\ d[k - 1] = Iter[1 .. (k - 1)]
      OBVIOUS
  <2> HIDE DEF d
  <2> QED BY <2>1, <2>2, <2>3, <2>4
<1>6. Evaluate(grants, requested) = d[n]
    BY <1>1
<1> QED BY <1>4, <1>5, <1>6 DEF Loop

(* What decisions and grants are made of.                                  *)
OptionalLimit == Nat \cup {Unset}
Decisions ==
    [allowed : BOOLEAN, requireReason : BOOLEAN,
     rowLimit : OptionalLimit, timeout : OptionalLimit]

(* The condition of the loop: other grants are passed over.                *)
Binds(grant, requested) ==
    ParsesAs(grant.action) /\ Includes(grant.action, requested)

(* The smallest limit that is set in S, or Unset if none is.               *)
Tightest(m, S) ==
    \/ m = Unset /\ S \subseteq {Unset}
    \/ m \in S \ {Unset} /\ \A x \in S \ {Unset} : m <= x

(* MinOptional keeps the tightest limit as one more is met.                *)
LEMMA TightestNext ==
    ASSUME NEW S \in SUBSET OptionalLimit, NEW m, NEW x \in OptionalLimit, Tightest(m, S)
    PROVE  Tightest(MinOptional(m, x), S \cup {x}) /\ MinOptional(m, x) \in OptionalLimit
<1> USE UnsetAssumption DEF Tightest, MinOptional, OptionalLimit
<1>1. CASE m = Unset
    BY <1>1
<1>2. CASE m # Unset
  <2>1. m \in Nat /\ m \in S /\ \A y \in S \ {Unset} : m <= y
      BY <1>2
  <2>2. CASE x = Unset
      BY <2>1, <2>2
  <2>3. CASE x # Unset /\ x < m
    <3>1. MinOptional(m, x) = x /\ x \in Nat
        BY <1>2, <2>3
    <3>2. ASSUME NEW y \in (S \cup {x}) \ {Unset}
          PROVE  x <= y
        BY <2>1, <2>3, <3>1
    <3> QED BY <2>3, <3>1, <3>2
  <2>4. CASE x # Unset /\ ~(x < m)
    <3>1. MinOptional(m, x) = m /\ x \in Nat
        BY <1>2, <2>4
    <3>2. ASSUME NEW y \in (S \cup {x}) \ {Unset}
          PROVE  m <= y
        BY <2>1, <2>4, <3>1
    <3> QED BY <1>2, <2>1, <3>1, <3>2
  <2> QED BY <2>2, <2>3, <2>4
<1> QED BY <1>1, <1>2

(* The grants among the first k that bind, by their indices.               *)
BindingUpTo(grants, requested, k) ==
    {i \in 1 .. k : Binds(grants[i], requested)}

(* A decision sums up the grants that bind: the invariant of the loop.     *)
Summed(decision, grants, binding) ==
    /\ decision \in Decisions
    /\ decision.allowed <=> binding # {}
    /\ decision.requireReason <=> \E i \in binding : grants[i].requireReason
    /\ Tightest(decision.rowLimit, {grants[i].rowLimit : i \in binding})
    /\ Tightest(decision.timeout, {grants[i].timeout : i \in binding})

(* The loop starts with no grants ...                                      *)
LEMMA DenySums ==
    ASSUME NEW grants
    PROVE  Summed(Deny, grants, {})
<1>1. Deny \in Decisions
    BY DEF Deny, Decisions, OptionalLimit
<1>2. \A f : {f[i] : i \in {}} \subseteq {Unset}
    OBVIOUS
<1> QED BY <1>1 DEF Summed, Deny, Tightest

(* ... and every turn sums up one more.                                    *)
LEMMA MergeSums ==
    ASSUME NEW n \in Nat, NEW grants, NEW requested, NEW k \in 1 .. n, NEW decision,
           \A i \in 1 .. n : grants[i] \in
              [action : {grants[i].action}, requireReason : BOOLEAN,
               rowLimit : OptionalLimit, timeout : OptionalLimit],
           Summed(decision, grants, BindingUpTo(grants, requested, k - 1))
    PROVE  Summed(Merge(decision, grants[k], requested), grants,
                  BindingUpTo(grants, requested, k))
<1> DEFINE old == BindingUpTo(grants, requested, k - 1)
           new == BindingUpTo(grants, requested, k)
           next == Merge(decision, grants[k], requested)
<1>1. /\ k \in Nat /\ k - 1 \in Nat
      /\ 1 .. k = (1 .. (k - 1)) \cup {k}
      /\ k \notin 1 .. (k - 1)
    OBVIOUS
<1>2. CASE ~Binds(grants[k], requested)
  <2>1. new = old
      BY <1>1, <1>2 DEF BindingUpTo
  <2>2. next = decision
      BY <1>2 DEF Merge, Binds
  <2> QED BY <2>1, <2>2
<1>3. CASE Binds(grants[k], requested)
  <2>1. new = old \cup {k}
      BY <1>1, <1>3 DEF BindingUpTo
  <2>2. old \subseteq 1 .. n
      BY <1>1 DEF BindingUpTo
  <2>3. next = [allowed |-> TRUE,
                requireReason |-> decision.requireReason \/ grants[k].requireReason,
                rowLimit |-> MinOptional(decision.rowLimit, grants[k].rowLimit),
                timeout |-> MinOptional(decision.timeout, grants[k].timeout)]
      BY <1>3 DEF Merge, Binds
  <2>4. /\ grants[k].rowLimit \in OptionalLimit /\ grants[k].timeout \in OptionalLimit
        /\ grants[k].requireReason \in BOOLEAN
      OBVIOUS
  <2> DEFINE Rows(b) == {grants[i].rowLimit : i \in b}
             Times(b) == {grants[i].timeout : i \in b}
  <2>5. /\ Rows(new) = Rows(old) \cup {grants[k].rowLimit}
        /\ Times(new) = Times(old) \cup {grants[k].timeout}
      BY <2>1
  <2>6. Rows(old) \in SUBSET OptionalLimit /\ Times(old) \in SUBSET OptionalLimit
      BY <2>2
  <2>7. /\ Tightest(next.rowLimit, Rows(new)) /\ next.rowLimit \in OptionalLimit
        /\ Tightest(next.timeout, Times(new)) /\ next.timeout \in OptionalLimit
    <3>1. Tightest(decision.rowLimit, Rows(old)) /\ Tightest(decision.timeout, Times(old))
        BY DEF Summed
    <3> HIDE DEF Rows, Times, old, new, next
    <3>2. /\ next.rowLimit = MinOptional(decision.rowLimit, grants[k].rowLimit)
          /\ next.timeout = MinOptional(decision.timeout, grants[k].timeout)
        BY <2>3
    <3>3. /\ Tightest(MinOptional(decision.rowLimit, grants[k].rowLimit), Rows(new))
          /\ MinOptional(decision.rowLimit, grants[k].rowLimit) \in OptionalLimit
        BY <2>4, <2>5, <2>6, <3>1, TightestNext
    <3>4. /\ Tightest(MinOptional(decision.timeout, grants[k].timeout), Times(new))
          /\ MinOptional(decision.timeout, grants[k].timeout) \in OptionalLimit
        BY <2>4, <2>5, <2>6, <3>1, TightestNext
    <3> QED BY <3>2, <3>3, <3>4
  <2>8. next.requireReason <=> \E i \in new : grants[i].requireReason
    <3>1. next.requireReason = (decision.requireReason \/ grants[k].requireReason)
        BY <2>3
    <3>2. decision.requireReason <=> \E i \in old : grants[i].requireReason
        BY DEF Summed
    <3> HIDE DEF old, new, next
    <3> QED BY <2>1, <3>1, <3>2, Zenon
  <2>9. next \in Decisions
    <3>1. (decision.requireReason \/ grants[k].requireReason) \in BOOLEAN
        OBVIOUS
    <3>2. /\ MinOptional(decision.rowLimit, grants[k].rowLimit) \in OptionalLimit
          /\ MinOptional(decision.timeout, grants[k].timeout) \in OptionalLimit
        BY <2>3, <2>7
    <3> HIDE DEF next
    <3> QED BY <2>3, <3>1, <3>2 DEF Decisions
  <2>10. next.allowed <=> new # {}
      BY <2>1, <2>3
  <2> QED BY <2>7, <2>8, <2>9, <2>10 DEF Summed
<1> QED BY <1>2, <1>3

GrantsFor(A) ==
    [action : A, requireReason : BOOLEAN, rowLimit : OptionalLimit, timeout : OptionalLimit]

(* The grants that bind.                                                   *)
Binding(grants, requested) ==
    {i \in DOMAIN grants : Binds(grants[i], requested)}

(* Evaluate sums up the grants that bind, whatever their number and order  *)
(* (internal/authz/policy.go:38-66).                                       *)
THEOREM DecisionIsMostRestrictive ==
    ASSUME NEW A, NEW grants \in Seq(GrantsFor(A)), NEW requested
    PROVE  Summed(Evaluate(grants, requested), grants,
                  Binding(grants, requested))
<1> DEFINE n == Len(grants)
<1>1. n \in Nat /\ DOMAIN grants = 1 .. n
    OBVIOUS
<1>2. \A i \in 1 .. n : grants[i] \in [action : {grants[i].action},
              requireReason : BOOLEAN, rowLimit : OptionalLimit, timeout : OptionalLimit]
  <2>1. \A i \in 1 .. n : grants[i] \in GrantsFor(A)
      OBVIOUS
  <2> QED BY <2>1 DEF GrantsFor
<1> HIDE DEF n
<1>3. PICK d : Loop(d, n, grants, requested)
    BY <1>1, Folding
<1> DEFINE Holds(k) == Summed(d[k], grants, BindingUpTo(grants, requested, k))
           T == {k \in Nat : k <= n /\ ~Holds(k)}
<1>4. T = {}
  <2> SUFFICES ASSUME T # {}
               PROVE  FALSE
      OBVIOUS
  <2>1. PICK m \in T : \A k \in T : m <= k
      BY LeastNumber
  <2>2. m \in Nat /\ m <= n /\ ~Holds(m)
      OBVIOUS
  <2>3. m # 0
    <3>1. BindingUpTo(grants, requested, 0) = {}
        BY DEF BindingUpTo
    <3>2. Holds(0)
        BY <1>3, <3>1, DenySums DEF Loop
    <3> HIDE DEF Holds
    <3> QED BY <2>2, <3>2
  <2>4. m - 1 \in Nat /\ m \in 1 .. n /\ m - 1 <= n /\ ~(m <= m - 1)
      BY <1>1, <2>2, <2>3
  <2>5. Holds(m - 1)
    <3>1. m - 1 \notin T
      <4> HIDE DEF T
      <4> QED BY <2>1, <2>4
    <3> HIDE DEF Holds
    <3> QED BY <2>4, <3>1
  <2>6. Holds(m)
    <3>1. d[m] = Merge(d[m - 1], grants[m], requested)
        BY <1>3, <2>4 DEF Loop
    <3> QED BY <1>1, <1>2, <2>4, <2>5, <3>1, MergeSums
  <2> QED BY <2>2, <2>6
<1>5. Holds(n)
  <2> HIDE DEF Holds
  <2> QED BY <1>1, <1>4
<1>6. BindingUpTo(grants, requested, n) = Binding(grants, requested)
    BY <1>1 DEF BindingUpTo, Binding
<1> QED BY <1>3, <1>5, <1>6 DEF Loop

(* At most as large as the old limit, if there was one.                    *)
Tighter(new, old) ==
    old # Unset => new # Unset /\ new <= old

(* The tightest of more limits is tighter ...                              *)
LEMMA TightestOfMore ==
    ASSUME NEW S \in SUBSET OptionalLimit, NEW SS \in SUBSET S, NEW m, NEW mm,
           Tightest(m, S), Tightest(mm, SS)
    PROVE  Tighter(m, mm)
BY DEF Tighter, Tightest

(* ... and leads to fewer rows and to a shorter timeout.                   *)
LEMMA EffectiveMonotone ==
    ASSUME NEW old \in OptionalLimit, NEW new \in OptionalLimit, Tighter(new, old),
           NEW limit \in Nat, NEW wanted \in Nat
    PROVE  /\ EffectiveRows(limit, new, wanted) <= EffectiveRows(limit, old, wanted)
           /\ EffectiveTimeout(limit, new) <= EffectiveTimeout(limit, old)
<1> USE UnsetAssumption, LimitsAssumption DEF OptionalLimit, Tighter
<1>1. \A cap \in Nat : Capped(limit, cap) \in Nat
    BY DEF Capped
<1>2. \A cap \in Nat : /\ Tighten(cap, new) \in Nat /\ Tighten(cap, old) \in Nat
                       /\ Tighten(cap, new) <= Tighten(cap, old)
    BY DEF Tighten
<1>3. EffectiveRows(limit, new, wanted) <= EffectiveRows(limit, old, wanted)
  <2> DEFINE c == Capped(limit, MaxResultRows)
  <2>1. /\ Tighten(c, new) \in Nat /\ Tighten(c, old) \in Nat
        /\ Tighten(c, new) <= Tighten(c, old)
      BY <1>1, <1>2
  <2> HIDE DEF Tighter
  <2> QED BY <2>1 DEF EffectiveRows
<1>4. EffectiveTimeout(limit, new) <= EffectiveTimeout(limit, old)
  <2> DEFINE c == Capped(limit, MaxTimeout)
  <2>1. /\ Tighten(c, new) \in Nat /\ Tighten(c, old) \in Nat
        /\ Tighten(c, new) <= Tighten(c, old)
      BY <1>1, <1>2
  <2> HIDE DEF Tighter
  <2> QED BY <2>1 DEF EffectiveTimeout
<1> QED BY <1>3, <1>4

(* A grant that is added never loosens a cap nor withdraws a permission    *)
(* (internal/authz/policy.go:51), for any grants, limits and wishes.       *)
THEOREM FurtherGrantNeverLoosens ==
    ASSUME NEW A, NEW grants \in Seq(GrantsFor(A)), NEW extra \in GrantsFor(A),
           NEW requested, NEW limits \in SUBSET Nat
    PROVE  NeverLoosens(grants, extra, requested, limits)
<1> DEFINE more == Append(grants, extra)
           old == Evaluate(grants, requested)
           new == Evaluate(more, requested)
           few == Binding(grants, requested)
           many == Binding(more, requested)
<1>1. /\ more \in Seq(GrantsFor(A))
      /\ DOMAIN grants \subseteq DOMAIN more
      /\ \A i \in DOMAIN grants : more[i] = grants[i]
    OBVIOUS
<1>2. Summed(old, grants, few) /\ Summed(new, more, many)
    BY <1>1, DecisionIsMostRestrictive
<1>3. few \subseteq many /\ \A i \in few : more[i] = grants[i]
    BY <1>1 DEF Binding
<1>4. \A i \in many : more[i] \in GrantsFor(A)
    BY <1>1 DEF Binding
<1> HIDE DEF old, new, few, many, more
<1>5. old.allowed => new.allowed
    BY <1>2, <1>3 DEF Summed
<1>6. old.requireReason => new.requireReason
    BY <1>2, <1>3, Zenon DEF Summed
<1>7. Tighter(new.rowLimit, old.rowLimit)
  <2> DEFINE S == {more[i].rowLimit : i \in many}
             SS == {grants[i].rowLimit : i \in few}
  <2>1. S \in SUBSET OptionalLimit
      BY <1>4 DEF GrantsFor
  <2>2. SS \in SUBSET S
      BY <1>3
  <2>3. Tightest(new.rowLimit, S) /\ Tightest(old.rowLimit, SS)
      BY <1>2 DEF Summed
  <2> HIDE DEF S, SS
  <2> QED BY <2>1, <2>2, <2>3, TightestOfMore
<1>8. Tighter(new.timeout, old.timeout)
  <2> DEFINE S == {more[i].timeout : i \in many}
             SS == {grants[i].timeout : i \in few}
  <2>1. S \in SUBSET OptionalLimit
      BY <1>4 DEF GrantsFor
  <2>2. SS \in SUBSET S
      BY <1>3
  <2>3. Tightest(new.timeout, S) /\ Tightest(old.timeout, SS)
      BY <1>2 DEF Summed
  <2> HIDE DEF S, SS
  <2> QED BY <2>1, <2>2, <2>3, TightestOfMore
<1>9. /\ new.rowLimit \in OptionalLimit /\ old.rowLimit \in OptionalLimit
      /\ new.timeout \in OptionalLimit /\ old.timeout \in OptionalLimit
    BY <1>2 DEF Summed, Decisions
<1>10. ASSUME NEW limit \in limits, NEW wanted \in limits
       PROVE  /\ EffectiveRows(limit, new.rowLimit, wanted)
                   <= EffectiveRows(limit, old.rowLimit, wanted)
              /\ EffectiveTimeout(limit, new.timeout)
                   <= EffectiveTimeout(limit, old.timeout)
  <2>1. limit \in Nat /\ wanted \in Nat
      OBVIOUS
  <2> QED BY <1>7, <1>8, <1>9, <2>1, EffectiveMonotone
<1> QED BY <1>5, <1>6, <1>10 DEF old, new, more, NeverLoosens

(* The limits derived from any decision keep the caps: effectiveRows and   *)
(* effectiveTimeout (internal/query/service.go).                           *)
LEMMA CapsKept ==
    ASSUME NEW limit \in Nat, NEW wanted \in Nat, NEW decision,
           decision.rowLimit \in (Nat \ {0}) \cup {Unset},
           decision.timeout \in Nat \cup {Unset}
    PROVE  WithinEveryCap(decision, limit, wanted)
<1> DEFINE granted == decision.rowLimit
           grantedMS == decision.timeout
<1> USE UnsetAssumption, LimitsAssumption DEF Below
<1>1. ASSUME NEW cap \in Nat \ {0}
      PROVE  /\ Capped(limit, cap) \in 1 .. cap
             /\ limit >= 1 => Capped(limit, cap) <= limit
    BY DEF Capped
<1>2. ASSUME NEW cap \in Nat, NEW x \in Nat \cup {Unset}
      PROVE  /\ Tighten(cap, x) \in Nat /\ Tighten(cap, x) <= cap
             /\ x # Unset => Tighten(cap, x) <= x
             /\ Tighten(cap, x) = cap \/ (x \in Nat /\ Tighten(cap, x) = x)
    BY DEF Tighten
<1>3. /\ EffectiveRows(limit, granted, wanted) \in 1 .. MaxResultRows
      /\ Below(EffectiveRows(limit, granted, wanted), limit, 1)
      /\ Below(EffectiveRows(limit, granted, wanted), wanted, 1)
      /\ Below(EffectiveRows(limit, granted, wanted), granted, 1)
  <2> DEFINE c == Capped(limit, MaxResultRows)
             t == Tighten(c, granted)
  <2>1. c \in 1 .. MaxResultRows /\ (limit >= 1 => c <= limit)
      BY <1>1
  <2>2. /\ t \in Nat /\ t <= c /\ (granted # Unset => t <= granted)
        /\ t = c \/ (granted \in Nat /\ t = granted)
    <3> HIDE DEF c
    <3>1. c \in Nat
        BY <2>1
    <3> QED BY <3>1, <1>2
  <2>3. EffectiveRows(limit, granted, wanted) =
            IF wanted > 0 /\ wanted < t THEN wanted ELSE t
      BY DEF EffectiveRows
  <2> HIDE DEF c, t
  <2>4. t \in 1 .. MaxResultRows
      BY <2>1, <2>2
  <2> QED BY <2>1, <2>2, <2>3, <2>4
<1>4. /\ EffectiveTimeout(limit, grantedMS) \in MinTimeout .. MaxTimeout
      /\ Below(EffectiveTimeout(limit, grantedMS), limit, MinTimeout)
      /\ Below(EffectiveTimeout(limit, grantedMS), grantedMS, MinTimeout)
  <2> DEFINE c == Capped(limit, MaxTimeout)
             t == Tighten(c, grantedMS)
  <2>1. c \in 1 .. MaxTimeout /\ (limit >= 1 => c <= limit)
      BY <1>1
  <2>2. t \in Nat /\ t <= c /\ (grantedMS # Unset => t <= grantedMS)
    <3> HIDE DEF c
    <3>1. c \in Nat
        BY <2>1
    <3> QED BY <3>1, <1>2
  <2>3. EffectiveTimeout(limit, grantedMS) =
            IF t < MinTimeout THEN MinTimeout ELSE t
      BY DEF EffectiveTimeout
  <2> HIDE DEF c, t
  <2> QED BY <2>1, <2>2, <2>3
<1> QED BY <1>3, <1>4 DEF WithinEveryCap

(* validateGrant (internal/api/admin.go:405) refuses a row limit of zero.     *)
ValidGrants(A) ==
    [action : A, requireReason : BOOLEAN,
     rowLimit : (Nat \ {0}) \cup {Unset}, timeout : OptionalLimit]

(* Whatever valid grants a principal has, the rows and the timeout of its  *)
(* statement keep every ceiling, limit and wish that is set.               *)
THEOREM LimitsKeepEveryCap ==
    ASSUME NEW A, NEW grants \in Seq(ValidGrants(A)), NEW requested,
           NEW limit \in Nat, NEW wanted \in Nat
    PROVE  WithinEveryCap(Evaluate(grants, requested), limit, wanted)
<1> DEFINE decision == Evaluate(grants, requested)
           binding == Binding(grants, requested)
<1>1. grants \in Seq(GrantsFor(A))
  <2>1. ValidGrants(A) \subseteq GrantsFor(A)
      BY DEF ValidGrants, GrantsFor, OptionalLimit
  <2> QED BY <2>1
<1>2. Summed(decision, grants, binding)
    BY <1>1, DecisionIsMostRestrictive
<1>3. \A i \in binding : grants[i].rowLimit \in (Nat \ {0}) \cup {Unset}
  <2>1. \A i \in binding : grants[i] \in ValidGrants(A)
      BY DEF Binding
  <2> QED BY <2>1 DEF ValidGrants
<1> HIDE DEF decision, binding
<1>4. decision.rowLimit \in (Nat \ {0}) \cup {Unset}
    BY <1>2, <1>3 DEF Summed, Tightest
<1>5. decision.timeout \in Nat \cup {Unset}
    BY <1>2 DEF Summed, Decisions, OptionalLimit
<1> QED BY <1>4, <1>5, CapsKept DEF decision

(* The reference definition of Authz takes the smallest by CHOOSE ...      *)
LEMMA SmallestIsTightest ==
    ASSUME NEW S \in SUBSET OptionalLimit, NEW m, Tightest(m, S)
    PROVE  m = Smallest(S \ {Unset})
<1> DEFINE R == S \ {Unset}
<1>1. CASE m = Unset /\ S \subseteq {Unset}
  <2>1. R = {}
      BY <1>1
  <2> QED BY <1>1, <2>1 DEF Smallest
<1>2. CASE m \in R /\ \A x \in R : m <= x
  <2>1. R \subseteq Nat /\ R # {}
      BY <1>2 DEF OptionalLimit
  <2>2. \A n \in R : (\A x \in R : n <= x) => n = m
      BY <1>2, <2>1
  <2> HIDE DEF R
  <2>3. (CHOOSE n \in R : \A x \in R : n <= x) = m
      BY <1>2, <2>2
  <2> QED BY <2>1, <2>3 DEF Smallest, R
<1> QED BY <1>1, <1>2 DEF Tightest

(* ... and compares ranks where the code lists the actions.                *)
LEMMA BindingIsApplicable ==
    ASSUME NEW grants, NEW requested \in Action
    PROVE  Binding(grants, requested) = Applicable(grants, requested)
<1>1. \A a : ParsesAs(a) /\ Includes(a, requested) <=>
             a \in DOMAIN Rank /\ Rank[a] >= Rank[requested]
    BY DEF ParsesAs, Action, Includes, Rank
<1> QED BY <1>1 DEF Binding, Binds, Applicable

(* Evaluate decides as README.md:72 says, for any grants.                  *)
THEOREM AccessIsMostRestrictive ==
    ASSUME NEW A, NEW grants \in Seq(GrantsFor(A)), NEW requested \in Action
    PROVE  MostRestrictive(grants, requested)
<1> DEFINE decision == Evaluate(grants, requested)
           binding == Binding(grants, requested)
           applicable == {grants[i] : i \in binding}
           rowLimits == {g.rowLimit : g \in applicable}
           timeouts == {g.timeout : g \in applicable}
           anyRequires == \E g \in applicable : g.requireReason
<1>1. Summed(decision, grants, binding)
    BY DecisionIsMostRestrictive
<1>2. \A i \in binding : grants[i] \in GrantsFor(A)
    BY DEF Binding
<1>3. /\ rowLimits = {grants[i].rowLimit : i \in binding}
      /\ timeouts = {grants[i].timeout : i \in binding}
    OBVIOUS
<1>4. rowLimits \in SUBSET OptionalLimit /\ timeouts \in SUBSET OptionalLimit
    BY <1>2 DEF GrantsFor
<1>5. /\ decision.rowLimit = Smallest(rowLimits \ {Unset})
      /\ decision.timeout = Smallest(timeouts \ {Unset})
  <2> HIDE DEF rowLimits, timeouts, decision
  <2>1. Tightest(decision.rowLimit, rowLimits) /\ Tightest(decision.timeout, timeouts)
      BY <1>1, <1>3 DEF Summed
  <2> QED BY <1>4, <2>1, SmallestIsTightest
<1>6. decision.allowed = (applicable # {})
  <2> HIDE DEF decision, binding
  <2> QED BY <1>1 DEF Summed, Decisions
<1>7. decision.requireReason = anyRequires
  <2> HIDE DEF decision, binding
  <2>1. anyRequires <=> \E i \in binding : grants[i].requireReason
      OBVIOUS
  <2>2. decision.requireReason \in BOOLEAN
      BY <1>1 DEF Summed, Decisions
  <2>3. decision.requireReason <=> anyRequires
      BY <1>1, <2>1 DEF Summed
  <2> QED BY <2>2, <2>3
<1>8. decision = [allowed |-> decision.allowed,
                  requireReason |-> decision.requireReason,
                  rowLimit |-> decision.rowLimit,
                  timeout |-> decision.timeout]
  <2> HIDE DEF decision
  <2> QED BY <1>1 DEF Summed, Decisions
<1>9. decision = [allowed |-> applicable # {}, requireReason |-> anyRequires,
                  rowLimit |-> Smallest(rowLimits \ {Unset}),
                  timeout |-> Smallest(timeouts \ {Unset})]
  <2> HIDE DEF decision, applicable, anyRequires, rowLimits, timeouts
  <2> QED BY <1>5, <1>6, <1>7, <1>8
<1>10. binding = Applicable(grants, requested)
    BY BindingIsApplicable
<1> HIDE DEF binding
<1> QED BY <1>9, <1>10 DEF MostRestrictive

-----------------------------------------------------------------------------
(* The lists of Grants.                                                    *)

(* SetToSeq lists every element of a finite set.                           *)
LEMMA SequenceOfSet ==
    ASSUME NEW S, IsFiniteSet(S)
    PROVE  /\ SetToSeq(S) \in Seq(S)
           /\ \A x \in S : \E i \in DOMAIN SetToSeq(S) : SetToSeq(S)[i] = x
<1> DEFINE n == Cardinality(S)
           s == SetToSeq(S)
<1>1. n \in Nat /\ ExistsBijection(1 .. n, S)
    BY FS_CardinalityType
<1>2. \E f \in [1 .. n -> S] : IsInjective(f)
    BY <1>1 DEF ExistsBijection, Bijection, Injection
<1>3. s \in [1 .. n -> S] /\ IsInjective(s)
  <2> HIDE DEF n
  <2> QED BY <1>2, Zenon DEF SetToSeq, n
<1> HIDE DEF s
<1>4. s \in Surjection(1 .. n, S)
  <2>1. s \in Injection(1 .. n, S)
      BY <1>3 DEF Injection
  <2>2. IsFiniteSet(1 .. n) /\ Cardinality(1 .. n) = n
      BY <1>1, FS_Interval
  <2> HIDE DEF n
  <2>3. Cardinality(1 .. n) = Cardinality(S)
      BY <2>2 DEF n
  <2> QED BY <2>1, <2>3, FS_Injection
<1> HIDE DEF n
<1>5. s \in Seq(S) /\ DOMAIN s = 1 .. n
    BY <1>1, <1>3
<1>6. \A x \in S : \E i \in 1 .. n : s[i] = x
    BY <1>4 DEF Surjection
<1> QED BY <1>5, <1>6 DEF s

(* What the lists show and what Evaluate allows are both given by the      *)
(* actions granted.                                                        *)
LEMMA ShownFromTypes ==
    TypeOK => ShownIsUsable
<1> SUFFICES ASSUME TypeOK, NEW p \in Principal, NEW r \in Resource
             PROVE  /\ r \in VisibleResources(p)
                         <=> TestAuthorization(p, r, "schema_read")
                    /\ \A a \in Action : TestAuthorization(p, r, a) <=>
                          \E shown \in ListPrincipalAccess(p) :
                             shown.resource = r /\ Includes(shown.action, a)
    BY DEF ShownIsUsable
<1> DEFINE Plain(a) == [action |-> a, requireReason |-> FALSE,
                        rowLimit |-> Unset, timeout |-> Unset]
           S == {Plain(a) : a \in GrantsOn(p, r)}
           seq == EffectiveGrants(p, r)
<1>1. GrantsOn(p, r) \subseteq Action
    BY RowFacts DEF GrantsOn, TypeOK, Row, ParsesAs, NoRow
<1>2. seq \in Seq(S) /\ \A x \in S : \E i \in DOMAIN seq : seq[i] = x
  <2>1. IsFiniteSet(S)
    <3> DEFINE three == {Plain("schema_read")} \cup {Plain("query_read")}
                            \cup {Plain("query_write")}
    <3>1. IsFiniteSet(three)
      <4> HIDE DEF Plain
      <4> QED BY FS_Singleton, FS_AddElement
    <3>2. S \in SUBSET three
        BY <1>1 DEF Action
    <3> HIDE DEF three, S
    <3> QED BY <3>1, <3>2, FS_Subset
  <2>2. seq = SetToSeq(S)
      BY DEF EffectiveGrants
  <2> HIDE DEF S, seq
  <2> QED BY <2>1, <2>2, SequenceOfSet
<1>3. ASSUME NEW a \in Action
      PROVE  Evaluate(seq, a).allowed <=>
                 \E b \in GrantsOn(p, r) : Includes(b, a)
  <2>1. seq \in Seq(GrantsFor(Action))
    <3>1. S \subseteq GrantsFor(Action)
      <4>1. \A b \in Action : Plain(b) \in GrantsFor(Action)
          BY DEF GrantsFor, OptionalLimit
      <4> HIDE DEF Plain
      <4> QED BY <1>1, <4>1
    <3> HIDE DEF S, seq
    <3> QED BY <1>2, <3>1
  <2>2. Evaluate(seq, a).allowed <=> Binding(seq, a) # {}
    <3> HIDE DEF seq
    <3> QED BY <2>1, DecisionIsMostRestrictive DEF Summed
  <2>3. \A i \in DOMAIN seq : \E b \in GrantsOn(p, r) : seq[i] = Plain(b)
    <3>1. \A i \in DOMAIN seq : seq[i] \in S
      <4> HIDE DEF S, seq
      <4> QED BY <1>2
    <3> HIDE DEF seq
    <3> QED BY <3>1
  <2>4. \A b \in GrantsOn(p, r) : \E i \in DOMAIN seq : seq[i] = Plain(b)
    <3> HIDE DEF seq
    <3> QED BY <1>2
  <2> HIDE DEF seq, S
  <2>5. \A b : Plain(b).action = b
      OBVIOUS
  <2> HIDE DEF Plain
  <2> QED BY <1>1, <2>2, <2>3, <2>4, <2>5 DEF Binding, Binds, ParsesAs
<1>4. \A a \in Action : TestAuthorization(p, r, a) <=>
          r \in enabled /\ \E b \in GrantsOn(p, r) : Includes(b, a)
    BY <1>3 DEF TestAuthorization
<1>5. r \in VisibleResources(p) <=> TestAuthorization(p, r, "schema_read")
  <2>1. \A b \in Action : Includes(b, "schema_read")
      BY DEF Action, Includes
  <2>2. "schema_read" \in Action
      BY DEF Action
  <2> QED BY <1>1, <1>4, <2>1, <2>2 DEF VisibleResources
<1>6. ASSUME NEW a \in Action
      PROVE  (\E b \in GrantsOn(p, r) : r \in enabled /\ Includes(b, a)) <=>
                 \E shown \in ListPrincipalAccess(p) :
                     shown.resource = r /\ Includes(shown.action, a)
  <2>1. ASSUME NEW b \in GrantsOn(p, r), r \in enabled, Includes(b, a)
        PROVE  \E shown \in ListPrincipalAccess(p) :
                   shown.resource = r /\ Includes(shown.action, a)
    <3>1. [resource |-> r, action |-> b] \in ListPrincipalAccess(p)
        BY <2>1 DEF ListPrincipalAccess
    <3> QED BY <2>1, <3>1
  <2>2. ASSUME NEW shown \in ListPrincipalAccess(p), shown.resource = r,
               Includes(shown.action, a)
        PROVE  \E b \in GrantsOn(p, r) : r \in enabled /\ Includes(b, a)
    <3>1. PICK q \in enabled : \E b \in GrantsOn(p, q) :
                                  shown = [resource |-> q, action |-> b]
        BY DEF ListPrincipalAccess
    <3>2. q = r
        BY <2>2, <3>1
    <3> QED BY <2>2, <3>1, <3>2
  <2> QED BY <2>1, <2>2
<1> QED BY <1>4, <1>5, <1>6

(* In every reachable state, the resources and actions a principal is      *)
(* shown are those a test of the authorization allows it: three statements *)
(* of the store and a loop in the program agree (store.go:507).            *)
THEOREM ShownActionsAreUsable == Spec => []ShownIsUsable
<1>1. IInv => TypeOK
    BY DEF IInv
<1> QED BY <1>1, GrantsInvariance, ShownFromTypes, PTL

-----------------------------------------------------------------------------
(* Statements: what holds of the nodes of a tree.                          *)

(* The parts of every node come before it.                                 *)
PartsFirst(s) ==
    /\ s \in Seq(Range(s))
    /\ \A i \in DOMAIN s : PartsOf(s[i]) \subseteq 1 .. i - 1

(* What holds of a node if it holds of its parts, holds of every node.     *)
LEMMA FromTheParts ==
    ASSUME NEW s, PartsFirst(s), NEW H,
           \A i \in DOMAIN s : PartsOf(s[i]) \subseteq H => i \in H
    PROVE  \A i \in DOMAIN s : i \in H
<1> DEFINE T == {i \in Nat : i \in DOMAIN s /\ i \notin H}
<1>1. DOMAIN s \subseteq Nat
    BY DEF PartsFirst
<1> SUFFICES ASSUME T # {}
             PROVE  FALSE
    BY <1>1
<1>2. PICK i \in T : \A k \in T : i <= k
    BY LeastNumber
<1>3. i \in DOMAIN s /\ i \notin H
    OBVIOUS
<1>4. \A j \in 1 .. i - 1 : j \in H
  <2> SUFFICES ASSUME NEW j \in 1 .. i - 1
               PROVE  j \in H
      OBVIOUS
  <2>1. j \in Nat /\ ~(i <= j) /\ j \in DOMAIN s
      BY <1>3 DEF PartsFirst
  <2>2. j \notin T
    <3> HIDE DEF T
    <3> QED BY <1>2, <2>1
  <2> QED BY <2>1, <2>2
<1> QED BY <1>3, <1>4 DEF PartsFirst

(* What holds of a node if it holds of one of its parts, holds of the last *)
(* node of a tree if it holds of any.                                      *)
LEMMA UpToTheLast ==
    ASSUME NEW s, PartsFirst(s), IsTree(s), NEW H \in SUBSET DOMAIN s, H # {},
           \A i \in DOMAIN s : \A j \in PartsOf(s[i]) : j \in H => i \in H
    PROVE  Len(s) \in H
<1> DEFINE n == Len(s)
           T == {k \in Nat : k < n /\ n - k \in H}
<1>1. n \in Nat /\ DOMAIN s = 1 .. n
    BY DEF PartsFirst
<1>2. T # {}
  <2>1. PICK i \in H : TRUE
      OBVIOUS
  <2>2. n - i \in Nat /\ n - i < n /\ n - (n - i) = i
      BY <1>1
  <2> HIDE DEF n
  <2> QED BY <2>1, <2>2
<1>3. PICK k \in T : \A l \in T : k <= l
    BY <1>2, LeastNumber
<1>4. k \in Nat /\ k < n /\ n - k \in H
    OBVIOUS
<1>5. CASE k = 0
    BY <1>1, <1>4, <1>5
<1>6. CASE k # 0
  <2>1. n - k \in 1 .. n - 1
      BY <1>1, <1>4, <1>6
  <2>2. PICK i \in DOMAIN s : n - k \in PartsOf(s[i])
      BY <2>1 DEF IsTree
  <2>3. i \in H
      BY <1>4, <2>2
  <2>4. n - k \in 1 .. i - 1
      BY <2>2 DEF PartsFirst
  <2>5. n - i \in Nat /\ n - i < n /\ n - (n - i) = i /\ ~(k <= n - i)
      BY <1>1, <1>4, <2>4
  <2>6. n - i \in T
      BY <2>3, <2>5
  <2> HIDE DEF T
  <2> QED BY <1>3, <2>5, <2>6
<1> QED BY <1>5, <1>6

-----------------------------------------------------------------------------
(* What nodes contribute, which Statements defines recursively.            *)

(* The recursive definition of Contributions defines a function: for every *)
(* m there is one on the first m nodes.                                    *)
LEMMA ContributionsDefined ==
    ASSUME NEW s, PartsFirst(s)
    PROVE  Contributions(s) =
             [i \in DOMAIN s |->
                Contribution(s[i], [j \in PartsOf(s[i]) |-> Contributions(s)[j]])]
<1> DEFINE n == Len(s)
           Turn(f, i) == Contribution(s[i], [j \in PartsOf(s[i]) |-> f[j]])
           Fits(f, m) == f = [i \in 1 .. m |-> Turn(f, i)]
           T == {m \in Nat : m <= n /\ ~ \E f : Fits(f, m)}
<1>1. n \in Nat /\ DOMAIN s = 1 .. n
    BY DEF PartsFirst
<1>2. T = {}
  <2> SUFFICES ASSUME T # {}
               PROVE  FALSE
      OBVIOUS
  <2>1. PICK m \in T : \A k \in T : m <= k
      BY LeastNumber
  <2>2. m \in Nat /\ m <= n /\ ~ \E f : Fits(f, m)
      OBVIOUS
  <2>3. m # 0
    <3>1. Fits([i \in 1 .. 0 |-> {}], 0)
        OBVIOUS
    <3> QED BY <2>2, <3>1
  <2>4. \E g : Fits(g, m - 1)
    <3>1. m - 1 \in Nat /\ m - 1 <= n /\ ~(m <= m - 1)
        BY <1>1, <2>2, <2>3
    <3>2. m - 1 \notin T
      <4> HIDE DEF T
      <4> QED BY <2>1, <3>1
    <3> HIDE DEF Fits
    <3> QED BY <3>1, <3>2
  <2>5. PICK g : Fits(g, m - 1)
      BY <2>4
  <2> DEFINE f == [i \in 1 .. m |-> IF i = m THEN Turn(g, m) ELSE g[i]]
  <2>6. ASSUME NEW i \in 1 .. m
        PROVE  f[i] = Turn(f, i)
    <3>1. PartsOf(s[i]) \subseteq 1 .. i - 1
        BY <1>1, <2>2 DEF PartsFirst
    <3>2. \A j \in PartsOf(s[i]) : f[j] = g[j]
        BY <2>2, <3>1
    <3>3. Turn(f, i) = Turn(g, i)
      <4>1. [j \in PartsOf(s[i]) |-> f[j]] = [j \in PartsOf(s[i]) |-> g[j]]
        <5> HIDE DEF f
        <5> QED BY <3>2
      <4> HIDE DEF f
      <4> QED BY <4>1
    <3>4. f[i] = Turn(g, i)
      <4>1. CASE i = m
          BY <4>1
      <4>2. CASE i # m
        <5>1. i \in 1 .. (m - 1) /\ f[i] = g[i]
            BY <2>2, <4>2
        <5> HIDE DEF f, Turn
        <5> QED BY <2>5, <5>1
      <4> QED BY <4>1, <4>2
    <3> HIDE DEF f, Turn
    <3> QED BY <3>3, <3>4
  <2>7. Fits(f, m)
    <3>1. f = [i \in 1 .. m |-> f[i]]
        OBVIOUS
    <3> HIDE DEF f, Turn
    <3> QED BY <2>6, <3>1
  <2> QED BY <2>2, <2>7
<1>3. \E f : Fits(f, n)
  <2>1. n \notin T
      BY <1>2
  <2> HIDE DEF Fits
  <2> QED BY <1>1, <2>1
<1>4. Contributions(s) = CHOOSE f : Fits(f, n)
    BY <1>1 DEF Contributions
<1>5. Fits(Contributions(s), n)
  <2> HIDE DEF Fits
  <2> QED BY <1>3, <1>4
<1> QED BY <1>1, <1>5

(* A node makes of its parts what Contribution says, whatever is beside    *)
(* them.                                                                   *)
LEMMA OnlyTheParts ==
    ASSUME NEW n, NEW part
    PROVE  Contribution(n, [j \in PartsOf(n) |-> part[j]]) = Contribution(n, part)
<1> DEFINE p == [j \in PartsOf(n) |-> part[j]]
<1>1. \A j \in PartsOf(n) : p[j] = part[j]
    OBVIOUS
<1> HIDE DEF p
<1>2. (\E i \in PartsOf(n) : ~p[i].ok) <=> (\E i \in PartsOf(n) : ~part[i].ok)
    BY <1>1
<1>3. CASE n.t = "select"
    BY <1>1, <1>2, <1>3 DEF Contribution, PartsOf
<1>4. CASE n.t \in {"union", "join"}
    BY <1>1, <1>2, <1>4 DEF Contribution, PartsOf
<1>5. CASE n.t \in {"call", "subquery", "derived"}
    BY <1>1, <1>2, <1>5 DEF Contribution, PartsOf
<1>6. CASE n.t \in {"insert", "update", "delete"}
    BY <1>1, <1>2, <1>6 DEF Contribution, PartsOf
<1>7. CASE n.t \notin {"select", "union", "join", "call", "subquery", "derived",
                       "insert", "update", "delete"}
    BY <1>1, <1>2, <1>7 DEF Contribution, PartsOf
<1> QED BY <1>3, <1>4, <1>5, <1>6, <1>7 DEF p

(* Read from the statement as a whole.                                     *)
LEMMA Contributed ==
    ASSUME NEW s, PartsFirst(s), NEW i \in DOMAIN s
    PROVE  Contributions(s)[i] = Contribution(s[i], Contributions(s))
BY ContributionsDefined, OnlyTheParts

-----------------------------------------------------------------------------
(* Which nodes Walk visits, which Statements defines recursively too.      *)

(* It goes on to nothing but parts.                                        *)
LEMMA FollowedParts ==
    ASSUME NEW n
    PROVE  Followed(n) \subseteq PartsOf(n)
BY DEF Followed, PartsOf

(* The recursive definition of Reached defines a function, as that of      *)
(* Contributions does.                                                     *)
LEMMA ReachedDefined ==
    ASSUME NEW s, PartsFirst(s)
    PROVE  Reached(s) =
             [i \in DOMAIN s |-> {i} \cup UNION {Reached(s)[j] : j \in Followed(s[i])}]
<1> DEFINE n == Len(s)
           Turn(f, i) == {i} \cup UNION {f[j] : j \in Followed(s[i])}
           Fits(f, m) == f = [i \in 1 .. m |-> Turn(f, i)]
           T == {m \in Nat : m <= n /\ ~ \E f : Fits(f, m)}
<1>1. n \in Nat /\ DOMAIN s = 1 .. n
    BY DEF PartsFirst
<1>2. T = {}
  <2> SUFFICES ASSUME T # {}
               PROVE  FALSE
      OBVIOUS
  <2>1. PICK m \in T : \A k \in T : m <= k
      BY LeastNumber
  <2>2. m \in Nat /\ m <= n /\ ~ \E f : Fits(f, m)
      OBVIOUS
  <2>3. m # 0
    <3>1. Fits([i \in 1 .. 0 |-> {}], 0)
        OBVIOUS
    <3> QED BY <2>2, <3>1
  <2>4. \E g : Fits(g, m - 1)
    <3>1. m - 1 \in Nat /\ m - 1 <= n /\ ~(m <= m - 1)
        BY <1>1, <2>2, <2>3
    <3>2. m - 1 \notin T
      <4> HIDE DEF T
      <4> QED BY <2>1, <3>1
    <3> HIDE DEF Fits
    <3> QED BY <3>1, <3>2
  <2>5. PICK g : Fits(g, m - 1)
      BY <2>4
  <2> DEFINE f == [i \in 1 .. m |-> IF i = m THEN Turn(g, m) ELSE g[i]]
  <2>6. ASSUME NEW i \in 1 .. m
        PROVE  f[i] = Turn(f, i)
    <3>1. Followed(s[i]) \subseteq 1 .. i - 1
      <4>1. PartsOf(s[i]) \subseteq 1 .. i - 1
          BY <1>1, <2>2 DEF PartsFirst
      <4> QED BY <4>1, FollowedParts
    <3>2. \A j \in Followed(s[i]) : f[j] = g[j]
        BY <2>2, <3>1
    <3>3. Turn(f, i) = Turn(g, i)
      <4>1. {f[j] : j \in Followed(s[i])} = {g[j] : j \in Followed(s[i])}
        <5> HIDE DEF f
        <5> QED BY <3>2
      <4> HIDE DEF f
      <4> QED BY <4>1
    <3>4. f[i] = Turn(g, i)
      <4>1. CASE i = m
          BY <4>1
      <4>2. CASE i # m
        <5>1. i \in 1 .. (m - 1) /\ f[i] = g[i]
            BY <2>2, <4>2
        <5> HIDE DEF f, Turn
        <5> QED BY <2>5, <5>1
      <4> QED BY <4>1, <4>2
    <3> HIDE DEF f, Turn
    <3> QED BY <3>3, <3>4
  <2>7. Fits(f, m)
    <3>1. f = [i \in 1 .. m |-> f[i]]
        OBVIOUS
    <3> HIDE DEF f, Turn
    <3> QED BY <2>6, <3>1
  <2> QED BY <2>2, <2>7
<1>3. \E f : Fits(f, n)
  <2>1. n \notin T
      BY <1>2
  <2> HIDE DEF Fits
  <2> QED BY <1>1, <2>1
<1>4. Reached(s) = CHOOSE f : Fits(f, n)
    BY <1>1 DEF Reached
<1>5. Fits(Reached(s), n)
  <2> HIDE DEF Fits
  <2> QED BY <1>3, <1>4
<1> QED BY <1>1, <1>5

(* What is visited are nodes, the last of them and what it goes on to from *)
(* them ...                                                                *)
LEMMA VisitedNodes ==
    ASSUME NEW s, PartsFirst(s), IsTree(s)
    PROVE  /\ Visited(s) \subseteq DOMAIN s /\ Len(s) \in Visited(s)
           /\ \A i \in Visited(s) : Followed(s[i]) \subseteq Visited(s)
<1> DEFINE H == {i \in DOMAIN s :
                   /\ Reached(s)[i] \subseteq DOMAIN s
                   /\ \A k \in Reached(s)[i] : Followed(s[k]) \subseteq Reached(s)[i]}
<1>1. ASSUME NEW i \in DOMAIN s, PartsOf(s[i]) \subseteq H
      PROVE  i \in H
  <2>1. Reached(s)[i] = {i} \cup UNION {Reached(s)[j] : j \in Followed(s[i])}
      BY ReachedDefined
  <2>2. Followed(s[i]) \subseteq H
      BY <1>1, FollowedParts
  <2>3. \A j \in Followed(s[i]) : j \in Reached(s)[j] /\ Reached(s)[j] \subseteq Reached(s)[i]
    <3>1. \A j \in DOMAIN s : j \in Reached(s)[j]
        BY ReachedDefined
    <3> QED BY <2>1, <2>2, <3>1
  <2>4. Reached(s)[i] \subseteq DOMAIN s
      BY <2>1, <2>2
  <2>5. ASSUME NEW k \in Reached(s)[i]
        PROVE  Followed(s[k]) \subseteq Reached(s)[i]
    <3>1. CASE k = i
        BY <2>3, <3>1
    <3>2. CASE k # i
      <4>1. PICK j \in Followed(s[i]) : k \in Reached(s)[j]
          BY <2>1, <3>2
      <4>2. Followed(s[k]) \subseteq Reached(s)[j]
          BY <2>2, <4>1
      <4> QED BY <2>3, <4>2
    <3> QED BY <3>1, <3>2
  <2> QED BY <2>4, <2>5
<1>2. Len(s) \in DOMAIN s
    BY DEF PartsFirst, IsTree
<1>3. Len(s) \in Reached(s)[Len(s)]
    BY <1>2, ReachedDefined
<1>4. Len(s) \in H
  <2> HIDE DEF H
  <2> QED BY <1>1, <1>2, FromTheParts
<1> QED BY <1>3, <1>4 DEF Visited

(* ... and what holds of the last, and of what it goes on to from where it *)
(* holds, holds of all of them.                                            *)
LEMMA VisitedFromTheLast ==
    ASSUME NEW s, PartsFirst(s), IsTree(s), NEW H, Len(s) \in H,
           \A i \in DOMAIN s : i \in H => Followed(s[i]) \subseteq H
    PROVE  Visited(s) \subseteq H
<1> DEFINE K == {i \in DOMAIN s : i \in H => Reached(s)[i] \subseteq H}
<1>1. ASSUME NEW i \in DOMAIN s, PartsOf(s[i]) \subseteq K
      PROVE  i \in K
  <2>1. Reached(s)[i] = {i} \cup UNION {Reached(s)[j] : j \in Followed(s[i])}
      BY ReachedDefined
  <2>2. Followed(s[i]) \subseteq K
      BY <1>1, FollowedParts
  <2> QED BY <2>1, <2>2
<1>2. Len(s) \in DOMAIN s
    BY DEF PartsFirst, IsTree
<1>3. Len(s) \in K
  <2> HIDE DEF K
  <2> QED BY <1>1, <1>2, FromTheParts
<1> QED BY <1>3 DEF Visited

-----------------------------------------------------------------------------
(* The columns that nodes contribute.                                      *)

(* Columns are listed.                                                     *)
IsList(c) == c \in Seq(Range(c))

(* The indices of a list.                                                  *)
LEMMA ListFacts ==
    /\ IsList(<<>>)
    /\ \A x : IsList(<<x>>) /\ DOMAIN <<x>> = {1} /\ <<x>>[1] = x
    /\ \A c : IsList(c) => /\ Len(c) \in Nat /\ DOMAIN c = 1 .. Len(c)
                           /\ DOMAIN c = {} => c = <<>>
<1>1. IsList(<<>>)
    BY DEF IsList, Range
<1>2. ASSUME NEW x
      PROVE  IsList(<<x>>) /\ DOMAIN <<x>> = {1} /\ <<x>>[1] = x
    BY DEF IsList, Range
<1>3. ASSUME NEW c, IsList(c)
      PROVE  /\ Len(c) \in Nat /\ DOMAIN c = 1 .. Len(c)
             /\ DOMAIN c = {} => c = <<>>
  <2>1. Len(c) \in Nat /\ DOMAIN c = 1 .. Len(c)
      BY <1>3 DEF IsList
  <2>2. Len(c) > 0 => 1 \in DOMAIN c
      BY <2>1
  <2>3. Len(c) = 0 => c = <<>>
      BY <1>3 DEF IsList
  <2> QED BY <2>1, <2>2, <2>3
<1> QED BY <1>1, <1>2, <1>3

(* A single column reveals what it is made to reveal.                      *)
LEMMA OneColumnFacts ==
    ASSUME NEW name, NEW reveals
    PROVE  /\ IsList(OneColumn(name, reveals)) /\ DOMAIN OneColumn(name, reveals) = {1}
           /\ Revealed(OneColumn(name, reveals)) = reveals
<1> DEFINE x == [as |-> "", name |-> name, reveals |-> reveals]
           c == OneColumn(name, reveals)
<1>0. c = <<x>>
    BY DEF OneColumn
<1>1. x.reveals = reveals
    OBVIOUS
<1> HIDE DEF x
<1>2. IsList(c) /\ DOMAIN c = {1} /\ c[1] = x
    BY <1>0, ListFacts
<1> HIDE DEF c
<1>3. Revealed(c) = reveals
    BY <1>1, <1>2 DEF Revealed
<1> QED BY <1>2, <1>3 DEF c

(* A function with the indices of a list is a list.                        *)
LEMMA ListOfList ==
    ASSUME NEW c, IsList(c), NEW d, d = [k \in DOMAIN c |-> d[k]]
    PROVE  IsList(d) /\ DOMAIN d = DOMAIN c
<1>1. DOMAIN d = 1 .. Len(c) /\ Len(c) \in Nat
    BY ListFacts
<1>2. \A k \in DOMAIN d : d[k] \in Range(d)
    BY DEF Range
<1>3. d \in [1 .. Len(c) -> Range(d)]
    BY <1>1, <1>2
<1> QED BY <1>1, <1>3 DEF IsList

(* Lists of columns one after the other, as a join has them.               *)
LEMMA Concatenated ==
    ASSUME NEW l, NEW r, IsList(l), IsList(r)
    PROVE  /\ IsList(l \o r) /\ DOMAIN (l \o r) = 1 .. Len(l) + Len(r)
           /\ \A k \in 1 .. Len(l) : (l \o r)[k] = l[k]
           /\ \A k \in 1 .. Len(r) : (l \o r)[Len(l) + k] = r[k]
           /\ Revealed(l \o r) = Revealed(l) \cup Revealed(r)
<1> DEFINE S == Range(l) \cup Range(r)
           c == l \o r
<1>1. l \in Seq(S) /\ r \in Seq(S) /\ Len(l) \in Nat /\ Len(r) \in Nat
      /\ DOMAIN l = 1 .. Len(l) /\ DOMAIN r = 1 .. Len(r)
    BY DEF IsList
<1> HIDE DEF S
<1>2. /\ c \in Seq(S) /\ Len(c) = Len(l) + Len(r)
      /\ \A k \in 1 .. Len(l) : c[k] = l[k]
      /\ \A k \in 1 .. Len(r) : c[Len(l) + k] = r[k]
    BY <1>1
<1> HIDE DEF c
<1>3. DOMAIN c = 1 .. Len(l) + Len(r)
    BY <1>1, <1>2
<1>4. IsList(c)
  <2>1. c = [k \in 1 .. Len(c) |-> c[k]]
      BY <1>2
  <2>2. \A k \in 1 .. Len(c) : c[k] \in Range(c)
      BY <1>1, <1>2, <1>3 DEF Range
  <2>3. c \in [1 .. Len(c) -> Range(c)] /\ Len(c) \in Nat
      BY <1>1, <1>2, <2>1, <2>2
  <2> QED BY <2>3 DEF IsList
<1>5. ASSUME NEW k \in 1 .. Len(l) + Len(r), k \notin 1 .. Len(l)
      PROVE  \E m \in 1 .. Len(r) : k = Len(l) + m
  <2>1. k - Len(l) \in 1 .. Len(r) /\ k = Len(l) + (k - Len(l))
      BY <1>1, <1>5
  <2> QED BY <2>1
<1>6. \A k \in 1 .. Len(l) : k \in DOMAIN c
    BY <1>1, <1>3
<1>7. \A k \in 1 .. Len(r) : Len(l) + k \in DOMAIN c
    BY <1>1, <1>3
<1>8. Revealed(c) = Revealed(l) \cup Revealed(r)
  <2>1. Revealed(l) \cup Revealed(r) \subseteq Revealed(c)
    <3>1. ASSUME NEW x \in Revealed(l)
          PROVE  x \in Revealed(c)
      <4>1. PICK k \in 1 .. Len(l) : x \in l[k].reveals
          BY <1>1 DEF Revealed
      <4> QED BY <1>2, <1>6, <4>1 DEF Revealed
    <3>2. ASSUME NEW x \in Revealed(r)
          PROVE  x \in Revealed(c)
      <4>1. PICK k \in 1 .. Len(r) : x \in r[k].reveals
          BY <1>1 DEF Revealed
      <4> QED BY <1>2, <1>7, <4>1 DEF Revealed
    <3> QED BY <3>1, <3>2
  <2>2. ASSUME NEW x \in Revealed(c)
        PROVE  x \in Revealed(l) \cup Revealed(r)
    <3>1. PICK k \in 1 .. Len(l) + Len(r) : x \in c[k].reveals
        BY <1>3, <2>2 DEF Revealed
    <3>2. CASE k \in 1 .. Len(l)
        BY <1>1, <1>2, <3>1, <3>2 DEF Revealed
    <3>3. CASE k \notin 1 .. Len(l)
      <4>1. PICK m \in 1 .. Len(r) : k = Len(l) + m
          BY <1>5, <3>3
      <4> QED BY <1>1, <1>2, <3>1, <4>1 DEF Revealed
    <3> QED BY <3>2, <3>3
  <2> QED BY <2>1, <2>2
<1> QED BY <1>2, <1>3, <1>4, <1>8 DEF c

(* What the target makes of a table that it has.                           *)
LEMMA TableFacts ==
    ASSUME NEW name, NEW as, NEW reveals, OfTable(name, as, reveals).ok
    PROVE  /\ name \in TableNames
           /\ OfTable(name, as, reveals).refs = {}
           /\ DOMAIN OfTable(name, as, reveals).columns = DOMAIN ColumnsOf(name)
<1> DEFINE d == [i \in DOMAIN ColumnsOf(name) |->
                     [as |-> as, name |-> ColumnsOf(name)[i],
                      reveals |-> reveals[ColumnsOf(name)[i]]]]
<1>1. ~Failure.ok
    BY DEF Failure
<1>2. name \in TableNames /\ OfTable(name, as, reveals) = Success(d, {})
    BY <1>1 DEF OfTable
<1>3. /\ DOMAIN d = DOMAIN ColumnsOf(name)
      /\ \A k \in DOMAIN ColumnsOf(name) :
            d[k] = [as |-> as, name |-> ColumnsOf(name)[k],
                    reveals |-> reveals[ColumnsOf(name)[k]]]
    OBVIOUS
<1> HIDE DEF d
<1>4. OfTable(name, as, reveals).columns = d /\ OfTable(name, as, reveals).refs = {}
    BY <1>2 DEF Success
<1> QED BY <1>2, <1>3, <1>4

(* The rows of a union, and what it is sorted by.                          *)
Rows(l, r) ==
    [i \in DOMAIN l |-> [as |-> "", name |-> l[i].name,
                         reveals |-> l[i].reveals \cup r[i].reveals]]

Order(order) == Success(OneColumn("", Hidden(Revealed(order.columns))), order.refs)

(* It is made of them as a select is of its parts.                         *)
LEMMA UnionIsChosen ==
    ASSUME NEW l, NEW r, NEW order, NEW lock, OfUnion(l, r, order, lock).ok
    PROVE  /\ DOMAIN l = DOMAIN r
           /\ OfUnion(l, r, order, lock) =
                 Chosen(Blank, Order(order), Rows(l, r), IF lock THEN {Unseen} ELSE {})
<1>1. ~Failure.ok
    BY DEF Failure
<1>2. OfUnion(l, r, order, lock) =
        IF DOMAIN l # DOMAIN r THEN Failure
        ELSE Chosen(Blank, Order(order), Rows(l, r), IF lock THEN {Unseen} ELSE {})
    BY DEF OfUnion, Rows, Order
<1> QED BY <1>1, <1>2

(* What is made of lists of columns.                                       *)
LEMMA MadeOfLists ==
    /\ \A name, as, reveals : (name \in TableNames => IsList(ColumnsOf(name)))
           => IsList(OfTable(name, as, reveals).columns)
    /\ \A c, as : IsList(c) => IsList(Renamed(c, as)) /\ DOMAIN Renamed(c, as) = DOMAIN c
    /\ \A db, f, arg : IsList(OfCall(db, f, arg).columns)
    /\ \A l, r, order, lock : IsList(l) => IsList(OfUnion(l, r, order, lock).columns)
    /\ \A item, where, offered, own :
           IsList(item.columns) /\ IsList(offered)
           => IsList(Chosen(item, where, offered, own).columns)
<1> USE ListFacts DEF Success, Failure
<1>1. ASSUME NEW name, NEW as, NEW reveals, name \in TableNames => IsList(ColumnsOf(name))
      PROVE  IsList(OfTable(name, as, reveals).columns)
  <2> DEFINE d == [i \in DOMAIN ColumnsOf(name) |->
                     [as |-> as, name |-> ColumnsOf(name)[i],
                      reveals |-> reveals[ColumnsOf(name)[i]]]]
  <2>1. d = [i \in DOMAIN ColumnsOf(name) |-> d[i]]
      OBVIOUS
  <2>2. OfTable(name, as, reveals).columns =
        IF name \notin TableNames \/ as = "" THEN <<>> ELSE d
      BY DEF OfTable
  <2> HIDE DEF d
  <2>3. name \in TableNames => IsList(d)
      BY <1>1, <2>1, ListOfList
  <2> QED BY <2>2, <2>3
<1>2. ASSUME NEW c, NEW as, IsList(c)
      PROVE  IsList(Renamed(c, as)) /\ DOMAIN Renamed(c, as) = DOMAIN c
  <2>1. Renamed(c, as) = [k \in DOMAIN c |-> Renamed(c, as)[k]]
      BY DEF Renamed
  <2> QED BY <1>2, <2>1, ListOfList
<1>3. \A db, f, arg : IsList(OfCall(db, f, arg).columns)
    BY OneColumnFacts DEF OfCall
<1>4. ASSUME NEW item, NEW where, NEW offered, NEW own,
             IsList(item.columns), IsList(offered)
      PROVE  IsList(Chosen(item, where, offered, own).columns)
  <2> DEFINE picked == IF item.columns = <<>> THEN offered ELSE item.columns
  <2>1. IsList(picked)
      BY <1>4
  <2> HIDE DEF picked
  <2>2. ASSUME NEW besides
        PROVE  IsList(Adding(picked, besides))
    <3>1. Adding(picked, besides) = [k \in DOMAIN picked |-> Adding(picked, besides)[k]]
        BY DEF Adding
    <3> QED BY <2>1, <3>1, ListOfList
  <2> QED BY <2>2, Zenon DEF Chosen, picked, Success, Failure
<1>5. ASSUME NEW l, NEW r, NEW order, NEW lock, IsList(l)
      PROVE  IsList(OfUnion(l, r, order, lock).columns)
  <2> DEFINE own == IF lock THEN {Unseen} ELSE {}
  <2>1. Rows(l, r) = [i \in DOMAIN l |-> Rows(l, r)[i]]
      BY DEF Rows
  <2>2. IsList(Rows(l, r))
      BY <1>5, <2>1, ListOfList
  <2>3. IsList(Blank.columns)
      BY DEF Blank
  <2>4. IsList(Chosen(Blank, Order(order), Rows(l, r), own).columns)
      BY <1>4, <2>2, <2>3
  <2>5. OfUnion(l, r, order, lock) =
        IF DOMAIN l # DOMAIN r THEN Failure ELSE Chosen(Blank, Order(order), Rows(l, r), own)
      BY DEF OfUnion, Rows, Order
  <2> QED BY <2>4, <2>5
<1> QED BY <1>1, <1>2, <1>3, <1>4, <1>5

(* What a table reveals in each column, and a masked one.                  *)
TableReveals(n) ==
    [c \in Range(ColumnsOf(n.name)) |->
        IF n.db \in {"", "own"} THEN {<<Behind(n.name), c>>} ELSE {Elsewhere}]

MaskedReveals(n) ==
    [c \in DOMAIN n.modes |->
        IF n.modes[c] \in {"partial", "full"} THEN {} ELSE {<<n.name, c>>}]

Kinds == {"column", "call", "subquery", "star", "nothing", "table", "masked", "derived",
          "join", "select", "union", "insert", "update", "delete"}

(* What the target takes, it takes in all parts.                           *)
LEMMA TakenInParts ==
    ASSUME NEW n, NEW part, Contribution(n, part).ok
    PROVE  \A j \in PartsOf(n) : part[j].ok
BY DEF Contribution, Failure

(* What it does not take in a part, it does not take.                      *)
LEMMA RefusedInParts ==
    ASSUME NEW n, NEW part, NEW j \in PartsOf(n), ~part[j].ok
    PROVE  Contribution(n, part) = Failure
BY DEF Contribution

(* The definition of Contribution, kind by kind, of a node whose parts the *)
(* target takes.                                                           *)
ByKind(n, part, c) ==
    /\ n.t = "column" => c = Success(OneColumn(n.c, {}), {[q |-> n.q, c |-> n.c]})
    /\ n.t = "call" => n.arg \in PartsOf(n) /\ c = OfCall(n.db, n.f, part[n.arg])
    /\ n.t = "subquery" =>
          /\ n.select \in PartsOf(n)
          /\ c = IF DOMAIN part[n.select].columns = {1} THEN part[n.select] ELSE Failure
    /\ n.t \in {"star", "nothing"} => c = Blank
    /\ n.t = "table" =>
          c = OfTable(n.name, IF n.as = "" THEN n.name ELSE n.as, TableReveals(n))
    /\ n.t = "masked" => c = OfTable(n.name, n.as, MaskedReveals(n))
    /\ n.t = "derived" => /\ n.select \in PartsOf(n)
                          /\ c = Success(Renamed(part[n.select].columns, n.as), {})
    /\ n.t = "join" =>
          /\ n.left \in PartsOf(n) /\ n.right \in PartsOf(n)
          /\ c = Success(part[n.left].columns \o part[n.right].columns, {})
    /\ n.t = "select" =>
          /\ n.item \in PartsOf(n) /\ n.where \in PartsOf(n) /\ n.from \in PartsOf(n)
          /\ c = Chosen(part[n.item], part[n.where], part[n.from].columns,
                        IF n.extra = "none" THEN {} ELSE {Locks})
    /\ n.t = "union" =>
          /\ n.left \in PartsOf(n) /\ n.right \in PartsOf(n) /\ n.order \in PartsOf(n)
          /\ c = OfUnion(part[n.left].columns, part[n.right].columns, part[n.order], n.lock)
    /\ n.t = "insert" =>
          /\ n.into \in PartsOf(n) /\ n.select \in PartsOf(n)
          /\ c = Chosen(Blank, Blank,
                        part[n.into].columns \o Renamed(part[n.select].columns, "new"),
                        IF n.replace THEN {OtherKind} ELSE {})
    /\ n.t \in {"update", "delete"} =>
          /\ n.where \in PartsOf(n) /\ n.into \in PartsOf(n)
          /\ c = Chosen(Blank, part[n.where], part[n.into].columns,
                        IF part[n.where].columns = <<>> THEN {Everything} ELSE {})
    /\ n.t \notin Kinds => c = Success(OneColumn("", {OtherKind}), {})

(* It is what Contribution comes to.                                       *)
LEMMA OfEachKind ==
    ASSUME NEW n, NEW part, \A j \in PartsOf(n) : part[j].ok
    PROVE  ByKind(n, part, Contribution(n, part))
<1>1. ~ \E j \in PartsOf(n) : ~part[j].ok
    OBVIOUS
<1>2. CASE n.t \in {"column", "call", "subquery"}
    BY <1>1, <1>2 DEF Contribution, PartsOf, ByKind, Kinds
<1>3. CASE n.t \in {"star", "nothing", "table", "masked"}
    BY <1>1, <1>3 DEF Contribution, PartsOf, ByKind, Kinds, TableReveals, MaskedReveals
<1>4. CASE n.t \in {"derived", "join", "select", "union"}
    BY <1>1, <1>4 DEF Contribution, PartsOf, ByKind, Kinds
<1>5. CASE n.t \in {"insert", "update", "delete"}
    BY <1>1, <1>5 DEF Contribution, PartsOf, ByKind, Kinds
<1>6. CASE n.t \notin Kinds
    BY <1>1, <1>6 DEF Contribution, PartsOf, ByKind, Kinds
<1> QED BY <1>2, <1>3, <1>4, <1>5, <1>6 DEF Kinds

(* A table has columns.                                                    *)
LEMMA TableColumns ==
    ASSUME NEW name \in TableNames
    PROVE  IsList(ColumnsOf(name)) /\ DOMAIN ColumnsOf(name) # {}
<1>1. Behind(name) \in DOMAIN BaseTables
    BY TablesAssumption DEF Behind, TableNames
<1>2. IsList(ColumnsOf(name)) /\ ColumnsOf(name) # <<>>
    BY <1>1, TablesAssumption DEF ColumnsOf, IsList
<1> QED BY <1>2, ListFacts

(* What a node contributes is a list of columns.                           *)
LEMMA ColumnsAreListed ==
    ASSUME NEW s, PartsFirst(s)
    PROVE  \A i \in DOMAIN s : IsList(Contributions(s)[i].columns)
<1> DEFINE C == Contributions(s)
           H == {i \in DOMAIN s : IsList(C[i].columns)}
<1> HIDE DEF C
<1>1. ASSUME NEW i \in DOMAIN s, PartsOf(s[i]) \subseteq H
      PROVE  IsList(C[i].columns)
  <2> DEFINE n == s[i]
  <2>1. C[i] = Contribution(n, C)
      BY Contributed DEF C
  <2>2. \A j \in PartsOf(n) : IsList(C[j].columns)
      BY <1>1
  <2> HIDE DEF n, H
  <2>3. IsList(<<>>) /\ \A x : IsList(<<x>>)
      BY ListFacts
  <2>4. CASE \E j \in PartsOf(n) : ~C[j].ok
    <3>1. C[i] = Failure
        BY <2>1, <2>4, RefusedInParts
    <3> QED BY <2>3, <3>1 DEF Failure
  <2>5. CASE \A j \in PartsOf(n) : C[j].ok
    <3>0. ByKind(n, C, C[i])
        BY <2>1, <2>5, OfEachKind
    <3>1. CASE n.t = "column"
      <4>1. C[i] = Success(OneColumn(n.c, {}), {[q |-> n.q, c |-> n.c]})
          BY <3>0, <3>1 DEF ByKind
      <4>2. \E name, reveals : C[i].columns = OneColumn(name, reveals)
          BY <4>1 DEF Success
      <4> QED BY <4>2, OneColumnFacts
    <3>2. CASE n.t = "call"
      <4>1. C[i] = OfCall(n.db, n.f, C[n.arg])
          BY <3>0, <3>2 DEF ByKind
      <4> QED BY <4>1, MadeOfLists
    <3>3. CASE n.t = "subquery"
      <4>1. (C[i] = C[n.select] \/ C[i] = Failure) /\ n.select \in PartsOf(n)
          BY <3>0, <3>3 DEF ByKind
      <4> QED BY <2>2, <2>3, <4>1 DEF Failure
    <3>4. CASE n.t \in {"star", "nothing"}
      <4>1. C[i] = Blank
          BY <3>0, <3>4 DEF ByKind
      <4> QED BY <2>3, <4>1 DEF Success, Blank
    <3>5. CASE n.t \in {"table", "masked"}
      <4>1. \E as, reveals : C[i] = OfTable(n.name, as, reveals)
          BY <3>0, <3>5 DEF ByKind
      <4> QED BY <4>1, TableColumns, MadeOfLists
    <3>6. CASE n.t = "derived"
      <4>1. /\ C[i] = Success(Renamed(C[n.select].columns, n.as), {})
            /\ n.select \in PartsOf(n)
          BY <3>0, <3>6 DEF ByKind
      <4>2. IsList(Renamed(C[n.select].columns, n.as))
          BY <2>2, <4>1, MadeOfLists
      <4> QED BY <4>1, <4>2 DEF Success
    <3>7. CASE n.t = "join"
      <4>1. /\ C[i] = Success(C[n.left].columns \o C[n.right].columns, {})
            /\ n.left \in PartsOf(n) /\ n.right \in PartsOf(n)
          BY <3>0, <3>7 DEF ByKind
      <4>2. IsList(C[n.left].columns \o C[n.right].columns)
          BY <2>2, <4>1, Concatenated
      <4> QED BY <4>1, <4>2 DEF Success
    <3>8. CASE n.t = "select"
      <4>1. /\ \E own : C[i] = Chosen(C[n.item], C[n.where], C[n.from].columns, own)
            /\ n.item \in PartsOf(n) /\ n.from \in PartsOf(n)
          BY <3>0, <3>8 DEF ByKind
      <4> QED BY <2>2, <4>1, MadeOfLists
    <3>9. CASE n.t = "union"
      <4>1. /\ C[i] = OfUnion(C[n.left].columns, C[n.right].columns, C[n.order], n.lock)
            /\ n.left \in PartsOf(n)
          BY <3>0, <3>9 DEF ByKind
      <4> QED BY <2>2, <4>1, MadeOfLists
    <3>10. CASE n.t \in {"insert", "update", "delete"}
      <4>1. IsList(Blank.columns)
          BY <2>3 DEF Blank, Success
      <4>2. CASE n.t = "insert"
        <5>1. /\ \E own : C[i] = Chosen(Blank, Blank,
                         C[n.into].columns \o Renamed(C[n.select].columns, "new"), own)
              /\ n.into \in PartsOf(n) /\ n.select \in PartsOf(n)
            BY <3>0, <4>2 DEF ByKind
        <5>2. IsList(Renamed(C[n.select].columns, "new"))
            BY <2>2, <5>1, MadeOfLists
        <5>3. IsList(C[n.into].columns \o Renamed(C[n.select].columns, "new"))
            BY <2>2, <5>1, <5>2, Concatenated
        <5> QED BY <4>1, <5>1, <5>3, MadeOfLists
      <4>3. CASE n.t \in {"update", "delete"}
        <5>1. /\ \E own : C[i] = Chosen(Blank, C[n.where], C[n.into].columns, own)
              /\ n.into \in PartsOf(n)
            BY <3>0, <4>3 DEF ByKind
        <5> QED BY <2>2, <4>1, <5>1, MadeOfLists
      <4> QED BY <3>10, <4>2, <4>3
    <3>11. CASE n.t \notin Kinds
      <4>1. C[i] = Success(OneColumn("", {OtherKind}), {})
          BY <3>0, <3>11 DEF ByKind
      <4>2. \A c, r : Success(c, r).columns = c
          BY DEF Success
      <4>3. C[i].columns = OneColumn("", {OtherKind})
          BY <4>1, <4>2
      <4>4. IsList(OneColumn("", {OtherKind}))
          BY OneColumnFacts
      <4> QED BY <4>3, <4>4
    <3> QED BY <3>1, <3>2, <3>3, <3>4, <3>5, <3>6, <3>7, <3>8, <3>9, <3>10, <3>11 DEF Kinds
  <2> QED BY <2>4, <2>5
<1>2. \A i \in DOMAIN s : PartsOf(s[i]) \subseteq H => i \in H
    BY <1>1
<1>3. \A i \in DOMAIN s : i \in H
  <2> HIDE DEF H
  <2> QED BY <1>2, FromTheParts
<1> QED BY <1>3 DEF C

(* What the target takes has columns where it needs them.                  *)
LEMMA ColumnsNeeded ==
    ASSUME NEW s, PartsFirst(s), IsTree(s)
    PROVE  \A i \in DOMAIN s :
              LET c == Contributions(s)[i]
              IN c.ok => /\ s[i].t \in Expression => DOMAIN c.columns = {1}
                         /\ s[i].t \in Source \cup Reads => DOMAIN c.columns # {}
                         /\ s[i].t \in {"star", "nothing"} => c.columns = <<>>
<1> DEFINE C == Contributions(s)
           Needed(i) ==
              C[i].ok => /\ s[i].t \in Expression => DOMAIN C[i].columns = {1}
                         /\ s[i].t \in Source \cup Reads => DOMAIN C[i].columns # {}
                         /\ s[i].t \in {"star", "nothing"} => C[i].columns = <<>>
           H == {i \in DOMAIN s : Needed(i)}
<1> HIDE DEF C
<1>1. ASSUME NEW i \in DOMAIN s, PartsOf(s[i]) \subseteq H
      PROVE  Needed(i)
  <2> SUFFICES ASSUME C[i].ok PROVE Needed(i)
      OBVIOUS
  <2> DEFINE n == s[i]
  <2>1. C[i] = Contribution(n, C)
      BY Contributed DEF C
  <2>2. \A j \in PartsOf(n) : C[j].ok
      BY <2>1, TakenInParts
  <2>3. \A j \in PartsOf(n) : IsList(C[j].columns)
    <3>1. PartsOf(n) \subseteq DOMAIN s
        BY <1>1
    <3> HIDE DEF n, H
    <3> QED BY <3>1, ColumnsAreListed DEF C
  <2>4. \A j \in PartsOf(n) : Needed(j)
      BY <1>1
  <2>5. Grammatical(s, n)
      BY DEF IsTree
  <2>6. ByKind(n, C, C[i])
      BY <2>1, <2>2, OfEachKind
  <2>17. s[i].t = n.t
      OBVIOUS
  <2> HIDE DEF n, H
  <2> USE <2>17 DEF Expression, Source, Reads
  <2>7. CASE n.t = "column"
    <3>1. C[i] = Success(OneColumn(n.c, {}), {[q |-> n.q, c |-> n.c]})
        BY <2>6, <2>7 DEF ByKind
    <3>2. C[i].columns = OneColumn(n.c, {})
        BY <3>1 DEF Success
    <3> QED BY <2>7, <3>2, OneColumnFacts
  <2>8. CASE n.t = "call"
    <3>1. C[i] = OfCall(n.db, n.f, C[n.arg])
        BY <2>6, <2>8 DEF ByKind
    <3>2. \E reveals : C[i].columns = OneColumn(n.f, reveals)
        BY <3>1 DEF OfCall, Success
    <3> QED BY <2>8, <3>2, OneColumnFacts
  <2>9. CASE n.t = "subquery"
    <3>1. C[i] = IF DOMAIN C[n.select].columns = {1} THEN C[n.select] ELSE Failure
        BY <2>6, <2>9 DEF ByKind
    <3>2. C[i] # Failure
        BY DEF Failure
    <3> QED BY <2>9, <3>1, <3>2
  <2>10. CASE n.t \in {"star", "nothing"}
    <3>1. C[i] = Blank
        BY <2>6, <2>10 DEF ByKind
    <3> QED BY <2>10, <3>1 DEF Blank, Success
  <2>11. CASE n.t = "table"
    <3> DEFINE name == n.name
    <3>1. PICK as, reveals : C[i] = OfTable(name, as, reveals)
        BY <2>6, <2>11 DEF ByKind
    <3> HIDE DEF name
    <3>2. OfTable(name, as, reveals).ok
        BY <3>1
    <3>3. name \in TableNames /\ DOMAIN C[i].columns = DOMAIN ColumnsOf(name)
        BY <3>1, <3>2, TableFacts
    <3> QED BY <2>11, <3>3, TableColumns
  <2>12. CASE n.t = "derived"
    <3>1. /\ C[i] = Success(Renamed(C[n.select].columns, n.as), {})
          /\ n.select \in PartsOf(n)
        BY <2>6, <2>12 DEF ByKind
    <3>2. s[n.select].t \in Reads
        BY <2>5, <2>12 DEF Grammatical
    <3>3. DOMAIN C[n.select].columns # {}
        BY <2>2, <2>4, <3>1, <3>2
    <3> QED BY <2>12, <3>1, <3>3 DEF Renamed, Success
  <2>13. CASE n.t = "join"
    <3> DEFINE l == C[n.left].columns
               r == C[n.right].columns
    <3>1. C[i] = Success(l \o r, {}) /\ n.left \in PartsOf(n) /\ n.right \in PartsOf(n)
        BY <2>6, <2>13 DEF ByKind
    <3>2. s[n.left].t \in Source
        BY <2>5, <2>13 DEF Grammatical
    <3>3. DOMAIN l # {} /\ IsList(l) /\ IsList(r)
        BY <2>2, <2>3, <2>4, <3>1, <3>2
    <3> HIDE DEF l, r
    <3>4. Len(l) \in Nat /\ Len(r) \in Nat /\ DOMAIN l = 1 .. Len(l)
        BY <3>3, ListFacts
    <3>5. DOMAIN (l \o r) = 1 .. Len(l) + Len(r)
        BY <3>3, Concatenated
    <3>6. 1 \in DOMAIN (l \o r)
        BY <3>3, <3>4, <3>5
    <3> QED BY <2>13, <3>1, <3>6 DEF Success
  <2>14. CASE n.t = "union"
    <3> DEFINE l == C[n.left].columns
               both == Rows(l, C[n.right].columns)
               order == Order(C[n.order])
    <3>1. /\ C[i] = OfUnion(l, C[n.right].columns, C[n.order], n.lock)
          /\ n.left \in PartsOf(n)
        BY <2>6, <2>14 DEF ByKind
    <3>2. s[n.left].t \in Reads
        BY <2>5, <2>14 DEF Grammatical
    <3>3. DOMAIN l # {}
        BY <2>2, <2>4, <3>1, <3>2
    <3>4. \E own : C[i] = Chosen(Blank, order, both, own)
        BY <3>1, UnionIsChosen
    <3>5. DOMAIN both # {}
        BY <3>3 DEF Rows
    <3>6. Blank.columns = <<>>
        BY DEF Blank, Success
    <3> HIDE DEF both, order
    <3> QED BY <2>14, <3>4, <3>5, <3>6 DEF Chosen, Adding, Success, Failure
  <2>15. CASE n.t = "select"
    <3> DEFINE item == C[n.item]
               where == C[n.where]
               offered == C[n.from].columns
    <3>1. /\ \E own : C[i] = Chosen(item, where, offered, own)
          /\ n.item \in PartsOf(n) /\ n.from \in PartsOf(n)
        BY <2>6, <2>15 DEF ByKind
    <3>2. s[n.from].t \in Source
        BY <2>5, <2>15 DEF Grammatical
    <3>3. DOMAIN offered # {}
        BY <2>2, <2>4, <3>1, <3>2
    <3>4. item.columns # <<>> => DOMAIN item.columns # {}
        BY <2>3, <3>1, ListFacts
    <3> HIDE DEF item, where, offered
    <3> QED BY <2>15, <3>1, <3>3, <3>4 DEF Chosen, Adding, Success, Failure
  <2>16. CASE n.t \notin {"column", "star", "nothing", "call", "subquery", "derived",
                          "table", "join", "union", "select"}
      BY <2>16
  <2> QED BY <2>7, <2>8, <2>9, <2>10, <2>11, <2>12, <2>13, <2>14, <2>15, <2>16
<1>2. \A i \in DOMAIN s : PartsOf(s[i]) \subseteq H => i \in H
    BY <1>1
<1>3. \A i \in DOMAIN s : i \in H
  <2> HIDE DEF H
  <2> QED BY <1>2, FromTheParts
<1> QED BY <1>3 DEF C

-----------------------------------------------------------------------------
(* What statements reveal.                                                 *)

(* What is revealed by columns that are made of others.                    *)
LEMMA RevealedOf ==
    ASSUME NEW c, NEW d, DOMAIN d = DOMAIN c, NEW more,
           \A k \in DOMAIN c : d[k].reveals = c[k].reveals \cup more
    PROVE  /\ Revealed(d) \subseteq Revealed(c) \cup more
           /\ DOMAIN c # {} => Revealed(d) = Revealed(c) \cup more
           /\ more = {} => Revealed(d) = Revealed(c)
<1>1. Revealed(d) \subseteq Revealed(c) \cup more
    BY DEF Revealed
<1>2. Revealed(c) \subseteq Revealed(d)
    BY DEF Revealed
<1>3. DOMAIN c # {} => more \subseteq Revealed(d)
    BY DEF Revealed
<1> QED BY <1>1, <1>2, <1>3

(* Such are those that depend on references and a condition.               *)
LEMMA AddingReveals ==
    ASSUME NEW c, NEW besides
    PROVE  /\ DOMAIN Adding(c, besides) = DOMAIN c
           /\ Revealed(Adding(c, besides)) \subseteq Revealed(c) \cup besides
           /\ DOMAIN c # {} => Revealed(Adding(c, besides)) = Revealed(c) \cup besides
<1> DEFINE d == Adding(c, besides)
<1>1. DOMAIN d = DOMAIN c
    BY DEF Adding
<1>2. \A k \in DOMAIN c : d[k].reveals = c[k].reveals \cup besides
    BY DEF Adding
<1> HIDE DEF d
<1> QED BY <1>1, <1>2, RevealedOf DEF d

(* Another name reveals nothing.                                           *)
LEMMA RenamedReveals ==
    ASSUME NEW c, NEW as
    PROVE  DOMAIN Renamed(c, as) = DOMAIN c /\ Revealed(Renamed(c, as)) = Revealed(c)
<1> DEFINE d == Renamed(c, as)
<1>1. DOMAIN d = DOMAIN c
    BY DEF Renamed
<1>2. \A k \in DOMAIN c : d[k].reveals = c[k].reveals
    BY DEF Renamed
<1> HIDE DEF d
<1> QED BY <1>1, <1>2 DEF d, Revealed

(* A call reveals what its argument and its function do.                   *)
LEMMA CallReveals ==
    ASSUME NEW db, NEW f, NEW arg
    PROVE  Revealed(OfCall(db, f, arg).columns) = Revealed(arg.columns) \cup ReadIn(db, f)
<1> DEFINE all == Revealed(arg.columns) \cup ReadIn(db, f)
<1>1. OfCall(db, f, arg).columns = OneColumn(f, all)
    BY DEF OfCall, Success
<1> HIDE DEF all
<1>2. Revealed(OneColumn(f, all)) = all
    BY OneColumnFacts
<1> QED BY <1>1, <1>2 DEF all

(* A table reveals what its columns do.                                    *)
LEMMA TableRevealed ==
    ASSUME NEW name, NEW as, NEW reveals
    PROVE  /\ Revealed(OfTable(name, as, reveals).columns) \subseteq
                 UNION {reveals[c] : c \in Range(ColumnsOf(name))}
           /\ OfTable(name, as, reveals).ok =>
                 UNION {reveals[c] : c \in Range(ColumnsOf(name))} \subseteq
                 Revealed(OfTable(name, as, reveals).columns)
<1> DEFINE cols == ColumnsOf(name)
           d == [i \in DOMAIN cols |->
                     [as |-> as, name |-> cols[i], reveals |-> reveals[cols[i]]]]
           t == OfTable(name, as, reveals)
           all == UNION {reveals[c] : c \in Range(cols)}
<1>1. t = Failure \/ t = Success(d, {})
    BY DEF OfTable
<1>2. DOMAIN d = DOMAIN cols /\ \A k \in DOMAIN cols : d[k].reveals = reveals[cols[k]]
    OBVIOUS
<1> HIDE DEF d, t, cols
<1>3. Revealed(d) = all
    BY <1>2 DEF Revealed, Range
<1> HIDE DEF all
<1>4. CASE t = Failure
  <2>1. ~t.ok /\ Revealed(t.columns) = {}
      BY <1>4 DEF Failure, Revealed
  <2> QED BY <2>1 DEF t, all, cols
<1>5. CASE t = Success(d, {})
  <2>1. t.columns = d
      BY <1>5 DEF Success
  <2> QED BY <1>3, <2>1 DEF t, all, cols
<1> QED BY <1>1, <1>4, <1>5

(* A reference reads nothing but what is offered.                          *)
LEMMA ReadByOffered ==
    ASSUME NEW refs, NEW offered
    PROVE  ReadBy(refs, offered) \subseteq Revealed(offered)
BY DEF ReadBy, Matching, Revealed

(* A select reveals nothing but what its parts and what it adds reveal,    *)
(* and all of that which is forbidden.                                     *)
LEMMA ChosenReveals ==
    ASSUME NEW item, NEW where, NEW offered, NEW own
    PROVE  /\ Revealed(Chosen(item, where, offered, own).columns) \subseteq
                 Revealed(item.columns) \cup Revealed(where.columns)
                     \cup Revealed(offered) \cup own
           /\ Chosen(item, where, offered, own).ok /\ DOMAIN offered # {}
              /\ IsList(item.columns) =>
                 Harm \cap (Revealed(item.columns) \cup Revealed(where.columns)
                                     \cup Revealed(offered) \cup own) \subseteq
                 Revealed(Chosen(item, where, offered, own).columns)
<1> DEFINE d == Chosen(item, where, offered, own)
           refs == item.refs \cup where.refs
           picked == IF item.columns = <<>> THEN offered ELSE item.columns
           besides == own \cup Revealed(where.columns) \cup ReadBy(refs, offered)
                        \cup (Revealed(offered) \cap Harm)
           all == Revealed(item.columns) \cup Revealed(where.columns)
                    \cup Revealed(offered) \cup own
<1>1. d = Failure \/ d = Success(Adding(picked, besides), {})
    BY DEF Chosen
<1>2. besides \subseteq all /\ Revealed(picked) \subseteq all
    BY ReadByOffered
<1>3. Harm \cap all \subseteq Revealed(picked) \cup besides
  <2>1. item.columns = <<>> => Revealed(item.columns) = {}
      BY DEF Revealed
  <2> QED BY <2>1
<1>4. DOMAIN offered # {} /\ IsList(item.columns) => DOMAIN picked # {}
    BY ListFacts
<1> HIDE DEF besides, picked, all, d
<1>5. CASE d = Failure
  <2>1. ~d.ok /\ Revealed(d.columns) = {}
      BY <1>5 DEF Failure, Revealed
  <2> QED BY <2>1 DEF d
<1>6. CASE d = Success(Adding(picked, besides), {})
  <2>1. d.columns = Adding(picked, besides)
      BY <1>6 DEF Success
  <2>2. Revealed(d.columns) \subseteq all
      BY <1>2, <2>1, AddingReveals
  <2>3. DOMAIN picked # {} => Harm \cap all \subseteq Revealed(d.columns)
      BY <1>3, <2>1, AddingReveals
  <2> QED BY <1>4, <2>2, <2>3 DEF d, all
<1> QED BY <1>1, <1>5, <1>6

(* A union reveals what both its sides do and what sorts it, with what is  *)
(* forbidden of that unseen.                                               *)
LEMMA UnionReveals ==
    ASSUME NEW l, NEW r, NEW order, NEW lock
    PROVE  LET d == Revealed(OfUnion(l, r, order, lock).columns)
               all == Revealed(l) \cup Revealed(r) \cup Hidden(Revealed(order.columns))
                        \cup (IF lock THEN {Unseen} ELSE {})
           IN /\ d \subseteq all
              /\ OfUnion(l, r, order, lock).ok /\ DOMAIN l # {} => Harm \cap all \subseteq d
<1> DEFINE u == OfUnion(l, r, order, lock)
           own == IF lock THEN {Unseen} ELSE {}
           sorts == Hidden(Revealed(order.columns))
           all == Revealed(l) \cup Revealed(r) \cup sorts \cup own
<1>1. Revealed(<<>>) = {}
    BY DEF Revealed
<1>2. Blank.columns = <<>> /\ IsList(Blank.columns)
    BY ListFacts DEF Blank, Success
<1>3. Revealed(Order(order).columns) = sorts
  <2>1. Order(order).columns = OneColumn("", sorts)
      BY DEF Order, Success
  <2> HIDE DEF sorts
  <2> QED BY <2>1, OneColumnFacts
<1>4. CASE DOMAIN l # DOMAIN r
  <2>1. u = Failure
      BY <1>4 DEF OfUnion
  <2>2. ~u.ok /\ Revealed(u.columns) = {}
      BY <1>1, <2>1 DEF Failure
  <2> HIDE DEF u, all
  <2>3. Revealed(u.columns) \subseteq all /\ ~u.ok
      BY <2>2
  <2> QED BY <2>3 DEF u, all, sorts, own
<1>5. CASE DOMAIN l = DOMAIN r
  <2> DEFINE both == Rows(l, r)
  <2>1. u = Chosen(Blank, Order(order), both, own)
      BY <1>5 DEF OfUnion, Rows, Order
  <2>2. DOMAIN both = DOMAIN l
        /\ \A k \in DOMAIN l : both[k].reveals = l[k].reveals \cup r[k].reveals
      BY DEF Rows
  <2> HIDE DEF u, own, sorts, both
  <2>3. Revealed(both) = Revealed(l) \cup Revealed(r)
      BY <1>5, <2>2 DEF Revealed
  <2>4. /\ Revealed(u.columns) \subseteq sorts \cup Revealed(both) \cup own
        /\ u.ok /\ DOMAIN both # {} =>
              Harm \cap (sorts \cup Revealed(both) \cup own) \subseteq Revealed(u.columns)
      BY <1>1, <1>2, <1>3, <2>1, ChosenReveals
  <2>5. /\ Revealed(u.columns) \subseteq all
        /\ u.ok /\ DOMAIN l # {} => Harm \cap all \subseteq Revealed(u.columns)
      BY <2>2, <2>3, <2>4
  <2> QED BY <2>5 DEF u, all, sorts, own
<1> QED BY <1>4, <1>5

(* What a node reveals that none of its parts does.                        *)
Own(n, part) ==
    CASE n.t = "call" -> ReadIn(n.db, n.f)
      [] n.t = "table" -> UNION {TableReveals(n)[c] : c \in Range(ColumnsOf(n.name))}
      [] n.t = "masked" -> UNION {MaskedReveals(n)[c] : c \in Range(ColumnsOf(n.name))}
      [] n.t = "select" -> IF n.extra = "none" THEN {} ELSE {Locks}
      [] n.t = "insert" -> IF n.replace THEN {OtherKind} ELSE {}
      [] n.t \in {"update", "delete"} ->
             IF part[n.where].columns = <<>> THEN {Everything} ELSE {}
      [] n.t = "union" ->
             IF n.lock \/ Revealed(part[n.order].columns) \cap Forbidden # {}
             THEN {Unseen} ELSE {}
      [] n.t \in {"column", "subquery", "star", "nothing", "derived", "join"} -> {}
      [] OTHER -> {OtherKind}

OfParts(n, part) == UNION {Revealed(part[j].columns) : j \in PartsOf(n)}

OfFollowed(n, part) == UNION {Revealed(part[j].columns) : j \in Followed(n)}

(* A node reveals nothing but what its parts do and its own; of what is    *)
(* forbidden nothing but what the parts Walk goes on to do; and all of     *)
(* that, where it is taken.                                                *)
LEMMA OfItsParts ==
    ASSUME NEW s, PartsFirst(s), NEW i \in DOMAIN s
    PROVE  /\ Revealed(Contributions(s)[i].columns) \subseteq
                 Own(s[i], Contributions(s)) \cup OfParts(s[i], Contributions(s))
           /\ Forbidden \cap Revealed(Contributions(s)[i].columns) \subseteq
                 Own(s[i], Contributions(s)) \cup OfFollowed(s[i], Contributions(s))
           /\ IsTree(s) /\ Contributions(s)[i].ok =>
                 Forbidden \cap (Own(s[i], Contributions(s))
                                     \cup OfFollowed(s[i], Contributions(s)))
                 \subseteq Revealed(Contributions(s)[i].columns)
<1> DEFINE C == Contributions(s)
           n == s[i]
           own == Own(n, C)
           all == own \cup OfParts(n, C)
           r == Revealed(C[i].columns)
           R(j) == Revealed(C[j].columns)
           seen == own \cup OfFollowed(n, C)
           Goal == /\ r \subseteq all /\ Forbidden \cap r \subseteq seen
                   /\ IsTree(s) /\ C[i].ok => Forbidden \cap seen \subseteq r
           Whole == r \subseteq all /\ (IsTree(s) /\ C[i].ok => Harm \cap all \subseteq r)
<1> SUFFICES Goal
    OBVIOUS
<1> HIDE DEF C
<1>1. C[i] = Contribution(n, C)
    BY Contributed DEF C
<1>2. \A j \in PartsOf(n) : j \in DOMAIN s /\ IsList(C[j].columns)
  <2>1. PartsOf(n) \subseteq DOMAIN s
      BY DEF PartsFirst
  <2> HIDE DEF n
  <2> QED BY <2>1, ColumnsAreListed DEF C
<1>3. IsTree(s) => Grammatical(s, n)
    BY DEF IsTree
<1>4. IsTree(s) => \A j \in PartsOf(n) :
         C[j].ok /\ s[j].t \in Source \cup Reads => DOMAIN C[j].columns # {}
    BY <1>2, ColumnsNeeded DEF C
<1> HIDE DEF n
<1>5. Revealed(<<>>) = {}
    BY DEF Revealed
<1>6. CASE \E j \in PartsOf(n) : ~C[j].ok
  <2>1. C[i] = Failure
      BY <1>1, <1>6, RefusedInParts
  <2>2. ~C[i].ok /\ r = {}
      BY <1>5, <2>1 DEF Failure
  <2> HIDE DEF all, seen, r
  <2> QED BY <2>2
<1>7. CASE (\A j \in PartsOf(n) : C[j].ok) /\ n.t # "union"
  <2> SUFFICES Whole
    <3>1. seen = all
        BY <1>7 DEF Followed, OfFollowed, OfParts
    <3> HIDE DEF seen, all, r
    <3> QED BY <3>1 DEF Harm
  <2>1. ByKind(n, C, C[i])
      BY <1>1, <1>7, OfEachKind
  <2>2. CASE n.t = "column"
    <3>1. C[i] = Success(OneColumn(n.c, {}), {[q |-> n.q, c |-> n.c]})
        BY <2>1, <2>2 DEF ByKind
    <3>2. C[i].columns = OneColumn(n.c, {})
        BY <3>1 DEF Success
    <3>3. r = {}
        BY <3>2, OneColumnFacts
    <3>4. all = {}
        BY <2>2 DEF Own, OfParts, PartsOf
    <3> QED BY <3>3, <3>4
  <2>3. CASE n.t = "call"
    <3> DEFINE db == n.db
               f == n.f
               arg == C[n.arg]
    <3>1. C[i] = OfCall(db, f, arg)
        BY <2>1, <2>3 DEF ByKind
    <3>2. all = Revealed(arg.columns) \cup ReadIn(db, f)
        BY <2>3 DEF Own, OfParts, PartsOf
    <3> HIDE DEF db, f, arg
    <3>3. r = Revealed(arg.columns) \cup ReadIn(db, f)
        BY <3>1, CallReveals
    <3> QED BY <3>2, <3>3
  <2>4. CASE n.t = "subquery"
    <3>1. C[i] = IF DOMAIN C[n.select].columns = {1} THEN C[n.select] ELSE Failure
        BY <2>1, <2>4 DEF ByKind
    <3>2. all = R(n.select)
        BY <2>4 DEF Own, OfParts, PartsOf
    <3>3. CASE C[i] = C[n.select]
        BY <3>2, <3>3
    <3>4. CASE C[i] = Failure
      <4>1. ~C[i].ok /\ r = {}
          BY <1>5, <3>4 DEF Failure
      <4> HIDE DEF all, r
      <4> QED BY <4>1
    <3> QED BY <3>1, <3>3, <3>4
  <2>5. CASE n.t \in {"star", "nothing"}
    <3>1. C[i] = Blank
        BY <2>1, <2>5 DEF ByKind
    <3>2. r = {}
        BY <1>5, <3>1 DEF Blank, Success
    <3>3. all = {}
        BY <2>5 DEF Own, OfParts, PartsOf
    <3> QED BY <3>2, <3>3
  <2>6. CASE n.t \in {"table", "masked"}
    <3> DEFINE name == n.name
    <3>1. PICK as, reveals : /\ C[i] = OfTable(name, as, reveals)
                             /\ own = UNION {reveals[c] : c \in Range(ColumnsOf(name))}
      <4>1. CASE n.t = "table"
        <5> DEFINE as == IF n.as = "" THEN n.name ELSE n.as
        <5>1. C[i] = OfTable(n.name, as, TableReveals(n))
            BY <2>1, <4>1 DEF ByKind
        <5>2. own = UNION {TableReveals(n)[c] : c \in Range(ColumnsOf(n.name))}
            BY <4>1 DEF Own
        <5> HIDE DEF own, as
        <5> QED BY <5>1, <5>2
      <4>2. CASE n.t = "masked"
        <5>1. C[i] = OfTable(n.name, n.as, MaskedReveals(n))
            BY <2>1, <4>2 DEF ByKind
        <5>2. own = UNION {MaskedReveals(n)[c] : c \in Range(ColumnsOf(n.name))}
            BY <4>2 DEF Own
        <5> HIDE DEF own
        <5> QED BY <5>1, <5>2
      <4> QED BY <2>6, <4>1, <4>2
    <3>2. OfParts(n, C) = {}
        BY <2>6 DEF OfParts, PartsOf
    <3> HIDE DEF name, own
    <3>3. r \subseteq own /\ (C[i].ok => own \subseteq r)
        BY <3>1, TableRevealed
    <3> HIDE DEF r
    <3> QED BY <3>2, <3>3
  <2>7. CASE n.t = "derived"
    <3> DEFINE c == C[n.select].columns
    <3>1. C[i] = Success(Renamed(c, n.as), {})
        BY <2>1, <2>7 DEF ByKind
    <3>2. all = Revealed(c)
        BY <2>7 DEF Own, OfParts, PartsOf
    <3> HIDE DEF c
    <3>3. C[i].columns = Renamed(c, n.as)
        BY <3>1 DEF Success
    <3>4. r = Revealed(c)
        BY <3>3, RenamedReveals
    <3> QED BY <3>2, <3>4
  <2>8. CASE n.t = "join"
    <3> DEFINE left == C[n.left].columns
               right == C[n.right].columns
    <3>1. /\ C[i] = Success(left \o right, {})
          /\ n.left \in PartsOf(n) /\ n.right \in PartsOf(n)
        BY <2>1, <2>8 DEF ByKind
    <3>2. all = Revealed(left) \cup Revealed(right)
        BY <2>8 DEF Own, OfParts, PartsOf
    <3>3. IsList(left) /\ IsList(right)
        BY <1>2, <3>1
    <3> HIDE DEF left, right
    <3>4. C[i].columns = left \o right
        BY <3>1 DEF Success
    <3>5. r = Revealed(left) \cup Revealed(right)
        BY <3>3, <3>4, Concatenated
    <3> QED BY <3>2, <3>5
  <2>9. CASE n.t = "select"
    <3> DEFINE item == C[n.item]
               where == C[n.where]
               offered == C[n.from].columns
               locks == IF n.extra = "none" THEN {} ELSE {Locks}
    <3>1. /\ C[i] = Chosen(item, where, offered, locks)
          /\ n.item \in PartsOf(n) /\ n.from \in PartsOf(n)
        BY <2>1, <2>9 DEF ByKind
    <3>2. all = Revealed(item.columns) \cup Revealed(where.columns)
                  \cup Revealed(offered) \cup locks
        BY <2>9 DEF Own, OfParts, PartsOf
    <3>3. IsTree(s) => DOMAIN offered # {}
      <4>1. IsTree(s) => s[n.from].t \in Source
          BY <1>3, <2>9 DEF Grammatical
      <4> QED BY <1>4, <1>7, <3>1, <4>1
    <3>4. IsList(item.columns)
        BY <1>2, <3>1
    <3> HIDE DEF item, where, offered, locks, all
    <3> QED BY <3>1, <3>2, <3>3, <3>4, ChosenReveals
  <2>10. CASE n.t = "insert"
    <3> DEFINE into == C[n.into].columns
               new == Renamed(C[n.select].columns, "new")
               other == IF n.replace THEN {OtherKind} ELSE {}
    <3>1. /\ C[i] = Chosen(Blank, Blank, into \o new, other)
          /\ n.into \in PartsOf(n) /\ n.select \in PartsOf(n)
        BY <2>1, <2>10 DEF ByKind
    <3>2. Revealed(new) = R(n.select)
        BY RenamedReveals
    <3>3. all = Revealed(into) \cup R(n.select) \cup other
        BY <2>10 DEF Own, OfParts, PartsOf
    <3>4. all = Revealed(into) \cup Revealed(new) \cup other
        BY <3>2, <3>3
    <3>5. IsTree(s) => DOMAIN into # {}
      <4>1. IsTree(s) => s[n.into].t \in Source
          BY <1>3, <2>10 DEF Grammatical, Source
      <4> QED BY <1>4, <1>7, <3>1, <4>1
    <3>6. IsList(into) /\ IsList(new)
        BY <1>2, <3>1, MadeOfLists
    <3> HIDE DEF into, new, other, all
    <3>7. Revealed(into \o new) = Revealed(into) \cup Revealed(new)
        BY <3>6, Concatenated
    <3>8. IsTree(s) => DOMAIN (into \o new) # {}
      <4>1. /\ Len(into) \in Nat /\ Len(new) \in Nat /\ DOMAIN into = 1 .. Len(into)
            /\ DOMAIN (into \o new) = 1 .. Len(into) + Len(new)
          BY <3>6, ListFacts, Concatenated
      <4>2. ASSUME IsTree(s)
            PROVE  1 \in DOMAIN (into \o new)
          BY <3>5, <4>1, <4>2
      <4> QED BY <4>2
    <3>9. Blank.columns = <<>>
        BY DEF Blank, Success
    <3>10. IsList(Blank.columns) /\ Revealed(Blank.columns) = {}
        BY <1>5, <3>9, ListFacts
    <3> DEFINE offered == into \o new
    <3>11. all = Revealed(offered) \cup other
        BY <3>4, <3>7
    <3>12. C[i] = Chosen(Blank, Blank, offered, other)
        BY <3>1
    <3>13. IsTree(s) => DOMAIN offered # {}
        BY <3>8
    <3> HIDE DEF offered
    <3>14. /\ r \subseteq Revealed(offered) \cup other
           /\ C[i].ok /\ DOMAIN offered # {} =>
                 Harm \cap (Revealed(offered) \cup other) \subseteq r
        BY <3>10, <3>12, ChosenReveals
    <3> QED BY <3>11, <3>13, <3>14
  <2>11. CASE n.t \in {"update", "delete"}
    <3> DEFINE into == C[n.into].columns
               where == C[n.where]
               every == IF where.columns = <<>> THEN {Everything} ELSE {}
    <3>1. /\ C[i] = Chosen(Blank, where, into, every)
          /\ n.into \in PartsOf(n)
        BY <2>1, <2>11 DEF ByKind
    <3>2. all = Revealed(into) \cup Revealed(where.columns) \cup every
        BY <2>11 DEF Own, OfParts, PartsOf
    <3>3. IsTree(s) => DOMAIN into # {}
      <4>1. IsTree(s) => s[n.into].t \in Source
          BY <1>3, <2>11 DEF Grammatical, Source
      <4> QED BY <1>4, <1>7, <3>1, <4>1
    <3> HIDE DEF into, where, every, all
    <3>4. Blank.columns = <<>>
        BY DEF Blank, Success
    <3>5. IsList(Blank.columns) /\ Revealed(Blank.columns) = {}
        BY <1>5, <3>4, ListFacts
    <3> QED BY <3>1, <3>2, <3>3, <3>5, ChosenReveals
  <2>12. CASE n.t \notin Kinds
    <3>1. C[i] = Success(OneColumn("", {OtherKind}), {})
        BY <2>1, <2>12 DEF ByKind
    <3>2. \A c, refs : Success(c, refs).columns = c
        BY DEF Success
    <3>3. C[i].columns = OneColumn("", {OtherKind})
        BY <3>1, <3>2
    <3>4. r = {OtherKind}
        BY <3>3, OneColumnFacts
    <3>5. all = {OtherKind}
        BY <2>12 DEF Own, OfParts, PartsOf, Kinds
    <3> QED BY <3>4, <3>5
  <2> QED BY <1>7, <2>2, <2>3, <2>4, <2>5, <2>6, <2>7, <2>8, <2>9, <2>10, <2>11,
             <2>12 DEF Kinds
<1>8. CASE (\A j \in PartsOf(n) : C[j].ok) /\ n.t = "union"
  <2> DEFINE left == C[n.left].columns
             right == C[n.right].columns
             sorts == Revealed(C[n.order].columns)
             locks == IF n.lock THEN {Unseen} ELSE {}
  <2>1. ByKind(n, C, C[i])
      BY <1>1, <1>8, OfEachKind
  <2>2. C[i] = OfUnion(left, right, C[n.order], n.lock) /\ n.left \in PartsOf(n)
      BY <1>8, <2>1 DEF ByKind
  <2>3. IsTree(s) => DOMAIN left # {}
    <3>1. IsTree(s) => s[n.left].t \in Reads
        BY <1>3, <1>8 DEF Grammatical
    <3> QED BY <1>4, <1>8, <2>2, <3>1
  <2>4. all = own \cup Revealed(left) \cup Revealed(right) \cup sorts
      BY <1>8 DEF OfParts, PartsOf
  <2>5. seen = own \cup Revealed(left) \cup Revealed(right)
      BY <1>8 DEF OfFollowed, Followed
  <2>6. own = IF n.lock \/ sorts \cap Forbidden # {} THEN {Unseen} ELSE {}
      BY <1>8 DEF Own
  <2>7. /\ r \subseteq Revealed(left) \cup Revealed(right) \cup Hidden(sorts) \cup locks
        /\ C[i].ok /\ DOMAIN left # {} =>
              Harm \cap (Revealed(left) \cup Revealed(right) \cup Hidden(sorts) \cup locks)
              \subseteq r
      BY <2>2, UnionReveals
  <2> HIDE DEF left, right, sorts, all, seen, own, r
  <2>8. Hidden(sorts) \cup locks \subseteq sorts \cup own
      BY <2>6 DEF Hidden
  <2>9. /\ Hidden(sorts) \cap Forbidden = {} /\ locks \cap Forbidden = {}
        /\ own \cap Forbidden = {}
      BY <2>6, TablesAssumption DEF Hidden
  <2> HIDE DEF locks
  <2>10. Forbidden \subseteq Harm
      BY DEF Harm
  <2>11. r \subseteq all
      BY <2>4, <2>7, <2>8
  <2>12. Forbidden \cap r \subseteq seen
      BY <2>5, <2>7, <2>9
  <2>13. IsTree(s) /\ C[i].ok => Forbidden \cap seen \subseteq r
      BY <2>3, <2>5, <2>7, <2>9, <2>10
  <2> QED BY <2>11, <2>12, <2>13
<1> QED BY <1>6, <1>7, <1>8

(* What no node of a statement reveals of its own, none reveals.           *)
LEMMA NothingOf ==
    ASSUME NEW s, PartsFirst(s), NEW S,
           \A i \in DOMAIN s : Own(s[i], Contributions(s)) \cap S = {}
    PROVE  \A i \in DOMAIN s : Revealed(Contributions(s)[i].columns) \cap S = {}
<1> DEFINE C == Contributions(s)
           R(i) == Revealed(C[i].columns)
           H == {i \in DOMAIN s : R(i) \cap S = {}}
<1>1. ASSUME NEW i \in DOMAIN s, PartsOf(s[i]) \subseteq H
      PROVE  i \in H
  <2>1. R(i) \subseteq Own(s[i], C) \cup OfParts(s[i], C)
      BY OfItsParts
  <2>2. \A j \in PartsOf(s[i]) : R(j) \cap S = {}
      BY <1>1
  <2> HIDE DEF C
  <2>3. OfParts(s[i], C) \cap S = {}
      BY <2>2 DEF OfParts
  <2>4. Own(s[i], C) \cap S = {}
      BY DEF C
  <2> HIDE DEF R
  <2>5. R(i) \cap S = {}
      BY <2>1, <2>3, <2>4
  <2> QED BY <2>5
<1> HIDE DEF H
<1>2. \A i \in DOMAIN s : i \in H
    BY <1>1, FromTheParts
<1> QED BY <1>2 DEF H

(* A statement the target takes, it takes in every node.                   *)
LEMMA TakenInAll ==
    ASSUME NEW s, PartsFirst(s), IsTree(s), Meaning(s).ok
    PROVE  \A i \in DOMAIN s : Contributions(s)[i].ok
<1> DEFINE C == Contributions(s)
           H == {i \in DOMAIN s : ~C[i].ok}
<1>1. ASSUME NEW i \in DOMAIN s, NEW j \in PartsOf(s[i]), j \in H
      PROVE  i \in H
  <2>1. C[i] = Contribution(s[i], C)
      BY Contributed
  <2>2. ~C[j].ok
      BY <1>1
  <2> HIDE DEF C
  <2>3. ~C[i].ok
      BY <2>1, <2>2, TakenInParts
  <2> QED BY <2>3
<1>2. Len(s) \notin H
    BY DEF Meaning
<1> HIDE DEF H
<1>3. H \in SUBSET DOMAIN s
    BY DEF H
<1>4. H = {}
    BY <1>1, <1>2, <1>3, UpToTheLast
<1> QED BY <1>4 DEF H

(* What a node that Walk visits does of its own that is forbidden, the     *)
(* statement shows.                                                        *)
LEMMA HarmShows ==
    ASSUME NEW s, PartsFirst(s), IsTree(s), Meaning(s).ok, NEW i \in Visited(s)
    PROVE  Forbidden \cap Own(s[i], Contributions(s)) \subseteq Revealed(Meaning(s).columns)
<1> DEFINE C == Contributions(s)
           R(k) == Revealed(C[k].columns)
<1>1. \A k \in DOMAIN s : Forbidden \cap (Own(s[k], C) \cup OfFollowed(s[k], C)) \subseteq R(k)
    BY TakenInAll, OfItsParts
<1> HIDE DEF C
<1> SUFFICES ASSUME NEW x \in Forbidden, x \in Own(s[i], C)
             PROVE  x \in R(Len(s))
    BY DEF C, Meaning
<1> DEFINE H == {k \in DOMAIN s : x \in R(k) => x \in R(Len(s))}
<1>2. ASSUME NEW k \in DOMAIN s, k \in H, NEW j \in Followed(s[k])
      PROVE  j \in H
  <2>1. x \in R(j) => x \in OfFollowed(s[k], C)
      BY DEF OfFollowed
  <2>2. x \in R(j) => x \in R(k)
      BY <1>1, <2>1
  <2>3. j \in DOMAIN s
      BY FollowedParts DEF PartsFirst
  <2> QED BY <1>2, <2>2, <2>3
<1>3. Len(s) \in H
    BY DEF PartsFirst, IsTree
<1> HIDE DEF H
<1>4. Visited(s) \subseteq H
    BY <1>2, <1>3, VisitedFromTheLast
<1> USE DEF H
<1>5. i \in DOMAIN s /\ (x \in R(i) => x \in R(Len(s)))
    BY <1>4
<1> QED BY <1>1, <1>5

(* And it shows nothing forbidden if no such node does.                    *)
LEMMA NoHarmShows ==
    ASSUME NEW s, PartsFirst(s), IsTree(s),
           \A i \in Visited(s) : Own(s[i], Contributions(s)) \cap Forbidden = {}
    PROVE  Revealed(Meaning(s).columns) \cap Forbidden = {}
<1> DEFINE C == Contributions(s)
           R(k) == Revealed(C[k].columns)
           H == {i \in DOMAIN s : i \in Visited(s) => R(i) \cap Forbidden = {}}
<1>1. ASSUME NEW i \in DOMAIN s, PartsOf(s[i]) \subseteq H, i \in Visited(s)
      PROVE  R(i) \cap Forbidden = {}
  <2>1. Forbidden \cap R(i) \subseteq Own(s[i], C) \cup OfFollowed(s[i], C)
      BY OfItsParts
  <2>2. Own(s[i], C) \cap Forbidden = {}
      BY <1>1
  <2> HIDE DEF C
  <2>3. \A j \in Followed(s[i]) : R(j) \cap Forbidden = {}
      BY <1>1, FollowedParts, VisitedNodes
  <2>4. OfFollowed(s[i], C) \cap Forbidden = {}
      BY <2>3 DEF OfFollowed
  <2> HIDE DEF R
  <2> QED BY <2>1, <2>2, <2>4
<1>2. \A i \in DOMAIN s : PartsOf(s[i]) \subseteq H => i \in H
    BY <1>1
<1> HIDE DEF H
<1>3. \A i \in DOMAIN s : i \in H
    BY <1>2, FromTheParts
<1>4. Len(s) \in DOMAIN s /\ Len(s) \in Visited(s)
    BY VisitedNodes
<1> QED BY <1>3, <1>4 DEF H, Meaning

(* The kinds of the nodes within a statement, and of its last.             *)
LEMMA KindsOfTree ==
    ASSUME NEW s, PartsFirst(s), IsTree(s), NEW i \in DOMAIN s
    PROVE  IF i = Len(s) THEN s[i].t \in Reads \cup Writes \cup {"ddl", "several"}
           ELSE s[i].t \in Reads \cup Source \cup Expression \cup {"star", "nothing"}
<1>1. CASE i = Len(s)
    BY <1>1 DEF IsTree
<1>2. CASE i # Len(s)
  <2>1. i \in 1 .. Len(s) - 1
      BY <1>2 DEF PartsFirst
  <2>2. PICK k \in DOMAIN s : i \in PartsOf(s[k])
      BY <2>1 DEF IsTree
  <2>3. Grammatical(s, s[k])
      BY DEF IsTree
  <2> DEFINE n == s[k]
  <2>4. i \in PartsOf(n) /\ Grammatical(s, n)
      BY <2>2, <2>3
  <2> HIDE DEF n
  <2>5. CASE n.t = "select"
      BY <1>2, <2>4, <2>5 DEF PartsOf, Grammatical
  <2>6. CASE n.t \in {"union", "join"}
      BY <1>2, <2>4, <2>6 DEF PartsOf, Grammatical
  <2>7. CASE n.t \in {"call", "subquery", "derived"}
      BY <1>2, <2>4, <2>7 DEF PartsOf, Grammatical
  <2>8. CASE n.t \in {"insert", "update", "delete"}
      BY <1>2, <2>4, <2>8 DEF PartsOf, Grammatical, Source
  <2>9. CASE n.t \notin {"select", "union", "join", "call", "subquery", "derived",
                         "insert", "update", "delete"}
      BY <2>4, <2>9 DEF PartsOf
  <2> QED BY <2>5, <2>6, <2>7, <2>8, <2>9
<1> QED BY <1>1, <1>2

(* The columns of what a table is to a statement that the target takes.    *)
LEMMA TakenTable ==
    ASSUME NEW s, PartsFirst(s), NEW i \in DOMAIN s, Contributions(s)[i].ok,
           s[i].t = "table"
    PROVE  s[i].name \in TableNames
<1> DEFINE C == Contributions(s)
           n == s[i]
           name == n.name
<1>1. C[i] = Contribution(n, C)
    BY Contributed
<1>2. n.t = "table" /\ C[i].ok
    OBVIOUS
<1> HIDE DEF C, n
<1>3. ByKind(n, C, C[i])
    BY <1>1, <1>2, TakenInParts, OfEachKind
<1>4. PICK as, reveals : C[i] = OfTable(name, as, reveals)
    BY <1>2, <1>3 DEF ByKind
<1> HIDE DEF name
<1>5. name \in TableNames
    BY <1>2, <1>4, TableFacts
<1> QED BY <1>5 DEF name, n

-----------------------------------------------------------------------------
(* What Inspect tells.                                                     *)

(* What Inspect lets through.                                              *)
Acceptable(s) == (IsSelect(s) \/ IsWrite(s)) /\ \A n \in Walk(s) : Tolerable(n)

(* A column of a table is a column of a base table.                        *)
LEMMA ColumnOfTable ==
    ASSUME NEW name \in TableNames, NEW c \in Range(ColumnsOf(name))
    PROVE  <<Behind(name), c>> \in AllColumns
<1>1. Behind(name) \in DOMAIN BaseTables
    BY TablesAssumption DEF Behind, TableNames
<1> QED BY <1>1 DEF AllColumns, ColumnsOf

(* There is one.                                                           *)
LEMMA SomeColumn ==
    ASSUME NEW name \in TableNames
    PROVE  Range(ColumnsOf(name)) # {}
BY TableColumns DEF Range

(* A node that Walk visits of a statement that Inspect accepts does        *)
(* nothing forbidden of its own.                                           *)
LEMMA AcceptableIsHarmless ==
    ASSUME NEW s, PartsFirst(s), IsTree(s), Meaning(s).ok, Acceptable(s),
           NEW i \in Visited(s)
    PROVE  Own(s[i], Contributions(s)) \cap Forbidden = {}
<1> DEFINE C == Contributions(s)
           n == s[i]
           own == Own(n, C)
<1> SUFFICES own \cap Forbidden = {}
    OBVIOUS
<1>0. i \in DOMAIN s
    BY VisitedNodes
<1>1. AllColumns \cap Forbidden = {} /\ Unseen \notin Forbidden
    BY TablesAssumption DEF Harm
<1>2. Tolerable(n)
    BY DEF Acceptable, Walk
<1>3. IF i = Len(s) THEN n.t \in Reads \cup Writes \cup {"ddl", "several"}
      ELSE n.t \in Reads \cup Source \cup Expression \cup {"star", "nothing"}
    BY <1>0, KindsOfTree
<1>4. n.t = "table" => n.name \in TableNames
    BY <1>0, TakenInAll, TakenTable
<1>5. i = Len(s) => n.t \in Reads \/ IsWrite(s)
    BY DEF Acceptable, IsSelect
<1>6. Grammatical(s, n)
    BY <1>0 DEF IsTree
<1>7. \A j \in PartsOf(n) : j \in DOMAIN s /\ C[j].ok
  <2>1. PartsOf(n) \subseteq DOMAIN s
      BY <1>0 DEF PartsFirst
  <2> HIDE DEF n
  <2> QED BY <2>1, TakenInAll
<1>8. \A j \in DOMAIN s : C[j].ok /\ s[j].t \in Expression => DOMAIN C[j].columns = {1}
    BY ColumnsNeeded
<1>9. i = Len(s) => s[Len(s)] = n
    OBVIOUS
<1> HIDE DEF C, n
<1>10. CASE n.t = "call"
  <2>1. own \subseteq AllColumns \cup {Unseen}
      BY <1>2, <1>10 DEF Own, ReadIn, Tolerable
  <2> QED BY <1>1, <2>1
<1>11. CASE n.t = "table"
  <2>1. \A c \in Range(ColumnsOf(n.name)) : TableReveals(n)[c] = {<<Behind(n.name), c>>}
      BY <1>2, <1>11 DEF TableReveals, Tolerable
  <2>2. \A c \in Range(ColumnsOf(n.name)) : <<Behind(n.name), c>> \in AllColumns
      BY <1>4, <1>11, ColumnOfTable
  <2>3. own = UNION {TableReveals(n)[c] : c \in Range(ColumnsOf(n.name))}
      BY <1>11 DEF Own
  <2> HIDE DEF own
  <2> QED BY <1>1, <2>1, <2>2, <2>3
<1>12. CASE n.t = "select"
    BY <1>2, <1>12 DEF Own, Tolerable
<1>13. CASE n.t = "insert"
  <2>1. i = Len(s)
      BY <1>3, <1>13 DEF Reads, Source, Expression
  <2>2. IsWrite(s)
      BY <1>5, <1>13, <2>1 DEF Reads
  <2>3. ~n.replace
      BY <1>9, <1>13, <2>1, <2>2 DEF IsWrite
  <2> QED BY <1>13, <2>3 DEF Own
<1>14. CASE n.t \in {"update", "delete"}
  <2> DEFINE where == n.where
  <2>1. i = Len(s)
      BY <1>3, <1>14 DEF Reads, Source, Expression
  <2>2. IsWrite(s)
      BY <1>5, <1>14, <2>1 DEF Reads
  <2>3. s[where].t # "nothing"
      BY <1>9, <1>14, <2>1, <2>2 DEF IsWrite
  <2>4. where \in PartsOf(n) /\ s[where].t \in Expression \cup {"nothing"}
      BY <1>6, <1>14 DEF PartsOf, Grammatical
  <2> HIDE DEF where
  <2>5. DOMAIN C[where].columns = {1}
      BY <1>7, <1>8, <2>3, <2>4
  <2>6. C[where].columns # <<>>
      BY <2>5, 1 \in {1}, DOMAIN <<>> = {}
  <2> QED BY <1>14, <2>6 DEF Own, where
<1>15. CASE n.t = "union"
    BY <1>1, <1>15 DEF Own
<1>16. CASE n.t \notin {"call", "table", "select", "union", "insert", "update", "delete"}
  <2>1. n.t \in {"column", "subquery", "star", "nothing", "derived", "join"}
    <3>1. CASE i = Len(s)
      <4>1. n.t \in Reads \/ n.t \in Writes
          BY <1>5, <1>9, <3>1 DEF IsWrite, Writes
      <4> QED BY <4>1, <1>16 DEF Reads, Writes
    <3>2. CASE i # Len(s)
        BY <1>3, <3>2, <1>16 DEF Reads, Source, Expression
    <3> QED BY <3>1, <3>2
  <2> QED BY <1>16, <2>1 DEF Own
<1> QED BY <1>10, <1>11, <1>12, <1>13, <1>14, <1>15, <1>16

(* A statement that it refuses has such a node that does.                  *)
LEMMA RefusedForHarm ==
    ASSUME NEW s, PartsFirst(s), IsTree(s), Meaning(s).ok, ~Acceptable(s)
    PROVE  \E i \in Visited(s) : Own(s[i], Contributions(s)) \cap Forbidden # {}
<1> DEFINE C == Contributions(s)
<1> USE DEF Forbidden
<1>0. Visited(s) \subseteq DOMAIN s /\ Len(s) \in Visited(s)
    BY VisitedNodes
<1>1. \A i \in DOMAIN s : C[i].ok
    BY TakenInAll
<1>2. CASE \E n \in Walk(s) : ~Tolerable(n)
  <2>1. PICK i \in Visited(s) : ~Tolerable(s[i])
      BY <1>2 DEF Walk
  <2> DEFINE n == s[i]
             own == Own(n, C)
  <2>2. ~Tolerable(n)
      BY <2>1
  <2>3. n.t = "table" => n.name \in TableNames
      BY <1>0, <1>1, TakenTable
  <2> SUFFICES own \cap Forbidden # {}
      BY <2>1
  <2> HIDE DEF n, C
  <2>4. CASE n.t = "call"
      BY <2>2, <2>4 DEF Own, ReadIn, Tolerable
  <2>5. CASE n.t = "select"
      BY <2>2, <2>5 DEF Own, Tolerable
  <2>6. CASE n.t = "table"
    <3>1. PICK c \in Range(ColumnsOf(n.name)) : TRUE
        BY <2>3, <2>6, SomeColumn
    <3>2. Elsewhere \in TableReveals(n)[c]
        BY <2>2, <2>6 DEF TableReveals, Tolerable
    <3>3. own = UNION {TableReveals(n)[d] : d \in Range(ColumnsOf(n.name))}
        BY <2>6 DEF Own
    <3> HIDE DEF own
    <3>4. Elsewhere \in own
        BY <3>2, <3>3
    <3> QED BY <3>4
  <2>7. n.t \in {"call", "select", "table"}
      BY <2>2 DEF Tolerable
  <2> QED BY <2>4, <2>5, <2>6, <2>7
<1>3. CASE ~IsSelect(s) /\ ~IsWrite(s)
  <2> DEFINE last == Len(s)
             n == s[last]
             where == n.where
             own == Own(n, C)
  <2>1. last \in DOMAIN s /\ last \in Visited(s)
      BY <1>0
  <2>2. n.t \in Writes \cup {"ddl", "several"}
      BY <1>3 DEF IsSelect, IsTree
  <2>3. n.t = "insert" => n.replace
      BY <1>3 DEF IsWrite
  <2>4. n.t \in {"update", "delete"} => s[where].t = "nothing"
      BY <1>3 DEF IsWrite
  <2>5. n.t \in {"update", "delete"} => where \in DOMAIN s
    <3>1. PartsOf(n) \subseteq DOMAIN s
        BY <2>1 DEF PartsFirst
    <3> HIDE DEF n
    <3> QED BY <3>1 DEF PartsOf
  <2>6. \A j \in DOMAIN s : C[j].ok /\ s[j].t = "nothing" => C[j].columns = <<>>
      BY ColumnsNeeded
  <2> SUFFICES own \cap Forbidden # {}
      BY <2>1
  <2> HIDE DEF last, n, C
  <2>7. CASE n.t = "insert"
      BY <2>3, <2>7 DEF Own
  <2>8. CASE n.t \in {"update", "delete"}
      BY <1>1, <2>4, <2>5, <2>6, <2>8 DEF Own
  <2>9. CASE n.t \in {"ddl", "several"}
      BY <2>9 DEF Own
  <2> QED BY <2>2, <2>7, <2>8, <2>9 DEF Writes
<1> QED BY <1>2, <1>3 DEF Acceptable

(* A statement the target takes is accepted if and only if it does nothing *)
(* forbidden where Inspect looks.                                          *)
LEMMA HarmIsTold ==
    ASSUME NEW s, PartsFirst(s), IsTree(s), Meaning(s).ok
    PROVE  Acceptable(s) <=> Revealed(Meaning(s).columns) \cap Forbidden = {}
<1>1. ASSUME Acceptable(s)
      PROVE  Revealed(Meaning(s).columns) \cap Forbidden = {}
  <2>1. \A i \in Visited(s) : Own(s[i], Contributions(s)) \cap Forbidden = {}
      BY <1>1, AcceptableIsHarmless
  <2> QED BY <2>1, NoHarmShows
<1>2. ASSUME ~Acceptable(s)
      PROVE  Revealed(Meaning(s).columns) \cap Forbidden # {}
  <2>1. PICK i \in Visited(s) : Own(s[i], Contributions(s)) \cap Forbidden # {}
      BY <1>2, RefusedForHarm
  <2> QED BY <2>1, HarmShows
<1> QED BY <1>1, <1>2

-----------------------------------------------------------------------------
(* What Rewrite hides ...                                                  *)

(* Lists of the same indices have the same length.                         *)
LEMMA SameLength ==
    ASSUME NEW m \in Nat, NEW k \in Nat, 1 .. m = 1 .. k
    PROVE  m = k
<1>1. CASE m < k
  <2>1. k \in 1 .. k /\ k \notin 1 .. m
      BY <1>1
  <2> QED BY <2>1
<1>2. CASE k < m
  <2>1. m \in 1 .. m /\ m \notin 1 .. k
      BY <1>2
  <2> QED BY <2>1
<1> QED BY <1>1, <1>2

(* The nodes of a rewritten statement, which are where they were.          *)
LEMMA CompiledNodes ==
    ASSUME NEW s, PartsFirst(s)
    PROVE  /\ PartsFirst(Compiled(s)) /\ Len(Compiled(s)) = Len(s)
           /\ DOMAIN Compiled(s) = DOMAIN s
           /\ \A i \in DOMAIN s :
                 /\ PartsOf(Compiled(s)[i]) = PartsOf(s[i])
                 /\ Compiled(s)[i] =
                       IF i \in Visited(s) /\ s[i].t = "table" /\ HasRules(s[i].name)
                       THEN Masked(s[i]) ELSE s[i]
<1> DEFINE d == Compiled(s)
<1>1. DOMAIN d = DOMAIN s
    BY DEF Compiled
<1>2. \A i \in DOMAIN s :
         d[i] = IF i \in Visited(s) /\ s[i].t = "table" /\ HasRules(s[i].name)
                THEN Masked(s[i]) ELSE s[i]
    BY DEF Compiled
<1>3. d = [i \in DOMAIN s |-> d[i]]
    BY DEF Compiled
<1> HIDE DEF d
<1>4. IsList(s)
    BY DEF PartsFirst, IsList
<1>5. IsList(d)
    BY <1>3, <1>4, ListOfList
<1>6. Len(d) = Len(s)
  <2>1. /\ Len(d) \in Nat /\ Len(s) \in Nat
        /\ DOMAIN d = 1 .. Len(d) /\ DOMAIN s = 1 .. Len(s)
      BY <1>4, <1>5, ListFacts
  <2>2. 1 .. Len(d) = 1 .. Len(s)
      BY <1>1, <2>1, Zenon
  <2> QED BY <2>1, <2>2, SameLength
<1>7. ASSUME NEW i \in DOMAIN s
      PROVE  PartsOf(d[i]) = PartsOf(s[i])
  <2>1. CASE i \in Visited(s) /\ s[i].t = "table" /\ HasRules(s[i].name)
    <3>1. d[i] = Masked(s[i])
        BY <1>2, <2>1
    <3>2. PartsOf(d[i]) = {}
        BY <3>1 DEF Masked, PartsOf
    <3>3. PartsOf(s[i]) = {}
        BY <2>1 DEF PartsOf
    <3> QED BY <3>2, <3>3
  <2>2. CASE ~(i \in Visited(s) /\ s[i].t = "table" /\ HasRules(s[i].name))
      BY <1>2, <2>2
  <2> QED BY <2>1, <2>2
<1>8. PartsFirst(d)
    BY <1>1, <1>5, <1>7 DEF PartsFirst, IsList
<1> QED BY <1>1, <1>2, <1>6, <1>7, <1>8 DEF d

(* A statement that Rewrite can compile has in it no masked table yet.     *)
LEMMA NotMaskedYet ==
    ASSUME NEW s, PartsFirst(s), IsTree(s), NEW i \in DOMAIN s
    PROVE  s[i].t # "masked"
<1>1. IF i = Len(s) THEN s[i].t \in Reads \cup Writes \cup {"ddl", "several"}
      ELSE s[i].t \in Reads \cup Source \cup Expression \cup {"star", "nothing"}
    BY KindsOfTree
<1> QED BY <1>1 DEF Reads, Writes, Source, Expression

(* No node of a rewritten statement reveals a masked column of its own, if *)
(* Rewrite has come to every table and function there is.                  *)
LEMMA OwnNotMasked ==
    ASSUME NEW s, PartsFirst(s), IsTree(s), \A n \in Walk(s) : Compilable(n),
           ~Overlooked(s), DOMAIN rules \cap Harm = {}, NEW i \in DOMAIN s
    PROVE  Own(Compiled(s)[i], Contributions(Compiled(s))) \cap MaskedColumns = {}
<1> DEFINE D == Contributions(Compiled(s))
           n == s[i]
           m == Compiled(s)[i]
           name == n.name
           own == Own(m, D)
<1> SUFFICES own \cap MaskedColumns = {}
    OBVIOUS
<1>0. IF i \in Visited(s) THEN Compilable(n)
      ELSE n.t # "table" /\ (n.t = "call" => IsAllowed(n))
    BY DEF Walk, Overlooked
<1>1. n.t \in {"call", "table"} => Compilable(n)
    BY <1>0 DEF Compilable
<1>2. m = IF n.t = "table" /\ HasRules(name) THEN Masked(n) ELSE n
    BY <1>0, CompiledNodes
<1>3. n.t # "masked"
    BY NotMaskedYet
<1>4. MaskedColumns \cap Harm = {}
    BY DEF MaskedColumns
<1> HIDE DEF D, n, m
<1>5. CASE n.t = "table" /\ HasRules(name)
  <2>1. m = Masked(n)
      BY <1>2, <1>5
  <2>2. /\ m.t = "masked" /\ m.name = name
        /\ m.modes = [c \in Range(ColumnsOf(name)) |-> ModeOf(name, c)]
      BY <2>1 DEF Masked
  <2>3. \A c \in Range(ColumnsOf(name)) : ModeOf(name, c) \in Mode
      BY <1>1, <1>5 DEF Compilable, IsMode
  <2>4. own = UNION {MaskedReveals(m)[c] : c \in Range(ColumnsOf(name))}
      BY <2>2 DEF Own
  <2> HIDE DEF own, name
  <2>5. ASSUME NEW c \in Range(ColumnsOf(name))
        PROVE  MaskedReveals(m)[c] \cap MaskedColumns = {}
    <3>1. MaskedReveals(m)[c] = IF ModeOf(name, c) \in {"partial", "full"} THEN {}
                                ELSE {<<name, c>>}
        BY <2>2 DEF MaskedReveals
    <3>2. CASE ModeOf(name, c) \in {"partial", "full"}
        BY <3>1, <3>2
    <3>3. CASE ModeOf(name, c) \notin {"partial", "full"}
      <4>1. ModeOf(name, c) = "plain"
          BY <2>3, <3>3 DEF Mode
      <4>2. <<name, c>> \notin MaskedColumns
          BY <4>1 DEF ModeOf, MaskedColumns
      <4> QED BY <3>1, <3>3, <4>2
    <3> QED BY <3>2, <3>3
  <2> QED BY <2>4, <2>5
<1>6. CASE n.t = "table" /\ ~HasRules(name)
  <2>1. m = n
      BY <1>2, <1>6
  <2>2. own = UNION {TableReveals(n)[c] : c \in Range(ColumnsOf(name))}
      BY <1>6, <2>1 DEF Own
  <2>3. Behind(name) = name
      BY <1>1, <1>6, TablesAssumption DEF Compilable, IsKnownBaseTable, Behind
  <2> HIDE DEF own
  <2>4. ASSUME NEW c \in Range(ColumnsOf(name))
        PROVE  TableReveals(n)[c] \cap MaskedColumns = {}
    <3>1. TableReveals(n)[c] \in {{<<name, c>>}, {Elsewhere}}
        BY <2>3 DEF TableReveals
    <3>2. <<name, c>> \notin DOMAIN rules
      <4>1. <<name, c>>[1] = name
          OBVIOUS
      <4> HIDE DEF name
      <4> QED BY <1>6, <4>1 DEF HasRules
    <3> QED BY <1>4, <3>1, <3>2 DEF MaskedColumns, Harm, Forbidden
  <2> QED BY <2>2, <2>4
<1>7. CASE n.t # "table"
  <2>1. m = n
      BY <1>2, <1>7
  <2>2. n.t = "call" => ReadIn(n.db, n.f) = {}
      BY <1>1 DEF Compilable, IsAllowed, ReadIn
  <2>3. own \subseteq Harm
      BY <1>3, <1>7, <2>1, <2>2 DEF Own, Harm, Forbidden
  <2> HIDE DEF own
  <2> QED BY <1>4, <2>3
<1> QED BY <1>5, <1>6, <1>7

(* So none reveals a masked column.                                        *)
LEMMA NothingMasked ==
    ASSUME NEW s, PartsFirst(s), IsTree(s), \A n \in Walk(s) : Compilable(n),
           ~Overlooked(s), DOMAIN rules \cap Harm = {}
    PROVE  Revealed(Meaning(Compiled(s)).columns) \cap MaskedColumns = {}
<1> DEFINE d == Compiled(s)
<1>1. PartsFirst(d) /\ Len(d) = Len(s) /\ DOMAIN d = DOMAIN s
    BY CompiledNodes
<1>2. \A i \in DOMAIN d : Own(d[i], Contributions(d)) \cap MaskedColumns = {}
    BY <1>1, OwnNotMasked
<1>3. Len(s) \in DOMAIN s
    BY DEF PartsFirst, IsTree
<1> HIDE DEF d
<1>4. \A i \in DOMAIN d : Revealed(Contributions(d)[i].columns) \cap MaskedColumns = {}
    BY <1>1, <1>2, NothingOf
<1>5. Revealed(Meaning(d).columns) \cap MaskedColumns = {}
    BY <1>1, <1>3, <1>4 DEF Meaning
<1> QED BY <1>5 DEF d

(* And of a partially masked value a character is hidden.                  *)
LEMMA ShownIsLess ==
    ASSUME NEW prefix \in 0 .. MaxKept \cup {Default},
           NEW suffix \in 0 .. MaxKept \cup {Default},
           NEW length \in 1 .. 2 * MaxKept + 1
    PROVE  /\ Shown(length, prefix, suffix) < length
           /\ length > Kept(prefix) + Kept(suffix) =>
                 Shown(length, prefix, suffix) = Kept(prefix) + Kept(suffix)
<1>1. Kept(prefix) \in Nat /\ Kept(suffix) \in Nat /\ length \in Nat /\ length > 0
    BY TablesAssumption DEF Kept
<1> QED BY <1>1 DEF Shown

-----------------------------------------------------------------------------
(* ... and what it leaves alone.                                           *)

(* The same columns, but for what is masked of their values.               *)
Unmasked(reveals) == reveals \ MaskedColumns

Alike(d, c) ==
    /\ DOMAIN d = DOMAIN c
    /\ \A k \in DOMAIN c : /\ d[k].as = c[k].as
                           /\ d[k].name = c[k].name
                           /\ Unmasked(d[k].reveals) = Unmasked(c[k].reveals)

Same(d, c) == d.ok /\ d.refs = c.refs /\ Alike(d.columns, c.columns)

(* What they reveal.                                                       *)
LEMMA AlikeRevealed ==
    ASSUME NEW d, NEW c, Alike(d, c)
    PROVE  Unmasked(Revealed(d)) = Unmasked(Revealed(c))
<1>1. DOMAIN d = DOMAIN c
      /\ \A k \in DOMAIN c : Unmasked(d[k].reveals) = Unmasked(c[k].reveals)
    BY DEF Alike
<1>2. Unmasked(Revealed(d)) = UNION {Unmasked(d[k].reveals) : k \in DOMAIN c}
    BY <1>1 DEF Revealed, Unmasked
<1>3. Unmasked(Revealed(c)) = UNION {Unmasked(c[k].reveals) : k \in DOMAIN c}
    BY DEF Revealed, Unmasked
<1> QED BY <1>1, <1>2, <1>3

(* A single column.                                                        *)
LEMMA AlikeOne ==
    ASSUME NEW name, NEW less, NEW reveals, Unmasked(less) = Unmasked(reveals)
    PROVE  Alike(OneColumn(name, less), OneColumn(name, reveals))
<1> DEFINE x == [as |-> "", name |-> name, reveals |-> reveals]
           y == [as |-> "", name |-> name, reveals |-> less]
<1>1. OneColumn(name, reveals) = <<x>> /\ OneColumn(name, less) = <<y>>
    BY DEF OneColumn
<1>2. y.as = x.as /\ y.name = x.name /\ Unmasked(y.reveals) = Unmasked(x.reveals)
    OBVIOUS
<1> HIDE DEF x, y
<1>3. Alike(<<y>>, <<x>>)
    BY <1>2, ListFacts DEF Alike
<1> QED BY <1>1, <1>3

(* Columns of a derived table.                                             *)
LEMMA AlikeRenamed ==
    ASSUME NEW d, NEW c, Alike(d, c), NEW as
    PROVE  Alike(Renamed(d, as), Renamed(c, as))
<1> DEFINE e == Renamed(d, as)
           b == Renamed(c, as)
<1>1. DOMAIN e = DOMAIN d
      /\ \A k \in DOMAIN d : /\ e[k].as = as /\ e[k].name = d[k].name
                             /\ e[k].reveals = d[k].reveals
    BY DEF Renamed
<1>2. DOMAIN b = DOMAIN c
      /\ \A k \in DOMAIN c : /\ b[k].as = as /\ b[k].name = c[k].name
                             /\ b[k].reveals = c[k].reveals
    BY DEF Renamed
<1> HIDE DEF e, b
<1>3. Alike(e, b)
    BY <1>1, <1>2 DEF Alike
<1> QED BY <1>3 DEF e, b

(* Columns that depend on others.                                          *)
LEMMA AlikeAdding ==
    ASSUME NEW d, NEW c, Alike(d, c), NEW less, NEW more, Unmasked(less) = Unmasked(more)
    PROVE  Alike(Adding(d, less), Adding(c, more))
<1> DEFINE e == Adding(d, less)
           b == Adding(c, more)
<1>1. DOMAIN e = DOMAIN d
      /\ \A k \in DOMAIN d : /\ e[k].as = d[k].as /\ e[k].name = d[k].name
                             /\ e[k].reveals = d[k].reveals \cup less
    BY DEF Adding
<1>2. DOMAIN b = DOMAIN c
      /\ \A k \in DOMAIN c : /\ b[k].as = c[k].as /\ b[k].name = c[k].name
                             /\ b[k].reveals = c[k].reveals \cup more
    BY DEF Adding
<1> HIDE DEF e, b
<1>3. ASSUME NEW k \in DOMAIN c
      PROVE  /\ e[k].as = b[k].as /\ e[k].name = b[k].name
             /\ Unmasked(e[k].reveals) = Unmasked(b[k].reveals)
  <2>1. /\ d[k].as = c[k].as /\ d[k].name = c[k].name
        /\ Unmasked(d[k].reveals) = Unmasked(c[k].reveals) /\ k \in DOMAIN d
      BY DEF Alike
  <2>2. e[k].as = b[k].as /\ e[k].name = b[k].name
      BY <1>1, <1>2, <2>1
  <2>3. e[k].reveals = d[k].reveals \cup less
      BY <1>1, <2>1
  <2>4. b[k].reveals = c[k].reveals \cup more
      BY <1>2
  <2>5. Unmasked(e[k].reveals) = Unmasked(b[k].reveals)
      BY <2>1, <2>3, <2>4 DEF Unmasked
  <2> QED BY <2>2, <2>5
<1>4. Alike(e, b)
    BY <1>1, <1>2, <1>3 DEF Alike
<1> QED BY <1>4 DEF e, b

(* Columns of a join.                                                      *)
LEMMA AlikeConcatenated ==
    ASSUME NEW d1, NEW c1, Alike(d1, c1), NEW d2, NEW c2, Alike(d2, c2),
           IsList(d1), IsList(c1), IsList(d2), IsList(c2)
    PROVE  Alike(d1 \o d2, c1 \o c2)
<1>1. /\ Len(d1) \in Nat /\ Len(c1) \in Nat /\ Len(d2) \in Nat /\ Len(c2) \in Nat
      /\ DOMAIN d1 = 1 .. Len(d1) /\ DOMAIN c1 = 1 .. Len(c1)
      /\ DOMAIN d2 = 1 .. Len(d2) /\ DOMAIN c2 = 1 .. Len(c2)
    BY ListFacts
<1>2. Len(d1) = Len(c1) /\ Len(d2) = Len(c2)
  <2>1. 1 .. Len(d1) = 1 .. Len(c1) /\ 1 .. Len(d2) = 1 .. Len(c2)
      BY <1>1, Zenon DEF Alike
  <2> QED BY <1>1, <2>1, SameLength
<1> DEFINE d == d1 \o d2
           c == c1 \o c2
           m == Len(c1)
           n == Len(c2)
<1>3. /\ DOMAIN d = 1 .. m + n
      /\ \A k \in 1 .. m : d[k] = d1[k]
      /\ \A k \in 1 .. n : d[m + k] = d2[k]
    BY <1>2, Concatenated
<1>4. /\ DOMAIN c = 1 .. m + n
      /\ \A k \in 1 .. m : c[k] = c1[k]
      /\ \A k \in 1 .. n : c[m + k] = c2[k]
    BY Concatenated
<1>5. m \in Nat /\ n \in Nat /\ DOMAIN c1 = 1 .. m /\ DOMAIN c2 = 1 .. n
    BY <1>1
<1> HIDE DEF d, c, m, n
<1>6. ASSUME NEW k \in 1 .. m + n
      PROVE  /\ d[k].as = c[k].as /\ d[k].name = c[k].name
             /\ Unmasked(d[k].reveals) = Unmasked(c[k].reveals)
  <2>1. CASE k \in 1 .. m
    <3>1. d[k] = d1[k] /\ c[k] = c1[k] /\ k \in DOMAIN c1
        BY <1>3, <1>4, <1>5, <2>1
    <3> QED BY <3>1 DEF Alike
  <2>2. CASE k \notin 1 .. m
    <3> DEFINE l == k - m
    <3>1. l \in 1 .. n /\ k = m + l
        BY <1>5, <2>2
    <3> HIDE DEF l
    <3>2. d[k] = d2[l] /\ c[k] = c2[l] /\ l \in DOMAIN c2
        BY <1>3, <1>4, <1>5, <3>1
    <3> QED BY <3>2 DEF Alike
  <2> QED BY <2>1, <2>2
<1>7. Alike(d, c)
    BY <1>3, <1>4, <1>6 DEF Alike
<1> QED BY <1>7 DEF d, c

(* Columns of a table.                                                     *)
LEMMA SameTable ==
    ASSUME NEW name, NEW as, NEW less, NEW reveals,
           \A c \in Range(ColumnsOf(name)) : Unmasked(less[c]) = Unmasked(reveals[c]),
           OfTable(name, as, reveals).ok
    PROVE  Same(OfTable(name, as, less), OfTable(name, as, reveals))
<1> DEFINE cols == ColumnsOf(name)
           d == [i \in DOMAIN cols |->
                     [as |-> as, name |-> cols[i], reveals |-> less[cols[i]]]]
           c == [i \in DOMAIN cols |->
                     [as |-> as, name |-> cols[i], reveals |-> reveals[cols[i]]]]
<1>1. ~Failure.ok
    BY DEF Failure
<1>2. OfTable(name, as, less) = Success(d, {}) /\ OfTable(name, as, reveals) = Success(c, {})
    BY <1>1 DEF OfTable
<1>3. DOMAIN d = DOMAIN cols /\ DOMAIN c = DOMAIN cols
    OBVIOUS
<1>4. \A k \in DOMAIN cols : /\ d[k].as = as /\ d[k].name = cols[k]
                             /\ d[k].reveals = less[cols[k]]
    OBVIOUS
<1>5. \A k \in DOMAIN cols : /\ c[k].as = as /\ c[k].name = cols[k]
                             /\ c[k].reveals = reveals[cols[k]]
    OBVIOUS
<1>6. \A k \in DOMAIN cols : Unmasked(less[cols[k]]) = Unmasked(reveals[cols[k]])
    BY DEF Range
<1> HIDE DEF d, c, cols
<1>7. ASSUME NEW k \in DOMAIN cols
      PROVE  /\ d[k].as = c[k].as /\ d[k].name = c[k].name
             /\ Unmasked(d[k].reveals) = Unmasked(c[k].reveals)
  <2>1. d[k].as = c[k].as /\ d[k].name = c[k].name
      BY <1>4, <1>5
  <2>2. d[k].reveals = less[cols[k]] /\ c[k].reveals = reveals[cols[k]]
      BY <1>4, <1>5
  <2>3. Unmasked(d[k].reveals) = Unmasked(c[k].reveals)
      BY <1>6, <2>2 DEF Unmasked
  <2> QED BY <2>1, <2>3
<1>8. Alike(d, c)
    BY <1>3, <1>7 DEF Alike
<1> QED BY <1>2, <1>8 DEF Same, Success

(* References are to the same columns.                                     *)
LEMMA AlikeRead ==
    ASSUME NEW d, NEW c, Alike(d, c), NEW refs
    PROVE  /\ \A ref : Matching(ref, d) = Matching(ref, c)
           /\ Unmasked(ReadBy(refs, d)) = Unmasked(ReadBy(refs, c))
<1>1. /\ DOMAIN d = DOMAIN c
      /\ \A k \in DOMAIN c : /\ d[k].as = c[k].as /\ d[k].name = c[k].name
                             /\ Unmasked(d[k].reveals) = Unmasked(c[k].reveals)
    BY DEF Alike
<1>2. ASSUME NEW ref
      PROVE  Matching(ref, d) = Matching(ref, c)
    BY <1>1 DEF Matching
<1> DEFINE S == UNION {Matching(ref, c) : ref \in refs}
<1>3. S \subseteq DOMAIN c
    BY DEF Matching
<1>4. UNION {Matching(ref, d) : ref \in refs} = S
    BY <1>2
<1> HIDE DEF S
<1>5. ReadBy(refs, d) = UNION {d[i].reveals : i \in S}
    BY <1>4 DEF ReadBy
<1>6. ReadBy(refs, c) = UNION {c[i].reveals : i \in S}
    BY DEF ReadBy, S
<1>7. \A i \in S : Unmasked(d[i].reveals) = Unmasked(c[i].reveals)
    BY <1>1, <1>3
<1>8. Unmasked(ReadBy(refs, d)) = UNION {Unmasked(d[i].reveals) : i \in S}
    BY <1>5 DEF Unmasked
<1>9. Unmasked(ReadBy(refs, c)) = UNION {Unmasked(c[i].reveals) : i \in S}
    BY <1>6 DEF Unmasked
<1> QED BY <1>2, <1>7, <1>8, <1>9

(* So the target takes a select if it took it, and makes the same of it.   *)
LEMMA SameChosen ==
    ASSUME NEW item1, NEW item2, Same(item1, item2),
           IsList(item1.columns), IsList(item2.columns),
           NEW where1, NEW where2, Same(where1, where2),
           NEW d, NEW c, Alike(d, c), NEW own, MaskedColumns \cap Harm = {},
           Chosen(item2, where2, c, own).ok
    PROVE  Same(Chosen(item1, where1, d, own), Chosen(item2, where2, c, own))
<1> DEFINE refs == item2.refs \cup where2.refs
           picked1 == IF item1.columns = <<>> THEN d ELSE item1.columns
           picked2 == IF item2.columns = <<>> THEN c ELSE item2.columns
           besides1 == own \cup Revealed(where1.columns) \cup ReadBy(refs, d)
                         \cup (Revealed(d) \cap Harm)
           besides2 == own \cup Revealed(where2.columns) \cup ReadBy(refs, c)
                         \cup (Revealed(c) \cap Harm)
           Astray(offered) == \E ref \in refs : Cardinality(Matching(ref, offered)) # 1
<1>1. item1.refs \cup where1.refs = refs
    BY DEF Same
<1>2. Chosen(item1, where1, d, own) =
        IF Astray(d) THEN Failure ELSE Success(Adding(picked1, besides1), {})
    BY <1>1 DEF Chosen
<1>3. Chosen(item2, where2, c, own) =
        IF Astray(c) THEN Failure ELSE Success(Adding(picked2, besides2), {})
    BY DEF Chosen
<1>4. Alike(picked1, picked2)
  <2>1. DOMAIN item1.columns = DOMAIN item2.columns
      BY DEF Same, Alike
  <2>2. DOMAIN <<>> = {}
      OBVIOUS
  <2>3. item1.columns = <<>> <=> item2.columns = <<>>
      BY <2>1, <2>2, ListFacts
  <2> QED BY <2>3 DEF Same
<1>5. Unmasked(besides1) = Unmasked(besides2)
  <2>1. Unmasked(Revealed(where1.columns)) = Unmasked(Revealed(where2.columns))
      BY AlikeRevealed DEF Same
  <2>2. Unmasked(Revealed(d)) = Unmasked(Revealed(c))
      BY AlikeRevealed
  <2>3. Unmasked(ReadBy(refs, d)) = Unmasked(ReadBy(refs, c))
      BY AlikeRead
  <2> HIDE DEF refs
  <2>4. Revealed(d) \cap Harm = Revealed(c) \cap Harm
      BY <2>2 DEF Unmasked
  <2> QED BY <2>1, <2>3, <2>4 DEF Unmasked
<1>6. Astray(d) <=> Astray(c)
    BY AlikeRead
<1> HIDE DEF picked1, picked2, besides1, besides2, Astray
<1>7. ~Astray(c)
    BY <1>3 DEF Failure
<1>8. Alike(Adding(picked1, besides1), Adding(picked2, besides2))
    BY <1>4, <1>5, AlikeAdding
<1> QED BY <1>2, <1>3, <1>6, <1>7, <1>8 DEF Same, Success

(* The same of a union ...                                                 *)
LEMMA SameUnion ==
    ASSUME NEW d1, NEW c1, Alike(d1, c1), NEW d2, NEW c2, Alike(d2, c2),
           NEW order1, NEW order2, Same(order1, order2), NEW lock,
           MaskedColumns \cap Harm = {}, OfUnion(c1, c2, order2, lock).ok
    PROVE  Same(OfUnion(d1, d2, order1, lock), OfUnion(c1, c2, order2, lock))
<1> DEFINE d == Rows(d1, d2)
           c == Rows(c1, c2)
           own == IF lock THEN {Unseen} ELSE {}
<1>1. /\ DOMAIN c1 = DOMAIN c2
      /\ OfUnion(c1, c2, order2, lock) = Chosen(Blank, Order(order2), c, own)
    BY UnionIsChosen
<1>2. /\ DOMAIN d1 = DOMAIN c1 /\ DOMAIN d2 = DOMAIN c2
      /\ \A k \in DOMAIN c1 : /\ d1[k].as = c1[k].as /\ d1[k].name = c1[k].name
                              /\ Unmasked(d1[k].reveals) = Unmasked(c1[k].reveals)
      /\ \A k \in DOMAIN c2 : Unmasked(d2[k].reveals) = Unmasked(c2[k].reveals)
    BY DEF Alike
<1>3. OfUnion(d1, d2, order1, lock) = Chosen(Blank, Order(order1), d, own)
    BY <1>1, <1>2 DEF OfUnion, Rows, Order
<1>4. Alike(d, c)
  <2>1. DOMAIN d = DOMAIN d1
        /\ \A k \in DOMAIN d1 : /\ d[k].as = "" /\ d[k].name = d1[k].name
                                /\ d[k].reveals = d1[k].reveals \cup d2[k].reveals
      BY DEF Rows
  <2>2. DOMAIN c = DOMAIN c1
        /\ \A k \in DOMAIN c1 : /\ c[k].as = "" /\ c[k].name = c1[k].name
                                /\ c[k].reveals = c1[k].reveals \cup c2[k].reveals
      BY DEF Rows
  <2> HIDE DEF d, c
  <2>3. ASSUME NEW k \in DOMAIN c1
        PROVE  Unmasked(d[k].reveals) = Unmasked(c[k].reveals)
    <3>1. /\ d[k].reveals = d1[k].reveals \cup d2[k].reveals
          /\ c[k].reveals = c1[k].reveals \cup c2[k].reveals
        BY <1>2, <2>1, <2>2
    <3>2. /\ Unmasked(d1[k].reveals) = Unmasked(c1[k].reveals)
          /\ Unmasked(d2[k].reveals) = Unmasked(c2[k].reveals)
        BY <1>1, <1>2
    <3> QED BY <3>1, <3>2 DEF Unmasked
  <2> QED BY <1>2, <2>1, <2>2, <2>3 DEF Alike
<1>5. Same(Order(order1), Order(order2))
  <2> DEFINE less == Revealed(order1.columns)
             reveals == Revealed(order2.columns)
  <2>1. Unmasked(less) = Unmasked(reveals)
      BY AlikeRevealed DEF Same
  <2> HIDE DEF less, reveals
  <2>2. Unmasked(Hidden(less)) = Unmasked(Hidden(reveals))
    <3>1. less \cap Forbidden = reveals \cap Forbidden
        BY <2>1 DEF Unmasked, Harm
    <3> QED BY <2>1, <3>1 DEF Hidden, Unmasked
  <2>3. Alike(OneColumn("", Hidden(less)), OneColumn("", Hidden(reveals)))
      BY <2>2, AlikeOne
  <2>4. order1.refs = order2.refs
      BY DEF Same
  <2> DEFINE d0 == OneColumn("", Hidden(less))
             c0 == OneColumn("", Hidden(reveals))
  <2>5. Order(order1) = Success(d0, order1.refs) /\ Order(order2) = Success(c0, order2.refs)
      BY DEF Order, less, reveals
  <2>6. Alike(d0, c0)
      BY <2>3
  <2> HIDE DEF d0, c0
  <2> QED BY <2>4, <2>5, <2>6 DEF Same, Success
<1>6. Same(Blank, Blank) /\ IsList(Blank.columns)
    BY ListFacts DEF Same, Alike, Blank, Success
<1> HIDE DEF d, c, own
<1>7. Same(Chosen(Blank, Order(order1), d, own), Chosen(Blank, Order(order2), c, own))
    BY <1>1, <1>4, <1>5, <1>6, SameChosen
<1> QED BY <1>1, <1>3, <1>7

(* ... and of a call.                                                      *)
LEMMA SameCall ==
    ASSUME NEW d, NEW c, Same(d, c), NEW db, NEW f
    PROVE  Same(OfCall(db, f, d), OfCall(db, f, c))
<1> DEFINE less == Revealed(d.columns) \cup ReadIn(db, f)
           reveals == Revealed(c.columns) \cup ReadIn(db, f)
<1>1. Unmasked(Revealed(d.columns)) = Unmasked(Revealed(c.columns))
    BY AlikeRevealed DEF Same
<1>2. Unmasked(less) = Unmasked(reveals)
    BY <1>1 DEF Unmasked
<1>3. /\ OfCall(db, f, d) = Success(OneColumn(f, less), d.refs)
      /\ OfCall(db, f, c) = Success(OneColumn(f, reveals), c.refs)
    BY DEF OfCall
<1> HIDE DEF less, reveals
<1>4. Alike(OneColumn(f, less), OneColumn(f, reveals))
    BY <1>2, AlikeOne
<1> QED BY <1>3, <1>4 DEF Same, Success

(* A statement that Inspect accepts and Rewrite compiles.                  *)
Rewritable(s) ==
    /\ PartsFirst(s) /\ IsTree(s) /\ IsSelect(s)
    /\ \A n \in Walk(s) : Tolerable(n) /\ Compilable(n)
    /\ DOMAIN rules \cap Harm = {}

(* What it reads of a table, masked or not.                                *)
LEMMA SameOfTable ==
    ASSUME NEW n, n.t = "table", NEW m,
           \/ m = n
           \/ m = Masked(n) /\ HasRules(n.name) /\ Tolerable(n) /\ Compilable(n),
           NEW p, NEW q, NEW c, NEW d, ByKind(n, p, c), ByKind(m, q, d), c.ok
    PROVE  Same(d, c)
<1> DEFINE name == n.name
           as == IF n.as = "" THEN n.name ELSE n.as
           reveals == TableReveals(n)
<1>1. c = OfTable(name, as, reveals)
    BY DEF ByKind
<1>2. CASE m = n
  <2>1. d = OfTable(name, as, reveals)
    <3>1. ByKind(n, q, d)
        BY <1>2
    <3> QED BY <3>1 DEF ByKind
  <2> HIDE DEF name, as, reveals
  <2>2. OfTable(name, as, reveals).ok
      BY <1>1
  <2> QED BY <1>1, <2>1, <2>2, SameTable
<1>3. CASE m = Masked(n) /\ HasRules(name) /\ Tolerable(n) /\ Compilable(n)
  <2>1. /\ \A col \in Range(ColumnsOf(name)) : reveals[col] = {<<Behind(name), col>>}
        /\ Behind(name) = name
    <3>1. \A col \in Range(ColumnsOf(name)) : reveals[col] = {<<Behind(name), col>>}
        BY <1>3 DEF TableReveals, Tolerable
    <3>2. Behind(name) = name
        BY <1>3, TablesAssumption DEF Compilable, IsKnownBaseTable, Behind
    <3> QED BY <3>1, <3>2
  <2>2. /\ m.t = "masked" /\ m.name = name /\ m.as = as
        /\ m.modes = [col \in Range(ColumnsOf(name)) |-> ModeOf(name, col)]
    <3>1. m.t = "masked" /\ m.name = name
          /\ m.modes = [col \in Range(ColumnsOf(name)) |-> ModeOf(name, col)]
        BY <1>3 DEF Masked
    <3>2. m.as = NameAs(n)
        BY <1>3 DEF Masked
    <3>3. m.as = as
        BY <3>2 DEF NameAs
    <3> HIDE DEF as
    <3> QED BY <3>1, <3>3
  <2>3. \A col \in Range(ColumnsOf(name)) : ModeOf(name, col) \in Mode
      BY <1>3 DEF Compilable, IsMode
  <2> DEFINE less == MaskedReveals(m)
  <2>4. d = OfTable(m.name, m.as, less)
      BY <2>2 DEF ByKind
  <2>5. d = OfTable(name, as, less)
      BY <2>2, <2>4
  <2> HIDE DEF name, as, reveals
  <2>6. ASSUME NEW col \in Range(ColumnsOf(name))
        PROVE  Unmasked(less[col]) = Unmasked(reveals[col])
    <3>1. less[col] = IF ModeOf(name, col) \in {"partial", "full"} THEN {}
                      ELSE {<<name, col>>}
        BY <2>2 DEF MaskedReveals
    <3>2. reveals[col] = {<<name, col>>}
        BY <2>1
    <3>3. CASE ModeOf(name, col) \in {"partial", "full"}
      <4>1. <<name, col>> \in MaskedColumns
          BY <3>3 DEF ModeOf, MaskedColumns
      <4> QED BY <3>1, <3>2, <3>3, <4>1 DEF Unmasked
    <3>4. CASE ModeOf(name, col) \notin {"partial", "full"}
      <4>1. ModeOf(name, col) = "plain"
          BY <2>3, <3>4 DEF Mode
      <4>2. <<name, col>> \notin MaskedColumns
          BY <4>1 DEF ModeOf, MaskedColumns
      <4> QED BY <3>1, <3>2, <3>4, <4>2 DEF Unmasked
    <3> QED BY <3>3, <3>4
  <2>7. OfTable(name, as, reveals).ok
      BY <1>1
  <2> HIDE DEF less
  <2> QED BY <1>1, <2>5, <2>6, <2>7, SameTable
<1> QED BY <1>2, <1>3

(* Node for node the target makes the same of it.                          *)
LEMMA SameOfEachNode ==
    ASSUME NEW s, Rewritable(s)
    PROVE  \A i \in DOMAIN s :
              Contributions(s)[i].ok => Same(Contributions(Compiled(s))[i], Contributions(s)[i])
<1> DEFINE C == Contributions(s)
           D == Contributions(Compiled(s))
           H == {i \in DOMAIN s : C[i].ok => Same(D[i], C[i])}
<1>0. PartsFirst(s) /\ IsTree(s) /\ IsSelect(s) /\ MaskedColumns \cap Harm = {}
    BY DEF Rewritable, MaskedColumns
<1>1. ASSUME NEW i \in DOMAIN s, PartsOf(s[i]) \subseteq H, C[i].ok
      PROVE  Same(D[i], C[i])
  <2> DEFINE n == s[i]
             m == Compiled(s)[i]
  <2>1. /\ m = IF i \in Visited(s) /\ n.t = "table" /\ HasRules(n.name) THEN Masked(n) ELSE n
        /\ PartsOf(m) = PartsOf(n)
        /\ PartsFirst(Compiled(s)) /\ i \in DOMAIN Compiled(s)
      BY <1>0, CompiledNodes
  <2>2. C[i] = Contribution(n, C) /\ D[i] = Contribution(m, D)
      BY <1>0, <2>1, Contributed
  <2>3. i \in Visited(s) => Tolerable(n) /\ Compilable(n)
      BY DEF Rewritable, Walk
  <2>4. n.t \in Reads \cup Source \cup Expression \cup {"star", "nothing"}
      BY <1>0, KindsOfTree DEF IsSelect
  <2>5. \A j \in PartsOf(n) : j \in DOMAIN s /\ IsList(C[j].columns) /\ IsList(D[j].columns)
    <3>1. PartsOf(n) \subseteq DOMAIN s /\ DOMAIN Compiled(s) = DOMAIN s
        BY <1>0, CompiledNodes DEF PartsFirst
    <3> HIDE DEF n
    <3> QED BY <1>0, <2>1, <3>1, ColumnsAreListed
  <2> HIDE DEF C, D
  <2>6. \A j \in PartsOf(n) : C[j].ok
      BY <1>1, <2>2, TakenInParts
  <2>7. \A j \in PartsOf(n) : Same(D[j], C[j])
      BY <1>1, <2>6
  <2>8. \A j \in PartsOf(n) : D[j].ok
      BY <2>7 DEF Same
  <2> HIDE DEF n, m, H
  <2>9. ByKind(n, C, C[i])
      BY <2>2, <2>6, OfEachKind
  <2>10. ByKind(m, D, D[i])
      BY <2>1, <2>2, <2>8, OfEachKind
  <2>11. CASE n.t = "table"
    <3>1. \/ m = n
          \/ m = Masked(n) /\ HasRules(n.name) /\ Tolerable(n) /\ Compilable(n)
        BY <2>1, <2>3
    <3> QED BY <1>1, <2>9, <2>10, <2>11, <3>1, SameOfTable
  <2>12. CASE n.t # "table"
    <3>1. m = n
        BY <2>1, <2>12
    <3>2. ByKind(n, D, D[i])
        BY <2>10, <3>1
    <3>3. CASE n.t = "column"
      <4>1. /\ C[i] = Success(OneColumn(n.c, {}), {[q |-> n.q, c |-> n.c]})
            /\ D[i] = Success(OneColumn(n.c, {}), {[q |-> n.q, c |-> n.c]})
          BY <2>9, <3>2, <3>3 DEF ByKind
      <4>2. D[i] = C[i] /\ C[i].columns = OneColumn(n.c, {})
          BY <4>1 DEF Success
      <4>3. Alike(OneColumn(n.c, {}), OneColumn(n.c, {}))
          BY AlikeOne
      <4> QED BY <1>1, <4>2, <4>3 DEF Same
    <3>4. CASE n.t = "call"
      <4> DEFINE arg == n.arg
      <4>1. /\ arg \in PartsOf(n)
            /\ C[i] = OfCall(n.db, n.f, C[arg]) /\ D[i] = OfCall(n.db, n.f, D[arg])
          BY <2>9, <3>2, <3>4 DEF ByKind
      <4> HIDE DEF arg
      <4>2. Same(D[arg], C[arg])
          BY <2>7, <4>1
      <4> QED BY <4>1, <4>2, SameCall
    <3>5. CASE n.t = "subquery"
      <4> DEFINE select == n.select
      <4>1. /\ select \in PartsOf(n)
            /\ C[i] = IF DOMAIN C[select].columns = {1} THEN C[select] ELSE Failure
            /\ D[i] = IF DOMAIN D[select].columns = {1} THEN D[select] ELSE Failure
          BY <2>9, <3>2, <3>5 DEF ByKind
      <4> HIDE DEF select
      <4>2. Same(D[select], C[select])
          BY <2>7, <4>1
      <4>3. DOMAIN D[select].columns = DOMAIN C[select].columns
          BY <4>2 DEF Same, Alike
      <4>4. C[i] # Failure
          BY <1>1 DEF Failure
      <4> QED BY <4>1, <4>2, <4>3, <4>4
    <3>6. CASE n.t \in {"star", "nothing"}
      <4>1. C[i] = Blank /\ D[i] = Blank
          BY <2>9, <3>2, <3>6 DEF ByKind
      <4> QED BY <4>1 DEF Same, Alike, Blank, Success
    <3>7. CASE n.t = "derived"
      <4> DEFINE as == n.as
                 c == C[n.select].columns
                 d == D[n.select].columns
      <4>1. /\ n.select \in PartsOf(n)
            /\ C[i] = Success(Renamed(c, as), {}) /\ D[i] = Success(Renamed(d, as), {})
          BY <2>9, <3>2, <3>7 DEF ByKind
      <4>2. Alike(d, c)
          BY <2>7, <4>1 DEF Same
      <4> HIDE DEF as, c, d
      <4>3. Alike(Renamed(d, as), Renamed(c, as))
          BY <4>2, AlikeRenamed
      <4> QED BY <4>1, <4>3 DEF Same, Success
    <3>8. CASE n.t = "join"
      <4> DEFINE c1 == C[n.left].columns
                 c2 == C[n.right].columns
                 d1 == D[n.left].columns
                 d2 == D[n.right].columns
      <4>1. /\ n.left \in PartsOf(n) /\ n.right \in PartsOf(n)
            /\ C[i] = Success(c1 \o c2, {}) /\ D[i] = Success(d1 \o d2, {})
          BY <2>9, <3>2, <3>8 DEF ByKind
      <4>2. Alike(d1, c1) /\ Alike(d2, c2)
          BY <2>7, <4>1 DEF Same
      <4>3. IsList(c1) /\ IsList(c2) /\ IsList(d1) /\ IsList(d2)
          BY <2>5, <4>1
      <4> HIDE DEF c1, c2, d1, d2
      <4>4. Alike(d1 \o d2, c1 \o c2)
          BY <4>2, <4>3, AlikeConcatenated
      <4> QED BY <4>1, <4>4 DEF Same, Success
    <3>9. CASE n.t = "union"
      <4> DEFINE c1 == C[n.left].columns
                 c2 == C[n.right].columns
                 d1 == D[n.left].columns
                 d2 == D[n.right].columns
                 corder == C[n.order]
                 dorder == D[n.order]
                 lock == n.lock
      <4>1. /\ n.left \in PartsOf(n) /\ n.right \in PartsOf(n) /\ n.order \in PartsOf(n)
            /\ C[i] = OfUnion(c1, c2, corder, lock) /\ D[i] = OfUnion(d1, d2, dorder, lock)
          BY <2>9, <3>2, <3>9 DEF ByKind
      <4>2. Alike(d1, c1) /\ Alike(d2, c2) /\ Same(dorder, corder)
          BY <2>7, <4>1 DEF Same
      <4> HIDE DEF c1, c2, d1, d2, corder, dorder, lock
      <4>3. OfUnion(c1, c2, corder, lock).ok
          BY <1>1, <4>1
      <4> QED BY <1>0, <4>1, <4>2, <4>3, SameUnion
    <3>10. CASE n.t = "select"
      <4> DEFINE citem == C[n.item]
                 cwhere == C[n.where]
                 c == C[n.from].columns
                 ditem == D[n.item]
                 dwhere == D[n.where]
                 d == D[n.from].columns
                 own == IF n.extra = "none" THEN {} ELSE {Locks}
      <4>1. /\ n.item \in PartsOf(n) /\ n.where \in PartsOf(n) /\ n.from \in PartsOf(n)
            /\ C[i] = Chosen(citem, cwhere, c, own) /\ D[i] = Chosen(ditem, dwhere, d, own)
          BY <2>9, <3>2, <3>10 DEF ByKind
      <4>2. Same(ditem, citem) /\ Same(dwhere, cwhere) /\ Alike(d, c)
          BY <2>7, <4>1 DEF Same
      <4>3. IsList(citem.columns) /\ IsList(ditem.columns)
          BY <2>5, <4>1
      <4> HIDE DEF citem, cwhere, c, ditem, dwhere, d, own
      <4>4. Chosen(citem, cwhere, c, own).ok
          BY <1>1, <4>1
      <4> QED BY <1>0, <4>1, <4>2, <4>3, <4>4, SameChosen
    <3> QED BY <2>4, <2>12, <3>3, <3>4, <3>5, <3>6, <3>7, <3>8, <3>9, <3>10
        DEF Reads, Source, Expression
  <2> QED BY <2>11, <2>12
<1>2. \A i \in DOMAIN s : PartsOf(s[i]) \subseteq H => i \in H
    BY <1>1
<1> HIDE DEF H
<1>3. \A i \in DOMAIN s : i \in H
    BY <1>0, <1>2, FromTheParts
<1> QED BY <1>3 DEF H

(* So the statement means what it meant.                                   *)
LEMMA MeansTheSame ==
    ASSUME NEW s, Rewritable(s), Meaning(s).ok
    PROVE  /\ Same(Meaning(Compiled(s)), Meaning(s))
           /\ Len(Meaning(Compiled(s)).columns) = Len(Meaning(s).columns)
<1> DEFINE d == Compiled(s)
           D == Contributions(d)
           C == Contributions(s)
           n == Len(s)
<1>1. /\ PartsFirst(s) /\ PartsFirst(d) /\ DOMAIN d = DOMAIN s /\ Len(d) = n
      /\ n \in DOMAIN s
    BY CompiledNodes DEF Rewritable, PartsFirst, IsTree
<1>2. Same(D[n], C[n])
    BY <1>1, SameOfEachNode DEF Meaning
<1>3. IsList(D[n].columns) /\ IsList(C[n].columns)
    BY <1>1, ColumnsAreListed
<1>4. Meaning(d) = D[n] /\ Meaning(s) = C[n]
    BY <1>1 DEF Meaning
<1> HIDE DEF D, C, d, n
<1> DEFINE x == D[n].columns
           y == C[n].columns
<1>5. DOMAIN x = DOMAIN y
    BY <1>2 DEF Same, Alike
<1>6. IsList(x) /\ IsList(y)
    BY <1>3
<1> HIDE DEF x, y
<1>7. /\ Len(x) \in Nat /\ Len(y) \in Nat
      /\ DOMAIN x = 1 .. Len(x) /\ DOMAIN y = 1 .. Len(y)
    BY <1>6, ListFacts
<1>8. 1 .. Len(x) = 1 .. Len(y)
    BY <1>5, <1>7, Zenon
<1>9. Len(x) = Len(y)
    BY <1>7, <1>8, SameLength
<1> QED BY <1>2, <1>4, <1>9 DEF x, y, d

-----------------------------------------------------------------------------
(* The invariant of Statements, and what follows from it in every          *)
(* reachable state.                                                        *)

(* The statement is one of the cases; what Inspect found of it is what the *)
(* verdict says from then on; and what is sent is the statement or, where  *)
(* a rule masks, its compiled form.                                        *)
GivenIsACase ==
    \E case \in Cases : /\ rules = case.rules /\ held = case.held
                        /\ text = case.text

VerdictIsInspects ==
    verdict # "submitted" => (verdict = "refused" <=> ~Acceptable(text))

SentIsCompiled ==
    verdict = "sent" =>
        IF Active THEN /\ IsSelect(text) /\ \A n \in Walk(text) : Compilable(n)
                       /\ tree = Compiled(text)
        ELSE tree = text

StatementInv == GivenIsACase /\ VerdictIsInspects /\ SentIsCompiled

(* The invariant holds of a statement as it comes ...                      *)
LEMMA StatementInitially == StatementInit => StatementInv
BY DEF StatementInit, StatementInv, GivenIsACase, VerdictIsInspects, SentIsCompiled

(* ... and every step keeps it.                                            *)
LEMMA StatementStep == StatementInv /\ [StatementNext]_statementVars => StatementInv'
<1> SUFFICES ASSUME StatementInv, [StatementNext]_statementVars
             PROVE  StatementInv'
    OBVIOUS
<1>1. UNCHANGED given
    BY DEF StatementNext, Inspect, Authorize, Rewrite, statementVars, given
<1>2. GivenIsACase'
    BY <1>1 DEF StatementInv, GivenIsACase, given
<1> DEFINE accepted == Acceptable(text)
           compilable == IsSelect(text) /\ \A n \in Walk(text) : Compilable(n)
           active == Active
<1>3. /\ text' = text
      /\ (Active)' <=> active
      /\ Acceptable(text)' <=> accepted
      /\ (IsSelect(text) /\ \A n \in Walk(text) : Compilable(n))' <=> compilable
      /\ Compiled(text)' = Compiled(text)
  <2>1. text' = text /\ rules' = rules
      BY <1>1 DEF given
  <2> QED BY <2>1 DEF Active, Acceptable, IsSelect, IsWrite, Walk, Compilable, HasRules,
                      ModeOf, Compiled, Masked
<1>4. VerdictIsInspects /\ SentIsCompiled
    BY DEF StatementInv
<1>5. CASE Inspect
  <2>1. verdict' = IF accepted THEN "inspected" ELSE "refused"
      BY <1>5 DEF Inspect, Acceptable
  <2> HIDE DEF accepted
  <2> QED BY <1>2, <1>3, <2>1 DEF StatementInv, VerdictIsInspects, SentIsCompiled
<1>6. CASE Authorize
  <2>1. verdict = "inspected" /\ verdict' \in {"authorized", "denied"}
      BY <1>6 DEF Authorize
  <2> HIDE DEF accepted
  <2>2. accepted
      BY <1>4, <2>1 DEF VerdictIsInspects, accepted
  <2> QED BY <1>2, <1>3, <2>1, <2>2 DEF StatementInv, VerdictIsInspects, SentIsCompiled
<1>7. CASE Rewrite
  <2>1. /\ verdict = "authorized"
        /\ IF ~active THEN verdict' = "sent" /\ tree' = text
           ELSE IF compilable THEN verdict' = "sent" /\ tree' = Compiled(text)
           ELSE verdict' = "unmaskable"
      BY <1>7 DEF Rewrite
  <2>2. accepted
      BY <1>4, <2>1 DEF VerdictIsInspects
  <2> HIDE DEF accepted, compilable, active
  <2>3. VerdictIsInspects'
      BY <1>3, <2>1, <2>2 DEF VerdictIsInspects
  <2>4. SentIsCompiled'
      BY <1>3, <2>1 DEF SentIsCompiled
  <2> QED BY <1>2, <2>3, <2>4 DEF StatementInv
<1>8. CASE UNCHANGED statementVars
  <2>1. verdict' = verdict /\ tree' = tree
      BY <1>8 DEF statementVars
  <2>2. VerdictIsInspects'
      BY <1>3, <1>4, <2>1 DEF VerdictIsInspects
  <2>3. SentIsCompiled'
      BY <1>3, <1>4, <2>1 DEF SentIsCompiled
  <2> QED BY <1>2, <2>2, <2>3 DEF StatementInv
<1> QED BY <1>5, <1>6, <1>7, <1>8 DEF StatementNext

(* The inductive invariant of a statement on its way, for any cases.       *)
THEOREM StatementInvariance == StatementSpec => []StatementInv
BY StatementInitially, StatementStep, PTL DEF StatementSpec

(* What the assumptions say of the case.                                   *)
LEMMA CaseFacts ==
    StatementInv => /\ PartsFirst(text) /\ IsTree(text)
                    /\ held \in Seq(Grant)
                    /\ DOMAIN rules \cap Harm = {}
<1> SUFFICES ASSUME StatementInv
             PROVE  /\ PartsFirst(text) /\ IsTree(text)
                    /\ held \in Seq(Grant)
                    /\ DOMAIN rules \cap Harm = {}
    OBVIOUS
<1>1. PICK case \in Cases : rules = case.rules /\ held = case.held /\ text = case.text
    BY DEF StatementInv, GivenIsACase
<1>2. /\ text \in Seq(Range(text)) /\ IsTree(text) /\ held \in Seq(Grant)
      /\ DOMAIN rules \cap Harm = {}
    BY <1>1, CasesAssumption
<1>3. \A i \in DOMAIN text : PartsOf(text[i]) \subseteq 1 .. i - 1
    BY <1>2 DEF IsTree
<1> QED BY <1>2, <1>3 DEF PartsFirst

(* The grants of the cases, as the theorems on decisions know them.        *)
LEMMA GrantFacts ==
    StatementInv => \E A : /\ held \in Seq(GrantsFor(A)) /\ held \in Seq(ValidGrants(A))
                           /\ Grant \subseteq GrantsFor(A)
<1> SUFFICES ASSUME StatementInv
             PROVE  \E A : /\ held \in Seq(GrantsFor(A)) /\ held \in Seq(ValidGrants(A))
                           /\ Grant \subseteq GrantsFor(A)
    OBVIOUS
<1> DEFINE A == {g.action : g \in Grant}
<1>1. ASSUME NEW g \in Grant
      PROVE  g \in ValidGrants(A) /\ g \in GrantsFor(A)
  <2>1. g \in [action : {g.action}, requireReason : BOOLEAN,
               rowLimit : (Nat \ {0}) \cup {Unset}, timeout : Nat \cup {Unset}]
      BY GrantAssumption
  <2>2. g.action \in A
      OBVIOUS
  <2> HIDE DEF A
  <2> QED BY <2>1, <2>2 DEF ValidGrants, GrantsFor, OptionalLimit
<1>2. held \in Seq(Grant)
    BY CaseFacts
<1>3. \A S : Grant \subseteq S => held \in Seq(S)
    BY <1>2
<1>4. Grant \subseteq GrantsFor(A) /\ Grant \subseteq ValidGrants(A)
    BY <1>1
<1> HIDE DEF A
<1>5. held \in Seq(GrantsFor(A)) /\ held \in Seq(ValidGrants(A))
    BY <1>3, <1>4
<1> QED BY <1>4, <1>5

(* Of whatever grants a principal holds, Evaluate decides as README.md:72  *)
(* says, of whatever action.                                               *)
THEOREM HeldAreMostRestrictive == StatementSpec => []EvaluateIsMostRestrictive
<1>1. StatementInv => EvaluateIsMostRestrictive
  <2> SUFFICES ASSUME StatementInv, NEW requested \in Action
               PROVE  MostRestrictive(held, requested)
      BY DEF EvaluateIsMostRestrictive
  <2>1. PICK A : held \in Seq(GrantsFor(A))
      BY GrantFacts
  <2> QED BY <2>1, AccessIsMostRestrictive
<1> QED BY <1>1, StatementInvariance, PTL

(* And none that is added to them loosens a cap.                           *)
THEOREM HeldNeverLoosen == StatementSpec => []GrantNeverLoosens
<1>1. StatementInv => GrantNeverLoosens
  <2> SUFFICES ASSUME StatementInv, NEW requested \in Action, NEW extra \in Grant
               PROVE  NeverLoosens(held, extra, requested, Limits)
      BY DEF GrantNeverLoosens
  <2>1. PICK A : held \in Seq(GrantsFor(A)) /\ Grant \subseteq GrantsFor(A)
      BY GrantFacts
  <2>2. extra \in GrantsFor(A)
      BY <2>1
  <2>3. Limits \in SUBSET Nat
      BY GrantAssumption
  <2> QED BY <2>1, <2>2, <2>3, FurtherGrantNeverLoosens
<1> QED BY <1>1, StatementInvariance, PTL

(* The limits of a statement keep every cap there is.                      *)
THEOREM HeldKeepEveryCap == StatementSpec => []LimitsWithinEveryCap
<1>1. StatementInv => LimitsWithinEveryCap
  <2> SUFFICES ASSUME StatementInv, NEW requested \in Action,
                      NEW limit \in Limits, NEW wanted \in Limits
               PROVE  WithinEveryCap(Evaluate(held, requested), limit, wanted)
      BY DEF LimitsWithinEveryCap
  <2>1. PICK A : held \in Seq(ValidGrants(A))
      BY GrantFacts
  <2>2. limit \in Nat /\ wanted \in Nat
      BY GrantAssumption
  <2> QED BY <2>1, <2>2, LimitsKeepEveryCap
<1> QED BY <1>1, StatementInvariance, PTL

(* Inspect refuses a statement that the target takes if and only if it     *)
(* does something forbidden, at whatever depth, that is not Unseen.        *)
THEOREM HarmIsRefused == StatementSpec => []InspectTellsHarm
<1>1. StatementInv => InspectTellsHarm
  <2> SUFFICES ASSUME StatementInv, verdict # "submitted", Meaning(text).ok
               PROVE  verdict = "refused" <=> Revealed(Meaning(text).columns) \cap Forbidden # {}
      BY DEF InspectTellsHarm, Means
  <2>1. verdict = "refused" <=> ~Acceptable(text)
      BY DEF StatementInv, VerdictIsInspects
  <2>2. PartsFirst(text) /\ IsTree(text)
      BY CaseFacts
  <2>3. Acceptable(text) <=> Revealed(Meaning(text).columns) \cap Forbidden = {}
      BY <2>2, HarmIsTold
  <2> QED BY <2>1, <2>3
<1> QED BY <1>1, StatementInvariance, PTL

(* Without a rule that masks there is nothing to mask.                     *)
LEMMA InactiveMasksNothing == ~Active => MaskedColumns = {}
BY DEF Active, MaskedColumns

(* What is sent reveals no masked column, but for what is Overlooked in    *)
(* the order of a UNION, and partial masking hides a character at least:   *)
(* for any tables, rules and statements.                                   *)
THEOREM SentStaysMasked == StatementSpec => []MaskedStaysMasked
<1>1. StatementInv => MaskedStaysMasked
  <2> SUFFICES ASSUME StatementInv, verdict = "sent", ~Overlooked(text)
               PROVE  Revealed(Meaning(tree).columns) \cap MaskedColumns = {}
      BY ShownIsLess DEF MaskedStaysMasked
  <2>1. CASE ~Active
      BY <2>1, InactiveMasksNothing
  <2>2. CASE Active
    <3>1. tree = Compiled(text) /\ \A n \in Walk(text) : Compilable(n)
        BY <2>2 DEF StatementInv, SentIsCompiled
    <3>2. PartsFirst(text) /\ IsTree(text) /\ DOMAIN rules \cap Harm = {}
        BY CaseFacts
    <3>3. Revealed(Meaning(Compiled(text)).columns) \cap MaskedColumns = {}
        BY <3>1, <3>2, NothingMasked
    <3> QED BY <3>1, <3>3
  <2> QED BY <2>1, <2>2
<1> QED BY <1>1, StatementInvariance, PTL

(* And it means what the statement meant, but for what is masked.          *)
THEOREM SentMeansTheSame == StatementSpec => []RewriteIsTransparent
<1>1. StatementInv => RewriteIsTransparent
  <2> DEFINE d == Meaning(tree)
             c == Meaning(text)
  <2> SUFFICES ASSUME StatementInv, verdict = "sent", IsSelect(text), c.ok
               PROVE  Same(d, c) /\ Len(d.columns) = Len(c.columns)
      BY DEF RewriteIsTransparent, Means, Same, Alike, Unmasked
  <2>1. CASE ~Active
    <3>1. d = c /\ MaskedColumns = {}
        BY <2>1, InactiveMasksNothing DEF StatementInv, SentIsCompiled
    <3> HIDE DEF c, d
    <3> QED BY <3>1 DEF Same, Alike
  <2>2. CASE Active
    <3>1. tree = Compiled(text) /\ \A n \in Walk(text) : Compilable(n)
        BY <2>2 DEF StatementInv, SentIsCompiled
    <3>2. PartsFirst(text) /\ IsTree(text) /\ DOMAIN rules \cap Harm = {}
        BY CaseFacts
    <3>3. Acceptable(text)
        BY DEF StatementInv, VerdictIsInspects
    <3>4. Rewritable(text)
        BY <3>1, <3>2, <3>3 DEF Rewritable, Acceptable
    <3> QED BY <3>1, <3>4, MeansTheSame
  <2> QED BY <2>1, <2>2
<1> QED BY <1>1, StatementInvariance, PTL
=============================================================================
