----------------------------- MODULE Connections ----------------------------
(***************************************************************************)
(* The two bounded pools of connections, of the control store              *)
(* (internal/control/store.go) and of one target                           *)
(* (internal/target/database.go), and the order in which the handlers take *)
(* and return connections.                                                 *)
(*                                                                         *)
(* A request is what it has yet to do with the pools.  A statement takes a *)
(* connection and returns it; open rows and transactions keep theirs.      *)
(* Statements that follow one another on the same pool with nothing else   *)
(* in between are one.                                                     *)
(***************************************************************************)
EXTENDS Naturals, Sequences, FiniteSets

CONSTANTS
    Op,        \* requests
    Kinds,     \* what they do, a subset of Kind
    Size       \* connections a pool may open: 12 and 4

Pool == {"store", "target"}

Kind == {"read", "write", "schema", "mask", "create", "admin"}

ASSUME ConnectionsAssumption ==
    /\ Kinds \subseteq Kind
    /\ Size \in [Pool -> Nat \ {0}]

VARIABLES
    kind,
    todo,     \* the steps a request has yet to take
    busy,     \* the pool a statement of it has a connection of
    kept,     \* the pools it keeps a connection of
    failing   \* it is on its way out after an error

vars == <<kind, todo, busy, kept, failing>>

(* The pool each step needs a connection of. *)
Needs ==
    [store |-> "store", target |-> "target", begin |-> "store", open |-> "target"]

(* Steps that keep it, and steps that return what was kept.  "inside" is a *)
(* statement on the connection a transaction keeps.                        *)
Keeps == {"begin", "open"}

Returns == [commit |-> "store", close |-> "target"]

StepName == DOMAIN Needs \cup DOMAIN Returns \cup {"inside"}

(* Execute of a SELECT: session, audit and authorization; the ping; the    *)
(* rules; the schema they are compiled with; the rows, open until the      *)
(* function returns, through the second authorization and the audit.       *)
ReadPlan == <<"store", "target", "store", "target", "open", "store", "close">>

(* Execute of a write: the transaction ends before its audit.  A write on  *)
(* a resource with rules fails like a read, after the schema.              *)
WritePlan == <<"store", "target", "store", "open", "store", "close", "store">>

(* ListTables and DescribeTable. *)
SchemaPlan == <<"store", "target", "store", "open", "close">>

(* Mutant: the fields are looked up within the transaction. *)
FieldsInTransaction == <<"begin", "target", "inside", "commit", "store">>

(* saveMasking: the fields of the table, then SaveMaskRule. *)
MaskPlan == <<"store", "target", "begin", "inside", "commit", "store">>

(* createResourceBatch. *)
CreatePlan == <<"store", "begin", "inside", "commit", "store">>

(* testResource and the handlers that only use the store. *)
AdminPlan == <<"store", "target">>

Plan(k) ==
    CASE k = "read" -> ReadPlan
      [] k = "write" -> WritePlan
      [] k = "schema" -> SchemaPlan
      [] k = "mask" -> MaskPlan
      [] k = "create" -> CreatePlan
      [] k = "admin" -> AdminPlan

InUse(p) ==
    Cardinality({o \in Op : busy[o] = p}) + Cardinality({o \in Op : p \in kept[o]})

Ended(o) == todo[o] = <<>>

TypeOK ==
    /\ kind \in [Op -> Kinds]
    /\ todo \in [Op -> Seq(StepName)]
    /\ busy \in [Op -> Pool \cup {"none"}]
    /\ kept \in [Op -> SUBSET Pool]
    /\ failing \in [Op -> BOOLEAN]

Init ==
    /\ kind \in [Op -> Kinds]
    /\ todo = [o \in Op |-> Plan(kind[o])]
    /\ busy = [o \in Op |-> "none"]
    /\ kept = [o \in Op |-> {}]
    /\ failing = [o \in Op |-> FALSE]

-----------------------------------------------------------------------------
IsAt(o, steps) == ~Ended(o) /\ busy[o] = "none" /\ Head(todo[o]) \in steps

Advance(o) == todo' = [todo EXCEPT ![o] = Tail(@)]

(* Whoever waits may be the next to get a connection: database/sql does    *)
(* not promise an order.                                                   *)
Take(o) ==
    /\ IsAt(o, DOMAIN Needs)
    /\ LET step == Head(todo[o])
           pool == Needs[step]
       IN /\ InUse(pool) < Size[pool]
          /\ IF step \in Keeps
             THEN kept' = [kept EXCEPT ![o] = @ \cup {pool}]
                  /\ Advance(o) /\ UNCHANGED busy
             ELSE busy' = [busy EXCEPT ![o] = pool] /\ UNCHANGED <<kept, todo>>
    /\ UNCHANGED <<kind, failing>>

StatementEnds(o) ==
    /\ busy[o] # "none"
    /\ busy' = [busy EXCEPT ![o] = "none"]
    /\ Advance(o)
    /\ UNCHANGED <<kind, kept, failing>>

Inside(o) ==
    /\ IsAt(o, {"inside"})
    /\ Advance(o)
    /\ UNCHANGED <<kind, busy, kept, failing>>

GiveBack(o) ==
    /\ IsAt(o, DOMAIN Returns)
    /\ kept' = [kept EXCEPT ![o] = @ \ {Returns[Head(todo[o])]}]
    /\ Advance(o)
    /\ UNCHANGED <<kind, busy, failing>>

(* A read that has read all its rows has returned its connection. *)
RowsExhausted(o) ==
    /\ kind[o] = "read" /\ "target" \in kept[o]
    /\ kept' = [kept EXCEPT ![o] = @ \ {"target"}]
    /\ UNCHANGED <<kind, todo, busy, failing>>

(* The deferred Close of rows and the Rollback of transactions. *)
Deferred(o) ==
    IF "target" \in kept[o] THEN <<"close">>
    ELSE IF "store" \in kept[o] THEN <<"commit">> ELSE <<>>

(* Mutant: the audit of a failure is tried again until it succeeds. *)
UnwindAgain(o) ==
    {Deferred(o)} \cup
    IF kind[o] \in {"read", "write"} THEN {<<"store">> \o Deferred(o)} ELSE {}

(* A query audits its failure, on the store, before what is deferred,      *)
(* unless it was an audit that failed.                                     *)
Unwind(o) ==
    {Deferred(o)} \cup
    IF kind[o] \in {"read", "write"} /\ ~failing[o]
    THEN {<<"store">> \o Deferred(o)} ELSE {}

(* A statement fails, or waiting for a connection runs into a timeout. *)
Fail(o) ==
    /\ ~Ended(o) /\ (busy[o] # "none" \/ IsAt(o, DOMAIN Needs \cup {"inside"}))
    /\ busy' = [busy EXCEPT ![o] = "none"]
    /\ \E steps \in Unwind(o) : todo' = [todo EXCEPT ![o] = steps]
    /\ failing' = [failing EXCEPT ![o] = TRUE]
    /\ UNCHANGED <<kind, kept>>

Quiet ==
    /\ \A o \in Op : Ended(o)
    /\ UNCHANGED vars

Step(o) == Take(o) \/ StatementEnds(o) \/ Inside(o) \/ GiveBack(o)

Next ==
    \/ \E o \in Op : Step(o) \/ RowsExhausted(o) \/ Fail(o)
    \/ Quiet

Spec == Init /\ [][Next]_vars /\ \A o \in Op : WF_vars(Step(o))

-----------------------------------------------------------------------------
(* Correctness.                                                            *)

WaitsFor(o, pool) == IsAt(o, {step \in DOMAIN Needs : Needs[step] = pool})

(* Connections are taken in one order: who waits for the target keeps      *)
(* nothing, and who waits for the store keeps no connection of the store,  *)
(* not on an error path either.  A read or a write that keeps its          *)
(* connection to the target while it is authorized again and audited       *)
(* (query/service.go:248, 286) therefore never waits, through others, for  *)
(* itself, whatever the sizes of the pools.  And a request that has ended  *)
(* has returned every connection, whichever step failed.                   *)
OrderOfPools ==
    \A o \in Op : /\ WaitsFor(o, "target") => kept[o] = {}
                  /\ WaitsFor(o, "store") => "store" \notin kept[o]
                  /\ Ended(o) => busy[o] = "none" /\ kept[o] = {}

(* Every request ends, although no wait for a connection runs into a       *)
(* timeout: the audit that ends a read waits for a connection of the store *)
(* without any (query/service.go:257) and keeps one of the target.         *)
RequestsEnd == \A o \in Op : <>Ended(o)
=============================================================================
