----------------------------- MODULE Resources ------------------------------
(***************************************************************************)
(* One database resource: its row in the control store, the administrators *)
(* who change it (updateResource and testResource in internal/api/admin.go,*)
(* saveMasking in internal/api/masking.go), the queries that use it, and   *)
(* the pools of its connections.                                           *)
(*                                                                         *)
(* The target registry appears here as what it promises, PoolCache, which  *)
(* RegistryProofs proves that Registry implements.  A version of the       *)
(* row stands for the settings it holds.  A member of Op is one request;   *)
(* it asks the registry for at most one pool, and the pool its flight      *)
(* connects is named after it.                                             *)
(***************************************************************************)
EXTENDS Naturals, Sequences

CONSTANTS
    Op,          \* requests
    Kinds,       \* what they do, a subset of Kind
    MaxVersion,  \* bound on the versions of the row
    NoPool,      \* no pool
    Faults       \* whether the control store may fail

Kind == {"update", "mask", "test", "query"}

ASSUME ResourcesAssumption ==
    /\ Kinds \subseteq Kind
    /\ MaxVersion \in Nat \ {0}
    /\ NoPool \notin Op
    /\ Op \cap {"none", "error"} = {}
    /\ Faults \in BOOLEAN

Version == 1 .. MaxVersion

VARIABLES
    version,   \* database_resources.version
    shut, epoch, table, life, born, answer,    \* PoolCache
    pc,        \* where a request stands
    kind,      \* what it does
    expected,  \* the version an update was based on
    seen,      \* the version a request has read
    epochAt,   \* the epoch its registry.Get began in
    reply,     \* what the caller got
    made,      \* history: the version an update or a rule change wrote
    older,     \* history: the pools live then, or when a test began
    rowsAt     \* history: the version when a query was authorized again

poolVars == <<shut, epoch, table, life, born, answer>>
history == <<made, older, rowsAt>>
vars == <<version, shut, epoch, table, life, born, answer, pc, kind, expected,
          seen, epochAt, reply, made, older, rowsAt>>

Pools == INSTANCE PoolCache WITH
    Call <- Op,
    Adapter <- Op,
    Config <- Version,
    Resource <- {"resource"},
    ResourceOf <- [v \in Version |-> "resource"],
    NoAdapter <- NoPool

PC == {"idle", "fetch", "check", "get", "wait", "use", "recheck", "row",
       "readback", "invalidate", "done"}

(* A query is answered by its second authorization, the others when their  *)
(* last step is done; only an update knows of conflicts.                   *)
RepliesTo(k) ==
    {"none", "error"} \cup CASE k = "query" -> {"rows", "changed"}
                             [] k = "update" -> {"ok", "conflict"}
                             [] OTHER -> {"ok"}

Reply == UNION {RepliesTo(k) : k \in Kind}

TypeOK ==
    /\ version \in Version
    /\ epoch \in [{"resource"} -> Nat]
    /\ table \in [Version -> Op \cup {NoPool}]
    /\ life \in [Op -> {"new", "live", "retired"}]
    /\ answer \in [Op -> Op \cup {"none", "error"}]
    /\ pc \in [Op -> PC]
    /\ kind \in [Op -> Kinds]
    /\ expected \in [Op -> Version]
    /\ seen \in [Op -> Version]
    /\ epochAt \in [Op -> Nat]
    /\ reply \in [Op -> Reply]
    /\ \A o \in Op : reply[o] \in RepliesTo(kind[o])
    /\ made \in [Op -> Version \cup {0}]
    /\ older \in [Op -> SUBSET Op]
    /\ rowsAt \in [Op -> Version \cup {0}]

Init ==
    /\ version = 1
    /\ Pools!Init
    /\ pc = [o \in Op |-> "idle"]
    /\ kind \in [Op -> Kinds]
    /\ expected = [o \in Op |-> 1]
    /\ seen = [o \in Op |-> 1]
    /\ epochAt = [o \in Op |-> 0]
    /\ reply = [o \in Op |-> "none"]
    /\ made = [o \in Op |-> 0]
    /\ older = [o \in Op |-> {}]
    /\ rowsAt = [o \in Op |-> 0]

-----------------------------------------------------------------------------
Goto(o, there) ==
    /\ pc' = [pc EXCEPT ![o] = there]
    /\ UNCHANGED reply

Answer(o, what) ==
    /\ pc' = [pc EXCEPT ![o] = "done"]
    /\ reply' = [reply EXCEPT ![o] = what]

(* Mutant: pools are invalidated before the row is written. *)
InvalidateFirst == <<"invalidate", "row", "readback">>

(* Mutant: rows are returned without a second authorization. *)
RecheckForgotten == <<"fetch", "check", "get", "wait", "use">>

(* The order in which the handlers do things when nothing fails. *)
UpdatePlan == <<"row", "readback", "invalidate">>

MaskPlan == <<"fetch", "get", "wait", "use", "row", "invalidate">>

TestPlan == <<"fetch", "invalidate", "get", "wait", "use">>

QueryPlan == <<"fetch", "check", "get", "wait", "use", "recheck">>

Plan(k) ==
    CASE k = "update" -> UpdatePlan
      [] k = "mask" -> MaskPlan
      [] k = "test" -> TestPlan
      [] k = "query" -> QueryPlan

Proceed(o) ==
    LET plan == Plan(kind[o])
        i == CHOOSE i \in DOMAIN plan : plan[i] = pc[o]
    IN IF i = Len(plan) THEN Answer(o, "ok") ELSE Goto(o, plan[i + 1])

(* An administrator's form shows some version of the row, the current one  *)
(* or an earlier one.                                                      *)
Start(o) ==
    /\ pc[o] = "idle"
    /\ \E v \in 1 .. version : expected' = [expected EXCEPT ![o] = v]
    /\ Goto(o, Head(Plan(kind[o])))
    /\ UNCHANGED <<version, poolVars, kind, seen, epochAt, history>>

-----------------------------------------------------------------------------
(* The control store.                                                      *)

Live == {i \in Op : life[i] = "live"}

(* GetResource, GetResourceByKey. *)
Fetch(o) ==
    /\ pc[o] = "fetch"
    /\ seen' = [seen EXCEPT ![o] = version]
    /\ older' = [older EXCEPT ![o] = Live]
    /\ Proceed(o)
    /\ UNCHANGED <<version, poolVars, kind, expected, epochAt, made, rowsAt>>

(* Mutant: the statement does not ask for the version. *)
AnyVersion(o) == TRUE

(* UpdateResource writes on condition of the version its author knew;      *)
(* SaveMaskRule takes whatever version there is.                           *)
MayWrite(o) == kind[o] = "update" => version = expected[o]

(* The row's statement, or the transaction of row and rule.  It may be     *)
(* applied and yet report an error.                                        *)
WriteRow(o) ==
    /\ pc[o] = "row"
    /\ MayWrite(o)
    /\ version < MaxVersion
    /\ version' = version + 1
    /\ made' = [made EXCEPT ![o] = version + 1]
    /\ older' = [older EXCEPT ![o] = Live]
    /\ Proceed(o) \/ (Faults /\ Answer(o, "error"))
    /\ UNCHANGED <<poolVars, kind, expected, seen, epochAt, rowsAt>>

Conflict(o) ==
    /\ pc[o] = "row"
    /\ ~MayWrite(o)
    /\ Answer(o, "conflict")
    /\ UNCHANGED <<version, poolVars, kind, expected, seen, epochAt, history>>

(* UpdateResource ends with a GetResource. *)
ReadBack(o) ==
    /\ pc[o] = "readback"
    /\ Proceed(o)
    /\ UNCHANGED <<version, poolVars, kind, expected, seen, epochAt, history>>

(* A read or a write of the store fails.  If it is the one that follows    *)
(* the update, the handler answers with an error and invalidates nothing.  *)
StoreFailed(o) ==
    /\ Faults
    /\ pc[o] \in {"fetch", "check", "row", "readback", "recheck"}
    /\ Answer(o, "error")
    /\ UNCHANGED <<version, poolVars, kind, expected, seen, epochAt, history>>

(* authorizeResource compares versions before the pool is asked for. *)
Check(o) ==
    /\ pc[o] = "check"
    /\ IF version = seen[o] THEN Proceed(o) ELSE Answer(o, "changed")
    /\ UNCHANGED <<version, poolVars, kind, expected, seen, epochAt, history>>

(* Mutant: the version is not compared when the rows are there. *)
AnyRecheck(o) == TRUE

StillCurrent(o) == version = seen[o]

(* It does so again before the rows are returned. *)
Recheck(o) ==
    /\ pc[o] = "recheck"
    /\ Answer(o, IF StillCurrent(o) THEN "rows" ELSE "changed")
    /\ rowsAt' = [rowsAt EXCEPT ![o] = version]
    /\ UNCHANGED <<version, poolVars, kind, expected, seen, epochAt, made,
                   older>>

-----------------------------------------------------------------------------
(* The registry.                                                           *)

Invalidate(o) ==
    /\ pc[o] = "invalidate"
    /\ Pools!RetireResource("resource")
    /\ Proceed(o)
    /\ UNCHANGED <<answer, version, kind, expected, seen, epochAt, history>>

(* getCacheKey: resource, version and settings. *)
Key(v) == v

(* registry.Get reads the generation. *)
BeginGet(o) ==
    /\ pc[o] = "get"
    /\ epochAt' = [epochAt EXCEPT ![o] = epoch["resource"]]
    /\ Goto(o, "wait")
    /\ UNCHANGED <<version, poolVars, kind, expected, seen, history>>

(* The flight of a request caches its pool if the generation has not moved *)
(* on, also when the request itself has given up by then.                  *)
Publish(o) ==
    /\ pc[o] \in {"wait", "done"}
    /\ pc[o] = "done" => answer[o] = "error"
    /\ epoch["resource"] = epochAt[o]
    /\ Pools!Publish(Key(seen[o]), o)
    /\ UNCHANGED <<version, pc, kind, expected, seen, epochAt, reply, history>>

GetPool(o) ==
    /\ pc[o] = "wait"
    /\ Pools!Answer(o, Key(seen[o]))
    /\ Proceed(o)
    /\ UNCHANGED <<version, kind, expected, seen, epochAt, history>>

GetFailed(o) ==
    /\ pc[o] = "wait"
    /\ Pools!Refuse(o)
    /\ Answer(o, "error")
    /\ UNCHANGED <<version, kind, expected, seen, epochAt, history>>

(* The schema query, the ping or the caller's statement on the pool. *)
Use(o) ==
    /\ pc[o] = "use"
    /\ Proceed(o)
    /\ UNCHANGED <<version, poolVars, kind, expected, seen, epochAt, history>>

(* It fails, for instance because the pool was closed meanwhile. *)
UseFailed(o) ==
    /\ pc[o] = "use"
    /\ Answer(o, "error")
    /\ UNCHANGED <<version, poolVars, kind, expected, seen, epochAt, history>>

(* A cached pool fails its ping; the gateway shuts the registry. *)
PingFails(v) ==
    /\ table[v] # NoPool
    /\ Pools!RetireFailed(v)
    /\ UNCHANGED <<version, pc, kind, expected, seen, epochAt, reply, history>>

Shutdown ==
    /\ ~shut
    /\ Pools!Shutdown
    /\ UNCHANGED <<version, pc, kind, expected, seen, epochAt, reply, history>>

-----------------------------------------------------------------------------
RequestStep(o) ==
    \/ Start(o) \/ Fetch(o) \/ WriteRow(o) \/ Conflict(o) \/ ReadBack(o)
    \/ StoreFailed(o) \/ Check(o) \/ Recheck(o) \/ Invalidate(o)
    \/ BeginGet(o) \/ Publish(o) \/ GetPool(o) \/ GetFailed(o)
    \/ Use(o) \/ UseFailed(o)

(* Every request has its answer, or waits for a version beyond the bound. *)
Quiet ==
    /\ \A o \in Op : pc[o] = "done" \/ (pc[o] = "row" /\ version = MaxVersion)
    /\ UNCHANGED vars

Next ==
    \/ \E o \in Op : RequestStep(o)
    \/ \E v \in Version : PingFails(v)
    \/ Shutdown
    \/ Quiet

Spec == Init /\ [][Next]_vars

-----------------------------------------------------------------------------
(* Properties.                                                             *)

(* The optimistic version: an update that was answered ok directly follows *)
(* the version its author knew.  No other update and no change of a        *)
(* masking rule, which takes a version of its own, was overwritten.        *)
NoChangeIsOverwritten ==
    \A o \in Op : kind[o] = "update" /\ reply[o] = "ok" =>
        made[o] = expected[o] + 1

(* docs/security.md:9: rows come from a connection with the settings that  *)
(* are in force when the query is authorized again, however late the       *)
(* invalidation that follows an update is and however early the pool was   *)
(* asked for.                                                              *)
RowsFromCurrentSettings ==
    \A o \in Op : reply[o] = "rows" => seen[answer[o]] = rowsAt[o]

(* docs/security.md:9: when an update or a rule change has been answered   *)
(* ok, every pool that was live when it wrote the row is retired: it is    *)
(* not cached again and no later request is given it.  Likewise a          *)
(* connection test that succeeds has used a connection made after the test *)
(* began: it never vouches for one made with the settings of before.       *)
ChangesRetirePools ==
    \A o \in Op : reply[o] = "ok" =>
        /\ kind[o] \in {"update", "mask"} =>
              \A i \in older[o] :
                  life[i] = "retired" /\ \A v \in Version : table[v] # i
        /\ kind[o] = "test" => answer[o] \notin older[o]

-----------------------------------------------------------------------------
(* What the code does not do.                                              *)

(* docs/security.md:9 says that updating a resource makes its old pools    *)
(* invalid.  A request that read the row before the update and asks for    *)
(* its pool after the invalidation connects with the old settings, in the  *)
(* new generation, and the pool is cached and kept.                        *)
OldSettingsLeaveTheCache ==
    \A o \in Op : kind[o] = "update" /\ reply[o] = "ok" =>
        \A v \in Version : table[v] # NoPool => seen[table[v]] >= made[o]
=============================================================================
