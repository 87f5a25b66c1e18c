--------------------------- MODULE ResourcesProofs ---------------------------
(***************************************************************************)
(* Proofs about Resources, for any set of requests, any number of versions *)
(* and a store that may fail: the optimistic version, the settings rows    *)
(* are read with, and the pools a change retires.                          *)
(***************************************************************************)
EXTENDS Resources, TLAPS

(* A request that is under way stands at a step of its own handler. *)
PlaceShape ==
    \A o \in Op :
        /\ kind[o] = "update" =>
              pc[o] \in {"idle", "row", "readback", "invalidate", "done"}
        /\ kind[o] = "mask" =>
              pc[o] \in {"idle", "fetch", "get", "wait", "use", "row",
                        "invalidate", "done"}
        /\ kind[o] = "test" =>
              pc[o] \in {"idle", "fetch", "invalidate", "get", "wait", "use", "done"}
        /\ kind[o] = "query" =>
              pc[o] \in {"idle", "fetch", "check", "get", "wait", "use",
                        "recheck", "done"}
        /\ pc[o] = "done" <=> reply[o] # "none"

(* A pool is live as long as it is cached, under the settings its request  *)
(* has read; a request that has a pool or an answer reads no more.         *)
PoolShape ==
    /\ \A i \in Op : life[i] = "live" <=> \E v \in Version : table[v] = i
    /\ \A v \in Version : table[v] # NoPool => seen[table[v]] = v
    /\ \A i \in Op : life[i] # "new" => pc[i] \notin {"idle", "fetch"}

(* Whoever was given a pool has read the same settings as its maker. *)
AnswerShape ==
    \A o \in Op :
        /\ answer[o] \in Op =>
             /\ seen[answer[o]] = seen[o]
             /\ life[answer[o]] # "new"
             /\ pc[o] \notin {"idle", "fetch"}
        /\ kind[o] = "query" /\ (pc[o] \in {"use", "recheck"} \/ reply[o] = "rows")
             => answer[o] \in Op
        /\ reply[o] = "rows" => kind[o] = "query" /\ rowsAt[o] = seen[o]

(* An update that goes on after its statement has found the version its    *)
(* author knew.                                                            *)
UpdateShape ==
    \A o \in Op :
        kind[o] = "update"
        /\ (pc[o] \in {"readback", "invalidate"} \/ reply[o] = "ok")
        => made[o] = expected[o] + 1

(* The pools a request remembers are not new, and retired once it has      *)
(* retired the resource.                                                   *)
OlderShape ==
    \A o \in Op :
        /\ \A i \in older[o] : life[i] # "new"
        /\ kind[o] \in {"update", "mask"} /\ reply[o] = "ok"
             => \A i \in older[o] : life[i] = "retired"
        /\ kind[o] = "test" /\ pc[o] \in {"get", "wait"}
             => \A i \in older[o] : life[i] = "retired"
        /\ kind[o] = "test" /\ answer[o] \in Op =>
             /\ answer[o] \notin older[o]
             /\ pc[o] \notin {"invalidate", "get", "wait"}

IInv ==
    /\ TypeOK
    /\ PlaceShape
    /\ PoolShape
    /\ AnswerShape
    /\ UpdateShape
    /\ OlderShape

-----------------------------------------------------------------------------
LEMMA KindFacts ==
    ASSUME TypeOK, NEW o \in Op
    PROVE  kind[o] \in {"update", "mask", "test", "query"}
BY ResourcesAssumption DEF TypeOK, Kind

LEMMA ReplyFacts ==
    /\ RepliesTo("update") = {"none", "error", "ok", "conflict"}
    /\ RepliesTo("mask") = {"none", "error", "ok"}
    /\ RepliesTo("test") = {"none", "error", "ok"}
    /\ RepliesTo("query") = {"none", "error", "rows", "changed"}
    /\ Reply = {"none", "error", "ok", "conflict", "rows", "changed"}
<1>1. RepliesTo("update") = {"none", "error", "ok", "conflict"}
      BY DEF RepliesTo
<1>2. RepliesTo("mask") = {"none", "error", "ok"}
      BY DEF RepliesTo
<1>3. RepliesTo("test") = {"none", "error", "ok"}
      BY DEF RepliesTo
<1>4. RepliesTo("query") = {"none", "error", "rows", "changed"}
      BY DEF RepliesTo
<1>5. Reply = {"none", "error", "ok", "conflict", "rows", "changed"}
      BY <1>1, <1>2, <1>3, <1>4 DEF Reply, Kind
<1> QED BY <1>1, <1>2, <1>3, <1>4, <1>5

(* What follows each step of each handler. *)
LEMMA UpdateProceeds ==
    ASSUME NEW o \in Op, kind[o] = "update", Proceed(o)
    PROVE  /\ pc[o] = "row" => Goto(o, "readback")
           /\ pc[o] = "readback" => Goto(o, "invalidate")
           /\ pc[o] = "invalidate" => Answer(o, "ok")
<1> DEFINE i == CHOOSE i \in 1..3 : UpdatePlan[i] = pc[o]
<1>1. IF i = 3 THEN Answer(o, "ok") ELSE Goto(o, UpdatePlan[i + 1])
      BY DEF Proceed, Plan, UpdatePlan
<1>2. pc[o] \in {"row", "readback", "invalidate"}
        => i \in 1..3 /\ UpdatePlan[i] = pc[o]
  <2>1. pc[o] \in {"row", "readback", "invalidate"}
          => \E n \in 1..3 : UpdatePlan[n] = pc[o]
        BY DEF UpdatePlan
  <2> QED BY <2>1
<1> HIDE DEF i
<1> QED BY <1>1, <1>2 DEF UpdatePlan

LEMMA MaskProceeds ==
    ASSUME NEW o \in Op, kind[o] = "mask", Proceed(o)
    PROVE  /\ pc[o] = "fetch" => Goto(o, "get")
           /\ pc[o] = "get" => Goto(o, "wait")
           /\ pc[o] = "wait" => Goto(o, "use")
           /\ pc[o] = "use" => Goto(o, "row")
           /\ pc[o] = "row" => Goto(o, "invalidate")
           /\ pc[o] = "invalidate" => Answer(o, "ok")
<1> DEFINE i == CHOOSE i \in 1..6 : MaskPlan[i] = pc[o]
<1>1. IF i = 6 THEN Answer(o, "ok") ELSE Goto(o, MaskPlan[i + 1])
      BY DEF Proceed, Plan, MaskPlan
<1>2. pc[o] \in {"fetch", "get", "wait", "use", "row", "invalidate"}
        => i \in 1..6 /\ MaskPlan[i] = pc[o]
  <2>1. pc[o] \in {"fetch", "get", "wait", "use", "row", "invalidate"}
          => \E n \in 1..6 : MaskPlan[n] = pc[o]
        BY DEF MaskPlan
  <2> QED BY <2>1
<1> HIDE DEF i
<1> QED BY <1>1, <1>2 DEF MaskPlan

LEMMA TestProceeds ==
    ASSUME NEW o \in Op, kind[o] = "test", Proceed(o)
    PROVE  /\ pc[o] = "fetch" => Goto(o, "invalidate")
           /\ pc[o] = "invalidate" => Goto(o, "get")
           /\ pc[o] = "get" => Goto(o, "wait")
           /\ pc[o] = "wait" => Goto(o, "use")
           /\ pc[o] = "use" => Answer(o, "ok")
<1> DEFINE i == CHOOSE i \in 1..5 : TestPlan[i] = pc[o]
<1>1. IF i = 5 THEN Answer(o, "ok") ELSE Goto(o, TestPlan[i + 1])
      BY DEF Proceed, Plan, TestPlan
<1>2. pc[o] \in {"fetch", "invalidate", "get", "wait", "use"}
        => i \in 1..5 /\ TestPlan[i] = pc[o]
  <2>1. pc[o] \in {"fetch", "invalidate", "get", "wait", "use"}
          => \E n \in 1..5 : TestPlan[n] = pc[o]
        BY DEF TestPlan
  <2> QED BY <2>1
<1> HIDE DEF i
<1> QED BY <1>1, <1>2 DEF TestPlan

LEMMA QueryProceeds ==
    ASSUME NEW o \in Op, kind[o] = "query", Proceed(o)
    PROVE  /\ pc[o] = "fetch" => Goto(o, "check")
           /\ pc[o] = "check" => Goto(o, "get")
           /\ pc[o] = "get" => Goto(o, "wait")
           /\ pc[o] = "wait" => Goto(o, "use")
           /\ pc[o] = "use" => Goto(o, "recheck")
<1> DEFINE i == CHOOSE i \in 1..6 : QueryPlan[i] = pc[o]
<1>1. IF i = 6 THEN Answer(o, "ok") ELSE Goto(o, QueryPlan[i + 1])
      BY DEF Proceed, Plan, QueryPlan
<1>2. pc[o] \in {"fetch", "check", "get", "wait", "use", "recheck"}
        => i \in 1..6 /\ QueryPlan[i] = pc[o]
  <2>1. pc[o] \in {"fetch", "check", "get", "wait", "use", "recheck"}
          => \E n \in 1..6 : QueryPlan[n] = pc[o]
        BY DEF QueryPlan
  <2> QED BY <2>1
<1> HIDE DEF i
<1> QED BY <1>1, <1>2 DEF QueryPlan

(* A request takes a step of its handler: what every step but the first    *)
(* has in common, whether it goes on or answers.                           *)
Moved(o) ==
    /\ UNCHANGED kind
    /\ pc[o] \notin {"idle", "done"}
    /\ pc' \in [Op -> PC] /\ reply' \in [Op -> Reply]
    /\ \A p \in Op : reply'[p] \in RepliesTo(kind[p])
    /\ \A p \in Op \ {o} : pc'[p] = pc[p] /\ reply'[p] = reply[p]
    /\ pc'[o] \notin {"idle", "fetch"}
    /\ PlaceShape'

LEMMA ProceedMoves ==
    ASSUME TypeOK, PlaceShape, NEW o \in Op, Proceed(o), UNCHANGED kind,
           pc[o] \notin {"idle", "recheck", "done"}
    PROVE  /\ Moved(o)
           /\ reply'[o] = IF pc'[o] = "done" THEN "ok" ELSE "none"
           /\ kind[o] = "query" => reply'[o] = "none"
<1>1. pc \in [Op -> PC] /\ reply \in [Op -> Reply] /\ kind[o] \in Kind
      BY KindFacts DEF TypeOK, Kind
<1>2. \/ \E w \in PC : Goto(o, w)
      \/ Answer(o, "ok")
      BY KindFacts, UpdateProceeds, MaskProceeds, TestProceeds, QueryProceeds
         DEF PlaceShape, PC
<1>3. /\ pc' \in [Op -> PC]
      /\ \A p \in Op \ {o} : pc'[p] = pc[p] /\ reply'[p] = reply[p]
      /\ reply[o] = "none"
      BY <1>1, <1>2 DEF Goto, Answer, PC, PlaceShape
<1>4. CASE kind[o] = "update"
  <2>1. /\ pc'[o] \in {"readback", "invalidate", "done"}
        /\ reply'[o] = IF pc'[o] = "done" THEN "ok" ELSE "none"
        BY <1>1, <1>3, <1>4, UpdateProceeds DEF PlaceShape, Goto, Answer
  <2>2. PlaceShape'
        BY <1>3, <1>4, <2>1 DEF PlaceShape
  <2>3. \A p \in Op : reply'[p] \in RepliesTo(kind[p])
        BY <1>3, <1>4, <2>1, ReplyFacts DEF TypeOK
  <2>4. reply' \in [Op -> Reply]
        BY <1>1, <1>2, ReplyFacts DEF Goto, Answer
  <2> QED BY <1>3, <1>4, <2>1, <2>2, <2>3, <2>4 DEF Moved
<1>5. CASE kind[o] = "mask"
  <2>1. /\ pc'[o] \in {"get", "wait", "use", "row", "invalidate", "done"}
        /\ reply'[o] = IF pc'[o] = "done" THEN "ok" ELSE "none"
        BY <1>1, <1>3, <1>5, MaskProceeds DEF PlaceShape, Goto, Answer
  <2>2. PlaceShape'
        BY <1>3, <1>5, <2>1 DEF PlaceShape
  <2>3. \A p \in Op : reply'[p] \in RepliesTo(kind[p])
        BY <1>3, <1>5, <2>1, ReplyFacts DEF TypeOK
  <2>4. reply' \in [Op -> Reply]
        BY <1>1, <1>2, ReplyFacts DEF Goto, Answer
  <2> QED BY <1>3, <1>5, <2>1, <2>2, <2>3, <2>4 DEF Moved
<1>6. CASE kind[o] = "test"
  <2>1. /\ pc'[o] \in {"invalidate", "get", "wait", "use", "done"}
        /\ reply'[o] = IF pc'[o] = "done" THEN "ok" ELSE "none"
        BY <1>1, <1>3, <1>6, TestProceeds DEF PlaceShape, Goto, Answer
  <2>2. PlaceShape'
        BY <1>3, <1>6, <2>1 DEF PlaceShape
  <2>3. \A p \in Op : reply'[p] \in RepliesTo(kind[p])
        BY <1>3, <1>6, <2>1, ReplyFacts DEF TypeOK
  <2>4. reply' \in [Op -> Reply]
        BY <1>1, <1>2, ReplyFacts DEF Goto, Answer
  <2> QED BY <1>3, <1>6, <2>1, <2>2, <2>3, <2>4 DEF Moved
<1>7. CASE kind[o] = "query"
  <2>1. /\ pc'[o] \in {"check", "get", "wait", "use", "recheck"}
        /\ reply'[o] = "none"
        BY <1>1, <1>3, <1>7, QueryProceeds DEF PlaceShape, Goto
  <2>2. PlaceShape'
        BY <1>3, <1>7, <2>1 DEF PlaceShape
  <2>3. \A p \in Op : reply'[p] \in RepliesTo(kind[p])
        BY <1>3, <1>7, <2>1, ReplyFacts DEF TypeOK
  <2>4. reply' \in [Op -> Reply]
        BY <1>1, <1>2, ReplyFacts DEF Goto, Answer
  <2> QED BY <1>3, <1>7, <2>1, <2>2, <2>3, <2>4 DEF Moved
<1> QED BY <1>4, <1>5, <1>6, <1>7, KindFacts

LEMMA AnswerMoves ==
    ASSUME TypeOK, PlaceShape, NEW o \in Op, pc[o] \notin {"idle", "done"},
           NEW what \in RepliesTo(kind[o]) \ {"none"}, Answer(o, what), UNCHANGED kind
    PROVE  Moved(o) /\ pc'[o] = "done" /\ reply'[o] = what
<1>1. pc \in [Op -> PC] /\ reply \in [Op -> Reply] /\ what \in Reply
      BY KindFacts, ReplyFacts DEF TypeOK, Kind
<1>2. /\ pc' \in [Op -> PC] /\ reply' \in [Op -> Reply]
      /\ pc'[o] = "done" /\ reply'[o] = what
      /\ \A p \in Op \ {o} : pc'[p] = pc[p] /\ reply'[p] = reply[p]
      BY <1>1 DEF Answer, PC
<1>3. PlaceShape'
      BY <1>2 DEF PlaceShape
<1>4. \A p \in Op : reply'[p] \in RepliesTo(kind[p])
      BY <1>2 DEF TypeOK
<1> QED BY <1>2, <1>3, <1>4 DEF Moved

LEMMA Initially == Init => IInv
<1> SUFFICES ASSUME Init PROVE IInv
    OBVIOUS
<1> USE DEF Init, Pools!Init
<1>1. TypeOK
  <2>1. 1 \in Version
        BY ResourcesAssumption DEF Version
  <2>2. ASSUME NEW o \in Op PROVE reply[o] \in RepliesTo(kind[o])
    <3>1. reply[o] = "none" /\ kind[o] \in {"update", "mask", "test", "query"}
          BY ResourcesAssumption DEF Kind
    <3> QED BY <3>1, ReplyFacts
  <2> QED BY <2>1, <2>2, ReplyFacts DEF TypeOK, PC
<1>2. PlaceShape
      BY DEF PlaceShape
<1>3. PoolShape
      BY ResourcesAssumption DEF PoolShape
<1>4. AnswerShape
      BY ResourcesAssumption DEF AnswerShape
<1>5. UpdateShape
      BY DEF UpdateShape
<1>6. OlderShape
      BY ResourcesAssumption DEF OlderShape
<1> QED BY <1>1, <1>2, <1>3, <1>4, <1>5, <1>6 DEF IInv

LEMMA StartKeeps ==
    ASSUME IInv, NEW o \in Op, Start(o)
    PROVE  IInv'
<1> USE DEF IInv
<1>1. PICK v \in 1 .. version : expected' = [expected EXCEPT ![o] = v]
      BY DEF Start
<1>2. v \in Version
      BY ResourcesAssumption DEF TypeOK, Version
<1>3. /\ pc[o] = "idle"
      /\ UNCHANGED <<version, poolVars, kind, seen, epochAt, history, reply>>
      /\ pc' = [pc EXCEPT ![o] = IF kind[o] = "update" THEN "row" ELSE "fetch"]
  <2>1. Head(Plan(kind[o])) = IF kind[o] = "update" THEN "row" ELSE "fetch"
    <3>1. kind[o] = "update" => Plan(kind[o]) = UpdatePlan
          BY DEF Plan
    <3>2. kind[o] = "mask" => Plan(kind[o]) = MaskPlan
          BY DEF Plan
    <3>3. kind[o] = "test" => Plan(kind[o]) = TestPlan
          BY DEF Plan
    <3>4. kind[o] = "query" => Plan(kind[o]) = QueryPlan
          BY DEF Plan
    <3>5. /\ Head(UpdatePlan) = "row" /\ Head(MaskPlan) = "fetch"
          /\ Head(TestPlan) = "fetch" /\ Head(QueryPlan) = "fetch"
          BY DEF UpdatePlan, MaskPlan, TestPlan, QueryPlan
    <3> QED BY <3>1, <3>2, <3>3, <3>4, <3>5, KindFacts
  <2> QED BY <2>1 DEF Start, Goto
<1> USE DEF poolVars, history
<1>4. /\ pc' \in [Op -> PC] /\ pc'[o] \in {"row", "fetch"}
      /\ \A p \in Op \ {o} : pc'[p] = pc[p] /\ expected'[p] = expected[p]
      /\ kind[o] = "update" <=> pc'[o] = "row"
      BY <1>1, <1>3 DEF TypeOK, PC
<1>5. TypeOK'
      BY <1>1, <1>2, <1>3, <1>4 DEF TypeOK
<1>6. PlaceShape'
      BY <1>3, <1>4, KindFacts DEF PlaceShape
<1>7. PoolShape'
      BY <1>3, <1>4 DEF PoolShape
<1>8. AnswerShape'
      BY <1>3, <1>4 DEF AnswerShape, PlaceShape
<1>9. UpdateShape'
      BY <1>3, <1>4 DEF UpdateShape, PlaceShape
<1>10. OlderShape'
      BY <1>3, <1>4 DEF OlderShape
<1> QED BY <1>5, <1>6, <1>7, <1>8, <1>9, <1>10

(* The steps that change nothing but where the request stands, and what it *)
(* knows of the epoch.                                                     *)
LEMMA LocalKeeps ==
    ASSUME IInv, NEW o \in Op, Moved(o),
           UNCHANGED <<version, poolVars, expected, seen, history>>,
           epochAt' \in [Op -> Nat],
           reply'[o] # "rows",
           kind[o] = "query" /\ pc'[o] \in {"use", "recheck"} => answer[o] \in Op,
           kind[o] = "update" /\ (pc'[o] \in {"readback", "invalidate"})
               => made[o] = expected[o] + 1,
           kind[o] \in {"update", "mask"} => reply'[o] # "ok",
           kind[o] = "test" => /\ pc'[o] # "invalidate"
                               /\ pc'[o] \in {"get", "wait"} => pc[o] = "get"
    PROVE  IInv'
<1> USE DEF IInv, Moved, poolVars, history
<1>1. TypeOK'
      BY DEF TypeOK
<1>2. PlaceShape'
      OBVIOUS
<1>3. PoolShape'
      BY DEF PoolShape
<1>4. AnswerShape'
      BY DEF AnswerShape
<1>5. UpdateShape'
      BY DEF UpdateShape
<1>6. OlderShape'
      BY DEF OlderShape
<1> QED BY <1>1, <1>2, <1>3, <1>4, <1>5, <1>6

LEMMA AnswersKeep ==
    ASSUME IInv, NEW o \in Op, pc[o] \notin {"idle", "done"},
           NEW what \in RepliesTo(kind[o]) \ {"none", "ok", "rows"}, Answer(o, what),
           UNCHANGED <<version, poolVars, kind, expected, seen, epochAt, history>>
    PROVE  IInv'
BY AnswerMoves, LocalKeeps DEF IInv, TypeOK

LEMMA FetchKeeps ==
    ASSUME IInv, NEW o \in Op, Fetch(o)
    PROVE  IInv'
<1> USE DEF IInv
<1>1. /\ pc[o] = "fetch" /\ Proceed(o)
      /\ seen' = [seen EXCEPT ![o] = version]
      /\ older' = [older EXCEPT ![o] = Live]
      /\ UNCHANGED <<version, shut, epoch, table, life, born, answer, kind, expected,
                     epochAt, made, rowsAt>>
      BY DEF Fetch, poolVars
<1>2. /\ Moved(o)
      /\ kind[o] # "update"
      /\ pc'[o] \in {"check", "get", "invalidate"} /\ reply'[o] = "none"
      /\ kind[o] = "test" => pc'[o] = "invalidate"
      BY <1>1, ProceedMoves, KindFacts, MaskProceeds, TestProceeds, QueryProceeds
         DEF PlaceShape, Goto, TypeOK
<1>3. life[o] = "new" /\ \A v \in Version : table[v] # o
      BY <1>1 DEF PoolShape, TypeOK
<1>4. /\ seen'[o] = version /\ \A p \in Op \ {o} : seen'[p] = seen[p]
      /\ older'[o] = Live /\ \A p \in Op \ {o} : older'[p] = older[p]
      BY <1>1 DEF TypeOK
<1>5. TypeOK'
      BY <1>1, <1>2 DEF TypeOK, Moved, Live
<1>6. PoolShape'
      BY <1>1, <1>2, <1>3, <1>4 DEF PoolShape, Moved, TypeOK
<1>7. AnswerShape'
      BY <1>1, <1>2, <1>3, <1>4 DEF AnswerShape, Moved
<1>8. UpdateShape'
      BY <1>1, <1>2 DEF UpdateShape, Moved
<1>9. OlderShape'
      BY <1>1, <1>2, <1>4 DEF OlderShape, AnswerShape, Moved, Live
<1> QED BY <1>2, <1>5, <1>6, <1>7, <1>8, <1>9 DEF Moved

LEMMA WriteRowKeeps ==
    ASSUME IInv, NEW o \in Op, WriteRow(o)
    PROVE  IInv'
<1> USE DEF IInv
<1>1. /\ pc[o] = "row" /\ (kind[o] = "update" => version = expected[o])
      /\ version' = version + 1 /\ version' \in Version
      /\ made' = [made EXCEPT ![o] = version + 1]
      /\ older' = [older EXCEPT ![o] = Live]
      /\ Proceed(o) \/ Answer(o, "error")
      /\ UNCHANGED <<shut, epoch, table, life, born, answer, kind, expected, seen,
                     epochAt, rowsAt>>
      BY ResourcesAssumption DEF WriteRow, MayWrite, poolVars, TypeOK, Version
<1>2. /\ Moved(o)
      /\ kind[o] \in {"update", "mask"}
      /\ pc'[o] \in {"readback", "invalidate", "done"}
      /\ reply'[o] \notin {"ok", "rows"}
  <2>1. kind[o] \in {"update", "mask"}
        BY <1>1, KindFacts DEF PlaceShape
  <2>2. CASE Proceed(o)
        BY <1>1, <2>1, <2>2, ProceedMoves, UpdateProceeds, MaskProceeds
           DEF PlaceShape, Goto, TypeOK
  <2>3. CASE Answer(o, "error")
    <3>1. "error" \in RepliesTo(kind[o]) \ {"none"}
          BY <2>1, ReplyFacts
    <3> QED BY <1>1, <2>1, <2>3, <3>1, AnswerMoves
  <2> QED BY <1>1, <2>2, <2>3
<1>3. /\ made'[o] = version + 1 /\ \A p \in Op \ {o} : made'[p] = made[p]
      /\ older'[o] = Live /\ \A p \in Op \ {o} : older'[p] = older[p]
      BY <1>1 DEF TypeOK
<1>4. TypeOK'
      BY <1>1, <1>2 DEF TypeOK, Moved, Live
<1>5. PoolShape'
      BY <1>1, <1>2 DEF PoolShape, Moved
<1>6. AnswerShape'
      BY <1>1, <1>2 DEF AnswerShape, Moved
<1>7. UpdateShape'
      BY <1>1, <1>2, <1>3 DEF UpdateShape, Moved
<1>8. OlderShape'
      BY <1>1, <1>2, <1>3 DEF OlderShape, Moved, Live
<1> QED BY <1>2, <1>4, <1>5, <1>6, <1>7, <1>8 DEF Moved

LEMMA StoreKeeps ==
    ASSUME IInv, NEW o \in Op,
           Conflict(o) \/ ReadBack(o) \/ StoreFailed(o) \/ Check(o)
    PROVE  IInv'
<1> USE DEF IInv
<1>1. /\ pc[o] \notin {"idle", "done"}
      /\ UNCHANGED <<version, poolVars, kind, expected, seen, epochAt, history>>
      /\ epochAt' \in [Op -> Nat]
      BY DEF Conflict, ReadBack, StoreFailed, Check, TypeOK
<1>2. CASE Conflict(o)
  <2>1. kind[o] = "update" /\ Answer(o, "conflict")
        BY <1>2 DEF Conflict, MayWrite
  <2> QED BY <1>1, <2>1, AnswersKeep, ReplyFacts
<1>3. CASE ReadBack(o)
  <2>1. /\ kind[o] = "update" /\ pc[o] = "readback" /\ Proceed(o)
        BY <1>3, KindFacts DEF ReadBack, PlaceShape
  <2>2. Moved(o) /\ pc'[o] = "invalidate" /\ reply'[o] = "none"
        BY <1>1, <2>1, ProceedMoves, UpdateProceeds DEF Goto, TypeOK
  <2> QED BY <1>1, <2>1, <2>2, LocalKeeps DEF UpdateShape
<1>4. CASE StoreFailed(o)
  <2>1. Answer(o, "error") /\ "error" \in RepliesTo(kind[o])
        BY <1>4, KindFacts, ReplyFacts DEF StoreFailed
  <2> QED BY <1>1, <2>1, AnswersKeep
<1>5. CASE Check(o)
  <2>1. kind[o] = "query" /\ pc[o] = "check"
        BY <1>5, KindFacts DEF Check, PlaceShape
  <2>2. CASE Proceed(o)
    <3>1. Moved(o) /\ pc'[o] = "get" /\ reply'[o] = "none"
          BY <1>1, <2>1, <2>2, ProceedMoves, QueryProceeds DEF Goto, TypeOK
    <3> QED BY <1>1, <2>1, <3>1, LocalKeeps
  <2>3. CASE Answer(o, "changed")
        BY <1>1, <2>1, <2>3, AnswersKeep, ReplyFacts
  <2> QED BY <1>5, <2>2, <2>3 DEF Check
<1> QED BY <1>2, <1>3, <1>4, <1>5

LEMMA RecheckKeeps ==
    ASSUME IInv, NEW o \in Op, Recheck(o)
    PROVE  IInv'
<1> USE DEF IInv
<1>1. /\ pc[o] = "recheck"
      /\ rowsAt' = [rowsAt EXCEPT ![o] = version]
      /\ UNCHANGED <<version, shut, epoch, table, life, born, answer, kind, expected,
                     seen, epochAt, made, older>>
      BY DEF Recheck, poolVars
<1>2. kind[o] = "query"
      BY <1>1, KindFacts DEF PlaceShape
<1>3. PICK what \in {"rows", "changed"} :
         Answer(o, what) /\ (what = "rows" => version = seen[o])
      BY DEF Recheck, StillCurrent
<1>4. Moved(o) /\ pc'[o] = "done" /\ reply'[o] = what
      BY <1>1, <1>2, <1>3, AnswerMoves, ReplyFacts
<1>5. rowsAt'[o] = version /\ \A p \in Op \ {o} : rowsAt'[p] = rowsAt[p]
      BY <1>1 DEF TypeOK
<1>6. TypeOK'
      BY <1>1, <1>4 DEF TypeOK, Moved
<1>7. PoolShape'
      BY <1>1, <1>4 DEF PoolShape, Moved
<1>8. AnswerShape'
      BY <1>1, <1>2, <1>3, <1>4, <1>5 DEF AnswerShape, Moved
<1>9. UpdateShape'
      BY <1>1, <1>2, <1>4 DEF UpdateShape, Moved
<1>10. OlderShape'
      BY <1>1, <1>2, <1>4 DEF OlderShape, Moved
<1> QED BY <1>4, <1>6, <1>7, <1>8, <1>9, <1>10 DEF Moved

-----------------------------------------------------------------------------
(* What retiring pools does, of some versions or of all.                   *)
LEMMA RetireFacts ==
    ASSUME IInv, NEW K \in SUBSET Version, Pools!Retire(K)
    PROVE  /\ table' \in [Version -> Op \cup {NoPool}]
           /\ life' \in [Op -> {"new", "live", "retired"}]
           /\ UNCHANGED answer
           /\ \A v \in Version : table'[v] = IF v \in K THEN NoPool ELSE table[v]
           /\ \A i \in Op : /\ life[i] = "retired" => life'[i] = "retired"
                            /\ life'[i] = "new" <=> life[i] = "new"
                            /\ life'[i] = "live" <=> \E v \in Version : table'[v] = i
           /\ K = Version =>
                 \A i \in Op : life[i] # "new" => life'[i] = "retired"
<1> USE DEF IInv, Pools!Retire
<1>1. /\ \A v \in Version : table'[v] = IF v \in K THEN NoPool ELSE table[v]
      /\ \A i \in Op : life'[i] = IF \E v \in K : table[v] = i THEN "retired" ELSE life[i]
      /\ table' \in [Version -> Op \cup {NoPool}]
      /\ life' \in [Op -> {"new", "live", "retired"}]
      BY DEF TypeOK
<1>2. ASSUME NEW i \in Op
      PROVE  life'[i] = "live" <=> \E v \in Version : table'[v] = i
  <2>1. NoPool # i
        BY ResourcesAssumption
  <2>2. \A v, w \in Version : table[v] = i /\ table[w] = i => v = w
        BY <2>1 DEF PoolShape
  <2> QED BY <1>1, <2>1, <2>2 DEF PoolShape
<1>3. ASSUME NEW i \in Op
      PROVE  life'[i] = "new" <=> life[i] = "new"
      BY <1>1 DEF PoolShape
<1>4. ASSUME K = Version, NEW i \in Op, life[i] # "new" PROVE life'[i] = "retired"
      BY <1>1, <1>4 DEF PoolShape, TypeOK
<1> QED BY <1>1, <1>2, <1>3, <1>4

LEMMA RetireKeeps ==
    ASSUME IInv, NEW K \in SUBSET Version, Pools!Retire(K), epoch' = epoch,
           UNCHANGED <<version, pc, kind, expected, seen, epochAt, reply, history>>
    PROVE  IInv'
<1> USE RetireFacts DEF IInv, history
<1>1. TypeOK'
      BY DEF TypeOK
<1>2. PlaceShape'
      BY DEF PlaceShape
<1>3. PoolShape'
      BY DEF PoolShape
<1>4. AnswerShape'
      BY DEF AnswerShape
<1>5. UpdateShape'
      BY DEF UpdateShape
<1>6. OlderShape'
      BY DEF OlderShape, TypeOK
<1> QED BY <1>1, <1>2, <1>3, <1>4, <1>5, <1>6

LEMMA InvalidateKeeps ==
    ASSUME IInv, NEW o \in Op, Invalidate(o)
    PROVE  IInv'
<1> USE DEF IInv
<1>1. /\ pc[o] = "invalidate" /\ Proceed(o)
      /\ Pools!RetireResource("resource")
      /\ UNCHANGED <<answer, version, kind, expected, seen, epochAt, made, older, rowsAt>>
      BY DEF Invalidate, history
<1>2. Pools!Retire(Version) /\ epoch' \in [{"resource"} -> Nat]
  <2>1. {v \in Version : [w \in Version |-> "resource"][v] = "resource"} = Version
        OBVIOUS
  <2>2. Pools!Retire({v \in Version : [w \in Version |-> "resource"][v] = "resource"})
        BY <1>1 DEF Pools!RetireResource
  <2>3. epoch' = [epoch EXCEPT !["resource"] = epoch["resource"] + 1]
        BY <1>1 DEF Pools!RetireResource
  <2>4. epoch' \in [{"resource"} -> Nat]
        BY <2>3 DEF TypeOK
  <2> HIDE DEF IInv
  <2> QED BY <2>1, <2>2, <2>4
<1>3. /\ Moved(o) /\ kind[o] \in {"update", "mask", "test"}
      /\ kind[o] \in {"update", "mask"} => pc'[o] = "done"
      /\ kind[o] = "test" => pc'[o] = "get"
      /\ reply'[o] \in {"none", "ok"} /\ (reply'[o] = "ok" => pc'[o] = "done")
  <2>1. kind[o] \in {"update", "mask", "test"}
        BY <1>1, KindFacts DEF PlaceShape
  <2> QED BY <1>1, <2>1, ProceedMoves, UpdateProceeds, MaskProceeds, TestProceeds
          DEF Goto, Answer, TypeOK
<1> USE <1>2, RetireFacts
<1>4. TypeOK'
      BY <1>1, <1>3 DEF TypeOK, Moved
<1>5. PoolShape'
      BY <1>1, <1>3 DEF PoolShape, Moved
<1>6. AnswerShape'
      BY <1>1, <1>3 DEF AnswerShape, Moved
<1>7. UpdateShape'
      BY <1>1, <1>3 DEF UpdateShape, Moved
<1>8. OlderShape'
      BY <1>1, <1>3 DEF OlderShape, Moved, TypeOK
<1> QED BY <1>3, <1>4, <1>5, <1>6, <1>7, <1>8 DEF Moved

LEMMA BeginGetKeeps ==
    ASSUME IInv, NEW o \in Op, BeginGet(o)
    PROVE  IInv'
<1> USE DEF IInv
<1>1. /\ pc[o] = "get" /\ Goto(o, "wait")
      /\ epochAt' \in [Op -> Nat]
      /\ UNCHANGED <<version, poolVars, kind, expected, seen, history>>
      BY DEF BeginGet, TypeOK
<1>2. kind[o] # "update"
      BY <1>1 DEF PlaceShape
<1>3. /\ pc' \in [Op -> PC] /\ pc'[o] = "wait" /\ reply' = reply
      /\ \A p \in Op \ {o} : pc'[p] = pc[p]
      BY <1>1 DEF Goto, TypeOK, PC
<1>4. PlaceShape'
      BY <1>1, <1>2, <1>3 DEF PlaceShape
<1>5. Moved(o) /\ reply'[o] = "none"
      BY <1>1, <1>3, <1>4 DEF Moved, TypeOK, PlaceShape
<1> QED BY <1>1, <1>2, <1>3, <1>5, LocalKeeps

LEMMA PublishKeeps ==
    ASSUME IInv, NEW o \in Op, Publish(o)
    PROVE  IInv'
<1> USE DEF IInv
<1>1. /\ pc[o] \in {"wait", "done"}
      /\ UNCHANGED <<epoch, answer, version, pc, kind, expected, seen, epochAt, reply,
                     made, older, rowsAt>>
      /\ table[seen[o]] = NoPool /\ life[o] = "new"
      /\ table' = [table EXCEPT ![seen[o]] = o]
      /\ life' = [life EXCEPT ![o] = "live"]
      BY DEF Publish, Pools!Publish, Key, history
<1>2. seen[o] \in Version /\ o # NoPool
      BY ResourcesAssumption DEF TypeOK
<1>3. /\ table'[seen[o]] = o
      /\ \A v \in Version \ {seen[o]} : table'[v] = table[v]
      /\ life'[o] = "live" /\ \A i \in Op \ {o} : life'[i] = life[i]
      BY <1>1, <1>2 DEF TypeOK
<1>4. TypeOK'
  <2>1. table' \in [Version -> Op \cup {NoPool}]
        BY <1>1, <1>2 DEF TypeOK
  <2>2. life' \in [Op -> {"new", "live", "retired"}]
        BY <1>1 DEF TypeOK
  <2> QED BY <1>1, <2>1, <2>2 DEF TypeOK
<1>5. PlaceShape'
      BY <1>1 DEF PlaceShape
<1>6. PoolShape'
  <2>1. ASSUME NEW i \in Op
        PROVE  life'[i] = "live" <=> \E v \in Version : table'[v] = i
    <3>1. CASE i = o
          BY <1>2, <1>3, <3>1
    <3>2. CASE i # o
      <4>1. i # NoPool
            BY ResourcesAssumption
      <4>2. ASSUME NEW v \in Version PROVE table'[v] = i <=> table[v] = i
        <5>1. CASE v = seen[o]
              BY <1>1, <1>3, <3>2, <4>1, <5>1
        <5>2. CASE v # seen[o]
              BY <1>3, <5>2
        <5> QED BY <5>1, <5>2
      <4> QED BY <1>3, <3>2, <4>2 DEF PoolShape
    <3> QED BY <3>1, <3>2
  <2> QED BY <1>1, <1>2, <1>3, <2>1 DEF PoolShape
<1>7. AnswerShape'
      BY <1>1, <1>3 DEF AnswerShape
<1>8. UpdateShape'
      BY <1>1 DEF UpdateShape
<1>9. OlderShape'
      BY <1>1, <1>3 DEF OlderShape
<1> QED BY <1>4, <1>5, <1>6, <1>7, <1>8, <1>9

LEMMA GetPoolKeeps ==
    ASSUME IInv, NEW o \in Op, GetPool(o)
    PROVE  IInv'
<1> DEFINE i == table[seen[o]]
<1> USE DEF IInv
<1>1. /\ pc[o] = "wait" /\ Proceed(o)
      /\ i # NoPool /\ life[i] = "live"
      /\ answer' = [answer EXCEPT ![o] = i]
      /\ UNCHANGED <<epoch, table, life, version, kind, expected, seen, epochAt,
                     made, older, rowsAt>>
      BY DEF GetPool, Pools!Answer, Key, history
<1>2. i \in Op /\ seen[i] = seen[o]
      BY <1>1 DEF TypeOK, PoolShape
<1>3. Moved(o) /\ kind[o] # "update" /\ pc'[o] = "use" /\ reply'[o] = "none"
  <2>1. kind[o] \in {"mask", "test", "query"}
        BY <1>1, KindFacts DEF PlaceShape
  <2> QED BY <1>1, <2>1, ProceedMoves, MaskProceeds, TestProceeds, QueryProceeds
          DEF Goto, TypeOK
<1>4. answer'[o] = i /\ \A p \in Op \ {o} : answer'[p] = answer[p]
      BY <1>1 DEF TypeOK
<1> HIDE DEF i
<1>5. TypeOK'
      BY <1>1, <1>2, <1>3 DEF TypeOK, Moved
<1>6. PoolShape'
      BY <1>1, <1>3 DEF PoolShape, Moved
<1>7. AnswerShape'
      BY <1>1, <1>2, <1>3, <1>4 DEF AnswerShape, Moved
<1>8. UpdateShape'
      BY <1>1, <1>3 DEF UpdateShape, Moved
<1>9. OlderShape'
      BY <1>1, <1>2, <1>3, <1>4 DEF OlderShape, Moved
<1> QED BY <1>3, <1>5, <1>6, <1>7, <1>8, <1>9 DEF Moved

LEMMA GetFailedKeeps ==
    ASSUME IInv, NEW o \in Op, GetFailed(o)
    PROVE  IInv'
<1> USE DEF IInv
<1>1. /\ pc[o] = "wait" /\ Answer(o, "error")
      /\ answer' = [answer EXCEPT ![o] = "error"]
      /\ UNCHANGED <<epoch, table, life, version, kind, expected, seen, epochAt,
                     made, older, rowsAt>>
      BY DEF GetFailed, Pools!Refuse, history
<1>2. Moved(o) /\ pc'[o] = "done" /\ reply'[o] = "error"
      BY <1>1, AnswerMoves, KindFacts, ReplyFacts
<1>3. /\ answer'[o] = "error" /\ "error" \notin Op
      /\ \A p \in Op \ {o} : answer'[p] = answer[p]
      BY <1>1, ResourcesAssumption DEF TypeOK
<1>4. TypeOK'
      BY <1>1, <1>2 DEF TypeOK, Moved
<1>5. PoolShape'
      BY <1>1, <1>2 DEF PoolShape, Moved
<1>6. AnswerShape'
      BY <1>1, <1>2, <1>3 DEF AnswerShape, Moved
<1>7. UpdateShape'
      BY <1>1, <1>2 DEF UpdateShape, Moved
<1>8. OlderShape'
      BY <1>1, <1>2, <1>3 DEF OlderShape, Moved
<1> QED BY <1>2, <1>4, <1>5, <1>6, <1>7, <1>8 DEF Moved

LEMMA UseKeeps ==
    ASSUME IInv, NEW o \in Op, Use(o) \/ UseFailed(o)
    PROVE  IInv'
<1> USE DEF IInv
<1>1. /\ pc[o] = "use" /\ kind[o] \in {"mask", "test", "query"}
      /\ UNCHANGED <<version, poolVars, kind, expected, seen, epochAt, history>>
      /\ epochAt' \in [Op -> Nat]
      BY KindFacts DEF Use, UseFailed, PlaceShape, TypeOK
<1>2. CASE Proceed(o)
  <2>1. /\ Moved(o) /\ pc'[o] \in {"row", "recheck", "done"}
        /\ reply'[o] # "rows"
        /\ kind[o] = "mask" => reply'[o] # "ok"
        BY <1>1, <1>2, ProceedMoves, MaskProceeds, TestProceeds, QueryProceeds
           DEF Goto, Answer, TypeOK
  <2> QED BY <1>1, <2>1, LocalKeeps DEF AnswerShape
<1>3. CASE Answer(o, "error")
      BY <1>1, <1>3, AnswersKeep, KindFacts, ReplyFacts
<1> QED BY <1>2, <1>3 DEF Use, UseFailed

LEMMA StepKeeps == IInv /\ [Next]_vars => IInv'
<1> SUFFICES ASSUME IInv, [Next]_vars PROVE IInv'
    OBVIOUS
<1>1. ASSUME NEW o \in Op, RequestStep(o) PROVE IInv'
      BY <1>1, StartKeeps, FetchKeeps, WriteRowKeeps, StoreKeeps, RecheckKeeps,
         InvalidateKeeps, BeginGetKeeps, PublishKeeps, GetPoolKeeps,
         GetFailedKeeps, UseKeeps DEF RequestStep
<1>2. ASSUME NEW v \in Version, PingFails(v) PROVE IInv'
      BY <1>2, RetireKeeps DEF PingFails, Pools!RetireFailed
<1>3. CASE Shutdown
      BY <1>3, RetireKeeps DEF Shutdown, Pools!Shutdown
<1>4. CASE UNCHANGED vars
      BY <1>4 DEF vars, IInv, TypeOK, PlaceShape, PoolShape, AnswerShape,
                  UpdateShape, OlderShape
<1> QED BY <1>1, <1>2, <1>3, <1>4 DEF Next, Quiet

(* The inductive invariant of the resource, its pools and their users.     *)
THEOREM ResourcesInvariance == Spec => []IInv
BY Initially, StepKeeps, PTL DEF Spec

(* The state of the resource, its pools and their users keeps its types.   *)
THEOREM ResourcesTypes == Spec => []TypeOK
<1>1. IInv => TypeOK
      BY DEF IInv
<1> QED BY <1>1, ResourcesInvariance, PTL

(* The optimistic version of UpdateResource (store.go): no update or rule  *)
(* change is overwritten by one that did not know it.                      *)
THEOREM UpdatesOverwriteNothing == Spec => []NoChangeIsOverwritten
<1>1. IInv => NoChangeIsOverwritten
      BY DEF IInv, UpdateShape, NoChangeIsOverwritten
<1> QED BY <1>1, ResourcesInvariance, PTL

(* Rows come from a pool made with the settings that the second            *)
(* authorization of the query found in force (query/service.go).           *)
THEOREM RowsAreCurrent == Spec => []RowsFromCurrentSettings
<1>1. IInv => RowsFromCurrentSettings
      BY DEF IInv, AnswerShape, RowsFromCurrentSettings
<1> QED BY <1>1, ResourcesInvariance, PTL

(* An answered change has retired every pool that was live when it wrote   *)
(* the row, and a successful test has used a pool made after it began      *)
(* (admin.go, masking.go, registry.go).                                    *)
THEOREM ChangesRetire == Spec => []ChangesRetirePools
<1>1. ASSUME IInv, NEW o \in Op, reply[o] = "ok"
      PROVE  /\ kind[o] \in {"update", "mask"} =>
                    \A i \in older[o] :
                        life[i] = "retired" /\ \A v \in Version : table[v] # i
             /\ kind[o] = "test" => answer[o] \notin older[o]
  <2>1. older[o] \subseteq Op
        BY <1>1 DEF IInv, TypeOK
  <2> QED BY <1>1, <2>1 DEF IInv, OlderShape, PoolShape
<1>2. IInv => ChangesRetirePools
      BY <1>1 DEF ChangesRetirePools
<1> QED BY <1>2, ResourcesInvariance, PTL
=============================================================================
