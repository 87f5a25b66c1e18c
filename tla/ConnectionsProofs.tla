-------------------------- MODULE ConnectionsProofs --------------------------
(***************************************************************************)
(* Proofs about Connections, for any number of requests and any sizes of   *)
(* the pools: what a request has yet to do never asks for a connection in  *)
(* the wrong order, whichever of its steps fails.                          *)
(***************************************************************************)
EXTENDS Connections, TLAPS

(* After rows are opened a request closes them and does not go back to the *)
(* target; a transaction ends before the store is needed again, and        *)
(* nothing is read from the target from then on.                           *)
PlanShape(t) ==
    \A i \in 1..Len(t) :
        /\ t[i] = "open" =>
             /\ \E j \in 1..Len(t) : j > i /\ t[j] = "close"
             /\ \A j \in 1..Len(t) : j > i => t[j] \notin {"target", "open", "begin"}
        /\ t[i] = "begin" =>
             /\ \E j \in 1..Len(t) :
                   /\ j > i /\ t[j] = "commit"
                   /\ \A l \in 1..Len(t) : i < l /\ l < j => t[l] \notin {"store", "begin"}
             /\ \A j \in 1..Len(t) : j > i => t[j] \notin {"target", "open"}

(* The same of a request that keeps connections of the pools in k. *)
KeptShape(t, k) ==
    /\ "target" \in k =>
         /\ "store" \notin k
         /\ \E j \in 1..Len(t) : t[j] = "close"
         /\ \A j \in 1..Len(t) : t[j] \notin {"target", "open", "begin"}
    /\ "store" \in k =>
         /\ \E j \in 1..Len(t) :
               /\ t[j] = "commit"
               /\ \A l \in 1..Len(t) : l < j => t[l] \notin {"store", "begin"}
         /\ \A j \in 1..Len(t) : t[j] \notin {"target", "open"}

(* Queries are the requests that use no transaction of the store. *)
QueryShape(t, k) ==
    /\ "store" \notin k
    /\ \A j \in 1..Len(t) : t[j] # "begin"

RequestShape(o) ==
    /\ PlanShape(todo[o])
    /\ KeptShape(todo[o], kept[o])
    /\ kind[o] \in {"read", "write"} => QueryShape(todo[o], kept[o])
    /\ busy[o] # "none" => ~Ended(o) /\ todo[o][1] \in {"store", "target"}

IInv == TypeOK /\ \A o \in Op : RequestShape(o)

-----------------------------------------------------------------------------
LEMMA StepFacts ==
    /\ DOMAIN Needs = {"store", "target", "begin", "open"}
    /\ DOMAIN Returns = {"commit", "close"}
    /\ StepName = {"store", "target", "begin", "open", "commit", "close", "inside"}
    /\ Needs["store"] = "store" /\ Needs["begin"] = "store"
    /\ Needs["target"] = "target" /\ Needs["open"] = "target"
    /\ Returns["commit"] = "store" /\ Returns["close"] = "target"
BY DEF Needs, Returns, StepName

LEMMA PlansAreShaped ==
    ASSUME NEW k \in Kind
    PROVE  /\ Plan(k) \in Seq(StepName)
           /\ PlanShape(Plan(k))
           /\ k \in {"read", "write"} => \A j \in 1..Len(Plan(k)) : Plan(k)[j] # "begin"
<1> USE StepFacts DEF Plan, PlanShape
<1>1. CASE k = "read"
      BY <1>1 DEF ReadPlan
<1>2. CASE k = "write"
      BY <1>2 DEF WritePlan
<1>3. CASE k = "schema"
      BY <1>3 DEF SchemaPlan
<1>4. CASE k = "mask"
      BY <1>4 DEF MaskPlan
<1>5. CASE k = "create"
      BY <1>5 DEF CreatePlan
<1>6. CASE k = "admin"
      BY <1>6 DEF AdminPlan
<1> QED BY <1>1, <1>2, <1>3, <1>4, <1>5, <1>6 DEF Kind

LEMMA TailFacts ==
    ASSUME NEW t \in Seq(StepName), t # <<>>
    PROVE  /\ Tail(t) \in Seq(StepName)
           /\ Head(t) = t[1] /\ 1 \in 1..Len(t)
           /\ Len(t) \in Nat /\ Len(Tail(t)) = Len(t) - 1
           /\ \A i \in 1..Len(Tail(t)) : i + 1 \in 1..Len(t) /\ Tail(t)[i] = t[i + 1]
           /\ \A i \in 1..Len(t) : i # 1 => i - 1 \in 1..Len(Tail(t)) /\ Tail(t)[i - 1] = t[i]
OBVIOUS

LEMMA TailKeepsPlan ==
    ASSUME NEW t \in Seq(StepName), t # <<>>, PlanShape(t)
    PROVE  PlanShape(Tail(t))
<1> USE TailFacts
<1> SUFFICES ASSUME NEW i \in 1..Len(Tail(t))
             PROVE  /\ Tail(t)[i] = "open" =>
                         /\ \E j \in 1..Len(Tail(t)) : j > i /\ Tail(t)[j] = "close"
                         /\ \A j \in 1..Len(Tail(t)) : j > i =>
                               Tail(t)[j] \notin {"target", "open", "begin"}
                    /\ Tail(t)[i] = "begin" =>
                         /\ \E j \in 1..Len(Tail(t)) :
                               /\ j > i /\ Tail(t)[j] = "commit"
                               /\ \A l \in 1..Len(Tail(t)) : i < l /\ l < j =>
                                     Tail(t)[l] \notin {"store", "begin"}
                         /\ \A j \in 1..Len(Tail(t)) : j > i =>
                               Tail(t)[j] \notin {"target", "open"}
    BY DEF PlanShape
<1>1. CASE Tail(t)[i] = "open"
  <2>1. t[i + 1] = "open"
        BY <1>1
  <2>2. PICK j \in 1..Len(t) : j > i + 1 /\ t[j] = "close"
        BY <2>1 DEF PlanShape
  <2>3. j - 1 \in 1..Len(Tail(t)) /\ j - 1 > i /\ Tail(t)[j - 1] = "close"
        BY <2>2
  <2>4. \A m \in 1..Len(Tail(t)) : m > i => Tail(t)[m] \notin {"target", "open", "begin"}
        BY <2>1 DEF PlanShape
  <2> QED BY <1>1, <2>3, <2>4
<1>2. CASE Tail(t)[i] = "begin"
  <2>1. t[i + 1] = "begin"
        BY <1>2
  <2>2. PICK j \in 1..Len(t) :
           /\ j > i + 1 /\ t[j] = "commit"
           /\ \A l \in 1..Len(t) : i + 1 < l /\ l < j => t[l] \notin {"store", "begin"}
        BY <2>1 DEF PlanShape
  <2>3. j - 1 \in 1..Len(Tail(t)) /\ j - 1 > i /\ Tail(t)[j - 1] = "commit"
        BY <2>2
  <2>4. \A l \in 1..Len(Tail(t)) : i < l /\ l < j - 1 => Tail(t)[l] \notin {"store", "begin"}
        BY <2>2
  <2>5. \A m \in 1..Len(Tail(t)) : m > i => Tail(t)[m] \notin {"target", "open"}
        BY <2>1 DEF PlanShape
  <2> QED BY <1>2, <2>3, <2>4, <2>5
<1> QED BY <1>1, <1>2

(* A step that is not the awaited close or commit may be dropped. *)
LEMMA TailKeepsKept ==
    ASSUME NEW t \in Seq(StepName), t # <<>>, NEW k \in SUBSET Pool, KeptShape(t, k),
           t[1] = "close" => "target" \notin k,
           t[1] = "commit" => "store" \notin k
    PROVE  KeptShape(Tail(t), k)
<1> USE TailFacts
<1>1. ASSUME "target" \in k
      PROVE  /\ "store" \notin k
             /\ \E j \in 1..Len(Tail(t)) : Tail(t)[j] = "close"
             /\ \A j \in 1..Len(Tail(t)) : Tail(t)[j] \notin {"target", "open", "begin"}
  <2>1. PICK j \in 1..Len(t) : t[j] = "close"
        BY <1>1 DEF KeptShape
  <2>2. j - 1 \in 1..Len(Tail(t)) /\ Tail(t)[j - 1] = "close"
        BY <1>1, <2>1
  <2> QED BY <1>1, <2>2 DEF KeptShape
<1>2. ASSUME "store" \in k
      PROVE  /\ \E j \in 1..Len(Tail(t)) :
                   /\ Tail(t)[j] = "commit"
                   /\ \A l \in 1..Len(Tail(t)) : l < j => Tail(t)[l] \notin {"store", "begin"}
             /\ \A j \in 1..Len(Tail(t)) : Tail(t)[j] \notin {"target", "open"}
  <2>1. PICK j \in 1..Len(t) :
           t[j] = "commit" /\ \A l \in 1..Len(t) : l < j => t[l] \notin {"store", "begin"}
        BY <1>2 DEF KeptShape
  <2>2. j - 1 \in 1..Len(Tail(t)) /\ Tail(t)[j - 1] = "commit"
        BY <1>2, <2>1
  <2>3. \A l \in 1..Len(Tail(t)) : l < j - 1 => Tail(t)[l] \notin {"store", "begin"}
        BY <2>1
  <2> QED BY <1>2, <2>2, <2>3 DEF KeptShape
<1> QED BY <1>1, <1>2 DEF KeptShape

-----------------------------------------------------------------------------
LEMMA Initially == Init => IInv
<1> SUFFICES ASSUME Init PROVE IInv
    OBVIOUS
<1>1. \A o \in Op : kind[o] \in Kind /\ todo[o] = Plan(kind[o])
      BY ConnectionsAssumption DEF Init
<1>2. TypeOK
      BY <1>1, PlansAreShaped DEF Init, TypeOK
<1>3. \A o \in Op : RequestShape(o)
      BY <1>1, PlansAreShaped DEF Init, RequestShape, KeptShape, QueryShape
<1> QED BY <1>2, <1>3 DEF IInv

(* A step of one request leaves the others alone. *)
LEMMA OthersKeep ==
    ASSUME IInv, NEW o \in Op, TypeOK', RequestShape(o)', UNCHANGED kind,
           \A p \in Op \ {o} : UNCHANGED <<todo[p], busy[p], kept[p]>>
    PROVE  IInv'
BY DEF IInv, RequestShape, Ended

(* What is at the head of a request's steps. *)
LEMMA HeadFacts ==
    ASSUME TypeOK, NEW o \in Op, ~Ended(o)
    PROVE  /\ todo[o] \in Seq(StepName) /\ todo[o] # <<>>
           /\ Head(todo[o]) = todo[o][1]
           /\ 1 \in 1..Len(todo[o])
BY TailFacts DEF TypeOK, Ended

(* A request takes its next step, and keeps no more connections. *)
LEMMA AdvanceKeeps ==
    ASSUME IInv, NEW o \in Op, ~Ended(o), Advance(o), UNCHANGED kind,
           NEW k \in SUBSET kept[o], kept' = [kept EXCEPT ![o] = k],
           busy' \in [Op -> Pool \cup {"none"}], busy'[o] = "none",
           \A p \in Op \ {o} : busy'[p] = busy[p],
           failing' \in [Op -> BOOLEAN],
           todo[o][1] = "close" => "target" \notin k,
           todo[o][1] = "commit" => "store" \notin k
    PROVE  IInv'
<1> USE DEF IInv
<1>1. todo[o] \in Seq(StepName) /\ todo[o] # <<>> /\ kept[o] \in SUBSET Pool
      BY HeadFacts DEF TypeOK
<1>2. todo'[o] = Tail(todo[o]) /\ kept'[o] = k
      BY DEF Advance, TypeOK
<1>3. TypeOK'
      BY <1>1, TailFacts DEF TypeOK, Advance
<1>4. PlanShape(todo'[o])
      BY <1>1, <1>2, TailKeepsPlan DEF RequestShape
<1>5. KeptShape(todo'[o], kept'[o])
  <2>1. KeptShape(todo[o], k)
        BY DEF RequestShape, KeptShape
  <2> QED BY <1>1, <1>2, <2>1, TailKeepsKept
<1>6. kind'[o] \in {"read", "write"} => QueryShape(todo'[o], kept'[o])
      BY <1>1, <1>2, TailFacts DEF RequestShape, QueryShape
<1>7. RequestShape(o)'
      BY <1>4, <1>5, <1>6 DEF RequestShape
<1> QED BY <1>3, <1>7, OthersKeep DEF Advance, TypeOK

LEMMA TakeKeeps ==
    ASSUME IInv, NEW o \in Op, Take(o)
    PROVE  IInv'
<1> DEFINE step == Head(todo[o])
           pool == Needs[step]
<1> USE DEF IInv
<1>1. /\ ~Ended(o) /\ busy[o] = "none" /\ UNCHANGED <<kind, failing>>
      /\ step \in {"store", "target", "begin", "open"} /\ pool \in Pool
      /\ step = todo[o][1] /\ 1 \in 1..Len(todo[o])
      /\ todo[o] \in Seq(StepName) /\ todo[o] # <<>>
      BY StepFacts, HeadFacts DEF Take, IsAt, Pool
<1>2. CASE step \in Keeps
  <2>1. kept' = [kept EXCEPT ![o] = @ \cup {pool}] /\ Advance(o) /\ UNCHANGED busy
        BY <1>2 DEF Take
  <2>2. todo'[o] = Tail(todo[o]) /\ kept'[o] = kept[o] \cup {pool} /\ busy'[o] = "none"
        BY <1>1, <2>1 DEF Advance, TypeOK
  <2>3. TypeOK'
        BY <1>1, <2>1, TailFacts DEF TypeOK, Advance
  <2>4. PlanShape(todo'[o])
        BY <1>1, <2>2, TailKeepsPlan DEF RequestShape
  <2>5. KeptShape(todo'[o], kept'[o])
    <3>1. CASE step = "open"
      <4>1. "store" \notin kept[o] /\ pool = "target"
            BY <1>1, <3>1, StepFacts DEF RequestShape, KeptShape
      <4>2. PICK j \in 1..Len(todo[o]) : j > 1 /\ todo[o][j] = "close"
            BY <1>1, <3>1 DEF RequestShape, PlanShape
      <4>3. j - 1 \in 1..Len(Tail(todo[o])) /\ Tail(todo[o])[j - 1] = "close"
            BY <1>1, <4>2, TailFacts
      <4>4. \A l \in 1..Len(todo[o]) : l > 1 => todo[o][l] \notin {"target", "open", "begin"}
            BY <1>1, <3>1 DEF RequestShape, PlanShape
      <4>5. \A l \in 1..Len(Tail(todo[o])) :
               Tail(todo[o])[l] \notin {"target", "open", "begin"}
            BY <1>1, <4>4, TailFacts
      <4> QED BY <2>2, <4>1, <4>3, <4>5 DEF KeptShape
    <3>2. CASE step = "begin"
      <4>1. "target" \notin kept[o] /\ pool = "store"
            BY <1>1, <3>2, StepFacts DEF RequestShape, KeptShape
      <4>2. PICK j \in 1..Len(todo[o]) :
               /\ j > 1 /\ todo[o][j] = "commit"
               /\ \A l \in 1..Len(todo[o]) : 1 < l /\ l < j
                     => todo[o][l] \notin {"store", "begin"}
            BY <1>1, <3>2 DEF RequestShape, PlanShape
      <4>3. j - 1 \in 1..Len(Tail(todo[o])) /\ Tail(todo[o])[j - 1] = "commit"
            BY <1>1, <4>2, TailFacts
      <4>4. \A l \in 1..Len(Tail(todo[o])) : l < j - 1
               => Tail(todo[o])[l] \notin {"store", "begin"}
            BY <1>1, <4>2, TailFacts
      <4>5. \A l \in 1..Len(todo[o]) : l > 1 => todo[o][l] \notin {"target", "open"}
            BY <1>1, <3>2 DEF RequestShape, PlanShape
      <4>6. \A l \in 1..Len(Tail(todo[o])) : Tail(todo[o])[l] \notin {"target", "open"}
            BY <1>1, <4>5, TailFacts
      <4> QED BY <2>2, <4>1, <4>3, <4>4, <4>6 DEF KeptShape
    <3> QED BY <1>2, <3>1, <3>2 DEF Keeps
  <2>6. kind[o] \in {"read", "write"} => QueryShape(todo'[o], kept'[o])
    <3> SUFFICES ASSUME kind[o] \in {"read", "write"} PROVE QueryShape(todo'[o], kept'[o])
        OBVIOUS
    <3>1. step = "open" /\ pool = "target"
          BY <1>1, <1>2, StepFacts DEF RequestShape, QueryShape, Keeps
    <3> QED BY <1>1, <2>2, <3>1, TailFacts DEF RequestShape, QueryShape
  <2>7. RequestShape(o)'
        BY <1>1, <2>2, <2>4, <2>5, <2>6 DEF RequestShape
  <2> QED BY <1>1, <2>1, <2>3, <2>7, OthersKeep DEF Advance, TypeOK
<1>3. CASE step \notin Keeps
  <2>1. busy' = [busy EXCEPT ![o] = pool] /\ UNCHANGED <<kept, todo>>
        BY <1>3 DEF Take
  <2>2. TypeOK'
        BY <1>1, <2>1 DEF TypeOK
  <2>3. RequestShape(o)'
        BY <1>1, <1>3, <2>1 DEF RequestShape, Keeps, Ended
  <2> QED BY <1>1, <2>1, <2>2, <2>3, OthersKeep DEF TypeOK
<1> QED BY <1>2, <1>3

LEMMA StatementEndsKeeps ==
    ASSUME IInv, NEW o \in Op, StatementEnds(o)
    PROVE  IInv'
<1>1. ~Ended(o) /\ todo[o][1] \in {"store", "target"}
      BY DEF StatementEnds, IInv, RequestShape
<1>2. kept' = [kept EXCEPT ![o] = kept[o]] /\ Advance(o) /\ UNCHANGED <<kind, failing>>
      BY DEF StatementEnds, IInv, TypeOK
<1>3. busy' = [busy EXCEPT ![o] = "none"]
      BY DEF StatementEnds
<1> QED BY <1>1, <1>2, <1>3, AdvanceKeeps DEF IInv, TypeOK

LEMMA InsideKeeps ==
    ASSUME IInv, NEW o \in Op, Inside(o)
    PROVE  IInv'
<1>1. ~Ended(o) /\ todo[o][1] = "inside" /\ busy[o] = "none"
      BY HeadFacts DEF Inside, IsAt, IInv
<1>2. kept' = [kept EXCEPT ![o] = kept[o]] /\ Advance(o) /\ UNCHANGED <<kind, busy, failing>>
      BY DEF Inside, IInv, TypeOK
<1> QED BY <1>1, <1>2, AdvanceKeeps DEF IInv, TypeOK

LEMMA GiveBackKeeps ==
    ASSUME IInv, NEW o \in Op, GiveBack(o)
    PROVE  IInv'
<1> DEFINE k == kept[o] \ {Returns[Head(todo[o])]}
<1>1. ~Ended(o) /\ Head(todo[o]) = todo[o][1] /\ busy[o] = "none"
      BY HeadFacts DEF GiveBack, IsAt, IInv
<1>2. k \in SUBSET kept[o]
      BY DEF IInv, TypeOK
<1>3. /\ todo[o][1] = "close" => "target" \notin k
      /\ todo[o][1] = "commit" => "store" \notin k
      BY <1>1, StepFacts
<1>4. kept' = [kept EXCEPT ![o] = k] /\ Advance(o) /\ UNCHANGED <<kind, busy, failing>>
      BY DEF GiveBack
<1> HIDE DEF k
<1> QED BY <1>1, <1>2, <1>3, <1>4, AdvanceKeeps DEF IInv, TypeOK

LEMMA RowsExhaustedKeeps ==
    ASSUME IInv, NEW o \in Op, RowsExhausted(o)
    PROVE  IInv'
<1> USE DEF IInv, RowsExhausted
<1>1. TypeOK'
      BY DEF TypeOK
<1>2. kept'[o] = kept[o] \ {"target"}
      BY DEF TypeOK
<1>3. RequestShape(o)'
      BY <1>2 DEF RequestShape, KeptShape, QueryShape, Ended
<1> QED BY <1>1, <1>3, OthersKeep DEF TypeOK

(* What a read that keeps rows open does about a failure. *)
AuditThenClose == <<"store">> \o <<"close">>

LEMMA AuditThenCloseFacts ==
    /\ AuditThenClose \in Seq(StepName) /\ Len(AuditThenClose) = 2
    /\ AuditThenClose[1] = "store" /\ AuditThenClose[2] = "close"
BY StepFacts DEF AuditThenClose

(* On the way out nothing is taken but for an audit, and a request that    *)
(* audits keeps no connection of the store.                                *)
LEMMA FailKeeps ==
    ASSUME IInv, NEW o \in Op, Fail(o)
    PROVE  IInv'
<1> USE DEF IInv
<1>1. PICK t \in Unwind(o) : todo' = [todo EXCEPT ![o] = t]
      BY DEF Fail
<1>2. /\ busy' = [busy EXCEPT ![o] = "none"]
      /\ failing' = [failing EXCEPT ![o] = TRUE]
      /\ UNCHANGED <<kind, kept>>
      BY DEF Fail
<1>3. kept[o] \in SUBSET Pool /\ ~({"store", "target"} \subseteq kept[o])
      BY DEF TypeOK, RequestShape, KeptShape
<1>4. \/ t = <<>> /\ kept[o] = {}
      \/ t = <<"close">> /\ kept[o] = {"target"}
      \/ t = <<"commit">> /\ kept[o] = {"store"} /\ kind[o] \notin {"read", "write"}
      \/ t = <<"store">> /\ kept[o] = {} /\ kind[o] \in {"read", "write"}
      \/ t = AuditThenClose /\ kept[o] = {"target"} /\ kind[o] \in {"read", "write"}
  <2>1. kind[o] \in {"read", "write"} => "store" \notin kept[o]
        BY DEF RequestShape, QueryShape
  <2>2. \/ Deferred(o) = <<>> /\ kept[o] = {}
        \/ Deferred(o) = <<"close">> /\ kept[o] = {"target"}
        \/ Deferred(o) = <<"commit">> /\ kept[o] = {"store"}
        BY <1>3 DEF Deferred, Pool
  <2>3. \/ t = Deferred(o)
        \/ t = <<"store">> \o Deferred(o) /\ kind[o] \in {"read", "write"}
        BY DEF Unwind
  <2>4. <<"store">> \o <<>> = <<"store">>
        OBVIOUS
  <2> QED BY <2>1, <2>2, <2>3, <2>4 DEF AuditThenClose
<1>5. t \in Seq(StepName)
  <2>1. <<>> \in Seq(StepName) /\ <<"close">> \in Seq(StepName)
        /\ <<"commit">> \in Seq(StepName) /\ <<"store">> \in Seq(StepName)
        BY StepFacts
  <2> QED BY <1>4, <2>1, AuditThenCloseFacts
<1>6. TypeOK'
      BY <1>1, <1>2, <1>5 DEF TypeOK
<1>7. todo'[o] = t /\ busy'[o] = "none" /\ kept'[o] = kept[o]
      BY <1>1, <1>2 DEF TypeOK
<1>8. PlanShape(t) /\ KeptShape(t, kept[o])
  <2>1. CASE t = AuditThenClose
        BY <1>4, <2>1, AuditThenCloseFacts DEF PlanShape, KeptShape
  <2>2. CASE t # AuditThenClose
        BY <1>4, <2>2 DEF PlanShape, KeptShape
  <2> QED BY <2>1, <2>2
<1>9. kind[o] \in {"read", "write"} => QueryShape(t, kept[o])
      BY <1>4, AuditThenCloseFacts DEF QueryShape
<1>10. RequestShape(o)'
      BY <1>2, <1>7, <1>8, <1>9 DEF RequestShape
<1> QED BY <1>1, <1>2, <1>6, <1>10, OthersKeep DEF TypeOK

LEMMA StepKeeps == IInv /\ [Next]_vars => IInv'
<1> SUFFICES ASSUME IInv, [Next]_vars PROVE IInv'
    OBVIOUS
<1>1. CASE UNCHANGED vars
      BY <1>1 DEF vars, IInv, TypeOK, RequestShape, Ended
<1>2. CASE \E o \in Op : Step(o) \/ RowsExhausted(o) \/ Fail(o)
      BY <1>2, TakeKeeps, StatementEndsKeeps, InsideKeeps, GiveBackKeeps,
         RowsExhaustedKeeps, FailKeeps DEF Step
<1> QED BY <1>1, <1>2 DEF Next, Quiet

(* The inductive invariant of the connections. *)
THEOREM ConnectionsInvariance == Spec => []IInv
BY Initially, StepKeeps, PTL DEF Spec

(* Connections are taken in one order and returned at the end, whatever    *)
(* the number of requests and the sizes of the pools (query/service.go,    *)
(* control/masking.go, control/store.go).                                  *)
THEOREM PoolsInOrder == Spec => []OrderOfPools
<1>1. ASSUME IInv, NEW o \in Op
      PROVE  /\ WaitsFor(o, "target") => kept[o] = {}
             /\ WaitsFor(o, "store") => "store" \notin kept[o]
             /\ Ended(o) => busy[o] = "none" /\ kept[o] = {}
  <2> USE <1>1 DEF IInv
  <2>1. kept[o] \in SUBSET Pool
        BY DEF TypeOK
  <2>2. CASE Ended(o)
    <3>1. Len(todo[o]) = 0
          BY <2>2 DEF Ended
    <3> QED BY <2>1, <2>2, <3>1 DEF RequestShape, KeptShape, Pool, WaitsFor, IsAt
  <2>3. CASE ~Ended(o)
    <3>1. Head(todo[o]) = todo[o][1] /\ 1 \in 1..Len(todo[o])
          BY <2>3, HeadFacts
    <3>2. WaitsFor(o, "target") => todo[o][1] \in {"target", "open"}
          BY <3>1, StepFacts DEF WaitsFor, IsAt
    <3>3. WaitsFor(o, "store") => todo[o][1] \in {"store", "begin"}
          BY <3>1, StepFacts DEF WaitsFor, IsAt
    <3>4. WaitsFor(o, "target") => kept[o] = {}
          BY <2>1, <3>1, <3>2 DEF RequestShape, KeptShape, Pool
    <3>5. ASSUME WaitsFor(o, "store"), "store" \in kept[o]
          PROVE  FALSE
      <4>1. PICK j \in 1..Len(todo[o]) :
               /\ todo[o][j] = "commit"
               /\ \A l \in 1..Len(todo[o]) : l < j => todo[o][l] \notin {"store", "begin"}
            BY <3>5 DEF RequestShape, KeptShape
      <4>2. todo[o][1] \in {"store", "begin"}
            BY <3>3, <3>5
      <4> QED BY <3>1, <4>1, <4>2
    <3> QED BY <2>3, <3>4, <3>5
  <2> QED BY <2>2, <2>3
<1>2. IInv => OrderOfPools
      BY <1>1 DEF OrderOfPools
<1> QED BY <1>2, ConnectionsInvariance, PTL
=============================================================================
