------------------------------ MODULE Answers -------------------------------
(***************************************************************************)
(* What the gateway promises of every request it answers, without its      *)
(* reads of the store, its pools, its masking or its transactions.  A      *)
(* request looks its resource up, is admitted, has its statement run, and  *)
(* in the end it is released - its rows go to the caller, or its write is  *)
(* committed - or it is over.  It is admitted only if the store has let    *)
(* it since it was looked up, and what it reads or writes is released      *)
(* only if the store has let it again since its statement ran.  A query    *)
(* has an audit row before it is admitted, and that row gets one outcome.  *)
(***************************************************************************)
EXTENDS Naturals

CONSTANTS
    Request,
    MaxChanges,       \* bound on the number of policy changes
    Passes(_, _, _)   \* the rounds in which a policy's grants let pass what
                      \* is asked for, with a reason or without

VARIABLES
    policy,    \* the states of the store
    now,       \* the current one
    kind,      \* "read", "write" or something that leaves no row
    reason,    \* whether a request carries a reason
    stage,     \* how far a request has come
    found,     \* when its resource was looked up
    ran,       \* when the target was done with its statement
    row        \* the outcome in its audit row

answerVars == <<policy, now, kind, reason, stage, found, ran, row>>

IsQuery(q) == kind[q] \in {"read", "write"}

Moment == 0 .. MaxChanges

Init ==
    /\ now = 0
    /\ stage = [q \in Request |-> "new"]
    /\ found = [q \in Request |-> 0]
    /\ ran = [q \in Request |-> 0]
    /\ row = [q \in Request |-> "none"]

(* From the moment since on, and one after the other: the principal was    *)
(* active, the resource was enabled and the one looked up, and the grants  *)
(* let the request pass for the first or the second time.                  *)
Authorized(q, since, round) ==
    \E i, j, k \in Moment :
        /\ since <= i /\ i <= j /\ j <= k /\ k <= now
        /\ policy[i].active
        /\ policy[j].enabled
        /\ policy[j].version = policy[found[q]].version
        /\ round \in Passes(policy[k], kind[q], reason[q])

Moves(q, from, to) ==
    /\ stage[q] = from
    /\ stage' = [stage EXCEPT ![q] = to]

Writes(q, from, to) ==
    /\ row[q] = from
    /\ row' = [row EXCEPT ![q] = to]

(* The store changes; what it has been does not.                           *)
PolicyChange ==
    /\ now' = now + 1
    /\ \A n \in 0 .. now : policy'[n] = policy[n]
    /\ UNCHANGED <<kind, reason, stage, found, ran, row>>

Find(q) ==
    /\ Moves(q, "new", "found")
    /\ found' = [found EXCEPT ![q] = now]
    /\ UNCHANGED <<policy, now, kind, reason, ran, row>>

(* A query whose row reports an error when it is written is over. *)
Enter(q) ==
    /\ IsQuery(q)
    /\ \E to \in {"found", "over"} : Moves(q, "found", to)
    /\ Writes(q, "none", "RECEIVED")
    /\ UNCHANGED <<policy, now, kind, reason, found, ran>>

Admit(q) ==
    /\ Moves(q, "found", "admitted")
    /\ IsQuery(q) => row[q] = "RECEIVED"
    /\ Authorized(q, found[q], 1)
    /\ UNCHANGED <<policy, now, kind, reason, found, ran, row>>

(* A statement may have touched too many rows. *)
Run(q) ==
    /\ IsQuery(q)
    /\ \E to \in {"ran", "over"} : Moves(q, "admitted", to)
    /\ ran' = [ran EXCEPT ![q] = now]
    /\ UNCHANGED <<policy, now, kind, reason, found, row>>

(* The names of tables and columns are shown as they are read. *)
Show(q) ==
    /\ ~IsQuery(q)
    /\ Moves(q, "admitted", "released")
    /\ ran' = [ran EXCEPT ![q] = now]
    /\ UNCHANGED <<policy, now, kind, reason, found, row>>

(* A write is committed before its row says so. *)
Commit(q) ==
    /\ kind[q] = "write"
    /\ Moves(q, "ran", "released")
    /\ Authorized(q, ran[q], 2)
    /\ UNCHANGED <<policy, now, kind, reason, found, ran, row>>

(* Rows are handed over as the audit row is settled, or they are withheld. *)
Deliver(q) ==
    /\ kind[q] = "read"
    /\ \E to \in {"released", "over"} : Moves(q, "ran", to)
    /\ Writes(q, "RECEIVED", "SUCCEEDED")
    /\ Authorized(q, ran[q], 2)
    /\ UNCHANGED <<policy, now, kind, reason, found, ran>>

(* A commit whose answer is lost is recorded as failed, never as refused. *)
Settle(q) ==
    /\ \/ /\ stage[q] = "over"
          /\ \E to \in {"REJECTED", "DENIED", "FAILED"} :
                Writes(q, "RECEIVED", to)
       \/ /\ stage[q] = "released"
          /\ \E to \in {"COMMITTED", "FAILED"} : Writes(q, "RECEIVED", to)
    /\ UNCHANGED <<policy, now, kind, reason, stage, found, ran>>

(* Some requests come to their end with nothing to show for it: one that   *)
(* fails, or all of them when the gateway dies.                            *)
GiveUp(some) ==
    /\ \A q \in some : stage[q] # "released"
    /\ stage' = [q \in Request |-> IF q \in some THEN "over" ELSE stage[q]]
    /\ UNCHANGED <<policy, now, kind, reason, found, ran, row>>

Next ==
    \/ PolicyChange
    \/ \E q \in Request : Find(q) \/ Enter(q) \/ Admit(q) \/ Run(q) \/ Show(q)
                             \/ Commit(q) \/ Deliver(q) \/ Settle(q)
    \/ \E some \in SUBSET Request : GiveUp(some)

Spec == Init /\ [][Next]_answerVars
=============================================================================
