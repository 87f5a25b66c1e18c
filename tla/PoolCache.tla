----------------------------- MODULE PoolCache ------------------------------
(***************************************************************************)
(* What the target registry promises to its callers, without locks,        *)
(* flights or goroutines: a table of live pools, one per configuration.    *)
(* A pool is published once, in the epoch of its resource that is current  *)
(* at that moment, and is retired once; retiring a resource starts a new   *)
(* epoch and takes all its pools at one stroke.  A call is answered with   *)
(* a pool that is in the table when the answer is given, or refused.       *)
(***************************************************************************)
EXTENDS Naturals

CONSTANTS Call, Adapter, Config, Resource, ResourceOf, NoAdapter

VARIABLES
    shut,     \* nothing is published or answered any more
    epoch,    \* the epoch of each resource
    table,    \* the live pool of each configuration
    life,     \* "new", "live" or "retired" for each adapter
    born,     \* the epoch an adapter was published in
    answer    \* what each call got: a pool, "error", or "none" so far

abstractVars == <<shut, epoch, table, life, born, answer>>

Init ==
    /\ shut = FALSE
    /\ epoch = [r \in Resource |-> 0]
    /\ table = [k \in Config |-> NoAdapter]
    /\ life = [i \in Adapter |-> "new"]
    /\ born = [i \in Adapter |-> 0]
    /\ answer = [c \in Call |-> "none"]

Publish(k, i) ==
    /\ ~shut
    /\ table[k] = NoAdapter
    /\ life[i] = "new"
    /\ table' = [table EXCEPT ![k] = i]
    /\ life' = [life EXCEPT ![i] = "live"]
    /\ born' = [born EXCEPT ![i] = epoch[ResourceOf[k]]]
    /\ UNCHANGED <<shut, epoch, answer>>

(* The pools of the configurations in K leave the table for good. *)
Retire(K) ==
    /\ table' = [k \in Config |-> IF k \in K THEN NoAdapter ELSE table[k]]
    /\ life' = [i \in Adapter |->
                  IF \E k \in K : table[k] = i THEN "retired" ELSE life[i]]
    /\ UNCHANGED <<born, answer>>

RetireFailed(k) == Retire({k}) /\ UNCHANGED <<shut, epoch>>

RetireResource(r) ==
    /\ Retire({k \in Config : ResourceOf[k] = r})
    /\ epoch' = [epoch EXCEPT ![r] = @ + 1]
    /\ UNCHANGED shut

Shutdown ==
    /\ Retire(Config)
    /\ shut' = TRUE
    /\ UNCHANGED epoch

Answer(c, k) ==
    /\ ~shut
    /\ answer[c] = "none"
    /\ table[k] # NoAdapter
    /\ life[table[k]] = "live"
    /\ born[table[k]] = epoch[ResourceOf[k]]
    /\ answer' = [answer EXCEPT ![c] = table[k]]
    /\ UNCHANGED <<shut, epoch, table, life, born>>

Refuse(c) ==
    /\ answer[c] = "none"
    /\ answer' = [answer EXCEPT ![c] = "error"]
    /\ UNCHANGED <<shut, epoch, table, life, born>>

Next ==
    \/ \E k \in Config, i \in Adapter : Publish(k, i)
    \/ \E k \in Config : RetireFailed(k)
    \/ \E r \in Resource : RetireResource(r)
    \/ Shutdown
    \/ \E c \in Call, k \in Config : Answer(c, k)
    \/ \E c \in Call : Refuse(c)

Spec == Init /\ [][Next]_abstractVars
=============================================================================
