------------------------------- MODULE Authz --------------------------------
(***************************************************************************)
(* Authorization decisions (internal/authz/policy.go) and the limits the   *)
(* query service derives from them (internal/query/service.go): pure       *)
(* operators, used by Query, Grants and Statements; the last compares them *)
(* with a declarative reading of the documentation.                        *)
(***************************************************************************)
EXTENDS Naturals, Sequences, SequencesExt

CONSTANTS
    Unset    \* the nil pointer of an optional limit

Action == {"schema_read", "query_read", "query_write"}

(* A grant's action is text in the control store; ParseAction refuses what *)
(* is none of the three.                                                   *)
ParsesAs(text) == text \in Action

Includes(granted, requested) ==
    CASE granted = "query_write" -> requested \in Action
      [] granted = "query_read" -> requested \in {"query_read", "schema_read"}
      [] granted = "schema_read" -> requested = "schema_read"
      [] OTHER -> FALSE

MinOptional(a, b) ==
    IF a = Unset THEN b
    ELSE IF b = Unset THEN a
    ELSE IF b < a THEN b ELSE a

Deny ==
    [allowed |-> FALSE, requireReason |-> FALSE, rowLimit |-> Unset,
     timeout |-> Unset]

(* Mutant: only the constraints of the last grant bind. *)
MergeLast(decision, grant, requested) ==
    IF ~ParsesAs(grant.action) \/ ~Includes(grant.action, requested)
    THEN decision
    ELSE [allowed |-> TRUE, requireReason |-> grant.requireReason,
          rowLimit |-> grant.rowLimit, timeout |-> grant.timeout]

(* Mutant: the constraints of a grant for another action bind as well. *)
MergeConstraints(decision, grant, requested) ==
    [allowed |-> decision.allowed \/ Includes(grant.action, requested),
     requireReason |-> decision.requireReason \/ grant.requireReason,
     rowLimit |-> MinOptional(decision.rowLimit, grant.rowLimit),
     timeout |-> MinOptional(decision.timeout, grant.timeout)]

(* One turn of Evaluate's loop over the grants. *)
Merge(decision, grant, requested) ==
    IF ~ParsesAs(grant.action) \/ ~Includes(grant.action, requested)
    THEN decision
    ELSE [allowed |-> TRUE,
          requireReason |-> decision.requireReason \/ grant.requireReason,
          rowLimit |-> MinOptional(decision.rowLimit, grant.rowLimit),
          timeout |-> MinOptional(decision.timeout, grant.timeout)]

Evaluate(grants, requested) ==
    FoldLeft(LAMBDA decision, grant : Merge(decision, grant, requested),
             Deny, grants)

-----------------------------------------------------------------------------
(* effectiveRows and effectiveTimeout.                                     *)

CONSTANTS
    MaxResultRows,   \* 1000
    MaxTimeout,      \* 10000 ms
    MinTimeout       \* 100 ms

ASSUME LimitsAssumption ==
    /\ MaxResultRows \in Nat \ {0}
    /\ MaxTimeout \in Nat
    /\ MinTimeout \in Nat \ {0}
    /\ MinTimeout <= MaxTimeout

ASSUME UnsetAssumption == Unset \notin Nat

(* A limit of zero, or one above the ceiling, means the ceiling. *)
Capped(limit, ceiling) ==
    IF limit = 0 \/ limit > ceiling THEN ceiling ELSE limit

Tighten(limit, optional) ==
    IF optional # Unset /\ optional < limit THEN optional ELSE limit

(* Mutant: the requested number of rows replaces the limit. *)
RequestedRows(resourceLimit, grantLimit, requested) ==
    IF requested > 0 THEN requested
    ELSE Tighten(Capped(resourceLimit, MaxResultRows), grantLimit)

EffectiveRows(resourceLimit, grantLimit, requested) ==
    LET limit == Tighten(Capped(resourceLimit, MaxResultRows), grantLimit)
    IN IF requested > 0 /\ requested < limit THEN requested ELSE limit

EffectiveTimeout(resourceMS, grantMS) ==
    LET ms == Tighten(Capped(resourceMS, MaxTimeout), grantMS)
    IN IF ms < MinTimeout THEN MinTimeout ELSE ms

-----------------------------------------------------------------------------
(* What the documentation promises of decisions and limits, for one list   *)
(* of grants: the predicates Statements checks over many and PolicyProofs  *)
(* proves of all.                                                          *)

Rank == [schema_read |-> 1, query_read |-> 2, query_write |-> 3]

Applicable(grants, requested) ==
    {i \in DOMAIN grants : /\ grants[i].action \in DOMAIN Rank
                           /\ Rank[grants[i].action] >= Rank[requested]}

Smallest(S) == IF S = {} THEN Unset ELSE CHOOSE m \in S : \A n \in S : m <= n

(* README.md:72: with no matching grant access is refused; when several    *)
(* apply, a reason is required if one of them requires it, and the rows    *)
(* and the timeout are the smallest any of them sets.                      *)
MostRestrictive(grants, requested) ==
    LET applicable == {grants[i] : i \in Applicable(grants, requested)}
    IN Evaluate(grants, requested) =
        [allowed |-> applicable # {},
         requireReason |-> \E g \in applicable : g.requireReason,
         rowLimit |-> Smallest({g.rowLimit : g \in applicable} \ {Unset}),
         timeout |-> Smallest({g.timeout : g \in applicable} \ {Unset})]

(* internal/authz/policy.go:51: an additional grant can never loosen a     *)
(* cap, nor withdraw a permission.  Stated of the limits that reach the    *)
(* target: the rows of the result and the statement timeout.               *)
NeverLoosens(grants, extra, requested, limits) ==
    LET old == Evaluate(grants, requested)
        new == Evaluate(Append(grants, extra), requested)
    IN /\ old.allowed => new.allowed
       /\ old.requireReason => new.requireReason
       /\ \A limit, wanted \in limits :
            /\ EffectiveRows(limit, new.rowLimit, wanted)
                 <= EffectiveRows(limit, old.rowLimit, wanted)
            /\ EffectiveTimeout(limit, new.timeout)
                 <= EffectiveTimeout(limit, old.timeout)

Below(n, cap, least) == cap # Unset /\ cap >= least => n <= cap

(* The rows returned never exceed the ceiling, the resource's limit, a     *)
(* grant's or the caller's wish, whichever are set, and are never zero:    *)
(* zero means "not set" to a resource and to a caller.  The timeout stays  *)
(* between its floor and its ceiling, so no resource can switch it off; a  *)
(* limit below the floor is the only one it may exceed.                    *)
WithinEveryCap(decision, limit, wanted) ==
    LET rows == EffectiveRows(limit, decision.rowLimit, wanted)
        ms == EffectiveTimeout(limit, decision.timeout)
    IN /\ rows \in 1 .. MaxResultRows
       /\ Below(rows, limit, 1) /\ Below(rows, wanted, 1)
       /\ Below(rows, decision.rowLimit, 1)
       /\ ms \in MinTimeout .. MaxTimeout
       /\ Below(ms, limit, MinTimeout)
       /\ Below(ms, decision.timeout, MinTimeout)
=============================================================================
