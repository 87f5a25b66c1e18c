------------------------------- MODULE Audits -------------------------------
(***************************************************************************)
(* The audit list (ListAudits in internal/control/store.go, listAudits in  *)
(* internal/api/admin.go) read page by page by the console while requests  *)
(* write their audit rows.                                                 *)
(*                                                                         *)
(* A row's identifier is its position in the table.  The database hands    *)
(* identifiers out in order, but a row is visible only when its INSERT     *)
(* has committed, in any order.  Releases before this one wrote several    *)
(* rows for a request; they may still be there.                            *)
(***************************************************************************)
EXTENDS Integers, Sequences, FiniteSets

CONSTANTS
    Request,       \* requests that leave audit rows
    MaxOld,        \* bound on the rows there are at the start
    Pages,         \* pages a caller may ask for first
    Sizes,         \* page sizes a caller may ask for
    DefaultSize,   \* 20
    MaxSize        \* 100

ASSUME AuditsAssumption ==
    /\ MaxOld \in Nat
    /\ Pages \subseteq Nat
    /\ Sizes \subseteq Nat
    /\ DefaultSize \in 1 .. MaxSize
    /\ MaxSize \in Nat

VARIABLES
    rows,     \* audit_logs
    pc,       \* where the reader stands
    asks,     \* the page and the page size it asks for
    total,    \* the COUNT of the call under way
    answer,   \* the last page
    began,    \* history: what the list had when page 1 was asked for
    settled,  \* history: requests with an outcome when the page was asked for
    seen,     \* history: requests shown since
    late      \* history: rows that came between COUNT and SELECT

readerVars == <<pc, asks, total, answer, began, settled, seen, late>>
vars == <<rows, pc, asks, total, answer, began, settled, seen, late>>

Row == [request : Request, visible : BOOLEAN, settled : BOOLEAN]

Id == DOMAIN rows

Visible == {i \in Id : rows[i].visible}

(* Mutant: every row is listed. *)
EveryRow == Visible

(* One row per request, its newest. *)
Listed ==
    {i \in Visible :
        \A j \in Visible : rows[j].request = rows[i].request => j <= i}

RequestsOf(ids) == {rows[i].request : i \in ids}

Settled == {rows[i].request : i \in {j \in Visible : rows[j].settled}}

Init ==
    /\ rows \in UNION {[1 .. n -> {row \in Row : row.visible}] : n \in 0 .. MaxOld}
    /\ \A i, j \in Id : i < j /\ rows[i].request = rows[j].request
                        => ~rows[i].settled
    /\ pc = "idle"
    /\ asks \in [page : Pages, size : Sizes]
    /\ total = 0
    /\ answer = [page |-> 1, size |-> DefaultSize, totalPages |-> 0,
                 items |-> <<>>]
    /\ began = {} /\ settled = {} /\ seen = {} /\ late = 0

-----------------------------------------------------------------------------
(* The requests.                                                           *)

InsertAudit(r) ==
    /\ r \notin RequestsOf(Id)
    /\ rows' = Append(rows, [request |-> r, visible |-> FALSE, settled |-> FALSE])
    /\ UNCHANGED readerVars

InsertCommits(i) ==
    /\ ~rows[i].visible
    /\ rows' = [rows EXCEPT ![i].visible = TRUE]
    /\ late' = late + 1
    /\ UNCHANGED <<pc, asks, total, answer, began, settled, seen>>

(* Mutant: the outcome gets a row of its own, as in earlier releases. *)
WithOutcomeRow(i) == Append(rows, [rows[i] EXCEPT !.settled = TRUE])

WithOutcome(i) == [rows EXCEPT ![i].settled = TRUE]

(* A request updates the row it inserted. *)
UpdateAudit(i) ==
    /\ rows[i].visible /\ ~rows[i].settled
    /\ i \in Listed
    /\ rows' = WithOutcome(i)
    /\ UNCHANGED readerVars

-----------------------------------------------------------------------------
(* The list.                                                               *)

(* The console walks from the first page; a page that is no number or is   *)
(* below 1 counts as 0 here.                                               *)
Ask ==
    /\ pc = "idle"
    /\ pc' = "count"
    /\ began' = IF asks.page <= 1 THEN RequestsOf(Listed) ELSE {}
    /\ settled' = Settled
    /\ UNCHANGED <<rows, asks, total, answer, seen, late>>

PageSize == IF asks.size \in 1 .. MaxSize THEN asks.size ELSE DefaultSize

Count ==
    /\ pc = "count"
    /\ pc' = "select"
    /\ total' = Cardinality(Listed)
    /\ late' = 0
    /\ UNCHANGED <<rows, asks, answer, began, settled, seen>>

TotalPages == (total + PageSize - 1) \div PageSize

(* A page past the end is the last one. *)
Page ==
    IF asks.page = 0 \/ total = 0 THEN 1
    ELSE IF asks.page > TotalPages THEN TotalPages ELSE asks.page

Offset == (Page - 1) * PageSize

(* The newest first: a row's place in the list, and the row at a place. *)
Place(i) == Cardinality({j \in Listed : j >= i})

RowAt(n) == rows[CHOOSE i \in Listed : Place(i) = n]

Items ==
    LET left == Cardinality(Listed) - Offset
    IN [n \in 1 .. IF left < PageSize THEN left ELSE PageSize |->
           [request |-> RowAt(Offset + n).request,
            settled |-> RowAt(Offset + n).settled]]

Select ==
    /\ pc = "select"
    /\ pc' = "shown"
    /\ answer' = [page |-> Page, size |-> PageSize, totalPages |-> TotalPages,
                  items |-> Items]
    /\ seen' = seen \cup {Items[n].request : n \in DOMAIN Items}
    /\ UNCHANGED <<rows, asks, total, began, settled, late>>

(* A statement fails: 500, and the reader starts again. *)
Failed ==
    /\ pc \in {"count", "select"}
    /\ pc' = "idle"
    /\ seen' = {}
    /\ asks' = [asks EXCEPT !.page = 1]
    /\ UNCHANGED <<rows, total, answer, began, settled, late>>

(* The button for the next page. *)
NextPage ==
    /\ pc = "shown"
    /\ answer.page < answer.totalPages
    /\ pc' = "count"
    /\ asks' = [asks EXCEPT !.page = answer.page + 1]
    /\ settled' = Settled
    /\ UNCHANGED <<rows, total, answer, began, seen, late>>

Next ==
    \/ \E r \in Request : InsertAudit(r)
    \/ \E i \in Id : InsertCommits(i)
    \/ \E i \in Id : UpdateAudit(i)
    \/ Ask
    \/ Count
    \/ Select
    \/ Failed
    \/ NextPage

Spec == Init /\ [][Next]_vars

-----------------------------------------------------------------------------
(* Correctness.                                                            *)

Shown(r) == {n \in DOMAIN answer.items : answer.items[n].request = r}

(* Who walks from the first page to the last has seen every request that   *)
(* was listed when the walk began, although rows arrive and outcomes are   *)
(* written meanwhile: rows only move towards later pages.  The last page   *)
(* may be pushed out by rows that arrive between its COUNT and its SELECT, *)
(* one request for each (control/store.go:596).  Whatever page and size    *)
(* were asked for, a page is one there is, full unless it is the last, and *)
(* never longer than the maximum.                                          *)
NothingIsSkipped ==
    pc = "shown" =>
        /\ answer.page >= answer.totalPages => Cardinality(began \ seen) <= late
        /\ Len(answer.items) <= answer.size /\ answer.size <= MaxSize
        /\ answer.page < answer.totalPages => Len(answer.items) = answer.size
        /\ answer.totalPages > 0 =>
              answer.page \in 1 .. answer.totalPages /\ answer.items # <<>>

(* "each request is shown with its final state only"                       *)
(* (web/src/components/AppShell.tsx:52): once, and with its outcome if it  *)
(* had one when the page was asked for, whichever release wrote the rows.  *)
OneStatePerRequest ==
    pc = "shown" => \A r \in Request :
        /\ Cardinality(Shown(r)) <= 1
        /\ r \in settled => \A n \in Shown(r) : answer.items[n].settled
=============================================================================
