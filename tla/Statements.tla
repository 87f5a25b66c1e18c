----------------------------- MODULE Statements -----------------------------
(***************************************************************************)
(* What Execute (internal/query/service.go) decides about the text of a    *)
(* statement before anything is sent: Inspect (internal/sqlguard/guard.go) *)
(* accepts or refuses it, the grants permit its action, and Rewrite        *)
(* (internal/masking/masking.go) replaces the tables a masked resource's   *)
(* SELECT reads.  Inspect and Rewrite work on the syntax tree of the       *)
(* parser's library, here the sequence of its nodes: the parts of a node   *)
(* come before it, it names them by their indices, and the last node is    *)
(* the statement.  What the target returns for a tree is defined on its    *)
(* own: each column of a result reveals columns of base tables.            *)
(***************************************************************************)
EXTENDS Authz, FiniteSets

CONSTANTS
    Cases,        \* statements, with the rules and grants they meet
    Grant,        \* grants there may be
    Limits,       \* limits of a resource and a request, 0 for not set
    BaseTables,   \* the columns of each base table
    Views,        \* the base table of each view, which has its columns
    MaxKept,      \* 64
    Default       \* a number of kept characters that is not set

VARIABLES
    rules,    \* the mode of each column that has a rule
    held,     \* the principal's grants on the resource, in any order
    text,     \* the statement
    reason,   \* whether it comes with a reason
    tree,     \* what is sent to the target
    action,   \* the action it needs
    verdict   \* how far it has come

given == <<rules, held, text, reason>>
statementVars == <<rules, held, text, reason, tree, action, verdict>>

Mode == {"plain", "partial", "full"}

TableNames == DOMAIN BaseTables \cup DOMAIN Views

(* The base table behind a name. *)
Behind(name) == IF name \in DOMAIN Views THEN Views[name] ELSE name

ColumnsOf(name) == BaseTables[Behind(name)]

-----------------------------------------------------------------------------
(* The tree.  An expression is a column c, qualified by q or not (""), a   *)
(* call of a function f, qualified by a database or not, or a subquery;    *)
(* the item of a select is one or a star, its condition is one or none.  A *)
(* source is a table, qualified by a database or not, with an alias or     *)
(* not, a derived table, or a join.  A union has an order, which is an     *)
(* expression or none, and a lock (FOR UPDATE) of its own.                 *)

Reads == {"select", "union"}

Writes == {"insert", "update", "delete"}

Expression == {"column", "call", "subquery"}

Source == {"table", "derived", "join"}

IsSelect(s) == s[Len(s)].t \in Reads

PartsOf(n) ==
    CASE n.t = "select" -> {n.item, n.where, n.from}
      [] n.t = "union" -> {n.left, n.right, n.order}
      [] n.t = "join" -> {n.left, n.right}
      [] n.t = "call" -> {n.arg}
      [] n.t \in {"subquery", "derived"} -> {n.select}
      [] n.t = "insert" -> {n.into, n.select}
      [] n.t \in {"update", "delete"} -> {n.into, n.where}
      [] OTHER -> {}

Grammatical(s, n) ==
    CASE n.t = "select" -> /\ s[n.item].t \in Expression \cup {"star"}
                           /\ s[n.where].t \in Expression \cup {"nothing"}
                           /\ s[n.from].t \in Source
      [] n.t = "union" -> /\ s[n.left].t \in Reads /\ s[n.right].t \in Reads
                          /\ s[n.order].t \in Expression \cup {"nothing"}
      [] n.t = "join" -> s[n.left].t \in Source /\ s[n.right].t \in Source
      [] n.t = "call" -> s[n.arg].t \in Expression
      [] n.t \in {"subquery", "derived"} -> s[n.select].t \in Reads
      [] n.t = "insert" -> s[n.into].t = "table" /\ s[n.select].t \in Reads
      [] n.t \in {"update", "delete"} ->
             /\ s[n.into].t = "table"
             /\ s[n.where].t \in Expression \cup {"nothing"}
      [] OTHER -> TRUE

IsTree(s) ==
    /\ Len(s) > 0
    /\ s[Len(s)].t \in Reads \cup Writes \cup {"ddl", "several"}
    /\ \A i \in DOMAIN s : PartsOf(s[i]) \subseteq 1 .. i - 1 /\ Grammatical(s, s[i])
    /\ \A i \in 1 .. Len(s) - 1 : \E k \in DOMAIN s : i \in PartsOf(s[k])

(* Mutant: parts of a statement within others are not looked at. *)
Shallow(s) == {s[Len(s)]} \cup {s[i] : i \in PartsOf(s[Len(s)])}

(* sqlparser.Walk goes on to every part of a node, but to the left and the *)
(* right of a union only (Union.walkSubtree), not to its order.            *)
Followed(n) == IF n.t = "union" THEN {n.left, n.right} ELSE PartsOf(n)

Reached(s) ==
    LET reached[i \in DOMAIN s] == {i} \cup UNION {reached[j] : j \in Followed(s[i])}
    IN reached

Visited(s) == Reached(s)[Len(s)]

Walk(s) == {s[i] : i \in Visited(s)}

-----------------------------------------------------------------------------
(* Inspect.                                                                *)

(* FOR UPDATE, comments and hints of a select, not the lock of a union;    *)
(* qualifiers of tables other than the resource's database; functions of   *)
(* the list by their name, whatever database qualifies it.                 *)
Tolerable(n) ==
    CASE n.t = "select" -> n.extra = "none"
      [] n.t = "table" -> n.db \in {"", "own"}
      [] n.t = "call" -> n.f # "denied"
      [] OTHER -> TRUE

IsWrite(s) ==
    LET n == s[Len(s)]
    IN \/ n.t = "insert" /\ ~n.replace
       \/ n.t \in {"update", "delete"} /\ s[n.where].t # "nothing"

Inspect ==
    /\ verdict = "submitted"
    /\ IF (IsSelect(text) \/ IsWrite(text)) /\ \A n \in Walk(text) : Tolerable(n)
       THEN /\ verdict' = "inspected"
            /\ action' = IF IsSelect(text) THEN "query_read" ELSE "query_write"
       ELSE verdict' = "refused" /\ UNCHANGED action
    /\ UNCHANGED <<given, tree>>

(* The grants permit the action, and a reason they require is there. *)
Authorize ==
    LET decision == Evaluate(held, action)
    IN /\ verdict = "inspected"
       /\ verdict' = IF decision.allowed /\ (decision.requireReason => reason)
                     THEN "authorized" ELSE "denied"
       /\ UNCHANGED <<given, tree, action>>

-----------------------------------------------------------------------------
(* Rewrite.                                                                *)

Active == \E column \in DOMAIN rules : rules[column] # "plain"

HasRules(name) == \E column \in DOMAIN rules : column[1] = name

ModeOf(name, c) ==
    IF <<name, c>> \in DOMAIN rules THEN rules[<<name, c>>] ELSE "plain"

(* Mutant: views are read as they are. *)
AnyTable(name) == TRUE

IsKnownBaseTable(name) == name \in DOMAIN BaseTables

IsAllowed(n) == n.db = "" /\ n.f = "listed"

IsMode(mode) == mode \in Mode

Compilable(n) ==
    CASE n.t = "call" -> IsAllowed(n)
      [] n.t = "table" ->
             /\ IsKnownBaseTable(n.name)
             /\ HasRules(n.name) =>
                   \A c \in Range(ColumnsOf(n.name)) : IsMode(ModeOf(n.name, c))
      [] OTHER -> TRUE

(* Mutant: the derived table has no name of its own. *)
Unnamed(n) == n.as

(* The derived table goes by the name the table went by. *)
NameAs(n) == IF n.as = "" THEN n.name ELSE n.as

(* SELECT c AS c, CASE ... END AS d, ... FROM the table. *)
Masked(n) ==
    [t |-> "masked", name |-> n.name, as |-> NameAs(n),
     modes |-> [c \in Range(ColumnsOf(n.name)) |-> ModeOf(n.name, c)]]

Compiled(s) ==
    LET walked == Visited(s)
    IN [i \in DOMAIN s |->
           IF i \in walked /\ s[i].t = "table" /\ HasRules(s[i].name)
           THEN Masked(s[i]) ELSE s[i]]

Rewrite ==
    /\ verdict = "authorized"
    /\ IF ~Active
       THEN verdict' = "sent" /\ tree' = text
       ELSE IF IsSelect(text) /\ \A n \in Walk(text) : Compilable(n)
       THEN verdict' = "sent" /\ tree' = Compiled(text)
       ELSE verdict' = "unmaskable" /\ UNCHANGED tree
    /\ UNCHANGED <<given, action>>

-----------------------------------------------------------------------------
(* The characters of a value that partial masking shows.                   *)

Kept(keep) == IF keep = Default THEN 1 ELSE keep

Shown(length, prefix, suffix) ==
    IF length <= Kept(prefix) + Kept(suffix) THEN 0 ELSE Kept(prefix) + Kept(suffix)

-----------------------------------------------------------------------------
(* The target: what a statement means.  A node contributes a sequence of   *)
(* columns, each of a source or an expression and with what it reveals:    *)
(* columns of base tables, and what a statement may not do, which counts   *)
(* even if the result does not show it.  The columns an expression refers  *)
(* to are found where a select has its sources.  Unseen is a forbidden     *)
(* thing at a place where Inspect does not look: the lock of a union,      *)
(* anything in the order of a union, and a function of another database.   *)

CONSTANTS Elsewhere, Locks, Denied, Everything, OtherKind, Unseen

Forbidden == {Elsewhere, Locks, Denied, Everything, OtherKind}

Harm == Forbidden \cup {Unseen}

Failure == [ok |-> FALSE, columns |-> <<>>, refs |-> {}]

Success(columns, refs) == [ok |-> TRUE, columns |-> columns, refs |-> refs]

Revealed(columns) == UNION {columns[i].reveals : i \in DOMAIN columns}

AllColumns == UNION {{<<name, c>> : c \in Range(BaseTables[name])} :
                        name \in DOMAIN BaseTables}

OneColumn(name, reveals) == <<[as |-> "", name |-> name, reveals |-> reveals]>>

(* The columns of a table known as as; reveals says what each reveals. *)
OfTable(name, as, reveals) ==
    IF name \notin TableNames \/ as = "" THEN Failure
    ELSE Success([i \in DOMAIN ColumnsOf(name) |->
                     [as |-> as, name |-> ColumnsOf(name)[i],
                      reveals |-> reveals[ColumnsOf(name)[i]]]], {})

Renamed(columns, as) ==
    [i \in DOMAIN columns |->
        [as |-> as, name |-> columns[i].name, reveals |-> columns[i].reveals]]

(* A function that is neither listed nor denied, or that a database        *)
(* qualifies, is stored in a database and may read any table.              *)
ReadIn(db, f) ==
    (CASE f = "denied" -> {Denied}
       [] f = "listed" /\ db = "" -> {}
       [] OTHER -> AllColumns)
    \cup (IF db = "other" THEN {Unseen} ELSE {})

OfCall(db, f, arg) ==
    Success(OneColumn(f, Revealed(arg.columns) \cup ReadIn(db, f)), arg.refs)

Matching(ref, offered) ==
    {i \in DOMAIN offered : ref.q \in {"", offered[i].as} /\ ref.c = offered[i].name}

ReadBy(refs, offered) ==
    UNION {offered[i].reveals : i \in UNION {Matching(ref, offered) : ref \in refs}}

Adding(columns, besides) ==
    [i \in DOMAIN columns |->
        [as |-> columns[i].as, name |-> columns[i].name,
         reveals |-> columns[i].reveals \cup besides]]

(* What a select makes of its item or star, its condition and the columns  *)
(* its sources offer: every reference is to one of these, and every column *)
(* of the result depends on the references and on the condition.           *)
Chosen(item, where, offered, own) ==
    LET refs == item.refs \cup where.refs
        picked == IF item.columns = <<>> THEN offered ELSE item.columns
        besides == own \cup Revealed(where.columns) \cup ReadBy(refs, offered)
                     \cup (Revealed(offered) \cap Harm)
    IN IF \E ref \in refs : Cardinality(Matching(ref, offered)) # 1 THEN Failure
       ELSE Success(Adding(picked, besides), {})

Blank == Success(<<>>, {})

Hidden(reveals) ==
    IF reveals \cap Forbidden = {} THEN reveals ELSE (reveals \ Forbidden) \cup {Unseen}

(* Row by row from both, by the names of the left; the order refers to     *)
(* these columns, which no table qualifies.                                *)
OfUnion(left, right, order, lock) ==
    IF DOMAIN left # DOMAIN right THEN Failure
    ELSE Chosen(Blank, Success(OneColumn("", Hidden(Revealed(order.columns))), order.refs),
                [i \in DOMAIN left |->
                    [as |-> "", name |-> left[i].name,
                     reveals |-> left[i].reveals \cup right[i].reveals]],
                IF lock THEN {Unseen} ELSE {})

(* What node n makes of what its parts contribute.  A write is seen as     *)
(* what it reads and writes.                                               *)
Contribution(n, part) ==
    IF \E i \in PartsOf(n) : ~part[i].ok THEN Failure
    ELSE CASE n.t = "column" -> Success(OneColumn(n.c, {}), {[q |-> n.q, c |-> n.c]})
      [] n.t = "call" -> OfCall(n.db, n.f, part[n.arg])
      [] n.t = "subquery" ->
             IF DOMAIN part[n.select].columns = {1} THEN part[n.select] ELSE Failure
      [] n.t \in {"star", "nothing"} -> Blank
      [] n.t = "table" ->
             OfTable(n.name, IF n.as = "" THEN n.name ELSE n.as,
                     [c \in Range(ColumnsOf(n.name)) |->
                         IF n.db \in {"", "own"} THEN {<<Behind(n.name), c>>}
                         ELSE {Elsewhere}])
      [] n.t = "masked" ->
             OfTable(n.name, n.as,
                     [c \in DOMAIN n.modes |->
                         IF n.modes[c] \in {"partial", "full"} THEN {}
                         ELSE {<<n.name, c>>}])
      [] n.t = "derived" -> Success(Renamed(part[n.select].columns, n.as), {})
      [] n.t = "join" -> Success(part[n.left].columns \o part[n.right].columns, {})
      [] n.t = "select" ->
             Chosen(part[n.item], part[n.where], part[n.from].columns,
                    IF n.extra = "none" THEN {} ELSE {Locks})
      [] n.t = "union" ->
             OfUnion(part[n.left].columns, part[n.right].columns, part[n.order], n.lock)
      [] n.t = "insert" ->
             Chosen(Blank, Blank,
                    part[n.into].columns \o Renamed(part[n.select].columns, "new"),
                    IF n.replace THEN {OtherKind} ELSE {})
      [] n.t \in {"update", "delete"} ->
             Chosen(Blank, part[n.where], part[n.into].columns,
                    IF part[n.where].columns = <<>> THEN {Everything} ELSE {})
      [] OTHER -> Success(OneColumn("", {OtherKind}), {})

Contributions(s) ==
    LET part[i \in DOMAIN s] == Contribution(s[i], [j \in PartsOf(s[i]) |-> part[j]])
    IN part

Meaning(s) == Contributions(s)[Len(s)]

-----------------------------------------------------------------------------
(* Tables have columns and are no views, and no column is a forbidden      *)
(* thing; grants are as validateGrant (internal/api/admin.go:405) leaves   *)
(* them, but for their actions.                                            *)
ASSUME TablesAssumption ==
    /\ \A name \in DOMAIN BaseTables :
          BaseTables[name] # <<>> /\ BaseTables[name] \in Seq(Range(BaseTables[name]))
    /\ DOMAIN BaseTables \cap DOMAIN Views = {}
    /\ \A name \in DOMAIN Views : Views[name] \in DOMAIN BaseTables
    /\ AllColumns \cap Harm = {}
    /\ Unseen \notin Forbidden
    /\ MaxKept \in Nat

ASSUME CasesAssumption ==
    \A case \in Cases : /\ case.text \in Seq(Range(case.text))
                        /\ IsTree(case.text)
                        /\ case.held \in Seq(Grant)
                        /\ DOMAIN case.rules \cap Harm = {}

ASSUME GrantAssumption ==
    /\ \A g \in Grant : g \in [action : {g.action}, requireReason : BOOLEAN,
                               rowLimit : (Nat \ {0}) \cup {Unset},
                               timeout : Nat \cup {Unset}]
    /\ Limits \subseteq Nat

-----------------------------------------------------------------------------
StatementInit ==
    /\ \E case \in Cases :
          /\ rules = case.rules /\ held = case.held
          /\ text = case.text /\ reason = case.reason
    /\ tree = text
    /\ action = "none"
    /\ verdict = "submitted"

StatementNext == Inspect \/ Authorize \/ Rewrite

StatementSpec == StatementInit /\ [][StatementNext]_statementVars

-----------------------------------------------------------------------------
(* Correctness.                                                            *)

(* Stated where authorization is next, of any action it may be asked for:  *)
(* Evaluate decides as README.md:72 describes it, most restrictively.      *)
EvaluateIsMostRestrictive ==
    verdict = "inspected" =>
        \A requested \in Action : MostRestrictive(held, requested)

(* internal/authz/policy.go:51: an additional grant never loosens a cap,   *)
(* nor withdraws a permission.                                             *)
GrantNeverLoosens ==
    verdict = "inspected" =>
        \A requested \in Action, extra \in Grant :
            NeverLoosens(held, extra, requested, Limits)

(* The rows and the timeout keep every ceiling, limit and wish that is     *)
(* set, and no resource can switch the timeout off.                        *)
LimitsWithinEveryCap ==
    verdict = "inspected" => \A requested \in Action, limit, wanted \in Limits :
        WithinEveryCap(Evaluate(held, requested), limit, wanted)

Means == Meaning(text)

(* "DDL, multiple statements, cross-database access, locking SELECT,       *)
(* comments, dangerous functions, UPDATE/DELETE without WHERE are          *)
(* rejected" (api/mcp.go:104), however deep in a statement they are, and a *)
(* statement that does none of this and that the target would take is not. *)
(* This is not so of what is Unseen, which Inspect accepts although        *)
(* docs/security.md:7 forbids it too: SELECT ... UNION SELECT ... FOR      *)
(* UPDATE, a denied function or a table of another database in the ORDER   *)
(* BY of a UNION, and a function of another database (otherdb.fn()).       *)
InspectTellsHarm ==
    verdict # "submitted" /\ Means.ok =>
        (verdict = "refused" <=> Revealed(Means.columns) \cap Forbidden # {})

MaskedColumns == {column \in DOMAIN rules : rules[column] # "plain"}

(* What a statement reads where Rewrite does not come: in the order of a   *)
(* union, a table, or a function that may read one.                        *)
Overlooked(s) ==
    \E i \in DOMAIN s \ Visited(s) :
        s[i].t = "table" \/ (s[i].t = "call" /\ ~IsAllowed(s[i]))

(* "outer SELECTs, aliases, joins, stars, subqueries, UNIONs and the       *)
(* functions allowed read processed values only"                           *)
(* (docs/masking-and-mcp.md:41): no column of the result depends on the    *)
(* value of a masked column, whatever the mode in the store says, and of a *)
(* partially masked value at least one character is hidden, all of them if *)
(* it is no longer than the characters kept (:31).  A UNION may be sorted  *)
(* by its own columns, but what its ORDER BY reads by itself is sent as it *)
(* is, against what the document says of UNIONs and of sorting (:43).      *)
MaskedStaysMasked ==
    verdict = "sent" =>
        /\ Overlooked(text) \/ Revealed(Meaning(tree).columns) \cap MaskedColumns = {}
        /\ Active => \A prefix, suffix \in 0 .. MaxKept \cup {Default},
                        length \in 1 .. 2 * MaxKept + 1 :
              /\ Shown(length, prefix, suffix) < length
              /\ length > Kept(prefix) + Kept(suffix) =>
                    Shown(length, prefix, suffix) = Kept(prefix) + Kept(suffix)

(* And the statement means what it meant: the same columns by the same     *)
(* names, and apart from masked values the same values.                    *)
RewriteIsTransparent ==
    verdict = "sent" /\ IsSelect(text) /\ Means.ok =>
        /\ Meaning(tree).ok
        /\ Len(Meaning(tree).columns) = Len(Means.columns)
        /\ \A i \in DOMAIN Means.columns :
              /\ Meaning(tree).columns[i].name = Means.columns[i].name
              /\ Meaning(tree).columns[i].reveals \ MaskedColumns =
                    Means.columns[i].reveals \ MaskedColumns
=============================================================================
