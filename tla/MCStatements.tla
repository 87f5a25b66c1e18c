---------------------------- MODULE MCStatements ----------------------------
(***************************************************************************)
(* Statements over two base tables and a view of one of them, nested once, *)
(* under every rule, and two of them under every list of two grants.       *)
(* They are put together from nested records, whose parts are records, and *)
(* flattened into the sequences that Statements works on.                  *)
(***************************************************************************)
EXTENDS Statements

Columns == [u |-> <<"a", "b">>, w |-> <<"a">>]

ViewOf == [v |-> "u"]

Rules == {<<>>} \cup
    {<<"u", "a">> :> mode @@ <<"u", "b">> :> "plain" :
         mode \in {"plain", "partial", "full", "bogus"}} \cup
    {<<"u", "a">> :> "plain" @@ <<"w", "a">> :> "full"}

Nothing == [t |-> "nothing"]

Star == [t |-> "star"]

Column == [t : {"column"}, q : {"", "u", "x"}, c : {"a", "b"}]

A == [t |-> "column", q |-> "", c |-> "a"]

Call ==
    [t : {"call"}, db : {""}, f : {"listed", "stored", "denied"}, arg : {A}] \cup
    [t : {"call"}, db : {"own", "other"}, f : {"listed", "denied"}, arg : {A}]

Table == [t : {"table"}, db : {"", "own", "other"}, name : {"u", "v", "w"},
          as : {"", "x"}]

Select(items, conditions, sources, extras) ==
    [t : {"select"}, item : items, where : conditions, from : sources,
     extra : extras]

One(S) == {<<s>> : s \in S}

Simple == Select(Column \cup Call \cup {Star}, Call \cup {Nothing}, Table, {"none"})

(* The inner statements of the larger ones. *)
Inner ==
    Select({call \in Call : call.db = ""} \cup {A, Star}, {Nothing},
           [t : {"table"}, db : {"", "other"}, name : {"u", "v", "w"}, as : {""}],
           {"none"})
    \cup Select({Star}, {Nothing}, [t : {"table"}, db : {""}, name : {"u"}, as : {""}],
                {"lock"})

Derived == Select(Column \cup Call \cup {Star}, {Nothing},
                  [t : {"derived"}, select : Inner, as : {"x"}], {"none"})

Nested ==
    Select([t : {"subquery"}, select : Inner], {Nothing},
           [t : {"table"}, db : {""}, name : {"u", "w"}, as : {""}], {"none"})
    \cup
    Select([t : {"call"}, db : {""}, f : {"listed", "stored"},
            arg : [t : {"subquery"}, select : Inner]], {Nothing},
           [t : {"table"}, db : {""}, name : {"u"}, as : {""}], {"none"})
    \cup
    Select({Star}, [t : {"subquery"}, select : Inner],
           [t : {"table"}, db : {""}, name : {"u", "w"}, as : {""}], {"none"})

Small == [t : {"table"}, db : {""}, name : {"u", "v", "w"}, as : {"", "x"}]

Joined == Select(Column \cup Call \cup {Star}, {Nothing},
                 [t : {"join"}, left : Small, right : Small], {"none"})

(* What a union is sorted by, by itself: nothing, a column of the result   *)
(* or of a table, a function, or a subquery.                               *)
Sorts ==
    {Nothing} \cup [t : {"column"}, q : {"", "u"}, c : {"a"}] \cup Call
    \cup [t : {"subquery"},
          select : Select({A}, {Nothing}, [t : {"table"}, db : {"", "other"},
                                           name : {"u", "v", "w"}, as : {""}],
                          {"none", "lock"})]

Plainly == Select({A}, {Nothing}, [t : {"table"}, db : {""}, name : {"u", "w"}, as : {""}],
                  {"none"})

Sorted == [t : {"union"}, left : Plainly, right : Plainly, order : Sorts, lock : BOOLEAN]

United ==
    [t : {"union"}, left : Inner, right : Inner, order : {Nothing}, lock : {FALSE}]
    \cup Sorted
    \cup Select({Star}, {Nothing}, [t : {"derived"}, select : Sorted, as : {"x"}], {"none"})

Written ==
    [t : {"insert"}, replace : BOOLEAN, into : Table, select : Inner] \cup
    [t : {"update", "delete"}, into : Table, where : Column \cup Call \cup {Nothing}]
    \cup {[t |-> "ddl"], [t |-> "several"]}

Statements == Simple \cup Derived \cup Nested \cup Joined \cup United \cup Written

Part == {"item", "where", "from", "left", "right", "order", "arg", "select", "into"}

Shift(s, by) ==
    [i \in DOMAIN s |->
        [x \in DOMAIN s[i] |-> IF x \in Part THEN s[i][x] + by ELSE s[i][x]]]

(* A nested record as the sequence of its nodes: those of each part one    *)
(* after the other, then its own, which says where each part ends.         *)
RECURSIVE Flat(_)
Flat(n) ==
    LET parts == SetToSeq(Part \cap DOMAIN n)
        flat == [k \in DOMAIN parts |-> Flat(n[parts[k]])]
        end[k \in 0 .. Len(parts)] == IF k = 0 THEN 0 ELSE end[k - 1] + Len(flat[k])
        node == [x \in DOMAIN n |-> IF x \in Part
                     THEN end[CHOOSE k \in DOMAIN parts : parts[k] = x] ELSE n[x]]
    IN Append(FlattenSeq([k \in DOMAIN parts |-> Shift(flat[k], end[k - 1])]), node)

(* One action is none: ParseAction refuses it. *)
Grants == [action : {"schema_read", "query_read", "query_write", "unknown"},
           requireReason : BOOLEAN, rowLimit : {Unset, 1, 3}, timeout : {Unset, 2}]

WriteGrant == [action |-> "query_write", requireReason |-> FALSE,
               rowLimit |-> Unset, timeout |-> Unset]

(* A principal has one grant per action. *)
GrantLists ==
    {<<>>} \cup One(Grants) \cup
    {list \in Grants \X Grants : list[1].action # list[2].action}

AllCases ==
    [text : {Flat(s) : s \in Statements}, rules : Rules, held : {<<WriteGrant>>},
     reason : {FALSE}]
    \cup
    [text : {Flat(s) : s \in {
                [t |-> "select", item |-> Star, where |-> Nothing, extra |-> "none",
                 from |-> [t |-> "table", db |-> "", name |-> "w", as |-> ""]],
                [t |-> "delete", where |-> [t |-> "column", q |-> "", c |-> "a"],
                 into |-> [t |-> "table", db |-> "", name |-> "w", as |-> ""]]}},
     rules : {<<>>}, held : GrantLists, reason : BOOLEAN]
=============================================================================
