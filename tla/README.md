# A TLA+ verification of the database access gateway

The gateway sits between MCP clients and MySQL targets. It authenticates a
client by its token, authorizes a statement by principal, resource and action,
masks what it returns, audits what it does, and keeps the pools of connections
to the targets. This directory models its concurrent core, its administration
and what it does to a statement, checks the models with TLC and proves with
TLAPS what they keep for any number of requests.

Paths below are relative to the repository's root.

## 1. The system

| component | source | state | operations | what is hard |
| --- | --- | --- | --- | --- |
| target registry | `internal/target/registry.go` | cache of pools, generation of each resource, `closed`, flights of `singleflight` | `Get`, connect, ping, `Invalidate`, `Close` | connects, pings and invalidations interleave; every pool has to be closed by exactly somebody |
| MySQL adapter, secrets | `internal/target/database.go`, `secret.go` | an `sql.DB` | `Connect`, `Ping`, `Close` | each may fail or run into its timeout |
| connection pools | `sql.DB` of the store (12 connections) and of each target (4) | connections in use | statements, open rows, transactions | a request may keep a connection of one pool while it waits for one of the other |
| query service | `internal/query/service.go` | none of its own; a transaction on the target | `Execute`, `ListTables`, `DescribeTable` | reads the policy several times, in separate statements, while administrators change it; two databases, no common transaction |
| authorization | `internal/authz/policy.go`, limits in `service.go` | none | `Evaluate`, `effectiveRows`, `effectiveTimeout` | zero and nil mean "not set" in different places |
| SQL guard, masking rewrite | `internal/sqlguard`, `internal/masking` | none | `Inspect`, `Rewrite`, `Schema` | rules over a syntax tree |
| control store | `internal/control` | principals, tokens, sessions, resources, grants, masking rules, audits, schema version | one statement or transaction each | versions, affected row counts, statements that are applied and yet report an error |
| sessions and accounts | `internal/api/session.go`, `updateUser` in `admin.go` | rows of the control store | login, logout, password change, status change, reset | read, decide, write in separate statements |
| access tokens, MCP handler | `internal/api/user.go`, `mcp.go` | rows of the control store | create, reveal, delete, authenticate | revocation races use |
| grant administration | `internal/api/admin.go` | `grants` | upsert, edit, revoke, test, list | one row per subject, whether revoked or not; an edit infers its success from a later read |
| audit list | `ListAudits` in `internal/control/store.go` | `audit_logs` | list, page by page | COUNT and SELECT are two statements, rows arrive meanwhile |
| resource and masking administration | `internal/api/admin.go`, `masking.go` | rows of the control store; pools | update, test, save a rule | the row and the pools change in two steps |
| startup, migrations, shutdown | `cmd/gateway/main.go`, `internal/control/migrations.go` | `schema_migrations` | migrate, ensure an administrator, serve, stop | DDL is not transactional: a crash may fall between a statement and its record |
| configuration, identifiers, cryptography | `internal/config`, `internal/id`, `internal/auth` | none | | none over time |
| web console | `web/src` | none that the server trusts | | a client of the API |

The components meet in the control store, which all handlers share without
locks of their own, and in the registry, which queries, connection tests and
masking administration ask for pools and which updates invalidate.

What makes each correct:

* the registry never caches a closed pool or one whose connect is older than
  the last invalidation, loses no pool, connects once for concurrent calls and
  answers every call;
* the query service lets no row out and commits no write unless principal,
  resource, grant and masking rules held after the target was done, and its
  audit row never says what is not so;
* merged grants are never looser than any of them, and limits hold at zero, at
  their ceilings and at their floors;
* the guard refuses what the documentation forbids and nothing else, wherever in
  a statement it stands, and the rewrite lets no masked value reach a result while
  it changes nothing else (section 5 says where in a UNION neither looks);
* a revoked grant comes back by an upsert only, and every list of grants shows
  what a query may do;
* requests take connections in one order and return them, so that none waits for
  itself;
* who pages through the audits sees every request, once, in its last state;
* a new password shuts out the sessions of the old one, a revoked token is
  refused, a status is not brought back;
* an administrator's change overwrites no other and retires the pools of before;
* a start leaves the schema in step with its record, whatever stops it, and
  keeps the administrator's password and status and the resources' accounts.

`PROJECT.json` lists the places where these can go wrong, each at its line.

## 2. The modules

| module | models | built from |
| --- | --- | --- |
| `PoolCache` | what the registry promises: a table of live pools, epochs, answers | |
| `Registry` | the registry, a step per critical section, adapter call or flight operation | refines `PoolCache` |
| `Authz` | merging of grants, limits: pure operators | |
| `Statements` | the guard, the authorization and the rewrite of one statement, and what a statement means to the target | `Authz` |
| `Answers` | what the query service promises: requests admitted, run, released or over, their rows | |
| `Query` | the query service under a policy that changes | `Authz`, refines `Answers` |
| `Accounts` | one account: status, password, sessions, tokens | |
| `Resources` | one resource: its row, its administrators, its queries, its pools | `PoolCache` |
| `Startup` | migrations, default administrator, crash and restart | |
| `Grants` | upsert, edit and revocation of grants, and the lists that show them | `Authz` |
| `Connections` | the two bounded pools and the order in which handlers use them | |
| `Audits` | the audit list read page by page while requests write | |
| `RegistryProofs`, `QueryProofs`, `AccountsProofs`, `ResourcesProofs`, `StartupProofs`, `ConnectionsProofs`, `AuditsProofs` | theorems about the module of that name; `RegistryProofs` and `QueryProofs` also the refinements | that module, TLAPS |
| `PolicyProofs` | theorems about `Grants`, `Authz` and `Statements` | those modules, TLAPS |
| `MCRegistry`, `MCQuery`, `MCStatements`, `MCAccounts`, `MCResources`, `MCStartup`, `MCGrants`, `MCConnections`, `MCAudits` | instances for TLC; `MCStatements` also the grammar of the statements | |

**Registry.** A `Call` is one `getDatabase`, and names the flight and the
adapter it may create, because a call starts at most one flight and a flight
makes at most one adapter. `pc` follows the call between critical sections:
`GetEntry` is the read-locked look at cache and generation, `PingOk`,
`PingFailed` and `PingContextDone` are the three outcomes of `Ping`,
`JoinFlight` is `DoChan`, `DatabaseReturnError` the last look before the pool is
returned. `fpc` follows `connectAndCache`, which goes on when its callers are
gone (`context.WithoutCancel`). `Invalidate` and `Close` take the pools out
under the lock and close them one by one afterwards (`CloseStale`).
`singleflight` is external: a flight is joinable until `FlightDeliver`.
`EntryAges` stands for the 30 seconds after which an entry is pinged again.

**PoolCache.** Publish, retire, answer, refuse, shut down; no locks, flights or
goroutines. A pool is live in one epoch of its resource and is handed out only
then. `Registry` states the refinement mapping (`Promise`); `Resources` uses the
abstract module in place of the registry, which the refinement justifies.

**Query.** The policy that bears on one principal and one resource is a record;
`policy[n]` is its n-th state, and a request remembers what it has read as
positions in that history. Every statement on the control store is a step,
`authorizeResource` three of them. Text is abstracted: the guard, the rewrite
and the target accept or refuse. A store statement that reports an error may
have been applied, a commit likewise. `Crash` ends all requests; the target
rolls back what was open.

**Answers.** The same requests without reads, pools, masks or transactions: found,
admitted once the store has let them since they were looked up, run, and in the
end released or over, with an audit row that is written before admission and gets
one outcome. Released means that rows reach the caller or that a write commits;
a read or a write is released only if the store has let it again since its
statement ran. What a grant lets pass is a parameter (`Passes`): the promise holds
whatever the grants decide. `Query` states the refinement mapping (`StageOf`) and
gives the parameter its value (`Rounds`): what `Evaluate` finds, and in the first
round the reason that it may require.

**Accounts.** An `Op` is one HTTP request on one account; `Plan` is the order of
its statements after its checks. A hash is named after the request that set it.
An `UPDATE` that changes nothing counts no rows and is answered 404, as MySQL
and `UpdatePrincipal` have it.

**Resources.** An `Op` is an update, a masking rule, a connection test or a
query; `UpdatePlan`, `MaskPlan`, `TestPlan` and `QueryPlan` are the orders of
their steps. `version` stands for the settings it was written with.

**Startup.** `Migrations` lists the 18 statements by what they create, add and
drop; `Effect` and `Refused` are what MySQL does with them. An initial state is
the schema after any number of them, with an old resource and an account named
`admin` such a release may have left. The resource has its user name and its
secret apart, since the backfill sets each column from its own write column, or
from the read column where that one is NULL or empty. The account has a role, a
password and a status; while the gateway serves, its password may be changed and
the account disabled and enabled (`UpdateStatus`, by an administrator or by who
has `ADMIN_TOKEN`), which `disabled` remembers. A start gives the role and, where there is none, a
password, but does not enable a disabled account: with `admin` disabled and no other
administrator, only `ADMIN_TOKEN` (`internal/api/admin.go:62`) is left. `Exit` is whatever ends the
process.

**Statements.** A statement is the tree the parser's library makes of it, as the
sequence of its nodes: the parts of a node come before it, and the last node is
the statement (`IsTree`). `Inspect`, `Authorize` and `Rewrite` are the three
decisions of `Execute` before anything is sent. `Walk` is the library's: it goes
on to every part of a node, but of a UNION, which has an ORDER BY and a lock of
its own, only to the left and the right. `Meaning` says, independently of the code, what the target makes of a tree: each node
contributes columns, by name, and for each the base columns it depends on, or the
forbidden thing it does (`Contribution`); a forbidden thing where the guard does
not look is `Unseen`. The properties compare the meaning of
the text with the verdict and with the meaning of the tree that is sent. `Shown`
is the arithmetic of partial masking. `MCStatements` writes statements as nested
records and flattens them.

**Grants.** An `Op` is one request of an administrator: a statement that writes
and one that reads back. `HolderOf` is the unique key `uk_grant`, which covers
revoked rows. A row remembers the request that wrote it, in place of its terms.
`VisibleResources`, `ListPrincipalAccess` and `TestAuthorization` are three
readings of the same rows.

**Connections.** A request is the list of what it has yet to do with the pools:
statements, rows or transactions it opens, and their ends. `Fail` replaces the
list by what is deferred and, for a query, its audit. `database/sql` promises no
order among those who wait, nor does `Take`.

**Audits.** A row's identifier is its position; it becomes visible when its
INSERT commits, in any order. Rows of earlier releases, several for a request,
may be there. The console asks for the next page until the last.

## 3. The runs

| run | instance | shows |
| --- | --- | --- |
| `registry` | 2 calls, 2 administrators, 2 versions of one resource; 0.7 M states | types, nothing closed or old is cached, no leak, one pool per configuration and generation, justified refusals; every behaviour is one of `PoolCache`; calls return, pools out of the cache are closed |
| `query` | 1 request of any kind, 2 policy changes, store faults, crash; 1.2 M | authorized again, masked by current rules, within the write limit, truthfully audited; every behaviour is one of `Answers`: nothing reaches the target before its row is written and its first authorization, reason included, is complete, what is released stays released, a row gets one outcome; requests and their transactions end, audits settle |
| `query_describe` | 1 `DescribeTable`, 1 change | **violated**, see 5 |
| `statements` | selects, joins, unions and writes with one level of nesting, 6 sets of rules; lists of up to 2 grants; 123 k | the guard refuses exactly what is forbidden where it looks; no masked value is revealed, unless by the ORDER BY of a UNION; the rewrite is transparent; merging equals its declarative reading, another grant never loosens, caps hold |
| `accounts` | 3 requests of any kind, store faults; 3.0 M | old passwords are shut out, only a race restores a status, revoked tokens are refused |
| `accounts_disable` | updates and calls, no faults | **violated**, see 5 |
| `resources` | 3 requests of any kind, 3 versions, store faults; 3.8 M | no lost update, rows from current settings, changes retire pools, tests connect afresh |
| `resources_old` | 1 update, 1 query | **violated**, see 5 |
| `startup` | every earlier schema, up to 3 faults; 354 k | schema in step with its record, what is served, own password kept, comes up unless half done |
| `grants` | 3 requests of any kind, 1 earlier grant, 1 resource, 2 actions; 0.7 M | revocations hold, replies say what was written, lists show what queries may do |
| `connections` | 3 requests of any kind, one connection per pool; 0.4 M | one order of pools, every connection returned, every request ends |
| `audits` | 4 requests, up to 3 earlier rows, pages and sizes around both limits; 1.1 M | nothing skipped, each request once and in its last state |

*Bounds.* Two calls are enough for most situations the registry's code names:
one flies, the other waits or finds the entry; two administrators give an
invalidation during another's closing, or during `Close`. A larger number adds
nothing to the safety properties, as the theorems show, which have no bound. Two
policy changes let a policy be withdrawn and restored within one query; changes
are made while the request is under way, and grants are given for `query_read`
and `query_write`, the latter two only to bound the run. Two requests do not
interact in `Query`, except through the registry and the pools of connections,
so one suffices. In `Accounts`, `Resources` and `Grants` each property speaks of
two requests and a third disturbs them. Three requests and one connection of
each pool give every circle of waiting that two pools admit. Statements are
nested once: `Inspect` and `Rewrite` treat a node alike whatever it is in, unless
that is the ORDER BY of a UNION, which the run has by itself and in a derived
table; the theorems have no bound on depth.
Lists of two grants, and a third that is added to them, are all that a principal
may have on a resource, one for each action. Three faults in `Startup` interrupt
a start, its successor and the one after. `MaxVersion`, `MaxChanges`,
`MaxAffected`, `MaxOld`, `MaxKept` and `MaxFaults` are the only bounds on
counters; at `MaxVersion` requests in `Resources` wait, which `Quiet` admits.
Symmetry is used only in runs of safety properties, over requests. `statements`,
`grants` and `audits` switch the deadlock check off because a statement, the
requests and the walk come to an end; the other modules name their final states
in `Quiet`, and `Startup` has none.

*Fairness.* `Registry` assumes that a goroutine that can run does, and that
`Connect` and `Ping` end, which they do by `DialTimeout` and the ping's own
timeout. It assumes nothing of contexts, administrators or time. `Query` assumes
that requests go on: the target under the statement timeout, `auditFailure`
under its two seconds; the reads of the store and the final audit have no
timeout of their own, so there it is an assumption about the store. A store that
refuses the update, or a crash, leaves RECEIVED for good: `AuditSettles` excepts
exactly these. `Connections` assumes that a request takes a connection that
stays free and that statements end, but of no wait that it runs into a timeout:
the final audit of a read has none. `Startup` assumes the restarts that `docker-compose.yml` asks
for, a store that answers in the end, and that faults stop (`MaxFaults`).

## 4. The proofs

`RegistryProofs` proves for any sets of calls, administrators, configurations
and resources, from `ResourceOfAssumption` and `NoAdapterAssumption` (nil is no
adapter), that the registry keeps

* its types (`TypeCorrect`),
* `CacheIsSound` (`TheCacheIsSound`),
* `NoLeak` (`NoPoolLeaks`),
* `OnePool` (`ConnectsCoalesce`),
* `ReleasedForAReason` (`RefusalsAreJustified`).

None of these is inductive as it stands: whether the next insertion keeps the
cache sound depends on what the flights hold. The invariant `IInv` adds what
each location of the code knows. An adapter is *known* once its flight has
cached it. `CallShape`: what a call holds or waits for has the call's
configuration and generation, and an adapter it holds is known. `FlightShape`: a
flight that is about to insert or abort holds an open pool nobody else knows,
and one that ends returns a known adapter of its own configuration and
generation, or an error with its reason. `AdapterShape`: what is cached or
waiting to be closed is known. `WhyNotCached`: a known adapter that has left the
cache did so because the registry was closed, the generation moved on, the pool
was closed, or a call is about to close it. `OneFlight` is what `singleflight`
gives, and `ConnectsWhenNeeded` what the registry makes of it: a flight whose
generation still counts connects only while its configuration has no adapter,
because it looks at the cache once more before it does. From these two and
`WhyNotCached` follows `OnePool`: of two open pools of one configuration and of
the current generation, at most one is cached, one that was cached and is no more
failed its ping, and one that is not cached yet belongs to the one flight. There
is one lemma for each conjunct
of `IInv`, with a step for each action that can disturb it; `Invariance` puts
them together, and the theorems follow from it.

The same module proves `RegistryKeepsPromise`: under the mapping of
`Registry`, initial states map to initial states of `PoolCache` and every step
to one of its steps or to a stutter. `FlightInsert` maps to `Publish`,
`RemoveIfCurrent` to `RetireFailed`, `Invalidate` and `Close` to
`RetireResource` and `Shutdown`, a successful `DatabaseReturnError` to `Answer`,
every error to `Refuse`, and the rest to stutters. The argument needs `IInv`,
mainly that a cached pool is of the current generation.

`PolicyProofs` proves of `Grants`, for any sets of requests, earlier grants,
principals, resources and texts, from `GrantsAssumption` (the identifiers of requests and of
earlier grants differ, and an absent identifier is none of them), that
`RepliesAreTrue` holds (`RepliesTrue`) and that every step keeps
`RevocationHolds` (`RevocationsHold`). Neither follows from the state alone.
`IInv` adds `OneGrantEach`, the unique key of the table, which the statements of
upsert and edit each have to respect in their own way; `RequestShape`, what a
request has validated and when its own identifier can be in the table;
`AuthorShape`, that a grant in effect is still the one its last writer asked
for, so that a refused request cannot have left one; and `EditShape`, that an
edit which changed no row finds its grant afterwards only if it was revived.
`WriteKeeps` is the common part of upsert and edit, `UnwrittenKeeps` that of
every step that only answers.

Its second part is about `Authz` and has no state. For lists of
grants of any length it proves what `Evaluate` computes
(`DecisionIsMostRestrictive`, and `AccessIsMostRestrictive` in the words of
`README.md:72`), that a further grant never loosens a decision or the limits
derived from it (`FurtherGrantNeverLoosens`), and that the limits keep every cap
that is set, for grants as `validateGrant` admits them (`LimitsKeepEveryCap`:
a row limit of zero in a grant would leave a query no row).
`ShownActionsAreUsable` then proves `ShownIsUsable`, that the lists and the test
of an authorization agree with what a query may do.

Its third part is about `Statements`: the six properties of the run `statements`,
for trees of any depth and any shape the grammar admits, any tables and views, any
rules, and any grants, from `TablesAssumption`, `CasesAssumption` (the cases are
trees, and no rule names a forbidden thing) and `GrantAssumption`. The theorems
say what the code does, and so except what it overlooks: `InspectTellsHarm` speaks
of the forbidden things other than `Unseen`, and `MaskedStaysMasked` of statements
that read nothing where `Rewrite` does not come (`Overlooked`). `StatementInv`
says what the state must remember: the verdict is that of `Acceptable`, and what
is sent is the text or its compiled form. The rest is about trees.
`Contributions` is a recursive function, as is `Reached`, what a walk visits below
a node (`VisitedFromTheLast`), and `FromTheParts` and `UpToTheLast` are
its two inductions: what passes from its parts to a node holds of every node, and
what passes from a part to the node it is in reaches the statement. `OfItsParts` is the
heart of two theorems: a node reveals only what its parts reveal and its own
(`Own`), and of these everything forbidden. The first half gives
`SentStaysMasked`, since no node of a compiled tree has a masked column of its own
(`OwnNotMasked`), and one direction of `HarmIsRefused`, since no node of an
accepted statement does anything forbidden (`AcceptableIsHarmless`); the second
half gives the other direction, since the nodes `Inspect` refuses do
(`RefusedForHarm`). It needs that every source has a column (`ColumnsNeeded`): a
table without one would hide what stands beside it. `SentMeansTheSame` compares
the two trees node for node (`SameOfEachNode`): the same columns and names, so
every reference finds what it found, and the same values but for what is masked.

`ConnectionsProofs` proves `OrderOfPools` (`PoolsInOrder`) for any number of
requests and any sizes of the pools, from `ConnectionsAssumption`. It is not
enough to look at the connections: the invariant says of the steps a request has
yet to take (`PlanShape`) that nothing goes back to the target once rows are
open or a transaction has begun, and of what it keeps (`KeptShape`) that the
step which returns it is still to come, before the same pool is needed again.
Both survive dropping the first step (`TailKeepsPlan`, `TailKeepsKept`) and the
way out after an error (`FailKeeps`), where the audit of a failure takes a
connection of the store: it can, because queries keep none (`QueryShape`).

`QueryProofs` proves `TypeOK`, `AuthorizedAgain`, `CurrentRulesApplied` and
`AuditIsTrue` for any set of requests of any kinds, any number of policy
changes, any limits and faults, from `QueryAssumption` and the assumptions of
`Authz`. The properties speak of the end of a request; the invariant says for
each of its steps what it has found by then. `RecheckShape`: at each statement
of the second authorization, the conditions found so far held at moments in
order, all after the statement ran. `ReadShape`: the rules were read after the
resource and before the statement, a write found none and kept to the limit it
had read. `HistoryShape`: of two states of the policy with one version, rules
and limit are the same, so the comparison of versions at the end carries over to
everything in between. `TxShape` and `AuditShape` say which steps leave a
transaction or the word RECEIVED behind, on the error paths and after a crash.

The same module proves `ServiceImplementsAnswers`. Here `IInv` is not enough: it
says nothing of the first authorization, on which no property of a finished
request depends. `PInv` adds `FirstShape`, what that one has found since the
resource was read, and is inductive as well (`PInvInvariance`). `CheckGrants`
maps to `Admit` in the first round and to a stutter in the second; `RunRead` and
`RunWrite` map to `Run`, also when a write is refused for its rows; a commit maps to
`Commit` even if its answer is lost; `FinalAudit` maps to `Deliver` or, after a
write, to `Settle`; `AuditFailure` maps to `Settle`; errors, and the crash of all
requests at once, to `GiveUp`.

`AccountsProofs` proves `TypeOK`, `OldPasswordsAreShutOut`,
`OnlyRacesRestoreStatus` and `RevokedTokensAreRefused` for any set of requests of
any kinds, from `AccountsAssumption`. `SessionShape` carries the first through
the time between the write of a password and the deletion of sessions: from the
deletion on, every session, there or about to be inserted, rests on the new
password or was about to be inserted at that moment. `StatusShape` is the second
for an update that has read and not yet written. `TokenShape` says that a token
that was handed out is not inserted again.

`ResourcesProofs` proves `TypeOK`, `NoChangeIsOverwritten`,
`RowsFromCurrentSettings` and `ChangesRetirePools` for any set of requests, any
number of versions and a store that may fail, from `ResourcesAssumption`. It uses
`PoolCache` and nothing of `Registry`: what the registry must keep for these
properties is `PoolShape` and `AnswerShape`, that whoever is given a pool has
read the settings it was made with, even the pool that comes too late
(`OldSettingsLeaveTheCache` below); `OlderShape` says when the pools of before
are retired.

`StartupProofs` proves `TypeOK`, `SchemaFitsRecord`, `ServesWhatItNeeds` and
`OwnPasswordStays` for any number of faults. `ServesWhatItNeeds` rests on
`AccountShape`, what the backfill has made of a resource by the time its version
is recorded, and on `AdminShape`, that nothing but an administrator touches the
status of an account. `SchemaFitsRecord` is not inductive:
the invariant `Progress` ties the position in the loop to what is recorded and
to the schema after so many statements, and admits the one statement that may be
repeated, the table of versions. Of the list of migrations the proofs use four
facts (`Statements`), so that a further migration breaks none of them unless it
breaks one of the four.

`AuditsProofs` proves `NothingIsSkipped` and `OneStatePerRequest` for any number
of requests, rows of earlier releases, pages and sizes, from `AuditsAssumption`.
`RowShape` is what inserts and updates owe to the list: only the newest row of a
request has an outcome, and a row that is not yet visible is the only one of its
request. So whatever a request writes only adds rows to the list (`ListGrows`),
and a row's place in it only grows. `WalkShape` says that what a walk has not
shown stands behind the rows it has passed, and that the list exceeds its COUNT
by the rows that came since. On the last page these rows are all that is left,
by the arithmetic of pages (`PagesCover`, `PageIsThere`) and a count of places
(`AheadAreFew`).

*Induction over data.* `Evaluate` is a fold; `After` of `Startup` and
`Contributions` of `Statements` are recursive functions. The library's induction
theorems take an operator as a parameter, which the provers cannot instantiate;
but `WFMin`, that a non-empty set has a minimal element, takes a set. From it follows the least-number principle
(`LeastNumber`, `Least`), and a proof by induction becomes one about the least
number at which the claim fails (`Folding`, `AfterDefined`, `ContributionsDefined`,
`FromTheParts`).

*What the proofs changed in the models.* `NextAfterGrants` of `Query` was a CASE
whose arms overlapped: TLC took the first, the proof could not know which. It is
now nested conditions in the order of the code. `Authz` assumes that `MinTimeout`
is above zero, as the 100 ms of `effectiveTimeout` are: with a floor of zero, the
zero of a resource, which means no limit, would be one. `Audits` states the order
of the list by the place of a row (`Place`) where it sorted a sequence. `Statements` had
nested records and operators that recurse over them, which no theorem can be about;
its trees are now sequences of nodes, which admit parts that two nodes share and
any depth.

*Only proved.* The run `query` does not repeat `TypeOK`, which `QueryTypes` proves: its
interesting part, that an audit row holds one of the outcomes and goes through no
others, is part of `ImplementsAnswers`.

*Only model-checked.* Liveness under fairness (`CallsReturn`,
`OrphansAreClosed`, `RequestsEnd`, `AuditSettles`, `ComesUpUnlessHalfDone`) is
out of the prover's reach, as ENABLED is. Every safety property of every passing
run is a theorem.

## 5. What the code does not do

* **`DescribeUsesCurrentRules`** (`query_describe`). `internal/control/masking.go:34`
  says that a new version invalidates reads in flight under the old policy. For
  `Execute` it does (`CurrentRulesApplied`). `DescribeTable` reads the rules once
  (`service.go:106`), then the columns, and has no second authorization.
* **`DisablingStopsCalls`** (`accounts_disable`). `docs/security.md:5`: disabling an
  account stops new requests at once. A reset that asks for no status writes
  back the one it has read (`admin.go:119`, `140`). When a disable falls between
  the two, the account is active again. The console sends exactly such requests
  (`web/src/features/admin.tsx:227`, `239`). `OnlyRacesRestoreStatus` shows that
  nothing but this race does it.
* **`OldSettingsLeaveTheCache`** (`resources_old`). `docs/security.md:9`: updating a
  resource makes its old pools invalid. `Get` takes the generation of its own
  moment (`registry.go:116`), not of the moment the row was read, so a request
  that is between the two during an update caches a pool with the old settings
  and nobody removes it. No rows come from it (`RowsFromCurrentSettings`): the
  second authorization compares versions.

The guard and the rewrite do not look at all of a statement. `internal/api/mcp.go:104`
and `docs/security.md:7` have locks, dangerous functions and access to other
databases refused, and `docs/masking-and-mcp.md:41`-`43` has UNIONs and sorting
read processed values only. But a UNION has an ORDER BY, a LIMIT and a lock of its
own, the parser's `Walk` visits only its left and right (`Followed`), and
`guard.go:76` looks for a lock in a `*sqlparser.Select`. So

* `SELECT ... UNION SELECT ... FOR UPDATE` is accepted, and locks;
* a denied function, a locking subquery or a table of another database in the
  ORDER BY of a UNION is accepted;
* a table there is not replaced by its masked form, nor a function checked, so
  that the order of the rows may depend on values the rules mask;
* a function of another database (`otherdb.fn()`) is accepted on a resource
  without masks, for `guard.go:93` reads the name and not its database; with masks
  `masking.go:109` refuses it.

These are in the model: `InspectTellsHarm` and `MaskedStaysMasked` hold because
they except them by name (`Unseen`, `Overlooked`), and fail without the exceptions.

Two more places answer with a message that is not quite so, and the properties
except them by name. An edit that moves a grant to a subject whose grant was
revoked is answered "grant conflicts with an existing authorization"
(`internal/api/admin.go:393`), although no list shows the other grant: `uk_grant`
covers revoked rows, and `EditWrite` refuses whenever `HolderOf` finds one. And
an upsert whose body brings the identifier of a grant for another subject writes
that grant, reads its own subject back, finds nothing and answers "grant
references an unknown user or resource" (`admin.go:371`); `RepliesAreTrue` and
`RevocationHolds` say `req[o].id`.

## 6. What is not modelled

The parser's library and MySQL's own grammar: `Statements` has the nodes that
`Inspect` and `Rewrite` treat differently, and of a SELECT's own clauses one
condition, since `Walk` visits all of them; LIMIT, which is a
number to MySQL, is left out. Creation of principals and resources:
`CreateResources` inserts a batch in one transaction, and nothing depends on its
rows before it commits; when a read after the commit fails the handler answers
409 for rows that exist (`store.go:339`), and keys that differ in case only pass
its validation and collide in the database. Lists of principals, tokens and
resources, which only read. The draining of the HTTP server: `main.go:92` returns
as soon as `Shutdown` begins, so the registry and the store are closed while
requests still run, which to a request is the crash that `Query` has at any
moment and to the registry a `Close` at any moment. Several gateways on one
control store, which `README.en.md:232` leaves to a lock that is not there;
several accounts or resources at once, which share no row; deadlocks and
isolation inside MySQL, where one statement is one step. Cryptography, secrets,
configuration and the console have no behaviour of their own over time.

## 7. The plan

1. *Done:* `Registry` and its promise; `Authz`; `Query`; `Accounts`; `Resources`
   over `PoolCache`; `Startup`; `Statements`; `Grants`; `Connections`; `Audits`;
   the safety properties of all of them and both refinements proved.
2. Several requests of `Query` over one registry, with `PoolCache` in place of
   `GetPool`: the theorems of `QueryProofs` hold for any set of requests, and
   those of `ResourcesProofs` for any set of pools; what is missing is one module
   in which both meet, `Answers` over `PoolCache`.
