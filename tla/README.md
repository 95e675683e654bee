# OpsFlow-MS: TLA+ models, checks and proofs

OpsFlow-MS is a multi-tenant back office for cash movements: a NestJS API over Prisma and
PostgreSQL, optionally with Redis for rate limits. This directory holds TLA+ models of its core, TLC
runs over small instances, and TLAPS proofs for every instance. Paths below are relative to the
repository.

## 1. The system

A request passes `JwtGlobalGuard` (which calls `JwtStrategy`: one read of the user, one of the
roles), then `PermissionsGuard` (both reads again), then a controller and a service that reads and
writes tables. Node runs one handler at a time, but every `await` lets another request in. Nothing
in the code uses row versions, `SELECT ... FOR UPDATE` or a raised isolation level, so PostgreSQL
runs everything at READ COMMITTED: each statement sees what is committed when it starts, and only
writes lock rows. Hence the models' grain: **one action per database statement (or per synchronous
stretch of code), any other request's action in between**.

| Component | State | Operations | Hard behaviour | What makes it correct |
|---|---|---|---|---|
| Cash movements (`src/cash-movements`) | `CashMovement` rows | create, list, approve, reject, deliver | status and scope checked awaits before the write | tenant isolation, branch scope, workflow, signatures agree with status |
| Branch access (`src/branches/branch-access.service.ts`) | none | resolve a branch for create or filter, assert access | foreign id must look missing | only own organisation's branches; own branch when scoped |
| RBAC (`src/common/rbac`, `auth-context.util.ts`) | tables filled by the seed | role to permissions, runtime role | two reads of user and roles | deny-low precedence |
| Auth sessions (`src/auth/auth.service.ts`) | `User.password`, `AuthSession`, `PasswordResetToken` | register, login, refresh (rotation), logout, forgot, reset, change | transactions and row locks racing each other, aborts | rotation is atomic, a password change ends sessions, nobody waits for ever |
| Login lockout (`login-attempt.service.ts`) | failure counters and locks per ip and e-mail, in memory or Redis | assertNotLocked, recordFailure, recordSuccess | check, compare, record are separate; time windows | bounded guesses, locks end |
| Rate limiting (`rate-limit.guard.ts`) | counters per key, memory or Redis | canActivate | fallback to memory for good, several processes | bounded admissions per window |
| Guards, interceptors, audit (`src/common`, `src/audit`) | `AuditLog` rows, in-process counters | guards, rate limit, two interceptors around the handler | the audit INSERT is not awaited, its rejection stops the process | metrics and audit entries count the same requests |
| Users administration (`src/users/users`) | `User`, `UserRole` rows | create, update, remove | roles deleted and inserted by two statements | a user keeps at least one role, and one requested set of them |
| Branches administration (`src/branches`) | `Branch` rows | create, update | unique code under races | tenant isolation |
| Cashflow statistics (`src/cashflow`) | none | getStats | six statements of one transaction, each with its snapshot | totals agree with one another |
| Seed (`prisma/seed.ts`) | roles, permissions, grants, demo organisation, users, movements | a script run by hand | not one transaction: it stops anywhere, runs again with another configuration, the service is in use | it converges, takes nothing away on the way, writes only legal movements |
| Error filter, log lines, health, configuration, bootstrap, scripts | none | formatting, reading, wiring | - | - |

Interaction: movements and users refer to organisations and branches; the guards read what users
administration writes; sessions are bound to users; the lockout and the rate limit sit in front of
login and can refuse a request before it reads anything; the seed writes the tables all of them
read.

## 2. The modules

| Module | Models | Notes |
|---|---|---|
| `Rbac` | roles, permissions, role map, `resolveRuntimeRole` | pure operators |
| `BranchAccess` | `BranchAccessService` | pure operators from a context, a requested branch and the branch rows to a branch or an error code |
| `CashMovements` | guards, `CashMovementsService`, its repository, and administrators' changes to users, roles and branches | extends `BranchAccess` |
| `MovementWorkflow` | abstract: the documented workflow as atomic operations | refined by `CashMovements` with one request slot |
| `CashMovementsProofs` | TLAPS | safety, refinement of `MovementWorkflow` |
| `AuthSessions` | `AuthService`: sessions, passwords, reset tokens, with PostgreSQL's row locks and transactions | |
| `SessionLife` | abstract: sessions as atomic operations | refined by `AuthSessions` with one request slot |
| `AuthSessionsProofs` | TLAPS | safety, refinement of `SessionLife` |
| `LoginAttempts` | `LoginAttemptService` with both stores, and the login that calls it | time as ages and countdowns |
| `LoginAttemptsProofs` | TLAPS | safety, for both stores |
| `Administration` | `UsersService`, `BranchesService`, their repositories and guards | extends `Rbac` |
| `Directory` | abstract: a directory of users and branches that is consistent after every step | refined by `Administration`, but for the failure of finding 3 |
| `AdministrationProofs` | TLAPS | safety, refinement of `Directory` |
| `RateLimit` | `RateLimitGuard` in several instances with Redis | used by `RequestPipeline` |
| `RequestPipeline` | a request through guards, rate limit, interceptors and handler, its audit entry, processes that stop | extends `RateLimit`, which it also refines |
| `RequestPipelineProofs` | TLAPS | safety, refinement of `RateLimit` |
| `CashflowStats` | `CashflowService.getStats` composed with `CashMovements` | extends `CashMovements` |
| `CashflowStatsProofs` | TLAPS | extends `CashMovementsProofs` |
| `Seed` | `prisma/seed.ts` beside the service's changes to the same rows | extends `BranchAccess` |
| `SeedProofs` | TLAPS | safety, what a run leaves |
| `NumberLemmas` | TLAPS | induction over numbers by sets; recursive functions; used by `LoginAttemptsProofs` and `SeedProofs` |
| `MC...` | the TLC instances of `CashMovements`, `AuthSessions`, `LoginAttempts`, `Administration`, `RequestPipeline`, `CashflowStats`, `Seed` | symmetry where there is no liveness |

### CashMovements

`request[r].pc` names the next step of the request in slot `r`; the other fields are the local
variables of the handler: the branch and role of `req.user`, the status read, the resolved branch
scope, the page read. `ReadUser`, `ReadRoles` are the two queries of `jwt.strategy.ts`, `GuardUser`,
`GuardRoles` those of `permissions.guard.ts`. The handlers follow the awaits of
`cash-movements.service.ts`: `ResolveForCreate`, `Insert`; `FindMovement`, `CheckAccess` (branch
access and the transition validator, no write in between), `WriteStatus` (an UPDATE by id that
re-checks nothing); `ResolveForFilter`, `ListItems`, `CountItems`, `Reply`. Rows have no order in
the model: a page is any few of the rows that match, at most `PageSize`, so that it may be any page
of any order, the partial last one or one past the end included. `Abort` ends a request at any
await. `UpdateUser`, `DeleteRoles`, `CreateRoles`, `SetBranchActive` are what users and branches
administration change meanwhile; roles are deleted and inserted in two steps, as in
`users.service.ts`. `passed` is history. An amount is only valid (positive) or not.
`BranchAccessible` and the resolve operators stand for the one lookup of the branch row that the
service awaits; the lookup of a branch whose organisation never changes commutes with everything but
`SetBranchActive`.

### AuthSessions

`account`, `session` and `token` are the tables; `lock` maps a user or session row to the request
whose transaction holds it. Reads take no lock. `Refresh` is the read and check, `RotateInsert`,
`RotateUpdate`, `RotateCommit` the transaction of `createSession`; the uncommitted row is "pending"
and invisible. `RotateUpdate` waits for the row of the old session and rolls back (Prisma's P2025)
if it is gone. `SetPassword`, `DeleteSessions`, `LockSession`, `CommitPassword` are the transactions
of `changePassword` and `resetPassword`: DELETE fixes the rows it has to delete when it starts and
then waits for each; a row committed after that is not deleted. `Abort` stands for an error, a
crash, or a refusal by the lockout or the rate limit, and rolls back. Passwords are numbered, so a
"wrong" password is an old or another number. `parent`, `credential`, `earlier` and the count in
`uses` are history. Tokens are genuine: a forged one is `None` and refused at once; bcrypt's
comparison of a genuine token with its own row succeeds, so the reuse branch of `refresh` has no
state to be reached in, which `session_reuse` demonstrates.

### LoginAttempts

`attempts[k]` is what the Map holds of a key: the failures, the `age` of the last of them and what
is left of a `lock`. `redis[k]` stands for the two Redis keys: the counter with its `ttl`, which
`PEXPIRE` sets once, and the lock. `redisEnabled` is chosen by every start of the process, as in
`onModuleInit`. `Check`, `Compare`, `Succeed`, `Fail`, `Recheck` are the awaits of
`AuthService.login`; the service's own methods are synchronous on the Map and one call on Redis. A
Redis call uses a clock read before its await: `lag` is how stale that clock is, in a request, and
how much earlier than its key the stored `lockUntil` ends, in `redis`. `Sweepable` and `Swept` are
the periodic clean-up. `guesses` is history: when failures were recorded since the last lock ended.
Ages saturate and locks count down, so time needs no horizon. `MaxLag` bounds how long a Redis call
takes: less than the shortest lock (seconds against milliseconds), or a lock could be over before it
is stored.

### Administration

`user` holds the `User` rows with their `UserRole` rows, `branch` the branches. `Arrive` is
`JwtStrategy`, `Authorize` is `PermissionsGuard` with both of its checks: the permission, and the
role where the controller has `@Roles` (`RequiredRoles`). `create` is `Prepare` (role check, look-up
of the e-mail, `loadRoles`: no write between them), `ResolveBranchId`, `InsertUser` (a nested
create, atomic in Prisma); `update` is `AssertCanAccessUser`, `ResolveBranchId`, `WriteFields`,
`DeleteRoles` (with `loadRoles`, whose table never changes), `CreateRoles`, `ReadBack`; `remove` is
`Deactivate`. A unique index shows as a disjunct of the writing action that answers without writing.
`AbortAt` names the steps at which an instance lets queries reject. The mapping to `Directory` hides
a role replacement that is half done: `removed` is history for that.

### RateLimit and RequestPipeline

A store is Redis or an instance's own Map; both count in fixed windows, so `Counted` is one
operator. `redisEnabled[p]` becomes FALSE with the first call that rejects and TRUE again only by a
restart. A call that fails may have run its script. A client address, method and route are one key.
`admitted` is history: `admitted[s][k][i]` counts what store `s` has let through of key `k` in the
last `i` ticks and the current one.

`RequestPipeline` puts the guard where `app.module.ts` and the controllers put it. `Unauthorized` is
a refusal by the first two guards, `ArriveLimited`, `RedisAnswers` and `RedisRejects` the rate
limit, `Handle` pipes and handler inside the two interceptors (both taps see a result as well as an
error), `AuditStored` and `AuditRejected` the two ends of the audit INSERT, which the client does
not wait for and whose rejection nobody handles, so that Node stops the process. `Stop` ends a
process with its requests and everything it kept in memory and starts it again. The module is about
mutating requests: reads are counted by the metrics but not audited, by construction. `metrics` and
`auditLog` count each process's requests since its start modulo 2, so that one too many or one too
few shows.

### CashflowStats

`stats` is one request; `pc` counts its statements. Every `CashMovements` action may come between
two of them. An aggregate is kept as the set of rows it has seen, from which sums and counts follow.
`inRange` abstracts the date range to the rows whose `createdAt` lies in it, any set of rows, those
yet to be inserted included: `to` may be in the future, and an INSERT that is under way may commit
between two statements with a `createdAt` before `to`. `present` is history: the rows there when the
request arrived, of which `CardsAgree` says that they are summed up if they are counted. (A row
inserted after the sums may be counted only.)

### Seed

A configuration (the environment) becomes a `Program`: the statements of `main` in their order.
`run` is the place in it (`pc`, and `step` within `ensureUserWithRole`, whose three statements are
actions of their own). `Start` and `Stop` come at any time, with any configuration, on a database
that earlier runs have left in any state, and with grants of an older role map. Beside it the
service makes the changes that touch the same rows: `CreateUser`, `UpdateUser`, `DeleteRoles` and
`CreateRoles` (the two statements of a role edit), `DeactivateBranch`, `RejectMovement`.
`undisturbed` says that none of them fell into the current run; `edit` is a role edit half done.
Demo users and movements are built as in the source, down to the index that picks a movement's
status, creator and approver, because `SeededMovementsLegal` is about them. `Chosen` is the filter
of the source, as a recursive function. The codes of the demo branches are constants of the source,
of which `SeedAssumption` says that they differ from one another and from `SEED_BRANCH_CODE`, and
that none of them is `org`, which would give a branch manager the e-mail of the organization's
manager. `CheckEmails` is the throw for an equal `SEED_ADMIN_EMAIL` and `SEED_USER_EMAIL`: `main`
comes to it when default organization, branch, roles, permissions and grants are committed, which
is why it is a statement of the program that only `Stop` follows. One run at a time: the script is
started by hand.

`SeedConverges` asks for *at least* the rows and users of the configuration, and for *exactly* its
grants and movements. More would be wrong: the seed upserts branches and users and deactivates none,
so that after a run with three demo branches a run with two leaves the third one active, with its
manager and operators, although `docs/DEMO_TEST_USERS.md:23` and `:55-57` list exact sets.

## 3. The runs

| Run | Question | Bounds | States |
|---|---|---|---|
| `movement_races` | do stale writes ever break signatures or deliver the unapproved; does a total cover its page? | 2 movements, 2 slots, page of 1 | 1.1M |
| `movement_serial` | can a write or a listing leave its tenant or branch while an administrator moves users and roles; do the handlers implement the workflow; is every request answered? | 2 tenants, 3 branches, 3 users, 1 slot, 1 change, fairness | 88k |
| `movement_workflow_race` | *violated*: the workflow with 2 slots | 1 movement | - |
| `session_rotation` | is rotation atomic, how far can a session fork, from registration on? | 1 user, 4 sessions, 3 passwords, 2 slots | 82k |
| `session_password` | what do password changes end, does anything leak, is everyone answered although transactions wait? | 1 user, 2 sessions, 1 token, 2 passwords, 2 slots, strong fairness | 22k |
| `session_reuse` | *violated*: a rotated token revokes the sessions | 1 slot | - |
| `login_lockout` | how many wrong guesses, how long locks, what ends them, do they end? | 1 key, 2 logins, 3 failures, window 2, locks 2 to 32, calls up to 1, fairness | 88k |
| `pipeline` | how many requests get through, whatever Redis does; do metrics and audit agree whenever processes stop; is a refused client let through again? | 1 instance, 3 requests of 1 client, limit 2, window 2, fairness | 32k |
| `seed` | does the seed converge from wherever it stopped; does it take away grants or roles on the way; are its movements legal? | 3 configurations, 3 demo branches, 3 permissions, 1 change by the service | 2.3M |
| `admin` | do users and branches stay consistent under races and rejected queries; who may change whom? | 2 organisations, 2 users, 3 branches, 2 slots | 1.1M |
| `admin_roleless` | *violated*: a user has at least one role | 1 slot, rejected queries | - |
| `stats` | do the six aggregates agree and stay in the caller's scope? | 2 tenants, 3 branches, 2 users, 1 movement, 1 slot beside the stats request, 1 change | 1.1M |

**Bounds.** Two slots give every pairwise race, and each known anomaly needs no more; `Abort` and a
fresh `Arrive` let one slot run any number of requests while the other waits. One movement suffices
for the workflow because no handler touches two rows. Four session ids are a parent and three
successors, one more than `ForksBounded` allows for two slots. Requests arrive only while ids and
passwords are left for them (`RoomForCreate`, `Room`); administrators make at most `MaxChanges`
changes. In `login_lockout` the window is as long as the shortest lock, shorter than the others, so
that counters end during locks and locks during windows; with one guess less on the right-hand side
`GuessesBounded` fails in both stores, so its bounds are reached. `MaxLock` is out of reach: only
the failures themselves limit a lock there. `RateLimit` counts up to `Limit + 1`, which stands for
every refusal. With a limit of 2 and windows of 2 ticks a client that sends one request at the start
of a window and fills up its end and the beginning of the next gets 3 of them through in less than a
window: `AdmissionsBounded` (fewer than twice the limit) is reached, and with one less it fails. One
instance is enough for it: the bound is stated for each store by itself, Redis or a Map, and what
another instance does to the counter in Redis this one does after a restart, which takes it back to
Redis while the counter there is still running; the theorem is for any number of instances. Two
configurations of `seed` differ in everything that a second run may have to take back or add:
branches, operators, movements, and an e-mail of the environment that is also a demo user's; the
third has equal e-mails, and never ends. The three permissions are those
`SeededMovementsLegal` needs; an operator lacks two of them. `Administration` has one unused user id
and branch id; a clash of e-mails also arises between a create and an update. In `stats` one request
slot moves the movement, because with two the workflow race of `movement_workflow_race` lets a
movement go back from REJECTED to APPROVED and so be counted nowhere. `session_password` leaves out
logout, whose race with a rotation is in `session_rotation`.

`CHECK_DEADLOCK FALSE` stands in the two `Admin` runs: when every user is deactivated nobody can
call the service any more, and no endpoint brings one back without a caller.

**Fairness.** `movement_serial` assumes weak fairness of every request's next step: the event loop
resumes a handler whose query was answered, and Prisma answers or rejects every query (`Abort` is
not fair: it need not happen). `session_password` assumes strong fairness because a step that waits
for a row lock is disabled while another holds it; PostgreSQL queues waiters. `pipeline` assumes
that time passes and, weakly, that every request's step comes: a Redis call, a handler and an INSERT
end one way or the other. `login_lockout` assumes that time passes, too: in `LoginAttempts` that is
strong fairness of `Tick`, because `Tick` waits for Redis calls that have reached the bound
`MaxLag`; the calls themselves are weakly fair, as every Redis call is answered or rejected.

## 4. The proofs

The theorems hold for every value of the constants: any finite number of tenants, users, rows and
concurrent requests, any limits, times and configurations. They rest on the named `ASSUME`s of the
modules, which TLC evaluates on every run. Each argument has the same shape: hardly any property is
inductive, because what a request writes depends on what it read awaits ago; the invariant therefore
says of every request in flight what its reads still guarantee, and that other requests' writes
cannot take it away.

| Module | Theorems | Why it holds |
|---|---|---|
| `CashMovementsProofs` | `TypeOK`, `TenantIsolation`, `DeliveredWasApproved`, `SignaturesMatchStatus`, `ListedRowsInScope`, `WritesInScope` | the row a request found is its organisation's, the status it read is one the row has passed through, the branch it resolved is in scope (`RequestOK`); rows never move and `passed` only grows (`RowsEvolve`) |
| | `TotalCoversPage` | the rows of a page stay where they are and match the filter still when they are counted (`PagesOK`) |
| | `ImplementsWorkflow`, with one slot | also, the status read is still the row's (`FreshReads`) |
| `AuthSessionsProofs` | `TypeOK`, `NothingLeaks`, `RotationAtomic`, `RotationNeedsParent`, `PasswordEndsEarlierSessions` | where every session row comes from (`RowOK`), which transaction will release every lock (`LockOK`), what a request has locked and read (`RequestOK`); a row that is locked is deleted by nobody else |
| | `ForksBounded` | of one session, the successors there are and the requests that are still to commit one are together no more than the requests, because a session that has a successor is never live again (`ForksOK`) |
| | `SessionLife` is implemented, with one slot, aborts included | a live session was opened with the password its user still has; what was read is as it was (`SerialInv`) |
| `CashflowStatsProofs` | `StatsInScope`; of the rows the request found, the totals cover the counts | rows never leave their tenant or branch (`StatsOK`); every row the request found that is in range and in scope has been summed up once its type was asked for (`TotalsOK`) |
| | `CardsAgree`, with one slot beside the statistics | statuses are asked in the order movements pass through them (`CountsOK`) |
| `AdministrationProofs` | `TypeOK`, `NamesUnique`, `BranchInOrganization`, `ChangesAuthorized` | users and branches never change organisation nor disappear (`RowsStay`), so what a request looked up holds until it writes |
| | `ImplementsDirectory`, and that a user without roles is being edited, if no query rejects between the two statements of a role edit | every roleless user has an edit in flight that is about to write (`SettleInv`); without the assumption finding 3 refutes both |
| `LoginAttemptsProofs` | `TypeOK`, `GuessesBounded`, `LocksProportionate`, `LocksLast` | what a counter still knows bounds the guesses of its window and the lock, and only the logins that are past the check can add to either (`MapOK`, `RedisOK`) |
| `RequestPipelineProofs` | `PipelineTypeOK`, `TraceComplete`, types of `RateLimit`; `RateLimit` is implemented | the slots agree with the limiter about who waits for Redis (`PipelineOK`); for `TraceComplete`, requests whose entry is on its way make up the difference |
| | `AdmissionsBounded` | a counter knows what its own window has let through, the window before let through no more than the limit, and the request that opened it came too long ago to be of the same stretch (`AdmissionsOK`); shown for `RateLimit`, inherited by the refinement |
| `SeedProofs` | `GrantsKept`, `RolesKept` | what a statement does to one role or user does not depend on its place in the program; the role to keep is assigned before the others go (`SeedOK`) |
| | `SeedConverges`, `SeededMovementsLegal` | undisturbed, whatever a statement has done stays done, unless a later one writes the same user otherwise (`DoneOK`); a program writes every user of its configuration last (`ProgramFacts`) |

Some arguments need induction: over the length of a lock's exponent (`PowerOfTwo`), over how much of
a sequence has been filtered or flattened (`Chosen`, `FlattenSeq`). The library's induction theorems
take a predicate, which the provers cannot instantiate; `NumberLemmas` states induction over a *set*
of numbers instead, from the least element of its complement, and derives from it that a recursive
function exists and what it satisfies. What `SeedProofs` proves of a program is therefore proved for
programs of any length: `Statements` are all that may stand in it, `ProgramParts` is how it is
composed, `Settled` says that it writes a user and afterwards no other with that e-mail.

What the assumptions of these proofs say of the system: tables and requests in flight are finite
sets; the limits, windows and locks are positive, as `env.validation.ts` demands of those of the
login; no Redis call takes as long as the shortest lock (`MaxLag`, against the second that
`env.validation.ts` lets a lock be at least); the seed's constants are as described under Seed. The
bound of `LocksProportionate` differs between the stores as they do: over Redis a counter's window
starts before the lock it leads to, and a lock looks shorter by the length of a call.

Only model-checked, and why: every liveness property (`RequestsAnswered`, `RefusalEnds`,
`LocksEnd`), which is out of the prover's reach. Each safety invariant and action property of a
passing run is a theorem; where the theorem assumes one slot or no rejected query, the table says
so.

## 5. Findings

Each is a violation run; the counterexamples are short.

1. `movement_workflow_race`: approve and reject both read PENDING, both pass the validator, and both
   write: REJECTED becomes APPROVED, which `docs/RBAC_AND_SCOPE.md` excludes. `DeliveredWasApproved`
   and `SignaturesMatchStatus` hold nevertheless.
2. `session_reuse`: a rotated token is refused with 401 before reuse detection, so the revocation
   that `docs/AUTH_AND_SECURITY.md` describes does not happen.
3. `admin_roleless`: `update` deletes a user's roles and creates the new ones by two statements; if
   the second rejects or the process stops, the user has no role and every guarded endpoint answers
   403, against "User must have at least one role".

Behaviours that the models show and no document excludes: a login that compared the old password
before a password change inserts its session after the DELETE and stays signed in (hence
`PasswordEndsEarlierSessions` speaks of earlier sessions); two concurrent edits of one user's roles
can leave the union of both sets; a success that was being compared when a lock was set removes it
(`LocksLast` names it); fixed windows meet, so that up to twice the limit less one requests (over
Redis, also up to twice as many guesses) fit into a stretch of one window; a 403 for an unknown role
comes after the other fields of the update are written; a movement can be counted under two statuses
in one answer of `getStats`; two resets with one token that overlap both succeed, because `usedAt`
is checked before the hash and set after it.

Of the pipeline: what a guard refuses (401, 403, 429) is neither audited nor counted, while
`docs/BACKEND_TEST_PLAN.md` lists a test that expects an audit entry for a 401 or 403 (entries for
errors of the handler, such as a 404 or a wrong password, are written); a rejected audit INSERT is
an unhandled rejection and stops the process with all its requests.

Of the seed: an edit of a user's roles that falls between its statements can leave that user without
a role (hence `undisturbed` in `RolesKept`); two seeds at the same time would duplicate the demo
movements; an e-mail of the environment that belongs to a user of another organisation moves that
user; every run reactivates the users it names and sets their passwords without ending sessions, and
discards what the service has done to demo movements. One document does exclude what it leaves of an
earlier, larger configuration: `docs/DEMO_TEST_USERS.md`, as described in section 2.

## 6. Not modelled, and the plan

Left out on purpose, because no state changes there or only its layout: formatting and DTO mapping,
validation pipes (the bodies a model enumerates are those that pass them), JWT, cookie and CSRF
parsing, response headers, log lines, the Prometheus text, the error filter, health checks, the
parsing of the environment, module wiring, generators and deployment scripts. Reading endpoints
without a race (`findOne`, `findMe`, `getSession`, lists of users and branches) are left out too.
`Abort` in the modules stands for a query that rejects at that point; several queries of one step
are one step only if no write of another request could tell them apart.

Still to be done, in order of importance:

1. The context that `JwtStrategy` builds from two reads, user and roles, while an administrator
   edits both: how torn it can be, as a property of its own and not only through what requests
   write.
2. `BranchAccess` against a reference definition over all contexts, as a theorem.
3. `DeliveredWasApproved` together with who approved: that the approver of a delivered movement had
   the permission when it was approved.
