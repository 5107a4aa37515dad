# Verification of the multi-tenant SaaS backend

TLA+ models of the backend under `src/`, TLC runs that check them on small
instances, and TLAPS proofs for every value of the constants. Paths below are
relative to `src/src/` unless they say otherwise. `PROJECT.json` maps every
definition that models code to its lines.

To repeat a check or a proof:

    tlc -config audit.cfg MCAuditChain
    tlapm AuditChain_proof.tla

## 1. The system

An Express server in one Node.js process, PostgreSQL behind Prisma, Redis behind
ioredis, and BullMQ queues in the same Redis. A request passes the tenant
middleware (API key to user and tenant), the rate limiter, the permission check,
on write routes of users the audit hook, and then a controller, a service and its
repositories (`app.ts`, `routes/`). JavaScript runs one callback at a time, so
everything between two `await`s is one step, and anything may run at an `await`.
Nothing in the code opens a database transaction that spans two calls.

| Component | State it keeps | Operations | Talks to |
|---|---|---|---|
| Audit trail (`audit.service`, `audit.repository`, `audit.middleware`) | table AuditLog: per tenant a chain of hashes | log, verifyChain, list | called by the services (awaited) and by the response hook (not awaited) |
| API keys (`apiKey.service`, `apiKey.repository`, `tenant.middleware`, `auth.middleware`) | table ApiKey, timers in memory | validate, create, rotate, revoke, timed deletion | users (owner, cascade), audit trail, email queue, process life cycle |
| Rate limiter (`rateLimiter.service`, `rateLimiter.middleware`, `config/redis`) | Redis sorted sets per tenant and per key | check (a Lua script) | every request |
| Email queue (`config/queue`, `email.queue`, `email.worker`, `email.service`, `queueWorker`) | BullMQ jobs and locks, table EmailLog | add a job, take it, send, log, retry | users and keys add jobs; the server and the worker script take them |
| Users (`user.service`, `user.repository`) | table User | create, update, delete, list | audit trail, email queue, keys |
| Process life cycle (`server.ts`, `config/database.ts`, `config/env.ts`) | the environment, the listening server and its connections, the pool, shutdowns under way | start, connect, signals and stray errors, graceful and forced exit | timers of keys, every request and hook in flight |
| Tenants (`tenant.service`, `tenant.repository`, `base.repository`) | table Tenant | create, update, statistics | audit trail |
| Metrics, health checks, formatting | counters that are only read here | read | Redis, database |

### What is hard, and what makes each part correct

* **Audit trail.** `log` reads the newest row and inserts the next one without a
  lock, from requests and from hooks nobody awaits; readers page through rows that
  are still being added to. Right is: every row hangs under a row of its own tenant;
  calls that do not overlap build one chain that `verifyChain` accepts; a change of a
  stored row is found at its place; pages neither repeat nor skip a row.
* **API keys.** A request holds a key's row across bcrypt and several calls while
  the key is rotated, revoked, deleted by a timer or taken along with its owner;
  rotation is two writes without a transaction; timers die with the process.
  Right is: no key without an owner, no rotation that leaves nobody a usable key,
  no deletion of a usable key, no key that comes back.
* **Rate limiter.** A stamp is taken before the script is queued and used when
  Redis gets to it; scripts whose reply was lost are sent again. Right is: sets
  bounded by their limit, no tenant charged for another, every request goes on.
* **Email queue.** Mails go out before they are logged, answers get lost, locks
  run out while a worker is still at it, workers die. Right is: a bounded number
  of mails, an honest log, one final outcome for each job.
* **Users.** Search and insert are two calls; the row, its audit entry and its
  invitation are three; previous values are read before the write. Right is: no
  unexplained duplicates, entries that retell what happened, nobody left without
  an invitation unnoticed.
* **Process life cycle.** Signals and stray errors arrive at any time and any number of
  times; the shutdown waits for connections that kept-alive clients go on using; the
  database module disconnects beside it; ending a pool twice is an error that starts
  another shutdown. Right is: a process told to stop exits, code 0 means that it was
  told once and cut no request that still had its connection, and further signals cut
  nothing that the first one waits for.

The complete list of hazards, each at its line with the properties aimed at it, is
`hazards` in `PROJECT.json`.

## 2. The modules

Each component is one module over the tables it owns; the requests, calls or
workers in flight are explicit local state (`requests`, `calls`, `slots`) whose
`step` names the awaited call in progress. An action is what runs from one
`await` to the next. Definitions under a comment that begins with `Bug:` are
variants of the definition that follows them, used only to show that a property
notices such a change.

| Module | Models | Abstract specification | Instance | Proofs |
|---|---|---|---|---|
| `AuditChain` | the audit trail | `HashTree` | `MCAuditChain` | `AuditChain_proof`, `Verdict_proof` |
| `ApiKeys` | API keys with timers, owners, process stop and restart | `KeyLifecycle` | `MCApiKeys` | `ApiKeys_proof` |
| `RateLimiter` | both windows, the script, the connection | | `MCRateLimiter` | `RateLimiter_proof` |
| `EmailQueue` | queue, workers, delivery log | `Delivery` | `MCEmailQueue` | `EmailQueue_proof` |
| `Users` | rows, audit entries, invitations | `Directory` | `MCUsers` | `Users_proof` |
| `Server` | start-up, connections, shutdowns | `Draining` | `MCServer` | `Server_proof` |

### AuditChain

`rows` is the AuditLog table, `calls` the `log()` calls in flight, `clock` the
milliseconds. `GetLastLog` is the first database call, `SendCreate` the hashing and
the client's time stamp, `Create` the insert, `Fails` every way a call ends without
a row. A digest is the tuple that was hashed (SHA-256 taken as free of
collisions). JSON objects are sequences of keys, because `JSON.stringify` hashes
the order of keys and a JSONB column returns its own order (`StoredValue`). The
history variable `contended` holds the tenants for which two calls overlapped;
`createdAt` ties may be returned in any order (`Orders`). `verifyChain` is the
operator `Valid`, and `BrokenAt` the index it reports.

Listing the trail is `Page`: the rows that match a filter, newest first, read from a
cursor on, one more than the page holds. There is no filter on the tenant, because
`app.ts` builds the repository without a tenant id. `Read` is what Prisma's `take`
and `cursor` do.

`HashTree` is what remains true under every interleaving: an append-only set of
nodes with distinct digests, each under a stored node of its own tenant.

### ApiKeys

`status`, `owner`, `replaces` are the columns of ApiKey, `users` the users that
exist, `timers` the pending `setTimeout`s, `process` the server. `Lookup`, `Touch`
and `Permit` are the middlewares (what the request asks for is chosen at `Permit`,
where it first matters), then one action for each awaited write of `createKey`,
`rotateKey`, `revokeKey` and `deleteUser`. A write may happen and its reply be lost: a
rotation may then issue a key and go no further (`IssueKey`), or switch the old one off
without arming a timer (`Retire`). `Fire` is a timer whose key is there, `FireMissing`
one whose key is gone, `FireFails` one whose deletion the database refuses or does not
confirm: the rejection of either reaches `handleUnhandledRejection` and drains the
server, or waits for the drain that is already under way; requests go on being looked up
meanwhile, on connections kept alive. `Signal`, `Exit`, `Crash` (a process that is
killed, which is not the program's doing) and `Restart` are as much of the process as
timers and requests depend on.
`KeyLifecycle` is the life a key is promised: issued once, switched off, removed.

### RateLimiter

`stamps` are the sorted sets, `wire` the scripts without a reply in the order they
were sent, `evaluated` how many of them Redis has run. `Evaluate` is the script,
`Reply` the continuation in the middleware, `Disconnect` a lost connection after
which scripts without a reply are sent again. The script as written names a
JavaScript variable and ends in an error after its writes, which `checkLimit` takes
as permission; the model does exactly that, so the refusal and what follows it are
unreachable and are not modelled. Two checks in one millisecond leave one member,
because Redis seeds `math.random` anew for each script (`Recorded`).

### EmailQueue

`state`, `attempts`, `stalls`, `lock` are BullMQ's view of a job, `slots` what each
slot of each worker is doing, `mails` and `logs` what is visible outside. `Sent`
and `SendFails` are the mail server (`SendFails` may have delivered the mail),
`LogSuccess`, `LogSuccessFails`, `LogFailure` the rows of EmailLog, `Complete` and
`Throw` the processor's end. `Stall`, `Dismiss` and `Holds` are BullMQ: a job whose lock
ran out goes back to the queue, after too many stalls ("doomed") only to be failed by
the next worker that takes it, and the verdict of a worker without the lock is
ignored. `Delivery` promises a single outcome per job, "done" only after a mail.

### Users

`users` is the table, `trail` the audit entries of each user, `invited` the
invitations queued. `Search` and `Insert` are `findByEmail` and `create`; `Find`
is the first read of an update or a delete, whose result goes into the audit entry
after the write. Every call may fail without effect (`Fails`, `CreationUnlogged`)
or with it (`ok = FALSE`). The body of an update goes to the database as it came: it may
set the tenant, the id (to a free one), the email and the name, alone or together
(`Bodies`, any set of `Updates`). `raced`, `rewritten`, `contended`, `unlogged` and
`given` (the ids that an update gave) are histories that name what may excuse a duplicate
or a gap; so does a caller's having got an error (`Excused`). `Story` is what an auditor
makes of a user's entries, one after the other; a `previousValue` that does not fit the
row so far breaks it.

`Directory` is what the rows promise whatever requests do to each other and whatever
updates set: only a creation adds a user, and under an id that nobody had; an update
changes one user who is there, takes no other user's id and brings back nobody who was
removed; and no tenant has two users with one email. An update that wrote back a row
deleted after it was read, or an insert that the index let through, would break it. That
users keep their tenant, or that ids are never used again, is not promised: an update
can do either.

### Server

`config` is what start-up looks at in the environment. Start-up reaches `listen`
without returning to the event loop, so no signal arrives before there is a server,
and `gracefulShutdown`'s exit for a missing server is never taken. Each trigger (a
signal or a stray error, `kind`) runs `Shutdown`; SIGTERM and SIGINT also start the
handler of `config/database.ts` (`handlers`), whose second `pool.end` rejects and so
runs `Shutdown` once more. `runs` are these calls of `gracefulShutdown`: the first
closes the server and goes on after `Closed`; every other waits for the same close and
is refused then, which ends the process with code 1 before the first can finish. The
two checks of the environment are `Parsed` (`env.ts`, at import) and `Validated`.
Requests on kept-alive connections go on while the server closes; a request that needs
the ended pool fails (`QueryFails`), and the hook's entry, which nobody awaits, can be
lost even when the process exits with 0. So can a request whose connection was closed
under it, by its client or by `server.timeout` (`Abandon`): its handler runs on
(`adrift`), but a closing server waits for connections only. `SocketFails` is the
`error` handler of the listening socket, which stays after the start.
`Draining` is the shutdown that is promised: clients are taken only while the server
serves, an orderly stop comes only after the last one has left, and every other end, in
any phase, is a failure (`Phase` and `Open` map to it). How Node, Prisma and pg behave where the
code depends on them is marked external in `PROJECT.json`.

### How the modules meet

They meet at awaited calls: what `Users` calls an appended entry is a call of `log()`
in `AuditChain`, what it calls an invitation is `Add` in `EmailQueue`, and `Server`'s
exits are `Exit` and `Crash` in `ApiKeys` and `Crash` in `EmailQueue`, which leave
their causes open. Each module lets any such call fail, with or without effect.

## 3. The runs

| Run | Instance | Shows |
|---|---|---|
| `audit` | 2 tenants, 2 calls at a time, 3 rows, 2 milliseconds; one entry that survives JSONB and one that does not | `ParentStored`, `NoForkWhenSerial`, `SerialChainVerifies`, `TamperLocated` hold, the trail implements `HashTree`, and a reader who pages through it meanwhile sees every row once (`PagesSurviveInsert`, if no two rows share a millisecond) |
| `keys` | owner, member, one seeded key and two to be issued, 2 requests | `KeyHasOwner`, `SuccessorFirst`, `TimersOnlyForRetired`, `DeletionExplained` hold, the keys implement `KeyLifecycle`, every request ends, every timer runs unless the process ends |
| `limiter` | 2 tenants with a key each, 3 requests, limits 2 and 1, windows 2 and 1 | `SetBounded`, `WithinWindow`, `OwnStamps`, `StampsInOrder` hold; every request gets past the limiter |
| `email` | 1 job, 3 worker slots, 3 attempts, 2 tolerated stalls | `MailsBounded`, `OverlapOnlyAfterStall`, `LogHonest` hold, the queue implements `Delivery`, every job ends |
| `users` | 2 tenants, 2 emails, 2 names, one seeded user and two further ids, 3 requests; updates that set one of id, tenant, email and name, or the last three at once | `SharedEmailExplained`, `DeletedOnce`, `TrailTellsHistory`, `InvitationAccounted` hold, and the rows implement `Directory` |
| `server` | every environment, 2 connections, 2 signals or errors | `CleanExit`, `CutExplained`, `DatabaseLostOnSignal` hold; a process told to stop exits, and it implements `Draining` |

Six runs state what a comment, a document, a template or the test script says, and
TLC refutes it with what the code does (`findings` in `PROJECT.json` quotes each):

| Run | Statement | What happens instead |
|---|---|---|
| `audit_fork` | a trail the program wrote verifies | two overlapping `log()` calls of one tenant take the same row as their predecessor |
| `audit_jsonb` | the same, with a single call | the value is hashed in the order of the object's keys, which JSONB does not keep |
| `keys_grace` | the old key stays active for 15 minutes | rotation switches it off at once |
| `keys_timer` | the scheduled deletion finds the key | a second rotation or the owner's deletion comes first, and the timer's rejection drains the server |
| `keys_restart` | a rotated key expires | its timer is lost with the process |
| `limiter_off` | a window admits at most the limit | the script ends in an error, which admits the request |

### Bounds

Every bound is a constant of the instance. Two actors of a kind are needed for each
race, and two are enough for those between a pair of steps; the third request in
`limiter` and `users` and the third slot in `email` give a race something to follow
(a check after a resent one; a creation after a deletion or two changes that
overlap a creation; a second stall while two workers are at the job). Three rows let a
fork be followed by another row, and three keys a rotated key's successor be
rotated. The limits and windows of `limiter` are the smallest with a full set, an
expired member and a boundary case. `Attempts` is the code's 3; `MaxStalls` is 2
rather than BullMQ's default 1 so that a stall can follow a stall. Two triggers in
`server` make up to four shutdowns: two, and one more from each handler's second
`pool.end`; two connections let one drain while another is used again. In `audit` and
`users` interchangeable values are symmetric; runs of liveness use no symmetry.
Deadlock is not checked in `limiter`, `email`, `users` and `server`, where requests and
jobs are made once, or the process exits, and everything may be done; it is checked in
the others.

### Fairness

* `ApiKeys`: an awaited call of a request is answered (with a result or an error), a
  timer comes due while the process lives, a draining process exits (`server.ts`
  arms a timer that forces it), and whoever operates the server starts it again.
  The last is an assumption about the operator: the properties of `keys` hold
  without it, and it makes `keys_restart` tell that a restart does not help. Errors,
  signals and crashes are never owed, and no request is owed a successful step.
* `RateLimiter`: the event loop runs continuations; the client reconnects for ever
  (`retryStrategy` always returns a delay, `maxRetriesPerRequest` is null), so the
  next script is evaluated. Replies have strong fairness: a connection that is lost
  again and again lets a reply through in the end.
* `EmailQueue`: delays end; a waiting job is taken again and again while slots become
  free (strong fairness, as slots are taken by others in between); an attempt goes
  on, whichever way; and the lock of a job nobody works on runs out. Successful
  sending or logging is never owed, nor is a worker owed to survive.
* `Server`: only the ten-second timer of a shutdown is owed. A request may take for
  ever, a client may keep its connection, the database and Redis may never answer.

## 4. The proofs

The proofs hold for every value of the constants that satisfies the named
assumptions of the modules: `BoundsAssumption` (the bounds are numbers),
`SeedAssumption` (in `ApiKeys`: seeded keys belong to users, and keys and requests
are finite; in `Users`: seeded users have ids and rows, and no two of them one email),
`BodiesAssumption` (bodies set ids, tenants, emails and names, or leave them out),
`LimiterAssumption` (a key has a tenant; limits and windows are positive),
`QueueAssumption` (finitely many workers; at least one attempt).

* **Audit trail.** `TypeOK` is inductive once it is seen that rows and the clock only
  grow (`Grows`, `TypesGrow`). `ParentCorrect` adds that the row a call has read is
  still stored, is the tenant's and is not younger than the stamp the call takes.
  `Refinement` uses it: `Create` is `HashTree`'s `Append`, all else stutters.
  `NoForkCorrect` needs what a serial tenant's only call in flight knows: it has read
  the newest row. From this every row but the first is linked to the row before it
  in time, hence no fork; and with values that survive storage, the only order
  `createdAt` allows is the chain, which `verifyChain` accepts (`SerialCorrect`).
  `TamperCorrect` needs no history at all: in a valid list of rows an altered row no
  longer has the hash of its content or no longer names its predecessor, and the rows
  before it are as they were. For `PagesCorrect`, a listing of rows with distinct stamps
  strictly descends: the rows of the first page are younger than the row the cursor
  names and the others are not, and an insert changes neither; `Bounded` says that the
  second page has room for all the rest.
  `DigestCommits` and `TruncationUnnoticed` (`Verdict_proof`) say what a verdict of `verifyChain` is worth,
  for rows whatever they are: a digest kept elsewhere pins down the whole history before
  it, by induction from its row down to the first; without one, newest rows can go
  missing unnoticed.
* **API keys.** A request's user is the owner of its key only because no key outlives
  its owner, so `TypeOK` and `KeyHasOwner` are proved together. `TimerInv` relates
  timers, rotations and the step of a rotation in progress; `SuccessorInv` counts
  the successors issued against rotations done and the rotation about to retire the
  key. `LifecycleCorrect` maps each action to the step of `KeyLifecycle`.
* **Rate limiter.** The inductive invariant says that each script on the wire belongs
  to a request that made this check with this stamp and that a request before its
  burst check has no such stamp, so stamps never change (`StampInv`). `OwnStamps`
  follows; `SetBounded` follows from what one evaluation can add. `OrderInv` adds that
  the wire is sorted by stamps and that no set holds a stamp later than that of a script
  still to be evaluated: `StampsInOrder`, and with it `WithinWindow`.
* **Email queue.** `QueueInv` counts what is still owed: the mails sent and the workers
  about to send are at most the attempts and stalls counted so far and the one
  begun; the same for success rows and mails. `OverlapInv` does so for the workers on a
  job besides the lock's holder. The bounds and the refinement of `Delivery` follow.

* **Users.** `TypeOK` says what each step of a request knows. `SharedInv` adds what a
  request about to insert is owed: if a user has its email by now, another request
  was about to insert it too when one of the two searched (`raced`), or an update gave
  it away (`rewritten`). `DeletedInv` ties each deletion in a trail, done or about to be
  logged, to a single request whose user is gone for good. `InvitedInv` gives every
  created user its one creator and counts the invitation against the creator's step.
  `HistoryInv` says that every trail has a story, that a user out of `contended` has one
  request changing it at most, which knows the row (`Knows`), and that for a user who is
  neither `Excused` nor `given` the story ends with the row or, while an update or a
  deletion is yet to be logged, with the row before it (`ToldUpTo`); the entry then takes
  the story to the row (`StoryGoesOn`). An overlap or a failure excuses the user in the
  step that brings it about. `DirectoryCorrect` follows from
  `SharedInv` and `InvitedInv`, which know that a fresh id has no row yet; every write
  is an `Enrol`, `Change` or `Remove`, and only writes change the rows.
* **Server.** `Phases` says which calls of `gracefulShutdown` can be where: until the
  server is closing there is none, while it is closing all but one are refused, and once
  it is closed the process lives on only if there never was another; nobody is connected
  to a closed server. `CleanExit` and `CutExplained` follow. `Fresh` gives each call a
  trigger of its own, and `DatabaseInv` says that a pool was ended only by a handler whose
  signal also closes the server. `DrainingCorrect` needs `Phases` twice: for connections,
  none of which is left in a phase that lets nobody leave, and for code 0, which only a
  call past `Closed` gives.

Every invariant and action property of the passing runs is proved, and so are the
refinements of all five abstract specifications.

Model-checked only: what depends on fairness (`RequestsEnd`, `TimersRun`, `RequestsPass`,
`JobsEnd`, `ShutdownEnds`), as the prover has neither liveness under fairness nor
ENABLED. The six refuted statements are counterexamples of TLC's.

The theorems of induction in the prover's library take a predicate as a parameter and
cannot be cited here. Where a proof needs induction over data it takes the least
counterexample instead, which exists by `Least` (in `Verdict_proof`, from the library's
theorem that the order of the naturals is well-founded). `Story` needs none: `IsStory`
says by its recursion what the story after one more entry is, and the induction is that
over the steps of the behaviour.

## 5. Not modelled

* **Tenants.** `createTenant` is a search by name and an insert that a unique name
  guards; `updateTenant` is a read, an update and an audit entry with the name read
  before. Both are chains of calls that `Users` has with more behind them, and their
  entries are values of `AuditChain`. Repositories are built without a tenant id
  (`app.ts`), so the tenant filters of `base.repository.ts` are never taken: `Users`
  searches all tenants, and `AuditChain` lists those of all.
* **Metrics and health checks** read and keep nothing. The counters that metrics read
  are incremented only when a request is refused, which does not happen.
* **Not reached by anything in the program:** the dead-letter queue (`setupWorker` has
  no caller), the warning mail of the limiter (`triggerRateLimitWarning` has no caller),
  `deleteExpired`, the refusal of a request by the limiter.
* **The worker script's orderly stop** waits for its jobs and then exits; to the queue it
  is a crash with nothing in hand, and `EmailQueue` has crashes at every point.
* **Formatting, logging, templates, controllers** that only unpack a request, and the
  scripts run by hand (`prisma/seed.ts` beyond the rows it leaves, the system test).

Within the modules: an update of a user may set any column in the code and reach into
related rows; `Users` has the id, the tenant, the email and the name, and leaves out the
role and nested writes. `ApiKeys` fixes who is an owner and who a member, and which user
a key belongs to; the foreign key takes the keys along when an update changes a user's
id. A deletion's entry is logged with `newValue: null` (`user.service.ts:133`), which
the client passes on for a `Json?` column; a version of Prisma that refuses it makes
`LogDeleted` fail each time, the branch `Fails` that the model has beside it. Of the
filters of a listing the model has one that compares for equality and one on time; the
end of a process without its handlers (SIGKILL) is the crash of `ApiKeys` and
`EmailQueue` and left out of `Server`; and the worker's rate of ten jobs a second and
the removal of old jobs are left out.
