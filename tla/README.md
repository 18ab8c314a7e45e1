# A TLA+ model of EVIDENTIA

EVIDENTIA keeps digital evidence for police, prosecutors and courts: documents
in an object store, everything else in PostgreSQL, an audit log that is a hash
chain, and hashes of documents anchored on a Hyperledger Fabric ledger.  The
backend is Go: an HTTP server and a worker, both with many goroutines, that
share PostgreSQL, Redis (Asynq queues, throttles, events) and MinIO.  But for
the subscribers of the event streams, which a mutex of the process guards, no
state lives in memory: what must be atomic is a transaction, a unique index, an
advisory lock, or is not atomic at all.  That is what the modules here are about.

Contents

1. [The system](#1-the-system)
2. [Modules and code](#2-modules-and-code)
3. [Runs, bounds, fairness](#3-runs-bounds-fairness)
4. [What is proved](#4-what-is-proved)
5. [Findings](#5-findings)
6. [What is not modelled](#6-what-is-not-modelled)
7. [Plan](#7-plan)

To check a run: `tlc -workers 2 -config <cfg> <module>`; to check the proofs
about a component: `tlapm <component>Proofs.tla`, for each of the eight modules
of that name.

## 1. The system

All paths are below `src/backend/` unless they begin with `src/`.

### Components, state, operations

| Component | State | Operations | Interacts with |
|---|---|---|---|
| Audit chain writer (`internal/audit/writer.go`, `chain.go`) | `audit_log`, its identity sequence, an advisory lock | `Record`: lock, read head, hash, INSERT, COMMIT, retry on chain conflict | called by every service after (never inside, except at bootstrap) its own transaction |
| Audit chain verifier (`internal/audit/verifier.go`) | none; reads `audit_log` in pages | `VerifyBatch` | called by the verification job |
| Verification job (`internal/service/audit_service.go`, `internal/jobs/audit_verification.go`) | `audit_verifications`, an Asynq task per run | `StartVerification`, `RunVerification`, error handler, readers that fail stale rows | chain writer, Asynq, event publisher |
| Anchor outbox (`internal/service/blockchain_anchor_service.go`, `internal/jobs/blockchain_anchor.go`, `internal/blockchain/fabric.go`, `src/chaincode/`) | `blockchain_anchors`, an Asynq task per anchor, the ledger | create, run, give up; chaincode `AnchorEvidence` | called by uploads and exports |
| User administration (`internal/service/user_service.go`, `internal/authz/user_policy.go`) | `users`, `user_roles`, an advisory lock | create, change role, change status, reset password, edit profile | revokes sessions |
| Authentication and sessions (`internal/service/auth_service.go`) | `auth_sessions` | login, refresh (rotation, reuse detection), logout, resolve identity | `users`, throttle |
| Login throttle (`internal/ratelimit/limiter.go`) | counters in Redis | `Allow`, `Reset` | login |
| Cases and members (`internal/service/case_service.go`) | `cases`, `case_members` | create, update (a status machine), add and remove members | authorization |
| Documents (`internal/service/document_service.go`, `document_redact.go`) | `documents`, `document_redactions`, objects in MinIO | upload, download, verify, redact | storage, anchors, tamper status |
| Certificates (`internal/service/certificate_service.go`) | `compliance_certificates` | get or create, verify | documents |
| Sharing and policies (`internal/service/document_share.go`, `internal/authz/`) | `document_shares`, permissions, row-level security | share, revoke; decisions about cases and documents | every handler |
| Exports and watermarks (`internal/service/export_service.go`, `watermark_service.go`) | `evidence_exports`, objects | request, download, verify a watermark | documents, anchors |
| Server-sent events (`internal/sse/`, `internal/events/`, `handlers/*/events.go`) | subscribers in memory, a Redis channel | publish, register, dispatch, stream | services publish after COMMIT |
| Process wiring (`cmd/`, `internal/app/`, `internal/config/`) | the clients that are connected | load, connect, serve, stop, close | owns the reader of the event channel |
| Bootstrap (`internal/bootstrap/admin.go`) | `users` | create the first administrator | runs before the server listens |
| HTTP layer (`internal/httpserver/`, `internal/middleware/`, `internal/handlers/`) | none; it uses the pool of connections | some 50 routes: middleware, decoding, one service call, an answer | every service |
| Paged listings (`internal/utils/pagination.go`, the `List*` queries) | none | a page, its total, the next page | cases, users, audit entries, verifications, shared documents |

### What is hard, and the properties that make each part correct

* **Chain writer.**  Concurrent writers, `seq` drawn after the head is read,
  errors that hide a COMMIT, retries.  Correct: the rows are one linked line in
  `seq` order; no event twice; every call returns.
* **Verifier.**  Pages in separate transactions while entries are appended;
  one statement that changes one row, its hash recomputed or not.  Correct: no
  false alarm, and a verdict means what was scanned is what was recorded, but for
  a change at the very end that no entry contradicts.
* **Verification job.**  Lost tasks, redelivered tasks, dead workers, lost
  replies, slow workers, readers that change state.  Correct: a verdict is true
  and final, a run is scanned once and settles.
* **Anchor outbox.**  Two systems without a common transaction; submissions that
  time out and are committed later; retries.  Correct: what the database says of
  the ledger is true; the hash gets there; no verification blames an untouched
  document; giving up is visible.
* **User administration.**  Requests that take away administrators race.
  Correct: one active administrator remains; every request is answered.
* **Sessions.**  Checks and writes in different transactions; tokens presented
  twice; resets and deactivations at any moment.  Correct: what is revoked stays
  revoked, and only a call that was already under way escapes.
* **Documents, exports, certificates.**  Bytes and rows are in two stores without
  a common transaction; either write may fail, or seem to fail; several calls
  create one certificate.  Correct: a row has its bytes, bytes without a row
  are reported, nothing is made from bytes that do not match their hash, there
  is one certificate, and nobody is accused without cause.
* **Cases, members, sharing.**  authz and row-level security decide by the same
  data in several transactions, while a team changes and shares are revoked or
  expire.  Correct: who is served was entitled during his request, who was
  entitled throughout is not refused, and only insiders write.
* **Events.**  A stream registers, reads a snapshot and relays events through a
  bounded buffer, while the worker commits and publishes and the process may be
  stopped.  Correct: an end is never missed between snapshot and event, the
  events a client sees advance, slots come back.
* **Process.**  Dependencies fail in the middle of a start, and what shuts down
  waits for what still runs.  Correct: nothing stays open, the reader of Redis
  ends before Redis is closed.
* **Requests.**  Each is a chain of transactions over a bounded pool, while
  stores fail, clients leave and the caller's rights change.  Correct: who is served
  was active, an administrator or related to the case, as the route asks;
  refusals of outsiders look alike; every change is recorded; every request is
  answered; login counters expire; pages skip nothing.

## 2. Modules and code

```
AppendOnlyLog          abstract: a log of distinct events
  ^ implemented by
AuditChain             concurrent ChainWriter.Record calls              proofs
  | justifies the serial writer of
ChainVerifier          VerifyBatch and its paging                       proofs
  MCAuditLog           both for TLC: the writers, or the verifier  MC
  | justifies the scan (length, first bad entry) of
AuditVerification      the verification job                        MC   proofs
  | commits and publishes the versions of a row, which are relayed by
EventStream <- ServerProcess -> ServerConfig                       MC   proofs
                       event streams in the life of a process
BlockchainAnchor       the outbox, the ledger, VerifyCandidate     MC   proofs
UserAdministration     roles and status                            MC   proofs
AuthSessions           refresh tokens                              MC   proofs
DocumentStore          objects, rows, certificates                 MC   proofs
  ^ says which UPDATE of the tamper status finds its row
CaseAccess             cases, teams, shares, authorization         MC   proofs

Services <- Routes <- RequestPipeline -> Listings                  MC   proofs
                       every route, as the steps of its middleware, handler and
                       service, over one pool of connections
```

"MC" stands for a configuration `MC<module>.cfg` (with a module of that name where
constants need definitions), "proofs" for a module `<module>Proofs`, which EXTENDS
the component's module and TLAPS.  The proofs about ChainVerifier are in
AuditChainProofs, with the writers of the same table; those about RequestPipeline
in ServerProcessProofs, with the process that serves the requests.

The component modules have the data of an operation and few operations each;
RequestPipeline has every operation and no more of its data than whether the
caller is active, permitted and related to the case.

PROJECT.json maps every definition to the lines it stands for.  Definitions
whose comment begins with "Mutant" are variants with a plausible bug; no
specification uses them, they document what each property is able to detect.

Conventions.  A process has a program counter that names the statement it is
about to run, because every database statement, Redis call or Fabric call is
where others may interleave.  PostgreSQL is READ COMMITTED: a statement sees
what was committed when it began, writes of a transaction appear at COMMIT.  A
`Fail` or `Abandon` action is a failing statement, a cancelled context or a
dead process; PostgreSQL then rolls back and releases what was held.

**AuditChain.**  Each element of `Events` is one call of `Record`.
`AcquireChainLock`, `GetLatest`, `DrawSeq`/`Insert` (an INSERT draws the
identity value before it meets the indexes), `Commit`, `Rollback` are the
statements of `append`; `AfterRollback` is its retry loop; `UniqueViolation`
the unique indexes of migration 1.  A hash is the list of what was hashed, so
two entries have one hash only if they agree.  `LockedEvents` are the callers
that take the lock: all of them in the code; the others show that the indexes
alone suffice, as the comment of `maxChainWriteAttempts` claims.

**AppendOnlyLog.**  The abstract specification: an event that is not in the log
is appended to it.  `AuditChain` implements it under `log <- HeadOf(rows)`.

**ChainVerifier.**  Entries are appended one after the other, one statement of a
privileged connection changes one row within the unique indexes, and the scan
reads pages of `BatchSize`.  `Edit` sets data, `prev_hash` and hash at once,
`Forge` inserts a row in a gap or behind the newest row, each with any hash: one
of another row, a foreign one, or the one that `ComputeEntryHash`, which has no
key, gives for the new contents; `Delete` and `Move` leave the other columns
alone.  `tampered` says whether the row that was written carries its own hash
("rehashed") or the newest entry is gone ("cut"), `newest` how far back the
change may reach.  Not modelled are a statement that rewrites a row and every row
behind it with recomputed hashes, which nothing in the table could contradict, and
an INSERT at a `seq` that the identity column has not reached.  That writers are
serial here is what AuditChain shows.

**AuditVerification.**  `row` is `audit_verifications`, `task` and `retried` the
Asynq task, `caller`, `exec` and `reader` the three kinds of process.  The chain
is its length and the position of its first bad entry.  Time is one bit per
row, `fresh`: `GoSilent` may clear it at any moment, since a worker may be slow.
`FailureType` tells a row that a reader presumed dead ("stale") from one that
the error handler gave up.
Asynq (dequeue, retry, archive, redelivery after a lease expires) is external.

**BlockchainAnchor.**  `row`, `task`, `exec` as above; `inflight` are endorsed
transactions that wait for the ordering service, `ledger` the chaincode's one
record per document (the version is always 1).  `AwaitCommit` may give up while
the transaction is still in flight.  `MarkFailed` honours the CHECK constraint
on `retry_count`, `EventAllowed` the one on `event_type`.  `check` is a call of
`VerifyCandidate`: `FindAnchor` reads the latest anchor, `VerifyEvidence` asks the
ledger in a later step, and `Resolve` concludes, for every file that may have been
submitted.

**UserAdministration.**  Each handler serves a request of the set `Requests`;
`tx` holds what its transaction has read.  `NeedsGuard` decides from those reads
whether the advisory lock is taken, as `UpdateRole` and `UpdateStatus` do.

**AuthSessions.**  `sessions` is `auth_sessions`, in the order of creation; a
token stands for its row.  A call is its sequence of transactions.  An UPDATE of
several rows finds its rows first (`RevokeFamily`, `RevokeAll`) and shows them
revoked at `Commit`; in between, rows may be inserted.  The history variables
(`overtaken`, `straggler`, `active`, `burned`) only record what happened: no
guard reads them.  Expiry and the throttle are choices to refuse.

**DocumentStore.**  `objects` is the bucket and `rows` the tables `documents` and
`evidence_exports`; a number stands for the UUID that names both an object and
its row.  Bytes are "genuine" (what the row was written for), "damaged" or
"missing", which is all that a comparison with SHA-256 can tell.  A call is its
sequence of statements: read the row (`GetByID`), the bytes (`ReadObject`),
compare and UPDATE the status (`Reconcile`), store new bytes (`Put`), INSERT
their row (`Insert`) or take them back (`Cleanup`), sign (`Sign`), record
(`RecordEvent`).  `harmed`, `abandoned`, `returned` and the field `made` only
record what happened.  `Faults` says what may fail, any number of times: a
statement ("error"), the process ("crash"), the reply to a COMMIT ("lost
commit").  The UPDATE of `Reconcile` may find no row: CaseAccess says when.

**CaseAccess.**  One case and one document.  `members` are the active rows of
`case_members`, `shares` the ACTIVE row of `document_shares` for each recipient,
with "expired" for one whose time is over.  `Permitted` is the seed's role
matrix; `MaySelect`, `MayWrite` and `MayUseCase` are the row-level-security
policies, evaluated when the statement runs; `FindDocument`,
`LoadCaseRelationship` and `ShareGrantsAccess` are the transactions of
`CanAccessDocument` and `CanAccessCase`, after which the handler reads its row
and writes.  A request keeps the role it was resolved with; a user has one role
(`UserAdministration` shows the exception) and it does not change.  `Standing`
says what entitles a call in the present state; the histories `ever` and
`steady` accumulate it over the call.  An administrator may make every request;
the download of an export (`fetch`) asks authz nothing, as in the code.

**EventStream.**  An event of a verification is the version of its row
(0 QUEUED, `Last` terminal), which the worker commits and then publishes; an
event of a case says "fetch again".  `wire` is Redis between publisher and
Manager, `fan` a dispatch under way (its list of channels is taken under the
mutex, the sends are not), `chan` the buffers.  A handler registers, reads, writes
the snapshot and relays until a terminal event; `StreamEnds` is every other way
to return.  `row` is what the table says, `reached` what the worker committed last:
they part when a reader settles the row.  `Settle` is `reconcileStale`, which looks
at the age of the row only, so it may come at any moment, with the worker dead or
slow; it is part of a stream's snapshot (`EventsSnapshot`) and of every other
request that reads the row (`ReconcileStale`, `LookupStep` of ServerProcess), and
publishes nothing.  `FailureRead`, `FailurePublish` and `FailureCommit` are the
steps of `MarkVerificationOperationallyFailed`.  The user list's stream differs from a case's only in its name.

**ServerConfig, ServerProcess.**  `Load` and `Problems` are pure: defaults,
parsing, required groups.  `ServerProcess` starts with them, connects one client
after the other with the failure branches of `app.New`, bootstraps, serves the
streams of EventStream, and stops in the order of `run` and `App.Close`.  It
composes both modules by EXTENDS; `processVars` and `streamVars` are disjoint.

**Services, Routes.**  Constant definitions: an operation is a sequence of steps
(`Step(do, of, or, fails)`), one for each transaction, store call, choice, record
and answer, in the order of the code, with the statuses each may end in and what
a failing store does (an answer, or nothing where the error is only logged).
`Routes` puts middleware and handlers around them, one entry for each route of
`NewRouter`.  A `Touch` is a transaction of its own that only follows what the
request finds and about which no audit event exists: `users.last_login_at`, and
`documents.status` when the bytes of a TAMPERED document match again
(`reconcileTamperStatus`, behind which a redaction or a certificate may still be
refused: `MatchRequired`).

**RequestPipeline.**  Runs those steps in `Slots`, one request each.  A
transaction holds one of `MaxConns` connections from `Begin` to its end; `Judge`
decides by the facts of the moment; `Commit` adds a "change" or a
"touch" to what is `unrecorded` until `RecordEvent`; `Unavailable` is a store that does not answer or a client
that left (Go cancels the context of the request).  `ever` (what was true of the
caller during his request), `unrecorded`, `hurt` and `cut` only record what
happened.  `Incr`, `Expire`, `ResetCounter` and `WindowEnds` are the login
throttle, `ListRows` and `NextPage` a client that pages through a table.

**Listings.**  The page arithmetic with int32 wrap-around, LIMIT and OFFSET over
newest-first rows, and the total, for each of the five listings.

## 3. Runs, bounds, fairness

| Run | States (distinct) | Question |
|---|---|---|
| `audit_log` | 87 thousand | Do concurrent, failing, retrying writers build one chain, and does each return?  What does a verdict mean after a change of one row? |
| `verification` | 321 thousand | What may an UPDATE do to a run that ended; is the verdict true of a growing chain; does the run settle? |
| `anchor_outbox` | 122 thousand | Is what the database says of the ledger true, does the hash arrive, is nobody accused by a verification? |
| `last_admin` | 309 thousand | Does an active administrator remain, and is every request answered? |
| `auth_sessions` | 2.4 million | What survives a reuse, a reset, a deactivation? |
| `documents` | 3.0 million | Do rows and objects stay together, and does damage stop where it is found? |
| `case_access` | 937 thousand | Who is served, refused and able to write while memberships and shares change? |
| `server_process` | 1.2 million | Are streams told the end, and does a process start and stop without leaving anything behind? |
| `request_pipeline` | 287 thousand | Does every route refuse, record, answer and page as it should, whatever fails? |
| `last_admin_reactivated`, `publish_before_commit`, `slow_worker` | | Each refutes one statement of the repository: section 5. |

**Bounds, and why they are enough.**

* `audit_log`, the writers: three calls, one of which bypasses the lock, two attempts
  each (3 in the code, `maxChainWriteAttempts`).  A fork needs two writers, a misplaced `seq` two, a
  conflict that meets a conflict three.  The theorems of section 4 remove the
  bounds for everything but the lock's purpose and termination.
* `audit_log`, the verifier: `seq` up to 6 and pages of 2, so that a chain has up to three
  pages, full and partial, with gaps at page boundaries.  One row is changed: what
  is claimed is claimed of one change, and is false of several (two statements
  rewrite the last two rows with recomputed hashes).  Writers and verifier take no
  step in common: `MCAuditLog` runs either, with the other at its start.
* `verification`: one run, two callers, two workers, one reader, one retry, a
  chain of up to 3 entries, pages of 2.  Two callers meet the conflict and its
  lookup; a redelivered task is what two workers share; the chain gives an empty,
  a partial, a full and a further page.  Two runs share only the index that
  admits one active row, which the guard of `Create` states.
* `anchor_outbox`: one document with both of its anchors, two workers, two
  retries, three faults, one verification at a time.  Anchors share nothing but a
  document, so one document is enough; with three faults every attempt of an
  anchor can fail.  A verification changes nothing of what is modelled here, so
  one at a time is enough; its own reads may fail any number of times.
* `last_admin`: three users, one of whom may be created, two handlers.
  Lockout needs two transactions that each spare the other's target; three
  users give a bystander.  The theorem of section 4 removes the bounds.
* `auth_sessions`: one user (no statement touches the sessions of another), two
  calls at a time, three sessions, one reset.  A session can only escape while
  another call runs: two.  Its descendants need a third session.
* `documents`: two calls at a time, two objects, two changes of the bucket, any
  number of failures.  A derivative, an export or a certificate has one source;
  a certificate race needs two calls; an object can be damaged and put back
  between any two statements with two changes.  "lost commit" is not among its
  faults: section 5 says what that fault does.
* `case_access`: the creator, POLICE, and one other user, POLICE or ADMIN, two
  calls at a time, two statuses with the one transition between them.  A request
  can be overtaken by one other call, any number of times in a row; a third user
  would be a second recipient, and no statement relates two recipients.
  FORENSICS, LAWYER and JUDGE have subsets of the permissions of POLICE, and
  what a role lacks only keeps a call from beginning: their behaviours are among
  those of POLICE.  The creator manages the case (`Asks`): he always remains a
  member, so what he downloads himself is never at stake.
* `server_process`: one user who asks for a stream of a verification and for one of
  a case and may hold one of them, another with a stream of the case, buffers of
  one event, one notice, a verification with one intermediate version, readers that
  settle it at any moment.  A full buffer, a refused
  registration and a dispatch that overlaps a return all happen with one of each;
  more versions only repeat the step between two of them.  Redis does not lose
  events while it is connected (`RedisLoses`): it may still be unsubscribed.
* `request_pipeline`: every route once, asked by an administrator, an officer of
  the case and an officer of another one, while one store fails and one right
  changes; every route once whose client leaves; pairs of requests on a pool of
  two, as many as a request that nests needs to jam; three logins in two slots
  (limits 2 and 1); a client who reads a table of three rows, page by page, while
  a fourth comes or one goes.  The steps of different requests meet in the pool,
  the counters and the listed table only; each of these has a pair of requests of
  its own.  One fault, one change and one departure are each placed at every
  step; the properties relate a request to one of them.

`CHECK_DEADLOCK FALSE` stands where the system may stop: bounded calls are all
answered, or a bound is reached.  (`server_process` has it on: a process that
is over says so with a step of its own, `Finished`.)

**Fairness.**  Used by `RecordReturns`, `RunsSettle`, `OutboxDelivers`,
`RequestsEnd`, `WatcherIsTold` and `RequestsAnswered` only.

* `AuditChain!FairSpec`: weak fairness of each call's own steps.  The Go
  scheduler runs every goroutine; PostgreSQL queues the waiters for an advisory
  lock and the number of calls is finite, so weak fairness of the lock is
  enough.  `Record` is not fair: nobody has to record; `Fail` is not fair.
* `AuditVerification!FairSpec`: callers, workers and readers go on, and a row
  nobody updates becomes old.  The reader's fairness says that somebody keeps
  opening the dashboard: `reconcileStale` relies on it, there is no sweeper.
  Workers may die (`Abandon`) any number of times.
* `BlockchainAnchor!FairSpec`: a live worker goes on, an endorsed transaction is
  ordered.  `OutboxDelivers` promises delivery while there are no more faults
  than retries; that is all that the code promises.
* `UserAdministration!FairSpec`: strong fairness of a handler's steps, because
  requests keep coming for ever and the lock can be enabled and disabled again;
  PostgreSQL serves the waiters in their order.
* `ServerProcess!Fairness`: the goroutines of the worker while it lives, of the
  Manager and of the handlers run.  Clients need not leave, no signal need come,
  and no timer is needed.
  `WatcherIsTold` excepts a run that a reader failed before a worker began it
  (`NeverBegun`): the worker then finds no row to start and publishes nothing.
* `RequestPipeline!PipelineSpec`: weak fairness of each request's steps.  `net/http` runs
  a goroutine per request, pgx serves those who wait for a connection in their
  order, and the traffic is finite.  Faults, departures and recoveries are not
  fair: a store may stay away.

## 4. What is proved

Eight proof modules hold for every value of the constants: any number of calls,
users, documents, workers, connections or retries, any interleaving and any
sequence of failures that the module admits.  They use only the named assumptions
of the modules (each is listed below), and two theorems have a hypothesis, because
the code does not keep the property without it (section 5).  Every module follows
one plan: an inductive invariant, a lemma for the initial states, a lemma for each
action (or for each kind of step that several actions share), and the theorems
by PTL.  TLC checked each inductive invariant on the component's run first, but for
those of RequestPipeline that quantify over sets of sequences (below): of these
only the type invariant and the properties themselves can be evaluated.

| Module | Theorems (properties) | Assumptions used |
|---|---|---|
| AuditChainProofs: AuditChain | `TypeCorrect`, `ChainNeverForks` (`ChainIntact`), `NeverRecordedTwice` (`RecordedOnce`), `ImplementsAppendOnlyLog` (`Spec => Log!Spec`) | `LockedAssumption`, `AttemptsAssumption` |
| AuditChainProofs: ChainVerifier | `UntouchedIsVerified` (`NoFalseAlarm`), `VerdictsAreGenuine` (`VerdictIsGenuine`) | `BatchSizeAssumption` |
| UserAdministrationProofs | `TypeCorrect`, `NeverWithoutAdmin` (`SomeActiveAdmin`, if `RemovalsOnly`) | `AdminAssumption`, `UsersAssumption`, `RequestsAssumption` |
| AuditVerificationProofs | `VerdictsAreTrue` (`VerdictSound`), `VerdictsAreFinal` (`VerdictFinal`), `OneScanPerRun` (`ScannedOnce`) | `RetryAssumption`, `BatchAssumption` |
| BlockchainAnchorProofs | `ConfirmedIsOnLedger` (`ConfirmedOnLedger`), `VerdictsAreJust` (`LedgerVerdictJust`) | `RetryAssumption`, `FaultsAssumption`, `NoneAssumption` |
| AuthSessionsProofs | `ReuseEndsTheFamily` (`ReuseEndsFamily`), `RevocationsEndSessions` (`RevokeAllEndsSessions`), `RevocationIsFinal` (`RevokedIsFinal`) | `BoundsAssumption` |
| DocumentStoreProofs | `DamageIsNotPropagated` (`NothingFromDamagedBytes`), `OneCertificatePerDocument` (`CertificatesAgree`), `AccusationsAreJust` (`NoFalseAccusation`), `OrphansAreKnown` (`NoSilentOrphan`), `RowsHaveTheirBytes` (`RowHasObject`, if `"lost commit" \notin Faults`) | `BoundsAssumption` |
| CaseAccessProofs | `ServedOnlyEntitled` (`ServedWereEntitled`), `EntitledNotRefused` (`SteadyNotRefused`), `WritersAreInside` (`InsidersWrite`) | `OwnerAssumption`, `RecipientsAssumption`, `StatusesAssumption` |
| ServerProcessProofs: ServerProcess, EventStream | `ReaderIsGoneFirst` (`ReaderStopsFirst`), `ClientsAreClosed` (`NothingLeftOpen`), `EverySlotIsReturned` (`SlotsReturned`), `WatchersSeeOrder` (`SeenInOrder`), `CompletionReachesWatchers` (`CompletionNotMissed`) | `StreamAssumption` |
| ServerProcessProofs: RequestPipeline, Routes, Services | `ServedOnlyIfAdmitted` (`ServedWereAdmitted`), `OutsidersLearnNothing` (`OutsiderLearnsNothing`), `ChangesAreRecorded` (`ChangesRecorded`), `CountersThatExpire` (`CountersExpire`) | `PipelineAssumption`, `TrafficAssumption` |

The type invariant of each module is proved with the first of its theorems that
says so (`Spec => [](TypeOK /\ ...)`).  The assumptions say that bounds are
numbers, that distinct things are distinct (`None` is no anchor; nobody watches a
verification and a case over one connection), that what is asked is a route of
the router (unknown paths and methods have one of their own), and, in
UserAdministration, that there are finitely many users; neither finiteness of the calls, workers or
connections nor any fairness is assumed.

**AuditChain.**  `ChainIntact` is not inductive: that the new row goes to the end
follows only from knowing that the head that was read is still the head.  The
inductive invariant adds: the sequence exceeds every `seq` that was drawn
(`SeqInv`); a head that was read is the hash of a row or none (`HeadExists`), and
if it is no longer the newest then some row already claims it, so that INSERT must
fail (`HeadInv`); `seq` order agrees with the order of the chain (`OrderInv`), whose
hashes grow in length (`LengthInv`); an uncommitted row has no competitor
(`PendingInv`); a call that is still trying has no row (`OnceInv`); the head's
digest lists distinct events (`LogInv`).  The advisory lock plays no part: the
theorems hold if nobody takes it.

**ChainVerifier.**  `Sound` says of one row, without pages, what the loop of
`VerifyBatch` demands of it; `ScanInv`, that the scan has accepted exactly the rows
up to its cursor and counted them.  `ContentInv` says what a change of one row leaves:
a table that is whole (`Whole`); or one in which everything before the first unsound
row is as recorded, but for the row directly before it if that carries a recomputed
hash (`BrokenAt`); or, after a change at the end, one whose rows are all sound and as
recorded up to that place (`SoundTo`).  It needs that a hash determines what was
hashed, and the link to the row before.  What looks like an induction over the table is the choice of a least or greatest element
of a finite set, and a count is the cardinality of the rows up to a place, so that
the proof needs none.  `VerdictIsGenuine` says what is left of VERIFIED when the
change is at the end of the chain: all in front of it, since an unkeyed hash cannot
tell a new last entry from a forged one.

**UserAdministration.**  `SomeActiveAdmin` needs: the handler between the count and
its COMMIT holds the lock, and only that one (`LockInv`); it has seen two active
administrators and they are still there (`CountInv`); a handler that skipped the
guard has a target that is no active administrator and never becomes one
(`StaleInv`).  The last part is where `RemovalsOnly` is needed, and where the code is
wrong without it: section 5, `last_admin_reactivated`.

**AuditVerification.**  CompleteAuditVerification has no guard, so that a verdict is
final only because nobody else can be about to write: a task is with one worker at
a time, and a job is enqueued once (`TaskInv`).  A row that waits has nothing
checked (`RowInv`), and a worker that scans holds a row that is RUNNING or was given
up meanwhile, never one with a verdict; what it has counted is where it stands,
nothing before that is bad, and at the end of the scan it is the length of the
chain (`ScanOK`).  A late reader may fail the row under the scan, and the worker then
replaces that presumption by what it found (`Unsettled`): `VerdictFinal` allows this
and nothing else, and `TerminalOnce`, which the comment of the statement claims,
does not (section 5).

**BlockchainAnchor.**  What a worker is about to write down is on the ledger
(`ConfirmInv`), because the transaction for which it waits is its own (`WaitInv`),
because ids are drawn in order (`IdsInv`) and the chaincode writes a record once.
`LedgerVerdictJust` adds that only registered hashes get into the queue, a
transaction or the ledger (`AllowedInv`: it begins with the CHECK on the event type)
and what a verification between its two reads may rely on (`CheckInv`).

**AuthSessions.**  What a call holds of the session that was presented agrees with
its row (`CallOK`).  The heart is `OvertakenOK`: a call that has passed its checks,
and will issue a session that a reset, a deactivation or a detected reuse should
have prevented, was under way when that was committed; it holds at every moment
between check and INSERT, so that nothing but such a call escapes.

**DocumentStore.**  `CallOK` says at each step what a call has verified, and what
must still be true of its key: the row is not there before the INSERT, the bytes
are; no two calls have one key (`FreshInv`); damage came from outside (`HarmInv`); a
certificate that was handed out is in the table (`ReturnedInv`).  `RowHasObject` adds
that whoever cleans up has no row (`CleanupInv`), which is exactly what the reply
to a COMMIT that is lost makes false.

**CaseAccess.**  The history `ever` says whether a call was entitled at some moment,
`steady` in which ways it was at all of them; `GhostOK` ties both to the step a call
is at: whoever has passed the last check that is made for him was entitled
(`Granted`), and a call that asks for a share was not a member a moment ago, so that a
membership that arrives in between is not one that was always there.  `CallOK` says
what authz has decided so far.  That the creator remains a member (in `TypeOK`) is
what makes the policies of `cases` and of `documents` agree.

**ServerProcess.**  Of the process: what is open in each phase (`OpenInv`), who still
reads (`ReaderInv`).  Of the streams: versions in the pipe, from Redis through the
dispatch and the buffer to the client, are increasing and older than the next one
to be published (`WireInv`, `FanInv`, `ChanOK`, `SeenOK`); a slot is counted from the
registration to the return (`SlotInv`); the row is what the worker committed last, or
a reader or the error handler has ended it, the latter only for a worker that is dead
(`RowInv`).  `CompletionReachesWatchers` is about the end that the worker gives a
verification, also behind a settlement.  The settlement itself is published to nobody,
and the error handler publishes too early (section 5): nothing is claimed of these.

**RequestPipeline.**  A request runs a sequence of steps that `Routes` and
`Services` put together, and three of the properties are about every way through
every one of these sequences, some fifty routes with a service each.  The proof does
not walk through them and makes no induction on their length.  A sequence is
`Careful` (it records what it commits) if it lies in *some* set whose members all
begin with a harmless step and go on in the set, or with a commit and go on in a
companion set, in which every way leads to `Record` before anything may end the
request (`Covered`), or with a touched column and go on in a third, in which every
way ends in a refusal or comes to a change that is recorded (`Touched`).  From this
follow rules for the kinds of part that a service has: four by what they do to an
unrecorded change (`Balanced`, `Opens`, `Stays`, `Closes`) and three by what they do to
a touched column (`Touches`, `Endures`, `Reopens`).  There are rules for a step of each
kind (`StepsPass`), for a choice (`EitherPasses`) and for one part behind another (`Composes`).  Each service and
handler is then derived by these rules from the source order of its calls
(`AuthServiceIsBalanced` to `HandlersAreCareful`), and `ChainsAreCareful` says it of
every route; for a handler that queries between its commit and its record, such as
the mutant of `UpdateStatus`, no rule applies.  Admission has the same construction:
`KeepsOut` is a sequence from which a caller who passes no `barred` step gets
certain answers only, and `ChainsAreGated` says which routes keep whom out with
what.

The state enters with the lemmas about one step.  The thirteen actions of a request
come to a few changes of its record, one for each kind of step (`ProgressAdvances`);
every other action leaves the request as it is, but may mark it hurt or add to what
was ever true of the caller (`EachSlot`).  `TrailInv`: while a request is not hurt, what
it still has to do is careful, covered if a change is unrecorded, and touched
if only a touched column is (`Trailed`); one that was answered has recorded all, or
was refused behind a touched column (`Settled`).
`AdmissionInv`: a caller who never had what the route asks for is in front of a
sequence that keeps him out.  `CountersExpire` is inductive with the types alone:
the request whose INCR made a counter 1 has EXPIRE as its next step, and whatever
takes that step away marks the counter `cut`.

**Only model-checked.**

* The six liveness properties named in section 3: liveness under fairness is
  beyond the prover.
* `PagerMissesNothing` (RequestPipeline): a listing filters a sequence, which the
  library defines by recursion, so that what a page contains needs an induction
  over the table.  It is also no fact about all values of the constants: `pager`
  describes one client at a time, and an OFFSET beyond int32 wraps.

## 5. Findings

Three runs refute a statement of the repository; PROJECT.json quotes the lines.

* `last_admin_reactivated` (bug).  A demotion whose target was inactive when it
  was read takes no lock; if the target is reactivated and the other
  administrator demoted before it commits, nobody is left.
* `publish_before_commit` (bug).  `MarkVerificationOperationallyFailed` publishes
  inside its transaction: a stream that registers behind the publication and
  reads before the COMMIT has the failure neither in its snapshot nor as an event,
  and waits until it is cut off.
* `slow_worker` (contradicts a comment).  `CompleteAuditVerification`, which "sets
  the terminal state exactly once" (`db/queries/audit_verification.sql:70`), is not
  guarded by the status, and a reader ends a run on the age of its row alone: a
  worker that was only slow turns FAILED into a verdict.

Six more properties are stated in the modules and are not kept; TLC refutes
them with the configuration of the module's run, changed as follows.

* `GivenUpIsFailed` (BlockchainAnchor: one worker, `MaxRetry = 1`).  When every
  retry has failed, `MarkAnchorOperationallyFailed` stores `retry_count = -1`,
  which the table's CHECK rejects.  The error is discarded: the anchor stays
  PENDING for ever.
* `ResetEndsSessions` (AuthSessions: `MaxSessions = 2`).  A refresh or a login
  with the old password that has passed its check inserts its session after the
  reset revoked the others.
* `MismatchMarked` (CaseAccess: `LawyerRoles`, one call, `CaseStatuses =
  {"CLOSED"}`).  The recipient of a VERIFY share verifies a damaged document and
  is told so; the UPDATE that should mark it runs as him, row-level security hides
  the row from it, and the document stays ACTIVE.
* `EveryChangeIsDetected` (ChainVerifier; `MCAuditLog.cfg` as it is).
  docs/AUDIT_CHAIN.md:328-338 lists modified, deleted and inserted entries as
  detected.  At the end of the chain they are not: the newest entry deleted, the newest
  entry rewritten with its hash, or an entry with its own hash added, is VERIFIED.
* `SettlementReachesAll` (ServerProcess; as it is).  A reader fails a row whose
  worker is slow: a stream of it that is open has neither snapshot nor event, and
  hears of it from that worker's last event or never.
* `EveryCommitRecorded` (RequestPipeline; as it is).  Bytes that match again make a
  TAMPERED document ACTIVE, and the redaction is then refused with 400, 422 or 500, or
  the certificate with 500 (document_redact.go:206-270,
  certificate_service.go:249-295): the change of status has no audit event.  TLC's
  first trace is a login whose session cannot be issued, behind its `last_login_at`.
  (Signing, encoding and drawing a token practically do not fail; the model keeps
  their branches.)

Noticed while modelling, without a run of their own: any error of the
transaction that inserts a document, a lost reply to its COMMIT included, is
answered by deleting the object, so that the row is there and its evidence is
gone, whereas docs/STORAGE.md:108-110 says that this never happens (put
"lost commit" into `Faults` and TLC refutes `RowHasObject`); exports ask for an
anchor of a type that the table's CHECK rejects, so that none is ever anchored,
and widening the CHECK alone would be worse, since `document_version` is always 1
and the export and the upload would compete for one key of the ledger
(`LedgerVerdictJust` with the mutant `EventAllowedAll`: an untouched document is
answered CHAIN_MISMATCH); the index that is said
to make two simultaneous scans of the chain impossible counts rows, while a run
that is merely slow gives its row up and goes on scanning; two verifications at
once may leave the status of the older comparison; an export is made from bytes that
nobody compares; a redaction or an export whose Put failed half-way leaves its object; the loser of a certificate race
records CERTIFICATE_CREATED again; a comment
in migration 1 calls `seq` gap-free and it is not; a PENDING anchor whose enqueue
failed is never enqueued again; two refreshes at once with one token both
succeed; a throttle whose EXPIRE failed never opens again; two updates of a case
may combine to a forbidden transition and take it out of ARCHIVED, which the
comment on `caseStatusTransitions` calls terminal; two removals of one member
both record CASE_MEMBER_REMOVED; an expired share blocks a new one until
somebody revokes it.

Of the process and its streams: the server's WriteTimeout (15 s,
`httpserver/server.go:21`) ends every stream long before the documented hour; an
HTTP shutdown with an open stream uses up the timeout that the wait for the
reader of Redis shares, so that Redis may be closed under it although
`cmd/server/main.go:160-168` explains why it must not (`ReaderStopsFirst` excepts
exactly this); Asynq's `Run` handles signals itself, so that main's own
`worker.Shutdown` may find nothing to do; `reconcileStale` fails a row and neither
publishes nor records it; the comment at `sse/manager.go:42` says that a full
buffer drops the oldest event, the code drops the newest; `NewMinIO` may find
the bucket missing in two processes at once; ADMIN_BOOTSTRAPPED goes to the log,
not to the chain.

Of requests: `Stats` queries the pool inside its own transaction, so that as many
of them as the pool is large wait for ever (`RequestsAnswered` excepts exactly
this, `StatsJam`), and those queries run without an identity, so that row-level
security makes their counts 0, against the comment there; `Record` uses the
request's context, so that whoever disconnects behind a COMMIT leaves a change
that the audit trail does not show (`ChangesRecorded` excepts requests that were
hurt); `StartVerification` returns before its `Record` when the enqueue fails; a
refresh whose `RevokeAndReplace` fails leaves both sessions valid; a failing read
of the anchor counts as "not anchored" and may end in VERIFIED
(`blockchain_anchor_service.go:663`); `Recovery` may append a second JSON body to a
response that had begun; a body over the limit is answered 400; OFFSET
overflows for huge pages, rows of one instant have no order, and the audit log
never ends for a client with `page_size = 1`, since each page adds an entry.

## 6. What is not modelled

* Access tokens (stateless), HTTP decoding, validation and formatting of fields
  (a choice among the statuses they end in), logging, metrics, security headers,
  request ids: no state depends on them.
* Asynq, Redis, PostgreSQL, MinIO and Fabric are not under `src/`: they appear as
  far as the code relies on them (queue with retries and redelivery, READ
  COMMITTED, unique indexes, advisory locks, endorsement and MVCC validation).
* Cryptography: hashes are symbolic, passwords are version numbers, AES-GCM
  watermarks and signatures are left out.
* Frontend, deployment, Fabric network: no logic of the server's state.
* `cmd/migrate` beyond its configuration, and the adapters of MinIO, the file
  system, Redis and the key files: thin layers whose callers' view is modelled.
* The composition of the component modules' data with RequestPipeline: it would
  multiply their states by those of every route, and no property needs both.

## 7. Plan

In this order.

1. Proofs: an abstract specification of DocumentStore, a write-once store, that
   `Spec` without "lost commit" implements, in DocumentStoreProofs, where
   `ObjectInv` is already available.
2. **CaseAccess**: `ArchivedIsTerminal`, which two concurrent `UpdateCase` calls
   refute; certificates as a further operation.
