# Verification of crm-media

TLA+ modules, TLC configurations and TLAPS proofs for `crm-media`, the storage,
antivirus and e-mail service of the CIMA CRM. Paths below are relative to the
repository; `contracts/` abbreviates `cima-contracts/src/`.

- `tlc -config <cfg> <MC module>` runs one of the twelve checks of section 4.
- `tlapm <module>.tla` checks the proofs of one of the eight proof modules of section 6
  (`CommandStreamProofs`, `DocumentPipelineProofs`, `EmailDispatchProofs`,
  `AntivirusProofs`, `IdentityAvatarsProofs`, `TokenGateProofs`, `MediaWorkerProofs`,
  `ServerProcessProofs`).

## 1. Inventory

The program is a Node service: an HTTP server and a consolidated worker, several
replicas of each, around PostgreSQL, Redis (streams, BullMQ, pub/sub, plain keys), OCI
Object Storage, a ClamAV daemon and an SMTP relay. Each process is single-threaded, so
between two `await`s nothing else of that process runs, and at every `await` anything of
any process may. Almost everything that is hard in it follows from that: a check in one
call and the act in another, with no transaction or lock across them.

| Component | Code | State | Operations | What makes it correct |
|---|---|---|---|---|
| Command stream | `contracts/event-consumer.ts`, `src/workers/media-command*.ts` | stream and consumer group (cursor, pending list with counts), responses, dead-letter stream, each replica's batch | start, stop (pill), XAUTOCLAIM, XREADGROUP, handle, answer, ack, dead-letter; list, reinject, delete a letter | a command is acknowledged only when something has come of it; redelivery is bounded; every entry is settled; a letter is removed only when it is back on the stream |
| Documents | `src/modules/media/document.service.ts`, `collab-document.service.ts`, `src/jobs/run-quarantine-scan.ts`, `src/shared/storage/oci-storage.ts` | objects under `quarantine/` and in production, `media_assets`, pre-authenticated requests | upload URL, PUT, confirm, resolve metadata, promote, sweep, delete (personal, collab), anonymise | only scanned contents reach production; a clean upload is never lost; the quarantine drains; a deletion lasts; a registered document has its object |
| Antivirus | `src/shared/security/clamav*.ts`, `sha256-reputation.service.ts` | per process: state, activeScans, last activity; the daemon; `file_reputation` | warm up, poll, evaluate idle, suspend, scan, record | a scan is counted while it lasts; nothing infected is called clean without the daemon's word; the daemon is woken when needed |
| E-mail | `src/modules/email/*`, `src/workers/email.worker.ts` | BullMQ's record of an id, finished records kept, the workers' slots | dispatch, take, send, retry, stall, forget | one mail for one command unless an acknowledgement or a lock was lost; truthful answers; an accepted mail is sent or given up |
| Identity and avatars | `src/workers/identity-event.worker.ts`, `avatar-preset.service.ts`, `src/scripts/migrate-user-avatars.ts` | `user_avatars`, left-over avatar rows, PII in the audit log | handle user.registered / user.deleted, save a preset, migrate | a chosen preset is kept; a registered user gets an avatar; nothing of a deleted one is left |
| Token gate | `contracts/hono-auth-middleware.ts`, `jwks.ts`, `token-blocklist.ts` | cached JWKS document, cached verifications, blocklist and session cut in Redis | fetch, verify, look up, admit, refuse; revoke | what is remembered is as good as what is verified; revoked tokens are refused; keys that are withdrawn lapse |
| Worker process | `src/workers/media.worker.ts`, `contracts/worker-health.ts`, `redis.ts` | flags, timers, consumers, mails in progress, pool, health file | start, tick, stop on a signal, exit | sweeps never overlap; the pool outlives the work a stop waits for; a signal ends the process |
| PAR pruning | `src/shared/storage/oci-par-prune.ts` | OCI's list of requests | delete expired ones before creating one | deletes only expired requests, all that were due when it began, at most OCI_PAR_PRUNE_MAX of them; ends |
| Storage statistics | `src/modules/media/storage.service.ts` | 30 s cache | read, refresh, clear | figures are no older than the cache's life, forced ones no older than the request |
| Rate limit | `src/shared/middlewares/rate-limit.middleware.ts` | a map of windows | count or refuse, clean up | how many requests any stretch of time lets through; nobody is refused too early |
| Audit | `audit.repository.ts`, `src/db/scripts/*partition*` | append-only table and stream | append, create partitions | an audited action leaves a row |
| File validation | `src/shared/security/file-validation.ts`, `sanitize-filename.ts` | none | check one buffer | refuses what ClamAV must not see and what is not what it says; the walk over a ZIP's bytes finds what the ZIP lists |
| HTTP process | `src/server.ts` | isShuttingDown, connections | stop on a signal, on a second one | what has begun is answered before the process ends, and it ends |
| HTTP, health, contracts, configuration, scripts, metrics | `src/app.ts`, routes, controllers, `contracts/*` | none of their own | parse, authorise, report | – |

How they interact:

```
client --URL--> server --PAR--> OCI quarantine <--PUT-- client
crm-collab --XADD--> stream:collab.media-commands --group--> worker replicas --XADD--> responses
                                                      |  retries spent -> DLQ <--list/XADD/XDEL-- replayers
server, worker, sweep --promote--> scan (ClamAV) --> OCI production, media_assets
controllers --pub/sub--> ClamAV manager --> daemon
crm-auth --XADD--> stream:auth.identity --group--> identity consumer --> user_avatars, media_assets, audit_logs
producers --POST--> server --BullMQ--> worker slots --SMTP--> relay
```

The components meet in narrow places, which is why they are modelled one by one:
`CommandStream` sees of a command only whether it succeeds, fails or needs an object
that is gone; `DocumentPipeline` sees of a command only the procedure it starts, and of
a scan only its verdict or an error; `IdentityAvatars` uses of the consumer only that a
fresh event comes in order and a pending one any time again, which is what
`CommandStream` shows of it; `MediaWorker` sees of each part only whether it works;
`Antivirus` and `ServerProcess` extend `FileValidation` and use its checks as they stand.

The behaviours that are hard, each at its line, are the `hazards` of `PROJECT.json`.
They fall into five groups: procedures over the same object or entry that overlap
(promotions, deletions, replicas, replayers, requests with one cache); effects whose
answer is lost (XADD, SMTP, DELETE); processes that die between two calls; values used
after an await that others may have changed (downloaded objects, JWKS documents,
a controller's idea of the daemon, the migration's list of users, a listing of requests
others delete from); and waits that nobody has promised to end.

## 2. Modules

| Module | Models | Proofs |
|---|---|---|
| `CommandDelivery` | abstract: what the command channel promises | |
| `CommandStream` | the consumer group, its replicas, dead letters, replayers | `CommandStreamProofs` |
| `DocumentLife` | abstract: what a document's key holds and what is registered for it | |
| `DocumentPipeline` | quarantine, production, rows and the procedures over them | `DocumentPipelineProofs` |
| `FileValidation` | the checks of one buffer, as operators without state | |
| `Antivirus` | standby controllers, the daemon, scans, reputations | `AntivirusProofs` |
| `EmailDispatch` | dispatchEmail, the BullMQ record, worker slots, the relay | `EmailDispatchProofs` |
| `IdentityAvatars` | identity events against presets and the migration | `IdentityAvatarsProofs` |
| `TokenGate` | authentication of a request | `TokenGateProofs` |
| `MediaWorker` | the worker process's start and stop | `MediaWorkerProofs` |
| `ServerProcess` | what the HTTP process keeps in memory, PAR pruning, its end | `ServerProcessProofs` |
| `MC*` | symmetry sets, and what a .cfg cannot write: the tokens of `TokenGate`, contents and archives of `FileValidation` | |

In all of them a step is what the code does from one `await` to the next; the operator
in front of a group of actions names the function, and `PROJECT.json` maps each
definition to its lines. A call that fails does so before or after it took effect
(`Fault`): both outcomes are disjuncts of the action. A process that dies loses its
variables and keeps nothing. `Max...` constants bound how often that happens, and
nothing else; a bound never changes what an action does.

### CommandStream

An entry is its position in `stream`. `count[i]` is the delivery counter of the pending
list (0: not pending), `last` the group's cursor, `idle` the pending entries older than
`pendingIdleMs`. A replica's `pc` follows `readLoop` (`reclaim`, `read`) and
`processMessages` for the entry at the head of its `batch`: `take` (pill, malformed or
getDeliveryCount), `handle`, `publish`, `ack`, and for a dead letter `respond`, `bury`,
`settle`. An error of the handler, of the answer or of the ack inside the `try` goes to
`RetryOrBury`: left pending below `MaxRetries`, dead-lettered from there. An error in the
dead-letter path leaves `processMessages` and abandons the batch (`Abandon`). handleDlq
swallows a failed append (`lost`), whether or not the letter was written. A replayer
lists the letters and takes them one by one: check (XRANGE), XADD, XDEL, each of which may
fail; it may die between any two, as often as it likes. `dlqLog` is
history: every letter ever written; `dlqLive` is what is left on the stream.

Left out: trimming of the streams (`MAXLEN ~`), which only matters when tens of
thousands of entries are outstanding; the reclaim cursor (XAUTOCLAIM starts from `0-0`
and takes the oldest); the contents of commands and answers.

### CommandDelivery

Three variables: which entries carry a command, what has come of each (`answered`,
`dead`, `logged`), which are closed. An entry is closed only when something has come of
it, and nothing is ever taken back. `CommandStream!ImplementsDelivery` is the refinement
`accepted <- entries on the stream`, `outcome <- answers, letters, log lines`,
`closed <- acknowledged`; it is model-checked and proved.

### DocumentLife

Three variables: what has been uploaded to each key, what can be fetched under it, what is
registered for it. What becomes available or registered was uploaded to that key and is
clean; a registration is made where there is none; a step changes one key's object, or
the register, or neither. `DocumentPipeline!ImplementsLife` is the refinement
`uploaded <- sent`, `available <- prod`, `registered <- row`; quarantine, buffers in
memory, sweeps and the steps of the procedures are what it abstracts from.

### DocumentPipeline

`quar[k]`, `prod[k]` are the objects, `row[k]` the row of `media_assets` with its id.
A content stands for its size. A process is one procedure in progress: `Requests` for an
HTTP call or a stream command, `Sweepers` for `runQuarantineScan`. `Find`, `Get`, `Scan`,
`Upload`, `Clear` are `tryPromoteFromQuarantine`; `Drop` is what its callers do when it
says rejected; `Sweep`, `SweepItem`, `Expire`, `NextItem` the sweep with its grace period
and maximum age. The listing names no fields, so it may come without `timeModified`: an
object under a key of `Undated` counts as just past the grace period at every sweep, and
never as too old (run-quarantine-scan.ts:39). `Look`, `Wait`, `Meta`, `Insert` are the confirmation and the polling of the
collaboration command, `Select` ... `DeleteRow` the two deletions, `ListRows`,
`WipeObject`, `WipeRows` the removal of a user. A scan answers, throws, or never ends
(a ping that never settles, clamav-standby.controller.ts:174): then a request is as good as
gone, and a sweeper sweeps no more (`Hang`), since its timer finds the flag up.
The stand-alone worker has no flag; its ticks are as many sweepers.

`sent`, `fate` are history: what was uploaded to a key so far, and what became of the last
upload: `kept`, `cleared` (the quarantined copy was removed for its age, or by a deletion
that then failed), `removed` (a removal is under way or has broken off), `restored` (an
object or a row appeared after that), `deleted` (a deletion was answered with nobody holding
the content), `answered` (one was answered while somebody did).

Abstractions: a sweep's listing is one page read at once; a call under `withRetry` is
one call; deleting a missing object is an error, as OCI answers 404; pruning of requests is
left out. `Get` is the download and the HEAD for the type behind it as one step: a HEAD that
fails gives the default type and no error, and contents whose verdict depends on the type
are left out (`Clean` passes and `Rejected` fails under every type a HEAD can give). The
row a collaboration deletion looks for and would delete is never there, because only keys
under `documents/` are registered; of that query only its failure is modelled (`Probe`).

### Antivirus

One `ClamavStandbyController` per process: `state`, `active` (activeScans), `idle`
(lastActivityAt is 15 minutes old), `polling`. `bus` holds control messages on the way to
the manager outside this repository, which boots or stops the `daemon`. A scan goes
`alive` (ensureReady's ping) → `wait` (polling while it boots) → `scanning` → idle, or
hangs in a ping. The daemon's `Verdict` has three answers: infected, clean, and
clamscan's `isInfected: null`, that it could not scan; clamav.ts:72-83 ask whether the answer
is truthy, so the third is recorded and returned like the second. `missed` is history: the
infected contents it was given for. `Contents` gives each file its buffer; one that is not
`Valid` (`FileValidation`) is refused before the daemon is asked. Waking by HTTP
(CLAMAV_MANAGER_URL) is not told apart from waking over Redis.

### EmailDispatch

`job[id]` is BullMQ's record: state, body, attempts made, stalls, the slot that owns it.
A call makes two round trips (`Add`, `Read`), a slot runs `Check`, `Send`, then reports
(`Complete`, `Fail`, `Retry`). `Forget` is removeOnComplete / removeOnFail: other commands
finish all the time, so a finished record may go at any moment. `tally` is history: whether
a command was ever queued, ever accepted by the relay, and how often it still may be (once,
and once more for each cause: lost acknowledgement, lost lock, record forgotten). There are
finitely many worker slots (`concurrency: 5` of each replica): the proof counts them. A relay
that accepts a mail for some recipients and rejects others fails the job for good
(email.mailer.ts:83) although part of it is on its way: `Send` accepts and fails.

### IdentityAvatars

One user, under `Sub` and possibly an `Alias`; the two events of that user; replicas of
the consumer; calls of `saveAvatarPreset`; the migration script (`Plan`, `Fetch`, `Put`,
`Residue`; without `--all` and `--dry-run`). The consumer differs from the one of
`CommandStream` in that a spent event is only logged. `raced` is history: a preset was
saved while the script already had the user on its list. A statement that fails may have
taken effect. `WipeAssets` is the selection, the removal of the objects and that of the rows
in one step: nothing adds an avatar row to `media_assets` any more. `Used` adds up the deaths, errors
and slow handlers so far. `quiet` is history too: at the
deletion nothing else was under way for the user, and since then no failure has gone
unrepaired.

### TokenGate

One integer clock. `jwks` is the client's document with its end of life, `verified` the
cache of verifications in insertion order, `blocked` and `session` the two revocations in
Redis. A request is in `pem`, `load`, `refresh` (JWKS), `token`, `sign` (verification),
`blocklist`, `session`. An `iat` or `exp` of 0 is one the token does not carry: without `exp`
it never expires and its verification is not remembered; without `iat` no revocation of the
sessions concerns it (`Predates`; hono-auth-middleware.ts:202, token-blocklist.ts:79). A fetch
that times out is not tried again (`FetchTimesOut`; retry.ts:14). Modelled for a JWKS endpoint and tokens with a key id. Without
Redis the middleware behaves as when a call fails, which is one of the faults.

### MediaWorker

`main` is where `startMediaWorker` is, `stop[s]` where the stop a signal began is. A
consumer is reading or working, a sweep is running, a mail is being sent: the rest is in
the modules above. A cycle of the dead-letter replayer and a health check in progress go
on when their timer is cleared. `pool.end()` takes two steps: from `CloseRedis` on the pool
gives out no clients and waits for those that are out (`held`, of any of the sweep, the
handlers and the checks at work); each comes back when PostgreSQL answers (`Return`), which
nothing promises, as pg-config.ts sets no time-out for a query; then `EndPool`. A second
stop's `pool.end()` is refused and that stop goes on to `process.exit`. History: `revived`,
the consumers started after a signal (what starts with the identity consumer, the replayer,
the e-mail worker and the health check, goes by its name); `overdue`, `overran`,
`health.late` and `replayer.late`: a stop has gone on without the sweep, the consumer, the
check or the cycle that is still in progress.

### FileValidation

Pure operators: `CheckZipBomb`, with `EocdOffset` (findEocdOffset's search backwards) and
`Walk`, the loop over the central directory as a recursive function; `Executable`;
`Valid`, which is validateDocumentMagicBytes. A buffer is its length, the format its first
bytes are those of, and where in it the signatures of a ZIP's structures stand with the
fields behind them. The second half packs an archive (`Buffer`) from what it lists, from
the length of its comment, from whether that holds the bytes of an end record, and from
the bytes missing at its end, and says of the listing what the walk is to find
(`Harmless`). `Rounds` is the loop as a function of the rounds it has made.
`Packable` says for which archives that comparison has a meaning, and `ArchivesOK` assumes
it of the archives of an instance: when a comment holds the bytes of an end record and the
archive is cut, or the comment is exactly one end record long, the bytes have two readings
and the ZIP format does not say which counts; what is cut shorter than an end record is
passed by the first line of the check (file-validation.ts:121), whatever it once held.

### ServerProcess

What an HTTP process keeps between requests that yield at every await: the rate limit's
`attempts` (one step: there is no await between reading a window and writing it), the
cached `stats` (`Ask`, `Read`, `Keep`), its own end (`Signal`, `Close`, `Exit`); and `pars`,
OCI's list of requests, with the prune before every new one (`Prune`, `ListPage`,
`Delete`, `Create`). A creation that fails, or whose answer has no access URI, may have made
a request at OCI all the same: one, also when it is tried three times. One request is in one of these at a time; `Workloads` says which kinds
come in one behaviour, because the parts share only the clock and the end. A figure is
the time at which it was read; a request's `due` and `missed`, and `passed` (when a bucket's
requests were let through), are history.

## 3. Abstract specifications

Two are stated as state machines. `CommandStream` is shown to implement `CommandDelivery`
(`ImplementsDelivery`, checked in `replicas`, proved as `DeliveryIsImplemented`), and
`DocumentPipeline` to implement `DocumentLife` (`ImplementsLife`, checked in `upload`,
proved as `LifeIsImplemented`). `DocumentLife` allows a withdrawn document to become
available again, since the code does (section 5); when it does not is what `DeletionLasts`
says. `FileValidation!Harmless` is the specification of the walk over an archive's bytes,
stated over the listing alone and compared with it on packed archives (`ArchivesJudged`).

## 4. Runs

| Run | Module, cfg | Question | Bounds, and why they are enough |
|---|---|---|---|
| `replicas` | `CommandStream_replicas` | Do two replicas that take entries from each other bound redelivery, keep the promise of `CommandDelivery` and settle every entry? | 2 replicas, one deletion (the command that cannot be run twice), MaxRetries 2, one death, one error. One entry: entries interact only through a batch, which `replay` has. `EveryEntrySettled` is about deaths, lost replies and replicas that take from each other here. |
| `replay` | `CommandStream_replay` | Is anything acknowledged or removed before it is safe, and is what an error leaves of a batch settled in the end? | 1 replica with batches of 2 that does not die, 2 replayers that may die at any step, a deletion and an entry that is not JSON, pill and reinjected letters competing for 2 entries of the stream, one error. Two replayers are enough for one to act on what the other has listed, two entries for one to be abandoned behind the other. |
| `upload` | `DocumentPipeline_upload` | Is anything unscanned promoted, is a clean upload ever lost, does a deletion last, has a registered document its object, and is every step one of `DocumentLife`? | 2 requests and a sweep over one personal key uploaded up to twice (clean or not), 2 rows, one death, one error. Keys do not interact except in a sweep's page and the removal of a user, and there only by ending it; `LifeIsImplemented` is proved for any number of them. |
| `drain` | `DocumentPipeline_drain` | Does the quarantine drain through sweeps that errors and hung scans end, and does the collaboration's deletion last? | 2 sweepers and 1 collaboration command, of which two are at work at a time (`MaxBusy`); a personal key whose object has a time and a shared one whose object has none, each uploaded once, so that a sweep an error ends has an object behind it; one error; any scan may throw or hang. |
| `count` | `Antivirus_count` | Are scans counted, infected files stopped, own scans spared? | 2 controllers, 2 scans, 4 files (clean, infected, of another format than they declare, an archive), of which any may be answered as one that cannot be scanned, one hang, one error, one death. |
| `stuck` ✗ | `Antivirus_stuck` | Is a sleeping daemon woken when a scan waits? | 2 controllers, 1 scan, no faults. |
| `mail` | `EmailDispatch_mail` | Sent twice only for cause, answers true, receipts settled? | 1 id, 2 bodies of which one has a deadline that comes in time, 2 calls, 2 slots, 2 attempts, 1 stall, 2 commands. Ids share nothing but the number of records kept, which `Forget` stands for. |
| `server` | `ServerProcess_server` | What do windows, caches, prunes and the walk over an archive let through, and does a stop end between requests? | 2 requests at once, 1 bucket, clock to 2, windows, cleanup and cache lives of 2; 3 PARs in pages of one (so that a prune sees a page others have emptied) with a limit of 2; 1 error, 2 signals; archives of up to 3 entries with extras, comments of 0 to 60 bytes (one holding an end record), up to 40 bytes missing. |
| `choice` | `IdentityAvatars_choice` | Is a saved preset kept, is nothing of a deleted user left, and does a registered user get an avatar, before the event is acknowledged and in the end? | 2 replicas, 1 call beside the script, 2 names, MaxRetries 3, one error, one death, one slow handler. |
| `verify` | `TokenGate_verify` | Is a remembered verification as good as a fresh one? | 2 requests, 4 tokens of one key (one older, one without `iat`, one without `exp`, one not genuine), a cache of one entry (so it is always full), 1 revocation, 1 fault, clock to 3. |
| `rotation` | `TokenGate_rotation` | Do out-of-order documents refuse a good key or keep a withdrawn one? | 2 requests, 2 keys, clock to 3 with lives of 1: a document can expire, be fetched twice and be stored in either order. |
| `stop` | `MediaWorker_stop` | Does a stop end the process, and only after its work? | both signals, 1 mail at once, 1 health check or replay cycle in progress, 1 outage or death, any of the sweep, the handlers and the check in a query when the pool ends. |

✗: expected to be violated; see section 5. `CHECK_DEADLOCK FALSE` is given in `mail`,
`choice` and `server` only: there a bounded environment (commands received, events sent,
the clock, the process that has ended) comes to an end and nothing is left to do.

What the runs check beside the type invariants (those of `CommandStream`,
`DocumentPipeline`, `Antivirus`, `IdentityAvatars` and `MediaWorker` are proved and need no
run; that of `EmailDispatch` also says that an attempt under way is one the queue grants,
that of `TokenGate` bounds the cache, that of `ServerProcess` a prune):

- `AckedIsSettled`: an acknowledged command is answered, a dead letter, or its failed
  dead letter was logged. `RemovedIsReinjected`: a letter that was deleted is back on the
  stream.
- `DeliveriesBounded`: an entry is delivered `MaxRetries` times, plus once for each other
  replica, death and failed call. `EveryEntrySettled`: and it is acknowledged in the end.
  `ImplementsDelivery`: every step is a step of the promise.
- `ProductionIsClean`; `UploadKept`: a clean document uploaded once is in quarantine or in
  production until someone removes it; `QuarantineDrains`:
  while not all sweepers are caught in a scan, what is in quarantine leaves it, an object
  without a time under the premise that a scan begun again and again answers at last
  (`Answering`). `DeletionLasts`: once a
  deletion is answered with nobody holding the content, no object, no quarantined copy and
  no row comes back before the next upload. `RowHasObject`: a row without object is one
  whose removal is under way or has broken off, or that a confirmation inserted after a
  removal went by. `ImplementsLife`: every step is a step of the promise.
- `ActiveCountsScans`: activeScans is the number of scans in progress, through every way
  out of one. `FailsClosed`: nothing invalid is called clean, and nothing infected but
  what the daemon said it could not scan.
  `SparesItsScans`: no controller suspends under its own scans. `WokenWhenNeeded`: a
  sleeping daemon a scan waits for is woken (violated, section 5).
- `ResentForCause`: a mail reaches the relay once, and once more for each cause.
  `AnswersAreTrue`: what a producer is told was so. `ReceiptSettles`: a record ends.
- `ChoiceKept`: a saved preset is not replaced, except one saved while the script held the
  user on its list. `NothingLeft`: after the deletion of a user is acknowledged nothing is
  left under their sub, except through a registration, a call or the script that was under
  way, the swallowed failure of the avatar's row, or three failed tries. `AckedIsAssigned`:
  a registration is acknowledged when the user has an avatar, or after as many deaths,
  errors and slow handlers as it has tries. `AvatarAssigned`: without that many, the user
  gets one.
- `AdmittedIsGenuine`, `RevokedIsRefused` (from the revocation of the token, or of the
  sessions if the token has an older `iat`, to the second in which the entry ends, unless
  Redis failed), `RefusedForCause`, `WithdrawnKeyLapses`.
- `SweepsSerial`; `PoolOutlivesWork`: from `pool.end()` on, what is still at work is a
  sweep or a consumer the stop has given up, a check or a cycle that was in progress when
  its timer was cleared, or what a start under way has begun after the signal, part by part.
  `FileStaysGone`: after the health check is stopped its file is gone, and stays so, unless a
  check was in progress. `ShutdownEnds`: a signal ends the process, unless its stop waits in
  `pool.end()` for a query and no second signal comes.
- `RateLimited`: no stretch as long as a window lets 2 * maxAttempts through, and whoever
  is refused has used up the limit. `AnswersAreRecent`, `ExpiredAreGone`, `ArchivesJudged`,
  `StopsBetweenRequests`; `RequestsEnd`: requests and a stop come to their end.

Each is also run against mutants of the code's definitions (a dropped guard, an
off-by-one, a swapped order; they stand before the definition they change, marked
"Mutation") and is violated by one of them.

### Fairness, and why the code justifies it

- A replica that has stopped is started again: `restart: unless-stopped`
  (docker-compose.yml:10, :54). Its loop goes on: an event loop that runs what is ready,
  and every call of it has a timeout or an answer.
- Pending entries age (`GoIdle`): time passes. Which is why a slow handler's entry may be
  reclaimed, and why a dead replica's is.
- Requests expire and objects that have a time age; a procedure under way proceeds; the
  sweep's timer fires every interval (`setInterval`, media.worker.ts,
  quarantine-scan.worker.ts), but not for a sweeper whose last sweep waits in a scan that
  never ends. That such a scan can be is why `QuarantineDrains` speaks of the sweepers that
  go on. That a scan repeated for ever gives a verdict at last is assumed in the property,
  for objects without a time only (`Answering`, strong fairness): ClamAV is woken and boots.
- BullMQ promotes delayed jobs, checks for stalled ones and hands out waiting ones; a
  slot proceeds, because the transport has connection, greeting and socket timeouts
  (email.mailer.ts).
- A stop proceeds: what it waits for has a deadline of its own (5 s for the sweep, 3 s for
  a consumer), mails end for the reason just given, and Redis comes back, since it is
  restarted like the rest. No query of PostgreSQL is assumed to return (`Return`), as none
  has a time-out.
- A request of the HTTP process proceeds and a closed server exits: calls answer or fail
  (the OCI SDK, the pool with its connection timeout in pg-config.ts:10, the fetch with its
  AbortSignal in storage.service.ts:74), and the event loop runs what is ready.
- No fairness is assumed for producers, clients, signals, errors or deaths; messages of
  the control channel that are lost are faults and bounded; replayers die as they like.

## 5. Findings

- `stuck`: `ensureReady` of a controller whose state is `ready` calls `triggerWarmup`
  after a failed ping, which returns for exactly that state
  (clamav-standby.controller.ts:69). Its spec promises that ensureReady waits for the
  daemon while it warms up. With two processes the other one suspends the daemon, this one
  never asks for it to be woken, and every scan of it fails until it is idle itself.

Divergences met while modelling on which no run is spent; the steps are in the modules:

- docs/DOMAIN.md:34 says that a deletion removes the object and purges its metadata. A
  promotion that has downloaded the object before the deletion uploads it to production
  afterwards (collab-document.service.ts:30), and the personal deletion does not look at
  the quarantined copy at all: the document is back, without a row. `DeletionLasts` says
  what does hold; its fate `answered` is this case.
- docs/DOMAIN.md:34 again: an error or a death between the object's removal and the row's
  leaves the row, and deleting again fails on the missing object (document.service.ts:196).
- docs/DOMAIN.md:32: a document is registered after its existence was verified, by another
  call; deleted in between it is registered without object (document.service.ts:119). The
  opposite too: the removal of a user drops rows confirmed since it listed them and keeps
  their objects (document.service.ts:229).
- docs/DOMAIN.md:59: a repeated command is recognised by its BullMQ record, which is
  removed by count or age while the command's deadline may be ahead (email.queue.ts:11).
- docs/INTEGRATIONS.md:46: commands with unrecoverable errors are isolated in the dead
  letters, except when the append fails: the error is swallowed and the entry acknowledged
  (media-command.worker.ts:117). `lost` is that case.
- docs/INTEGRATIONS.md:50: the deletion of the avatar row may fail unnoticed
  (document.service.ts:233), user.registered tried again after user.deleted stores the
  avatar of a deleted user (identity-event.worker.ts:92), and an avatar stored under another
  id of the user (avatar-preset.service.ts:56) is not removed at all. `NothingLeft` is about
  the `sub`, without these.
- hono-auth-middleware.ts:202, token-blocklist.ts:79: a token without `iat` is admitted after
  the sessions of its user were revoked, with Redis in order. A revocation of a token ends in
  the second in which the token does, and the token is good through that second
  (hono-auth-middleware.ts:122): in it the revocation may have gone first.
- media.worker.ts:189: a signal's stop waits for `pool.end()`, and that for every client that
  is out; a sweep or a handler that was left behind after five or three seconds because it
  hangs in a query holds the process up until PostgreSQL answers, a second signal comes or
  the container's grace is over. `PoolHeld` in `ShutdownEnds`.
- media.worker.ts:160: what startMediaWorker starts after a signal is not stopped by it;
  `revived` in `PoolOutlivesWork`.
- docs/INTEGRATIONS.md:45 speaks of one correlated answer; a command reclaimed while it
  is handled has two, possibly one `ok` and one `failed` (event-consumer.ts:229).
- clamav-standby.controller.ts:174: a ping whose socket closes without data, error or
  timeout never settles; the sweep that waits for it is the last of its process, and a
  quarantine whose sweepers are all caught so is drained by requests only. `Hang` in
  `DocumentPipeline` and `Antivirus`, the exemption in `QuarantineDrains`.
- run-quarantine-scan.ts:8 speaks of a retention that abandoned uploads do not bypass. The
  listing (line 25) names no fields, and an object it gives no `timeModified` for is taken
  up within its grace period and never removed for its age (line 39): while ClamAV gives no
  verdict on it, it stays. `Undated` is this case, the premise of `QuarantineDrains` for it.
- clamav.ts:72: clamscan answers `isInfected: null` when it could not scan a stream, and
  that is recorded and returned as clean; the reputation lets the same bytes through from
  then on. `missed` in `FailsClosed`.
- clamav-standby.controller.ts:127: a controller spares its own scans, not those of
  another process.
- identity-event.worker.ts:148: an event that fails three times is logged and gone;
  `AvatarAssigned` holds for the error, the death and the slow handler `choice` allows;
  with one error more on every delivery it would not.
- event-consumer.ts:73: `maxRetries` counts deliveries, so deaths and slow handlers use
  up the retries of a command that never failed.
- migrate-user-avatars.ts:2: the script is for users without avatar; it replaces a preset
  saved after it selected the user (`raced`).

## 6. Proofs

The theorems hold for every value of the constants that satisfies the assumption its
module names (`ConstantsOK`, `DocumentConstantsOK`, `EmailConstantsOK`, ...): any number of
replicas, replayers, commands, keys, procedures, scans, slots, requests and faults. TLC
evaluates each assumption in the runs of its module. Of the archives of `FileValidation`
`ArchivesOK` is assumed (section 2), of its limits `LimitsOK`. Every safety property of
section 4 is proved.

| Theorem | States | Inductive invariant, and why it is needed |
|---|---|---|
| `CommandStreamProofs` | | |
| `TypeCorrect` | `[]TypeOK` | with `PositionsOK`: batches, counters and letters concern delivered entries only. Without it XACK of an entry never delivered could not be excluded. |
| `SettlementCorrect` | `[]AckedIsSettled` | `Settled` adds `AckIsEarned`: a replica about to acknowledge has answered or buried the entry. Outcomes only grow, so that what another replica does in between takes nothing back (`Grows`, `MovesAreEarned`, `AcksAreEarned`). |
| `ReplayCorrect` | `[]RemovedIsReinjected` | `Replayed` adds `RemovalIsEarned`: a replayer at its XDEL has put a copy on the stream; the stream only grows. |
| `DeliveryIsImplemented` | `ImplementsDelivery` | `Delivered` = `Settled` and `CommandsInHand`: a pill is never in the hands of a replica past `take`, so that whatever is answered or buried was a command that was accepted. Each action then maps to `Accept`, `Report`, `Close` or a stutter. |
| `RedeliveryIsBounded` | `[]DeliveriesBounded` | `Bounded`: from the `MaxRetries`-th on, each delivery of an entry is paid for by a death, by a failed call, or by a replica that still holds the entry and settles it unless one of these happens (`Settlers`). A replica whose loop is between batches holds nothing (`EmptyHanded`). |
| `WorkAdvances` | `[]WorkBounded`, `[][WorkForward]_vars` | Variant: seven steps for each entry of the batch behind the one in hand, and the place of that one. `WorkInv`: a replica at a message has one, and never more than `BatchSize`, the greatest of the entries handed out having fewer than that before it. |
| `DocumentPipelineProofs` | | |
| `DocumentTypeCorrect` | `[]TypeOK` | inductive, group by group: stores, rows, client, procedures, bounds |
| `OnlyCleanInProduction` | `[]ProductionIsClean` | `CleanInv` adds `Scanned`: what a procedure at `upload` holds has passed the scan, and what one at `insert` registers was read from production. It is the buffer that was scanned that is uploaded, not the object, which is why a second upload meanwhile does no harm. |
| `DeletionsLast` | `[]DeletionLasts` | `DeletedInv`: of a removed document nothing is in production, of a deleted one nothing anywhere, nobody holds it or is about to register it, and a deletion has found only rows of its own document. |
| `UploadsAreKept` | `[]UploadKept` | `KeptInv`: of a document uploaded once, what is in quarantine and in anybody's hands is that content, whoever gives up the quarantined copy has put it in production, and only rejected contents are dropped. |
| `RegisteredIsStored` | `[]RowHasObject` | `RowInv`: a procedure is only in the steps of its own kind, a collaboration's document is never registered, a key nothing was uploaded to has neither object nor row, and a confirmation at `insert` whose document nobody has removed sees it in production. |
| `LifeIsImplemented` | `ImplementsLife` | `LifeInv` = `CleanInv` and `Traced`: what is in a key's quarantine or production was uploaded to that key, and what a procedure scans, uploads or registers was too (`Carried`), since it takes up another key with empty hands. Each action then maps to `Accept`, `Publish`, `Register`, `Withdraw`, `Deregister` or a stutter. |
| `ProceduresAdvance` | `[][ProceduresForward]_vars` | Variant: what is listed and not yet taken, as a set, since keys may be infinitely many; then the order of the calls for one key. A sweep may also be left in a scan that never ends. Needs the types only. |
| `EmailDispatchProofs` | | |
| `EmailTypeCorrect` | `[]TypeOK` | inductive |
| `ProducersAreToldTheTruth` | `[]AnswersAreTrue` | `RecordsAreTrue`: a record names a body that was queued under its id; nothing un-queues a command. |
| `MailsAreResentForCause` | `[]ResentForCause` | `DueInv`: the transactions a command still has coming are at least the slots that hold a copy of it before their transaction, and one for a record that waits or has yet to be made. Hence the finiteness of `Slots`. |
| `MailsAdvance` | `[]JobsBounded`, `[][JobsAdvance]_vars` | Variant (`Left`): six steps for each attempt and each stall a record has left, and the stage of its owner. A record whose slot has died counts as one step before its stall is noticed. |
| `AntivirusProofs` | | |
| `AntivirusTypeCorrect` | `[]TypeOK` | with `Resting`: an idle controller has nothing on the bus but the suspend that made it standby. Without it suspends could pile up. |
| `ScansAreCounted` | `[]ActiveCountsScans` | inductive with the types |
| `NoScanIsPutToSleep` | `SparesItsScans` | from `ActiveCountsScans`: a controller that counts none has none |
| `NothingInfectedPasses` | `[]FailsClosed` | `ClosedInv` adds that a scan in progress is one of a valid file. What the daemon said it could not scan is excepted, and carries its exception with the recorded reputation. |
| `IdentityAvatarsProofs` | | |
| `AvatarsTypeCorrect` | `[]TypeOK` | with `Paid` (each delivery after the first is paid for by a death, an error or a slow handler) and `Meant` (a call stores what was chosen, the script what it planned) |
| `ChoicesAreKept` | `[]ChoiceKept` | `ChoiceInv`: while the script has the user on its list, a chosen preset counts as raced |
| `NothingOfTheDeletedIsLeft` | `[]NothingLeft` | `QuietInv`: as long as nothing else goes on for the user, every replica at work handles the deletion, and what its handler has passed is gone and stays so (`Gone`). `quiet` holds the conditions: the registration acknowledged and nothing under way for the user at the deletion, the swallowed failure not met, the event not given up; and only the `sub` is spoken of. |
| `RegistrationsAreHandled` | `[]AckedIsAssigned` | `AckedInv`: a delivery in hand has been charged to a disturbance for each earlier one (`Charged`), so that an event is only given up when there were as many as tries; and a handler that is done with the registration has found or stored an avatar (`Handlers`), which nothing but the deletion takes away (`ProvidedStays`) |
| `TokenGateProofs` | | |
| `TokenTypeCorrect` | `[]TypeOK` | `Typed`, with `Tidy`: the cache has one entry for a token, of a genuine one, that ends no later than the token |
| `OnlyGenuineTokensAreAnswered` | `[]AdmittedIsGenuine` | `GenuineInv`, over requests past each check |
| `RevokedTokensAreRefused` | `[]RevokedIsRefused` | `KnownInv`: what a request's token was revoked by when it came is still in Redis for as long (`StillKnown`): entries are only replaced by ones that end later. A token without `iat` is revoked by its own entry only. |
| `RefusalsHaveCauses` | `[]RefusedForCause` | `CauseInv`: a key that was published when the document was served is in it, or has been withdrawn since |
| `WithdrawnKeysLapse` | `[]WithdrawnKeyLapses` | `LapseInv`: a document, stored or in a request's hands, that holds a withdrawn key was served before the withdrawal, and ends within the time of a fetch and a document's life of it, in whatever order documents are stored |
| `MediaWorkerProofs` | | |
| `WorkerTypeCorrect` | `[]TypeOK` | inductive |
| `SweepsAreSerial` | `[]SweepsSerial` | `SweepInv`: the flag is up exactly while one sweep runs |
| `HealthFileStaysGone` | `[]FileStaysGone` | `HealthInv`: a stopped health check has no timer and, unless one was in progress, no check left |
| `PoolGoesLast` | `[]PoolOutlivesWork` | `WorkInv`: a stop that is past a part knows it at rest, or has given up waiting for it, or the part was started after the signal (`revived`); a health check or a cycle in progress is late once its timer is cleared (`TimersGivenUp`) |
| `StopsGoForward` | `[]StopsBounded`, `[][StopsForward]_vars` | Variant (`Ahead`): a stop that a signal began has at most eleven steps before it, mails in progress only lessen, and `OpenedOnce`: what a stop has closed is not opened again by a start that is still going on |
| `ServerProcessProofs` | | |
| `ServerTypeCorrect` | `[]TypeOK` | with `Fit`: a prune that goes on is below its limit. Without it a deletion could exceed the limit. |
| `LimitKept` | `[]RateLimited` | `LimitInv`: from the request on that opened the last window, a bucket has let through as many as its record counts; all but `MaxAttempts` - 1 of the requests before it are a window older (`Windows`). The cleanup drops only records of windows that are over. |
| `FiguresAreRecent` | `[]AnswersAreRecent` | `StatsInv`: figures are read after their refresh began, so that the cache's end of life is never later than its figures plus a life, whoever stores last |
| `StopIsGraceful` | `[]StopsBetweenRequests` | `EndInv`: a closed process has no request in progress and takes none |
| `ExpiredGo` | `[]ExpiredAreGone` | `PruneInv`: of what a prune should find, what is still there lies behind the page it has listed or is among the page's items it has yet to delete (`Before`); other prunes only take away from that, and a new PAR is none of it |
| `ArchivesAreJudged` | `[]ArchivesJudged` | `JudgeInv`. The check of a packed archive finds what its listing says, for archives of any length, lengths and sizes: the search backwards stops at the end record (`Packable`), and after n rounds the walk stands at the n-th entry with the sums of those before it. Induction over the rounds from the well-founded order of the naturals (`SetInduction`), which needs no operator as a parameter. |
| `RequestsAdvance` | `[]RankBounded`, `[][Advance]_vars` | Variant: a request's place, and for a prune the PARs it may still delete and the pages it may still list; a closed server only ends |

Each step lemma splits `Next` into its actions; a family of actions that differ only in
what the invariant ignores shares a lemma about its effect (`LoopSteps`, `MessageFrame`,
`Moves`, `ProcedureTyped`, `RowByStep`, `RequestStep`). `PTL` closes the temporal step.

The theorems named ...`Advance` and ...`GoForward` are what safety can say of an end: each
step taken brings the work nearer it, and their number is bounded in advance (but for the
procedures of `DocumentPipeline`, where the page a sweep lists is any set of keys). That
a next step is taken is the other half, and rests on fairness: `EveryEntrySettled`,
`QuarantineDrains`, `ReceiptSettles`, `ShutdownEnds` and `RequestsEnd` add it, on small
instances. `AckedIsAssigned` is the safety half of `AvatarAssigned` in the same way.

Only model-checked: all liveness (`EveryEntrySettled`, `QuarantineDrains`,
`WokenWhenNeeded`, `ReceiptSettles`, `AvatarAssigned`, `ShutdownEnds`, `RequestsEnd`),
since fairness and ENABLED are out of the prover's reach. Only proved: the variants just
named, and the type invariants section 4 lists as such.

## 7. Not modelled

The audit log and its partitions, authorisation, templates and encryption of e-mail, health
endpoints, HTTP routing, schemas and contracts, configuration, bootstrap and operations
scripts other than the migration and the replay, logging and metrics, the catalogue of
avatars. `PROJECT.json` gives the reason for each. Of the modelled parts: MAXLEN trimming,
access URLs, the sanitizing of file names, the arithmetic of the storage statistics, the
read side of avatars, a fixed JWT_PUBLIC_KEY and the role check, the stream-depth metric,
the stand-alone workers' own entrypoints (the sweeper of `quarantine-scan.worker.ts` is
one of the `Sweepers`, without the guard of `media.worker.ts`).

## 8. Plan

Done: every component that keeps state of its own has its module, and its safety
properties are proved wherever the prover reaches. What is left, in this order:

1. The stand-alone workers' entrypoints in `MediaWorker` (they start and stop one of its
   parts each).
2. A listing of several pages in `DocumentPipeline`'s sweep: `ServerProcess` has the same
   for the prune.
3. A sweep of `DocumentPipeline` that waits in `Antivirus`, as far as the state space
   allows.
