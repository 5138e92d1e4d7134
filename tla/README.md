# act-api-server.rs: a TLA+ verification project

The repository has two programs that act for the same YouTube channel: a Rust server (`src/`), which is
the authenticated control plane and runs a durable JetStream worker, and a Google Apps Script project
(`apps-script/src/`), which owns the Google APIs and a resumable upload queue. This directory models
what both do when calls overlap, fail, come twice or are cut off, checks it with TLC, and proves the
safety of every component, and the refinements, with TLAPS.

Run everything from this directory: `tlc -workers 2 -config X.cfg M` and
`tlapm M.tla` for the six modules `*Proofs.tla` (the longest, `UploadQueueProofs`, takes about five
minutes). `PROJECT.json` lists the runs, the lines of source behind every
definition (`map`), the mutant that shows each property can fail, the findings and the hazards.

## 1. Inventory

| Component | State | Operations | Talks to |
|---|---|---|---|
| Durable worker, `transport_runtime.rs` (501-674) | fetched messages, permits, one handler task per message | pull, validate, claim, execute, complete, pending, publish, mark, ack / nak / term | JetStream, the journal, `OperationService` |
| Operation journal, `transport_runtime.rs` (304-475), `migrations/0001` | inbox, status and outbox rows | `claim`, `complete`, `pending_result`, `mark_result_published`, `status` | Postgres |
| Operation envelope, `web_data_plane.rs` | none | `validate_for` | worker, mTLS listener |
| mTLS listener, `transport_runtime.rs` (174-239) | permits, one framed stream per connection | accept, handshake, request and reply | `OperationService` |
| Server start-up, `main.rs`, `server.rs`, with `config.rs`, `flags.rs`, `telemetry.rs`, `nats.rs` | settings, the backends it got, the tasks it spawned | resolve flags, read the environment, connect, spawn, bind, install handlers | the environment, NATS, Postgres, all of the above |
| Graceful shutdown, `server/shutdown.rs` | phase, first trigger, deadline, watcher thread | apply, supervise, force | signals, terminal, `axum_server` |
| HTTP control plane, `routes.rs`, `youtube.rs`, `auth.rs`, `nats.rs` | one handler future per request | authorize, announce, prepare, post, report | Shared Auth, NATS, Apps Script |
| Apps Script dispatch and publication, `02_WebApp.gs`, `05_YouTubeService.gs` | script properties (switch, API key), YouTube itself | publish, update, create playlist, save configuration | YouTube, the dashboard |
| Upload queue, `06_UploadQueue.gs` | job records and reservations in script properties, the script lock | start, process, trigger, finalise | YouTube resumable sessions, Drive |
| HTTP and Gmail ingest, `04_DriveBackup.gs`, `08_Gmail.gs` | receipts and markers in script properties, the script lock | ingest, scan | Drive, Gmail |
| Analytics, dashboard HTML, clasp tooling | none that matters here | reports, deployment | - |

How they interact. The server and the bridge share nothing but an HTTP request and its response. The
worker and the HTTP side share only the journal: a caller reads the status row of an operation the
worker claimed. The mTLS listener is a second client of the operation service and meets the worker nowhere
else. The server spawns the worker and never joins it, so the shutdown of the HTTP server is a
crash to the worker. In the script every request, RPC and five-minute trigger is an execution of its own;
executions meet in the script properties and in one script lock, which some paths take and others do not.

What is hard here, and what correct means:

* **Worker and journal** - redelivery, resubmission, conflicting reuse of an id, a failing call or a stop
  between any two of claim, execute, complete, publish, mark and ack. Correct: an operation is executed at
  most once; only journaled replies are published; what is acknowledged is delivered; status, inbox and
  outbox agree; what was journaled is never replaced.
* **Start-up** - a configuration set by half; a broker or journal that is away; tasks that take work before the
  port is bound; signals before anyone handles them, fatal to a process, dropped by PID 1. Correct: the process
  runs as configured or not at all, an outage does not keep it from serving HTTP, and an end that is reported
  clean lost no request.
* **Shutdown** - signals that merge or queue up, Ctrl-D, the deadline and the server's own end become
  ready together. Correct: no trigger meets a phase that refuses it, nothing is forced without a reason,
  draining drops no request, and the process ends.
* **mTLS listener** - peers that stall, send ahead, send nonsense or leave; few permits; bearers revoked
  while a connection lives; an accept that fails. Correct: permits come back, replies match frames, every
  operation is authenticated for itself.
* **Upload queue** - overlapping executions on one job, stale copies saved back, the six-minute limit,
  lock waits that give up, sessions that expire, chunks whose answer is lost, effects of the finalisation that
  are recorded after they happened. Correct: one video per job, a job is complete only when its video is,
  positions never run ahead of the session, a playlist entry or a mail is repeated only for a reason that can
  be named, and a queued job is completed in the end.
* **Ingest** - the gap between a file and its receipt or marker; ids used again. Correct: retries make no
  copies, answers hold the caller's bytes.
* **Publication** - two switches and a confirmation, checked at different times than the update; requests
  that do not pass the server; status written back after it was read. Correct: whoever may see a video was
  confirmed; answers and events tell what happened.

## 2. Plan

The order follows the weight of what could go wrong: durable work first, because it promises the most.

1. `OperationJournal`, `JetStreamWorker`, refinement of `OperationLifecycle`, proofs. **Done.**
2. `ShutdownSupervisor`; `ServerProcess`, the whole life of the process, composed on it; refinement of
   `HttpService`. **Done.**
3. `UploadQueue`, refinement of `UploadLifecycle`. **Done.**
4. `InboxIngest`. **Done.**
5. `Publication`, `ControlPlane` composed on it. **Done**, for the actions that change who sees a video.
6. `MtlsListener` and its proofs. **Done.**
7. `VideoVisibility`, the abstract specification of publication, and its refinement by `ControlPlane`. **Done.**
8. Proofs of `ServerProcess`, `ControlPlane`, `InboxIngest` and `UploadQueue`: types, every safety property
   the runs check, the refinements of `HttpService`, `UploadLifecycle` and `VideoVisibility`. **Done.**

All modules are written for that: parameters are CONSTANTS with named assumptions, one action per step of
the code, no RECURSIVE operators.

## 3. Modules

| Module | Models | Checked by |
|---|---|---|
| `OperationLifecycle` | abstract: an operation is begun once for one request, finished once with one reply, announced | refinement target |
| `OperationJournal` | the tables of the migration and the five journal calls, each one transaction | through `JetStreamWorker` |
| `JetStreamWorker` | stream, consumer, pull loop, handlers, service, crashes; EXTENDS `OperationJournal` | `worker`, `worker_*`, proofs |
| `JetStreamWorkerProofs` | theorems | TLAPS |
| `MtlsListener` | listener, connection tasks, peers, Shared Auth | `mtls`, proofs |
| `MtlsListenerProofs` | theorems | TLAPS |
| `HttpService` | abstract: a service starts, accepts, answers, drains and ends; what it accepted is answered unless forced or failed | refinement target |
| `ShutdownSupervisor` | signals, terminal watcher, state machine, supervisor, server | through `ServerProcess` |
| `ServerProcess` | configuration, the steps of the start, background tasks, early signals; EXTENDS `ShutdownSupervisor` | `process`, proofs |
| `ServerProcessProofs` | theorems, about the supervisor as well | TLAPS |
| `UploadLifecycle` | abstract: a job gets one video, is put on its playlist, complete and announced | refinement target |
| `UploadQueue` | jobs, reservations, lock, sessions, executions, effects of finalising | `upload_*`, proofs |
| `UploadQueueProofs` | theorems | TLAPS |
| `InboxIngest` | HTTP and Gmail ingest | `ingest_*`, proofs |
| `InboxIngestProofs` | theorems | TLAPS |
| `VideoVisibility` | abstract: a video shows what was written last by someone who decided it when permitted, or found it so | refinement target |
| `Publication` | the bridge's actions on visibility, switch and clock | through `ControlPlane` |
| `ControlPlane` | the server's handler and direct requests; EXTENDS `Publication` | `control_plane`, proofs |
| `ControlPlaneProofs` | theorems, about the bridge as well | TLAPS |
| `MCJetStreamWorker`, `MCControlPlane`, `MCUploadQueue` | requests, and the symmetry of executions, for TLC | |

How code maps to state and actions:

* **Worker.** `inbox`, `status` and `outbox` are the three tables. A handler's `pc` is the await it is at:
  each `.await` of `handle_jetstream_message` that another actor can get in front of is an action boundary,
  and `?` is `HandlerFails`. `ClaimNew`, `ClaimReplay` and `ClaimRefused` are the arms of the match on
  `JournalClaim`; `fetched` is what the pull stream has buffered, a handler that is not idle is a permit.
  `Crash` empties handlers and buffer and leaves the broker and the tables. Time is counted in steps of
  the deadline window: `InitialLeft` is what a message has left when published, `Acceptable` is
  `validate_for`. Execution (`process_payload`) has any reply as its outcome: success, timeout, or the
  rejection of an invalid request. `SubjectNotNull` says whether the status table has the NOT NULL of the
  committed migration.
* **mTLS listener.** `at[c]` is the await the task of connection `c` is at; `permits` is the semaphore, which
  the task's end gives back (`Close`). `sent[c]` is what the peer wrote and `taken[c]` how much of it the
  codec decoded, so a peer that sends ahead is a peer with `taken[c] < Len(sent[c])`. Each frame remembers
  whether its bearer was revoked when it was sent. A bearer is named by the subject Shared Auth returns for
  it. `ReadFails` is the codec's error, which is answered and ends the stream.
* **Shutdown.** `Apply` is `State::apply`. The biased and unbiased `select!`s are disjunctions. The signal
  task's merging of signals raised before it runs is `RaiseSignal` on a set. Durations are not modelled:
  `GraceExpires` may happen whenever draining has begun.
* **Start of the process.** `at` is the `await` or `?` of `main`, `run` and `serve` that comes next; each step
  either goes on or is `Stop`, the error returned, with its `cause`. The environment is a record of groups of
  variables, each absent, partial, bad or good; `FromEnv` is `Config::from_env` over them. A broker is `local` when
  its URL begins with one of the names the code accepts as loopback. Until `InstallHandlers` a signal has its
  default action (`EarlySignal`): it kills the process or, when the container entrypoint has exec'ed the server as
  PID 1, is dropped by the kernel. `Supervised` is a step of `ShutdownSupervisor` inside the process. `worker` and
  `listener` say that the tasks run; what they do is in their own modules, to which the end of the process is a
  crash. Under the refinement mapping (`Stage`, `Ending`) a process that is told to force but has not settled is
  "closing", and an outcome `invalid`, a trigger the state machine refuses, is no ending of `HttpService`.
* **Upload queue.** An execution holds its own copy of a job, as the code does, and saves it back
  (`SaveCopy`), which is where stale data comes from. The platform's `Kill` may strike between any two
  calls, and releases the lock. `finalizeUploadJob_` is three steps: the playlist entry, the save as
  complete, the mail with the save after it; entries and mails are counted up to two. Thumbnail and manifest are
  as harmless when repeated as they are unrecorded, and are left out. Calls to script properties succeed unless the execution is stopped; calls to
  Drive and YouTube may fail. A reservation of fifteen minutes outlives an execution of six
  (`ReservationAges`). A start without a key (`NoKey`) takes the same path, but there is nothing to reserve
  (`ReserveNothing`), to commit or to release (`EndWithoutKey`); `MaxKeyless` bounds the jobs made that way.
  A start whose fields do not pass is `StartRefused`.
* **Ingest.** Names and bytes are model values; `lost` remembers the request ids and attachments whose
  record was cut off, so that the properties can say exactly when a copy may appear.
* **Publication and control plane.** A request is a record of the fields its checks read. `exec[c].seen` is
  what `Videos.list` returned and `NewStatus` writes back. `Direct` is a request with the script's own API
  key or from the dashboard. `Fails` and `ResponseFails` stand for every refusal or failure that is not
  about visibility. `Report` is one attempt to publish the closing event: `publish_json` returns without a client, and
  logs a failure. `confirmed` and `wasAllowed` are history variables. One instant stands for every
  `publishAt`; YouTube is taken to clear a publication time once it has passed, and to refuse one that lies
  in the past or stands beside another privacy than private.

## 4. Runs

Passing runs (each property is also shown to fail on a mutant of the code it is about):

| Run | Asks | Bounds | States |
|---|---|---|---|
| `worker` | at most one execution, journaled before published, delivered before acknowledged, agreement of the tables, write-once, orphans stay, refinement; permits and backlog come back; a claim is delivered if nothing fails | 2 messages on one operation (a request, another subject's), 2 handlers, 2 deliveries, 1 crash, 1 failing call, 1 failing pull | 649,416 |
| `mtls` | permits come back, replies match frames, served means authenticated, every frame is answered or its connection closed | 2 connections, 1 permit, 2 frames, 1 bearer, 2 subjects | 148,900 |
| `process` | runs as configured, outages are fail-soft, justified force, nothing dropped, a signal ends the process, refinement | every configuration, 2 connections, 3 signals, with and without a terminal, PID 1 or not | 714,584 |
| `upload_safety` | one video per job, completion is real, contiguous chunks, second jobs explained, refinement | 2 executions (symmetric), 2 jobs on one key, 3 sessions, 2 bytes, 1 kill, 1 failure, 2 lock timeouts, starts without a key up to their job | 2,250,712 |
| `upload_progress` | a queued job is completed | 2 executions, 1 job, with a key or without, no kill | 82,676 |
| `ingest_safety` | no unexplained copies, faithful answers | 2 executions, 1 request id with 2 names and 2 contents, 1 attachment, 3 files, 1 kill, 1 failure | 2,611,434 |
| `control_plane` | visible only if confirmed, true answers, closing events published, refinement | 2 requests out of 7 kinds, 1 video, both switches | 795,336 |

Why these bounds: every hazard here is a race of two actors over one object plus at most one fault, and each
bound lets that happen once more than the code expects: a second message for an id in use, a second handler, a
second session and one to spare, a second execution on the same job, a signal more than the two the code
distinguishes. A second operation, video or attachment would not interact with the first, since no definition
relates two of them. What is counted (kills, failures, timeouts, pulls, deliveries) is a CONSTANT of its
module, so a bound is visible in the `.cfg`. A third message with the text of the first is left to the theorems:
the journal knows a request by its text only, so a redelivery of the first treads the same path. `upload_safety`
takes `MaxKeyless = 0`: a start without a key runs up to the creation of its job, where it may be refused, fail
or be stopped, and beyond it in `upload_progress`. A second job beside it in the same run shares nothing with it but the lock, and
only multiplies the states; the theorems cover both.

Violations, each a disagreement between the code and what the repository says of it:

| Run | Disagreement |
|---|---|
| `worker_schema` | completing never succeeds: the upsert of `transport_runtime.rs:50` leaves out `subject`, NOT NULL in `migrations/0001:20`, so no claimed operation reaches the outbox |
| `worker_resume` | "resumes unpublished results after redelivery" (README.md:187): a deadline is at most 30 s ahead, as long as `ack_wait`, so unless it had waited for a permit the redelivered message has no time left, and is terminated before the outbox is read |
| `upload_stall` | "The five-minute trigger will continue it automatically" (06_UploadQueue.gs:85): a job stopped in `finalizing` is never selected again |
| `upload_duplicate` | "The server returns the existing job instead of making another Drive backup or YouTube upload" (HTTP-API.md:115): when the lock stays busy through `commit` and `release`, or the execution is stopped before, the job is not recorded under its key; after fifteen minutes the retry makes another |
| `ingest_replay` | "An exact replay returns the existing Drive file" (HTTP-API.md:88): after a stop before the receipt, the retry calls `setProperty` on the file's `appProperties` and throws |

Because of `worker_schema`, the other worker runs take `SubjectNotNull = FALSE`, a schema that accepts the
upsert; otherwise nothing behind `Complete` would ever be reached. The theorems hold for either value.

Things the code does that are worth knowing, stated as properties that hold: the second job of
`upload_duplicate` needs a registration that was cut short or a lock wait that gave up, and comes in no other way
(`SecondJobNeedsLoss`); a Gmail attachment may be imported twice, but only by scans that overlap or are cut
short (`SecondImportNeedsRace`); an operation orphaned between claim and completion is never taken up again
(`OrphanedClaimStays`). A change of `madeForKids` writes back the privacy it read, so it can undo a
withdrawal made in between; `VisibleWasConfirmed` shows that it cannot reveal more than was confirmed once, and
`ImplementsVisibility` that only an update which had read the video before the withdrawal can do that.
A publication scheduled with `privacyStatus=private` passes both switches and becomes public at its time:
README.md:159 reads as if the switches held it back, apps-script/HTTP-API.md:143 documents it, and
`VisibleWasConfirmed` admits it for a confirmed time only. An established mTLS connection that sends nothing,
or part of a frame, keeps its permit without limit; `PermitComesBack` shows that this is the only way to
keep one. An error of `accept` ends the mTLS listener for good (`AcceptFails`).
A job stopped between its playlist entry and its last save is put on the playlist again; the second save of a
start can put a completed job back in the queue, after which entry and mail come again. `ImplementsLifecycle` says
that nothing else repeats them. What the broker or the journal does not give at the start it does not give until
the next start (`ConnectBroker`, `ConnectJournal`); a signal to PID 1 before the handlers are installed is lost.

`CHECK_DEADLOCK FALSE` stands in every configuration because every model ends: counters run out, requests
are answered, the process exits.

## 5. Fairness

* `JetStreamWorker`: weak fairness of the clock, of each message's delivery and acknowledgement timeout,
  and of each handler's step: the broker keeps delivering, the tokio runtime polls what is ready, and the
  service and the broker's publish have timeouts. The journal's calls have none (`transport_runtime.rs:298-475`;
  `Database::connect` at `server.rs:93` sets none), so it is assumed that the database answers, if only with an
  error, which is `HandlerFails`. None for `Publish`, failures, pulls that end or crashes.
* `MtlsListener`: weak fairness of reading what has arrived, and of the three timeouts (handshake, execution,
  reply). None for peers, Shared Auth, `accept`, or the successful end of a handshake, execution or reply.
* `ServerProcess`: weak fairness of the next step of the start, whose calls end by themselves or by their
  timeouts, of the supervisor's `select!` and of the forwarding of a raised signal. None for the arrival of
  signals, the server or its connections, nor for the end of a background task. `SignalsEndProcess` assumes in its
  own statement that a clock runs (`WF_vars(GraceExpires)`) for the first signal; the second does without.
* `UploadQueue`: weak fairness of an execution's steps; strong fairness of the trigger and of taking the
  lock for it, since a five-minute trigger comes again and again while executions that hold the lock end
  within six minutes.
* `ControlPlane`: weak fairness of the handler's steps, among them the client's timeout, which ends every
  wait. None for the bridge: it may never answer.

## 6. Proofs

What is proved holds for every value of the constants: any sets of messages, connections, executions, keys,
requests, any sizes and bounds. It rests on the assumptions the modules name: constants are of the kind they
are declared to be, and the "none" values lie outside their sets.

| Module | Invariants | Step by step |
|---|---|---|
| `JetStreamWorkerProofs` | `TypeCorrect`, `ExecutesAtMostOnce`, `PublishesJournaled`, `AcknowledgesDelivered`, `StatusIsFaithful` | `WritesOnce`, `OrphansStay`, `Refinement` of `OperationLifecycle` |
| `MtlsListenerProofs` | `ListenerTypeCorrect`, `PermitsAddUp`, `RepliesInOrder`, `ServesAuthenticated` | |
| `ServerProcessProofs` | `ProcessTypeCorrect`, `ForcesForAReason`, `DrainsWithoutLoss` | `StartsAsConfigured`, `ProcessRefinement` of `HttpService` |
| `ControlPlaneProofs` | `ControlTypeCorrect`, `OnlyConfirmedIsVisible`, `CallersAreToldTheTruth` | `VisibilityRefinement` of `VideoVisibility` |
| `InboxIngestProofs` | `IngestTypeCorrect`, `OneFilePerRequest`, `RetryMakesNoCopy`, `NobodyElsesBytes`, `OneFilePerAttachment` | |
| `UploadQueueProofs` | `QueueTypeCorrect`, `SecondJobOnlyAfterLoss`, `OneVideoOfAJob`, `CompleteMeansMade`, `NoGapInTheVideo` | `QueueRefinement` of `UploadLifecycle` |

None of the properties is inductive by itself. What each needs is the inductive invariant of its module,
which TLC has checked on the constants of the run first.

**Worker.** A claim in `processing` with no execution yet must belong to exactly one handler:

    IInv == TypeOK /\ RecordsAgree /\ ClaimsAreExclusive /\ HeldResultsAreJournaled /\ AckedIsDelivered

`RecordsAgree` ties the three tables to each other, operation by operation; `ClaimsAreExclusive` says that
among all handlers at most one is between claim and completion of an operation, and that an operation it is
about to execute has not been executed; `HeldResultsAreJournaled` says that what a handler carries towards
the result stream is what the outbox holds; `AckedIsDelivered` that messages leave the queue only with their
result delivered. Each conjunct has its step lemma, by cases on the actions; `RowsGrow`, `OthersStay` and
`ClaimKept` say once what no action does to rows and claims that are not its own.

**mTLS listener.** `PermitsInv`: the set of tasks that hold a permit is finite, as it starts empty and every
step adds or removes one. `TaskAgreesOn(c)`: where a task is decides whether its replies are level with its
frames or one behind, and what the reply in its hands may be; without it a reply about to be sent could be
anything. `RevokedOn(c)`: a bearer that was revoked when its frame was sent is revoked now, which is what makes
a verification at the time of execution enough. The proof treats each connection by itself.

**Start and shutdown.** `ProcessInv` joins the invariant of the supervisor to that of the start. The heart of
it is a count: signals are merged on their way, never multiplied, so the signals not yet received, those in the
channel and the one that began the shutdown are at most as many as were raised (`SignalsAreCounted`); that is
why a forced shutdown has a second signal to blame. `ServerAgrees` relates the phase to the server task, and says
that no trigger meets a phase that refuses it (`outcome # "invalid"`). `StartAgrees` says what exists at
which step of the start, which makes the composition provable: before `up` the supervisor's actions are
disabled and its invariant holds trivially of a running phase. The refinement goes by the stage a process is seen in.

**Control plane.** A status of a video is *backed* when a decision on record explains it. `VideosAreBacked` alone
is lost when an update writes back what it has read; `SeenIsBacked` says that what an update holds is backed too,
and `BackedStays` that no step ever takes a backing away (confirmations, the history of the switch and the clock
only grow). `PassedChecks` and `ServerRequestsAreAccepted` carry what the two policies decided over to the time of the
write, when the switches may have changed. For the refinement a request is mapped to what it is about to write
(`Intent`): its decision from the check to the write, or what an update has read.

**Ingest.** `RunsAgree` is mutual exclusion: the lock is held by exactly the execution in the `try` block.
`FindingsLast` says what that buys: what the holder looked up is still so when it acts on it, receipts and files
alike. `RequestFilesAreKnown` and `ImportsAreKnown` account for every file by a receipt, a marker, or an
execution about to write one, unless a loss is on record.

**Upload queue.** Executions act on copies, so what is said of stored jobs is said of copies as well:

    QueueInv == TypeOK /\ LockAgrees /\ RunsAgree /\ JobsAgree /\ SessionsAgree /\ CopiesAgree
                /\ ReservationsAgree /\ JobsAreKnown

The step that makes one video per job inductive is that every copy, the one of a start that saves again
included, names the session the stored job names (`CopySound`), and that a session which is open or done is its
job's session on record (`SessionSound`): a session is replaced only when it has expired, and a start saves
again before its session can. Positions are *behind* their session, never ahead, since sessions only grow.
`ReservationsAgree` and `JobsAreKnown` speak of keys without a loss: there a pending reservation belongs to
the one start of the key that is under way, and a job of the key is on record or about to be; a start without a
key disturbs neither (`CreateWithoutKey`). For the
refinement, `EffectsInv` adds when an entry on the playlist or a mail can exist for a job that is not complete:
after a stop between playlist and save, or after the second save of a start.

What the proofs found out about the models: `"absent"` must not be a privacy, and there must be a request for the
initial state of a call (`PublicationAssumption`); `None` must not be an answer (`IngestAssumption`) nor an
execution or a key (`UploadAssumption`). TLC had never been given such constants.

Only model-checked: liveness (`BacklogDrains`, `PermitComesBack`, `FramesAreAnswered`, `ClaimedIsDelivered`,
`OutageIsFailSoft`, `SignalsEndProcess`, `QueuedIsCompleted`, `AnnouncedIsReported`),
which needs fairness and ENABLED, and the five violations, which are counterexamples.

## 7. Not modelled

* Certificates and the TLS protocol: a handshake succeeds, fails, or runs out of time. The end of the process,
  which ends the listener and every connection with nothing kept.
* The contents of payloads, HMAC attestation, token introspection, JSON, redirects: they decide between a
  small number of outcomes, which the models take as choices.
* The result stream's deduplication by message id: results are a set, so a second copy of the same reply is
  the same element.
* Thumbnails, completion manifests, audit log; backups other than as part of making a job.
* The rules for single configuration values, the merging of command line and environment, the export of traces
  and logs, the subscriber that logs events of the broker: each is an outcome of its step of the start.
* The policies of `web_data_plane.rs` for the web tier's own connections, and its frame functions: no code of the
  server calls them.
* Analytics, partner and admin reports, the dashboard's HTML, clasp and CI scripts: reading and deployment,
  without state of the running system.
