# xrelease in TLA+

xrelease watches upstream projects (forges, registries, feeds) and notifies
chat, mail and message-broker sinks of new releases. It is one Rust process,
`xrelease serve`, over a PostgreSQL database. This directory models the part of
it that decides whether a release is announced, to whom, and how often.

Paths below are relative to the repository (`src/pipeline/poll.rs` and so on).

## Inventory

| Part | State | Operations | Interacts with |
|---|---|---|---|
| Poll pipeline, `src/pipeline/poll.rs` | `source_state` (initialized, etag, latest tag), `seen_release` | `poll_once`, `select_for_delivery`, `deliver_new_releases`, `refresh_seen_metadata` | providers (HTTP), outbox (enqueue, inline delivery) |
| Webhook ingress, `src/api/webhook.rs` | `webhook_delivery` | credentials, payload, claim of a delivery id, one hand-over per watch; manual checks | poll pipeline |
| Outbox store, `src/store/postgres/outbox.rs` | `notification_outbox`, `notification_sink_delivery` | enqueue, reopen, claim, sink ledger, sync, complete, backoff, sweep, requeue | every task that delivers |
| Delivery pipeline, `src/pipeline/outbox.rs` | none of its own; a lease while it works | flush in waves, attempt, digest, backoff | notifier snapshot, store |
| Circuit breakers, `src/breaker.rs`, `src/notify/mod.rs` | failure streak, open-until | allow, record, alert | delivery, advisories |
| Sinks, `src/notify/` | none between two deliveries | routing, fan-out, one request per channel, reading its answer | the service behind the channel |
| Scheduler and supervisor, `src/scheduler.rs` | task handles, shutdown flag | watch loops, flush, sweep, prune, replace, graceful shutdown | engine, API |
| Poller lease, `src/store/postgres/mod.rs` | a session advisory lock | acquire, drop, loss of the session | start-up |
| Engine, `src/engine.rs` | current `CompositeNotifier` and tuning | snapshot, hot swap | config apply |
| Config apply, `src/config_apply/`, `src/api/config.rs` | `config_revision`, `app_secret`, the vault, the runtime config | apply, rotate, rollback, reload, boot, compensation; mask and restore of secrets | engine, supervisor |
| Configuration, `src/config/`, `src/validate.rs` | none that outlives a resolve | presets, defaults, namespacing, merge, credentials, validation | start-up, apply |
| Start-up, `src/main.rs`, `src/runtime.rs`, `src/store/postgres/migrate.rs` | `schema_meta`, the sealed secrets, the first admin | environment over file, open, migrate, probe, serve | the database other processes use |
| Users and access, `src/api/` | `app_user`, sessions, the key cache | login, logout, links, single sign-on, roles, layers | every management request |
| Advisories, `src/advisory/` | cache, breaker, findings, check markers | lookup by page, delivery and sweep | catalogue, outbox (text only) |
| Catalogue page, `src/api/observability.rs` | reads `seen_release`, `source_state` | sources list, source detail | poll pipeline |
| Retention | the tables above | `prune` | poll, outbox |
| Providers, rate limiters, metrics, CLI, web front end | none that decides anything here | | |

What is hard here is concurrency over the database. A row may be worked on by
the background flush, a manual check's flush, a poll or webhook that enqueued
it, and another replica; each of them sends several statements, none of which is
fenced, and may be killed between any two. Around them an operator requeues dead
rows, a config apply replaces the list of sinks, retention deletes what the
pipeline remembers, and time makes leases and backoffs expire. The second
difficulty is sequences: edits, masks, restores and prunes of secrets, logins and
revocations, documents of several organizations merged into one, settings read by
validation and again by start-up. The parts are correct when

* **outbox**: one deliverer per row; delivery at least once, and a sink that
  acknowledged is called again only if the answered attempt died before it wrote
  the answer down; `sent` means every tracked sink has it; `dead` means nobody can
  be tried again; nothing stays queued for ever;
* **digest**: a message for several rows gives each row its own credit and charge,
  and every opening of a breaker is alerted;
* **poll**: a 304 hides no release; history is silent; a release is announced
  once however many tasks find it; every release is announced;
* **config apply**: runtime, ledger, identity and sealed secrets agree after any
  failure the code compensates; a channel keeps the secret typed for it;
* **supervisor, lease**: one poller per database, no loop that nobody can stop, a
  swap that is whole, a shutdown that ends once the requests in flight are answered;
* **sinks**: acknowledged means held by the service, but for the brokers, which answer
  from the client's side; a team's event stays with it;
* **organizations**: a document means the same beside others as alone, and no
  tenant hears of another's sources;
* **users, access**: a revoked session stays out, a link was proven, only the
  granted get through;
* **start-up**: what validation accepts starts, the schema version is true, and what a
  key sealed it opens;
* **advisories, catalogue**: what is stored was answered; the latest is the newest.

`PROJECT.json` lists the hazards with the lines where they bite.

## Modules

| Module | What it is |
|---|---|
| `Outbox` | the two outbox tables and every task that enqueues, claims or delivers |
| `Delivery` | what the outbox promises of a notification: queued, acknowledged, sent or dead; no lease, counter, task or crash |
| `Digest` | the flush as waves of units, digest groups, concurrent fan-outs and the breakers |
| `Poll` | one source: the watch loop, manual checks and webhooks over `source_state`, `seen_release`, `webhook_delivery`, with the outbox as `Delivery` abstracts it |
| `Catalogue` | the rows, dates and latest tag of one source, and what the two pages read from them |
| `ConfigApply` | applies, rollbacks, reloads and boots over ledger, secrets, vault and runtime, with a failure or crash after each step |
| `Secrets` | mask, edit, restore, normalise, prune: where each channel's secret goes |
| `Tenants` | organizations into one configuration: presets, defaults, namespaces, merge, routing |
| `Channels` | what validation demands of a channel and what its constructor demands, in an environment that changes |
| `Startup` | two processes of two releases: settings, schema, secrets, authentication checks, first admin |
| `Lifecycle` | the poller lease, the supervisor, the hot swap and the graceful shutdown |
| `Sinks` | the ten kinds of channels: request, answer, verdict, fan-out |
| `Ingress` | pushed events from the request to the watches they are for, and manual checks |
| `Accounts` | users, links, logins, logouts and the single sign-on sync, one SQL statement a step |
| `Access` | what one management request is answered, from its claims through layers and handlers |
| `Jwks` | the cache of the identity provider's keys |
| `Advisories` | cache, breaker, lookups and their writes |
| `MCOutbox`, `MCDigest`, `MCConfigApply` | instances for TLC |
| `MCServices`, `MCRules` | three services, and ten parts, that share no state in the model: a behaviour is one of the part in focus |
| `OutboxProofs`, `OutboxPromise` | the types and the inductive invariant of `Outbox` and the delivery guarantees; settled rows and the refinement of `Delivery` |
| `PollProofs` | type correctness of `Poll`, no repeats, a silent history, an ETag that hides nothing |
| `DirectoryProofs` | what every request has checked of the account row it writes, logouts and identities (`Accounts`); organizations that stay apart, whole and unaffected by each other (`Tenants`) |
| `ConfigApplyProofs` | what the holder of `apply_lock` knows; ledger, identity and sealed secrets |
| `DigestProofs` | leases, credits and charges of units in flight; the alerts of breakers |
| `ServicesProofs` | the invariant of lease, supervisor and swap; what validation leaves a channel to be built from; what a delivery's phase, its service and its answer say of each other; the secret each channel of a document is owed |
| `RulesProofs` | five of the parts of `MCRules`: what requests of forges have done when they are answered, what advisory lookups hold and write, who the router lets in, what the rows and the latest release of the catalogue owe each other, what a process on its way up may rely on |

### Outbox

One action is one statement or transaction the code sends. The clock is
abstracted: `locked_until` is `free` (NULL or past), a `lease` or a `backoff`, and
`Expire` lets it pass; `deliver_after` is the flag `due`. A notification's content
is its digest. A notifier is a function from list positions to the endpoint whose
routing tag matches there (or none), because the ledger is keyed by position.
`got` and `told` are history variables: what each endpoint has received, and which sinks
of a row have acknowledged its content to an attempt that wrote it down or is still
alive. `Crash` takes from `told` what dies unrecorded (`Unrecorded`): that is the
interval in which delivery is at least once, and `RepeatsOnlyUnrecorded` says there is
no other.

| Action | Code |
|---|---|
| `Enqueue`, `Reopen` | `try_enqueue_notification`: insert or look; the reopening transaction |
| `Catalogue` | `record_seen` and the choice to deliver inline |
| `ClaimRow`, `ClaimBatch` | `claim_outbox_row`, `claim_outbox_batch` |
| `Open`, `List` | notifier snapshot, `ensure_sink_deliveries`, `list_pending_sink_indices` |
| `AbandonAll`, `FailRow`, `Abandon` | routing drift: `abandon_retryable_sinks`, `fail_notification` |
| `Notify` | `notify_partial`: each sink acknowledges, fails or is skipped by its breaker |
| `Record` | `complete_sink_delivery` / `fail_sink_delivery`, one sink at a time |
| `Sync`, `Bury`, `MarkFailed` | `sync_outbox_sink_status`: its SELECT and its two UPDATEs |
| `Check`, `Complete` | `sinks_delivery_complete`, `complete_notification` |
| `Backoff` | `apply_delivery_backoff`, `defer_delivery` |
| `Crash` | a killed process, an aborted task, a store error: the lease stays |
| `Finalize`, `Requeue`, `Prune`, `SwapNotifier` | sweep, operator, retention, config apply |

The constant `Races` names two things the code does not exclude but takes to be
rare. `"overrun"`: an attempt lasts longer than `OUTBOX_LEASE_SECS` (300 s, with
30 s HTTP timeouts). `"requeue"`: an operator requeues a row whose last attempt
has buried it and has not yet written its backoff. With `Races = {}` the
guarantees hold and are proved. Both hypotheses are needed: `Outbox_requeue.cfg`
shows what the second one hides, and with `Races = {"overrun"}` in
`Outbox_safe.cfg` TLC refutes `SentIsSettled` (a late `fail_sink_delivery` marks a
sink failed under a parent that another task has completed), since no ledger
write checks who holds the lease.

### Poll

A release is an identity (a number, in order of publication) and a version, which
stands for the digest of body and URL. An ETag is the listing it belongs to: equal
ETags, equal listings. `Old` is what upstream lists before the source is watched.
Upstream publishes and edits at any moment (`Publish`), a forge sends webhooks
(`Post`), and a request may fail (`FetchFails`). `Start` .. `SetEtag` are
`poll_once_inner`, `Refetch` and `Restamp` are `refresh_seen_metadata`, `Receive`
is `ensure_idempotent`, and `Select` .. `Catalogue` are `select_for_delivery` and
`deliver_new_releases`; `Look` and `Reopen` are the two halves of
`try_enqueue_notification`, its lookup or insert and its reopening transaction, between
which the row may be delivered. `is_initialized`, `load_seen_index`, the enqueue and
`record_seen` are separate steps, as they are separate statements. The tasks in
`Mortal` may die at each of them. The latest tag and the dates are in `Catalogue`;
`last_polled_at` and the text of an event are left out.

### Digest

Rows of one team tag and one delivery moment. A flush claims a wave (`DueRows`,
`WaveLimit`), splits it into units (single rows, and one group of those that share a
moment) and runs them side by side: `Prepare` reads the pending sets, `Dial` and
`SendReturns` are one call of one sink, `Apply` writes the shared result to one row
after the other, `UnitEnds` the backoff. A breaker is a failure count, `open` and
the cooldown that is left; two units may both probe. `Upset` is one store error,
one swap of the sinks or one operator's test, as the scenario allows.

### ConfigApply and Secrets

In `ConfigApply` a document is its refs-only shape; `Needs` says which secrets it
names. A mutation holds `apply_lock` (`op`), and each statement or swap of it is an
action: `upsert_app_secrets`, `prune_stale_app_secrets`, `Swap`, `RecordApplied`,
`Restore`, and at the end `Finish` (`finish_apply`, `finish_org_apply`), as the row and
the identity are two steps. The candidate is composed before the first of them
(`op.merged`), and that is what `Swap` puts in force. Reads, file edits, reloads that wait for the lock and crashes come
between. `Instances` are the four kinds of installation and the faults each meets.
`lapses` remembers the two faults the code does not compensate. `Secrets` leaves
failures out and looks at names: what GET masks, what restoring guesses from, the
generated names and their collisions, and what pruning collects. The code compares no
channel with its neighbours. `Careful` operators do so before they apply: no two
channels look the same once masked (`LookApart`), and no secret is typed for a channel
under the name another one uses (`NamedApart`).

### Lifecycle, Jwks, Advisories

`Lifecycle` has one loop per configuration generation. A swap is five steps with
awaits between them (`SwapNotifier`, `stop_watchers`, `JoinWatchers`,
`spawn_watchers`, `PublishIndex`); a poll may hang, and a join then aborts. `"drop"`
is a client that goes away in the middle of its request, `"session"` the loss of
the lease's connection, `"reload"` a SIGHUP reload that is aborted in the middle of its
swap when the server stops: the code excludes none of them, and the invariants name
them. `shutdown_signal` only closes the listener. `RequestsServed` is the wait of
`with_graceful_shutdown` for the requests in flight, a manual check among them
(`CheckStarts`, `CheckEnds`); it has no timeout, and the loops go on polling meanwhile.
What bounds it is the HTTP client's 30 s per call (`runtime.rs:359-365`), times the
calls of the check; a database statement has no limit. `docs/operations/scaling.md:56-57`
says that SIGTERM stops new polls and waits up to 30 s for work in flight: this is what
comes after that wait (`ServerStops` .. `Exit`). `Exit` frees the lease, as
`Runtime::serve` returns, and a detached loop lives on until `RuntimeDropped`, where
`main` drops the runtime; `Outlives` names the interval.
`Jwks` has the provider change at will. In `Advisories` a lookup is a task of
several steps (cache, breaker, request, findings, marker), and the sweep, a page
and a delivery run theirs at once.

### Tenants, Channels, Startup

These are computations over small documents, repeated as an operator edits:
`PushDocument` replaces one organization's document and everything derived is recomputed
by the operators named after the functions. `Startup` is a state machine: `Start`,
opening and migrating statement by statement, and the checks of serve in order.

### Sinks, Ingress, Accounts, Access, Catalogue

A request and its answer are separate steps in `Sinks` and `Accounts`; in `Ingress`
the claim, the parse and each watch are. `Access` has one action: a request with
any claims under any setting; its content is in the operators, one per function.
`Catalogue` has the statements of a poll and of webhooks in their order, with
interruptions.

## Runs

| Run | Result | What it shows |
|---|---|---|
| `outbox_safe` | passes | types, exclusive lease, a repeated call only for an answer that died unrecorded, a truthful ledger, settled sent and dead rows, sent rows stay sent, and `Outbox` implements `Delivery` |
| `outbox_live` | passes | a queued row is eventually sent or dead; a sink that stayed configured has what is marked sent |
| `outbox_seen` | `SeenWasAnnounced` violated | an update catalogued after the old content was completed is never announced |
| `digest` | passes | rows of one message stay apart (credit, charge, unit), an alert for every opening, every flush ends |
| `poll_quiet` | passes | history stays silent under concurrent first polls, crashes, edits and refreshes |
| `poll_once` | passes | loop, check and redelivered webhook announce a release once, also after `seen_release` is pruned |
| `poll_live` | passes | no 304 hides a release; every release after the baseline is announced, though its webhook may be lost |
| `apply` | passes | after applies, rotations, rollbacks, reloads, failures and crashes: the ledger is the history of what ran, the identity is true, answered secrets are sealed |
| `apply_crash` | `BootConverges` violated | a crash between the prune and the append leaves a ledger whose document cannot be built |
| `services` | passes | one poller, owned loops, whole swaps, shutdowns that end once the requests in flight are answered; keys and advisory checks that converge |
| `rules` | passes | ten parts, see below |
| `novu_digest` | `EveryEventTriggers` violated | digests of equal count share their transaction id; Novu acknowledges the second and drops it |

The ten parts of `rules` and what is checked of them:

| Part | Properties | What they say |
|---|---|---|
| `Accounts` | `RevokedStaysOut`, `IdentityHolds` | a logout ends every session, also one signed across it; a link rests on an admin or on a verified token of the address the account had, but for a stale write; names and subjects are unique |
| `Access` | `RolesAreRespected` | only the granted get through, organization admins do, one more group never costs a role, the apply routes are guarded |
| `Ingress` | `AnswersAreTrue` | every tenant of a pushed repository hears of it or, on a first contact, takes it silently as its baseline; a duplicate was handled, a check counts what it missed |
| `Secrets` | `SecretsStay` | over any sequence of edits by careful operators each channel keeps the secret typed for it, and none is left over |
| `Tenants` | `TenantsApart`, `OthersUnaffected` | names are prefixed, and once unless the document uses its organization's name for something else, events stay in the organization, a document means what it means alone, nothing valid goes unheard; a push changes nothing for the others, unless they borrow a preset (of what the model holds: the cap on upstream requests is process-wide and left out) |
| `Sinks` | `VerdictsAreTrue` | ok means told, acknowledged means held (but for a broker that answered from the client's buffer, an unclear body, a Novu duplicate), team events stay with the team, one workflow per event, a message that names the release |
| `Channels` | `ValidBuilds` | what was validated can be built, short of five named changes |
| `Startup` | `ValidatedStarts`, `StoreIsTrue` | whatever validation accepts and serve gives up over is one of seven named gaps; the schema version is true, one key reopens what it sealed, plaintext was asked for, the admin is seeded once |
| `Catalogue` | `PagesAgree` | both pages name the newest release, with its own date |
| `Advisories` | `FindingsAreAnswers` | a version marked as checked was answered for, and what is stored is one of the answers |

A property that covers several rules is their conjunction, and each rule is a
definition of its own in the module (`TenantsApart == NamedOnce /\ Isolation /\ ...`).
`Outbox` and `Poll` have their type invariants among the runs; those of `Lifecycle`,
`ConfigApply`, `Digest`, `Accounts`, `Advisories` and `Ingress` are parts of their
inductive invariants.

Each violated property states a sentence of the repository's documents or
comments; `PROJECT.json` quotes it.

**Further counterexamples.** These configurations are not among the runs; each
checks one property that TLC refutes, with `tlc -config <file> <module>`:

| File | Module | Property | What happens |
|---|---|---|---|
| `Outbox_requeue.cfg` | `MCOutbox` | `NoDoubleSend` | a stale backoff replaces the lease of the next owner |
| `Outbox_reorder.cfg` | `MCOutbox` | `NobodySkipped` | reordering sinks makes the index-keyed ledger credit the wrong one |
| `Digest_repeat.cfg` | `MCDigest` | `NoDigestRepeat` | rows regrouped on retry are repeated to a sink that has one of them |
| `Poll_hook.cfg` | `Poll` | `HistoryIsSilent` | a webhook before the first poll becomes the baseline and the poll floods |
| `Poll_prune.cfg` | `Poll` | `HistoryIsSilent` | retention re-announces releases that never left upstream |
| `Poll_crash.cfg` | `Poll` | `EtagHidesNothing` | the ETag is stored before the listing is processed |
| `Poll_update.cfg` | `Poll` | `UpdatesAnnounced` | an edit that arrives while the row is queued waits behind 304s |
| `Apply_seal.cfg` | `MCConfigApply` | `RotationKept` | the vault is refreshed inside the transaction; after a failed commit the retry is taken for a no-op |
| `Apply_inforce.cfg` | `MCConfigApply` | `AppliedIsInForce` | a rotation of an unchanged document is answered as applied and the running sinks keep the old value |
| `Secrets_shared.cfg` | `MCRules` | `SecretFollows` | two mailboxes of one host: saving unchanged gives one the other's password |
| `Standalone.cfg` | `MCRules` | `StandaloneSemantics` | defaults are filled in before presets, so beside others a preset's schedule is lost |
| `Migrations.cfg` | `MCRules` | `EveryMigrationRan` | an old database without a version row is stamped current and a step is skipped |
| `Api_key.cfg` | `MCRules` | `ApiModeKeyed` | serve comes up in API mode with neither a key nor the plaintext escape: only validate refuses (`docs/operations/storage.md:65`) |
| `Session_role.cfg` | `MCRules` | `SessionRoleCurrent` | a single sign-on sync changes a role without ending the sessions that carry the old one |
| `Latest_backport.cfg` | `MCRules` | `StoredTagIsNewest` | a backport pushed by webhook becomes the latest release |
| `Advisories_lost.cfg` | `Advisories` | `CheckedIsKnown` | findings fail to be written, the marker is written all the same |

A sibling of `Secrets_shared.cfg` is `Rules_safe.cfg` with `Careful = FALSE`, which refutes
`SecretsStay` without inline secrets: a mailbox is renamed and keeps the generated name of
its secret (`ensure_env_name`); a new mailbox on another host is given the old name,
`auto_name` generates the same reference, and `push_write` leaves both the new password.
Either half of the care alone is not enough. A sibling of `Poll_crash.cfg` needs no crash: with `Undated = {1}` the ETag that
`refresh_seen_metadata` stores hides a release published between its 304 and its
refetch. And a sibling of `Standalone.cfg` with `INVARIANT PresetsStayHome` in place of
its own: a source that names `b::p` uses the preset `p` of organization `b`, although
"a reference to a name defined in a DIFFERENT org now fails resolution"
(`config/sources/mod.rs:761`).

**Bounds.** One row and two sinks in `Outbox`: rows share no state but the tables'
sweeps, and two sinks are the least for a partial failure, a drift that leaves one
and a reordering. Two flushing tasks and one poll are enough for an owner, a
competitor and an enqueuer. `MaxAttempts = 2` makes one failure retryable and the
second final, and lets the parent's budget run out before a sink's. Two contents
give one reopening. In `Digest` two rows of one moment form a group, two sinks fail
differently, and each scenario allows one kind of upset, once. In `Poll`, two or
three releases, one or two versions, one loop, one check and one webhook: each pair
of tasks can overlap on one release while another is published. `told` saturates at
2, which `NoRepeat` cannot tell from more. `outbox_live` has one content: a reopened
row is a queued row again, and the tableau stays small. `ConfigApply` has two
documents with a secret each, two organizations and two or three ledger rows
(`MaxRows`), the fewest for a rollback after a rollback; `Symmetry` exchanges the
organizations. `Lifecycle` has two processes and two configurations per process
(`MaxGen`), one swap after the boot, and mishaps in one of them (`Unlucky`); the proofs
cover any number. `Accounts` has two rows, two names, two subjects and two addresses,
so that an address may change between a read and a write; two concurrent requests and four
calls in all. `Secrets`, `Tenants`, `Ingress`, `Sinks` and `Startup` bound the number
of edits, pushes, requests, sends and starts to one to three; the inputs in
`MCRules` are chosen so that ids, tags, names and presets overlap. One watch of `Ingress` has no
baseline yet (`Fresh`), and the six environments of `Startup` hold a malformed key, a
malformed database URL and a missing CA file beside the good ones. `Advisories` has
two versions, a cache of one and a breaker that opens at one failure; it is checked
for safety with news arriving (`rules`) and for liveness with faults (`services`).
Several runs say `CHECK_DEADLOCK FALSE`:
a system with nothing queued may rest, and parts with a bounded number of calls
stop when it is used up.

**Fairness.** `Outbox`: a task that is not killed takes its next step (the async
runtime); the flush loop comes round every minute and takes oldest rows first,
so each claimable row is claimed in the end (strong, as other tasks may hold it
on and off); leases and `deliver_after` pass with time; the sweep follows every
flush; and a breaker does not skip a sink for ever, as it lets a call through
after each cooldown. `Settles` assumes that crashes stop at some point, and
nothing of polls, operators or config applies. `Poll`: the watch loop comes
round, requests do not fail for ever, immortal tasks run on, and the outbox
delivers what is not buried. Nothing is assumed of checks, forges, operators or
retention. `Digest`: units take their next step, cooldowns and leases pass;
nothing of operators. `Lifecycle`: the steps of a swap and of a shutdown are taken, as
the runtime runs every ready task and the timers around the joins fire; nothing of the
end of a poll or a request, nor of a loop's look at the flag. So `ShutdownEnds` begins
where the wait for requests ends. `Jwks`: the
refresh task comes round and time passes; the provider need not come back.
`Advisories`: the sweep comes round, lookups take their next step, breakers cool
down, and the faults are bounded in number.

## Proofs

Fifteen components have theorems, in modules of their own. They hold for every
value of the constants that the module's assumption admits: any number of rows,
sinks, releases, organizations, users, tasks and processes, any budget and any
number of steps. The assumptions (`OutboxAssumption`, `PollAssumption`,
`AccountsAssumption`, `ConfigApplyAssumption`, `DigestAssumption`,
`LifecycleAssumption`, `AdvisoriesAssumption`, `IngressAssumption`, `AccessAssumption`,
`CatalogueAssumption`, `StartupAssumption`, `ChannelsAssumption`, `SinksAssumption`,
`TenantsAssumption`, `SecretsAssumption`) say
that null values differ from proper ones, that counters and dates are numbers, that
callers and settings of `Access` have their fields, that channels are of the kinds there
are and the variables they name exist, that an event has a title, that the table of
`Digest`, the releases of `Catalogue` and the watches and listings of `Ingress` are
finite, that two dated releases of `Catalogue` without a version have different dates (of
equal ones the code takes the last, an order the model does not have), that the ids of the organizations in `Tenants` are distinct (`compose_organizations`
refuses others) and, like the names of the built-in presets, without `::` (which no code
checks of an id: two ids of which one is a prefix of the other's parts are not modelled),
that documents have their fields, named presets and a positive interval, that a mask is
no secret and the channels of a first document are owed what it gives them, that a
database of `Startup` comes from the release it says it does and begins
with nothing sealed, and that a forge which sends a delivery again sends the body it
sent before (the premise of `webhook_id.rs`, which drops the second one unread); TLC
evaluates each of them.
The hypotheses in the last column are further restrictions.

| Theorem | Statement | Hypotheses |
|---|---|---|
| `OutboxProofs!TypeCorrect` | `Spec => []TypeOK` | none; all races allowed |
| `LeaseIsExclusive` | `Spec => []ExclusiveDelivery` | `Races = {}` |
| `RetriesAreSafe` | `Spec => []RepeatsOnlyUnrecorded` | `Races = {}` |
| `SentIsFinal` | `Spec => []SentIsSettled` | `Races = {}` |
| `LedgerIsTruthful` | `Spec => []LedgerTruthful` | `Races = {}`, `StableIndices` |
| `NobodyIsSkipped` | `Spec => []NobodySkipped` | `Races = {}`, `StableIndices` |
| `DeadRowsAreExhausted` | `Spec => []DeadIsExhausted` | `Races = {}` |
| `SentRowsStay` | `Spec => SentStaysSent` | `Races = {}` |
| `KeepsDeliveryPromise` | `Spec => DeliveryPromise` | `Races = {}` |
| `PollProofs!TypeCorrect` | `Spec => []TypeOK` | none |
| `SoundAlways` | `Spec => []Sound` | none |
| `DeliveredOnce` | `Spec => []NoRepeat` | `MaxVersion = 1`, `"outbox" \notin Retention` |
| `HistoryStaysSilent` | `Spec => []HistoryIsSilent` | `Hooks = {}`, `Excluding`, `"seen" \notin Retention` |
| `EtagIsNeverAhead` | `Spec => []EtagHidesNothing` | `Undated = {}`, loops and checks not `Mortal`, `"seen" \notin Retention` |
| `DirectoryInvariance` | `AccountsSpec => []AccountsInv` | none |
| `RevokedSessionsStayOut` | `AccountsSpec => []RevokedStaysOut` | none |
| `IdentityAlwaysHolds` | `AccountsSpec => []IdentityHolds` | none |
| `TenantsInvariance` | `TenantsSpec => []TenantsInv` | none |
| `TenantsStayApart` | `TenantsSpec => []TenantsApart` | none |
| `OthersStayUnaffected` | `TenantsSpec => OthersUnaffected` | none |
| `ConfigInvariance` | `ApplySpec => []ApplyInv` | none |
| `LedgerAlwaysRules` | `ApplySpec => []LedgerIsHistory` | none |
| `IdentityAlwaysTruthful` | `ApplySpec => []IdentityTruthful` | none |
| `AcknowledgedSecretsAreSealed` | `ApplySpec => []AnsweredIsSealed` | none |
| `RowsAlwaysStayApart` | `DigestSpec => []RowsStayApart` | none |
| `OpeningAlwaysAlerts` | `DigestSpec => OpeningIsAlerted` | none |
| `LifecycleTypeOKHolds` | `LifecycleSpec => []LifecycleTypeOK` | none |
| `OnePollerHolds` | `LifecycleSpec => []OnePoller` | none |
| `LoopsAreOwnedHolds` | `LifecycleSpec => []LoopsAreOwned` | none |
| `SwapIsWholeHolds` | `LifecycleSpec => []SwapIsWhole` | none |
| `ChannelsInvariance` | `ChannelsSpec => []ChannelsInv` | none |
| `ValidAlwaysBuilds` | `ChannelsSpec => ValidBuilds` | none |
| `SinksInvariance` | `SinksSpec => []SinksInv` | none |
| `VerdictsAlwaysTrue` | `SinksSpec => []VerdictsAreTrue` | none |
| `SecretsInvariance` | `SecretsSpec => []SecretsInv` | `Careful` |
| `SecretsAlwaysStay` | `SecretsSpec => []SecretsStay` | `Careful` |
| `AdvisoriesInvariance` | `AdvisoriesSpec => []AdvisoriesInv` | none |
| `FindingsAlwaysAnswers` | `AdvisoriesSpec => []FindingsAreAnswers` | none |
| `IngressInvariance` | `IngressSpec => []IngressInv` | none |
| `AnswersAlwaysTrue` | `IngressSpec => []AnswersAreTrue` | none |
| `AccessInvariance` | `AccessSpec => []AccessInv` | none |
| `RolesAlwaysRespected` | `AccessSpec => []RolesAreRespected` | none |
| `CatalogueInvariance` | `CatalogueSpec => []CatalogueInv` | none |
| `PagesAlwaysAgree` | `CatalogueSpec => []PagesAgree` | none |
| `StartupInvariance` | `StartupSpec => []StartupInv` | none |
| `StoreAlwaysTrue` | `StartupSpec => []StoreIsTrue` | none |
| `ValidatedAlwaysStarts` | `StartupSpec => []ValidatedStarts` | none |

Hardly any of these properties is inductive. What follows says, component by
component, which facts carry them; each invariant was checked by TLC on the
instance of its run before it was proved.

**Outbox.** `IInv` in `OutboxProofs` adds why the guarantees
hold: a task inside an attempt holds the lease of a row that is neither sent nor
gone and whose content is the one it sends (`HoldsLease`); a poll that is about to
claim either still finds its own content queued, or finds a lease nobody works
under and fails to claim (`MayClaim`), which covers the poll that is overtaken by
a flush between its enqueue and its claim; the sinks an attempt handles match its
snapshot, were unsent when listed, and what it is about to record as sent was
received (`KnowsSinks`); and the tables agree with each other and with the
receipts (`Ledgers`). That a sink which has acknowledged and is not marked as sent
has its result in the hands of a living task that will record it is what
`RepeatsOnlyUnrecorded` adds (`Backed`): a retry lists unsent sinks, and no second task can
list them while the first holds the lease. The proof goes over the steps twice: `StepEffect` and
`StepLease` reduce sixteen actions to what they do to the task's own row, and the
other lemmas use that summary and not the actions. `StableIndices` says that a
config apply keeps a sink at its index; `Outbox_reorder.cfg` is what happens without it.
`NobodySkipped` needs one thing more, `EveryoneTracked`: an attempt tracks whatever its
snapshot has before it does anything else, and no step but the pruning of a sent row
forgets an entry, so a sink that every configuration has, be it at different indices,
is among the entries of every row that is sent.

`PInv` in `OutboxPromise` adds what an attempt knows of the ledger (`KnowsLedger`):
some sink is tracked once it has opened, the results it has yet to record are of
unsent sinks, `Bury` runs when nothing is left to retry, and until its last steps
only the sweep can have buried its row, which then has spent its attempts. That
gives `DeadFact`. It is also what the refinement needs: `Delivery` buries a row, or
calls it sent, only from what its sinks show, and each lemma names the step of
`Delivery` that a step of `Outbox` is, seen through `Phase` and `Acked`.

**Poll.** `TypeOK` needs that a loop has an oldest release to take, which rests on
the order of the numbers. `Sound` says that nothing unlisted or filtered out gets
into a loop or a row. On these stand three invariants, one per theorem.
`DeliveredKeepsRow`: what was told has a sent row with that version, which makes
every later enqueue a no-op, so nothing depends on `seen_release`; this is why the
theorem survives its pruning but not that of the outbox, and not an edit that is
undone. `HistoryCatalogued`: once the source is initialized all of its history is
in the catalogue, and until then no task holds work. `EtagCovered`: a release in the
stored ETag's listing is catalogued, queued, or in the hands of a living task that
has it in its snapshot. Its hypotheses are those under which the code keeps what it
promises: `Poll_hook.cfg` and `Poll_prune.cfg` refute `HistoryIsSilent` without
`Hooks = {}` and with a pruned catalogue, `Poll_crash.cfg` refutes
`EtagHidesNothing` with mortal loops, and its sibling (see Runs) with undated
releases.

**Accounts.** A login reads the version and signs its token in a later statement, so
`RevokedStaysOut` alone is lost at the first bump. `SessionsAge` orders versions:
tokens and pending logins carry a version up to that of their row, revoked ones an
earlier one, and versions only grow. `ChecksHold` keeps what creates, syncs and
adoptions looked at before they write. `IdentityHolds` says that a subject on a row was
pinned by an admin or adopted by a verified token of the address the row then had, and
that a change of the address forgets the proof. `lapses` are the rows that an
adoption wrote although they had changed since it read them, for its UPDATE asks only
for the id.

**Tenants.** The state says little, so `TenantsInv` is short: what runs is composed of the
documents held, and it has passed the check that every preset named in it is found. The
work is in the operators. `JoinedHolds` says what `FlattenSeq` joins: by the least number
for which it would fail, since the prover has no induction over sequences. `ScopedIs` and
`ScopedApart` are the two facts about `namespace_scoped`: a scoped name begins with its
organization, and scoping keeps apart what was not scoped before. From the first,
`MergedPresets` (the names of two organizations never collide, so the warning of
`compose_organizations` that a later entry wins is never given) and `AudienceIs` (a tag
is heard in its organization only); from the second, `SamePreset` and `SameAudience`,
which carry `MeansTheSame`. The attempt found that three properties said too much, on
documents the instance did not have. A preset is looked up under its merged name, so a
source that names `b::p` borrows it from `b` (`Borrows`), and then another's push does
change its watches. A document that uses its own organization's name as a tag has that
name twice. And `MeansTheSame` must exclude not only tags that carry the prefix
already, but presets that do and sinks that listen to `__org__` by name, the tag that
stands for "no tag". The properties name these cases now, and the instance has a source
that meets the first two.

**ConfigApply.** `OpHolds` is what the holder of `apply_lock` knows: its document is not
the newest applied one (or it is a rotation, which stops after the prune), and what it
would restore is what ran. `RunsLedger` says, step by step, which documents run:
those of the ledger, except between the swap and the row, when the new one runs and
the old one is kept for the compensation. `NamesRunning` says the same of the identity,
and `VaultSealed` of the secrets. `MergedHolds` says of the candidate composed at the
beginning that it is the accepted document merged into those of live streams. They name the lapses the properties name and no others.

**Digest.** `UnitLeases` says that a unit works under the lease of each of its rows.
`UnitOwes` carries the credit and the charge across the steps between the call of
a sink and the write: until a shared result has reached a row, the row is not sent,
the sinks it owes are unsettled, an `ok` was heard for every row of the unit, and a
failure has been charged to each row that owes it. `OneUnitPerRow` bounds a wave, which
needs the arithmetic of `OldestFits`: of a finite table no more than n rows have
fewer than n before them. `OpeningIsAlerted` is an action property and needs only the types.

**Lifecycle.** `IInv` in `ServicesProofs` adds that a process which
has begun to serve, and has not lost its session, holds the lock, and has neither
loops nor a swap before (`LeaseHeld`); where the handles of the running loops are in
each step of a swap, with the supervisor, with the swap that drained them, or
nowhere because the loops have ended (`Kept`); and which configuration notifies,
polls and is shown in each step (`Whole`); and what a shutdown has put an end to in each
of its steps, the requests and, if no swap was interrupted, the loops (`AllStopped`),
which is what lets `Exit` give up the lease. Each part is kept by every action on its
own, given the shape of the variables and `LeaseHeld`.

**Channels.** `ValidBuilds` relates a boot to a validation that may lie many changes of
the environment back. `Passed` is what remains of that validation: the facts about the
entries, and for credentials the variables as they were then. `SecretIsFound` compares
the two ways the code looks for a credential, `secret_configured` and
`resolve_channel_secret`. The attempt to prove it found that the property had
overlooked a cause: a variable which one entry names as its own and another kind falls
back to as its global one may be set in between, and a Slack entry then has two
credentials. The property now names the change of any global variable, and the instance
has such a list.

**Sinks.** `PhaseHolds` says of each delivery to each channel what its phase stands for:
a request that went out was meant for the team and had an address, `ok: false` is
something only the bot APIs say, and whatever is accepted, a duplicate or acknowledged
is with the service or is in `odd`: failed behind its answer, answered by a body that
says nothing clear, or a message to NATS or RabbitMQ that the broker has not confirmed.
NATS's `flush` writes the client's buffer to the socket and waits for no answer, so `ok`
does not mean that the broker has the message. `WorkHolds` is what keeps Novu to one
workflow per transaction: what it works on it has not started before, it works on it
only once, and the callers of such work wait or have given up, so a failure of the work
leaves no caller with a wrong answer but those who were told of a duplicate, and these
are marked. `HeldHolds` says the same of what has arrived.

**Secrets.** `SecretsInv` follows the secrets across the screen: a channel there has the
secret somebody typed, or it is masked and still has all that restoring goes by of the
channel it was read from (`ReadFrom`: a rename leaves it alone), with that channel's
reference or none. `TakenForItsOrigin` is the heart: a masked channel is taken for the one
it was read from or for none, because no two channels of the running document look the
same, and an apply keeps it so (`LookApartKeeps`). One that is taken for none is a webhook
without a name among others; if it has lost its reference as well, no secret is found and
the apply is refused. `WritesAre` says that a written name holds the secret of its channel
and no other channel has that name, so what is not written resolves to what it did, and
what the document names is not pruned. The attempt found that `SecretsStay` had held only
because no channel of the instance was given a name that another one had had before:
`Careful` had asked too little, and too little was tried. Now it asks for the two
conditions above and every edit is free; the instance has such channels.

**Advisories.** `AnswersHeld` says that what the cache and the lookups hold was
answered for its version, at some time; the history of answers is what lets an
answer age between query and write. `WrittenFirst` carries the findings of a version
from the transaction that wrote them to the marker that follows in a later
statement, across the writes of other lookups: each of these either settles the
version with its own answer or counts it as damaged. That a caller's findings have a
first version to write needs the order of numbers (`LeadingIsFound`).

**Ingress.** `SlotsHold` says of each request what its answer will rest on: what is
left of `todo` is all that has not heard; a duplicate has found its id claimed; the
sources a check has been to and left behind are at most its failures. `ClaimsHold` is
the fact between requests: an id that is claimed and not spoiled is in the hands of
a living request or has been heard by everyone it is for, so the answer to a
duplicate, which looks at nothing but the id, is true once the first request is
through. `LookupFindsTenants` says that the lookup in any case of letters and in every
family of forges finds exactly the watches an event is for.

**Access.** A request is answered in one step, so its invariant only says that the
answer is the router's; the work is in the operators. `RolesAreGroups` says what the
aliases of the groups and the fallback amount to for one organization (the greatest
role, which `resolve_app_role` and `for_org` find in two rounds), `AuthorizedAsClaimed`
that authorization asks for no more and no less than what the credential claims, and
`PassesAre200` puts layer and handler together: that every route which is checked
twice lets in just those whom its stricter check lets in is where a layer in the
wrong place would show.

**Catalogue.** `TagHasRow` says that the latest release has its row, or a task that
still carries it to one. `Steady` holds until something misleads: one task at a time,
rows and offers within the listing, every queued release in its row, and the latest
release the newest of the rows, or of the rows as they will be when the task is
through (`Merged`), which is what `set_latest_release_tag` computes from the offer
alone before any row is written. That the newest release is unique and always exists
needs the order of `compare_releases` to be total (`OrdersReleases`) and the releases to
be finitely many (`PickIsIn` takes the one with the fewest above it). The attempt to prove `PagesAgree` found that it had held only because one
release of the instance had no version: with two, a webhook may bring a date that the
listing lacks, which makes its release the newest, and the next poll names another one.
Such a date is one of the causes the property names, as is a row of which upstream no
longer has the release at the start; the instance has two releases without a version,
whose dates do not follow their tags.

**Startup.** `Holds` says of each process on its way up what it has in hand: its settings
are the file with its own environment over it; from the lease on it is the one that
serves, so the users it counted are still none when it writes the first admin; and when
it is about to stamp a migration, the data is as the migration leaves it, unless a
database without a version was stamped as it was or an older release went on writing.
The last is where two releases hurt each other: between migration and stamp a second
process may write, and `StartupStepKeeps` says what a step must leave the others (their
lease, the users, the migrated rows, the keys in use). `Sealed`
ties the secret to the keys of those who have served, and `Exited` and `Judged`
remember what a check of serve and a validation have found, in terms of the settings
they read. `ValidatedStarts` is then a comparison of two sets of conditions; what
remains of it is `ValidationGap`, the settings that validation accepts and serve does
not: over every exit that comes from the settings alone (`OverSettings`), the database
URL, the CA file and the encryption key included, which validation looks at for presence
only.

**Only model-checked.** Liveness, which is beyond the prover: `Settles`,
`EverythingIsAnnounced`, `FlushTerminates`, `ShutdownEnds`, `KeysConverge`,
`SweepCovers`. Every safety property of the runs has its theorem.

## Not modelled

The bodies of requests to sinks and providers, and the parsers of what providers
list; signatures, hashes and ciphers (good or bad, opened or not); TOML and cron
syntax; legacy ids (`package:`, `registry:`), jitter, `poll_on_startup`, blank preset names,
the `[[teams]]` catalogue and the cap on upstream requests (see the head of `Tenants`); the
wording of messages, diffs and warnings; rate limiters, which only
delay; metrics; the retention of advisories and sessions; the CLI and the web front
end, which are clients of the API. `PROJECT.json` gives the reason for each.

## Plan

1. An abstract specification of `ConfigApply` (a sequence of accepted documents, one
   current) that it implements up to the lapses it names.
2. The composition of `Lifecycle` with `Poll`: which polls of an old configuration
   still write after a swap.
3. Retention of advisories and sessions; the content fingerprint of a release and a
   property for listings applied late.
