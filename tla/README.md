# Formal models of Myc

Myc is a NIP-46 remote signer: a daemon that receives encrypted requests from
Nostr relays, decides whether the client may have them answered, lets a custody
provider sign or decrypt, and publishes the signed answer to a configured set of
relays. Everything it decides is written to one SQLite file in short
transactions, and everything slow (relays, providers) happens between them.
The hard part is therefore what a kill, a late answer, a clock or a second task
can do between two transactions.

This directory holds TLA+ modules of the parts of the daemon where that
matters, TLC configurations that check them on small instances, and proofs that
hold for all instances. Paths below are relative to the directory above `src/`;
`src/README` is the repository's own documentation.

## The system

| Part | State it keeps | Operations | Interacts with |
|---|---|---|---|
| delivery store (`state_delivery.rs`) | jobs, targets and attempts tables | create a job, claim a target, mark an attempt submitted, record its outcome, recover an expired lease | every writer below; schema guards in `state_catalog.rs` |
| delivery worker and outbox task (`delivery_worker.rs`, `runtime_graph.rs`) | the attempt it works on | one delivery at a time: query, claim, prepare, submit, execute, persist | delivery store, relay adapter, shutdown |
| restart recovery (`state_recovery.rs`) | a cursor | batches of unfinished jobs: resolve expired leases, finalize, promote discovery | delivery store, discovery; before any task starts |
| task graph and shutdown (`runtime_graph.rs`) | the supervised tasks, health, phase | start, critical failure, phased shutdown | all tasks |
| relay ingress (`runtime_graph.rs`, `transport_nostr_adapter.rs`) | one or two subscription slots, checkpoints | receive, reconnect with backoff | dispatch over a bounded channel, health |
| provider dispatch (`runtime_graph.rs`, `runtime_nip46.rs`) | a queue of requests | verify, authorize, execute, sign, commit; retry on provider failure | providers, request, connection and delivery state |
| requests, completions, responses (`state_request.rs`, `state_completion.rs`, `state_response.rs`) | admitted requests, completions, signed responses | admit, replay, complete with a session effect, create the delivery job in the same transaction | connections, delivery store |
| connection authority (`state_connection.rs`, `nip46_authorization.rs`) | connections, decisions, permissions, challenges | admit, approve, deny, challenge, revoke, expire | requests, administration |
| governance (`state_governance.rs`, `nip46_admission.rs`) | rate windows, audit records | admit or reject, record, compact | requests, connections |
| discovery (`state_discovery.rs`) | desired and current generation | commit a desired document with its job, promote when delivered | delivery store, recovery |
| administration (`state_admin.rs`, `admin_v1.rs`) | operation journal, cursors | idempotent operations, snapshot pages | every table |
| providers (`provider_*.rs`) | credential envelopes, permits of a client, blocking workers | provision, open, probe, execute with deadline and cancellation, verify the answer | dispatch, administration, external signers |
| configuration and state host (`config_*.rs`, `state_config.rs`, `state_host.rs`, ...) | the history of bound configurations, the open file | parse, validate, initialize, migrate, bind, apply, back up, restore | start-up, connections, jobs |
| status, doctor, operations, CLI | two published caches | compute readiness and reasons, predict a start, render | health channel, administration, start-up |

What makes each part correct:

* *Delivery store*: the job's status is exactly its policy's verdict; evidence
  is never rewritten; attempts are numbered without gaps, never overlap and stop
  at the limit; the ceiling of unfinished jobs holds.
* *Worker and outbox*: submission is durable before anything is sent; a job is
  delivered only if relays hold it; an orderly shutdown leaves no lease; every
  job is finished eventually.
* *Recovery*: it accepts everything the other transactions can leave behind,
  changes only what expired, and visits every unfinished job.
* *Requests and connections*: one durable answer per request, given under the
  authority that was valid when it was committed; a revoked session stays
  revoked.
* *Discovery*: only a delivered desired generation becomes current.
* *Administration*: a repeated operation identifier returns the first result.
* *Ingress*: a lost relay is eventually reconnected; a checkpoint counts exactly
  the events that were handed on.
* *Task graph*: a shutdown ends, writers stop before the database closes, the exit
  result says why; the published status catches up with the system.
* *Governance*: a window admits no more than its limit, a refusal stands, pages
  skip nothing that did not move.
* *Configuration and state host*: a daemon runs under the configuration bound last;
  sessions and jobs follow an applied change; what validates can be started.
* *Providers*: what was reported provisioned survives a crash; an answer is taken
  only by the question it answers; permits come back; every call returns.

The hard behaviours, at the lines where they bite, are the `hazards` of
`PROJECT.json`.

## Modules

| Module | What it is |
|---|---|
| `Outbox` | what the delivery store promises: admission under the ceiling, confirmations, delivered or given up; no leases, attempts or time |
| `Delivery` | the delivery store: one action per transaction; implements `Outbox` |
| `DeliveryDaemon` | the daemon around the store: dispatch commits responses, the outbox task publishes, recovery repairs, processes are stopped and killed; extends `Delivery` |
| `Nip46State` | the durable NIP-46 state: requests and their deduplication records, connections, decisions, challenges, responses; one action per transaction |
| `Nip46Dispatch` | the dispatch task over that state, step by step between its transactions and provider calls, next to the operator's handlers, the clock and restarts; extends `Nip46State` |
| `Intake` | what happens to an event before it is work: bounded measuring, verification, replay identities; operators, with reference definitions |
| `Status` | readiness, reasons and health documents as functions of what was observed |
| `ServiceRuntime` | the task graph: two relay groups, ingress and dispatch over a bounded channel, health events, published status, phased shutdown; uses `Status` |
| `AdminJournal`, `Discovery` | the operation journal and the discovery tables: bodies of transactions |
| `ControlPlane` | the administration handlers over both, with effects between their transactions, retries by callers, restarts |
| `Governance` | rate windows, audit records, compaction and the two paged readers |
| `Configuration`, `ConfigurationDocuments` | schema, defaults, relations, constructors and redaction as operators; documents at the edges of each section, and the properties of all of them |
| `StateLifecycle` | the database across processes and configurations: initialization, migration, binding, apply, recovery, backup, restore, crashes |
| `Doctor` | the doctor's checks over the state of `StateLifecycle` |
| `Envelope`, `Custody` | the provisioning of a credential envelope; the provider executor, its callers, workers and signers |
| `DeliveryProofs`, `Nip46Proofs`, `ControlPlaneProofs`, `LifecycleProofs`, `GovernanceProofs`, `CustodyProofs`, `RuntimeProofs` | theorems about `Delivery` with `DeliveryDaemon`, `Nip46State`, `ControlPlane`, `StateLifecycle` with `Doctor` and `Configuration`, `Governance`, `Custody` and `ServiceRuntime` |
| `DispatchProofs` | theorems about `Nip46Dispatch`; extends `Nip46Proofs` |
| `MC...` | constants of the small instances; `MCNip46Dispatch` also holds the properties that compare `Intake` with its references |

`DeliveryDaemon` and `Nip46Dispatch` are two views of one daemon that meet at the
commit of a response, which creates a delivery job in the same transaction.
`DeliveryDaemon` knows of dispatch only the completion time and the commit;
`Nip46Dispatch` knows of delivery only the ceiling and that a relay gets an
answer some time (`Deliver`, `held`). `ServiceRuntime` is the third view: it knows
neither table and keeps channels, health and shutdown instead.

### Delivery

`jobs` is the three tables as one function: a row is a job with its copied
policy, its targets by relay, and each target's attempts by number. `0` is SQL
NULL. Each transaction of the code is a pair of operators named after it: the
*answer* (`ClaimAnswer`, `SubmitAnswer`, ...) follows the code's checks and early
returns in their order and yields what the caller sees, and the *effect*
(`claim_target`, `mark_submitted`, ...) is the row it writes, with
`finalize_job_if_terminal` inside the two transactions that run it. An action
takes the effect when the answer is the successful one. An error rolls back and
is no step. The guards (triggers) of `state_catalog.rs` that can refuse a write
are part of the answers: they refuse updates dated before the row.

Clock readings, nonces and jitters come from the callers and are arbitrary
here, also running backwards: the store's properties hold whatever is injected.
Job and attempt identifiers are hashes in the code; here a job is its source and
an attempt its number. The artifact digest follows the source.

### DeliveryDaemon

`outbox.step` is where the outbox task stands between two transactions or
awaits: it read its clock (`query`), has a ready target (`claim`), a lease
(`prepare`), a prepared event (`submit`), an event on its way (`execute`), an
outcome (`persist`). One clock reading dates the claim, the submission and the
outcome, as in `MycDeliveryExecutionEvidence`. Cancellation is looked at where
`run_with_adapter` looks. `dispatch` holds a response whose completion time was
read and whose commit is still to come. `received` and `held` are what relays
really got and keep; the daemon cannot read them, an accepted receipt is the
only thing that implies something about them.

`RecoverBatch` is one transaction of `recover_delivery_state`: the batch after
the cursor, targets in index order, each on the row the ones before it left
(`RecoverTargets`), a jitter per expired lease from the range `recovery_jitter` can
give, histories validated before and after. Any error refuses the start. A
refused daemon exits with status 4 (`runtime_graph.rs:93`), which the service
unit does not restart (`RestartPreventExitStatus`); an operator may.

A shutdown has two phases that matter here: dispatch is drained, then the outbox
is cancelled (`CancelOutbox`). The shared service host decides how long the first
lasts; here it may last any time. `Kill` may come between any two transactions
and covers the grace deadline, failed starts after recovery, and power loss
(SQLite transactions are atomic and durable).

Time is in the units of the policy. The clock moves up to `Horizon` freely and
then only while a retry or a lease waits for it: without that bound it would run
on without anything depending on it. It stops short of `MaxTime` by the largest jitter, so
that a retry time of a live daemon is always representable.

### Nip46State

Six functions are the tables: `requests` (with the `request` deduplication
record) and `decisions`, `challenges`, `responses` by operation, `events` by event
id, `connections` by the connect operation that created them. An operation is the
pair of client and request id, which the code hashes into the request identity; a
message is what the event decrypts to: client, id, method and the permissions a
connect asks for or another request needs. Methods fall into the four kinds that
the code treats differently.

Each transaction is an action named after its function: `AdmitRequest`,
`AdmitConnection`, `Approve` and `Deny` (the two sides of `decide_connection`),
`Revoke`, `Expire`, `IssueChallenge`, `AuthorizeChallenge` (which also writes the
expiry of one it meets too late), `CommitPending` and `CommitResponse`, which
applies the session effect of a logout. What the caller sees is a `...Answer`
operator with the code's checks in their order. `read_connection`, `decision_record`
and `read_challenge` are the checks that the readers make on every row they
load: a row that fails them makes the record unusable, so `RecordsReadable`
demands that no transaction ever leaves one. Clock readings are arbitrary, as in
`Delivery`; the configuration, and with it the policy generation, is fixed.

### Nip46Dispatch

`pc` is where `process` stands: `decrypt`, `admit`, `authorize`, then `connect` or
`execute`, then `complete` (the completion time is read and the work is bound),
`sign`, `commit`. `item` is the event and its evidence (nonce, time of reception),
kept through retries; `work` is what earlier transactions returned, used after the
awaits. A provider error starts the event over, a policy or rate rejection drops it,
any other error stops the task and with it the daemon. `executed` records calls of
the user's provider and `held` answers that relays got; the code reads neither.
The operator's handlers (`Operator`) run between any two steps, with a clock
reading up to `Staleness` old. Events may be delivered again at any time, also
after a restart. Rate limits are a nondeterministic refusal (`ConnectRateLimited`).

### Intake

`decoded_json_string_utf8_bytes`, `measure_tags`, `measure_parameters` and the padding
check are translated as they compute, over sequences of abstract characters and
lengths, and compared with what they should measure (`WidthAt`, `Lengths`,
`PaddedLength`) over all short inputs. `verify_event` keeps the order of the checks.
`ReplayKey` and `classify_against` are the replay identities of `nip46_replay.rs`,
which production code does not call: `ReplayAgrees` compares their verdict with the
one `Nip46State` comes to on its own, for every delivery in every reachable state.

### ServiceRuntime and Status

`slots` are the two relay groups (secure and plain) that ingress polls in one select;
`ingress.pc` and `dispatch.pc` stand between the awaits, with the bounded channel, the
batch and the health queue between them. The reconnect delay sleeps inside the
select and starts over with each event of the other group. `Observe` and
`refresh_state` are the main loop's reaction to a health event; what it publishes is
`Observation` of `Status`. A shutdown enters the phases of `ShutdownPhases` in order;
the cancellation of a phase's tasks, the join and the forced stop are the shared
service host's and are modelled from how `run_myc_daemon_inner` uses them: whether the
host ends a phase with an error when a task failed is left open. The rule which
lifecycle transitions the host accepts is external too.

The model shows some behaviour worth knowing that contradicts no statement: an
operations listener that ends publishes degraded also while the daemon is not ready;
a failed refresh returns without the phased shutdown; the admin server outlives the
phase that closes SQLite; `connected_relay_count` counts configured relays; every role
and transport carries all reasons; the operations cache is published before the
detail cache.

### ControlPlane, AdminJournal and Discovery

A caller's request goes through `Prepare`, the effect (`Execute` in one transaction, or
`Capture` and `prepare_discovery_commit` outside one) and `Complete` or `Publish`; each may
fail, and a restart may come between any two. Callers repeat an identifier, with the
same request or another. Callers, and operations of the same request, are symmetric.
`Deliver` ends the job of a document and recovery (`Restart`) promotes it.

Prepared rows are never pruned: an operation whose effect failed answers "outcome
unknown" for ever, and `PreparedLimit` (128) of them refuse every further mutation.
After the retention of seven days an identifier executes again, as
`operator_contract.v1.json:198` says. A promotion happens at recovery only, and two
publications within a second are refused.

### Governance

`rate` holds the windows by subject (global, relay, connection; by class), `audit` the
records by sequence number. An attempt is counted on each of its subjects by the verdict
on all of them; its record answers for it when it comes again. `events` and `listing` are
the two paged readers with their cursors. Times are read before the transaction
(`Observed`, up to `MaxSkew` old). A limit that is lowered leaves subjects refused until
their window ends; the daemon never calls `compact_governance_evidence` itself.
`DelayAssumption` bounds the delay between a clock reading and its transaction by what the
retention leaves over the window. The code checks only that the retention is no shorter
than the window (`config_v1.rs:827`) and bounds no delay; the example configuration keeps
windows for 60 to 720 times their length, so that a delay would have to be that long. The
assumption is needed: see the last note under known deviations.

### Configuration

A document is a record of the fields whose relations the code checks; strings are
sequences of abstract characters where a pattern matters. `SchemaValid`, `apply_defaults`
and the `validate_...` operators are the parse; `Constructs` is the conjunction of the
constructors a start runs on the result. `ConfigurationDocuments` puts each number at and
around its bounds, alone and in the pairs that are related, and does the same for
relays, identifiers, policies and identities. A challenge URL is only matched by a
pattern when parsed; one that is not canonical is refused at start. `AcceptedStarts`
excepts exactly that case. Identifiers of up to four characters are enumerated, and those
of 64 and 65, on either side of the schema's longest. `publish_relay_ids` is validated and not used; empty arrays
leave no trace in the effective document.

### StateLifecycle and Doctor

`database` is the file: schema version, birth record, history of bindings, and the rows a
configuration can invalidate. `host` is the one process with the writer lock. `Initialize`,
`Migrate` and `BindOrVerify` are the steps a crash may cut; `ApplyConfiguration` is the
offline command with everything it does to connections, challenges and jobs;
`Restore` puts the backup back. The doctor opens the database for each check; in the
model it runs on one state. It fails on a database that only needs the migration which a
start would do, and never reports better than degraded, because it skips the clock
check.

### Custody and Envelope

`Envelope` is the file an `identity init` creates: created, written in parts, synced,
linked, reported; `PowerLoss` takes what was not synced, the operator may remove or
restore it. A crash in between leaves a partial file that the next command refuses
until the operator removes it. `Custody` is the executor: callers (dispatch and
administration) begin calls with a deadline and an observation time, a local signer's
client takes a permit and sends, an encrypted file is used by a blocking worker. A signer
may answer with the answer to any request it ever got and with any of its payloads.
`verify_...` are the checks per capability; encryptions and decryptions are checked by
length and peer only, as in the code. Administration calls hold a cancellation that
never comes; they end when their connection does (`DropCall`).

## Runs

| Run | Instance | Shows |
|---|---|---|
| `store` | 1 job, 3 relays, any-relay, every-relay, quorum with an optional relay, and a retrying policy with 2 attempts; 4 instants | verdicts under every order of outcomes; histories, readability, time order, evidence; refinement of `Outbox` |
| `daemon_crashes` | 2 jobs, ceiling 1, 2 relays, 1 attempt, 1 kill | submitted before sent; delivered means held; leases left behind; orderly stop after a refused commit; the ceiling; refinement |
| `daemon_retries` | 1 job, 1 relay, 2 attempts, 1 kill, 1 stop, fairness | retries across lives; every job is finished in histories without kills |
| `recovery_of_last_attempt` | 1 job, 1 relay, 1 attempt, 1 kill | **violated**: the daemon refuses to start |
| `nip46_session` | 1 client, 2 request ids, 2 events (symmetric), 3 messages, 3 instants | rows readable, answers true to the rows they were given under, challenge authority, evidence never rewritten |
| `dispatch_session` | trusted and denied client, 4 events, 3 deliveries, 1 restart, 1 clock setback, ceiling 1, fairness | one executor per operation, no work for an answered request, nothing released under an ended session, why the task stops, every event settles; the two replay verdicts agree; `Intake` measures what it should |
| `dispatch_operator` | unknown client, 4 events (two connects, one above the ceiling, a signature), 3 deliveries, challenges on | the same against an operator who acts between any two steps; sessions only as granted |
| `service_runtime` | 3 relays in 2 groups, channels of 1, 1 outage, 1 fault, 1 state change, fairness | status, checkpoints, reconnection, shutdown |
| `control_plane` | 2 callers, 3 identifiers, 4 requests, limits 2, 3 calls, 1 restart, 2 generations | idempotency, journal limits, publication |
| `state_lifecycle` | 4 configurations (two with a narrower ceiling, one with other identity and relays), 1 connection, 1 job, 3 generations, 1 crash, 1 restore | bindings, effects of an apply, the doctor; `Configuration` over its documents |
| `governance` | 4 connects on 2 relays, 1 challenge, limits 1 and 2, windows of 2, 4 instants, pages of 1 | rate windows, refusals, audit and connection pages |
| `custody` | 3 roles of both kinds, 3 callers, 1 permit, 2 calls, 2 files, 1 new key, fairness | provisioning, answers, permits, workers, every call returns |

A property that a run checks is often the conjunction of parts that this document names
one by one (`RowsSound`, `LeasesAccounted`, `ExecutesOnce`, `IntakeExact`, `StatusTruthful`,
`StopOrderly`, `HealthReturns`, `JournalSound`, `PublicationSound`,
`RowsFollowConfiguration`, `DocumentsSound`, `WindowsSound`, `PagesComplete`,
`VerificationExact`, `NothingLeftBehind`); the module defines each part with its own comment.

The bounds. Three relays are the fewest that separate a quorum, an optional
relay and a relay whose outcome comes too late. Two attempts have a last one and one that
is not. Four instants let a lease of length one be taken, expire, be retried
with jitter zero or one, and reach the last representable time. Policies use a deadline
and a backoff of one unit, the smallest for which "before", "at" and "after" differ. With
a ceiling of one the daemon runs have one open job at a time; recovery over several
batches is checked by raising `OutboxMaximum` to 2 in `MCDaemonCrashes.cfg` (3.3 million
states), where the ceiling is then out of reach of two jobs.

In the NIP-46 instances two request ids and two events are the fewest for the
conflicts (an identity reused with another content, an event reused for another
identity), three instants let a session's authorization, a challenge and its
expiry fall before, on and after each other, and three deliveries allow a connect,
a request and either its replay or a logout. The store instance treats event ids
as symmetric, they are only compared, and has no permissions: those are varied in
`dispatch_operator`, over the same transactions.

In `service_runtime` two groups with two relays in one of them separate a relay from its
group, channels of one are full as soon as anything waits, and backoffs one and two have
a doubling and a maximum. In `control_plane` three calls on limits of two reach both
limits with a repeat among them. In `state_lifecycle` three generations leave a
backup that is two behind, and the two narrow configurations can be applied one after
the other: an approval in between must not be revoked by the second, which narrows
nothing. The run identifies states that differ only in a backup nobody can restore any
more (`RelevantState`); no action reads it then, and no property does. In `governance` a window of two and retention of two let a
window roll, expire and be compacted within four instants. In `custody` one permit and
two administration callers make one wait for the other; two calls let an answer meet the wrong one;
padding is evaluated at lengths 1 to 1,100 and 65,400 to 65,536.

Deadlock is not checked where the bound on work ends a behaviour (`store`, the dispatch
runs, `control_plane`, `governance`) or the daemon may have stopped for good (`custody`).

Fairness of `DeliveryDaemon` is weak only: of the clock, of the outbox task's
own steps and of a dispatch that has a response in hand (tokio schedules them, and
relay calls end by their deadline), of recovery, of a shutdown's phases, and of
starting a daemon that is down (the service manager restarts a failed one;
whoever stopped it starts it again). Nothing is assumed of relays or providers,
and a refused daemon need not be started again. `EveryJobFinishes` speaks of behaviours
without kills, because of deviations 1 and 2 below, and of daemons that are not
drained for ever: a full outbox ends the daemon, and if requests keep coming each
life may end before it makes an attempt.

`FairDispatchSpec` has weak fairness of the dispatch task and strong fairness of a
successful provider call (`Execute`, `Sign`): the retry loop has no limit and each
call has a deadline, so a provider that is called again and again and answers at
all answers in the end. Nothing is assumed of the operator, of redelivery, or of a
restart.

`FairSpec` of `ServiceRuntime` has weak fairness of the tasks' own steps and of the host's
phases. Outages, failures and events are bounded in number, so that a relay connects and
a provider answers in the end, and a group falls quiet; without the last the reconnect delay of the other one may start over for ever
(`runtime_graph.rs:2097`). `FairSpec` of `Custody` has weak fairness of the clock, the
timers and the worker threads; that a signer answers or a permit comes free is not assumed.

## What the runs say about the code

`recovery_of_last_attempt` shows a statement of the repository that does not hold of the
code, the finding of `PROJECT.json`: `recovery_jitter` does not look at the attempt limit.
A process killed while it holds the *last* attempt of a target leaves a lease that
recovery tries to resolve with a jitter the store refuses unless it happens to be zero;
the daemon then refuses to start.

### Known deviations

These are stated in the modules, next to the properties that hold, and are violated when
they are checked; the comment of each says so.

1. `StaleLeaseRecovers` (`DeliveryDaemon`): a lease that has not expired when the daemon
   restarts is not recovered by that process, because recovery runs once
   (`runtime_graph.rs:1677`) and the operation for a single lease has no caller.
   `src/README:484-485`: "stale leases recover through injected time evidence".
2. `ReadyIsClaimable` (`DeliveryDaemon`): the outbox dates a claim by a clock reading older
   than the query that found the target (`runtime_graph.rs:2350`). A response committed in
   between, in the next second, makes the claim fail on the schema's guard
   (`state_catalog.rs:1304`) and the daemon shut down. `state_delivery.rs:1078` calls the
   target eligible.
3. `LateRefused` (`Custody`): the time a provider's answer is compared with its deadline at is
   read before the call (`runtime_nip46.rs:558`, `runtime_graph.rs:1214`);
   `provider_verification.rs:26` and `:157` speak of the response's time.
4. `GrantsWithinCeiling` (`StateLifecycle`): an approval made after the ceiling was narrowed
   grants what was requested before (`state_connection.rs:1914`), while
   `nip46_authorization.v1.json:15` bounds effective permissions by the ceiling. Such a
   session also survives every later apply that does not narrow the ceiling again, because
   `revoke_for_permission_narrowing` compares two configurations and not the session with
   the new one (`state_config.rs:239-276`).
5. `AppliedStarts` (`StateLifecycle`): a configuration that `apply_configuration` accepts may
   be refused by the start's recovery, when a published discovery document no longer
   matches it (`state_discovery.rs:1103`).
6. `ListingIsSnapshot` (`Governance`): a connection that changes during a listing may be left
   out of it; `operator_contract.v1.json:195` says `generation_fixed_by_first_page_cursor`.
   The order is by last update, where `:194` says by creation.

Others need no model to see:

* A lost acknowledgement followed by a failed last attempt ends as an exhausted
  target and a failed job, because `finalize_job_if_terminal` looks at the last
  attempt only; `src/README:485-487` says an unknown outcome is not relabeled.
* A logout ends its session in the transaction that commits its acknowledgement;
  `src/README:550-552` says the acknowledgement is published first (`src/README:283`
  describes the atomic commit).
* Authorizing a challenge changes the challenge and the decision of its request,
  and nothing takes that request up again, while
  `src/contracts/services_hardening/operator_contract.v1.json:213` names a resumed
  request among the effects. A resent copy is dropped, because a replay does not
  carry the nonce of the admitted request: the same holds of a request whose
  process died before its answer was committed.
* A client that connects twice has two sessions, and its next request stops the
  daemon (`AmbiguousSession`); so does a connect above the permission ceiling.
  `StopsExplained` is the complete list of such stops in the modelled instances.
* The operator contract names an audit record among the effects of a backup and of
  a discovery publication; none is written.
* An escaped solidus in an event's JSON is refused as malformed. Rows of the request
  deduplication are never deleted; `request_dedup_ms` has no reader.
* With a retention of exactly one window and a transaction that commits two instants after
  its clock reading, a compaction in between removes a window whose attempts still count:
  three windows' worth of attempts fall into one stretch of a window's length, where two
  are the most that fixed windows allow. TLC shows it with `WindowMs`, `RetentionMs`,
  `MaxSkew` and the limit all 2, which `DelayAssumption` excludes.
* The binding's guard also refuses an apply whose clock is behind the last binding's;
  an apply does not write the configuration file.

## Proofs

`DeliveryProofs` proves, for every set of jobs, relays, policies and nonces,
every attempt limit, ceiling, jitter and clock range that satisfy
`DeliveryAssumption` (what `MycDeliveryPolicies::new` validates, and that jobs and
relays are finite sets):

* `TypeCorrect`: `Spec => []TypeOK`.
* `HistoriesCorrect`: `Spec => []HistoriesValid`.
* `VerdictCorrect`: `Spec => []StatusIsVerdict`.
* `EvidenceKeptCorrect`, `NoAttemptAfterFinishCorrect`: the two action properties.
* `OutboxBoundedCorrect`: `Spec => []OutboxBounded`.

The argument. The lemmas `StepShape` and `NextShape` say once what any step is:
one row is replaced by a row that one of the five effects computes, and `Keeps`
says what such an effect leaves alone (other relays, other attempts, the policy).
Type correctness is inductive on its own given that a claim's number stays within
the limit. `StatusIsVerdict` is not: that a finished job's verdict survives a late
outcome needs the attempt count never to fall, and that a `failed` job stays out of
reach needs an exhausted or finally lost target never to change again, so the
proof carries those facts (a target that is out of attempts is not active, an
active target's status is its attempt's). `HistoriesValid` needs
`NothingBeyondCount`: attempt numbers past the target's count are unused, so that
the attempt a claim writes is a new one. The ceiling needs that no step but an
admission opens a job, and a count of the open jobs before and after it.

`CustodyProofs` proves three theorems about `Custody`, for every set of roles, works,
permits and bounds that satisfies `CustodyAssumption` (what the contract and the limits
of a local signer accept, and that the callers are finitely many):

* `ProvisionedStandsCorrect`: `Spec => []ProvisionedStands`.
* `NothingLeftBehindCorrect`: `Spec => []NothingLeftBehind`, which holds the type
  invariant, `PermitsReturned` and `NoDetachedWork`.
* `VerificationExactCorrect`: `Spec => []VerificationExact`.

The first rests on `EnvelopeInv`. That a known-good envelope opens is not inductive: a
power loss could take it, or the cleanup of a failed command remove it. The invariant adds
that inodes are not used twice, that what the running command has synced of its own file
is synced, and that a known-good envelope is wholly synced and belongs to no running
command. The second rests on `CallInv`. A start hands out fresh permits, so the proof needs
`Served`: a daemon that is down or opening its providers has no call, one that probes has
only the probe's, and one that is up has none of the probe. `OfSigner` says that whoever
waits for a permit or holds one does so for a local signer, so the permit that is
returned is one that was counted. `SendTakes` and `EndedGives` then count the holders
before and after a step, for all the ways a call ends at once.

The third has a step part and a part about lengths. `WorkKnown` says that identifier, role
and capability, which the response repeats, identify an operation; the assumption behind it
is that callers use an identifier once and that the identifiers of probes have a domain of
their own. `Timely` (a call's observation time is not after its deadline) and
`HonestFits` then show that verification refuses no honest answer; `VerifiedTells` shows what an
accepted one says. `PaddingExact` compares `nip44_padding_length` and
`is_valid_nip44_padding_length` with the permitted lengths at every length up to 65,536: by
multiples of 32 up to 256 and by one argument for all larger powers of two. A plaintext to
be decrypted is assumed to be within `MYC_PROVIDER_NIP44_PLAINTEXT_MAX_BYTES`; NIP-44 permits
127 bytes more, and `verify_nip44_decrypt_result` refuses those although the signer
was honest.

`DeliveryProofs` further proves, under the same assumption:

* `RowsSoundCorrect`: `Spec => []RowsSound`, that is `RowsReadable` and `AttemptsOrdered`.
* `ImplementsOutboxCorrect`: `Spec => ImplementsOutbox`, the refinement of `Outbox`.

For the first, `SoundRow` says of each target that its counters, times and status fit one
another, and that each attempt ended before the next was leased and none after the
target's last update; the update guards of `state_catalog.rs` are what makes that
inductive under arbitrary clocks. The refinement is proved by row: what each effect does to
its row is `Silent`, `Confirms` a relay or `GivesUp`, and the table follows; admission uses
the count of open jobs that `OutboxBounded` needed.

`Nip46Proofs` proves, for all clients, request ids, messages, permissions, policies and
clock ranges that satisfy `Nip46Assumption` (trusted and denied clients are distinct, the
challenge lifetimes are enabled together, as the configuration validates):

* `RecordsReadableCorrect`, `SessionsGrantedCorrect`, `AnswersAgreeCorrect` and
  `ChallengeAuthorityCorrect`: the four invariants of the durable state.
* `EvidenceKeptCorrect`: the action property.

None of the four is inductive, and each needs the others' links between tables. The
invariant, `AllRows`, has three parts per operation. `Own` says which combinations of
request, connection, decision and challenge one operation can have: a decided connect is
refused without a connection or has exactly one, in a state that fits the decision;
another decided request has a challenge. `Answered` says what a committed answer implies of
these rows. `Linked` is about the connection that a challenge or an answer *names*, which
belongs to another operation and is changed by other transactions; it survives because
connections are `Settling`: a session that was ever active is active or expired for good.
That no grant exceeds the ceiling follows although the operator's path does not look at
the ceiling, because `Connected` keeps the admitted permissions under it.

`DispatchProofs` proves, under `Nip46Assumption` and `DispatchAssumption` (the outbox has
room for at least one job, each delivery has its own nonce, the modelled clock leaves room
for a session's lifetime):

* `DispatchImplementsState`: `DispatchSpec => Spec` of `Nip46State`. Every step of the task,
  of the operator, of the clock and of the process is one transaction or leaves the tables
  alone, so the five results of `Nip46Proofs` hold of the running service.
* `ExecutesOnceCorrect`, `ReleasedUnderSessionCorrect` and `StopsExplainedCorrect`.

The task reads in one transaction and relies on it in a later one, with provider calls and
the operator in between. `Hand` says what it may rely on: from the authorization on, the
stored request is this delivery's own, it has no answer yet, and its provider was called
before it is completed. `ExecutesOnce` follows, since only the owner of the record gets that
far. `Session` says which connection the work in hand was authorized by, and that its
client and its grant cannot change; the commit looks at its status once more, and that look
is what `ReleasedUnderSession` needs. For `StopsExplained` the proof also has to show that no check
of the commit fails on the task's own data: `Joined` ties the intended answer of a connect to
the decision and the connection as they are unless the operator intervened, and `Past` says
that while the clock was never set back no stored time is later than the clock and the times
the task holds are ordered.

`RuntimeProofs` proves, for every set of relays and groups, every capacity, backoff and
number of events, outages and failures that satisfy `RuntimeAssumption`:

* `StopOrderlyCorrect`, `StatusTruthfulCorrect` and `CheckpointsFollowCorrect`.

`Stopping` says that a stop that is not forced has left a phase only when its tasks returned,
that the database is closed exactly from phase six on, and that `stopping` was published.
`Told` is about the health channel: the last queued report of a bit carries the task's value,
and when none is queued the main loop has it; a report that waits for room is the task's
own state, and the document always shows the main loop's bits under a phase that admits them.
`Followed` sees batch, channel and the ingress task's hand as one sequence of events: an
event that is taken is appended, processing removes the head, and all other steps move items
without changing the sequence; it also needs that a subscription always stands where the
checkpoint does and that dispatch holds the item it works on.

`ControlPlaneProofs` proves, for every set of callers, requests and limits, finitely many
operation identifiers and at least one generation:

* `JournalSoundCorrect`: `Spec => []JournalSound`.
* `RepliesAreEffectsCorrect`: `Spec => []RepliesAreEffects`.
* `AppliedOnceCorrect` and `PublicationSoundCorrect`: the two action properties.

`JournalInv` says that the journal holds no more rows than it reserved (`Reserved`), that
rows are dated in order (`RowsDated`), that a completed row stands for the last recorded
effect (`RowsKnown`), that a call which holds a prepared row owns it and has made no effect
that is still remembered, but for a snapshot it captured itself (`CallSound`), and that two
callers never stand between prepare and complete of one identifier (`Exclusive`). The last carries
`AppliedOnce`: without it a second caller could apply what the first is about to complete.
`PublicationInv` ties the desired and the current generation to their documents and jobs.

`LifecycleProofs` proves, for all configurations, connections, jobs and schema versions:

* `RunsUnderLatestCorrect`, `RowsFollowConfigurationCorrect` and
  `DoctorPredictsStartCorrect`.

`DatabaseInv` is stated of a database and holds of the file and of the backup, because a
restore exchanges them. It ties the bindings to the birth record and every connection and
job to the binding under which it was made; `HostInv` says what the process that holds the
lock has already verified. The proof failed first: the property said that an approval
outside the ceiling belongs to the latest generation, which TLC had not refuted with three
configurations. Deviation 4 now tells the truth, the property names the generation of the
approval, and the instance has a fourth configuration that reaches the case.

About the configuration document it proves, for every document of the right shape
(`Documents`: any integers, texts, relays, clients, permissions and providers):

* `EveryDocumentSound`: what the parser accepts every constructor of the start accepts,
  but for the challenge URL; the defaults are filled in once and contradict nothing; and
  the effective document hides what is private and names the source of each integer.
* `DocumentsSoundCorrect`: `Spec => []DocumentsSound`, since the documents of the run are
  among them.

The parser and the constructors each have their own copy of the bounds, grammars and
relationships, so the argument goes constructor by constructor. `FieldsSane` and
`NumbersKnown` say what an integer is once the defaults are there. `IdentifiersAccepted`
compares the schema's pattern with the two hand-written grammars. `AcceptedDelivery`
needs that the required write relays, which the parser counts, are among at most 32 targets.
`ShowableHidden` and `LeavesShowable` go through the leaves of the effective document. The
first attempt failed on an identifier of 65 characters: the model of the schema's pattern
had left out its `maxLength`, and no enumerated identifier was long enough to show it.
The schema does state it; the model now has it, and the run has both lengths. `Text` is
the set of strings, with the literals added because the provers do not know that a literal
is one.

`GovernanceProofs` proves, for every set of requests, every window, retention, limit, page
and batch size that satisfy `PolicyAssumption`, `DelayAssumption` and `IdentityAssumption`
(numbers stand for the ordered connection identifiers):

* `WindowsSoundCorrect`: `Spec => []WindowsSound`.
* `PagesCompleteCorrect`: `Spec => []PagesComplete`.

For the first, `WindowsTrue` ties each window to the committed attempts: it counts
those since its start, every later part of them is within a limit that was in force, and
so is everything before its start that a stretch of one window's length can still reach.
A window that compaction removed leaves the fact that it was last used too long ago to
share a stretch with anything to come (`Gone`); this is where the delay matters.

A page is the first rows, in order, that match and lie behind the cursor. The proof
describes the order by counting predecessors (`RanksAreNumbers`, `InOrderSorts`), which gives
what one page takes (`PageTakes`) without induction over its rows. `PagesInv` follows
each traversal. `AuditGoing`: the records given out so far are descending, all from the
traversal's start, and every matching record down to the cursor is among them; the set of
matching records only shrinks, since new ones have numbers beyond the snapshot.
`ListingGoing`: no connection was given out twice, and one that is as it was at the start
is either still behind the cursor or was given out; a connection that changes only moves
forward, out of the order the traversal follows.

`DeliveryProofs` also proves of the daemon, whatever its numbers of jobs, relays, kills, stops and
attempts and its batch size, under `DaemonAssumption` (jobs and relays are numbered, there
are more nonces than attempts, and a largest jitter from the first moment is still
representable):

* `SubmittedBeforeSendCorrect`, `DeliveredIsHeldCorrect` and `LeasesAccountedCorrect`, all
  of `DSpec`: two concurrent tasks, kills between any two transactions, recovery in batches.

They follow from one inductive invariant, `DInv`. `GoodTable` carries all that was proved of the
store's rows, and `Advances` says what an operation may do to a row as far as the daemon
is concerned: no submission is forgotten, only named targets become confirmed, only named
attempts begin to run. `InHand` and `Held` say that the attempt the outbox works on is the
active one of its target, that it is leased up to the submission and submitted from then
on, and that the single clock reading of the outbox lies within the lease, so that no
operation on it is refused and the task never ends with a lease in its hand. That needs
`Clocked` and `Older`: readings are not ahead of the clock, and a job that was
worked on is not dated after the outbox's present reading. A job that is still `pending` may
be (deviation 2), and only the claim meets it, when nothing is in hand yet. `LeftBehind` counts: the
running attempts that nobody has in hand are at most the kills. `Living` makes recovery run
with nothing in hand. Recovery's walk over the targets is a recursive function;
`RecoverTargetsUnfold` and `Ascent` prove what it returns from the least-number principle
(a set of indexes that fail has a least one), which needs no operator parameter.

* `DaemonImplementsOutbox`: `DSpec => ImplementsOutbox`, the refinement of `Outbox` by the
  two tasks, whatever the batch size. Each step of a task is one transaction of the store
  or none, so the proof by row above carries over. `Settles` describes recovery: it changes
  only the rows of its batch, confirms no relay and reopens no job, and those it ends
  are one `GiveUp` of several jobs.

Only model-checked: liveness under fairness, which is outside what the prover handles, and
`IntakeExact`, whose parts compare recursive measures of bounded inputs with their
references (powers of two and induction over a length are both out of the provers' reach).

## Not modelled, and what is left to do

Left out: cryptography and encodings (a valid signature is a fact of the input), HTTP and
CLI parsing and file loading (`admin_v1.rs`, `cli_*.rs`, `config_loader.rs`), file
permissions and paths, rendering of status, metrics and diagnostics, and the build
tooling (`tools/xtask`). They are sequential and their unit tests reach them. SQLite I/O
errors and entropy failures are not modelled either: they end a task the way the state
errors do that are. The catalog's verification of its own table definitions compares
digests of text.

What would add most: `IntakeExact` for every event size, with the measures as folds, once the
provers can do induction over a sequence.
