--------------------------- MODULE DeliveryDaemon ---------------------------
(***************************************************************************)
(* The daemon around the delivery store: provider dispatch commits signed  *)
(* responses as jobs, the outbox task publishes them to relays, restart    *)
(* recovery repairs what a crash left behind                               *)
(* (src/src/runtime_graph.rs, src/src/delivery_worker.rs,                  *)
(* src/src/state_recovery.rs).                                             *)
(*                                                                         *)
(* The two tasks run concurrently and the process may be killed between    *)
(* any two of their transactions.  The relays and the clock are the        *)
(* environment; `received' is what the relays really got, which the daemon *)
(* cannot see.                                                             *)
(*                                                                         *)
(* Jobs and relays are integers here: recovery walks jobs by identifier    *)
(* and targets by index, and the outbox takes the oldest job first.        *)
(***************************************************************************)
EXTENDS Delivery, FiniteSetsExt

CONSTANTS
    RecoveryBatch, \* MYC_DELIVERY_RECOVERY_BATCH_MAX_COUNT
    MaxKills,      \* bound: how often the process is killed
    MaxStops,      \* bound: how often an operator stops it
    Horizon        \* bound: how long the clock runs with nothing awaiting it

VARIABLES
    now,       \* the wall clock
    process,   \* where the process is in its life
    recovery,  \* start-up's clock reading and pagination cursor
    dispatch,  \* the response that provider dispatch is about to commit
    outbox,    \* the outbox task: where it stands and what it works on
    received,  \* <<job, relay, attempt>>: events that reached a relay
    held,      \* <<job, relay>>: events a relay accepted
    kills, stops

environment == <<received, held>>
dvars == <<jobs, now, process, recovery, dispatch, outbox, received, held,
           kills, stops>>

ASSUME DaemonAssumption ==
    /\ Jobs \subseteq Nat \ {0}
    /\ Relays \subseteq Nat \ {0}
    /\ JitterMax < MaxTime
    /\ \A used \in SUBSET Nonces :
          IsFiniteSet(used) /\ Cardinality(used) <= AttemptMax => used # Nonces
    /\ RecoveryBatch \in Nat \ {0}
    /\ MaxKills \in Nat
    /\ MaxStops \in Nat
    /\ Horizon \in Times

Steps == {"idle", "query", "claim", "prepare", "submit", "execute", "persist",
          "ended"}

IdleOutbox == [step |-> "idle", at |-> 0, job |-> 0, relay |-> 0, number |-> 0,
               outcome |-> "none"]
EndedOutbox == [IdleOutbox EXCEPT !.step = "ended"]
IdleDispatch == [step |-> "idle", job |-> 0, at |-> 0]
EndedDispatch == [IdleDispatch EXCEPT !.step = "ended"]
NoRecovery == [at |-> 0, cursor |-> 0]

\* A shutdown first drains provider dispatch and then cancels the outbox.
ProcessStates == {"down", "recovering", "running", "draining", "stopping", "refused"}

Alive == process \in {"running", "draining", "stopping"}
Cancelled == process = "stopping"

DInit ==
    /\ Init
    /\ now = 1
    /\ process = "down"
    /\ recovery = NoRecovery
    /\ dispatch = EndedDispatch
    /\ outbox = EndedOutbox
    /\ received = {}
    /\ held = {}
    /\ kills = 0
    /\ stops = 0

-----------------------------------------------------------------------------
(***************************************************************************)
(* Time.  The clock moves freely up to Horizon and then only while a retry *)
(* time or a running lease awaits it: time that passes while nothing in    *)
(* the store depends on it is left out.  It stops short of MaxTime by the  *)
(* largest jitter: the end of representable time is never in sight.        *)
(***************************************************************************)
Deadlines ==
    UNION {{jobs[j].target[r].next} \cup
           {jobs[j].attempt[r][n].expires :
               n \in {n \in AttemptNumbers :
                         jobs[j].attempt[r][n].status \in ActiveAttemptStatus}} :
               j \in Jobs, r \in Relays}

Tick ==
    /\ now < Horizon \/ \E time \in Deadlines : now <= time
    /\ now + JitterMax < MaxTime
    /\ now' = now + 1
    /\ UNCHANGED <<jobs, process, recovery, dispatch, outbox, environment, kills, stops>>

-----------------------------------------------------------------------------
(***************************************************************************)
(* Provider dispatch (runtime_nip46.rs: process).  The completion time is  *)
(* read before the response is signed by the provider; the commit that     *)
(* creates the delivery job carries it.  A refused commit is a State       *)
(* error, which ends the critical task and with it the daemon.             *)
(***************************************************************************)
\* The failure of a critical task starts the shutdown, unless it has begun.
BeginShutdown == process' = IF process = "running" THEN "draining" ELSE process

ReadCompletionTime ==
    /\ process \in {"running", "draining"}
    /\ dispatch.step = "idle"
    /\ \E j \in Jobs :
          /\ jobs[j].status = "absent"
          /\ dispatch' = [step |-> "commit", job |-> j, at |-> now]
    /\ UNCHANGED <<jobs, now, process, recovery, outbox, environment, kills, stops>>

CommitResponse ==
    /\ Alive
    /\ dispatch.step = "commit"
    /\ \E p \in Policies :
          IF CreateAnswer(dispatch.job, p, dispatch.at) = "Created"
          THEN /\ CreateJob(dispatch.job, p, dispatch.at)
               /\ dispatch' = IdleDispatch
               /\ UNCHANGED process
          ELSE /\ BeginShutdown
               /\ dispatch' = EndedDispatch
               /\ UNCHANGED jobs
    /\ UNCHANGED <<now, recovery, outbox, environment, kills, stops>>

\* The provider fails, and the request is processed again later.
DropResponse ==
    /\ Alive
    /\ dispatch.step = "commit"
    /\ dispatch' = IdleDispatch
    /\ UNCHANGED <<jobs, now, process, recovery, outbox, environment, kills, stops>>

\* The shutdown cancels the task (DrainOperations).
DispatchEnds ==
    /\ process \in {"draining", "stopping"}
    /\ dispatch.step = "idle"
    /\ dispatch' = EndedDispatch
    /\ UNCHANGED <<jobs, now, process, recovery, outbox, environment, kills, stops>>

-----------------------------------------------------------------------------
(***************************************************************************)
(* The outbox task (runtime_graph.rs: spawn_delivery_outbox, and           *)
(* delivery_worker.rs: run_with_adapter).  One clock reading dates the     *)
(* claim, the submission and the outcome of an attempt.                    *)
(***************************************************************************)
OutboxUnchanged == UNCHANGED <<now, recovery, dispatch, kills, stops>>

ReadOutboxTime ==
    /\ Alive
    /\ outbox.step = "idle"
    /\ outbox' = IF Cancelled THEN EndedOutbox
                 ELSE [IdleOutbox EXCEPT !.step = "query", !.at = now]
    /\ UNCHANGED <<jobs, process, environment>> /\ OutboxUnchanged

\* Faulty variant: lost acknowledgements are never tried again.
ReadyTargetsKnown(t) ==
    {a \in Jobs \X Relays :
        LET row == jobs[a[1]]  target == row.target[a[2]] IN
        /\ Open(row)
        /\ target.status \in {"pending", "retryable"}
        /\ target.count < row.policy.max
        /\ target.active = 0
        /\ target.next <= t}

\* next_ready_delivery_target
ReadyTargets(t) ==
    {a \in Jobs \X Relays :
        LET row == jobs[a[1]]  target == row.target[a[2]] IN
        /\ Open(row)
        /\ target.status \in {"pending", "retryable", "unknown"}
        /\ target.count < row.policy.max
        /\ target.active = 0
        /\ target.next <= t}

\* ORDER BY created_at_unix_ms, job_id, target_index
Before(a, b) ==
    \/ jobs[a[1]].created < jobs[b[1]].created
    \/ jobs[a[1]].created = jobs[b[1]].created /\ a[1] < b[1]
    \/ a[1] = b[1] /\ a[2] < b[2]

QueryReadyTarget ==
    /\ Alive
    /\ outbox.step = "query"
    /\ \/ /\ ReadyTargets(outbox.at) = {}
          /\ outbox' = IdleOutbox
       \/ \E first \in ReadyTargets(outbox.at) :
             /\ \A other \in ReadyTargets(outbox.at) : first = other \/ Before(first, other)
             /\ outbox' = [outbox EXCEPT !.step = "claim", !.job = first[1],
                                         !.relay = first[2]]
    /\ UNCHANGED <<jobs, process, environment>> /\ OutboxUnchanged

\* A nonce of 32 fresh random bytes: one that the target has not seen.
FreshNonce(j, r) ==
    CHOOSE nonce \in Nonces :
        \A n \in AttemptNumbers : jobs[j].attempt[r][n].nonce # nonce

\* Any state error of the worker ends the task, and with it the daemon.
TaskFailure ==
    /\ outbox' = EndedOutbox
    /\ BeginShutdown
    /\ UNCHANGED jobs

OutboxClaimAnswer ==
    ClaimAnswer(jobs[outbox.job], outbox.relay,
                FreshNonce(outbox.job, outbox.relay), outbox.at)

ClaimReadyTarget ==
    LET j == outbox.job  r == outbox.relay  nonce == FreshNonce(j, r) IN
    /\ Alive
    /\ outbox.step = "claim"
    /\ \/ /\ Cancelled
          /\ outbox' = IdleOutbox
          /\ UNCHANGED <<jobs, process>>
       \/ /\ ~Cancelled
          /\ ClaimTarget(j, r, nonce, outbox.at)
          /\ outbox' = [outbox EXCEPT !.step = "prepare",
                                      !.number = jobs[j].target[r].count + 1]
          /\ UNCHANGED process
       \/ /\ ~Cancelled
          /\ OutboxClaimAnswer \in {"Terminal", "ExactReplay", "NotReady"}
          /\ outbox' = IdleOutbox
          /\ UNCHANGED <<jobs, process>>
       \/ /\ ~Cancelled
          /\ OutboxClaimAnswer \in {"Binding", "Storage"}
          /\ TaskFailure
    /\ UNCHANGED environment /\ OutboxUnchanged

\* Faulty variant: the event is sent without the submission being recorded.
PrepareDeliveryUnrecorded ==
    /\ Alive
    /\ outbox.step = "prepare"
    /\ \/ outbox' = [outbox EXCEPT !.step = "persist", !.outcome = "TransportFailed"]
       \/ /\ ~Cancelled
          /\ outbox' = [outbox EXCEPT !.step = "execute"]
    /\ UNCHANGED <<jobs, process, environment>> /\ OutboxUnchanged

\* The adapter refuses the event, or the shutdown comes first: nothing is sent.
PrepareDelivery ==
    /\ Alive
    /\ outbox.step = "prepare"
    /\ \/ outbox' = [outbox EXCEPT !.step = "persist", !.outcome = "TransportFailed"]
       \/ /\ ~Cancelled
          /\ outbox' = [outbox EXCEPT !.step = "submit"]
    /\ UNCHANGED <<jobs, process, environment>> /\ OutboxUnchanged

SubmitDelivery ==
    /\ Alive
    /\ outbox.step = "submit"
    /\ \/ /\ MarkSubmitted(outbox.job, outbox.relay, outbox.number, outbox.at)
          /\ outbox' = [outbox EXCEPT !.step = "execute"]
          /\ UNCHANGED process
       \/ /\ SubmitAnswer(jobs[outbox.job], outbox.relay, outbox.number, outbox.at)
                \notin {"Submitted", "ExactReplay"}
          /\ TaskFailure
    /\ UNCHANGED environment /\ OutboxUnchanged

\* The event reaches the relay, which keeps it or refuses it.
RelayReceives ==
    LET event == <<outbox.job, outbox.relay, outbox.number>> IN
    /\ Alive
    /\ outbox.step = "execute"
    /\ event \notin received
    /\ received' = received \cup {event}
    /\ \/ held' = held \cup {<<outbox.job, outbox.relay>>}
       \/ UNCHANGED held
    /\ UNCHANGED <<jobs, process, outbox>> /\ OutboxUnchanged

\* What the adapter reports.  Only an acceptance is proof of anything: the
\* other reports, and a cancellation, may come before or after the event
\* reached the relay.
AdapterReports(outcome) ==
    /\ Alive
    /\ outbox.step = "execute"
    /\ outcome = "Delivered" => <<outbox.job, outbox.relay>> \in held
    /\ outcome = "RelayRejected" =>
          <<outbox.job, outbox.relay, outbox.number>> \in received
    /\ outbox' = [outbox EXCEPT !.step = "persist", !.outcome = outcome]
    /\ UNCHANGED <<jobs, process, environment>> /\ OutboxUnchanged

\* delivery_retry_jitter: full jitter, none when no retry can follow.
delivery_retry_jitter(p, number, outcome) ==
    {jitter \in Jitters :
        IF outcome = "Delivered" \/ number >= p.max THEN jitter = 0
        ELSE jitter <= BackoffCap(p, number)}

PersistOutcome ==
    LET j == outbox.job  r == outbox.relay  n == outbox.number IN
    /\ Alive
    /\ outbox.step = "persist"
    /\ \E jitter \in delivery_retry_jitter(jobs[j].policy, n, outbox.outcome) :
          \/ /\ RecordOutcome(j, r, n, outbox.outcome, jitter, outbox.at)
             /\ outbox' = IdleOutbox
             /\ UNCHANGED process
          \/ /\ OutcomeAnswer(jobs[j], r, n, outbox.outcome, jitter, outbox.at)
                   = "Binding"
             /\ TaskFailure
    /\ UNCHANGED environment /\ OutboxUnchanged

-----------------------------------------------------------------------------
(***************************************************************************)
(* Restart recovery (state_recovery.rs).  It runs before any task starts,  *)
(* in batches of jobs by identifier, each batch one transaction.  A lease  *)
(* that ran out is resolved with a jitter drawn from the start's entropy;  *)
(* one that still runs is left alone.  An error makes the daemon refuse to *)
(* start.                                                                  *)
(***************************************************************************)
\* recovery_jitter
recovery_jitter(p, number) == {jitter \in Jitters : jitter <= BackoffCap(p, number)}

Stale(row, r, t) ==
    row.target[r].active # 0 /\ t > LastAttempt(row, r).expires

RecoverTarget(before, jitter, t, r, result) ==
    LET n == before.target[r].active IN
    IF ~Stale(before, r, t) THEN result
    ELSE [row |-> recover_expired(result.row, r, n, jitter[r], t),
          ok  |-> /\ result.ok
                  /\ RecoverAnswer(result.row, r, n, jitter[r], t) = "Recovered"]

\* What is asked of a job's attempts before and after its recovery.
validate_attempt_histories(row) ==
    \A r \in Relays :
        LET target == row.target[r] IN
        /\ \A n \in AttemptNumbers :
              row.attempt[r][n].status # "none" <=> n <= target.count
        /\ IF target.status \in ActiveTargetStatus
           THEN /\ target.count > 0
                /\ target.active = target.count
                /\ LastAttempt(row, r).status = target.status
           ELSE target.count > 0 =>
                   LastAttempt(row, r).status \notin ActiveAttemptStatus

\* Targets are recovered in index order, each on the row the ones before it left.
RecoverTargets(row, jitter, t) ==
    LET last == Max(Relays \cup {0})
        upTo[i \in 0..last] ==
            IF i = 0 THEN [row |-> row, ok |-> validate_attempt_histories(row)]
            ELSE IF i \in Relays THEN RecoverTarget(row, jitter, t, i, upTo[i - 1])
            ELSE upTo[i - 1]
    IN upTo[last]

\* The job is finalized once more at the end and its histories are validated
\* before and after.
RecoverRow(row, jitter, t) ==
    LET result == RecoverTargets(row, jitter, t)
        final == finalize_job_if_terminal(result.row, t)
    IN [row |-> final,
        ok  |-> /\ result.ok
                /\ FinalizeAccepted(result.row, t)
                /\ validate_attempt_histories(final)]

Examined == {j \in ActiveJobs : j > recovery.cursor}

Batch == {j \in Examined : Cardinality({k \in Examined : k < j}) < RecoveryBatch}

\* Jitter for every target of the batch, each within its attempt's cap.
BatchJitter ==
    {jitter \in [Batch -> [Relays -> Jitters]] :
        \A j \in Batch, r \in Relays :
            IF Stale(jobs[j], r, recovery.at)
            THEN jitter[j][r] \in recovery_jitter(jobs[j].policy, jobs[j].target[r].count)
            ELSE jitter[j][r] = 0}

Start ==
    /\ process \in {"down", "refused"}
    /\ process' = "recovering"
    /\ recovery' = [at |-> now, cursor |-> 0]
    /\ UNCHANGED <<jobs, now, dispatch, outbox, environment, kills, stops>>

\* Every batch counts the open jobs first.  The orphans it also looks for cannot
\* exist: a response or a document and its job are one transaction, and rows
\* are never deleted.
verify_global_invariants == Cardinality(ActiveJobs) <= OutboxMaximum

RecoverBatch ==
    /\ process = "recovering"
    /\ \E jitter \in BatchJitter :
          LET result == [j \in Batch |-> RecoverRow(jobs[j], jitter[j], recovery.at)] IN
          IF verify_global_invariants /\ \A j \in Batch : result[j].ok
          THEN /\ jobs' = [j \in Jobs |-> IF j \in Batch THEN result[j].row ELSE jobs[j]]
               /\ IF Batch = Examined
                  THEN /\ process' = "running"
                       /\ recovery' = NoRecovery
                       /\ dispatch' = IdleDispatch
                       /\ outbox' = IdleOutbox
                  ELSE /\ recovery' = [recovery EXCEPT !.cursor = Max(Batch)]
                       /\ UNCHANGED <<process, dispatch, outbox>>
          ELSE /\ process' = "refused"
               /\ recovery' = NoRecovery
               /\ UNCHANGED <<jobs, dispatch, outbox>>
    /\ UNCHANGED <<now, environment, kills, stops>>

-----------------------------------------------------------------------------
\* SIGTERM: the tasks are cancelled phase by phase and end by themselves.
Stop ==
    /\ process = "running"
    /\ stops < MaxStops
    /\ stops' = stops + 1
    /\ BeginShutdown
    /\ UNCHANGED <<jobs, now, recovery, dispatch, outbox, environment, kills>>

\* The shutdown comes to the phase of the outbox (PersistRecoverableWork).
CancelOutbox ==
    /\ process = "draining"
    /\ process' = "stopping"
    /\ UNCHANGED <<jobs, now, recovery, dispatch, outbox, environment, kills, stops>>

\* Faulty variant: the shutdown does not wait for the outbox.
ExitEarly ==
    /\ process = "stopping"
    /\ dispatch = EndedDispatch
    /\ process' = "down"
    /\ UNCHANGED <<jobs, now, recovery, dispatch, outbox, environment, kills, stops>>

\* The shutdown is complete when every task has ended.
Exit ==
    /\ process = "stopping"
    /\ outbox = EndedOutbox
    /\ dispatch = EndedDispatch
    /\ process' = "down"
    /\ UNCHANGED <<jobs, now, recovery, dispatch, outbox, environment, kills, stops>>

\* The process dies between two transactions.
Kill ==
    /\ process \in {"recovering", "running", "draining", "stopping"}
    /\ kills < MaxKills
    /\ kills' = kills + 1
    /\ process' = "down"
    /\ recovery' = NoRecovery
    /\ dispatch' = EndedDispatch
    /\ outbox' = EndedOutbox
    /\ UNCHANGED <<jobs, now, environment, stops>>

OutboxStep ==
    \/ ReadOutboxTime
    \/ QueryReadyTarget
    \/ ClaimReadyTarget
    \/ PrepareDelivery
    \/ SubmitDelivery
    \/ \E outcome \in Outcomes : AdapterReports(outcome)
    \/ PersistOutcome

DNext ==
    \/ Tick
    \/ ReadCompletionTime \/ CommitResponse \/ DropResponse \/ DispatchEnds
    \/ OutboxStep \/ RelayReceives
    \/ Start \/ RecoverBatch \/ Stop \/ CancelOutbox \/ Exit \/ Kill

DSpec == DInit /\ [][DNext]_dvars

(***************************************************************************)
(* The tasks are scheduled by the runtime and every relay call ends by its *)
(* deadline, and the clock advances.  The service manager starts the       *)
(* daemon again after it failed, and whoever stopped it starts it again.   *)
(* A daemon that refused to start exits with the status of a state error,  *)
(* which the service manager does not restart.  Nothing is assumed of what *)
(* relays answer.                                                          *)
(***************************************************************************)
Fairness ==
    /\ WF_dvars(Tick)
    /\ WF_dvars(CommitResponse \/ DropResponse \/ DispatchEnds)
    /\ WF_dvars(OutboxStep)
    /\ WF_dvars(process = "down" /\ Start)
    /\ WF_dvars(RecoverBatch)
    /\ WF_dvars(CancelOutbox)
    /\ WF_dvars(Exit)

FairSpec == DSpec /\ Fairness

-----------------------------------------------------------------------------
DaemonTypeOK ==
    /\ TypeOK
    /\ now \in Times
    /\ process \in ProcessStates
    /\ recovery \in [at : 0..MaxTime, cursor : Jobs \cup {0}]
    /\ dispatch \in [step : {"idle", "commit", "ended"}, job : Jobs \cup {0}, at : 0..MaxTime]
    /\ outbox \in [step : Steps, at : 0..MaxTime, job : Jobs \cup {0},
                   relay : Relays \cup {0}, number : 0..AttemptMax,
                   outcome : Outcomes \cup {"none"}]
    /\ outbox.step = "persist" <=> outbox.outcome \in Outcomes
    /\ outbox.step \in {"idle", "query", "ended"} <=> outbox.job = 0
    /\ received \subseteq Jobs \X Relays \X AttemptNumbers
    /\ held \subseteq Jobs \X Relays
    /\ kills \in 0..MaxKills
    /\ stops \in 0..MaxStops

(***************************************************************************)
(* Submitted is durable before the event can reach the relay, whatever     *)
(* kills or failures come between (delivery_worker.rs persists Submitted   *)
(* immediately before execution), so an event that somebody received is    *)
(* never written off as a lease that expired before submission.            *)
(***************************************************************************)
SubmittedBeforeSend ==
    \A event \in received :
        LET attempt == jobs[event[1]].attempt[event[2]][event[3]] IN
        /\ attempt.submitted # 0
        /\ attempt.reason # "lease_expired_before_submit"

(***************************************************************************)
(* A job is "delivered" only if enough of its required relays really hold  *)
(* the event.                                                              *)
(***************************************************************************)
DeliveredIsHeld ==
    \A j \in Jobs :
        jobs[j].status = "delivered" =>
            Cardinality({r \in jobs[j].policy.required : <<j, r>> \in held})
                >= jobs[j].policy.acks

(***************************************************************************)
(* One attempt at a time: while the outbox works on an attempt, any other  *)
(* running attempt is a lease that an earlier, killed process left behind. *)
(***************************************************************************)
RunningAttempts ==
    {a \in Jobs \X Relays \X AttemptNumbers :
        jobs[a[1]].attempt[a[2]][a[3]].status \in ActiveAttemptStatus}

OneAttemptPerLife == Cardinality(RunningAttempts) <= kills + 1

(***************************************************************************)
(* A shutdown that is not cut short leaves no lease behind: the outbox     *)
(* ends its attempt before its task ends (run_with_adapter persists an     *)
(* outcome on every path once it has claimed).                             *)
(***************************************************************************)
CleanExit == process = "down" /\ kills = 0 => RunningAttempts = {}

\* What the tasks have in hand and the leases in the database agree: a life has
\* at most one, and a daemon that was stopped in order leaves none
\* (run_with_adapter, spawn_delivery_outbox).
LeasesAccounted == DaemonTypeOK /\ OneAttemptPerLife /\ CleanExit

(***************************************************************************)
(* Every admitted job is eventually finished, whatever the relays answer,  *)
(* unless the process is ended again and again.  A full outbox does that:  *)
(* it refuses the commit of the next response, which ends the dispatch     *)
(* task and with it the daemon, perhaps before the outbox task has had its *)
(* turn (run_provider_dispatch, create_job).                               *)
(***************************************************************************)
EveryJobFinishes ==
    [](kills = 0) /\ <>[](process # "draining") =>
        \A j \in Jobs : Open(jobs[j]) ~> Terminal(jobs[j])

(***************************************************************************)
(* A target that the outbox found ready can be claimed, or is answered as  *)
(* already taken; the claim is never an error, which would end the daemon. *)
(* It does not hold: a job may carry a later time than the reading the     *)
(* outbox claims with (README, known deviations).                          *)
(***************************************************************************)
ReadyIsClaimable ==
    outbox.step = "claim" => OutboxClaimAnswer \notin {"Binding", "Storage"}

(***************************************************************************)
(* Restart recovery repairs whatever a kill left behind: the daemon never  *)
(* refuses to start on a store that its own transactions wrote.            *)
(***************************************************************************)
RecoverySucceeds == process # "refused"

(***************************************************************************)
(* A lease that ran out on an unfinished job is eventually resolved.  It   *)
(* does not hold of a lease that was still running when the daemon started *)
(* again after a kill (README, known deviations).                          *)
(***************************************************************************)
StaleLeaseRecovers ==
    \A j \in Jobs, r \in Relays :
        (process = "running" /\ Open(jobs[j]) /\ Stale(jobs[j], r, now))
            ~> (jobs[j].target[r].active = 0 \/ process # "running")
=============================================================================
