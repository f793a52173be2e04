------------------------------ MODULE Delivery ------------------------------
(***************************************************************************)
(* The durable delivery store: delivery_jobs, delivery_targets and         *)
(* delivery_attempts, and the five transactions that change them           *)
(* (src/src/state_delivery.rs, with the table guards of                    *)
(* src/src/state_catalog.rs).                                              *)
(*                                                                         *)
(* One row of `jobs' is a job with its targets and their attempts.  Every  *)
(* operation of the code runs in one SQLite transaction, so it is one step *)
(* here; an operation that returns an error rolls its transaction back and *)
(* is no step at all.  What the caller gets back is the operation's        *)
(* ...Answer operator, which the daemon's model reads.                     *)
(*                                                                         *)
(* Clock readings, nonces and retry jitter are injected by the callers and *)
(* are arbitrary here: the store has to stay correct whatever it is given. *)
(* 0 stands for SQL NULL, and MaxTime for the largest time the code's      *)
(* MycDeliveryTimeUnixMs can hold.                                         *)
(***************************************************************************)
EXTENDS Integers, FiniteSets

CONSTANTS
    Jobs,          \* delivery sources; a source has at most one job
    Relays,        \* relays of the configured write inventory
    Policies,      \* the delivery policies a configuration may bind
    Nonces,        \* attempt nonces
    AttemptMax,    \* MYC_DELIVERY_ATTEMPT_MAX_COUNT
    OutboxMaximum, \* configured ceiling of unfinished jobs
    MaxTime,       \* the last representable time
    JitterMax      \* MYC_DELIVERY_RETRY_JITTER_MAX_MS

VARIABLE
    jobs           \* the three delivery tables, one row per job

Times == 1..MaxTime
Jitters == 0..JitterMax
AttemptNumbers == 1..AttemptMax

(***************************************************************************)
(* Policies.  A policy keeps the targets, the required ones among them,    *)
(* the number of acknowledgements of required targets that its mode asks   *)
(* for, and the retry limits.                                              *)
(***************************************************************************)
Policy == [targets : SUBSET Relays, required : SUBSET Relays, acks : Nat,
           max : AttemptNumbers, initial : Nat, maximum : Nat, deadline : Nat]

\* MycDeliveryPolicies::new derives the acknowledgement count from the mode.
required_acknowledgements(mode, quorum, required) ==
    CASE mode = "at_least_one_required" -> 1
      [] mode = "all_required"          -> Cardinality(required)
      [] mode = "required_quorum"       -> quorum

ValidPolicy(p) ==
    /\ p.targets # {}
    /\ p.required \subseteq p.targets
    /\ p.acks \in 1..Cardinality(p.required)
    /\ p.initial \in 1..p.maximum
    /\ p.maximum <= JitterMax
    /\ p.deadline >= 1

ASSUME DeliveryAssumption ==
    /\ IsFiniteSet(Jobs)
    /\ IsFiniteSet(Relays)
    /\ AttemptMax \in Nat \ {0}
    /\ OutboxMaximum \in Nat \ {0}
    /\ MaxTime \in Nat
    /\ JitterMax \in Nat
    /\ 0 \notin Nonces
    /\ Policies # {}
    /\ Policies \subseteq Policy
    /\ \A p \in Policies : ValidPolicy(p)

(***************************************************************************)
(* Rows.                                                                   *)
(***************************************************************************)
OpenStatus == {"pending", "active"}
TerminalStatus == {"delivered", "failed", "unknown"}
JobStatus == {"absent"} \cup OpenStatus \cup TerminalStatus

ActiveTargetStatus == {"leased", "submitted"}
TargetStatus == {"none", "pending", "leased", "submitted", "delivered",
                 "retryable", "unknown", "exhausted"}

ActiveAttemptStatus == {"leased", "submitted"}
AttemptStatus == {"none"} \cup ActiveAttemptStatus \cup TerminalStatus

Reasons == {"none", "accepted", "relay_rejected", "transport_failed",
            "lease_expired_before_submit", "acknowledgement_lost"}

AttemptRow == [nonce : Nonces \cup {0}, status : AttemptStatus,
               leased : 0..MaxTime, expires : 0..MaxTime,
               submitted : 0..MaxTime, resolved : 0..MaxTime, reason : Reasons]

TargetRow == [status : TargetStatus, count : 0..AttemptMax,
              active : 0..AttemptMax, next : 0..MaxTime, updated : 0..MaxTime]

JobRow == [status : JobStatus, policy : Policies,
           created : 0..MaxTime, updated : 0..MaxTime,
           target : [Relays -> TargetRow],
           attempt : [Relays -> [AttemptNumbers -> AttemptRow]]]

NoAttempt == [nonce |-> 0, status |-> "none", leased |-> 0, expires |-> 0,
              submitted |-> 0, resolved |-> 0, reason |-> "none"]

NoTarget == [status |-> "none", count |-> 0, active |-> 0, next |-> 0,
             updated |-> 0]

NoAttempts == [r \in Relays |-> [n \in AttemptNumbers |-> NoAttempt]]

NoJob == [status |-> "absent", policy |-> CHOOSE p \in Policies : TRUE,
          created |-> 0, updated |-> 0,
          target |-> [r \in Relays |-> NoTarget], attempt |-> NoAttempts]

Open(row) == row.status \in OpenStatus
Terminal(row) == row.status \in TerminalStatus

ActiveJobs == {j \in Jobs : Open(jobs[j])}

\* The row with one target, and the attempt of it that is concerned, rewritten.
Rewrite(row, r, n, target, attempt) ==
    [row EXCEPT !.target[r] = target, !.attempt[r][n] = attempt]

-----------------------------------------------------------------------------
(***************************************************************************)
(* create_job: the job and its zero-attempt targets, copied from the       *)
(* configured policy.  A source that has a job is an exact replay or an    *)
(* error; at the outbox ceiling the admission is refused.                  *)
(***************************************************************************)
exact_job(row, p, t) == row.policy = p /\ row.created = t

CreateAnswer(j, p, t) ==
    IF jobs[j].status # "absent"
    THEN IF exact_job(jobs[j], p, t) THEN "ExactReplay" ELSE "Binding"
    ELSE IF Cardinality(ActiveJobs) >= OutboxMaximum THEN "Binding"
    ELSE "Created"

create_job(p, t) ==
    [status |-> "pending", policy |-> p, created |-> t, updated |-> t,
     target |-> [r \in Relays |->
                    IF r \in p.targets
                    THEN [NoTarget EXCEPT !.status = "pending", !.updated = t]
                    ELSE NoTarget],
     attempt |-> NoAttempts]

(***************************************************************************)
(* claim_target: a lease on one target, its attempt numbered after the     *)
(* ones before it.  The table guards refuse a claim dated before the row's *)
(* last update ("Storage").                                                *)
(***************************************************************************)
ClaimAnswer(row, r, nonce, t) ==
    LET target == row.target[r] IN
    IF row.status = "absent" THEN "Binding"
    ELSE IF Terminal(row) THEN "Terminal"
    ELSE IF target.status = "none" THEN "Binding"
    ELSE IF \E n \in AttemptNumbers : row.attempt[r][n].nonce = nonce
         THEN "ExactReplay"
    ELSE IF target.active # 0 \/ target.next > t THEN "NotReady"
    ELSE IF \/ target.status \in {"delivered", "exhausted"}
            \/ target.count >= row.policy.max
         THEN "Terminal"
    ELSE IF t + row.policy.deadline > MaxTime THEN "Binding"
    ELSE IF \/ target.status \notin {"pending", "retryable", "unknown"}
            \/ t < target.updated
            \/ row.status = "pending" /\ t < row.updated
         THEN "Storage"
    ELSE "Claimed"

claim_target(row, r, nonce, t) ==
    LET number == row.target[r].count + 1 IN
    [Rewrite(row, r, number,
             [status |-> "leased", count |-> number, active |-> number,
              next |-> 0, updated |-> t],
             [nonce |-> nonce, status |-> "leased", leased |-> t,
              expires |-> t + row.policy.deadline, submitted |-> 0,
              resolved |-> 0, reason |-> "none"])
        EXCEPT !.status = "active",
               !.updated = IF row.status = "pending" THEN t ELSE @]

(***************************************************************************)
(* mark_submitted: the leased attempt is about to reach its relay.         *)
(***************************************************************************)
SubmitAnswer(row, r, n, t) ==
    LET attempt == row.attempt[r][n] IN
    IF attempt.status = "submitted"
    THEN IF attempt.submitted = t THEN "ExactReplay" ELSE "Binding"
    ELSE IF \/ attempt.status # "leased"
            \/ t < attempt.leased
            \/ t > attempt.expires
            \/ row.target[r].active # n
            \/ row.target[r].status # "leased"
         THEN "Binding"
    ELSE IF t < row.target[r].updated THEN "Storage"
    ELSE "Submitted"

mark_submitted(row, r, n, t) ==
    Rewrite(row, r, n,
            [row.target[r] EXCEPT !.status = "submitted", !.updated = t],
            [row.attempt[r][n] EXCEPT !.status = "submitted", !.submitted = t])

(***************************************************************************)
(* finalize_job_if_terminal: the policy's verdict on a job, from its       *)
(* required targets.  A target whose attempts are used up with the last    *)
(* acknowledgement lost can no longer be counted on, nor called failed.    *)
(***************************************************************************)
LostForGood(row, r) ==
    row.target[r].status = "unknown" /\ row.target[r].count >= row.policy.max

\* Faulty variant: optional relays count like required ones.
DeliveredAny(row) == {r \in Relays : row.target[r].status = "delivered"}

DeliveredRequired(row) ==
    {r \in row.policy.required : row.target[r].status = "delivered"}

PossibleRequired(row) ==
    {r \in row.policy.required :
        row.target[r].status # "exhausted" /\ ~LostForGood(row, r)}

Satisfied(row) == Cardinality(DeliveredRequired(row)) >= row.policy.acks
Possible(row) == Cardinality(PossibleRequired(row)) >= row.policy.acks

Verdict(row) ==
    IF Satisfied(row) THEN "delivered"
    ELSE IF \E r \in row.policy.required : LostForGood(row, r) THEN "unknown"
    ELSE "failed"

\* Faulty variant: only an unreachable policy ends a job.
DecidedUnreachable(row) == ~Possible(row)

Decided(row) == Satisfied(row) \/ ~Possible(row)

\* The guard on delivery_jobs refuses an update dated before the last one.
FinalizeAccepted(row, t) == Open(row) /\ Decided(row) => t >= row.updated

\* Faulty variant: a finished job is judged again by a late outcome.
finalize_again(row, t) ==
    IF row.status # "absent" /\ Decided(row)
    THEN [row EXCEPT !.status = Verdict(row), !.updated = t]
    ELSE row

finalize_job_if_terminal(row, t) ==
    IF Open(row) /\ Decided(row)
    THEN [row EXCEPT !.status = Verdict(row), !.updated = t]
    ELSE row

(***************************************************************************)
(* resolve_attempt_and_target: an attempt ends.  A failed or lost attempt  *)
(* with attempts remaining schedules the next one at the observation plus  *)
(* the jitter; any other ending must come with no jitter.  The update      *)
(* matches only a target in the attempt's own state.                       *)
(***************************************************************************)
\* The cap of the full jitter doubles with each attempt up to the maximum.
BackoffCap(p, n) ==
    LET delay == p.initial * 2^(IF n - 1 < 31 THEN n - 1 ELSE 31) IN
    IF delay < p.maximum THEN delay ELSE p.maximum

AttemptsRemaining(row, r) == row.target[r].count < row.policy.max

SchedulesRetry(row, r, ending) ==
    AttemptsRemaining(row, r) /\ ending \in {"failed", "unknown"}

ResolveAccepted(row, r, n, ending, jitter, t) ==
    /\ IF SchedulesRetry(row, r, ending)
       THEN jitter <= BackoffCap(row.policy, n) /\ t + jitter <= MaxTime
       ELSE jitter = 0
    /\ row.target[r].status = row.attempt[r][n].status
    /\ t >= row.target[r].updated

ResolvedTargetStatus(row, r, ending) ==
    IF ending = "failed"
    THEN IF AttemptsRemaining(row, r) THEN "retryable" ELSE "exhausted"
    ELSE ending

\* Faulty variant: the target goes on naming the attempt.
resolve_keeping_active(row, r, n, ending, reason, jitter, t) ==
    [row EXCEPT
        !.target[r].status = ResolvedTargetStatus(row, r, ending),
        !.target[r].next = IF SchedulesRetry(row, r, ending) THEN t + jitter ELSE 0,
        !.target[r].updated = t,
        !.attempt[r][n].status = ending,
        !.attempt[r][n].resolved = t,
        !.attempt[r][n].reason = reason]

resolve_attempt_and_target(row, r, n, ending, reason, jitter, t) ==
    Rewrite(row, r, n,
            [row.target[r] EXCEPT
                !.status = ResolvedTargetStatus(row, r, ending),
                !.active = 0,
                !.next = IF SchedulesRetry(row, r, ending) THEN t + jitter ELSE 0,
                !.updated = t],
            [row.attempt[r][n] EXCEPT
                !.status = ending, !.resolved = t, !.reason = reason])

(***************************************************************************)
(* record_outcome: what the worker learned about its attempt.              *)
(***************************************************************************)
Outcomes == {"Delivered", "RelayRejected", "TransportFailed",
             "UnknownAcknowledgement"}

OutcomeStatus(o) ==
    CASE o = "Delivered" -> "delivered"
      [] o = "UnknownAcknowledgement" -> "unknown"
      [] o \in {"RelayRejected", "TransportFailed"} -> "failed"

OutcomeReason(o) ==
    CASE o = "Delivered" -> "accepted"
      [] o = "RelayRejected" -> "relay_rejected"
      [] o = "TransportFailed" -> "transport_failed"
      [] o = "UnknownAcknowledgement" -> "acknowledgement_lost"

\* Only a transport failure may end an attempt that was never submitted.
RequiredPrior(o) ==
    IF o = "TransportFailed" THEN ActiveAttemptStatus ELSE {"submitted"}

recorded(row, r, n, o, jitter, t) ==
    resolve_attempt_and_target(row, r, n, OutcomeStatus(o), OutcomeReason(o),
                               jitter, t)

OutcomeAnswer(row, r, n, o, jitter, t) ==
    LET attempt == row.attempt[r][n] IN
    IF attempt.status \in TerminalStatus
    THEN IF /\ attempt.status = OutcomeStatus(o)
            /\ attempt.reason = OutcomeReason(o)
            /\ attempt.resolved = t
         THEN "ExactReplay" ELSE "Binding"
    ELSE IF /\ attempt.status \in RequiredPrior(o)
            /\ row.target[r].active = n
            /\ attempt.leased <= t
            /\ attempt.submitted <= t
            /\ t <= attempt.expires
            /\ ResolveAccepted(row, r, n, OutcomeStatus(o), jitter, t)
            /\ FinalizeAccepted(recorded(row, r, n, o, jitter, t), t)
         THEN "Recorded"
    ELSE "Binding"

\* Faulty variant: the job is not finalized with its last outcome.
record_outcome_only(row, r, n, o, jitter, t) == recorded(row, r, n, o, jitter, t)

record_outcome(row, r, n, o, jitter, t) ==
    finalize_job_if_terminal(recorded(row, r, n, o, jitter, t), t)

(***************************************************************************)
(* recover_expired: a lease that ran out.  Before submission nothing can   *)
(* have reached the relay; after it, nobody knows.                         *)
(***************************************************************************)
\* Faulty variant: what was submitted is taken for delivered.
ExpiredAsDelivered(attempt) ==
    IF attempt.status = "leased" THEN "failed" ELSE "delivered"

ExpiredStatus(attempt) == IF attempt.status = "leased" THEN "failed" ELSE "unknown"

ExpiredReason(attempt) ==
    IF attempt.status = "leased" THEN "lease_expired_before_submit"
    ELSE "acknowledgement_lost"

expired(row, r, n, jitter, t) ==
    LET attempt == row.attempt[r][n] IN
    resolve_attempt_and_target(row, r, n, ExpiredStatus(attempt),
                               ExpiredReason(attempt), jitter, t)

\* Faulty variant: a lease is taken for expired at its very end.
RecoverAnswerEarly(row, r, n, jitter, t) ==
    LET attempt == row.attempt[r][n] IN
    IF attempt.status \in TerminalStatus THEN "Unchanged"
    ELSE IF /\ attempt.status \in ActiveAttemptStatus
            /\ t >= attempt.expires
            /\ row.target[r].active = n
            /\ ResolveAccepted(row, r, n, ExpiredStatus(attempt), jitter, t)
            /\ FinalizeAccepted(expired(row, r, n, jitter, t), t)
         THEN "Recovered"
    ELSE "Binding"

RecoverAnswer(row, r, n, jitter, t) ==
    LET attempt == row.attempt[r][n] IN
    IF attempt.status \in TerminalStatus THEN "Unchanged"
    ELSE IF /\ attempt.status \in ActiveAttemptStatus
            /\ t > attempt.expires
            /\ row.target[r].active = n
            /\ ResolveAccepted(row, r, n, ExpiredStatus(attempt), jitter, t)
            /\ FinalizeAccepted(expired(row, r, n, jitter, t), t)
         THEN "Recovered"
    ELSE "Binding"

recover_expired(row, r, n, jitter, t) ==
    finalize_job_if_terminal(expired(row, r, n, jitter, t), t)

-----------------------------------------------------------------------------
CreateJob(j, p, t) ==
    /\ CreateAnswer(j, p, t) = "Created"
    /\ jobs' = [jobs EXCEPT ![j] = create_job(p, t)]

ClaimTarget(j, r, nonce, t) ==
    /\ ClaimAnswer(jobs[j], r, nonce, t) = "Claimed"
    /\ jobs' = [jobs EXCEPT ![j] = claim_target(jobs[j], r, nonce, t)]

MarkSubmitted(j, r, n, t) ==
    /\ SubmitAnswer(jobs[j], r, n, t) = "Submitted"
    /\ jobs' = [jobs EXCEPT ![j] = mark_submitted(jobs[j], r, n, t)]

RecordOutcome(j, r, n, o, jitter, t) ==
    /\ OutcomeAnswer(jobs[j], r, n, o, jitter, t) = "Recorded"
    /\ jobs' = [jobs EXCEPT ![j] = record_outcome(jobs[j], r, n, o, jitter, t)]

RecoverExpired(j, r, n, jitter, t) ==
    /\ RecoverAnswer(jobs[j], r, n, jitter, t) = "Recovered"
    /\ jobs' = [jobs EXCEPT ![j] = recover_expired(jobs[j], r, n, jitter, t)]

Init == jobs = [j \in Jobs |-> NoJob]

Next ==
    \E j \in Jobs, t \in Times :
        \/ \E p \in Policies : CreateJob(j, p, t)
        \/ \E r \in Relays, nonce \in Nonces : ClaimTarget(j, r, nonce, t)
        \/ \E r \in Relays, n \in AttemptNumbers : MarkSubmitted(j, r, n, t)
        \/ \E r \in Relays, n \in AttemptNumbers, o \in Outcomes,
              jitter \in Jitters : RecordOutcome(j, r, n, o, jitter, t)
        \/ \E r \in Relays, n \in AttemptNumbers, jitter \in Jitters :
              RecoverExpired(j, r, n, jitter, t)

vars == <<jobs>>

Spec == Init /\ [][Next]_vars

-----------------------------------------------------------------------------
TypeOK == jobs \in [Jobs -> JobRow]

(***************************************************************************)
(* A job's status is the policy's verdict, neither early nor late: a job   *)
(* is unfinished exactly while its policy is neither met nor out of reach, *)
(* it is "delivered" exactly when enough required targets acknowledged,    *)
(* and once it is "failed" or "unknown" no later outcome of a lease that   *)
(* was still running can meet the policy (state_delivery.rs:               *)
(* finalize_job_if_terminal runs inside every resolving transaction, and   *)
(* record_outcome accepts outcomes for jobs that are already terminal).    *)
(***************************************************************************)
StatusIsVerdict ==
    \A j \in Jobs :
        /\ Open(jobs[j]) => ~Satisfied(jobs[j]) /\ Possible(jobs[j])
        /\ jobs[j].status = "delivered" => Satisfied(jobs[j])
        /\ jobs[j].status \in {"failed", "unknown"} => ~Possible(jobs[j])

(***************************************************************************)
(* The attempt history is the one restart recovery insists on              *)
(* (state_recovery.rs: validate_attempt_histories): attempts are numbered  *)
(* without gaps up to the target's count, only the last one can be         *)
(* running, it runs exactly while the target names it, and the target's    *)
(* status tells how it ended.  No attempt follows an accepted one.         *)
(***************************************************************************)
LastAttempt(row, r) == row.attempt[r][row.target[r].count]

EndsAs(row, r) ==
    CASE row.target[r].status \in ActiveTargetStatus \cup {"delivered", "unknown"} ->
            LastAttempt(row, r).status = row.target[r].status
      [] row.target[r].status \in {"retryable", "exhausted"} ->
            LastAttempt(row, r).status = "failed"
      [] OTHER -> FALSE

History(row, r) ==
    LET target == row.target[r] IN
    /\ target.count <= row.policy.max
    /\ \A n \in AttemptNumbers :
          /\ row.attempt[r][n].status = "none" <=> n > target.count
          /\ n < target.count => row.attempt[r][n].status \in {"failed", "unknown"}
    /\ IF target.count = 0
       THEN target.status \in {"none", "pending"}
       ELSE EndsAs(row, r)
    /\ target.status = "retryable" => target.count < row.policy.max
    /\ target.status = "exhausted" => target.count = row.policy.max
    /\ target.active =
          IF target.status \in ActiveTargetStatus THEN target.count ELSE 0

HistoriesValid == \A j \in Jobs, r \in Relays : History(jobs[j], r)

(***************************************************************************)
(* What the readers of the tables accept (read_job_rows, parse_target and  *)
(* parse_attempt): every operation reads the rows it works on first, so a  *)
(* row they refuse ("Binding") makes the job unusable for good.            *)
(***************************************************************************)
parse_target(row, r) ==
    LET target == row.target[r] IN
    /\ target.active # 0 <=> target.status \in ActiveTargetStatus
    /\ target.status = "retryable" => target.next # 0
    /\ target.status \notin {"retryable", "unknown"} => target.next = 0

parse_attempt(attempt) ==
    /\ attempt.leased < attempt.expires
    /\ attempt.status \in ActiveAttemptStatus =>
          attempt.resolved = 0 /\ attempt.reason = "none"
    /\ attempt.status \in TerminalStatus =>
          attempt.resolved # 0 /\ attempt.reason # "none"
    /\ attempt.status = "leased" => attempt.submitted = 0
    /\ attempt.status \in {"submitted", "delivered", "unknown"} => attempt.submitted # 0
    /\ attempt.status = "delivered" => attempt.reason = "accepted"
    /\ attempt.status = "unknown" => attempt.reason = "acknowledgement_lost"

\* A stored job has its policy's targets, and a lost target without a next
\* attempt has used all of them.
read_job_rows(row) ==
    /\ ValidPolicy(row.policy)
    /\ \A r \in row.policy.targets :
          row.target[r].status = "unknown" =>
              row.target[r].next # 0 \/ row.target[r].count = row.policy.max

(***************************************************************************)
(* No transaction leaves a row that the readers refuse.                    *)
(***************************************************************************)
RowsReadable ==
    \A j \in Jobs :
        /\ read_job_rows(jobs[j])
        /\ \A r \in Relays :
              /\ parse_target(jobs[j], r)
              /\ \A n \in AttemptNumbers :
                    jobs[j].attempt[r][n].status # "none" =>
                        parse_attempt(jobs[j].attempt[r][n])

(***************************************************************************)
(* Attempts on one relay never overlap in time, whatever clock readings    *)
(* the callers inject: an attempt is leased no earlier than the one before *)
(* it was resolved, and it is submitted within its lease.  An attempt is   *)
(* blamed on an expired lease only after the lease ran out and only if it  *)
(* was never submitted.                                                    *)
(***************************************************************************)
AttemptsOrdered ==
    \A j \in Jobs, r \in Relays, n \in AttemptNumbers :
        LET attempt == jobs[j].attempt[r][n] IN
        /\ n > 1 /\ attempt.status # "none" =>
              jobs[j].attempt[r][n - 1].resolved <= attempt.leased
        /\ attempt.submitted # 0 =>
              attempt.leased <= attempt.submitted /\ attempt.submitted <= attempt.expires
        /\ attempt.resolved # 0 =>
              attempt.leased <= attempt.resolved /\ attempt.submitted <= attempt.resolved
        /\ attempt.reason = "lease_expired_before_submit" =>
              attempt.submitted = 0 /\ attempt.resolved > attempt.expires
        /\ attempt.reason \in {"accepted", "relay_rejected", "transport_failed"} =>
              attempt.resolved <= attempt.expires

\* The rows a job consists of are sound: values in their columns' ranges, rows
\* that read_job_rows and parse_target accept, attempts in the order of their
\* times.  A row that is not makes its job unusable for good.
RowsSound == TypeOK /\ RowsReadable /\ AttemptsOrdered

(***************************************************************************)
(* The outbox ceiling: unfinished jobs never outnumber outbox_maximum,     *)
(* which restart recovery checks before it starts (verify_global_invariants)*)
(* and refuses to start the daemon otherwise.                              *)
(***************************************************************************)
OutboxBounded == Cardinality(ActiveJobs) <= OutboxMaximum

(***************************************************************************)
(* Evidence is only ever added: a finished job keeps its verdict, a        *)
(* resolved attempt keeps its ending (an unknown acknowledgement is never  *)
(* relabelled), a job keeps the policy and creation time it was admitted   *)
(* with, and a target that is delivered or out of attempts is left alone.  *)
(***************************************************************************)
EvidenceKept ==
    [][\A j \in Jobs :
          jobs[j].status # "absent" =>
            /\ jobs'[j].policy = jobs[j].policy
            /\ jobs'[j].created = jobs[j].created
            /\ Terminal(jobs[j]) => jobs'[j].status = jobs[j].status
            /\ \A r \in Relays :
                  /\ \/ jobs[j].target[r].status \in {"delivered", "exhausted"}
                     \/ LostForGood(jobs[j], r)
                     => jobs'[j].target[r] = jobs[j].target[r]
                  /\ \A n \in AttemptNumbers :
                        jobs[j].attempt[r][n].status \in TerminalStatus =>
                            jobs'[j].attempt[r][n] = jobs[j].attempt[r][n]]_vars

(***************************************************************************)
(* Once a job is finished no relay is contacted for it again: a finished   *)
(* job gains no attempt, it only lets the ones that run end.               *)
(***************************************************************************)
NoAttemptAfterFinish ==
    [][\A j \in Jobs : Terminal(jobs[j]) =>
          \A r \in Relays : jobs'[j].target[r].count = jobs[j].target[r].count]_vars

-----------------------------------------------------------------------------
(***************************************************************************)
(* The store implements the outbox: leases, attempts and retries are only  *)
(* the way a relay comes to confirm a job or the policy comes out of reach.*)
(***************************************************************************)
AbstractState(row) == IF Open(row) THEN "open" ELSE row.status

Confirmed(row) == {r \in Relays : row.target[r].status = "delivered"}

Abstract == INSTANCE Outbox WITH
    state <- [j \in Jobs |-> AbstractState(jobs[j])],
    policy <- [j \in Jobs |-> jobs[j].policy],
    confirmed <- [j \in Jobs |-> Confirmed(jobs[j])]

ImplementsOutbox == Abstract!OSpec
=============================================================================
