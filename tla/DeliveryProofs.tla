--------------------------- MODULE DeliveryProofs ---------------------------
(***************************************************************************)
(* Machine-checked proofs about the delivery store and the daemon around   *)
(* it, for every set of jobs, relays and policies and every bound.         *)
(*                                                                         *)
(* Every operation rewrites one row, so each fact is proved once about the *)
(* row an operator returns, and the theorems about Spec only put the rows  *)
(* back into the table.  The daemon's invariant adds what its tasks have   *)
(* in hand and what their clock readings are worth.                        *)
(***************************************************************************)
EXTENDS DeliveryDaemon, FiniteSetTheorems, WellFoundedInduction, TLAPS

-----------------------------------------------------------------------------
(* Type correctness.                                                       *)

\* The parts of a row.
LEMMA RowParts ==
    ASSUME NEW row \in JobRow, NEW r \in Relays, NEW n \in AttemptNumbers
    PROVE  /\ row.status \in JobStatus
           /\ row.policy \in Policies
           /\ row.created \in 0..MaxTime
           /\ row.updated \in 0..MaxTime
           /\ row.target \in [Relays -> TargetRow]
           /\ row.target[r] \in TargetRow
           /\ row.attempt \in [Relays -> [AttemptNumbers -> AttemptRow]]
           /\ row.attempt[r] \in [AttemptNumbers -> AttemptRow]
           /\ row.attempt[r][n] \in AttemptRow
BY DEF JobRow

\* Rewriting fields of a target or an attempt keeps its type.
LEMMA AttemptUpdates ==
    ASSUME NEW a \in AttemptRow, NEW status \in AttemptStatus, NEW t \in 0..MaxTime,
           NEW reason \in Reasons
    PROVE  /\ [a EXCEPT !.status = status, !.submitted = t] \in AttemptRow
           /\ [a EXCEPT !.status = status, !.resolved = t, !.reason = reason] \in AttemptRow
BY DEF AttemptRow

LEMMA TargetUpdates ==
    ASSUME NEW g \in TargetRow, NEW status \in TargetStatus, NEW t \in 0..MaxTime,
           NEW next \in 0..MaxTime
    PROVE  /\ [g EXCEPT !.status = status, !.updated = t] \in TargetRow
           /\ [g EXCEPT !.status = status, !.active = 0, !.next = next, !.updated = t]
                 \in TargetRow
<1>1. 0 \in 0..AttemptMax
  BY DeliveryAssumption
<1>2. [g EXCEPT !.status = status, !.updated = t] \in TargetRow
  BY DEF TargetRow
<1>3. [g EXCEPT !.status = status, !.active = 0, !.next = next, !.updated = t] \in TargetRow
  BY <1>1 DEF TargetRow
<1> QED
  BY <1>2, <1>3

\* What Rewrite changes, and that it keeps the row's type.
LEMMA RewriteFacts ==
    ASSUME NEW row \in JobRow, NEW r \in Relays, NEW n \in AttemptNumbers,
           NEW target \in TargetRow, NEW attempt \in AttemptRow
    PROVE  LET new == Rewrite(row, r, n, target, attempt) IN
           /\ new \in JobRow
           /\ new.status = row.status
           /\ new.policy = row.policy
           /\ new.created = row.created
           /\ new.updated = row.updated
           /\ new.target[r] = target
           /\ new.attempt[r][n] = attempt
           /\ \A s \in Relays : s # r => /\ new.target[s] = row.target[s]
                                         /\ new.attempt[s] = row.attempt[s]
           /\ \A m \in AttemptNumbers : m # n => new.attempt[r][m] = row.attempt[r][m]
BY DEF Rewrite, JobRow

\* A new job is a row of the tables.
LEMMA CreateType ==
    ASSUME NEW p \in Policies, NEW t \in Times
    PROVE  create_job(p, t) \in JobRow
<1>1. 0 \in 0..MaxTime /\ t \in 0..MaxTime /\ 0 \in 0..AttemptMax
  BY DeliveryAssumption DEF Times
<1>2. NoAttempt \in AttemptRow
  BY <1>1 DEF NoAttempt, AttemptRow, AttemptStatus, Reasons
<1>3. NoTarget \in TargetRow
  BY <1>1 DEF NoTarget, TargetRow, TargetStatus
<1>4. [NoTarget EXCEPT !.status = "pending", !.updated = t] \in TargetRow
  BY <1>1 DEF NoTarget, TargetRow, TargetStatus
<1>5. NoAttempts \in [Relays -> [AttemptNumbers -> AttemptRow]]
  BY <1>2 DEF NoAttempts
<1> QED
  BY <1>1, <1>3, <1>4, <1>5 DEF create_job, JobRow, JobStatus, OpenStatus

\* A claim that is granted has a number left and a representable lease end.
LEMMA ClaimedFacts ==
    ASSUME NEW row, NEW r, NEW nonce, NEW t,
           ClaimAnswer(row, r, nonce, t) = "Claimed"
    PROVE  /\ ~Terminal(row)
           /\ row.status # "absent"
           /\ row.target[r].status \in {"pending", "retryable", "unknown"}
           /\ row.target[r].active = 0
           /\ ~(row.target[r].count >= row.policy.max)
           /\ ~(t + row.policy.deadline > MaxTime)
           /\ ~(t < row.target[r].updated)
           /\ ~(row.target[r].next > t)
BY DEF ClaimAnswer

LEMMA ClaimType ==
    ASSUME NEW row \in JobRow, NEW r \in Relays, NEW nonce \in Nonces, NEW t \in Times,
           ClaimAnswer(row, r, nonce, t) = "Claimed"
    PROVE  LET number == row.target[r].count + 1
               target == [status |-> "leased", count |-> number, active |-> number,
                          next |-> 0, updated |-> t]
               attempt == [nonce |-> nonce, status |-> "leased", leased |-> t,
                           expires |-> t + row.policy.deadline, submitted |-> 0,
                           resolved |-> 0, reason |-> "none"]
           IN  /\ number \in AttemptNumbers
               /\ target \in TargetRow
               /\ attempt \in AttemptRow
               /\ claim_target(row, r, nonce, t) \in JobRow
<1> DEFINE number == row.target[r].count + 1
           target == [status |-> "leased", count |-> number, active |-> number,
                      next |-> 0, updated |-> t]
           attempt == [nonce |-> nonce, status |-> "leased", leased |-> t,
                       expires |-> t + row.policy.deadline, submitted |-> 0,
                       resolved |-> 0, reason |-> "none"]
<1>0. 1 \in AttemptNumbers
  BY DeliveryAssumption DEF AttemptNumbers
<1>a. row.policy \in Policy /\ row.target[r] \in TargetRow
  BY <1>0, RowParts, DeliveryAssumption
<1>1. number \in AttemptNumbers
  <2>1. row.policy.max \in 1..AttemptMax /\ row.target[r].count \in 0..AttemptMax
    BY <1>a DEF Policy, TargetRow, AttemptNumbers
  <2>2. ~(row.target[r].count >= row.policy.max)
    BY ClaimedFacts
  <2> QED
    BY <2>1, <2>2, DeliveryAssumption DEF AttemptNumbers
<1>2. t + row.policy.deadline \in 0..MaxTime
  <2>1. row.policy.deadline \in Nat
    BY <1>a DEF Policy
  <2>2. ~(t + row.policy.deadline > MaxTime)
    BY ClaimedFacts
  <2> QED
    BY <2>1, <2>2, DeliveryAssumption DEF Times
<1>3. t \in 0..MaxTime /\ 0 \in 0..MaxTime
  BY DeliveryAssumption DEF Times
<1>4. target \in TargetRow
  BY <1>1, <1>3, DeliveryAssumption DEF TargetRow, TargetStatus, AttemptNumbers
<1>5. attempt \in AttemptRow
  BY <1>2, <1>3, DeliveryAssumption
     DEF AttemptRow, AttemptStatus, ActiveAttemptStatus, Reasons
<1>6. Rewrite(row, r, number, target, attempt) \in JobRow
  BY <1>1, <1>4, <1>5, RewriteFacts
<1>7. claim_target(row, r, nonce, t) \in JobRow
  BY <1>3, <1>6 DEF claim_target, JobRow, JobStatus, OpenStatus
<1> QED
  BY <1>1, <1>4, <1>5, <1>7

LEMMA SubmitType ==
    ASSUME NEW row \in JobRow, NEW r \in Relays, NEW n \in AttemptNumbers, NEW t \in Times
    PROVE  /\ [row.target[r] EXCEPT !.status = "submitted", !.updated = t] \in TargetRow
           /\ [row.attempt[r][n] EXCEPT !.status = "submitted", !.submitted = t]
                 \in AttemptRow
           /\ mark_submitted(row, r, n, t) \in JobRow
<1>1. t \in 0..MaxTime /\ "submitted" \in TargetStatus /\ "submitted" \in AttemptStatus
      /\ "none" \in Reasons
  BY DeliveryAssumption DEF Times, TargetStatus, AttemptStatus, ActiveAttemptStatus, Reasons
<1>2. [row.attempt[r][n] EXCEPT !.status = "submitted", !.submitted = t] \in AttemptRow
  BY <1>1, RowParts, AttemptUpdates
<1>3. [row.target[r] EXCEPT !.status = "submitted", !.updated = t] \in TargetRow
  BY <1>1, RowParts, TargetUpdates
<1> QED
  BY <1>2, <1>3, RewriteFacts DEF mark_submitted

LEMMA ResolveType ==
    ASSUME NEW row \in JobRow, NEW r \in Relays, NEW n \in AttemptNumbers, NEW t \in Times,
           NEW ending \in TerminalStatus, NEW reason \in Reasons, NEW jitter \in Jitters,
           ResolveAccepted(row, r, n, ending, jitter, t)
    PROVE  /\ [row.target[r] EXCEPT
                 !.status = ResolvedTargetStatus(row, r, ending), !.active = 0,
                 !.next = IF SchedulesRetry(row, r, ending) THEN t + jitter ELSE 0,
                 !.updated = t] \in TargetRow
           /\ [row.attempt[r][n] EXCEPT !.status = ending, !.resolved = t, !.reason = reason]
                 \in AttemptRow
           /\ resolve_attempt_and_target(row, r, n, ending, reason, jitter, t) \in JobRow
<1> DEFINE next == IF SchedulesRetry(row, r, ending) THEN t + jitter ELSE 0
<1>1. t \in 0..MaxTime
  BY DeliveryAssumption DEF Times
<1>2. next \in 0..MaxTime
  BY <1>1, DeliveryAssumption DEF ResolveAccepted, Jitters
<1>3. ResolvedTargetStatus(row, r, ending) \in TargetStatus
  BY DEF ResolvedTargetStatus, TargetStatus, TerminalStatus
<1>4. ending \in AttemptStatus
  BY DEF AttemptStatus
<1>5. [row.attempt[r][n] EXCEPT !.status = ending, !.resolved = t, !.reason = reason]
        \in AttemptRow
  BY <1>1, <1>4, RowParts, AttemptUpdates
<1>6. [row.target[r] EXCEPT
         !.status = ResolvedTargetStatus(row, r, ending), !.active = 0, !.next = next,
         !.updated = t] \in TargetRow
  BY <1>1, <1>2, <1>3, RowParts, TargetUpdates
<1> QED
  BY <1>5, <1>6, RewriteFacts DEF resolve_attempt_and_target

LEMMA FinalizeType ==
    ASSUME NEW row \in JobRow, NEW t \in Times
    PROVE  finalize_job_if_terminal(row, t) \in JobRow
<1>1. t \in 0..MaxTime
  BY DeliveryAssumption DEF Times
<1>2. Verdict(row) \in JobStatus
  BY DEF Verdict, JobStatus, TerminalStatus
<1>3. [row EXCEPT !.status = Verdict(row), !.updated = t] \in JobRow
  BY <1>1, <1>2 DEF JobRow
<1> QED
  BY <1>3 DEF finalize_job_if_terminal

\* What the answers of the two resolving operations guarantee.
LEMMA RecordedFacts ==
    ASSUME NEW row \in JobRow, NEW r \in Relays, NEW n \in AttemptNumbers, NEW t \in Times,
           NEW o \in Outcomes, NEW jitter \in Jitters,
           OutcomeAnswer(row, r, n, o, jitter, t) = "Recorded"
    PROVE  /\ OutcomeStatus(o) \in TerminalStatus
           /\ OutcomeReason(o) \in Reasons
           /\ row.attempt[r][n].status \in RequiredPrior(o)
           /\ row.attempt[r][n].status \in ActiveAttemptStatus
           /\ row.target[r].active = n
           /\ row.attempt[r][n].leased <= t
           /\ row.attempt[r][n].submitted <= t
           /\ t <= row.attempt[r][n].expires
           /\ ResolveAccepted(row, r, n, OutcomeStatus(o), jitter, t)
<1>1. OutcomeStatus(o) \in TerminalStatus /\ OutcomeReason(o) \in Reasons
  BY DEF Outcomes, OutcomeStatus, OutcomeReason, TerminalStatus, Reasons
<1>2. /\ row.attempt[r][n].status \in RequiredPrior(o)
      /\ row.target[r].active = n
      /\ row.attempt[r][n].leased <= t
      /\ row.attempt[r][n].submitted <= t
      /\ t <= row.attempt[r][n].expires
      /\ ResolveAccepted(row, r, n, OutcomeStatus(o), jitter, t)
  BY DEF OutcomeAnswer
<1>3. row.attempt[r][n].status \in ActiveAttemptStatus
  BY <1>2 DEF RequiredPrior, ActiveAttemptStatus
<1> QED
  BY <1>1, <1>2, <1>3

LEMMA RecoveredFacts ==
    ASSUME NEW row \in JobRow, NEW r \in Relays, NEW n \in AttemptNumbers, NEW t \in Times,
           NEW jitter \in Jitters,
           RecoverAnswer(row, r, n, jitter, t) = "Recovered"
    PROVE  /\ ExpiredStatus(row.attempt[r][n]) \in TerminalStatus
           /\ ExpiredReason(row.attempt[r][n]) \in Reasons
           /\ row.attempt[r][n].status \in ActiveAttemptStatus
           /\ row.target[r].active = n
           /\ t > row.attempt[r][n].expires
           /\ ResolveAccepted(row, r, n, ExpiredStatus(row.attempt[r][n]), jitter, t)
BY DEF RecoverAnswer, ExpiredStatus, ExpiredReason, TerminalStatus, Reasons

(***************************************************************************)
(* The store's tables keep their types: every time stays representable and *)
(* every attempt number stays within the limit.                            *)
(***************************************************************************)
THEOREM TypeCorrect == Spec => []TypeOK
<1>1. Init => TypeOK
  <2>1. NoJob \in JobRow
    <3>1. 0 \in 0..MaxTime /\ 0 \in 0..AttemptMax
      BY DeliveryAssumption
    <3>2. (CHOOSE p \in Policies : TRUE) \in Policies
      BY DeliveryAssumption
    <3>3. NoAttempt \in AttemptRow
      BY <3>1 DEF NoAttempt, AttemptRow, AttemptStatus, Reasons
    <3>4. NoTarget \in TargetRow
      BY <3>1 DEF NoTarget, TargetRow, TargetStatus
    <3> QED
      BY <3>1, <3>2, <3>3, <3>4 DEF NoJob, NoAttempts, JobRow, JobStatus
  <2> QED
    BY <2>1 DEF Init, TypeOK
<1>2. TypeOK /\ [Next]_vars => TypeOK'
  <2> SUFFICES ASSUME TypeOK, Next PROVE TypeOK'
    BY DEF TypeOK, vars
  <2>1. ASSUME NEW j \in Jobs, NEW t \in Times, NEW p \in Policies, CreateJob(j, p, t)
        PROVE  TypeOK'
    BY <2>1, CreateType DEF CreateJob, TypeOK
  <2>2. ASSUME NEW j \in Jobs, NEW t \in Times, NEW r \in Relays, NEW nonce \in Nonces,
               ClaimTarget(j, r, nonce, t)
        PROVE  TypeOK'
    <3>1. claim_target(jobs[j], r, nonce, t) \in JobRow
      BY <2>2, ClaimType DEF ClaimTarget, TypeOK
    <3> QED
      BY <2>2, <3>1 DEF ClaimTarget, TypeOK
  <2>3. ASSUME NEW j \in Jobs, NEW t \in Times, NEW r \in Relays,
               NEW n \in AttemptNumbers, MarkSubmitted(j, r, n, t)
        PROVE  TypeOK'
    <3>1. mark_submitted(jobs[j], r, n, t) \in JobRow
      BY SubmitType DEF TypeOK
    <3> QED
      BY <2>3, <3>1 DEF MarkSubmitted, TypeOK
  <2>4. ASSUME NEW j \in Jobs, NEW t \in Times, NEW r \in Relays,
               NEW n \in AttemptNumbers, NEW o \in Outcomes, NEW jitter \in Jitters,
               RecordOutcome(j, r, n, o, jitter, t)
        PROVE  TypeOK'
    <3>1. recorded(jobs[j], r, n, o, jitter, t) \in JobRow
      BY <2>4, RecordedFacts, ResolveType DEF RecordOutcome, recorded, TypeOK
    <3>2. record_outcome(jobs[j], r, n, o, jitter, t) \in JobRow
      BY <3>1, FinalizeType DEF record_outcome
    <3> QED
      BY <2>4, <3>2 DEF RecordOutcome, TypeOK
  <2>5. ASSUME NEW j \in Jobs, NEW t \in Times, NEW r \in Relays,
               NEW n \in AttemptNumbers, NEW jitter \in Jitters,
               RecoverExpired(j, r, n, jitter, t)
        PROVE  TypeOK'
    <3>1. expired(jobs[j], r, n, jitter, t) \in JobRow
      BY <2>5, RecoveredFacts, ResolveType DEF RecoverExpired, expired, TypeOK
    <3>2. recover_expired(jobs[j], r, n, jitter, t) \in JobRow
      BY <3>1, FinalizeType DEF recover_expired
    <3> QED
      BY <2>5, <3>2 DEF RecoverExpired, TypeOK
  <2> QED
    BY <2>1, <2>2, <2>3, <2>4, <2>5 DEF Next
<1> QED
  BY <1>1, <1>2, PTL DEF Spec

-----------------------------------------------------------------------------
(* The verdict.  Resolving an attempt can only add to the required relays  *)
(* that have delivered and take away from those that still can; everything *)
(* else leaves both sets alone.  Cardinalities follow, and with them the   *)
(* policy's verdict, which finalize_job_if_terminal has put into the       *)
(* status.                                                                 *)

RowVerdict(row) ==
    /\ Open(row) => ~Satisfied(row) /\ Possible(row)
    /\ row.status = "delivered" => Satisfied(row)
    /\ row.status \in {"failed", "unknown"} => ~Possible(row)

\* A policy's relays are finitely many, so its two counts are numbers.
LEMMA CountsAreNumbers ==
    ASSUME NEW row \in JobRow
    PROVE  /\ IsFiniteSet(row.policy.required)
           /\ IsFiniteSet(DeliveredRequired(row))
           /\ IsFiniteSet(PossibleRequired(row))
           /\ Cardinality(DeliveredRequired(row)) \in Nat
           /\ Cardinality(PossibleRequired(row)) \in Nat
           /\ row.policy.acks \in Nat \ {0}
           /\ row.policy.required \subseteq row.policy.targets
           /\ row.policy.acks <= Cardinality(row.policy.required)
<1>1. row.policy \in Policies /\ row.policy \in Policy /\ ValidPolicy(row.policy)
  BY DeliveryAssumption DEF JobRow
<1>2. IsFiniteSet(row.policy.required)
  <2>1. row.policy.required \subseteq Relays
    BY <1>1 DEF Policy
  <2> QED
    BY <2>1, DeliveryAssumption, FS_Subset
<1>3. DeliveredRequired(row) \subseteq row.policy.required
      /\ PossibleRequired(row) \subseteq row.policy.required
  BY DEF DeliveredRequired, PossibleRequired
<1>4. IsFiniteSet(DeliveredRequired(row)) /\ IsFiniteSet(PossibleRequired(row))
  BY <1>2, <1>3, FS_Subset
<1>5. Cardinality(row.policy.required) \in Nat
  BY <1>2, FS_CardinalityType
<1>6. row.policy.acks \in Nat \ {0} /\ row.policy.acks <= Cardinality(row.policy.required)
  BY <1>1, <1>5 DEF ValidPolicy, Policy
<1> QED
  BY <1>1, <1>2, <1>4, <1>6, FS_CardinalityType DEF ValidPolicy

\* A change that moves the two sets the right way keeps every verdict.
LEMMA VerdictMonotone ==
    ASSUME NEW row \in JobRow, NEW new \in JobRow,
           new.policy = row.policy,
           DeliveredRequired(row) \subseteq DeliveredRequired(new),
           PossibleRequired(new) \subseteq PossibleRequired(row)
    PROVE  /\ Satisfied(row) => Satisfied(new)
           /\ ~Possible(row) => ~Possible(new)
<1>1. Cardinality(DeliveredRequired(row)) <= Cardinality(DeliveredRequired(new))
  BY CountsAreNumbers, FS_Subset
<1>2. Cardinality(PossibleRequired(new)) <= Cardinality(PossibleRequired(row))
  BY CountsAreNumbers, FS_Subset
<1> QED
  BY <1>1, <1>2, CountsAreNumbers DEF Satisfied, Possible

LEMMA CreateVerdict ==
    ASSUME NEW p \in Policies, NEW t \in Times
    PROVE  RowVerdict(create_job(p, t))
<1> DEFINE new == create_job(p, t)
<1>1. new \in JobRow /\ new.policy = p /\ new.status = "pending"
  BY CreateType DEF create_job
<1>2. \A r \in p.required : new.target[r].status = "pending"
  <2>1. p.required \subseteq p.targets /\ p.targets \subseteq Relays
    BY DeliveryAssumption DEF ValidPolicy, Policy
  <2> QED
    BY <2>1 DEF create_job, NoTarget
<1>3. DeliveredRequired(new) = {} /\ PossibleRequired(new) = p.required
  BY <1>1, <1>2 DEF DeliveredRequired, PossibleRequired, LostForGood
<1>4. Cardinality(DeliveredRequired(new)) = 0
  BY <1>3, FS_EmptySet
<1> HIDE DEF new
<1>5. ~Satisfied(new) /\ Possible(new)
  BY <1>1, <1>3, <1>4, CountsAreNumbers DEF Satisfied, Possible
<1> QED
  BY <1>1, <1>5 DEF RowVerdict, new

\* The two sets tell everything about the verdict: a change of neither, nor of
\* whether the job is open or how it ended, keeps it.
LEMMA VerdictUntouched ==
    ASSUME NEW row \in JobRow, NEW new \in JobRow,
           RowVerdict(row),
           new.policy = row.policy,
           DeliveredRequired(new) = DeliveredRequired(row),
           PossibleRequired(new) = PossibleRequired(row),
           Open(new) <=> Open(row),
           new.status = row.status \/ Open(new)
    PROVE  RowVerdict(new)
<1>1. (Satisfied(new) <=> Satisfied(row)) /\ (Possible(new) <=> Possible(row))
  BY DEF Satisfied, Possible
<1> QED
  BY <1>1 DEF RowVerdict, Open, OpenStatus

\* A target that changes neither to nor from a delivered, exhausted or lost one
\* leaves both sets alone.
LEMMA SetsUntouched ==
    ASSUME NEW row \in JobRow, NEW new \in JobRow, NEW r \in Relays,
           new.policy = row.policy,
           \A s \in Relays : s # r => new.target[s] = row.target[s],
           new.target[r].status \notin {"delivered", "exhausted", "unknown"},
           row.target[r].status \notin {"delivered", "exhausted"},
           ~LostForGood(row, r)
    PROVE  /\ DeliveredRequired(new) = DeliveredRequired(row)
           /\ PossibleRequired(new) = PossibleRequired(row)
<1>1. row.policy.required \subseteq Relays
  <2>1. row.policy \in Policy
    BY DeliveryAssumption DEF JobRow
  <2> QED
    BY <2>1 DEF Policy
<1>2. \A s \in row.policy.required :
         /\ new.target[s].status = "delivered" <=> row.target[s].status = "delivered"
         /\ new.target[s].status = "exhausted" <=> row.target[s].status = "exhausted"
         /\ LostForGood(new, s) <=> LostForGood(row, s)
  BY <1>1 DEF LostForGood
<1> QED
  BY <1>2 DEF DeliveredRequired, PossibleRequired

LEMMA ClaimVerdict ==
    ASSUME NEW row \in JobRow, NEW r \in Relays, NEW nonce \in Nonces, NEW t \in Times,
           ClaimAnswer(row, r, nonce, t) = "Claimed", RowVerdict(row)
    PROVE  RowVerdict(claim_target(row, r, nonce, t))
<1> DEFINE number == row.target[r].count + 1
           target == [status |-> "leased", count |-> number, active |-> number,
                      next |-> 0, updated |-> t]
           attempt == [nonce |-> nonce, status |-> "leased", leased |-> t,
                       expires |-> t + row.policy.deadline, submitted |-> 0,
                       resolved |-> 0, reason |-> "none"]
           mid == Rewrite(row, r, number, target, attempt)
           new == claim_target(row, r, nonce, t)
<1>1. /\ number \in AttemptNumbers /\ target \in TargetRow /\ attempt \in AttemptRow
      /\ new \in JobRow
  BY ClaimType
<1>2. target.status = "leased"
  OBVIOUS
<1>3. new.status = "active" /\ new.policy = mid.policy /\ new.target = mid.target
  <2>1. mid \in JobRow
    BY <1>1, RewriteFacts
  <2> HIDE DEF mid
  <2>2. new = [mid EXCEPT !.status = "active",
                          !.updated = IF row.status = "pending" THEN t ELSE @]
    BY DEF claim_target, mid
  <2> QED
    BY <2>1, <2>2 DEF JobRow
<1> HIDE DEF target, attempt, number
<1>4. /\ mid.policy = row.policy
      /\ mid.target[r] = target
      /\ \A s \in Relays : s # r => mid.target[s] = row.target[s]
  BY <1>1, RewriteFacts
<1> HIDE DEF mid, new
<1>5. row.status \in OpenStatus
  <2>1. row.status \in JobStatus
    BY DEF JobRow
  <2> QED
    BY <2>1, ClaimedFacts DEF Terminal, JobStatus
<1>6. row.target[r].status \notin {"delivered", "exhausted"} /\ ~LostForGood(row, r)
  BY ClaimedFacts DEF LostForGood
<1>7. DeliveredRequired(new) = DeliveredRequired(row)
      /\ PossibleRequired(new) = PossibleRequired(row)
  BY <1>1, <1>2, <1>3, <1>4, <1>6, SetsUntouched
<1> QED
  BY <1>1, <1>3, <1>4, <1>5, <1>7, VerdictUntouched DEF Open, OpenStatus, new

LEMMA SubmitVerdict ==
    ASSUME NEW row \in JobRow, NEW r \in Relays, NEW n \in AttemptNumbers, NEW t \in Times,
           SubmitAnswer(row, r, n, t) = "Submitted", RowVerdict(row)
    PROVE  RowVerdict(mark_submitted(row, r, n, t))
<1> DEFINE target == [row.target[r] EXCEPT !.status = "submitted", !.updated = t]
           attempt == [row.attempt[r][n] EXCEPT !.status = "submitted", !.submitted = t]
           new == mark_submitted(row, r, n, t)
<1>1. target \in TargetRow /\ attempt \in AttemptRow /\ new \in JobRow
  BY SubmitType
<1>2. target.status = "submitted"
  BY RowParts DEF TargetRow
<1> HIDE DEF target, attempt
<1>3. /\ new.status = row.status
      /\ new.policy = row.policy
      /\ new.target[r] = target
      /\ \A s \in Relays : s # r => new.target[s] = row.target[s]
  BY <1>1, RewriteFacts DEF mark_submitted, target, attempt
<1> HIDE DEF new
<1>4. row.target[r].status = "leased"
  BY DEF SubmitAnswer
<1>5. DeliveredRequired(new) = DeliveredRequired(row)
      /\ PossibleRequired(new) = PossibleRequired(row)
  BY <1>1, <1>2, <1>3, <1>4, SetsUntouched DEF LostForGood
<1> QED
  BY <1>1, <1>3, <1>5, VerdictUntouched DEF Open, new

\* Ending a running attempt moves the two sets the right way.
LEMMA ResolveMonotone ==
    ASSUME NEW row \in JobRow, NEW r \in Relays, NEW n \in AttemptNumbers, NEW t \in Times,
           NEW ending \in TerminalStatus, NEW reason \in Reasons, NEW jitter \in Jitters,
           ResolveAccepted(row, r, n, ending, jitter, t),
           row.attempt[r][n].status \in ActiveAttemptStatus
    PROVE  LET new == resolve_attempt_and_target(row, r, n, ending, reason, jitter, t) IN
           /\ new \in JobRow
           /\ new.policy = row.policy
           /\ new.status = row.status
           /\ DeliveredRequired(row) \subseteq DeliveredRequired(new)
           /\ PossibleRequired(new) \subseteq PossibleRequired(row)
<1> DEFINE target == [row.target[r] EXCEPT
                         !.status = ResolvedTargetStatus(row, r, ending), !.active = 0,
                         !.next = IF SchedulesRetry(row, r, ending) THEN t + jitter ELSE 0,
                         !.updated = t]
           attempt == [row.attempt[r][n] EXCEPT
                         !.status = ending, !.resolved = t, !.reason = reason]
           new == resolve_attempt_and_target(row, r, n, ending, reason, jitter, t)
<1>1. target \in TargetRow /\ attempt \in AttemptRow /\ new \in JobRow
  BY ResolveType
<1> HIDE DEF target, attempt
<1>2. /\ new.status = row.status
      /\ new.policy = row.policy
      /\ \A s \in Relays : s # r => new.target[s] = row.target[s]
  BY <1>1, RewriteFacts DEF resolve_attempt_and_target, target, attempt
<1> HIDE DEF new
<1>3. row.target[r].status \in {"leased", "submitted"}
  BY DEF ResolveAccepted, ActiveAttemptStatus
<1>4. row.policy.required \subseteq Relays
  <2>1. row.policy \in Policy
    BY DeliveryAssumption DEF JobRow
  <2> QED
    BY <2>1 DEF Policy
<1>5. DeliveredRequired(row) \subseteq DeliveredRequired(new)
  BY <1>2, <1>3, <1>4 DEF DeliveredRequired
<1>6. PossibleRequired(new) \subseteq PossibleRequired(row)
  BY <1>2, <1>3, <1>4 DEF PossibleRequired, LostForGood
<1> QED
  BY <1>1, <1>2, <1>5, <1>6 DEF new

\* Finalizing after a change that moved the sets the right way restores the
\* verdict, whether the job was open or had already ended.
LEMMA FinalizeVerdict ==
    ASSUME NEW row \in JobRow, NEW mid \in JobRow, NEW t \in Times,
           RowVerdict(row),
           mid.policy = row.policy, mid.status = row.status,
           DeliveredRequired(row) \subseteq DeliveredRequired(mid),
           PossibleRequired(mid) \subseteq PossibleRequired(row)
    PROVE  RowVerdict(finalize_job_if_terminal(mid, t))
<1>1. (Satisfied(row) => Satisfied(mid)) /\ (~Possible(row) => ~Possible(mid))
  BY VerdictMonotone
<1>2. CASE Open(mid) /\ Decided(mid)
  <2> DEFINE new == [mid EXCEPT !.status = Verdict(mid), !.updated = t]
  <2>1. /\ new.policy = mid.policy /\ new.target = mid.target
        /\ new.status = Verdict(mid)
    BY DEF JobRow
  <2> HIDE DEF new
  <2>2. (Satisfied(new) <=> Satisfied(mid)) /\ (Possible(new) <=> Possible(mid))
    <3>1. DeliveredRequired(new) = DeliveredRequired(mid)
          /\ PossibleRequired(new) = PossibleRequired(mid)
      BY <2>1 DEF DeliveredRequired, PossibleRequired, LostForGood
    <3> QED
      BY <2>1, <3>1 DEF Satisfied, Possible
  <2>3. finalize_job_if_terminal(mid, t) = new
    BY <1>2 DEF finalize_job_if_terminal, new
  <2>4. Satisfied(mid) => Verdict(mid) = "delivered"
    BY DEF Verdict
  <2>5. ~Satisfied(mid) => Verdict(mid) \in {"failed", "unknown"} /\ ~Possible(mid)
    BY <1>2 DEF Verdict, Decided
  <2>6. RowVerdict(new)
    BY <2>1, <2>2, <2>4, <2>5 DEF RowVerdict, Open, OpenStatus
  <2> QED
    BY <2>3, <2>6
<1>3. CASE ~(Open(mid) /\ Decided(mid))
  <2>1. finalize_job_if_terminal(mid, t) = mid
    BY <1>3 DEF finalize_job_if_terminal
  <2>2. RowVerdict(mid)
    BY <1>1, <1>3 DEF RowVerdict, Open, Decided
  <2> QED
    BY <2>1, <2>2
<1> QED
  BY <1>2, <1>3

LEMMA RecordVerdict ==
    ASSUME NEW row \in JobRow, NEW r \in Relays, NEW n \in AttemptNumbers, NEW t \in Times,
           NEW o \in Outcomes, NEW jitter \in Jitters,
           OutcomeAnswer(row, r, n, o, jitter, t) = "Recorded", RowVerdict(row)
    PROVE  RowVerdict(record_outcome(row, r, n, o, jitter, t))
<1> DEFINE mid == recorded(row, r, n, o, jitter, t)
<1>1. /\ OutcomeStatus(o) \in TerminalStatus
      /\ OutcomeReason(o) \in Reasons
      /\ row.attempt[r][n].status \in ActiveAttemptStatus
      /\ ResolveAccepted(row, r, n, OutcomeStatus(o), jitter, t)
  BY RecordedFacts
<1>2. /\ mid \in JobRow /\ mid.policy = row.policy /\ mid.status = row.status
      /\ DeliveredRequired(row) \subseteq DeliveredRequired(mid)
      /\ PossibleRequired(mid) \subseteq PossibleRequired(row)
  BY <1>1, ResolveMonotone DEF recorded
<1> QED
  BY <1>2, FinalizeVerdict DEF record_outcome

LEMMA RecoverVerdict ==
    ASSUME NEW row \in JobRow, NEW r \in Relays, NEW n \in AttemptNumbers, NEW t \in Times,
           NEW jitter \in Jitters,
           RecoverAnswer(row, r, n, jitter, t) = "Recovered", RowVerdict(row)
    PROVE  RowVerdict(recover_expired(row, r, n, jitter, t))
<1> DEFINE mid == expired(row, r, n, jitter, t)
<1>1. /\ ExpiredStatus(row.attempt[r][n]) \in TerminalStatus
      /\ ExpiredReason(row.attempt[r][n]) \in Reasons
      /\ row.attempt[r][n].status \in ActiveAttemptStatus
      /\ ResolveAccepted(row, r, n, ExpiredStatus(row.attempt[r][n]), jitter, t)
  BY RecoveredFacts
<1>2. /\ mid \in JobRow /\ mid.policy = row.policy /\ mid.status = row.status
      /\ DeliveredRequired(row) \subseteq DeliveredRequired(mid)
      /\ PossibleRequired(mid) \subseteq PossibleRequired(row)
  BY <1>1, ResolveMonotone DEF expired
<1> QED
  BY <1>2, FinalizeVerdict DEF recover_expired

(***************************************************************************)
(* A job's status is its policy's verdict: it is open exactly while the    *)
(* policy is neither met nor out of reach, whatever order the outcomes of  *)
(* its leases come in, before and after the job has ended.                 *)
(***************************************************************************)
THEOREM VerdictCorrect == Spec => []StatusIsVerdict
<1>1. Init => StatusIsVerdict
  BY DEF Init, NoJob, StatusIsVerdict, Open, OpenStatus
<1>2. TypeOK /\ StatusIsVerdict /\ [Next]_vars => StatusIsVerdict'
  <2> SUFFICES ASSUME TypeOK, StatusIsVerdict, Next PROVE StatusIsVerdict'
    BY DEF StatusIsVerdict, vars, Open, Satisfied, Possible, DeliveredRequired,
           PossibleRequired, LostForGood
  <2>0. \A j \in Jobs : jobs[j] \in JobRow /\ RowVerdict(jobs[j])
    BY DEF TypeOK, StatusIsVerdict, RowVerdict
  <2>a. ASSUME NEW j \in Jobs, NEW row, RowVerdict(row), jobs' = [jobs EXCEPT ![j] = row]
        PROVE  StatusIsVerdict'
    <3>1. \A k \in Jobs : RowVerdict(jobs'[k])
      BY <2>0, <2>a DEF TypeOK
    <3> QED
      BY <3>1 DEF StatusIsVerdict, RowVerdict
  <2>1. ASSUME NEW j \in Jobs, NEW t \in Times, NEW p \in Policies, CreateJob(j, p, t)
        PROVE  StatusIsVerdict'
    BY <2>1, <2>a, CreateVerdict DEF CreateJob
  <2>2. ASSUME NEW j \in Jobs, NEW t \in Times, NEW r \in Relays, NEW nonce \in Nonces,
               ClaimTarget(j, r, nonce, t)
        PROVE  StatusIsVerdict'
    BY <2>2, <2>0, <2>a, ClaimVerdict DEF ClaimTarget
  <2>3. ASSUME NEW j \in Jobs, NEW t \in Times, NEW r \in Relays,
               NEW n \in AttemptNumbers, MarkSubmitted(j, r, n, t)
        PROVE  StatusIsVerdict'
    BY <2>3, <2>0, <2>a, SubmitVerdict DEF MarkSubmitted
  <2>4. ASSUME NEW j \in Jobs, NEW t \in Times, NEW r \in Relays,
               NEW n \in AttemptNumbers, NEW o \in Outcomes, NEW jitter \in Jitters,
               RecordOutcome(j, r, n, o, jitter, t)
        PROVE  StatusIsVerdict'
    BY <2>4, <2>0, <2>a, RecordVerdict DEF RecordOutcome
  <2>5. ASSUME NEW j \in Jobs, NEW t \in Times, NEW r \in Relays,
               NEW n \in AttemptNumbers, NEW jitter \in Jitters,
               RecoverExpired(j, r, n, jitter, t)
        PROVE  StatusIsVerdict'
    BY <2>5, <2>0, <2>a, RecoverVerdict DEF RecoverExpired
  <2> QED
    BY <2>1, <2>2, <2>3, <2>4, <2>5 DEF Next
<1> QED
  BY <1>1, <1>2, TypeCorrect, PTL DEF Spec

-----------------------------------------------------------------------------
(* Evidence is kept.  The one fact that is needed beyond the types is that *)
(* a number past the target's count has no attempt yet: the claim that     *)
(* takes it writes over nothing.                                           *)

Unused(row) ==
    \A r \in Relays, n \in AttemptNumbers :
        n > row.target[r].count => row.attempt[r][n].status = "none"

Settled(row, r) ==
    \/ row.target[r].status \in {"delivered", "exhausted"}
    \/ LostForGood(row, r)

\* What every operation on an existing row keeps.
Keeps(row, new) ==
    /\ new.policy = row.policy
    /\ new.created = row.created
    /\ Open(new) => Open(row)
    /\ Terminal(row) => new.status = row.status
    /\ \A r \in Relays : Terminal(row) => new.target[r].count = row.target[r].count
    /\ \A r \in Relays : Settled(row, r) => new.target[r] = row.target[r]
    /\ \A r \in Relays, n \in AttemptNumbers :
          row.attempt[r][n].status \in TerminalStatus =>
              new.attempt[r][n] = row.attempt[r][n]
    /\ Unused(new)

\* Rewriting a running attempt and its target, with the target's count as it is.
LEMMA RewriteKeeps ==
    ASSUME NEW row \in JobRow, NEW r \in Relays, NEW n \in AttemptNumbers,
           NEW target \in TargetRow, NEW attempt \in AttemptRow,
           Unused(row),
           row.attempt[r][n].status \in ActiveAttemptStatus,
           row.target[r].status \in ActiveTargetStatus,
           target.count = row.target[r].count
    PROVE  Keeps(row, Rewrite(row, r, n, target, attempt))
<1> DEFINE new == Rewrite(row, r, n, target, attempt)
<1>1. /\ new.status = row.status
      /\ new.policy = row.policy
      /\ new.created = row.created
      /\ new.target[r] = target
      /\ \A s \in Relays : s # r => /\ new.target[s] = row.target[s]
                                    /\ new.attempt[s] = row.attempt[s]
      /\ \A m \in AttemptNumbers : m # n => new.attempt[r][m] = row.attempt[r][m]
  BY RewriteFacts
<1> HIDE DEF new
<1>2. \A s \in Relays : new.target[s].count = row.target[s].count
  BY <1>1
<1>3. \A s \in Relays : Settled(row, s) => new.target[s] = row.target[s]
  BY <1>1 DEF Settled, LostForGood, ActiveTargetStatus
<1>4. \A s \in Relays, m \in AttemptNumbers :
         row.attempt[s][m].status \in TerminalStatus =>
             new.attempt[s][m] = row.attempt[s][m]
  BY <1>1 DEF TerminalStatus, ActiveAttemptStatus
<1>5. Unused(new)
  BY <1>1, <1>2 DEF Unused, ActiveAttemptStatus
<1> QED
  BY <1>1, <1>2, <1>3, <1>4, <1>5 DEF Keeps, Open, Terminal, new

LEMMA ClaimKeeps ==
    ASSUME NEW row \in JobRow, NEW r \in Relays, NEW nonce \in Nonces, NEW t \in Times,
           ClaimAnswer(row, r, nonce, t) = "Claimed", Unused(row)
    PROVE  Keeps(row, claim_target(row, r, nonce, t))
<1> DEFINE number == row.target[r].count + 1
           target == [status |-> "leased", count |-> number, active |-> number,
                      next |-> 0, updated |-> t]
           attempt == [nonce |-> nonce, status |-> "leased", leased |-> t,
                       expires |-> t + row.policy.deadline, submitted |-> 0,
                       resolved |-> 0, reason |-> "none"]
           mid == Rewrite(row, r, number, target, attempt)
           new == claim_target(row, r, nonce, t)
<1>1. number \in AttemptNumbers /\ target \in TargetRow /\ attempt \in AttemptRow
  BY ClaimType
<1>2. target.count = number
  OBVIOUS
<1>3. /\ new.status = "active" /\ new.policy = mid.policy /\ new.created = mid.created
      /\ new.target = mid.target /\ new.attempt = mid.attempt
  <2>1. mid \in JobRow
    BY <1>1, RewriteFacts
  <2> HIDE DEF mid
  <2>2. new = [mid EXCEPT !.status = "active",
                          !.updated = IF row.status = "pending" THEN t ELSE @]
    BY DEF claim_target, mid
  <2> QED
    BY <2>1, <2>2 DEF JobRow
<1>a. row.target[r].count \in Nat
  <2>1. 1 \in AttemptNumbers
    BY DeliveryAssumption DEF AttemptNumbers
  <2>2. row.target[r] \in TargetRow
    BY <2>1, RowParts
  <2> QED
    BY <2>2, DeliveryAssumption DEF TargetRow
<1>b. number > row.target[r].count /\ \A m \in Nat : m > number => m > row.target[r].count
  BY <1>a
<1> HIDE DEF target, attempt, number
<1>4. /\ mid.policy = row.policy
      /\ mid.created = row.created
      /\ mid.target[r] = target
      /\ \A s \in Relays : s # r => /\ mid.target[s] = row.target[s]
                                    /\ mid.attempt[s] = row.attempt[s]
      /\ \A m \in AttemptNumbers : m # number => mid.attempt[r][m] = row.attempt[r][m]
  BY <1>1, RewriteFacts
<1> HIDE DEF mid, new
<1>5. Open(row) /\ ~Terminal(row)
  <2>1. row.status \in JobStatus
    BY DEF JobRow
  <2> QED
    BY <2>1, ClaimedFacts DEF Open, Terminal, JobStatus
<1>6. ~Settled(row, r)
  BY ClaimedFacts DEF Settled, LostForGood
<1>7. \A s \in Relays : Settled(row, s) => new.target[s] = row.target[s]
  BY <1>3, <1>4, <1>6
<1>8. row.attempt[r][number].status = "none"
  BY <1>1, <1>b DEF Unused
<1>9. \A s \in Relays, m \in AttemptNumbers :
         row.attempt[s][m].status \in TerminalStatus =>
             new.attempt[s][m] = row.attempt[s][m]
  BY <1>3, <1>4, <1>8 DEF TerminalStatus
<1>10. Unused(new)
  <2> SUFFICES ASSUME NEW s \in Relays, NEW m \in AttemptNumbers, m > new.target[s].count
               PROVE  new.attempt[s][m].status = "none"
    BY DEF Unused
  <2>1. CASE s # r
    BY <2>1, <1>3, <1>4 DEF Unused
  <2>2. CASE s = r
    <3>1. m > number /\ m \in Nat /\ number \in Nat
      BY <2>2, <1>1, <1>2, <1>3, <1>4 DEF AttemptNumbers
    <3> QED
      BY <2>2, <3>1, <1>b, <1>3, <1>4 DEF Unused
  <2> QED
    BY <2>1, <2>2
<1> QED
  BY <1>3, <1>4, <1>5, <1>7, <1>9, <1>10 DEF Keeps, new

LEMMA SubmitKeeps ==
    ASSUME NEW row \in JobRow, NEW r \in Relays, NEW n \in AttemptNumbers, NEW t \in Times,
           SubmitAnswer(row, r, n, t) = "Submitted", Unused(row)
    PROVE  Keeps(row, mark_submitted(row, r, n, t))
<1> DEFINE target == [row.target[r] EXCEPT !.status = "submitted", !.updated = t]
           attempt == [row.attempt[r][n] EXCEPT !.status = "submitted", !.submitted = t]
<1>1. target \in TargetRow /\ attempt \in AttemptRow
  BY SubmitType
<1>2. target.count = row.target[r].count
  BY RowParts DEF TargetRow
<1>3. row.attempt[r][n].status = "leased" /\ row.target[r].status = "leased"
  BY DEF SubmitAnswer
<1> QED
  BY <1>1, <1>2, <1>3, RewriteKeeps
     DEF mark_submitted, ActiveAttemptStatus, ActiveTargetStatus

LEMMA ResolveKeeps ==
    ASSUME NEW row \in JobRow, NEW r \in Relays, NEW n \in AttemptNumbers, NEW t \in Times,
           NEW ending \in TerminalStatus, NEW reason \in Reasons, NEW jitter \in Jitters,
           ResolveAccepted(row, r, n, ending, jitter, t),
           row.attempt[r][n].status \in ActiveAttemptStatus,
           Unused(row)
    PROVE  Keeps(row, resolve_attempt_and_target(row, r, n, ending, reason, jitter, t))
<1> DEFINE next == IF SchedulesRetry(row, r, ending) THEN t + jitter ELSE 0
           target == [row.target[r] EXCEPT
                         !.status = ResolvedTargetStatus(row, r, ending), !.active = 0,
                         !.next = next, !.updated = t]
           attempt == [row.attempt[r][n] EXCEPT
                         !.status = ending, !.resolved = t, !.reason = reason]
<1>1. target \in TargetRow /\ attempt \in AttemptRow
  BY ResolveType
<1>2. target.count = row.target[r].count
  BY RowParts DEF TargetRow
<1>3. row.target[r].status \in ActiveTargetStatus
  BY DEF ResolveAccepted, ActiveAttemptStatus, ActiveTargetStatus
<1>4. resolve_attempt_and_target(row, r, n, ending, reason, jitter, t)
        = Rewrite(row, r, n, target, attempt)
  BY DEF resolve_attempt_and_target
<1> HIDE DEF target, attempt
<1> QED
  BY <1>1, <1>2, <1>3, <1>4, RewriteKeeps

\* Finalizing adds the verdict of an open job and nothing else.
LEMMA FinalizeKeeps ==
    ASSUME NEW row \in JobRow, NEW mid \in JobRow, NEW t \in Times, Keeps(row, mid)
    PROVE  Keeps(row, finalize_job_if_terminal(mid, t))
<1> DEFINE new == finalize_job_if_terminal(mid, t)
<1>1. /\ new.policy = mid.policy /\ new.created = mid.created
      /\ new.target = mid.target /\ new.attempt = mid.attempt
      /\ (new.status = mid.status \/ (Open(mid) /\ new.status = Verdict(mid)))
  BY DEF finalize_job_if_terminal, JobRow
<1>2. Verdict(mid) \in TerminalStatus
  BY DEF Verdict, TerminalStatus
<1> HIDE DEF new
<1>3. (Open(new) => Open(row)) /\ (Terminal(row) => new.status = row.status)
  BY <1>1, <1>2 DEF Keeps, Open, Terminal, OpenStatus, TerminalStatus
<1>4. Unused(new)
  BY <1>1 DEF Keeps, Unused
<1> QED
  BY <1>1, <1>3, <1>4 DEF Keeps, new

LEMMA RecordKeeps ==
    ASSUME NEW row \in JobRow, NEW r \in Relays, NEW n \in AttemptNumbers, NEW t \in Times,
           NEW o \in Outcomes, NEW jitter \in Jitters,
           OutcomeAnswer(row, r, n, o, jitter, t) = "Recorded", Unused(row)
    PROVE  Keeps(row, record_outcome(row, r, n, o, jitter, t))
<1> DEFINE mid == recorded(row, r, n, o, jitter, t)
<1>1. /\ OutcomeStatus(o) \in TerminalStatus
      /\ OutcomeReason(o) \in Reasons
      /\ row.attempt[r][n].status \in ActiveAttemptStatus
      /\ ResolveAccepted(row, r, n, OutcomeStatus(o), jitter, t)
  BY RecordedFacts
<1>2. mid \in JobRow /\ Keeps(row, mid)
  BY <1>1, ResolveType, ResolveKeeps DEF recorded
<1> QED
  BY <1>2, FinalizeKeeps DEF record_outcome

LEMMA RecoverKeeps ==
    ASSUME NEW row \in JobRow, NEW r \in Relays, NEW n \in AttemptNumbers, NEW t \in Times,
           NEW jitter \in Jitters,
           RecoverAnswer(row, r, n, jitter, t) = "Recovered", Unused(row)
    PROVE  Keeps(row, recover_expired(row, r, n, jitter, t))
<1> DEFINE mid == expired(row, r, n, jitter, t)
<1>1. /\ ExpiredStatus(row.attempt[r][n]) \in TerminalStatus
      /\ ExpiredReason(row.attempt[r][n]) \in Reasons
      /\ row.attempt[r][n].status \in ActiveAttemptStatus
      /\ ResolveAccepted(row, r, n, ExpiredStatus(row.attempt[r][n]), jitter, t)
  BY RecoveredFacts
<1>2. mid \in JobRow /\ Keeps(row, mid)
  BY <1>1, ResolveType, ResolveKeeps DEF expired
<1> QED
  BY <1>2, FinalizeKeeps DEF recover_expired

\* Every step admits a new job or keeps the evidence of the row it changes.
StepShape ==
    \E j \in Jobs :
        \/ \E p \in Policies, t \in Times : CreateJob(j, p, t)
        \/ \E new \in JobRow :
              Keeps(jobs[j], new) /\ jobs' = [jobs EXCEPT ![j] = new]

NothingBeyondCount == \A j \in Jobs : Unused(jobs[j])

LEMMA NextShape ==
    ASSUME TypeOK, TypeOK', NothingBeyondCount, Next
    PROVE  StepShape
<1>0. \A j \in Jobs : jobs[j] \in JobRow /\ Unused(jobs[j])
  BY DEF TypeOK, NothingBeyondCount
<1>a. ASSUME NEW j \in Jobs, NEW new, Keeps(jobs[j], new), jobs' = [jobs EXCEPT ![j] = new]
      PROVE  StepShape
  <2>1. new \in JobRow
    <3>1. jobs'[j] = new
      BY <1>a DEF TypeOK
    <3> QED
      BY <3>1 DEF TypeOK
  <2> QED
    BY <2>1, <1>a DEF StepShape
<1>1. ASSUME NEW j \in Jobs, NEW t \in Times, NEW p \in Policies, CreateJob(j, p, t)
      PROVE  StepShape
  BY <1>1 DEF StepShape
<1>2. ASSUME NEW j \in Jobs, NEW t \in Times, NEW r \in Relays, NEW nonce \in Nonces,
             ClaimTarget(j, r, nonce, t)
      PROVE  StepShape
  BY <1>2, <1>0, <1>a, ClaimKeeps DEF ClaimTarget
<1>3. ASSUME NEW j \in Jobs, NEW t \in Times, NEW r \in Relays,
             NEW n \in AttemptNumbers, MarkSubmitted(j, r, n, t)
      PROVE  StepShape
  BY <1>3, <1>0, <1>a, SubmitKeeps DEF MarkSubmitted
<1>4. ASSUME NEW j \in Jobs, NEW t \in Times, NEW r \in Relays,
             NEW n \in AttemptNumbers, NEW o \in Outcomes, NEW jitter \in Jitters,
             RecordOutcome(j, r, n, o, jitter, t)
      PROVE  StepShape
  BY <1>4, <1>0, <1>a, RecordKeeps DEF RecordOutcome
<1>5. ASSUME NEW j \in Jobs, NEW t \in Times, NEW r \in Relays,
             NEW n \in AttemptNumbers, NEW jitter \in Jitters,
             RecoverExpired(j, r, n, jitter, t)
      PROVE  StepShape
  BY <1>5, <1>0, <1>a, RecoverKeeps DEF RecoverExpired
<1> QED
  BY <1>1, <1>2, <1>3, <1>4, <1>5 DEF Next

LEMMA CreateUnused ==
    ASSUME NEW p \in Policies, NEW t \in Times
    PROVE  Unused(create_job(p, t))
BY DEF Unused, create_job, NoAttempts, NoAttempt

LEMMA NothingBeyondCountCorrect == Spec => []NothingBeyondCount
<1>1. Init => NothingBeyondCount
  BY DEF Init, NoJob, NoAttempts, NoAttempt, NothingBeyondCount, Unused
<1>2. TypeOK /\ TypeOK' /\ NothingBeyondCount /\ [Next]_vars => NothingBeyondCount'
  <2> SUFFICES ASSUME TypeOK, TypeOK', NothingBeyondCount, Next
               PROVE  NothingBeyondCount'
    BY DEF NothingBeyondCount, Unused, vars
  <2>1. StepShape
    BY NextShape
  <2>2. ASSUME NEW j \in Jobs, NEW p \in Policies, NEW t \in Times, CreateJob(j, p, t)
        PROVE  NothingBeyondCount'
    BY <2>2, CreateUnused DEF CreateJob, NothingBeyondCount, TypeOK
  <2>3. ASSUME NEW j \in Jobs, NEW new \in JobRow, Keeps(jobs[j], new),
               jobs' = [jobs EXCEPT ![j] = new]
        PROVE  NothingBeyondCount'
    BY <2>3 DEF NothingBeyondCount, TypeOK, Keeps
  <2> QED
    BY <2>1, <2>2, <2>3 DEF StepShape
<1> QED
  BY <1>1, <1>2, TypeCorrect, PTL DEF Spec

(***************************************************************************)
(* Evidence is only ever added: verdicts of finished jobs, endings of      *)
(* attempts, settled targets and the admitted policy never change.         *)
(***************************************************************************)
THEOREM EvidenceKeptCorrect == Spec => EvidenceKept
<1> DEFINE Kept ==
      \A j \in Jobs :
          jobs[j].status # "absent" =>
            /\ jobs'[j].policy = jobs[j].policy
            /\ jobs'[j].created = jobs[j].created
            /\ Terminal(jobs[j]) => jobs'[j].status = jobs[j].status
            /\ \A r \in Relays :
                  /\ \/ jobs[j].target[r].status \in {"delivered", "exhausted"}
                     \/ LostForGood(jobs[j], r)
                     => jobs'[j].target[r] = jobs[j].target[r]
                  /\ \A n \in AttemptNumbers :
                        jobs[j].attempt[r][n].status \in TerminalStatus =>
                            jobs'[j].attempt[r][n] = jobs[j].attempt[r][n]
<1>1. TypeOK /\ TypeOK' /\ NothingBeyondCount /\ [Next]_vars => [Kept]_vars
  <2> SUFFICES ASSUME TypeOK, TypeOK', NothingBeyondCount, Next PROVE Kept
    OBVIOUS
  <2>1. StepShape
    BY NextShape
  <2>2. ASSUME NEW j \in Jobs, NEW p \in Policies, NEW t \in Times, CreateJob(j, p, t)
        PROVE  Kept
    <3>1. jobs[j].status = "absent"
      BY <2>2 DEF CreateJob, CreateAnswer
    <3>2. \A k \in Jobs : k # j => jobs'[k] = jobs[k]
      BY <2>2 DEF CreateJob, TypeOK
    <3> QED
      BY <3>1, <3>2
  <2>3. ASSUME NEW j \in Jobs, NEW new \in JobRow, Keeps(jobs[j], new),
               jobs' = [jobs EXCEPT ![j] = new]
        PROVE  Kept
    <3>1. jobs'[j] = new /\ \A k \in Jobs : k # j => jobs'[k] = jobs[k]
      BY <2>3 DEF TypeOK
    <3> QED
      BY <2>3, <3>1 DEF Keeps, Settled
  <2> QED
    BY <2>1, <2>2, <2>3 DEF StepShape
<1> QED
  BY <1>1, TypeCorrect, NothingBeyondCountCorrect, PTL DEF Spec, EvidenceKept

(***************************************************************************)
(* A finished job gains no attempt, so no relay is contacted for it again. *)
(***************************************************************************)
THEOREM NoAttemptAfterFinishCorrect == Spec => NoAttemptAfterFinish
<1> DEFINE Quiet ==
      \A j \in Jobs : Terminal(jobs[j]) =>
          \A r \in Relays : jobs'[j].target[r].count = jobs[j].target[r].count
<1>1. TypeOK /\ TypeOK' /\ NothingBeyondCount /\ [Next]_vars => [Quiet]_vars
  <2> SUFFICES ASSUME TypeOK, TypeOK', NothingBeyondCount, Next PROVE Quiet
    OBVIOUS
  <2>1. StepShape
    BY NextShape
  <2>2. ASSUME NEW j \in Jobs, NEW p \in Policies, NEW t \in Times, CreateJob(j, p, t)
        PROVE  Quiet
    <3>1. jobs[j].status = "absent"
      BY <2>2 DEF CreateJob, CreateAnswer
    <3>2. \A k \in Jobs : k # j => jobs'[k] = jobs[k]
      BY <2>2 DEF CreateJob, TypeOK
    <3> QED
      BY <3>1, <3>2 DEF Terminal, TerminalStatus
  <2>3. ASSUME NEW j \in Jobs, NEW new \in JobRow, Keeps(jobs[j], new),
               jobs' = [jobs EXCEPT ![j] = new]
        PROVE  Quiet
    <3>1. jobs'[j] = new /\ \A k \in Jobs : k # j => jobs'[k] = jobs[k]
      BY <2>3 DEF TypeOK
    <3> QED
      BY <2>3, <3>1 DEF Keeps
  <2> QED
    BY <2>1, <2>2, <2>3 DEF StepShape
<1> QED
  BY <1>1, TypeCorrect, NothingBeyondCountCorrect, PTL DEF Spec, NoAttemptAfterFinish

(***************************************************************************)
(* Unfinished jobs never outnumber the configured outbox maximum: only an  *)
(* admission opens a job, and it counts the open ones in its transaction.  *)
(***************************************************************************)
THEOREM OutboxBoundedCorrect == Spec => []OutboxBounded
<1>0. IsFiniteSet(ActiveJobs) /\ Cardinality(ActiveJobs) \in Nat
  <2>1. IsFiniteSet(ActiveJobs)
    BY DeliveryAssumption, FS_Subset DEF ActiveJobs
  <2> QED
    BY <2>1, FS_CardinalityType
<1>1. Init => OutboxBounded
  <2> SUFFICES ASSUME Init PROVE OutboxBounded
    OBVIOUS
  <2>1. ActiveJobs = {}
    BY DEF Init, NoJob, ActiveJobs, Open, OpenStatus
  <2> QED
    BY <2>1, FS_EmptySet, DeliveryAssumption DEF OutboxBounded
<1>2. TypeOK /\ TypeOK' /\ NothingBeyondCount /\ OutboxBounded /\ [Next]_vars
        => OutboxBounded'
  <2> SUFFICES ASSUME TypeOK, TypeOK', NothingBeyondCount, OutboxBounded, Next
               PROVE  OutboxBounded'
    BY DEF OutboxBounded, ActiveJobs, vars
  <2>1. StepShape
    BY NextShape
  <2>2. ASSUME NEW j \in Jobs, NEW p \in Policies, NEW t \in Times, CreateJob(j, p, t)
        PROVE  OutboxBounded'
    <3>1. ~(Cardinality(ActiveJobs) >= OutboxMaximum)
      BY <2>2 DEF CreateJob, CreateAnswer
    <3>2. \A k \in Jobs : k # j => jobs'[k] = jobs[k]
      BY <2>2 DEF CreateJob, TypeOK
    <3>3. ActiveJobs' \subseteq ActiveJobs \cup {j}
      BY <3>2 DEF ActiveJobs
    <3>4. /\ IsFiniteSet(ActiveJobs \cup {j})
          /\ Cardinality(ActiveJobs \cup {j}) <= Cardinality(ActiveJobs) + 1
      <4>1. /\ IsFiniteSet(ActiveJobs \cup {j})
            /\ Cardinality(ActiveJobs \cup {j})
                  = IF j \in ActiveJobs THEN Cardinality(ActiveJobs)
                    ELSE Cardinality(ActiveJobs) + 1
        BY <1>0, FS_AddElement
      <4> QED
        BY <1>0, <4>1
    <3>5. Cardinality(ActiveJobs') <= Cardinality(ActiveJobs \cup {j})
          /\ Cardinality(ActiveJobs') \in Nat
          /\ Cardinality(ActiveJobs \cup {j}) \in Nat
      BY <3>3, <3>4, FS_Subset, FS_CardinalityType
    <3> QED
      BY <1>0, <3>1, <3>4, <3>5, DeliveryAssumption DEF OutboxBounded
  <2>3. ASSUME NEW j \in Jobs, NEW new \in JobRow, Keeps(jobs[j], new),
               jobs' = [jobs EXCEPT ![j] = new]
        PROVE  OutboxBounded'
    <3>1. jobs'[j] = new /\ \A k \in Jobs : k # j => jobs'[k] = jobs[k]
      BY <2>3 DEF TypeOK
    <3>2. Open(new) => Open(jobs[j])
      BY <2>3 DEF Keeps
    <3>3. ActiveJobs' \subseteq ActiveJobs
      BY <3>1, <3>2 DEF ActiveJobs
    <3>4. Cardinality(ActiveJobs') <= Cardinality(ActiveJobs)
          /\ Cardinality(ActiveJobs') \in Nat
      BY <1>0, <3>3, FS_Subset, FS_CardinalityType
    <3> QED
      BY <1>0, <3>4, DeliveryAssumption DEF OutboxBounded
  <2> QED
    BY <2>1, <2>2, <2>3 DEF StepShape
<1> QED
  BY <1>1, <1>2, TypeCorrect, NothingBeyondCountCorrect, PTL DEF Spec

-----------------------------------------------------------------------------
(* Histories.  History(row, r) depends only on the target's row g, its     *)
(* attempts and the policy's attempt limit, so it is proved about those.   *)

Ends(g, attempts) ==
    CASE g.status \in ActiveTargetStatus \cup {"delivered", "unknown"} ->
            attempts[g.count].status = g.status
      [] g.status \in {"retryable", "exhausted"} -> attempts[g.count].status = "failed"
      [] OTHER -> FALSE

Valid(g, attempts, max) ==
    /\ g.count <= max
    /\ \A n \in AttemptNumbers :
          /\ attempts[n].status = "none" <=> n > g.count
          /\ n < g.count => attempts[n].status \in {"failed", "unknown"}
    /\ IF g.count = 0 THEN g.status \in {"none", "pending"} ELSE Ends(g, attempts)
    /\ g.status = "retryable" => g.count < max
    /\ g.status = "exhausted" => g.count = max
    /\ g.active = IF g.status \in ActiveTargetStatus THEN g.count ELSE 0

LEMMA HistoryIsValid ==
    ASSUME NEW row, NEW r
    PROVE  History(row, r) <=> Valid(row.target[r], row.attempt[r], row.policy.max)
BY DEF History, Valid, EndsAs, Ends, LastAttempt

LEMMA CountsAreBounded ==
    ASSUME NEW row \in JobRow, NEW r \in Relays
    PROVE  /\ row.target[r] \in TargetRow
           /\ row.target[r].count \in Nat
           /\ row.attempt[r] \in [AttemptNumbers -> AttemptRow]
           /\ row.policy.max \in AttemptNumbers
           /\ AttemptNumbers \subseteq Nat \ {0}
<1>1. row.policy \in Policy
  BY DeliveryAssumption DEF JobRow
<1>2. row.target[r] \in TargetRow /\ row.attempt[r] \in [AttemptNumbers -> AttemptRow]
  BY DEF JobRow
<1>3. row.target[r].count \in 0..AttemptMax
  BY <1>2 DEF TargetRow
<1> QED
  BY <1>1, <1>2, <1>3, DeliveryAssumption DEF Policy, AttemptNumbers

\* A lease on the attempt after the last one.
LEMMA ValidLease ==
    ASSUME NEW g \in TargetRow, NEW attempts \in [AttemptNumbers -> AttemptRow],
           NEW max \in AttemptNumbers, NEW h, NEW after,
           AttemptNumbers \subseteq Nat \ {0}, g.count \in Nat,
           Valid(g, attempts, max),
           g.status \in {"pending", "retryable", "unknown"},
           ~(g.count >= max), g.count + 1 \in AttemptNumbers,
           h.status = "leased", h.count = g.count + 1, h.active = g.count + 1,
           after[g.count + 1].status = "leased",
           \A m \in AttemptNumbers : m # g.count + 1 => after[m] = attempts[m]
    PROVE  Valid(h, after, max)
<1>1. g.count # 0 => g.count \in AttemptNumbers
  BY DeliveryAssumption DEF AttemptNumbers
<1>2. g.count # 0 => attempts[g.count].status \in {"failed", "unknown"}
  BY DEF Valid, Ends, ActiveTargetStatus
<1>3. ASSUME NEW m \in AttemptNumbers
      PROVE  /\ after[m].status = "none" <=> m > g.count + 1
             /\ m < g.count + 1 => after[m].status \in {"failed", "unknown"}
  <2>1. m \in Nat \ {0}
    OBVIOUS
  <2>2. CASE m = g.count + 1
    BY <2>1, <2>2
  <2>3. CASE m > g.count + 1
    BY <2>1, <2>3 DEF Valid
  <2>4. CASE m < g.count
    BY <2>1, <2>4 DEF Valid
  <2>5. CASE m = g.count
    BY <2>1, <2>5, <1>2
  <2> QED
    BY <2>1, <2>2, <2>3, <2>4, <2>5
<1>4. Ends(h, after)
  BY DEF Ends, ActiveTargetStatus
<1>5. g.count + 1 <= max /\ g.count + 1 # 0
  BY DEF Valid
<1> QED
  BY <1>3, <1>4, <1>5 DEF Valid, ActiveTargetStatus

\* A change of the running attempt's status, and the target's with it.
LEMMA ValidChange ==
    ASSUME NEW g \in TargetRow, NEW attempts \in [AttemptNumbers -> AttemptRow],
           NEW max \in AttemptNumbers, NEW h, NEW after, NEW n \in AttemptNumbers,
           AttemptNumbers \subseteq Nat \ {0}, g.count \in Nat,
           Valid(g, attempts, max),
           g.status \in ActiveTargetStatus, g.active = n,
           h.count = g.count,
           h.active = IF h.status \in ActiveTargetStatus THEN n ELSE 0,
           h.status \notin {"none", "pending"}, h.status \in TargetStatus,
           h.status = "retryable" => g.count < max,
           h.status = "exhausted" => ~(g.count < max),
           after[n].status = IF h.status \in {"retryable", "exhausted"}
                             THEN "failed" ELSE h.status,
           \A m \in AttemptNumbers : m # n => after[m] = attempts[m]
    PROVE  Valid(h, after, max)
<1>1. g.count = n /\ n # 0
  BY DEF Valid
<1>2. Ends(h, after)
  BY <1>1 DEF Ends, ActiveTargetStatus, TargetStatus
<1>3. ASSUME NEW m \in AttemptNumbers
      PROVE  /\ after[m].status = "none" <=> m > h.count
             /\ m < h.count => after[m].status \in {"failed", "unknown"}
  <2>1. CASE m = n
    BY <1>1, <2>1 DEF TargetStatus
  <2>2. CASE m # n
    BY <1>1, <2>2 DEF Valid
  <2> QED
    BY <2>1, <2>2
<1>4. h.count <= max /\ (h.status = "exhausted" => h.count = max)
  BY DEF Valid
<1> QED
  BY <1>1, <1>2, <1>3, <1>4 DEF Valid

RowHistory(row) == \A r \in Relays : History(row, r)

\* A rewritten row has valid histories if the rewritten target has one.
LEMMA RewriteHistory ==
    ASSUME NEW row \in JobRow, NEW new, NEW r \in Relays, RowHistory(row),
           new.policy = row.policy,
           \A s \in Relays : s # r => /\ new.target[s] = row.target[s]
                                      /\ new.attempt[s] = row.attempt[s],
           Valid(new.target[r], new.attempt[r], row.policy.max)
    PROVE  RowHistory(new)
<1> SUFFICES ASSUME NEW s \in Relays PROVE Valid(new.target[s], new.attempt[s], row.policy.max)
  BY HistoryIsValid DEF RowHistory
<1>1. Valid(row.target[s], row.attempt[s], row.policy.max)
  BY HistoryIsValid DEF RowHistory
<1> QED
  BY <1>1

LEMMA CreateHistory ==
    ASSUME NEW p \in Policies, NEW t \in Times
    PROVE  RowHistory(create_job(p, t))
<1> DEFINE new == create_job(p, t)
<1>1. p.max \in Nat /\ AttemptNumbers \subseteq Nat \ {0}
  BY DeliveryAssumption DEF Policy, AttemptNumbers
<1>2. ASSUME NEW r \in Relays
      PROVE  /\ new.target[r].count = 0 /\ new.target[r].active = 0
             /\ new.target[r].status \in {"none", "pending"}
             /\ \A n \in AttemptNumbers : new.attempt[r][n].status = "none"
             /\ new.policy = p
  BY DEF create_job, NoTarget, NoAttempts, NoAttempt
<1> HIDE DEF new
<1>3. ASSUME NEW r \in Relays
      PROVE  Valid(new.target[r], new.attempt[r], new.policy.max)
  BY <1>1, <1>2 DEF Valid, ActiveTargetStatus
<1> QED
  BY <1>3, HistoryIsValid DEF RowHistory, new

LEMMA ClaimHistory ==
    ASSUME NEW row \in JobRow, NEW r \in Relays, NEW nonce \in Nonces, NEW t \in Times,
           ClaimAnswer(row, r, nonce, t) = "Claimed", RowHistory(row)
    PROVE  RowHistory(claim_target(row, r, nonce, t))
<1> DEFINE number == row.target[r].count + 1
           target == [status |-> "leased", count |-> number, active |-> number,
                      next |-> 0, updated |-> t]
           attempt == [nonce |-> nonce, status |-> "leased", leased |-> t,
                       expires |-> t + row.policy.deadline, submitted |-> 0,
                       resolved |-> 0, reason |-> "none"]
           mid == Rewrite(row, r, number, target, attempt)
           new == claim_target(row, r, nonce, t)
<1>1. number \in AttemptNumbers /\ target \in TargetRow /\ attempt \in AttemptRow
  BY ClaimType
<1>2. /\ target.count = number /\ target.active = number /\ target.status = "leased"
      /\ attempt.status = "leased"
  OBVIOUS
<1>3. new.policy = mid.policy /\ new.target = mid.target /\ new.attempt = mid.attempt
  <2>1. mid \in JobRow
    BY <1>1, RewriteFacts
  <2> HIDE DEF mid
  <2>2. new = [mid EXCEPT !.status = "active",
                          !.updated = IF row.status = "pending" THEN t ELSE @]
    BY DEF claim_target, mid
  <2> QED
    BY <2>1, <2>2 DEF JobRow
<1> HIDE DEF target, attempt
<1>4. /\ mid.policy = row.policy
      /\ mid.target[r] = target
      /\ mid.attempt[r][number] = attempt
      /\ \A s \in Relays : s # r => /\ mid.target[s] = row.target[s]
                                    /\ mid.attempt[s] = row.attempt[s]
      /\ \A m \in AttemptNumbers : m # number => mid.attempt[r][m] = row.attempt[r][m]
  BY <1>1, RewriteFacts
<1> HIDE DEF mid, new
<1>5. Valid(row.target[r], row.attempt[r], row.policy.max)
  BY HistoryIsValid DEF RowHistory
<1>6. /\ row.target[r].status \in {"pending", "retryable", "unknown"}
      /\ ~(row.target[r].count >= row.policy.max)
  BY ClaimedFacts
<1>7. Valid(new.target[r], new.attempt[r], row.policy.max)
  BY <1>1, <1>2, <1>3, <1>4, <1>5, <1>6, CountsAreBounded, ValidLease
<1> QED
  BY <1>3, <1>4, <1>7, RewriteHistory DEF new

LEMMA SubmitHistory ==
    ASSUME NEW row \in JobRow, NEW r \in Relays, NEW n \in AttemptNumbers, NEW t \in Times,
           SubmitAnswer(row, r, n, t) = "Submitted", RowHistory(row)
    PROVE  RowHistory(mark_submitted(row, r, n, t))
<1> DEFINE target == [row.target[r] EXCEPT !.status = "submitted", !.updated = t]
           attempt == [row.attempt[r][n] EXCEPT !.status = "submitted", !.submitted = t]
           new == mark_submitted(row, r, n, t)
<1>1. target \in TargetRow /\ attempt \in AttemptRow
  BY SubmitType
<1>2. /\ target.count = row.target[r].count /\ target.active = row.target[r].active
      /\ target.status = "submitted"
  BY RowParts DEF TargetRow
<1>3. attempt.status = "submitted"
  BY RowParts DEF AttemptRow
<1> HIDE DEF target, attempt
<1>4. /\ new.policy = row.policy
      /\ new.target[r] = target
      /\ new.attempt[r][n] = attempt
      /\ \A s \in Relays : s # r => /\ new.target[s] = row.target[s]
                                    /\ new.attempt[s] = row.attempt[s]
      /\ \A m \in AttemptNumbers : m # n => new.attempt[r][m] = row.attempt[r][m]
  BY <1>1, RewriteFacts DEF mark_submitted, target, attempt
<1> HIDE DEF new
<1>5. Valid(row.target[r], row.attempt[r], row.policy.max)
  BY HistoryIsValid DEF RowHistory
<1>6. row.target[r].active = n /\ row.target[r].status = "leased"
  BY DEF SubmitAnswer
<1>7. Valid(new.target[r], new.attempt[r], row.policy.max)
  BY <1>2, <1>3, <1>4, <1>5, <1>6, CountsAreBounded, ValidChange
     DEF ActiveTargetStatus, TargetStatus
<1> QED
  BY <1>4, <1>7, RewriteHistory DEF new

LEMMA ResolveHistory ==
    ASSUME NEW row \in JobRow, NEW r \in Relays, NEW n \in AttemptNumbers, NEW t \in Times,
           NEW ending \in TerminalStatus, NEW reason \in Reasons, NEW jitter \in Jitters,
           ResolveAccepted(row, r, n, ending, jitter, t),
           row.attempt[r][n].status \in ActiveAttemptStatus,
           row.target[r].active = n,
           RowHistory(row)
    PROVE  RowHistory(resolve_attempt_and_target(row, r, n, ending, reason, jitter, t))
<1> DEFINE target == [row.target[r] EXCEPT
                         !.status = ResolvedTargetStatus(row, r, ending), !.active = 0,
                         !.next = IF SchedulesRetry(row, r, ending) THEN t + jitter ELSE 0,
                         !.updated = t]
           attempt == [row.attempt[r][n] EXCEPT
                         !.status = ending, !.resolved = t, !.reason = reason]
           new == resolve_attempt_and_target(row, r, n, ending, reason, jitter, t)
<1>1. target \in TargetRow /\ attempt \in AttemptRow
  BY ResolveType
<1>2. /\ target.count = row.target[r].count /\ target.active = 0
      /\ target.status = ResolvedTargetStatus(row, r, ending)
  BY RowParts DEF TargetRow
<1>3. attempt.status = ending
  BY RowParts DEF AttemptRow
<1> HIDE DEF target, attempt
<1>4. /\ new.policy = row.policy
      /\ new.target[r] = target
      /\ new.attempt[r][n] = attempt
      /\ \A s \in Relays : s # r => /\ new.target[s] = row.target[s]
                                    /\ new.attempt[s] = row.attempt[s]
      /\ \A m \in AttemptNumbers : m # n => new.attempt[r][m] = row.attempt[r][m]
  BY <1>1, RewriteFacts DEF resolve_attempt_and_target, target, attempt
<1> HIDE DEF new
<1>5. Valid(row.target[r], row.attempt[r], row.policy.max)
  BY HistoryIsValid DEF RowHistory
<1>6. row.target[r].status \in ActiveTargetStatus
  BY DEF ResolveAccepted, ActiveAttemptStatus, ActiveTargetStatus
<1>7. /\ target.status \in {"delivered", "unknown", "retryable", "exhausted"}
      /\ target.status = "retryable" => row.target[r].count < row.policy.max
      /\ target.status = "exhausted" => ~(row.target[r].count < row.policy.max)
      /\ attempt.status = IF target.status \in {"retryable", "exhausted"}
                          THEN "failed" ELSE target.status
  BY <1>2, <1>3 DEF ResolvedTargetStatus, AttemptsRemaining, TerminalStatus
<1>8. Valid(new.target[r], new.attempt[r], row.policy.max)
  BY <1>2, <1>4, <1>5, <1>6, <1>7, CountsAreBounded, ValidChange
     DEF ActiveTargetStatus, TargetStatus
<1> QED
  BY <1>4, <1>8, RewriteHistory DEF new

LEMMA FinalizeHistory ==
    ASSUME NEW row \in JobRow, NEW t \in Times, RowHistory(row)
    PROVE  RowHistory(finalize_job_if_terminal(row, t))
<1> DEFINE new == finalize_job_if_terminal(row, t)
<1>1. new.policy = row.policy /\ new.target = row.target /\ new.attempt = row.attempt
  BY DEF finalize_job_if_terminal, JobRow
<1> QED
  BY <1>1, HistoryIsValid DEF RowHistory

LEMMA RecordHistory ==
    ASSUME NEW row \in JobRow, NEW r \in Relays, NEW n \in AttemptNumbers, NEW t \in Times,
           NEW o \in Outcomes, NEW jitter \in Jitters,
           OutcomeAnswer(row, r, n, o, jitter, t) = "Recorded", RowHistory(row)
    PROVE  RowHistory(record_outcome(row, r, n, o, jitter, t))
<1> DEFINE mid == recorded(row, r, n, o, jitter, t)
<1>1. /\ OutcomeStatus(o) \in TerminalStatus
      /\ OutcomeReason(o) \in Reasons
      /\ row.attempt[r][n].status \in ActiveAttemptStatus
      /\ row.target[r].active = n
      /\ ResolveAccepted(row, r, n, OutcomeStatus(o), jitter, t)
  BY RecordedFacts
<1>2. mid \in JobRow /\ RowHistory(mid)
  BY <1>1, ResolveType, ResolveHistory DEF recorded
<1> QED
  BY <1>2, FinalizeHistory DEF record_outcome

LEMMA RecoverHistory ==
    ASSUME NEW row \in JobRow, NEW r \in Relays, NEW n \in AttemptNumbers, NEW t \in Times,
           NEW jitter \in Jitters,
           RecoverAnswer(row, r, n, jitter, t) = "Recovered", RowHistory(row)
    PROVE  RowHistory(recover_expired(row, r, n, jitter, t))
<1> DEFINE mid == expired(row, r, n, jitter, t)
<1>1. /\ ExpiredStatus(row.attempt[r][n]) \in TerminalStatus
      /\ ExpiredReason(row.attempt[r][n]) \in Reasons
      /\ row.attempt[r][n].status \in ActiveAttemptStatus
      /\ row.target[r].active = n
      /\ ResolveAccepted(row, r, n, ExpiredStatus(row.attempt[r][n]), jitter, t)
  BY RecoveredFacts
<1>2. mid \in JobRow /\ RowHistory(mid)
  BY <1>1, ResolveType, ResolveHistory DEF expired
<1> QED
  BY <1>2, FinalizeHistory DEF recover_expired

(***************************************************************************)
(* The attempt histories are the ones that restart recovery insists on, so *)
(* its validation never refuses a store that these transactions wrote.     *)
(***************************************************************************)
THEOREM HistoriesCorrect == Spec => []HistoriesValid
<1>1. Init => HistoriesValid
  <2> SUFFICES ASSUME Init, NEW j \in Jobs, NEW r \in Relays
               PROVE  Valid(jobs[j].target[r], jobs[j].attempt[r], jobs[j].policy.max)
    BY HistoryIsValid DEF HistoriesValid
  <2>1. jobs[j] = NoJob /\ NoJob.policy \in Policies
    BY DeliveryAssumption DEF Init, NoJob
  <2>2. NoJob.policy.max \in Nat /\ AttemptNumbers \subseteq Nat \ {0}
    BY <2>1, DeliveryAssumption DEF Policy, AttemptNumbers
  <2>3. /\ NoJob.target[r].count = 0 /\ NoJob.target[r].active = 0
        /\ NoJob.target[r].status = "none"
        /\ \A n \in AttemptNumbers : NoJob.attempt[r][n].status = "none"
    BY DEF NoJob, NoTarget, NoAttempts, NoAttempt
  <2> QED
    BY <2>1, <2>2, <2>3 DEF Valid, ActiveTargetStatus
<1>2. TypeOK /\ HistoriesValid /\ [Next]_vars => HistoriesValid'
  <2> SUFFICES ASSUME TypeOK, HistoriesValid, Next PROVE HistoriesValid'
    BY HistoryIsValid DEF HistoriesValid, vars
  <2>0. \A j \in Jobs : jobs[j] \in JobRow /\ RowHistory(jobs[j])
    BY DEF TypeOK, HistoriesValid, RowHistory
  <2>a. ASSUME NEW j \in Jobs, NEW row, RowHistory(row), jobs' = [jobs EXCEPT ![j] = row]
        PROVE  HistoriesValid'
    <3>1. \A k \in Jobs : RowHistory(jobs'[k])
      BY <2>0, <2>a DEF TypeOK
    <3> QED
      BY <3>1 DEF HistoriesValid, RowHistory
  <2>1. ASSUME NEW j \in Jobs, NEW t \in Times, NEW p \in Policies, CreateJob(j, p, t)
        PROVE  HistoriesValid'
    BY <2>1, <2>a, CreateHistory DEF CreateJob
  <2>2. ASSUME NEW j \in Jobs, NEW t \in Times, NEW r \in Relays, NEW nonce \in Nonces,
               ClaimTarget(j, r, nonce, t)
        PROVE  HistoriesValid'
    BY <2>2, <2>0, <2>a, ClaimHistory DEF ClaimTarget
  <2>3. ASSUME NEW j \in Jobs, NEW t \in Times, NEW r \in Relays,
               NEW n \in AttemptNumbers, MarkSubmitted(j, r, n, t)
        PROVE  HistoriesValid'
    BY <2>3, <2>0, <2>a, SubmitHistory DEF MarkSubmitted
  <2>4. ASSUME NEW j \in Jobs, NEW t \in Times, NEW r \in Relays,
               NEW n \in AttemptNumbers, NEW o \in Outcomes, NEW jitter \in Jitters,
               RecordOutcome(j, r, n, o, jitter, t)
        PROVE  HistoriesValid'
    <3>1. RowHistory(record_outcome(jobs[j], r, n, o, jitter, t))
      BY <2>4, <2>0, RecordHistory DEF RecordOutcome
    <3> QED
      BY <2>4, <2>a, <3>1 DEF RecordOutcome
  <2>5. ASSUME NEW j \in Jobs, NEW t \in Times, NEW r \in Relays,
               NEW n \in AttemptNumbers, NEW jitter \in Jitters,
               RecoverExpired(j, r, n, jitter, t)
        PROVE  HistoriesValid'
    <3>1. RowHistory(recover_expired(jobs[j], r, n, jitter, t))
      BY <2>5, <2>0, RecoverHistory DEF RecoverExpired
    <3> QED
      BY <2>5, <2>a, <3>1 DEF RecoverExpired
  <2> QED
    BY <2>1, <2>2, <2>3, <2>4, <2>5 DEF Next
<1> QED
  BY <1>1, <1>2, TypeCorrect, PTL DEF Spec

-----------------------------------------------------------------------------
(* Sound rows.  Beyond what RowsSound says, the inductive invariant knows  *)
(* that no attempt was resolved after its target's last update, which is   *)
(* what dates the next lease, and that only targets of a stored job's      *)
(* policy are in use.                                                      *)

SoundTarget(g, max) ==
    /\ g.status = "retryable" => g.next # 0
    /\ g.status \notin {"retryable", "unknown"} => g.next = 0
    /\ g.status = "unknown" => g.next # 0 \/ g.count = max

SoundAttempt(a) ==
    /\ a.status = "none" => a.submitted = 0 /\ a.resolved = 0 /\ a.reason = "none"
    /\ a.status # "none" => parse_attempt(a)
    /\ a.submitted # 0 => a.leased <= a.submitted /\ a.submitted <= a.expires
    /\ a.resolved # 0 => a.leased <= a.resolved /\ a.submitted <= a.resolved
    /\ a.reason = "lease_expired_before_submit" => a.submitted = 0 /\ a.resolved > a.expires
    /\ a.reason \in {"accepted", "relay_rejected", "transport_failed"} => a.resolved <= a.expires

Sequenced(g, attempts) ==
    \A n \in AttemptNumbers :
        /\ attempts[n].resolved <= g.updated
        /\ n > 1 /\ attempts[n].status # "none" => attempts[n - 1].resolved <= attempts[n].leased

SoundRow(row) ==
    \A r \in Relays :
        /\ SoundTarget(row.target[r], row.policy.max)
        /\ \A n \in AttemptNumbers : SoundAttempt(row.attempt[r][n])
        /\ Sequenced(row.target[r], row.attempt[r])
        /\ row.target[r].status # "none" => r \in row.policy.targets /\ row.status # "absent"

\* One target in use, and one attempt of it, changed the way an operation does.
Moved(row, new, r, n) ==
    /\ new.policy = row.policy /\ new.status # "absent"
    /\ \A s \in Relays : s # r => new.target[s] = row.target[s] /\ new.attempt[s] = row.attempt[s]
    /\ \A m \in AttemptNumbers : m # n => new.attempt[r][m] = row.attempt[r][m]
    /\ row.target[r].status # "none"
    /\ row.target[r].updated <= new.target[r].updated
    /\ new.attempt[r][n].resolved <= new.target[r].updated
    /\ n > 1 => row.attempt[r][n - 1].resolved <= new.attempt[r][n].leased
    /\ n + 1 \in AttemptNumbers => row.attempt[r][n + 1].status = "none"
    /\ SoundTarget(new.target[r], row.policy.max)
    /\ SoundAttempt(new.attempt[r][n])

LEMMA TimesAreNumbers ==
    /\ \A g \in TargetRow : g.updated \in Nat /\ g.next \in Nat /\ g.count \in Nat
    /\ \A a \in AttemptRow :
         a.leased \in Nat /\ a.expires \in Nat /\ a.submitted \in Nat /\ a.resolved \in Nat
    /\ Times \subseteq Nat \ {0} /\ Jitters \subseteq Nat /\ AttemptNumbers \subseteq Nat \ {0}
BY DeliveryAssumption DEF TargetRow, AttemptRow, Times, Jitters, AttemptNumbers

LEMMA MovedSound ==
    ASSUME NEW row \in JobRow, NEW new \in JobRow, NEW r \in Relays, NEW n \in AttemptNumbers,
           SoundRow(row), Moved(row, new, r, n)
    PROVE  SoundRow(new)
<1>1. \A s \in Relays : SoundTarget(new.target[s], new.policy.max)
  BY DEF SoundRow, Moved
<1>2. \A s \in Relays, m \in AttemptNumbers : SoundAttempt(new.attempt[s][m])
  BY DEF SoundRow, Moved
<1>3. \A s \in Relays : new.target[s].status # "none" => s \in new.policy.targets /\ new.status # "absent"
  <2>1. row.status # "absent" /\ r \in row.policy.targets
    BY DEF SoundRow, Moved
  <2> QED
    BY <2>1 DEF SoundRow, Moved
<1>4. ASSUME NEW s \in Relays, s # r PROVE Sequenced(new.target[s], new.attempt[s])
  BY <1>4 DEF SoundRow, Moved
<1>5. Sequenced(new.target[r], new.attempt[r])
  <2> SUFFICES ASSUME NEW m \in AttemptNumbers
               PROVE  /\ new.attempt[r][m].resolved <= new.target[r].updated
                      /\ m > 1 /\ new.attempt[r][m].status # "none" =>
                           new.attempt[r][m - 1].resolved <= new.attempt[r][m].leased
    BY DEF Sequenced
  <2>0. m \in Nat \ {0} /\ n \in Nat \ {0} /\ (m > 1 => m - 1 \in AttemptNumbers)
    BY DeliveryAssumption DEF AttemptNumbers
  <2>1. \A k \in AttemptNumbers : new.attempt[r][k].resolved \in Nat /\ row.attempt[r][k].resolved \in Nat
    BY RowParts, TimesAreNumbers
  <2>2. row.target[r].updated \in Nat /\ new.target[r].updated \in Nat
    BY RowParts, TimesAreNumbers
  <2>3. /\ row.attempt[r][m].resolved <= row.target[r].updated
        /\ m > 1 /\ row.attempt[r][m].status # "none" =>
             row.attempt[r][m - 1].resolved <= row.attempt[r][m].leased
    BY DEF SoundRow, Sequenced
  <2>4. new.attempt[r][m].resolved <= new.target[r].updated
    <3>1. CASE m = n
      BY <3>1 DEF Moved
    <3>2. CASE m # n
      BY <3>2, <2>1, <2>2, <2>3 DEF Moved
    <3> QED
      BY <3>1, <3>2
  <2>5. ASSUME m > 1, new.attempt[r][m].status # "none"
        PROVE  new.attempt[r][m - 1].resolved <= new.attempt[r][m].leased
    <3>1. CASE m = n
      <4>1. n - 1 # n
        BY <2>0
      <4> QED
        BY <3>1, <4>1, <2>0, <2>5 DEF Moved
    <3>2. CASE m # n /\ m - 1 # n
      BY <3>2, <2>0, <2>3, <2>5 DEF Moved
    <3>3. CASE m - 1 = n
      <4>1. m = n + 1 /\ m # n
        BY <3>3, <2>0
      <4>2. new.attempt[r][m].status = "none"
        BY <4>1 DEF Moved
      <4> QED
        BY <4>2, <2>5
    <3> QED
      BY <3>1, <3>2, <3>3
  <2> QED
    BY <2>4, <2>5
<1> QED
  BY <1>1, <1>2, <1>3, <1>4, <1>5 DEF SoundRow

LEMMA CreateSound ==
    ASSUME NEW p \in Policies, NEW t \in Times
    PROVE  SoundRow(create_job(p, t))
<1> DEFINE new == create_job(p, t)
<1>1. ASSUME NEW r \in Relays
      PROVE  /\ new.target[r].next = 0 /\ new.target[r].updated \in Nat
             /\ new.target[r].status \in {"none", "pending"}
             /\ new.target[r].status # "none" => r \in p.targets
             /\ \A n \in AttemptNumbers : new.attempt[r][n] = NoAttempt
             /\ new.policy = p /\ new.status = "pending"
  BY TimesAreNumbers DEF create_job, NoTarget, NoAttempts
<1> HIDE DEF new
<1>2. \A r \in Relays : SoundTarget(new.target[r], new.policy.max)
  BY <1>1 DEF SoundTarget
<1>3. \A r \in Relays, n \in AttemptNumbers : SoundAttempt(new.attempt[r][n])
  BY <1>1 DEF SoundAttempt, NoAttempt
<1>4. \A r \in Relays : Sequenced(new.target[r], new.attempt[r])
  BY <1>1 DEF Sequenced, NoAttempt
<1>5. SoundRow(new)
  BY <1>1, <1>2, <1>3, <1>4 DEF SoundRow
<1> QED
  BY <1>5 DEF new

LEMMA FinalizeSound ==
    ASSUME NEW mid \in JobRow, NEW t \in Times, SoundRow(mid)
    PROVE  SoundRow(finalize_job_if_terminal(mid, t))
<1> DEFINE new == finalize_job_if_terminal(mid, t)
<1>1. /\ new.policy = mid.policy /\ new.target = mid.target /\ new.attempt = mid.attempt
      /\ mid.status # "absent" => new.status # "absent"
  BY DEF finalize_job_if_terminal, JobRow, Verdict
<1> HIDE DEF new
<1>2. SoundRow(new)
  BY <1>1 DEF SoundRow
<1> QED
  BY <1>2 DEF new

LEMMA ClaimSound ==
    ASSUME NEW row \in JobRow, NEW r \in Relays, NEW nonce \in Nonces, NEW t \in Times,
           ClaimAnswer(row, r, nonce, t) = "Claimed", RowHistory(row), SoundRow(row)
    PROVE  SoundRow(claim_target(row, r, nonce, t))
<1> DEFINE number == row.target[r].count + 1
           target == [status |-> "leased", count |-> number, active |-> number,
                      next |-> 0, updated |-> t]
           attempt == [nonce |-> nonce, status |-> "leased", leased |-> t,
                       expires |-> t + row.policy.deadline, submitted |-> 0,
                       resolved |-> 0, reason |-> "none"]
           mid == Rewrite(row, r, number, target, attempt)
           new == claim_target(row, r, nonce, t)
<1>1. number \in AttemptNumbers /\ target \in TargetRow /\ attempt \in AttemptRow /\ new \in JobRow
  BY ClaimType
<1>2. t \in Nat \ {0} /\ row.policy.deadline \in Nat /\ row.policy.deadline >= 1
  <2>1. row.policy \in Policy /\ ValidPolicy(row.policy)
    BY DeliveryAssumption DEF JobRow
  <2> QED
    BY <2>1, TimesAreNumbers DEF Policy, ValidPolicy
<1>3. SoundTarget(target, row.policy.max) /\ target.updated = t
  BY DEF SoundTarget
<1>4. SoundAttempt(attempt) /\ attempt.resolved = 0 /\ attempt.leased = t
  BY <1>2 DEF SoundAttempt, parse_attempt, ActiveAttemptStatus, TerminalStatus
<1>5. new.policy = mid.policy /\ new.target = mid.target /\ new.attempt = mid.attempt
      /\ new.status = "active"
  <2>1. mid \in JobRow
    BY <1>1, RewriteFacts
  <2> HIDE DEF mid
  <2>2. new = [mid EXCEPT !.status = "active",
                          !.updated = IF row.status = "pending" THEN t ELSE @]
    BY DEF claim_target, mid
  <2> QED
    BY <2>1, <2>2 DEF JobRow
<1> HIDE DEF target, attempt
<1>6. /\ mid.policy = row.policy
      /\ mid.target[r] = target
      /\ mid.attempt[r][number] = attempt
      /\ \A s \in Relays : s # r => /\ mid.target[s] = row.target[s]
                                    /\ mid.attempt[s] = row.attempt[s]
      /\ \A m \in AttemptNumbers : m # number => mid.attempt[r][m] = row.attempt[r][m]
  BY <1>1, RewriteFacts
<1> HIDE DEF mid, new
<1>7. /\ row.target[r].status # "none" /\ row.target[r].updated <= t
      /\ row.target[r].updated \in Nat /\ row.target[r].count \in Nat
  BY ClaimedFacts, CountsAreBounded, TimesAreNumbers
<1>8. number > 1 => row.attempt[r][number - 1].resolved <= t
  <2>1. ASSUME number > 1 PROVE number - 1 \in AttemptNumbers
    BY <1>1, <1>7, <2>1, DeliveryAssumption DEF AttemptNumbers
  <2>2. \A m \in AttemptNumbers : row.attempt[r][m].resolved <= row.target[r].updated
    BY DEF SoundRow, Sequenced
  <2>3. \A m \in AttemptNumbers : row.attempt[r][m].resolved \in Nat
    BY RowParts, TimesAreNumbers
  <2> HIDE DEF number
  <2> QED
    BY <1>2, <1>7, <2>1, <2>2, <2>3
<1>9. number + 1 \in AttemptNumbers => row.attempt[r][number + 1].status = "none"
  <2>1. number + 1 > row.target[r].count
    BY <1>7
  <2>2. History(row, r)
    BY DEF RowHistory
  <2> HIDE DEF number
  <2> QED
    BY <2>1, <2>2 DEF History
<1> HIDE DEF number
<1>10. Moved(row, new, r, number)
  BY <1>1, <1>2, <1>3, <1>4, <1>5, <1>6, <1>7, <1>8, <1>9 DEF Moved
<1> QED
  BY <1>1, <1>10, MovedSound DEF new

\* The running attempt is the last one.
LEMMA RunningIsLast ==
    ASSUME NEW row \in JobRow, NEW r \in Relays, NEW n \in AttemptNumbers, RowHistory(row),
           row.target[r].active = n
    PROVE  n + 1 \in AttemptNumbers => row.attempt[r][n + 1].status = "none"
<1>1. History(row, r) /\ row.target[r].count \in Nat /\ n \in Nat \ {0}
  BY CountsAreBounded DEF RowHistory
<1>2. row.target[r].count = n
  BY <1>1 DEF History
<1> QED
  BY <1>1, <1>2 DEF History

LEMMA SubmitSound ==
    ASSUME NEW row \in JobRow, NEW r \in Relays, NEW n \in AttemptNumbers, NEW t \in Times,
           SubmitAnswer(row, r, n, t) = "Submitted", RowHistory(row), SoundRow(row)
    PROVE  SoundRow(mark_submitted(row, r, n, t))
<1> DEFINE target == [row.target[r] EXCEPT !.status = "submitted", !.updated = t]
           attempt == [row.attempt[r][n] EXCEPT !.status = "submitted", !.submitted = t]
           new == mark_submitted(row, r, n, t)
           a == row.attempt[r][n]
<1>1. target \in TargetRow /\ attempt \in AttemptRow /\ new \in JobRow
  BY SubmitType
<1>2. /\ target.updated = t /\ target.next = row.target[r].next /\ target.status = "submitted"
      /\ target.count = row.target[r].count
  BY RowParts DEF TargetRow
<1>3. /\ attempt.status = "submitted" /\ attempt.submitted = t /\ attempt.leased = a.leased
      /\ attempt.expires = a.expires /\ attempt.resolved = a.resolved /\ attempt.reason = a.reason
  BY RowParts DEF AttemptRow
<1>4. /\ a.status = "leased" /\ ~(t < a.leased) /\ ~(t > a.expires) /\ row.target[r].active = n
      /\ row.target[r].status = "leased" /\ ~(t < row.target[r].updated)
  BY DEF SubmitAnswer
<1>5. /\ t \in Nat \ {0} /\ a.leased \in Nat /\ a.expires \in Nat /\ row.target[r].updated \in Nat
  BY RowParts, TimesAreNumbers
<1>6. SoundAttempt(a) /\ SoundTarget(row.target[r], row.policy.max)
      /\ Sequenced(row.target[r], row.attempt[r])
  BY DEF SoundRow
<1> HIDE DEF target, attempt
<1>7. SoundTarget(target, row.policy.max)
  BY <1>2, <1>4, <1>6 DEF SoundTarget
<1>8. a.resolved = 0 /\ a.reason = "none" /\ a.leased < a.expires
  BY <1>4, <1>6 DEF SoundAttempt, parse_attempt, ActiveAttemptStatus
<1>9. SoundAttempt(attempt)
  BY <1>3, <1>4, <1>5, <1>8 DEF SoundAttempt, parse_attempt, ActiveAttemptStatus, TerminalStatus
<1>10. /\ new.policy = row.policy /\ new.status = row.status
       /\ new.target[r] = target
       /\ new.attempt[r][n] = attempt
       /\ \A s \in Relays : s # r => /\ new.target[s] = row.target[s]
                                     /\ new.attempt[s] = row.attempt[s]
       /\ \A m \in AttemptNumbers : m # n => new.attempt[r][m] = row.attempt[r][m]
  BY <1>1, RewriteFacts DEF mark_submitted, target, attempt
<1> HIDE DEF new
<1>11. row.status # "absent"
  BY <1>4 DEF SoundRow
<1>12. n > 1 => row.attempt[r][n - 1].resolved <= a.leased
  BY <1>4, <1>6 DEF Sequenced
<1>13. Moved(row, new, r, n)
  BY <1>2, <1>3, <1>4, <1>5, <1>7, <1>8, <1>9, <1>10, <1>11, <1>12, RunningIsLast DEF Moved
<1> QED
  BY <1>1, <1>13, MovedSound DEF new

\* What an ending says of the attempt it ends.
EndsSoundly(a, ending, reason, t) ==
    /\ a.leased <= t /\ a.submitted <= t /\ reason # "none"
    /\ ending \in {"delivered", "unknown"} => a.status = "submitted"
    /\ ending = "delivered" => reason = "accepted"
    /\ ending = "unknown" => reason = "acknowledgement_lost"
    /\ reason = "lease_expired_before_submit" => a.status = "leased" /\ t > a.expires
    /\ reason \in {"accepted", "relay_rejected", "transport_failed"} => t <= a.expires

LEMMA ResolveSound ==
    ASSUME NEW row \in JobRow, NEW r \in Relays, NEW n \in AttemptNumbers, NEW t \in Times,
           NEW ending \in TerminalStatus, NEW reason \in Reasons, NEW jitter \in Jitters,
           ResolveAccepted(row, r, n, ending, jitter, t),
           row.attempt[r][n].status \in ActiveAttemptStatus,
           row.target[r].active = n,
           EndsSoundly(row.attempt[r][n], ending, reason, t),
           RowHistory(row), SoundRow(row)
    PROVE  SoundRow(resolve_attempt_and_target(row, r, n, ending, reason, jitter, t))
<1> DEFINE next == IF SchedulesRetry(row, r, ending) THEN t + jitter ELSE 0
           target == [row.target[r] EXCEPT
                         !.status = ResolvedTargetStatus(row, r, ending), !.active = 0,
                         !.next = next, !.updated = t]
           attempt == [row.attempt[r][n] EXCEPT
                         !.status = ending, !.resolved = t, !.reason = reason]
           new == resolve_attempt_and_target(row, r, n, ending, reason, jitter, t)
           a == row.attempt[r][n]
<1>1. target \in TargetRow /\ attempt \in AttemptRow /\ new \in JobRow
  BY ResolveType
<1>2. /\ target.count = row.target[r].count /\ target.updated = t /\ target.next = next
      /\ target.status = ResolvedTargetStatus(row, r, ending)
  BY RowParts DEF TargetRow
<1>3. /\ attempt.status = ending /\ attempt.resolved = t /\ attempt.reason = reason
      /\ attempt.leased = a.leased /\ attempt.expires = a.expires /\ attempt.submitted = a.submitted
  BY RowParts DEF AttemptRow
<1>4. /\ t \in Nat \ {0} /\ jitter \in Nat /\ a.leased \in Nat /\ a.expires \in Nat
      /\ a.submitted \in Nat /\ row.target[r].updated \in Nat
      /\ row.target[r].count \in Nat /\ row.policy.max \in Nat
  BY RowParts, TimesAreNumbers, CountsAreBounded
<1>5. SoundAttempt(a) /\ Sequenced(row.target[r], row.attempt[r]) /\ History(row, r)
  BY DEF SoundRow, RowHistory
<1>6. SoundTarget(target, row.policy.max)
  <2>1. row.target[r].count <= row.policy.max
    BY <1>5 DEF History
  <2>2. SchedulesRetry(row, r, ending) => next # 0
    BY <1>4
  <2>3. ~SchedulesRetry(row, r, ending) => next = 0
    OBVIOUS
  <2> HIDE DEF next, target
  <2>4. CASE ending = "failed"
    BY <1>2, <2>2, <2>3, <2>4 DEF SoundTarget, ResolvedTargetStatus, SchedulesRetry, AttemptsRemaining
  <2>5. CASE ending = "unknown"
    BY <1>2, <1>4, <2>1, <2>2, <2>3, <2>5
       DEF SoundTarget, ResolvedTargetStatus, SchedulesRetry, AttemptsRemaining
  <2>6. CASE ending = "delivered"
    BY <1>2, <2>3, <2>6 DEF SoundTarget, ResolvedTargetStatus, SchedulesRetry
  <2> QED
    BY <2>4, <2>5, <2>6 DEF TerminalStatus
<1> HIDE DEF target, attempt, next
<1>7. /\ a.leased < a.expires /\ (a.status = "leased" => a.submitted = 0)
      /\ (a.status = "submitted" => a.submitted # 0)
      /\ (a.submitted # 0 => a.leased <= a.submitted /\ a.submitted <= a.expires)
  BY <1>5 DEF SoundAttempt, parse_attempt, ActiveAttemptStatus
<1>8. parse_attempt(attempt)
  BY <1>3, <1>4, <1>7 DEF parse_attempt, EndsSoundly, ActiveAttemptStatus, TerminalStatus
<1>9. SoundAttempt(attempt)
  BY <1>3, <1>4, <1>7, <1>8 DEF SoundAttempt, EndsSoundly, TerminalStatus
<1>10. /\ new.policy = row.policy /\ new.status = row.status
       /\ new.target[r] = target
       /\ new.attempt[r][n] = attempt
       /\ \A s \in Relays : s # r => /\ new.target[s] = row.target[s]
                                     /\ new.attempt[s] = row.attempt[s]
       /\ \A m \in AttemptNumbers : m # n => new.attempt[r][m] = row.attempt[r][m]
  BY <1>1, RewriteFacts DEF resolve_attempt_and_target, target, attempt, next
<1> HIDE DEF new
<1>11. row.target[r].status # "none" /\ row.target[r].updated <= t
  BY <1>4 DEF ResolveAccepted, ActiveAttemptStatus
<1>12. row.status # "absent"
  BY <1>11 DEF SoundRow
<1>13. n > 1 => row.attempt[r][n - 1].resolved <= a.leased
  BY <1>5 DEF Sequenced, ActiveAttemptStatus
<1>14. Moved(row, new, r, n)
  BY <1>2, <1>3, <1>4, <1>6, <1>9, <1>10, <1>11, <1>12, <1>13, RunningIsLast DEF Moved
<1> QED
  BY <1>1, <1>14, MovedSound DEF new

LEMMA RecordSound ==
    ASSUME NEW row \in JobRow, NEW r \in Relays, NEW n \in AttemptNumbers, NEW t \in Times,
           NEW o \in Outcomes, NEW jitter \in Jitters,
           OutcomeAnswer(row, r, n, o, jitter, t) = "Recorded", RowHistory(row), SoundRow(row)
    PROVE  SoundRow(record_outcome(row, r, n, o, jitter, t))
<1> DEFINE mid == recorded(row, r, n, o, jitter, t)
<1>1. /\ OutcomeStatus(o) \in TerminalStatus
      /\ OutcomeReason(o) \in Reasons
      /\ row.attempt[r][n].status \in RequiredPrior(o)
      /\ row.attempt[r][n].status \in ActiveAttemptStatus
      /\ row.target[r].active = n
      /\ row.attempt[r][n].leased <= t
      /\ row.attempt[r][n].submitted <= t
      /\ t <= row.attempt[r][n].expires
      /\ ResolveAccepted(row, r, n, OutcomeStatus(o), jitter, t)
  BY RecordedFacts
<1>2. EndsSoundly(row.attempt[r][n], OutcomeStatus(o), OutcomeReason(o), t)
  BY <1>1 DEF EndsSoundly, OutcomeStatus, OutcomeReason, RequiredPrior, Outcomes
<1>3. mid \in JobRow /\ SoundRow(mid)
  BY <1>1, <1>2, ResolveType, ResolveSound DEF recorded
<1> QED
  BY <1>3, FinalizeSound DEF record_outcome

LEMMA RecoverSound ==
    ASSUME NEW row \in JobRow, NEW r \in Relays, NEW n \in AttemptNumbers, NEW t \in Times,
           NEW jitter \in Jitters,
           RecoverAnswer(row, r, n, jitter, t) = "Recovered", RowHistory(row), SoundRow(row)
    PROVE  SoundRow(recover_expired(row, r, n, jitter, t))
<1> DEFINE mid == expired(row, r, n, jitter, t)
           a == row.attempt[r][n]
<1>1. /\ ExpiredStatus(a) \in TerminalStatus
      /\ ExpiredReason(a) \in Reasons
      /\ a.status \in ActiveAttemptStatus
      /\ row.target[r].active = n
      /\ t > a.expires
      /\ ResolveAccepted(row, r, n, ExpiredStatus(a), jitter, t)
  BY RecoveredFacts
<1>2. EndsSoundly(a, ExpiredStatus(a), ExpiredReason(a), t)
  <2>1. a.leased \in Nat /\ a.expires \in Nat /\ a.submitted \in Nat /\ t \in Nat
    BY RowParts, TimesAreNumbers
  <2>2. a.leased < a.expires /\ (a.submitted # 0 => a.submitted <= a.expires)
    BY <1>1 DEF SoundRow, SoundAttempt, parse_attempt, ActiveAttemptStatus
  <2>3. a.leased <= t /\ a.submitted <= t
    BY <1>1, <2>1, <2>2
  <2> QED
    BY <1>1, <2>3 DEF EndsSoundly, ExpiredStatus, ExpiredReason, ActiveAttemptStatus
<1>3. mid \in JobRow /\ SoundRow(mid)
  BY <1>1, <1>2, ResolveType, ResolveSound DEF expired
<1> QED
  BY <1>3, FinalizeSound DEF recover_expired

TableSound == \A j \in Jobs : SoundRow(jobs[j])

LEMMA TableSoundCorrect == Spec => []TableSound
<1>1. Init => TableSound
  <2> SUFFICES ASSUME Init, NEW j \in Jobs PROVE SoundRow(jobs[j])
    BY DEF TableSound
  <2>1. jobs[j] = NoJob
    BY DEF Init
  <2>2. \A r \in Relays : NoJob.target[r] = NoTarget /\ \A n \in AttemptNumbers : NoJob.attempt[r][n] = NoAttempt
    BY DEF NoJob, NoAttempts
  <2>3. \A max : SoundTarget(NoTarget, max) /\ NoTarget.status = "none"
    BY DEF SoundTarget, NoTarget
  <2>4. SoundAttempt(NoAttempt)
    BY DEF SoundAttempt, NoAttempt
  <2>5. \A r \in Relays : Sequenced(NoJob.target[r], NoJob.attempt[r])
    BY <2>2 DEF Sequenced, NoAttempt, NoTarget
  <2> QED
    BY <2>1, <2>2, <2>3, <2>4, <2>5 DEF SoundRow
<1>2. TypeOK /\ HistoriesValid /\ TableSound /\ [Next]_vars => TableSound'
  <2> SUFFICES ASSUME TypeOK, HistoriesValid, TableSound, Next PROVE TableSound'
    BY DEF TableSound, vars
  <2>0. \A j \in Jobs : jobs[j] \in JobRow /\ RowHistory(jobs[j]) /\ SoundRow(jobs[j])
    BY DEF TypeOK, HistoriesValid, RowHistory, TableSound
  <2>a. ASSUME NEW j \in Jobs, NEW row, SoundRow(row), jobs' = [jobs EXCEPT ![j] = row]
        PROVE  TableSound'
    BY <2>0, <2>a DEF TypeOK, TableSound
  <2>1. ASSUME NEW j \in Jobs, NEW t \in Times, NEW p \in Policies, CreateJob(j, p, t)
        PROVE  TableSound'
    BY <2>1, <2>a, CreateSound DEF CreateJob
  <2>2. ASSUME NEW j \in Jobs, NEW t \in Times, NEW r \in Relays, NEW nonce \in Nonces,
               ClaimTarget(j, r, nonce, t)
        PROVE  TableSound'
    BY <2>2, <2>0, <2>a, ClaimSound DEF ClaimTarget
  <2>3. ASSUME NEW j \in Jobs, NEW t \in Times, NEW r \in Relays,
               NEW n \in AttemptNumbers, MarkSubmitted(j, r, n, t)
        PROVE  TableSound'
    BY <2>3, <2>0, <2>a, SubmitSound DEF MarkSubmitted
  <2>4. ASSUME NEW j \in Jobs, NEW t \in Times, NEW r \in Relays,
               NEW n \in AttemptNumbers, NEW o \in Outcomes, NEW jitter \in Jitters,
               RecordOutcome(j, r, n, o, jitter, t)
        PROVE  TableSound'
    <3>1. SoundRow(record_outcome(jobs[j], r, n, o, jitter, t))
      BY <2>4, <2>0, RecordSound DEF RecordOutcome
    <3> QED
      BY <2>4, <2>a, <3>1 DEF RecordOutcome
  <2>5. ASSUME NEW j \in Jobs, NEW t \in Times, NEW r \in Relays,
               NEW n \in AttemptNumbers, NEW jitter \in Jitters,
               RecoverExpired(j, r, n, jitter, t)
        PROVE  TableSound'
    <3>1. SoundRow(recover_expired(jobs[j], r, n, jitter, t))
      BY <2>5, <2>0, RecoverSound DEF RecoverExpired
    <3> QED
      BY <2>5, <2>a, <3>1 DEF RecoverExpired
  <2> QED
    BY <2>1, <2>2, <2>3, <2>4, <2>5 DEF Next
<1> QED
  BY <1>1, <1>2, TypeCorrect, HistoriesCorrect, PTL DEF Spec

(***************************************************************************)
(* No transaction leaves a row that the readers of the tables refuse, and  *)
(* the attempts on one relay never overlap in time, whatever clock         *)
(* readings the callers inject (read_job_rows, parse_target,               *)
(* parse_attempt).                                                         *)
(***************************************************************************)
THEOREM RowsSoundCorrect == Spec => []RowsSound
<1> SUFFICES ASSUME TypeOK, HistoriesValid, TableSound PROVE RowsReadable /\ AttemptsOrdered
  BY TypeCorrect, HistoriesCorrect, TableSoundCorrect, PTL DEF RowsSound
<1>1. ASSUME NEW j \in Jobs PROVE read_job_rows(jobs[j])
  <2>1. jobs[j].policy \in Policies /\ jobs[j].policy \in Policy
    BY DeliveryAssumption DEF TypeOK, JobRow
  <2>2. jobs[j].policy.targets \subseteq Relays /\ ValidPolicy(jobs[j].policy)
    BY <2>1, DeliveryAssumption DEF Policy
  <2> QED
    BY <2>2 DEF read_job_rows, TableSound, SoundRow, SoundTarget
<1>2. ASSUME NEW j \in Jobs, NEW r \in Relays PROVE parse_target(jobs[j], r)
  <2>1. History(jobs[j], r) /\ SoundTarget(jobs[j].target[r], jobs[j].policy.max)
    BY DEF HistoriesValid, TableSound, SoundRow
  <2>2. jobs[j].target[r].status \in ActiveTargetStatus => jobs[j].target[r].count # 0
    BY <2>1 DEF History, ActiveTargetStatus
  <2> QED
    BY <2>1, <2>2 DEF parse_target, History, SoundTarget
<1>3. ASSUME NEW j \in Jobs, NEW r \in Relays, NEW n \in AttemptNumbers
      PROVE  SoundAttempt(jobs[j].attempt[r][n]) /\ Sequenced(jobs[j].target[r], jobs[j].attempt[r])
  BY DEF TableSound, SoundRow
<1>4. RowsReadable
  BY <1>1, <1>2, <1>3 DEF RowsReadable, SoundAttempt
<1>5. AttemptsOrdered
  BY <1>3 DEF AttemptsOrdered, SoundAttempt, Sequenced
<1> QED
  BY <1>4, <1>5

-----------------------------------------------------------------------------
(* The store implements the outbox.  What one transaction does to its row  *)
(* is silent, a confirmation or a giving up; the table only has to follow. *)

Silent(row, new) ==
    /\ AbstractState(new) = AbstractState(row)
    /\ new.policy = row.policy
    /\ Confirmed(new) = Confirmed(row)

Confirms(row, new, r) ==
    /\ AbstractState(row) # "absent"
    /\ r \in row.policy.targets \ Confirmed(row)
    /\ AbstractState(row) \in {"failed", "unknown"} => ~Satisfied(new)
    /\ AbstractState(new) = IF AbstractState(row) = "open" /\ Satisfied(new)
                            THEN "delivered" ELSE AbstractState(row)
    /\ new.policy = row.policy
    /\ Confirmed(new) = Confirmed(row) \cup {r}

GivesUp(row, new) ==
    /\ AbstractState(row) = "open"
    /\ AbstractState(new) \in {"failed", "unknown"}
    /\ new.policy = row.policy
    /\ Confirmed(new) = Confirmed(row)

\* The outbox counts sets as this module does.
LEMMA SameCardinality == \A S : Abstract!Cardinality(S) = Cardinality(S)
BY DEF Abstract!Cardinality, Cardinality

\* The store counts the acknowledgements of required relays as the outbox does.
LEMMA EnoughIsSatisfied ==
    ASSUME NEW row \in JobRow
    PROVE  Abstract!Enough(row.policy, Confirmed(row)) <=> Satisfied(row)
<1>1. row.policy.required \subseteq Relays
  <2>1. row.policy \in Policy
    BY DeliveryAssumption DEF JobRow
  <2> QED
    BY <2>1 DEF Policy
<1>2. Confirmed(row) \cap row.policy.required = DeliveredRequired(row)
  BY <1>1 DEF Confirmed, DeliveredRequired
<1> QED
  BY <1>2, SameCardinality DEF Abstract!Enough, Satisfied

\* A policy out of reach is not met.
LEMMA OutOfReachIsNotMet ==
    ASSUME NEW row \in JobRow, ~Possible(row)
    PROVE  ~Satisfied(row)
<1>1. DeliveredRequired(row) \subseteq PossibleRequired(row)
  BY DEF DeliveredRequired, PossibleRequired, LostForGood
<1>2. Cardinality(DeliveredRequired(row)) <= Cardinality(PossibleRequired(row))
  BY <1>1, CountsAreNumbers, FS_Subset
<1> QED
  BY <1>2, CountsAreNumbers DEF Satisfied, Possible

LEMMA ClaimSilent ==
    ASSUME NEW row \in JobRow, NEW r \in Relays, NEW nonce \in Nonces, NEW t \in Times,
           ClaimAnswer(row, r, nonce, t) = "Claimed"
    PROVE  Silent(row, claim_target(row, r, nonce, t))
<1> DEFINE number == row.target[r].count + 1
           target == [status |-> "leased", count |-> number, active |-> number,
                      next |-> 0, updated |-> t]
           attempt == [nonce |-> nonce, status |-> "leased", leased |-> t,
                       expires |-> t + row.policy.deadline, submitted |-> 0,
                       resolved |-> 0, reason |-> "none"]
           mid == Rewrite(row, r, number, target, attempt)
           new == claim_target(row, r, nonce, t)
<1>1. number \in AttemptNumbers /\ target \in TargetRow /\ attempt \in AttemptRow
  BY ClaimType
<1>2. target.status = "leased"
  OBVIOUS
<1>3. new.policy = mid.policy /\ new.target = mid.target /\ new.status = "active"
  <2>1. mid \in JobRow
    BY <1>1, RewriteFacts
  <2> HIDE DEF mid
  <2>2. new = [mid EXCEPT !.status = "active",
                          !.updated = IF row.status = "pending" THEN t ELSE @]
    BY DEF claim_target, mid
  <2> QED
    BY <2>1, <2>2 DEF JobRow
<1> HIDE DEF target, attempt
<1>4. /\ mid.policy = row.policy /\ mid.target[r] = target
      /\ \A s \in Relays : s # r => mid.target[s] = row.target[s]
  BY <1>1, RewriteFacts
<1> HIDE DEF mid, new
<1>5. Open(row) /\ row.target[r].status # "delivered"
  <2>1. ~Terminal(row) /\ row.status # "absent" /\ row.status \in JobStatus
    BY ClaimedFacts DEF JobRow
  <2>2. row.target[r].status \in {"pending", "retryable", "unknown"}
    BY ClaimedFacts
  <2> QED
    BY <2>1, <2>2 DEF Open, Terminal, JobStatus
<1>6. Confirmed(new) = Confirmed(row)
  BY <1>2, <1>3, <1>4, <1>5 DEF Confirmed
<1>7. Silent(row, new)
  BY <1>3, <1>4, <1>5, <1>6 DEF Silent, AbstractState, Open, OpenStatus
<1> QED
  BY <1>7 DEF new

LEMMA SubmitSilent ==
    ASSUME NEW row \in JobRow, NEW r \in Relays, NEW n \in AttemptNumbers, NEW t \in Times,
           SubmitAnswer(row, r, n, t) = "Submitted"
    PROVE  Silent(row, mark_submitted(row, r, n, t))
<1> DEFINE target == [row.target[r] EXCEPT !.status = "submitted", !.updated = t]
           attempt == [row.attempt[r][n] EXCEPT !.status = "submitted", !.submitted = t]
           new == mark_submitted(row, r, n, t)
<1>1. target \in TargetRow /\ attempt \in AttemptRow
  BY SubmitType
<1>2. target.status = "submitted" /\ row.target[r].status = "leased"
  BY RowParts DEF TargetRow, SubmitAnswer
<1> HIDE DEF target, attempt
<1>3. /\ new.policy = row.policy /\ new.status = row.status /\ new.target[r] = target
      /\ \A s \in Relays : s # r => new.target[s] = row.target[s]
  BY <1>1, RewriteFacts DEF mark_submitted, target, attempt
<1> HIDE DEF new
<1>4. Confirmed(new) = Confirmed(row)
  BY <1>2, <1>3 DEF Confirmed
<1>5. Silent(row, new)
  BY <1>3, <1>4 DEF Silent, AbstractState, Open
<1> QED
  BY <1>5 DEF new

\* What an ending does to the relays that count for a policy.
LEMMA ResolveConfirms ==
    ASSUME NEW row \in JobRow, NEW r \in Relays, NEW n \in AttemptNumbers, NEW t \in Times,
           NEW ending \in TerminalStatus, NEW reason \in Reasons, NEW jitter \in Jitters,
           ResolveAccepted(row, r, n, ending, jitter, t),
           row.attempt[r][n].status \in ActiveAttemptStatus
    PROVE  LET mid == resolve_attempt_and_target(row, r, n, ending, reason, jitter, t) IN
           /\ mid \in JobRow /\ mid.policy = row.policy /\ mid.status = row.status
           /\ r \notin Confirmed(row)
           /\ row.target[r].status # "none"
           /\ ending = "delivered" => /\ Confirmed(mid) = Confirmed(row) \cup {r}
                                      /\ PossibleRequired(mid) = PossibleRequired(row)
           /\ ending # "delivered" => /\ Confirmed(mid) = Confirmed(row)
                                      /\ DeliveredRequired(mid) = DeliveredRequired(row)
           /\ PossibleRequired(mid) \subseteq PossibleRequired(row)
<1> DEFINE target == [row.target[r] EXCEPT
                         !.status = ResolvedTargetStatus(row, r, ending), !.active = 0,
                         !.next = IF SchedulesRetry(row, r, ending) THEN t + jitter ELSE 0,
                         !.updated = t]
           attempt == [row.attempt[r][n] EXCEPT
                         !.status = ending, !.resolved = t, !.reason = reason]
           mid == resolve_attempt_and_target(row, r, n, ending, reason, jitter, t)
<1>1. target \in TargetRow /\ attempt \in AttemptRow
  BY ResolveType
<1>2. target.status = ResolvedTargetStatus(row, r, ending)
  BY RowParts DEF TargetRow
<1>3. row.target[r].status \in {"leased", "submitted"}
  BY DEF ResolveAccepted, ActiveAttemptStatus
<1> HIDE DEF target, attempt
<1>4. /\ mid.policy = row.policy /\ mid.status = row.status /\ mid \in JobRow
      /\ mid.target[r] = target
      /\ \A s \in Relays : s # r => mid.target[s] = row.target[s]
  BY <1>1, RewriteFacts DEF resolve_attempt_and_target, target, attempt
<1>5. PossibleRequired(mid) \subseteq PossibleRequired(row)
  BY ResolveMonotone
<1> HIDE DEF mid
<1>6. (target.status = "delivered") <=> (ending = "delivered")
  BY <1>2 DEF ResolvedTargetStatus, TerminalStatus
<1>7. row.policy.required \subseteq Relays
  <2>1. row.policy \in Policy
    BY DeliveryAssumption DEF JobRow
  <2> QED
    BY <2>1 DEF Policy
<1>8. ASSUME ending = "delivered" PROVE Confirmed(mid) = Confirmed(row) \cup {r}
  BY <1>4, <1>6, <1>8 DEF Confirmed
<1>9. ASSUME ending # "delivered" PROVE Confirmed(mid) = Confirmed(row)
  BY <1>3, <1>4, <1>6, <1>9 DEF Confirmed
<1>10. ASSUME ending # "delivered" PROVE DeliveredRequired(mid) = DeliveredRequired(row)
  BY <1>3, <1>4, <1>6, <1>7, <1>10 DEF DeliveredRequired
<1>11. ASSUME ending = "delivered" PROVE PossibleRequired(mid) = PossibleRequired(row)
  <2>1. ~LostForGood(mid, r) /\ mid.target[r].status # "exhausted"
    BY <1>4, <1>6, <1>11 DEF LostForGood
  <2>2. \A s \in Relays : s # r => (LostForGood(mid, s) <=> LostForGood(row, s))
    BY <1>4 DEF LostForGood
  <2> QED
    BY <1>3, <1>4, <1>5, <1>7, <2>1, <2>2 DEF PossibleRequired
<1>12. r \notin Confirmed(row)
  BY <1>3 DEF Confirmed
<1> QED
  BY <1>3, <1>4, <1>5, <1>8, <1>9, <1>10, <1>11, <1>12 DEF mid

LEMMA ResolveRefines ==
    ASSUME NEW row \in JobRow, NEW r \in Relays, NEW n \in AttemptNumbers, NEW t \in Times,
           NEW ending \in TerminalStatus, NEW reason \in Reasons, NEW jitter \in Jitters,
           ResolveAccepted(row, r, n, ending, jitter, t),
           row.attempt[r][n].status \in ActiveAttemptStatus,
           RowVerdict(row), SoundRow(row)
    PROVE  LET new == finalize_job_if_terminal(
                          resolve_attempt_and_target(row, r, n, ending, reason, jitter, t), t)
           IN  Silent(row, new) \/ Confirms(row, new, r) \/ GivesUp(row, new)
<1> DEFINE mid == resolve_attempt_and_target(row, r, n, ending, reason, jitter, t)
           new == finalize_job_if_terminal(mid, t)
<1>1. /\ mid \in JobRow /\ mid.policy = row.policy /\ mid.status = row.status
      /\ r \notin Confirmed(row)
      /\ row.target[r].status # "none"
      /\ ending = "delivered" => /\ Confirmed(mid) = Confirmed(row) \cup {r}
                                 /\ PossibleRequired(mid) = PossibleRequired(row)
      /\ ending # "delivered" => /\ Confirmed(mid) = Confirmed(row)
                                 /\ DeliveredRequired(mid) = DeliveredRequired(row)
      /\ PossibleRequired(mid) \subseteq PossibleRequired(row)
  BY ResolveConfirms
<1>2. r \in row.policy.targets /\ row.status # "absent"
  BY <1>1 DEF SoundRow
<1> HIDE DEF mid
<1>3. /\ new.policy = mid.policy /\ new.target = mid.target
      /\ new.status = IF Open(mid) /\ Decided(mid) THEN Verdict(mid) ELSE mid.status
  BY <1>1 DEF finalize_job_if_terminal, JobRow
<1> HIDE DEF new
<1>4. Confirmed(new) = Confirmed(mid) /\ (Satisfied(new) <=> Satisfied(mid))
  BY <1>3 DEF Confirmed, Satisfied, DeliveredRequired
<1>5. row.status \in JobStatus
  BY RowParts
<1>6. CASE ending = "delivered"
  <2>1. Possible(mid) <=> Possible(row)
    BY <1>1, <1>6 DEF Possible
  <2>2. row.status \in {"failed", "unknown"} => ~Satisfied(mid)
    BY <1>1, <2>1, OutOfReachIsNotMet DEF RowVerdict
  <2>3. Open(row) => Possible(mid)
    BY <2>1 DEF RowVerdict
  <2>4. new.status = IF Open(row) /\ Satisfied(mid) THEN "delivered" ELSE row.status
    BY <1>1, <1>3, <2>3 DEF Open, Decided, Verdict
  <2>5. Confirms(row, new, r)
    BY <1>1, <1>2, <1>3, <1>4, <1>5, <1>6, <2>2, <2>4
       DEF Confirms, AbstractState, Open, OpenStatus, JobStatus, TerminalStatus
  <2> QED
    BY <2>5 DEF new, mid
<1>7. CASE ending # "delivered"
  <2>1. Satisfied(mid) <=> Satisfied(row)
    BY <1>1, <1>7 DEF Satisfied
  <2>2. CASE Open(row) /\ Decided(mid)
    <3>1. ~Satisfied(mid)
      BY <2>1, <2>2 DEF RowVerdict
    <3>2. new.status \in {"failed", "unknown"}
      BY <1>1, <1>3, <2>2, <3>1 DEF Open, Verdict
    <3>3. GivesUp(row, new)
      BY <1>1, <1>3, <1>4, <1>7, <2>2, <3>2 DEF GivesUp, AbstractState, Open, OpenStatus
    <3> QED
      BY <3>3 DEF new, mid
  <2>3. CASE ~(Open(row) /\ Decided(mid))
    <3>1. new.status = row.status
      BY <1>1, <1>3, <2>3 DEF Open
    <3>2. Silent(row, new)
      BY <1>1, <1>3, <1>4, <1>7, <3>1 DEF Silent, AbstractState, Open
    <3> QED
      BY <3>2 DEF new, mid
  <2> QED
    BY <2>2, <2>3
<1> QED
  BY <1>6, <1>7

-----------------------------------------------------------------------------
(* The table.                                                              *)

\* The abstract variables after a step on one row.
LEMMA AbstractStep ==
    ASSUME TypeOK, NEW j \in Jobs, NEW new, jobs' = [jobs EXCEPT ![j] = new]
    PROVE  /\ [k \in Jobs |-> AbstractState(jobs[k])]' =
                 [[k \in Jobs |-> AbstractState(jobs[k])] EXCEPT ![j] = AbstractState(new)]
           /\ [k \in Jobs |-> jobs[k].policy]' =
                 [[k \in Jobs |-> jobs[k].policy] EXCEPT ![j] = new.policy]
           /\ [k \in Jobs |-> Confirmed(jobs[k])]' =
                 [[k \in Jobs |-> Confirmed(jobs[k])] EXCEPT ![j] = Confirmed(new)]
<1>1. \A k \in Jobs : jobs'[k] = IF k = j THEN new ELSE jobs[k]
  BY DEF TypeOK
<1>2. /\ \A k \in Jobs : AbstractState(jobs'[k]) =
                              IF k = j THEN AbstractState(new) ELSE AbstractState(jobs[k])
      /\ \A k \in Jobs : jobs'[k].policy = IF k = j THEN new.policy ELSE jobs[k].policy
      /\ \A k \in Jobs : Confirmed(jobs'[k]) =
                              IF k = j THEN Confirmed(new) ELSE Confirmed(jobs[k])
  BY <1>1
<1>3. [k \in Jobs |-> AbstractState(jobs[k])]' =
         [[k \in Jobs |-> AbstractState(jobs[k])] EXCEPT ![j] = AbstractState(new)]
  BY <1>2
<1>4. [k \in Jobs |-> jobs[k].policy]' =
         [[k \in Jobs |-> jobs[k].policy] EXCEPT ![j] = new.policy]
  BY <1>2
<1>5. [k \in Jobs |-> Confirmed(jobs[k])]' =
         [[k \in Jobs |-> Confirmed(jobs[k])] EXCEPT ![j] = Confirmed(new)]
  BY <1>2
<1> QED
  BY <1>3, <1>4, <1>5

LEMMA RowStepRefines ==
    ASSUME TypeOK, NEW j \in Jobs, NEW r \in Relays, NEW new \in JobRow,
           jobs' = [jobs EXCEPT ![j] = new],
           Silent(jobs[j], new) \/ Confirms(jobs[j], new, r) \/ GivesUp(jobs[j], new)
    PROVE  Abstract!ONext \/ UNCHANGED Abstract!ovars
<1> DEFINE state == [k \in Jobs |-> AbstractState(jobs[k])]
           policy == [k \in Jobs |-> jobs[k].policy]
           confirmed == [k \in Jobs |-> Confirmed(jobs[k])]
<1>0. state[j] = AbstractState(jobs[j]) /\ policy[j] = jobs[j].policy
      /\ confirmed[j] = Confirmed(jobs[j])
  OBVIOUS
<1>1. /\ state' = [state EXCEPT ![j] = AbstractState(new)]
      /\ policy' = [policy EXCEPT ![j] = new.policy]
      /\ confirmed' = [confirmed EXCEPT ![j] = Confirmed(new)]
  BY AbstractStep
<1>2. CASE Silent(jobs[j], new)
  <2>1. state' = state /\ policy' = policy /\ confirmed' = confirmed
    BY <1>0, <1>1, <1>2 DEF Silent
  <2> QED
    BY <2>1 DEF Abstract!ovars
<1>3. CASE Confirms(jobs[j], new, r)
  <2>1. Abstract!Enough(new.policy, Confirmed(new)) <=> Satisfied(new)
    BY EnoughIsSatisfied
  <2>2. Abstract!Confirm(j, r)
    BY <1>0, <1>1, <1>3, <2>1 DEF Abstract!Confirm, Abstract!GivenUp, Confirms
  <2> QED
    BY <2>2 DEF Abstract!ONext
<1>4. CASE GivesUp(jobs[j], new)
  <2> DEFINE verdict == [k \in {j} |-> AbstractState(new)]
  <2>1. verdict \in [{j} -> Abstract!GivenUp] /\ {j} \in SUBSET Jobs
    BY <1>4 DEF GivesUp, Abstract!GivenUp
  <2>2. Abstract!GiveUp({j}, verdict)
    BY <1>0, <1>1, <1>4 DEF Abstract!GiveUp, Abstract!GivenUp, GivesUp
  <2> QED
    BY <2>1, <2>2 DEF Abstract!ONext
<1> QED
  BY <1>2, <1>3, <1>4

\* An empty store is an empty outbox.
LEMMA InitRefines == Init => Abstract!OInit
<1> SUFFICES ASSUME Init PROVE Abstract!OInit
  OBVIOUS
<1>1. \A j \in Jobs : jobs[j] = NoJob
  BY DEF Init
<1>2. NoJob.policy \in Policies
  BY DeliveryAssumption DEF NoJob
<1>3. AbstractState(NoJob) = "absent"
  BY DEF AbstractState, NoJob, Open, OpenStatus
<1>4. Confirmed(NoJob) = {}
  BY DEF Confirmed, NoJob, NoTarget
<1> QED
  BY <1>1, <1>2, <1>3, <1>4 DEF Abstract!OInit

\* What each transaction of the store is to the outbox.
LEMMA StoreStepRefines ==
    TypeOK /\ TypeOK' /\ StatusIsVerdict /\ TableSound /\ [Next]_vars
        => [Abstract!ONext]_(Abstract!ovars)
<1> SUFFICES ASSUME TypeOK, TypeOK', StatusIsVerdict, TableSound, [Next]_vars
             PROVE  Abstract!ONext \/ UNCHANGED Abstract!ovars
  OBVIOUS
<1>0. \A j \in Jobs : jobs[j] \in JobRow /\ jobs'[j] \in JobRow /\ RowVerdict(jobs[j]) /\ SoundRow(jobs[j])
  BY DEF TypeOK, StatusIsVerdict, RowVerdict, TableSound
<1>a. ASSUME NEW j \in Jobs, NEW new, jobs' = [jobs EXCEPT ![j] = new] PROVE new \in JobRow
  BY <1>a, <1>0 DEF TypeOK
<1>1. ASSUME NEW j \in Jobs, NEW t \in Times, NEW p \in Policies, CreateJob(j, p, t)
      PROVE  Abstract!ONext
  <2> DEFINE state == [k \in Jobs |-> AbstractState(jobs[k])]
             policy == [k \in Jobs |-> jobs[k].policy]
             confirmed == [k \in Jobs |-> Confirmed(jobs[k])]
             new == create_job(p, t)
  <2>1. jobs[j].status = "absent" /\ ~(Cardinality(ActiveJobs) >= OutboxMaximum)
        /\ jobs' = [jobs EXCEPT ![j] = new]
    BY <1>1 DEF CreateJob, CreateAnswer
  <2>2. new.policy = p /\ new.status = "pending"
        /\ \A r \in Relays : new.target[r].status # "delivered"
    BY DEF create_job, NoTarget
  <2> HIDE DEF new
  <2>3. AbstractState(jobs[j]) = "absent" /\ AbstractState(new) = "open"
    BY <2>1, <2>2 DEF AbstractState, Open, OpenStatus
  <2>4. Confirmed(new) = {} /\ Confirmed(jobs[j]) = {}
    BY <1>0, <2>1, <2>2 DEF Confirmed, SoundRow
  <2>5. Abstract!OpenJobs = ActiveJobs
    <3>1. \A k \in Jobs : state[k] = "open" <=> Open(jobs[k])
      BY <1>0, RowParts DEF AbstractState, Open, OpenStatus, JobStatus, TerminalStatus, JobRow
    <3> QED
      BY <3>1 DEF Abstract!OpenJobs, ActiveJobs
  <2>6. Cardinality(ActiveJobs) \in Nat
    BY DeliveryAssumption, FS_Subset, FS_CardinalityType DEF ActiveJobs
  <2>7. Abstract!Cardinality(Abstract!OpenJobs) < OutboxMaximum
    BY <2>1, <2>5, <2>6, DeliveryAssumption, SameCardinality
  <2>8. /\ state' = [state EXCEPT ![j] = AbstractState(new)]
        /\ policy' = [policy EXCEPT ![j] = new.policy]
        /\ confirmed' = [confirmed EXCEPT ![j] = Confirmed(new)]
    BY <2>1, AbstractStep
  <2>9. state[j] = "absent" /\ confirmed' = confirmed
    BY <2>3, <2>4, <2>8
  <2>10. Abstract!Admit(j, p)
    BY <2>2, <2>3, <2>7, <2>8, <2>9 DEF Abstract!Admit
  <2> QED
    BY <2>10 DEF Abstract!ONext
<1>2. ASSUME NEW j \in Jobs, NEW t \in Times, NEW r \in Relays, NEW nonce \in Nonces,
             ClaimTarget(j, r, nonce, t)
      PROVE  Abstract!ONext \/ UNCHANGED Abstract!ovars
  BY <1>2, <1>0, <1>a, ClaimSilent, RowStepRefines DEF ClaimTarget
<1>3. ASSUME NEW j \in Jobs, NEW t \in Times, NEW r \in Relays,
             NEW n \in AttemptNumbers, MarkSubmitted(j, r, n, t)
      PROVE  Abstract!ONext \/ UNCHANGED Abstract!ovars
  BY <1>3, <1>0, <1>a, SubmitSilent, RowStepRefines DEF MarkSubmitted
<1>4. ASSUME NEW j \in Jobs, NEW t \in Times, NEW r \in Relays,
             NEW n \in AttemptNumbers, NEW o \in Outcomes, NEW jitter \in Jitters,
             RecordOutcome(j, r, n, o, jitter, t)
      PROVE  Abstract!ONext \/ UNCHANGED Abstract!ovars
  <2> DEFINE new == record_outcome(jobs[j], r, n, o, jitter, t)
  <2>1. /\ OutcomeStatus(o) \in TerminalStatus
        /\ OutcomeReason(o) \in Reasons
        /\ jobs[j].attempt[r][n].status \in ActiveAttemptStatus
        /\ ResolveAccepted(jobs[j], r, n, OutcomeStatus(o), jitter, t)
    BY <1>0, <1>4, RecordedFacts DEF RecordOutcome
  <2>2. Silent(jobs[j], new) \/ Confirms(jobs[j], new, r) \/ GivesUp(jobs[j], new)
    BY <1>0, <2>1, ResolveRefines DEF record_outcome, recorded
  <2>3. jobs' = [jobs EXCEPT ![j] = new] /\ new \in JobRow
    BY <1>4, <1>a DEF RecordOutcome
  <2> HIDE DEF new
  <2> QED
    BY <2>2, <2>3, RowStepRefines
<1>5. ASSUME NEW j \in Jobs, NEW t \in Times, NEW r \in Relays,
             NEW n \in AttemptNumbers, NEW jitter \in Jitters,
             RecoverExpired(j, r, n, jitter, t)
      PROVE  Abstract!ONext \/ UNCHANGED Abstract!ovars
  <2> DEFINE new == recover_expired(jobs[j], r, n, jitter, t)
             a == jobs[j].attempt[r][n]
  <2>1. /\ ExpiredStatus(a) \in TerminalStatus
        /\ ExpiredReason(a) \in Reasons
        /\ a.status \in ActiveAttemptStatus
        /\ ResolveAccepted(jobs[j], r, n, ExpiredStatus(a), jitter, t)
    BY <1>0, <1>5, RecoveredFacts DEF RecoverExpired
  <2>2. Silent(jobs[j], new) \/ Confirms(jobs[j], new, r) \/ GivesUp(jobs[j], new)
    BY <1>0, <2>1, ResolveRefines DEF recover_expired, expired
  <2>3. jobs' = [jobs EXCEPT ![j] = new] /\ new \in JobRow
    BY <1>5, <1>a DEF RecoverExpired
  <2> HIDE DEF new
  <2> QED
    BY <2>2, <2>3, RowStepRefines
<1>6. CASE UNCHANGED vars
  BY <1>6 DEF vars, Abstract!ovars
<1> QED
  BY <1>1, <1>2, <1>3, <1>4, <1>5, <1>6 DEF Next

(***************************************************************************)
(* The store implements the outbox it promises (state_delivery.rs behind   *)
(* Outbox): every transaction is an admission below the ceiling, the       *)
(* confirmation of one relay, with the job delivered in that very step     *)
(* when its policy is met, the giving up of an open job, or invisible; a   *)
(* late confirmation never makes a job that was given up meet its policy.  *)
(***************************************************************************)
THEOREM ImplementsOutboxCorrect == Spec => ImplementsOutbox
BY InitRefines, StoreStepRefines, TypeCorrect, VerdictCorrect, TableSoundCorrect, PTL
   DEF Spec, ImplementsOutbox, Abstract!OSpec

-----------------------------------------------------------------------------
(* The daemon.  Recovery takes the targets of a job one after the other,   *)
(* which is a recursion over their indexes.  What it computes is shown     *)
(* by the least-number principle.                                          *)

\* A set of numbers that is not empty has a least one.
LEMMA LeastNumber ==
    ASSUME NEW S, S \subseteq Nat, S # {}
    PROVE  \E m \in S : \A k \in S : ~(k < m)
<1> DEFINE R == {ss \in Nat \X Nat : ss[1] < ss[2]}
<1>1. IsWellFoundedOn(OpToRel(<, Nat), Nat)
  BY ONLY NatLessThanWellFounded, Zenon
<1>2. OpToRel(<, Nat) = R
  BY Zenon DEF OpToRel
<1>3. IsWellFoundedOn(R, Nat)
  BY <1>1, <1>2, Zenon
<1> HIDE DEF R
<1>4. \E m \in S : \A k \in S : ~(<<k, m>> \in R)
  BY <1>3, WFMin
<1> QED
  BY <1>4 DEF R

\* A set with 0 that is closed under the successor below a limit reaches it.
LEMMA Ascent ==
    ASSUME NEW S, NEW last \in Nat, 0 \in S,
           \A i \in 1..last : i - 1 \in S => i \in S
    PROVE  last \in S
<1> DEFINE M == {i \in 0..last : i \notin S}
<1> SUFFICES M = {}
  OBVIOUS
<1> SUFFICES ASSUME M # {} PROVE FALSE
  OBVIOUS
<1>0. M \subseteq Nat
  OBVIOUS
<1>1. PICK m \in M : \A k \in M : ~(k < m)
  <2> HIDE DEF M
  <2> QED
    BY <1>0, LeastNumber
<1>2. m \in 1..last /\ m - 1 \in 0..last /\ m - 1 < m
  BY <1>1
<1> QED
  BY <1>1, <1>2

\* A finite set of naturals has a largest element.
LEMMA MaxExists ==
    ASSUME NEW S, IsFiniteSet(S), S \subseteq Nat, S # {}
    PROVE  Max(S) \in S /\ \A x \in S : x <= Max(S)
<1> DEFINE Bounded(A) == \E m \in Nat : \A x \in A : x <= m
           U == {A \in FiniteSubsetsOf(Nat) : ~Bounded(A)}
<1>1. U = {}
  <2> SUFFICES ASSUME U # {} PROVE FALSE
    OBVIOUS
  <2>0. IsWellFoundedOn(StrictSubsetOrdering(Nat), FiniteSubsetsOf(Nat))
    BY FS_StrictSubsetOrderingWellFounded
  <2>1. PICK A \in U : \A B \in U : ~(<<B, A>> \in StrictSubsetOrdering(Nat))
    <3>1. U \subseteq FiniteSubsetsOf(Nat)
      OBVIOUS
    <3> HIDE DEF U
    <3> QED
      BY <3>1, <2>0, WFMin
  <2>2. A \subseteq Nat /\ IsFiniteSet(A) /\ ~Bounded(A)
    BY DEF FiniteSubsetsOf
  <2>3. PICK x : x \in A
    BY <2>2
  <2>4. IsFiniteSet(A \ {x}) /\ A \ {x} \subseteq Nat
    BY <2>2, FS_RemoveElement
  <2>5. Bounded(A \ {x})
    <3>1. <<A \ {x}, A>> \in StrictSubsetOrdering(Nat)
      BY <2>2, <2>3 DEF StrictSubsetOrdering
    <3> QED
      BY <3>1, <2>1, <2>4 DEF FiniteSubsetsOf
  <2>6. PICK m \in Nat : \A y \in A \ {x} : y <= m
    BY <2>5
  <2>7. \A y \in A : y <= (IF m < x THEN x ELSE m)
    BY <2>2, <2>3, <2>6
  <2> QED
    BY <2>2, <2>3, <2>6, <2>7
<1>2. PICK b \in Nat : \A x \in S : x <= b
  BY <1>1 DEF FiniteSubsetsOf
<1> DEFINE T == {m \in Nat : \A x \in S : x <= m}
<1>3. PICK m \in T : \A k \in T : ~(k < m)
  BY <1>2, LeastNumber
<1>4. m \in S
  <2> SUFFICES ASSUME m \notin S PROVE FALSE
    OBVIOUS
  <2>1. PICK x : x \in S
    OBVIOUS
  <2>2. m - 1 \in T
    BY <2>1, <1>3
  <2> QED
    BY <2>2, <1>3
<1>5. \E y \in S : \A x \in S : y >= x
  BY <1>3, <1>4
<1> QED
  BY <1>5 DEF Max

\* What the recursion of RecoverTargets satisfies.
Recursion(f, row, jitter, t, last) ==
    f = [i \in 0..last |->
            IF i = 0 THEN [row |-> row, ok |-> validate_attempt_histories(row)]
            ELSE IF i \in Relays THEN RecoverTarget(row, jitter, t, i, f[i - 1])
            ELSE f[i - 1]]

\* The recursion has a solution, and the one chosen satisfies it.
LEMMA RecursionDefined ==
    ASSUME NEW row, NEW jitter, NEW t, NEW last \in Nat
    PROVE  \E f : Recursion(f, row, jitter, t, last)
<1> DEFINE S == {m \in Nat : \E f : Recursion(f, row, jitter, t, m)}
           start == [row |-> row, ok |-> validate_attempt_histories(row)]
           Step(i, x) == IF i \in Relays THEN RecoverTarget(row, jitter, t, i, x) ELSE x
<1>1. 0 \in S
  <2>1. Recursion([i \in 0..0 |-> start], row, jitter, t, 0)
    BY DEF Recursion
  <2> QED
    BY <2>1
<1>2. ASSUME NEW m \in 1..last, m - 1 \in S PROVE m \in S
  <2>1. PICK g : Recursion(g, row, jitter, t, m - 1)
    BY <1>2
  <2>2. \A i \in 0..(m - 1) : g[i] = IF i = 0 THEN start ELSE Step(i, g[i - 1])
    BY <2>1 DEF Recursion
  <2> HIDE DEF start, Step
  <2> DEFINE h == [i \in 0..m |-> IF i < m THEN g[i] ELSE Step(m, g[m - 1])]
  <2>3. \A i \in 0..m : h[i] = IF i = 0 THEN start ELSE Step(i, h[i - 1])
    <3> SUFFICES ASSUME NEW i \in 0..m
                 PROVE  h[i] = IF i = 0 THEN start ELSE Step(i, h[i - 1])
      OBVIOUS
    <3>1. CASE i < m
      <4>1. h[i] = g[i] /\ i \in 0..(m - 1)
        BY <3>1
      <4>2. i # 0 => i - 1 \in 0..m /\ i - 1 < m /\ h[i - 1] = g[i - 1]
        BY <3>1
      <4> QED
        BY <4>1, <4>2, <2>2
    <3>2. CASE i = m
      <4>1. h[m] = Step(m, g[m - 1]) /\ h[m - 1] = g[m - 1] /\ m # 0
        OBVIOUS
      <4> QED
        BY <3>2, <4>1
    <3> QED
      BY <3>1, <3>2
  <2>4. h = [i \in 0..m |-> h[i]]
    OBVIOUS
  <2>5. h = [i \in 0..m |-> IF i = 0 THEN start ELSE Step(i, h[i - 1])]
    <3> HIDE DEF h
    <3> QED
      BY <2>3, <2>4
  <2>6. Recursion(h, row, jitter, t, m)
    <3> HIDE DEF h
    <3> QED
      BY <2>5 DEF Recursion, start, Step
  <2> QED
    BY <2>6
<1>3. last \in S
  <2> HIDE DEF S
  <2> QED
    BY <1>1, <1>2, Ascent
<1> QED
  BY <1>3

\* Recovery of a job is a chain of recoveries of its targets.
LEMMA RecoverTargetsUnfold ==
    ASSUME NEW row, NEW jitter, NEW t
    PROVE  \E last \in Nat : \E f :
              /\ \A r \in Relays : r \in 1..last
              /\ f[0] = [row |-> row, ok |-> validate_attempt_histories(row)]
              /\ \A i \in 1..last :
                    f[i] = IF i \in Relays THEN RecoverTarget(row, jitter, t, i, f[i - 1])
                           ELSE f[i - 1]
              /\ RecoverTargets(row, jitter, t) = f[last]
<1> DEFINE last == Max(Relays \cup {0})
           f == CHOOSE g : g = [i \in 0..last |->
                    IF i = 0 THEN [row |-> row, ok |-> validate_attempt_histories(row)]
                    ELSE IF i \in Relays THEN RecoverTarget(row, jitter, t, i, g[i - 1])
                    ELSE g[i - 1]]
<1>1. last \in Nat /\ \A r \in Relays : r \in 1..last
  <2>1. IsFiniteSet(Relays \cup {0}) /\ Relays \cup {0} \subseteq Nat /\ Relays \cup {0} # {}
    BY DeliveryAssumption, DaemonAssumption, FS_AddElement
  <2>2. last \in Relays \cup {0} /\ \A x \in Relays \cup {0} : x <= last
    BY <2>1, MaxExists
  <2>3. Relays \subseteq Nat \ {0}
    BY DaemonAssumption
  <2> HIDE DEF last
  <2> QED
    BY <2>1, <2>2, <2>3
<1>2. RecoverTargets(row, jitter, t) = f[last]
  BY DEF RecoverTargets
<1>3. Recursion(f, row, jitter, t, last)
  <2> HIDE DEF last
  <2>1. \E g : Recursion(g, row, jitter, t, last)
    BY <1>1, RecursionDefined
  <2> QED
    BY <2>1 DEF Recursion
<1> HIDE DEF last, f
<1>4. f[0] = [row |-> row, ok |-> validate_attempt_histories(row)]
  BY <1>1, <1>3 DEF Recursion
<1>5. \A i \in 1..last :
        f[i] = IF i \in Relays THEN RecoverTarget(row, jitter, t, i, f[i - 1]) ELSE f[i - 1]
  BY <1>1, <1>3 DEF Recursion
<1> QED
  BY <1>1, <1>2, <1>4, <1>5

\* A row with all that was shown of the store.
GoodRow(row) ==
    row \in JobRow /\ RowVerdict(row) /\ RowHistory(row) /\ SoundRow(row)

\* What an operation dated t does to a row as far as the daemon is concerned:
\* submissions are not forgotten, only the targets in C become confirmed, only
\* the attempts in L begin to run.
Advances(row, new, t, C, L) ==
    /\ \A r \in Relays, n \in AttemptNumbers :
          /\ row.attempt[r][n].submitted # 0 => new.attempt[r][n].submitted # 0
          /\ new.attempt[r][n].status \in ActiveAttemptStatus =>
                row.attempt[r][n].status \in ActiveAttemptStatus \/ <<r, n>> \in L
    /\ \A r \in Relays :
          new.target[r].status = "delivered" => row.target[r].status = "delivered" \/ r \in C
    /\ new.updated = row.updated \/ new.updated = t

\* Two operations dated alike advance a row as one does.
LEMMA AdvancesTwice ==
    ASSUME NEW row, NEW mid, NEW new, NEW t,
           Advances(row, mid, t, {}, {}), Advances(mid, new, t, {}, {})
    PROVE  Advances(row, new, t, {}, {})
BY DEF Advances

\* What recovery does to a row as far as the outbox is concerned: nothing, or it
\* gives the job up.
Settles(row, new) == Silent(row, new) \/ GivesUp(row, new)

\* A job is given up once.
LEMMA SettlesTwice ==
    ASSUME NEW row, NEW mid, NEW new, Settles(row, mid), Settles(mid, new)
    PROVE  Settles(row, new)
BY DEF Settles, Silent, GivesUp

\* Finalizing a job changes none of its attempts and targets.
LEMMA AdvancesFinalize ==
    ASSUME NEW row, NEW mid \in JobRow, NEW t, NEW C, NEW L, Advances(row, mid, t, C, L)
    PROVE  Advances(row, finalize_job_if_terminal(mid, t), t, C, L)
<1> DEFINE new == finalize_job_if_terminal(mid, t)
<1>1. /\ new.target = mid.target /\ new.attempt = mid.attempt
      /\ (new.updated = mid.updated \/ new.updated = t)
  BY DEF finalize_job_if_terminal, JobRow
<1> HIDE DEF new
<1>2. Advances(row, new, t, C, L)
  BY <1>1 DEF Advances
<1> QED
  BY <1>2 DEF new

\* A rewritten target advances its row if the target and the attempt do.
LEMMA RewriteAdvances ==
    ASSUME NEW row \in JobRow, NEW r \in Relays, NEW n \in AttemptNumbers,
           NEW target \in TargetRow, NEW attempt \in AttemptRow, NEW t, NEW C, NEW L,
           row.attempt[r][n].submitted # 0 => attempt.submitted # 0,
           attempt.status \in ActiveAttemptStatus =>
              row.attempt[r][n].status \in ActiveAttemptStatus \/ <<r, n>> \in L,
           target.status = "delivered" => r \in C
    PROVE  Advances(row, Rewrite(row, r, n, target, attempt), t, C, L)
<1> DEFINE new == Rewrite(row, r, n, target, attempt)
<1>1. /\ new.updated = row.updated
      /\ new.target[r] = target
      /\ new.attempt[r][n] = attempt
      /\ \A s \in Relays : s # r => /\ new.target[s] = row.target[s]
                                    /\ new.attempt[s] = row.attempt[s]
      /\ \A m \in AttemptNumbers : m # n => new.attempt[r][m] = row.attempt[r][m]
  BY RewriteFacts
<1> HIDE DEF new
<1>2. ASSUME NEW s \in Relays, NEW m \in AttemptNumbers
      PROVE  /\ row.attempt[s][m].submitted # 0 => new.attempt[s][m].submitted # 0
             /\ new.attempt[s][m].status \in ActiveAttemptStatus =>
                  row.attempt[s][m].status \in ActiveAttemptStatus \/ <<s, m>> \in L
  <2>1. CASE s # r
    BY <1>1, <2>1
  <2>2. CASE s = r /\ m # n
    BY <1>1, <2>2
  <2>3. CASE s = r /\ m = n
    BY <1>1, <2>3
  <2> QED
    BY <2>1, <2>2, <2>3
<1>3. ASSUME NEW s \in Relays
      PROVE  new.target[s].status = "delivered" => row.target[s].status = "delivered" \/ s \in C
  BY <1>1
<1>4. Advances(row, new, t, C, L)
  BY <1>1, <1>2, <1>3 DEF Advances
<1> QED
  BY <1>4 DEF new

\* Resolving an attempt confirms at most its own target.
LEMMA ResolveAdvances ==
    ASSUME NEW row \in JobRow, NEW r \in Relays, NEW n \in AttemptNumbers, NEW t \in Times,
           NEW ending \in TerminalStatus, NEW reason \in Reasons, NEW jitter \in Jitters,
           NEW C,
           ResolveAccepted(row, r, n, ending, jitter, t),
           row.attempt[r][n].status \in ActiveAttemptStatus,
           ending = "delivered" => r \in C
    PROVE  Advances(row, resolve_attempt_and_target(row, r, n, ending, reason, jitter, t),
                    t, C, {})
<1> DEFINE target == [row.target[r] EXCEPT
                        !.status = ResolvedTargetStatus(row, r, ending), !.active = 0,
                        !.next = IF SchedulesRetry(row, r, ending) THEN t + jitter ELSE 0,
                        !.updated = t]
           attempt == [row.attempt[r][n] EXCEPT
                        !.status = ending, !.resolved = t, !.reason = reason]
<1>1. target \in TargetRow /\ attempt \in AttemptRow
  BY ResolveType
<1>2. row.target[r] \in TargetRow /\ row.attempt[r][n] \in AttemptRow
  BY RowParts
<1>3. /\ attempt.submitted = row.attempt[r][n].submitted
      /\ attempt.status = ending
      /\ target.status = ResolvedTargetStatus(row, r, ending)
  BY <1>2 DEF AttemptRow, TargetRow
<1>4. target.status = "delivered" => r \in C
  BY <1>3 DEF ResolvedTargetStatus
<1>5. attempt.status \notin ActiveAttemptStatus
  BY <1>3 DEF TerminalStatus, ActiveAttemptStatus
<1> HIDE DEF target, attempt
<1>6. Advances(row, Rewrite(row, r, n, target, attempt), t, C, {})
  BY <1>1, <1>3, <1>4, <1>5, RewriteAdvances
<1> QED
  BY <1>6 DEF resolve_attempt_and_target, target, attempt

\* A submission begins nothing and confirms nothing.
LEMMA SubmitAdvances ==
    ASSUME NEW row \in JobRow, NEW r \in Relays, NEW n \in AttemptNumbers, NEW t \in Times,
           SubmitAnswer(row, r, n, t) = "Submitted"
    PROVE  /\ Advances(row, mark_submitted(row, r, n, t), t, {}, {})
           /\ mark_submitted(row, r, n, t).attempt[r][n].submitted # 0
<1> DEFINE target == [row.target[r] EXCEPT !.status = "submitted", !.updated = t]
           attempt == [row.attempt[r][n] EXCEPT !.status = "submitted", !.submitted = t]
<1>1. target \in TargetRow /\ attempt \in AttemptRow
  BY SubmitType
<1>2. row.target[r] \in TargetRow /\ row.attempt[r][n] \in AttemptRow
  BY RowParts
<1>3. attempt.submitted = t /\ target.status = "submitted" /\ t # 0
  BY <1>2 DEF AttemptRow, TargetRow, Times
<1>4. row.attempt[r][n].status \in ActiveAttemptStatus
  BY DEF SubmitAnswer, ActiveAttemptStatus
<1> HIDE DEF target, attempt
<1>5. Advances(row, Rewrite(row, r, n, target, attempt), t, {}, {})
  BY <1>1, <1>3, <1>4, RewriteAdvances
<1>6. Rewrite(row, r, n, target, attempt).attempt[r][n] = attempt
  BY <1>1, RewriteFacts
<1> QED
  BY <1>3, <1>5, <1>6 DEF mark_submitted, target, attempt

\* A claim begins the next attempt of its target and nothing else.
LEMMA ClaimAdvances ==
    ASSUME NEW row \in JobRow, NEW r \in Relays, NEW nonce \in Nonces, NEW t \in Times,
           ClaimAnswer(row, r, nonce, t) = "Claimed", GoodRow(row)
    PROVE  Advances(row, claim_target(row, r, nonce, t), t, {}, {<<r, row.target[r].count + 1>>})
<1> DEFINE number == row.target[r].count + 1
           target == [status |-> "leased", count |-> number, active |-> number,
                      next |-> 0, updated |-> t]
           attempt == [nonce |-> nonce, status |-> "leased", leased |-> t,
                       expires |-> t + row.policy.deadline, submitted |-> 0,
                       resolved |-> 0, reason |-> "none"]
           mid == Rewrite(row, r, number, target, attempt)
           new == claim_target(row, r, nonce, t)
<1>1. number \in AttemptNumbers /\ target \in TargetRow /\ attempt \in AttemptRow
  BY ClaimType
<1>2. row.attempt[r][number].submitted = 0
  <2>1. History(row, r) /\ row.target[r].count \in Nat
    BY CountsAreBounded DEF GoodRow, RowHistory
  <2>2. row.attempt[r][number].status = "none"
    <3> HIDE DEF target, attempt, mid, new
    <3> QED
      BY <1>1, <2>1 DEF History
  <2> QED
    BY <1>1, <2>2 DEF GoodRow, SoundRow, SoundAttempt
<1>3. target.status = "leased"
  OBVIOUS
<1>4. /\ new.target = mid.target /\ new.attempt = mid.attempt
      /\ (new.updated = mid.updated \/ new.updated = t)
  <2>1. mid \in JobRow
    <3> HIDE DEF target, attempt, number
    <3> QED
      BY <1>1, RewriteFacts
  <2>2. new = [mid EXCEPT !.status = "active",
                          !.updated = IF row.status = "pending" THEN t ELSE @]
    BY DEF claim_target
  <2> HIDE DEF mid, new
  <2> QED
    BY <2>1, <2>2 DEF JobRow
<1> HIDE DEF target, attempt, number, new
<1>5. Advances(row, mid, t, {}, {<<r, number>>})
  BY <1>1, <1>2, <1>3, RewriteAdvances
<1> HIDE DEF mid
<1>6. Advances(row, new, t, {}, {<<r, number>>})
  <2>1. mid.updated = row.updated \/ mid.updated = t
    BY <1>5 DEF Advances
  <2> QED
    BY <1>4, <1>5, <2>1 DEF Advances
<1> QED
  BY <1>6 DEF new, number

\* Each operation of the store returns a good row and advances the one it got.
LEMMA CreateGood ==
    ASSUME NEW p \in Policies, NEW t \in Times
    PROVE  GoodRow(create_job(p, t))
BY CreateType, CreateVerdict, CreateHistory, CreateSound DEF GoodRow

\* claim_target.
LEMMA ClaimGood ==
    ASSUME NEW row, NEW r \in Relays, NEW nonce \in Nonces, NEW t \in Times,
           GoodRow(row), ClaimAnswer(row, r, nonce, t) = "Claimed"
    PROVE  /\ GoodRow(claim_target(row, r, nonce, t))
           /\ Advances(row, claim_target(row, r, nonce, t), t, {},
                       {<<r, row.target[r].count + 1>>})
<1>1. row \in JobRow /\ RowVerdict(row) /\ RowHistory(row) /\ SoundRow(row)
  BY DEF GoodRow
<1>2. claim_target(row, r, nonce, t) \in JobRow
  BY <1>1, ClaimType
<1>3. /\ RowVerdict(claim_target(row, r, nonce, t))
      /\ RowHistory(claim_target(row, r, nonce, t))
      /\ SoundRow(claim_target(row, r, nonce, t))
  BY <1>1, ClaimVerdict, ClaimHistory, ClaimSound
<1> QED
  BY <1>1, <1>2, <1>3, ClaimAdvances DEF GoodRow

\* mark_submitted.
LEMMA SubmitGood ==
    ASSUME NEW row, NEW r \in Relays, NEW n \in AttemptNumbers, NEW t \in Times,
           GoodRow(row), SubmitAnswer(row, r, n, t) = "Submitted"
    PROVE  /\ GoodRow(mark_submitted(row, r, n, t))
           /\ Advances(row, mark_submitted(row, r, n, t), t, {}, {})
           /\ mark_submitted(row, r, n, t).attempt[r][n].submitted # 0
<1>1. row \in JobRow /\ RowVerdict(row) /\ RowHistory(row) /\ SoundRow(row)
  BY DEF GoodRow
<1>2. mark_submitted(row, r, n, t) \in JobRow
  BY <1>1, SubmitType
<1>3. /\ RowVerdict(mark_submitted(row, r, n, t))
      /\ RowHistory(mark_submitted(row, r, n, t))
      /\ SoundRow(mark_submitted(row, r, n, t))
  BY <1>1, SubmitVerdict, SubmitHistory, SubmitSound
<1> QED
  BY <1>1, <1>2, <1>3, SubmitAdvances DEF GoodRow

\* record_outcome: a target is confirmed only by Delivered.
LEMMA RecordGood ==
    ASSUME NEW row, NEW r \in Relays, NEW n \in AttemptNumbers, NEW t \in Times,
           NEW o \in Outcomes, NEW jitter \in Jitters, NEW C,
           GoodRow(row), OutcomeAnswer(row, r, n, o, jitter, t) = "Recorded",
           o = "Delivered" => r \in C
    PROVE  /\ GoodRow(record_outcome(row, r, n, o, jitter, t))
           /\ Advances(row, record_outcome(row, r, n, o, jitter, t), t, C, {})
<1> DEFINE mid == recorded(row, r, n, o, jitter, t)
<1>1. row \in JobRow /\ RowVerdict(row) /\ RowHistory(row) /\ SoundRow(row)
  BY DEF GoodRow
<1>2. /\ OutcomeStatus(o) \in TerminalStatus /\ OutcomeReason(o) \in Reasons
      /\ row.attempt[r][n].status \in ActiveAttemptStatus
      /\ ResolveAccepted(row, r, n, OutcomeStatus(o), jitter, t)
  BY <1>1, RecordedFacts
<1>3. OutcomeStatus(o) = "delivered" => r \in C
  BY DEF Outcomes, OutcomeStatus
<1>4. mid \in JobRow /\ Advances(row, mid, t, C, {})
  BY <1>1, <1>2, <1>3, ResolveType, ResolveAdvances DEF recorded
<1> HIDE DEF mid
<1>5. /\ finalize_job_if_terminal(mid, t) \in JobRow
      /\ Advances(row, finalize_job_if_terminal(mid, t), t, C, {})
  BY <1>4, FinalizeType, AdvancesFinalize
<1>6. record_outcome(row, r, n, o, jitter, t) = finalize_job_if_terminal(mid, t)
  BY DEF record_outcome, mid
<1>7. /\ RowVerdict(record_outcome(row, r, n, o, jitter, t))
      /\ RowHistory(record_outcome(row, r, n, o, jitter, t))
      /\ SoundRow(record_outcome(row, r, n, o, jitter, t))
  BY <1>1, RecordVerdict, RecordHistory, RecordSound
<1> QED
  BY <1>5, <1>6, <1>7 DEF GoodRow

\* recover_expired confirms nothing.
LEMMA RecoverGood ==
    ASSUME NEW row, NEW r \in Relays, NEW n \in AttemptNumbers, NEW t \in Times,
           NEW jitter \in Jitters,
           GoodRow(row), RecoverAnswer(row, r, n, jitter, t) = "Recovered"
    PROVE  /\ GoodRow(recover_expired(row, r, n, jitter, t))
           /\ Advances(row, recover_expired(row, r, n, jitter, t), t, {}, {})
           /\ Settles(row, recover_expired(row, r, n, jitter, t))
<1> DEFINE mid == expired(row, r, n, jitter, t)
<1>1. row \in JobRow /\ RowVerdict(row) /\ RowHistory(row) /\ SoundRow(row)
  BY DEF GoodRow
<1>2. /\ ExpiredStatus(row.attempt[r][n]) \in TerminalStatus
      /\ ExpiredReason(row.attempt[r][n]) \in Reasons
      /\ row.attempt[r][n].status \in ActiveAttemptStatus
      /\ ResolveAccepted(row, r, n, ExpiredStatus(row.attempt[r][n]), jitter, t)
  BY <1>1, RecoveredFacts
<1>3. ExpiredStatus(row.attempt[r][n]) # "delivered"
  BY DEF ExpiredStatus
<1>4. mid \in JobRow /\ Advances(row, mid, t, {}, {})
  BY <1>1, <1>2, <1>3, ResolveType, ResolveAdvances DEF expired
<1> HIDE DEF mid
<1>5. /\ finalize_job_if_terminal(mid, t) \in JobRow
      /\ Advances(row, finalize_job_if_terminal(mid, t), t, {}, {})
  BY <1>4, FinalizeType, AdvancesFinalize
<1>6. recover_expired(row, r, n, jitter, t) = finalize_job_if_terminal(mid, t)
  BY DEF recover_expired, mid
<1>7. /\ RowVerdict(recover_expired(row, r, n, jitter, t))
      /\ RowHistory(recover_expired(row, r, n, jitter, t))
      /\ SoundRow(recover_expired(row, r, n, jitter, t))
  BY <1>1, RecoverVerdict, RecoverHistory, RecoverSound
<1>8. Settles(row, recover_expired(row, r, n, jitter, t))
  <2> DEFINE new == recover_expired(row, r, n, jitter, t)
  <2>1. Silent(row, new) \/ Confirms(row, new, r) \/ GivesUp(row, new)
    BY <1>1, <1>2, ResolveRefines DEF recover_expired, expired
  <2>2. Advances(row, new, t, {}, {})
    BY <1>5, <1>6
  <2> HIDE DEF new
  <2>3. ~Confirms(row, new, r)
    BY <2>2 DEF Confirms, Confirmed, Advances
  <2>4. Settles(row, new)
    BY <2>1, <2>3 DEF Settles
  <2> QED
    BY <2>4 DEF new
<1> QED
  BY <1>5, <1>6, <1>7, <1>8 DEF GoodRow

\* finalize_job_if_terminal.
LEMMA FinalizeGood ==
    ASSUME NEW row, NEW t \in Times, GoodRow(row)
    PROVE  GoodRow(finalize_job_if_terminal(row, t)) /\ Settles(row, finalize_job_if_terminal(row, t))
<1>1. row \in JobRow /\ RowVerdict(row) /\ RowHistory(row) /\ SoundRow(row)
  BY DEF GoodRow
<1>2. finalize_job_if_terminal(row, t) \in JobRow
  BY <1>1, FinalizeType
<1>3. RowVerdict(finalize_job_if_terminal(row, t))
  BY <1>1, FinalizeVerdict
<1>4. ~(Open(row) /\ Decided(row))
  BY <1>1 DEF RowVerdict, Decided
<1>5. finalize_job_if_terminal(row, t) = row
  BY <1>4 DEF finalize_job_if_terminal
<1> QED
  BY <1>1, <1>2, <1>3, <1>5, FinalizeHistory, FinalizeSound DEF GoodRow, Settles, Silent

\* A job that restart recovery accepts comes out of it a good row, as it was to the
\* outbox or given up.
LEMMA RecoverRowGood ==
    ASSUME NEW row, NEW jitter \in [Relays -> Jitters], NEW t \in Times, GoodRow(row),
           RecoverRow(row, jitter, t).ok
    PROVE  /\ GoodRow(RecoverRow(row, jitter, t).row)
           /\ Advances(row, RecoverRow(row, jitter, t).row, t, {}, {})
           /\ Settles(row, RecoverRow(row, jitter, t).row)
<1> DEFINE Fine(result) ==
             result.ok => /\ GoodRow(result.row)
                          /\ Advances(row, result.row, t, {}, {})
                          /\ Settles(row, result.row)
           result == RecoverTargets(row, jitter, t)
<1>a. PICK last \in Nat : \E f :
         /\ f[0] = [row |-> row, ok |-> validate_attempt_histories(row)]
         /\ \A i \in 1..last :
               f[i] = IF i \in Relays THEN RecoverTarget(row, jitter, t, i, f[i - 1])
                      ELSE f[i - 1]
         /\ result = f[last]
  <2> HIDE DEF result
  <2> QED
    BY RecoverTargetsUnfold DEF result
<1>1. PICK f :
         /\ f[0] = [row |-> row, ok |-> validate_attempt_histories(row)]
         /\ \A i \in 1..last :
               f[i] = IF i \in Relays THEN RecoverTarget(row, jitter, t, i, f[i - 1])
                      ELSE f[i - 1]
         /\ result = f[last]
  BY <1>a
<1>2. ASSUME NEW r \in Relays, NEW before, Fine(before)
      PROVE  Fine(RecoverTarget(row, jitter, t, r, before))
  <2> DEFINE n == row.target[r].active
             new == [row |-> recover_expired(before.row, r, n, jitter[r], t),
                     ok  |-> /\ before.ok
                             /\ RecoverAnswer(before.row, r, n, jitter[r], t) = "Recovered"]
  <2>1. CASE ~Stale(row, r, t)
    BY <1>2, <2>1 DEF RecoverTarget
  <2>2. CASE Stale(row, r, t)
    <3>1. RecoverTarget(row, jitter, t, r, before) = new
      BY <2>2 DEF RecoverTarget
    <3>2. n \in AttemptNumbers
      <4>1. row.target[r] \in TargetRow
        BY DEF GoodRow, JobRow
      <4> QED
        BY <4>1, <2>2, DeliveryAssumption DEF Stale, TargetRow, AttemptNumbers
    <3>3. /\ new.row = recover_expired(before.row, r, n, jitter[r], t)
          /\ new.ok => /\ before.ok
                       /\ RecoverAnswer(before.row, r, n, jitter[r], t) = "Recovered"
      OBVIOUS
    <3> HIDE DEF n, new
    <3>4. ASSUME new.ok
          PROVE  /\ GoodRow(new.row) /\ Advances(row, new.row, t, {}, {})
                 /\ Settles(row, new.row)
      <4>1. /\ GoodRow(before.row) /\ Advances(row, before.row, t, {}, {})
            /\ Settles(row, before.row)
        BY <1>2, <3>3, <3>4
      <4>2. /\ GoodRow(new.row) /\ Advances(before.row, new.row, t, {}, {})
            /\ Settles(before.row, new.row)
        BY <3>2, <3>3, <3>4, <4>1, RecoverGood
      <4> QED
        BY <4>1, <4>2, AdvancesTwice, SettlesTwice
    <3> QED
      BY <3>1, <3>4
  <2> QED
    BY <2>1, <2>2
<1>3. Fine(f[0])
  <2>1. f[0].row = row
    BY <1>1
  <2>2. Advances(row, row, t, {}, {}) /\ Settles(row, row)
    BY DEF Advances, Settles, Silent
  <2> QED
    BY <2>1, <2>2
<1>4. ASSUME NEW i \in 1..last, Fine(f[i - 1]) PROVE Fine(f[i])
  <2> HIDE DEF Fine
  <2> QED
    BY <1>1, <1>2, <1>4
<1> DEFINE S == {i \in Nat : Fine(f[i])}
<1>5. last \in S
  <2>1. 0 \in S
    BY <1>3
  <2>2. \A i \in 1..last : i - 1 \in S => i \in S
    <3> HIDE DEF Fine
    <3> QED
      BY <1>4
  <2> HIDE DEF S
  <2> QED
    BY <2>1, <2>2, Ascent
<1>6. Fine(result)
  BY <1>1, <1>5
<1> DEFINE final == finalize_job_if_terminal(result.row, t)
<1>7. RecoverRow(row, jitter, t).row = final /\ result.ok
  BY DEF RecoverRow
<1> HIDE DEF result
<1>8. GoodRow(result.row) /\ Advances(row, result.row, t, {}, {}) /\ Settles(row, result.row)
  BY <1>6, <1>7
<1>9. GoodRow(final) /\ Advances(row, final, t, {}, {}) /\ Settles(row, final)
  <2>1. GoodRow(final) /\ Settles(result.row, final)
    BY <1>8, FinalizeGood
  <2>2. Advances(row, final, t, {}, {})
    BY <1>8, AdvancesFinalize DEF GoodRow
  <2> QED
    BY <1>8, <2>1, <2>2, SettlesTwice
<1> QED
  BY <1>7, <1>9

(* The invariant of the daemon.  Beyond the rows it says what the clock    *)
(* readings of the tasks are worth, what the outbox has in hand, and that  *)
(* the leases nobody has in hand are at most one for each kill.            *)

GoodTable == jobs \in [Jobs -> JobRow] /\ \A j \in Jobs : GoodRow(jobs[j])

\* The readings of the tasks are not ahead of the clock, and neither is the store.
Clocked ==
    /\ now + JitterMax <= MaxTime
    /\ dispatch.step = "commit" => dispatch.at \in 1..now
    /\ outbox.step \notin {"idle", "ended"} => outbox.at \in 1..now
    /\ process = "recovering" => recovery.at \in 1..now
    /\ \A j \in Jobs : jobs[j].updated <= now

\* Jobs the outbox worked on are not dated after its present reading.
Older ==
    outbox.step \notin {"idle", "ended"} =>
        \A j \in Jobs :
            jobs[j].status \notin {"absent", "pending"} => jobs[j].updated <= outbox.at

\* The tasks live only in a process that has recovered.
Living ==
    process \notin {"running", "draining", "stopping"} =>
        outbox = EndedOutbox /\ dispatch = EndedDispatch

Chosen ==
    /\ outbox.step \notin {"idle", "query", "ended"} =>
          outbox.job \in Jobs /\ outbox.relay \in Relays
    /\ dispatch.step = "commit" => dispatch.job \in Jobs

Working == {"prepare", "submit", "execute", "persist"}

\* The attempt of a row that a task working on it at time t may still end.
Held(row, r, n, t) ==
    /\ row.status \notin {"absent", "pending"}
    /\ row.target[r].active = n
    /\ row.target[r].status = row.attempt[r][n].status
    /\ row.attempt[r][n].status \in ActiveAttemptStatus
    /\ row.attempt[r][n].leased <= t
    /\ row.attempt[r][n].submitted <= t
    /\ t <= row.attempt[r][n].expires
    /\ row.target[r].updated <= t

InHand ==
    outbox.step \in Working =>
        /\ outbox.number \in AttemptNumbers
        /\ Held(jobs[outbox.job], outbox.relay, outbox.number, outbox.at)
        /\ LET status == jobs[outbox.job].attempt[outbox.relay][outbox.number].status IN
           /\ outbox.step \in {"prepare", "submit"} => status = "leased"
           /\ outbox.step = "execute" => status = "submitted"
           /\ outbox.step = "persist" =>
                 status = "submitted" \/ outbox.outcome = "TransportFailed"
        /\ outbox.step = "persist" /\ outbox.outcome = "Delivered" =>
              <<outbox.job, outbox.relay>> \in held

\* What reached a relay was submitted; what is delivered is held by its relay.
Sent ==
    \A event \in received : jobs[event[1]].attempt[event[2]][event[3]].submitted # 0

Acknowledged ==
    \A j \in Jobs, r \in Relays :
        jobs[j].target[r].status = "delivered" => <<j, r>> \in held

Hand == IF outbox.step \in Working THEN {<<outbox.job, outbox.relay, outbox.number>>} ELSE {}

LeftBehind == Cardinality(RunningAttempts \ Hand) <= kills

DInv ==
    /\ DaemonTypeOK /\ GoodTable /\ Clocked /\ Older /\ Living /\ Chosen /\ InHand
    /\ Sent /\ Acknowledged /\ LeftBehind

\* An admission writes over a row that holds nothing.
LEMMA CreateAdvances ==
    ASSUME NEW row, GoodRow(row), row.status = "absent", NEW p \in Policies, NEW t \in Times
    PROVE  Advances(row, create_job(p, t), t, {}, {})
<1> DEFINE new == create_job(p, t)
<1>1. ASSUME NEW r \in Relays, NEW n \in AttemptNumbers PROVE row.attempt[r][n].submitted = 0
  <2>1. row.target[r].status = "none" /\ SoundAttempt(row.attempt[r][n])
    BY DEF GoodRow, SoundRow
  <2>2. History(row, r) /\ row.target[r].count \in Nat /\ n \in Nat \ {0}
    BY CountsAreBounded DEF GoodRow, RowHistory
  <2>3. row.target[r].count = 0
    BY <2>1, <2>2 DEF History, EndsAs, ActiveTargetStatus
  <2>4. row.attempt[r][n].status = "none"
    BY <2>2, <2>3 DEF History
  <2> QED
    BY <2>1, <2>4 DEF SoundAttempt
<1>2. \A r \in Relays, n \in AttemptNumbers : new.attempt[r][n].status = "none"
  BY DEF create_job, NoAttempts, NoAttempt
<1>3. \A r \in Relays : new.target[r].status \in {"none", "pending"}
  BY DEF create_job, NoTarget
<1>4. new.updated = t
  BY DEF create_job
<1> HIDE DEF new
<1>5. Advances(row, new, t, {}, {})
  BY <1>1, <1>2, <1>3, <1>4 DEF Advances, ActiveAttemptStatus
<1> QED
  BY <1>5 DEF new

\* The same for the table: C are the pairs that may become confirmed, L the
\* attempts that may begin to run.
TableAdvances(t, C, L) ==
    \A j \in Jobs :
        /\ \A r \in Relays, n \in AttemptNumbers :
              /\ jobs[j].attempt[r][n].submitted # 0 => jobs'[j].attempt[r][n].submitted # 0
              /\ jobs'[j].attempt[r][n].status \in ActiveAttemptStatus =>
                    jobs[j].attempt[r][n].status \in ActiveAttemptStatus \/ <<j, r, n>> \in L
        /\ \A r \in Relays :
              jobs'[j].target[r].status = "delivered" =>
                  jobs[j].target[r].status = "delivered" \/ <<j, r>> \in C
        /\ jobs'[j].updated = jobs[j].updated \/ jobs'[j].updated = t

\* One row of the table is replaced.
LEMMA RowReplaced ==
    ASSUME GoodTable, NEW j \in Jobs, NEW new, GoodRow(new), jobs' = [jobs EXCEPT ![j] = new]
    PROVE  /\ GoodTable'
           /\ jobs'[j] = new
           /\ \A k \in Jobs : k # j => jobs'[k] = jobs[k]
<1>1. jobs'[j] = new /\ \A k \in Jobs : k # j => jobs'[k] = jobs[k]
  BY DEF GoodTable
<1>2. jobs' \in [Jobs -> JobRow]
  BY DEF GoodTable, GoodRow
<1> QED
  BY <1>1, <1>2 DEF GoodTable

\* The table advances if its one replaced row does.
LEMMA OthersStay ==
    ASSUME NEW j \in Jobs, NEW t, NEW C, NEW L,
           \A k \in Jobs : k # j => jobs'[k] = jobs[k],
           \A r \in Relays, n \in AttemptNumbers :
              /\ jobs[j].attempt[r][n].submitted # 0 => jobs'[j].attempt[r][n].submitted # 0
              /\ jobs'[j].attempt[r][n].status \in ActiveAttemptStatus =>
                    jobs[j].attempt[r][n].status \in ActiveAttemptStatus \/ <<j, r, n>> \in L,
           \A r \in Relays :
              jobs'[j].target[r].status = "delivered" =>
                  jobs[j].target[r].status = "delivered" \/ <<j, r>> \in C,
           jobs'[j].updated = jobs[j].updated \/ jobs'[j].updated = t
    PROVE  TableAdvances(t, C, L)
<1>1. ASSUME NEW k \in Jobs, k # j
      PROVE  /\ \A r \in Relays, n \in AttemptNumbers :
                   /\ jobs[k].attempt[r][n].submitted # 0 => jobs'[k].attempt[r][n].submitted # 0
                   /\ jobs'[k].attempt[r][n].status \in ActiveAttemptStatus =>
                         jobs[k].attempt[r][n].status \in ActiveAttemptStatus
             /\ \A r \in Relays :
                   jobs'[k].target[r].status = "delivered" => jobs[k].target[r].status = "delivered"
             /\ jobs'[k].updated = jobs[k].updated
  BY <1>1
<1> QED
  BY <1>1 DEF TableAdvances

\* The case of an operation that confirms nothing and begins nothing, of one that
\* begins attempt n on relay r, and of one that confirms what the relays hold.
LEMMA PlainJobStep ==
    ASSUME GoodTable, NEW j \in Jobs, NEW new, GoodRow(new), NEW t,
           Advances(jobs[j], new, t, {}, {}),
           jobs' = [jobs EXCEPT ![j] = new]
    PROVE  /\ GoodTable'
           /\ TableAdvances(t, {}, {})
           /\ jobs'[j] = new
           /\ \A k \in Jobs : k # j => jobs'[k] = jobs[k]
<1>1. /\ GoodTable' /\ jobs'[j] = new
      /\ \A k \in Jobs : k # j => jobs'[k] = jobs[k]
  BY RowReplaced
<1>2. /\ \A r \in Relays, n \in AttemptNumbers :
            /\ jobs[j].attempt[r][n].submitted # 0 => jobs'[j].attempt[r][n].submitted # 0
            /\ jobs'[j].attempt[r][n].status \in ActiveAttemptStatus =>
                  \/ jobs[j].attempt[r][n].status \in ActiveAttemptStatus
                  \/ <<j, r, n>> \in {}
      /\ \A r \in Relays :
            jobs'[j].target[r].status = "delivered" =>
                jobs[j].target[r].status = "delivered" \/ <<j, r>> \in {}
      /\ jobs'[j].updated = jobs[j].updated \/ jobs'[j].updated = t
  BY <1>1 DEF Advances
<1>3. TableAdvances(t, {}, {})
  BY <1>1, <1>2, OthersStay
<1> QED
  BY <1>1, <1>3

\* An operation that begins attempt n on relay r.
LEMMA LeaseJobStep ==
    ASSUME GoodTable, NEW j \in Jobs, NEW new, GoodRow(new), NEW t, NEW r, NEW n,
           Advances(jobs[j], new, t, {}, {<<r, n>>}),
           jobs' = [jobs EXCEPT ![j] = new]
    PROVE  /\ GoodTable'
           /\ TableAdvances(t, {}, {<<j, r, n>>})
           /\ jobs'[j] = new
           /\ \A k \in Jobs : k # j => jobs'[k] = jobs[k]
<1>1. /\ GoodTable' /\ jobs'[j] = new
      /\ \A k \in Jobs : k # j => jobs'[k] = jobs[k]
  BY RowReplaced
<1>2. /\ \A s \in Relays, m \in AttemptNumbers :
            /\ jobs[j].attempt[s][m].submitted # 0 => jobs'[j].attempt[s][m].submitted # 0
            /\ jobs'[j].attempt[s][m].status \in ActiveAttemptStatus =>
                  \/ jobs[j].attempt[s][m].status \in ActiveAttemptStatus
                  \/ <<j, s, m>> \in {<<j, r, n>>}
      /\ \A s \in Relays :
            jobs'[j].target[s].status = "delivered" =>
                jobs[j].target[s].status = "delivered" \/ <<j, s>> \in {}
      /\ jobs'[j].updated = jobs[j].updated \/ jobs'[j].updated = t
  BY <1>1 DEF Advances
<1>3. TableAdvances(t, {}, {<<j, r, n>>})
  BY <1>1, <1>2, OthersStay
<1> QED
  BY <1>1, <1>3

\* An operation that confirms what the relays hold.
LEMMA ConfirmJobStep ==
    ASSUME GoodTable, NEW j \in Jobs, NEW new, GoodRow(new), NEW t,
           Advances(jobs[j], new, t, {r \in Relays : <<j, r>> \in held}, {}),
           jobs' = [jobs EXCEPT ![j] = new]
    PROVE  /\ GoodTable'
           /\ TableAdvances(t, held, {})
           /\ jobs'[j] = new
           /\ \A k \in Jobs : k # j => jobs'[k] = jobs[k]
<1>1. /\ GoodTable' /\ jobs'[j] = new
      /\ \A k \in Jobs : k # j => jobs'[k] = jobs[k]
  BY RowReplaced
<1>2. /\ \A r \in Relays, n \in AttemptNumbers :
            /\ jobs[j].attempt[r][n].submitted # 0 => jobs'[j].attempt[r][n].submitted # 0
            /\ jobs'[j].attempt[r][n].status \in ActiveAttemptStatus =>
                  \/ jobs[j].attempt[r][n].status \in ActiveAttemptStatus
                  \/ <<j, r, n>> \in {}
      /\ \A r \in Relays :
            jobs'[j].target[r].status = "delivered" =>
                jobs[j].target[r].status = "delivered" \/ <<j, r>> \in held
      /\ jobs'[j].updated = jobs[j].updated \/ jobs'[j].updated = t
  BY <1>1 DEF Advances
<1>3. TableAdvances(t, held, {})
  BY <1>1, <1>2, OthersStay
<1> QED
  BY <1>1, <1>3

\* A step that leaves the store alone.
LEMMA SameTable ==
    ASSUME jobs' = jobs, GoodTable, NEW t
    PROVE  GoodTable' /\ TableAdvances(t, {}, {})
BY DEF GoodTable, TableAdvances

\* What the store is owed follows from how the table moved.
LEMMA SentKept ==
    ASSUME Sent, DaemonTypeOK, NEW t, NEW C, NEW L, TableAdvances(t, C, L), received' = received
    PROVE  Sent'
<1> SUFFICES ASSUME NEW event \in received
             PROVE  jobs'[event[1]].attempt[event[2]][event[3]].submitted # 0
  BY DEF Sent
<1>1. event[1] \in Jobs /\ event[2] \in Relays /\ event[3] \in AttemptNumbers
  BY DEF DaemonTypeOK
<1>2. jobs[event[1]].attempt[event[2]][event[3]].submitted # 0
  BY DEF Sent
<1> QED
  BY <1>1, <1>2 DEF TableAdvances

\* Confirmed targets stay held.
LEMMA AcknowledgedKept ==
    ASSUME Acknowledged, NEW t, NEW C, NEW L, TableAdvances(t, C, L),
           held \subseteq held', C \subseteq held'
    PROVE  Acknowledged'
BY DEF Acknowledged, TableAdvances

\* Attempts are finitely many, so the running ones can be counted.
LEMMA LeasesFinite ==
    /\ IsFiniteSet(AttemptNumbers) /\ Cardinality(AttemptNumbers) = AttemptMax
    /\ \A S \in SUBSET (Jobs \X Relays \X AttemptNumbers) :
          IsFiniteSet(S) /\ Cardinality(S) \in Nat
<1> DEFINE P == (Jobs \X Relays) \X AttemptNumbers
           Q == Jobs \X Relays \X AttemptNumbers
           f == [x \in P |-> <<x[1][1], x[1][2], x[2]>>]
<1>1. IsFiniteSet(Jobs) /\ IsFiniteSet(Relays) /\ AttemptMax \in Nat \ {0}
  BY DeliveryAssumption
<1>2. IsFiniteSet(AttemptNumbers) /\ Cardinality(AttemptNumbers) = AttemptMax
  BY <1>1, FS_Interval DEF AttemptNumbers
<1>3. IsFiniteSet(P)
  BY <1>1, <1>2, FS_Product
<1>4. f \in Surjection(P, Q)
  <2>1. f \in [P -> Q]
    OBVIOUS
  <2>2. ASSUME NEW q \in Q PROVE \E x \in P : f[x] = q
    <3>1. <<<<q[1], q[2]>>, q[3]>> \in P /\ q = <<q[1], q[2], q[3]>>
      OBVIOUS
    <3>2. f[<<<<q[1], q[2]>>, q[3]>>] = q
      BY <3>1
    <3> QED
      BY <3>1, <3>2
  <2> HIDE DEF f
  <2> QED
    BY <2>1, <2>2 DEF Surjection
<1>5. IsFiniteSet(Q)
  <2> HIDE DEF f, P, Q
  <2> QED
    BY <1>3, <1>4, FS_Surjection
<1> QED
  BY <1>2, <1>5, FS_Subset, FS_CardinalityType

\* Leases that nobody has in hand stay as few as the kills, if those that begin
\* or go on running are in hand.
LEMMA LeftBehindKept ==
    ASSUME kills \in Nat, LeftBehind, NEW t, NEW C, NEW L, TableAdvances(t, C, L),
           L \subseteq Hand', Hand \cap RunningAttempts' \subseteq Hand', kills' = kills
    PROVE  LeftBehind'
<1>1. RunningAttempts' \ Hand' \subseteq RunningAttempts \ Hand
  <2> SUFFICES ASSUME NEW a \in Jobs \X Relays \X AttemptNumbers,
                      jobs'[a[1]].attempt[a[2]][a[3]].status \in ActiveAttemptStatus,
                      a \in RunningAttempts', a \notin Hand'
               PROVE  jobs[a[1]].attempt[a[2]][a[3]].status \in ActiveAttemptStatus /\ a \notin Hand
    BY DEF RunningAttempts
  <2>1. a[1] \in Jobs /\ a[2] \in Relays /\ a[3] \in AttemptNumbers /\ a = <<a[1], a[2], a[3]>>
    OBVIOUS
  <2>2. <<a[1], a[2], a[3]>> \notin L
    BY <2>1
  <2>3. jobs[a[1]].attempt[a[2]][a[3]].status \in ActiveAttemptStatus
    BY <2>1, <2>2 DEF TableAdvances
  <2> QED
    BY <2>3
<1>2. /\ IsFiniteSet(RunningAttempts \ Hand) /\ Cardinality(RunningAttempts \ Hand) \in Nat
      /\ Cardinality(RunningAttempts' \ Hand') \in Nat
  BY LeasesFinite DEF RunningAttempts
<1>3. Cardinality(RunningAttempts' \ Hand') <= Cardinality(RunningAttempts \ Hand)
  BY <1>1, <1>2, FS_Subset
<1> QED
  BY <1>2, <1>3 DEF LeftBehind

\* A target that is claimed gets a nonce that none of its attempts has.
LEMMA FreshNonceExists ==
    ASSUME NEW j \in Jobs, NEW r \in Relays
    PROVE  FreshNonce(j, r) \in Nonces
<1> DEFINE used == {nonce \in Nonces :
                      \E n \in AttemptNumbers : jobs[j].attempt[r][n].nonce = nonce}
           N == {n \in AttemptNumbers : jobs[j].attempt[r][n].nonce \in Nonces}
           f == [n \in N |-> jobs[j].attempt[r][n].nonce]
<1>1. f \in Surjection(N, used)
  BY DEF Surjection
<1>2. IsFiniteSet(N) /\ Cardinality(N) \in Nat /\ Cardinality(N) <= AttemptMax
  <2>1. N \in SUBSET AttemptNumbers
    OBVIOUS
  <2> HIDE DEF N
  <2> QED
    BY <2>1, LeasesFinite, FS_Subset, FS_CardinalityType
<1>3. IsFiniteSet(used) /\ Cardinality(used) <= AttemptMax
  <2> HIDE DEF used, N, f
  <2>1. IsFiniteSet(used) /\ Cardinality(used) <= Cardinality(N)
    BY <1>1, <1>2, FS_Surjection
  <2>2. Cardinality(used) \in Nat /\ AttemptMax \in Nat
    BY <2>1, FS_CardinalityType, DeliveryAssumption
  <2> QED
    BY <1>2, <2>1, <2>2
<1>4. used # Nonces
  <2>1. used \in SUBSET Nonces
    OBVIOUS
  <2> HIDE DEF used
  <2> QED
    BY <1>3, <2>1, DaemonAssumption
<1>5. \E nonce \in Nonces : \A n \in AttemptNumbers : jobs[j].attempt[r][n].nonce # nonce
  BY <1>4
<1> QED
  BY <1>5 DEF FreshNonce

\* A step that changes neither the store nor the relays.
LEMMA QuietStep ==
    ASSUME DInv, jobs' = jobs, received' = received, held' = held
    PROVE  /\ GoodTable' /\ TypeOK' /\ Sent' /\ Acknowledged'
           /\ Hand \subseteq Hand' /\ kills' = kills => LeftBehind'
<1>0. Sent /\ Acknowledged /\ LeftBehind /\ GoodTable /\ DaemonTypeOK
  BY DEF DInv
<1>1. GoodTable' /\ TableAdvances(now, {}, {})
  BY <1>0, SameTable
<1>2. Sent' /\ Acknowledged'
  BY <1>0, <1>1, SentKept, AcknowledgedKept
<1>3. TypeOK'
  BY <1>1 DEF GoodTable, TypeOK
<1>4. ASSUME Hand \subseteq Hand', kills' = kills PROVE LeftBehind'
  <2>1. kills \in Nat
    BY <1>0, DaemonAssumption DEF DaemonTypeOK
  <2> QED
    BY <1>0, <1>1, <1>4, <2>1, LeftBehindKept
<1> QED
  BY <1>1, <1>2, <1>3, <1>4

\* A step of the environment or of provider dispatch that leaves the outbox alone.
LEMMA OutboxLeftAlone ==
    ASSUME DInv, jobs' = jobs, received' = received, held' = held, outbox' = outbox,
           kills' = kills
    PROVE  GoodTable' /\ TypeOK' /\ Sent' /\ Acknowledged' /\ LeftBehind' /\ Older' /\ InHand'
<1>1. Hand' = Hand
  BY DEF Hand, Working
<1>2. Older' /\ InHand'
  BY DEF DInv, Older, InHand, Held, Working
<1> QED
  BY <1>1, <1>2, QuietStep

\* Readings that are not ahead of the clock are times.
LEMMA ClockFacts ==
    ASSUME DInv
    PROVE  /\ now \in Nat \ {0} /\ now \in Times /\ JitterMax \in Nat /\ MaxTime \in Nat
           /\ now + JitterMax <= MaxTime
           /\ 1..now \subseteq Times /\ 1..now \subseteq 0..MaxTime
           /\ now <= MaxTime
           /\ \A j \in Jobs : jobs[j].updated \in Nat /\ jobs[j].updated <= now
<1>1. now \in Times /\ now + JitterMax <= MaxTime /\ \A j \in Jobs : jobs[j].updated <= now
  BY DEF DInv, DaemonTypeOK, Clocked
<1>2. JitterMax \in Nat /\ MaxTime \in Nat
  BY DeliveryAssumption
<1>3. \A j \in Jobs : jobs[j].updated \in Nat
  BY <1>2 DEF DInv, GoodTable, GoodRow, JobRow
<1> QED
  BY <1>1, <1>2, <1>3 DEF Times

\* The clock.
LEMMA TickKeeps ==
    ASSUME DInv, Tick
    PROVE  DInv'
<1>1. /\ jobs' = jobs /\ process' = process /\ recovery' = recovery /\ dispatch' = dispatch
      /\ outbox' = outbox /\ received' = received /\ held' = held /\ kills' = kills
      /\ stops' = stops /\ now' = now + 1 /\ now + JitterMax < MaxTime
  BY DEF Tick, environment
<1>2. GoodTable' /\ TypeOK' /\ Sent' /\ Acknowledged' /\ LeftBehind' /\ Older' /\ InHand'
  BY <1>1, OutboxLeftAlone
<1>3. now' \in Times /\ now' + JitterMax <= MaxTime /\ 1..now \subseteq 1..now'
  BY <1>1, ClockFacts DEF Times
<1>4. DaemonTypeOK'
  BY <1>1, <1>2, <1>3 DEF DInv, DaemonTypeOK
<1>5. Clocked'
  <2>1. \A j \in Jobs : jobs'[j].updated <= now'
    BY <1>1, ClockFacts
  <2> QED
    BY <1>1, <1>3, <2>1 DEF DInv, Clocked
<1>6. Living' /\ Chosen'
  BY <1>1 DEF DInv, Living, Chosen
<1> QED
  BY <1>2, <1>4, <1>5, <1>6 DEF DInv

\* Provider dispatch without its commit.
LEMMA DispatchKeeps ==
    ASSUME DInv, ReadCompletionTime \/ DropResponse \/ DispatchEnds
    PROVE  DInv'
<1>1. /\ jobs' = jobs /\ process' = process /\ recovery' = recovery /\ now' = now
      /\ outbox' = outbox /\ received' = received /\ held' = held /\ kills' = kills
      /\ stops' = stops
      /\ process \in {"running", "draining", "stopping"}
  BY DEF ReadCompletionTime, DropResponse, DispatchEnds, environment, Alive
<1>2. GoodTable' /\ TypeOK' /\ Sent' /\ Acknowledged' /\ LeftBehind' /\ Older' /\ InHand'
  BY <1>1, OutboxLeftAlone
<1>3. \/ dispatch' \in {IdleDispatch, EndedDispatch}
      \/ \E j \in Jobs : dispatch' = [step |-> "commit", job |-> j, at |-> now]
  BY DEF ReadCompletionTime, DropResponse, DispatchEnds
<1>4. now \in 1..now /\ now \in 0..MaxTime /\ 0 \in 0..MaxTime
  BY ClockFacts
<1>5. /\ dispatch' \in [step : {"idle", "commit", "ended"}, job : Jobs \cup {0}, at : 0..MaxTime]
      /\ dispatch'.step = "commit" => dispatch'.at = now /\ dispatch'.job \in Jobs
  BY <1>3, <1>4 DEF IdleDispatch, EndedDispatch
<1>6. DaemonTypeOK'
  BY <1>1, <1>2, <1>5 DEF DInv, DaemonTypeOK
<1>7. Clocked'
  BY <1>1, <1>4, <1>5 DEF DInv, Clocked
<1>8. Living' /\ Chosen'
  BY <1>1, <1>5 DEF DInv, Living, Chosen
<1> QED
  BY <1>2, <1>6, <1>7, <1>8 DEF DInv

\* The process starts, is stopped, or exits.
LEMMA ProcessKeeps ==
    ASSUME DInv, Start \/ Stop \/ CancelOutbox \/ Exit
    PROVE  DInv'
<1>1. /\ jobs' = jobs /\ dispatch' = dispatch /\ now' = now
      /\ outbox' = outbox /\ received' = received /\ held' = held /\ kills' = kills
  BY DEF Start, Stop, CancelOutbox, Exit, environment
<1>2. GoodTable' /\ TypeOK' /\ Sent' /\ Acknowledged' /\ LeftBehind' /\ Older' /\ InHand'
  BY <1>1, OutboxLeftAlone
<1>3. /\ process' \in ProcessStates
      /\ process' = "recovering" => recovery' = [at |-> now, cursor |-> 0]
      /\ process' # "recovering" => recovery' = recovery
      /\ process' \notin {"running", "draining", "stopping"} =>
            \/ process \notin {"running", "draining", "stopping"}
            \/ outbox = EndedOutbox /\ dispatch = EndedDispatch
  BY DEF Start, Stop, CancelOutbox, Exit, BeginShutdown, ProcessStates
<1>4. now \in 1..now /\ now \in 0..MaxTime /\ 0 \in 0..MaxTime
  BY ClockFacts
<1>5. /\ recovery' \in [at : 0..MaxTime, cursor : Jobs \cup {0}]
      /\ process' = "recovering" => recovery'.at = now
  BY <1>3, <1>4 DEF DInv, DaemonTypeOK
<1>6. stops' \in 0..MaxStops
  <2>1. MaxStops \in Nat /\ stops \in 0..MaxStops
    BY DaemonAssumption DEF DInv, DaemonTypeOK
  <2> QED
    BY <2>1 DEF Start, Stop, CancelOutbox, Exit
<1>7. DaemonTypeOK'
  BY <1>1, <1>2, <1>3, <1>5, <1>6 DEF DInv, DaemonTypeOK
<1>8. Clocked'
  BY <1>1, <1>4, <1>5 DEF DInv, Clocked
<1>9. Living' /\ Chosen'
  BY <1>1, <1>3 DEF DInv, Living, Chosen
<1> QED
  BY <1>2, <1>7, <1>8, <1>9 DEF DInv

\* A kill leaves behind at most what the outbox had in hand.
LEMMA KillKeeps ==
    ASSUME DInv, Kill
    PROVE  DInv'
<1>1. /\ jobs' = jobs /\ now' = now /\ received' = received /\ held' = held
      /\ kills' = kills + 1 /\ kills < MaxKills /\ stops' = stops
      /\ process' = "down" /\ recovery' = NoRecovery
      /\ dispatch' = EndedDispatch /\ outbox' = EndedOutbox
  BY DEF Kill, environment
<1>2. GoodTable' /\ TypeOK' /\ Sent' /\ Acknowledged'
  BY <1>1, QuietStep
<1>3. /\ outbox'.step = "ended" /\ outbox'.job = 0 /\ outbox'.outcome = "none"
      /\ dispatch'.step = "ended"
  BY <1>1 DEF EndedOutbox, IdleOutbox, EndedDispatch, IdleDispatch
<1>4. kills \in Nat /\ MaxKills \in Nat /\ kills' \in 0..MaxKills
  BY <1>1, DaemonAssumption DEF DInv, DaemonTypeOK
<1>5. DaemonTypeOK'
  <2>1. 0 \in 0..MaxTime /\ 0 \in 0..AttemptMax
    BY DeliveryAssumption
  <2>2. /\ recovery' \in [at : 0..MaxTime, cursor : Jobs \cup {0}]
        /\ dispatch' \in [step : {"idle", "commit", "ended"}, job : Jobs \cup {0}, at : 0..MaxTime]
        /\ outbox' \in [step : Steps, at : 0..MaxTime, job : Jobs \cup {0},
                        relay : Relays \cup {0}, number : 0..AttemptMax,
                        outcome : Outcomes \cup {"none"}]
    BY <1>1, <2>1 DEF NoRecovery, EndedOutbox, IdleOutbox, EndedDispatch, IdleDispatch, Steps
  <2>3. /\ ((outbox'.step = "persist") <=> (outbox'.outcome \in Outcomes))
        /\ ((outbox'.step \in {"idle", "query", "ended"}) <=> (outbox'.job = 0))
    BY <1>3 DEF Outcomes
  <2>4. process' \in ProcessStates
    BY <1>1 DEF ProcessStates
  <2>5. /\ now' \in Times /\ stops' \in 0..MaxStops
        /\ received' \subseteq Jobs \X Relays \X AttemptNumbers
        /\ held' \subseteq Jobs \X Relays
    BY <1>1 DEF DInv, DaemonTypeOK
  <2> QED
    BY <1>2, <1>4, <2>2, <2>3, <2>4, <2>5 DEF DaemonTypeOK
<1>6. Clocked' /\ Older' /\ Living' /\ Chosen' /\ InHand'
  BY <1>1, <1>3 DEF DInv, Clocked, Older, Living, Chosen, InHand, Working
<1>7. LeftBehind'
  <2>1. RunningAttempts' = RunningAttempts /\ Hand' = {}
    BY <1>1, <1>3 DEF RunningAttempts, Hand, Working
  <2> DEFINE a == <<outbox.job, outbox.relay, outbox.number>>
             S == RunningAttempts \ Hand
  <2>2. RunningAttempts \subseteq S \cup {a}
    BY DEF Hand
  <2>3. /\ IsFiniteSet(S) /\ Cardinality(S) \in Nat
        /\ Cardinality(RunningAttempts) \in Nat
    BY LeasesFinite DEF RunningAttempts
  <2>4. Cardinality(S) <= kills
    BY DEF DInv, LeftBehind
  <2> HIDE DEF a, S
  <2>5. /\ IsFiniteSet(S \cup {a})
        /\ Cardinality(S \cup {a}) = IF a \in S THEN Cardinality(S) ELSE Cardinality(S) + 1
    BY <2>3, FS_AddElement
  <2>6. Cardinality(RunningAttempts) <= Cardinality(S \cup {a})
    BY <2>2, <2>5, FS_Subset
  <2>8. Cardinality(RunningAttempts) <= kills + 1
    BY <1>4, <2>3, <2>4, <2>5, <2>6
  <2>9. RunningAttempts' \ Hand' = RunningAttempts
    BY <2>1
  <2> QED
    BY <1>1, <2>8, <2>9 DEF LeftBehind
<1> QED
  BY <1>2, <1>5, <1>6, <1>7 DEF DInv

OutboxTyped ==
    /\ outbox \in [step : Steps, at : 0..MaxTime, job : Jobs \cup {0},
                   relay : Relays \cup {0}, number : 0..AttemptMax,
                   outcome : Outcomes \cup {"none"}]
    /\ ((outbox.step = "persist") <=> (outbox.outcome \in Outcomes))
    /\ ((outbox.step \in {"idle", "query", "ended"}) <=> (outbox.job = 0))

\* A step of the outbox: what remains to be shown of it.
LEMMA OutboxMoves ==
    ASSUME DInv, GoodTable', Sent', Acknowledged', LeftBehind', InHand', OutboxTyped',
           now' = now, recovery' = recovery, dispatch' = dispatch, kills' = kills,
           stops' = stops, received' = received, held' = held,
           process \in {"running", "draining", "stopping"},
           process' \in {"running", "draining", "stopping"},
           \A j \in Jobs : jobs'[j].updated <= now,
           outbox'.step \notin {"idle", "ended"} =>
              /\ outbox'.at \in 1..now
              /\ \A j \in Jobs :
                    jobs'[j].status \notin {"absent", "pending"} => jobs'[j].updated <= outbox'.at,
           outbox'.step \notin {"idle", "query", "ended"} =>
              outbox'.job \in Jobs /\ outbox'.relay \in Relays
    PROVE  DInv'
<1>1. TypeOK' /\ process' \in ProcessStates
  BY DEF GoodTable, TypeOK, ProcessStates
<1>2. DaemonTypeOK'
  BY <1>1 DEF OutboxTyped, DInv, DaemonTypeOK
<1>3. Clocked'
  BY DEF DInv, Clocked
<1>4. Older' /\ Living' /\ Chosen'
  BY DEF DInv, Older, Living, Chosen
<1> QED
  BY <1>2, <1>3, <1>4 DEF DInv

\* Zero stands for no time, no job, no relay and no attempt.
LEMMA Bounds ==
    /\ 0 \in 0..MaxTime /\ 0 \in 0..AttemptMax /\ 0 \notin Jobs /\ 0 \notin Relays
    /\ AttemptNumbers \subseteq 0..AttemptMax
<1>1. MaxTime \in Nat /\ AttemptMax \in Nat
  BY DeliveryAssumption
<1>2. Jobs \subseteq Nat \ {0} /\ Relays \subseteq Nat \ {0}
  BY DaemonAssumption
<1> QED
  BY <1>1, <1>2 DEF AttemptNumbers

\* The outbox with nothing in hand.
LEMMA Resting ==
    ASSUME outbox' \in {IdleOutbox, EndedOutbox}
    PROVE  /\ OutboxTyped' /\ outbox'.step \in {"idle", "ended"} /\ InHand' /\ Hand' = {}
<1>1. /\ outbox'.step \in {"idle", "ended"} /\ outbox'.job = 0 /\ outbox'.outcome = "none"
      /\ outbox'.at = 0 /\ outbox'.relay = 0 /\ outbox'.number = 0
      /\ outbox' = [step |-> outbox'.step, at |-> 0, job |-> 0, relay |-> 0, number |-> 0,
                    outcome |-> "none"]
  BY DEF IdleOutbox, EndedOutbox
<1>2. OutboxTyped'
  BY <1>1, Bounds DEF OutboxTyped, Steps, Outcomes
<1> QED
  BY <1>1, <1>2 DEF InHand, Hand, Working

\* The outbox reads the clock.
LEMMA ReadOutboxTimeKeeps ==
    ASSUME DInv, ReadOutboxTime
    PROVE  DInv'
<1>1. /\ jobs' = jobs /\ process' = process /\ recovery' = recovery /\ now' = now
      /\ dispatch' = dispatch /\ received' = received /\ held' = held /\ kills' = kills
      /\ stops' = stops
      /\ process \in {"running", "draining", "stopping"} /\ outbox.step = "idle"
  BY DEF ReadOutboxTime, OutboxUnchanged, environment, Alive
<1>2. \/ outbox' = EndedOutbox
      \/ outbox' = [step |-> "query", at |-> now, job |-> 0, relay |-> 0, number |-> 0,
                    outcome |-> "none"]
  BY DEF ReadOutboxTime, IdleOutbox
<1>3. /\ outbox'.step \in {"ended", "query"}
      /\ outbox'.step = "query" => outbox'.at = now
      /\ OutboxTyped'
  <2>1. CASE outbox' = EndedOutbox
    BY <2>1, Resting DEF EndedOutbox, IdleOutbox
  <2>2. CASE outbox' = [step |-> "query", at |-> now, job |-> 0, relay |-> 0, number |-> 0,
                        outcome |-> "none"]
    <3>1. now \in 0..MaxTime
      BY ClockFacts
    <3> QED
      BY <2>2, <3>1, Bounds DEF OutboxTyped, Steps, Outcomes
  <2> QED
    BY <1>2, <2>1, <2>2
<1>4. Hand = {} /\ Hand' = {} /\ InHand'
  BY <1>1, <1>3 DEF Hand, Working, InHand
<1>5. GoodTable' /\ Sent' /\ Acknowledged' /\ LeftBehind'
  BY <1>1, <1>4, QuietStep
<1>6. now \in 1..now /\ \A j \in Jobs : jobs[j].updated <= now
  BY ClockFacts
<1> QED
  BY <1>1, <1>3, <1>4, <1>5, <1>6, OutboxMoves

\* The outbox picks a target, or finds none.
LEMMA QueryReadyTargetKeeps ==
    ASSUME DInv, QueryReadyTarget
    PROVE  DInv'
<1>1. /\ jobs' = jobs /\ process' = process /\ recovery' = recovery /\ now' = now
      /\ dispatch' = dispatch /\ received' = received /\ held' = held /\ kills' = kills
      /\ stops' = stops
      /\ process \in {"running", "draining", "stopping"} /\ outbox.step = "query"
  BY DEF QueryReadyTarget, OutboxUnchanged, environment, Alive
<1>2. \/ outbox' = IdleOutbox
      \/ \E j \in Jobs, r \in Relays :
            outbox' = [outbox EXCEPT !.step = "claim", !.job = j, !.relay = r]
  BY DEF QueryReadyTarget, ReadyTargets
<1>3. outbox.at \in 1..now /\ OutboxTyped
  BY <1>1 DEF DInv, Clocked, DaemonTypeOK, OutboxTyped
<1>4. /\ outbox'.step \in {"idle", "claim"}
      /\ outbox'.step = "claim" =>
            outbox'.at = outbox.at /\ outbox'.job \in Jobs /\ outbox'.relay \in Relays
      /\ OutboxTyped'
  <2>1. CASE outbox' = IdleOutbox
    BY <2>1, Resting DEF IdleOutbox
  <2>2. ASSUME NEW j \in Jobs, NEW r \in Relays,
               outbox' = [outbox EXCEPT !.step = "claim", !.job = j, !.relay = r]
        PROVE  /\ outbox'.step = "claim" /\ outbox'.at = outbox.at
               /\ outbox'.job \in Jobs /\ outbox'.relay \in Relays /\ OutboxTyped'
    <3>1. /\ outbox'.step = "claim" /\ outbox'.at = outbox.at /\ outbox'.job = j
          /\ outbox'.relay = r /\ outbox'.number = outbox.number
          /\ outbox'.outcome = outbox.outcome
          /\ outbox' \in [step : Steps, at : 0..MaxTime, job : Jobs \cup {0},
                          relay : Relays \cup {0}, number : 0..AttemptMax,
                          outcome : Outcomes \cup {"none"}]
      BY <1>3, <2>2 DEF OutboxTyped, Steps
    <3>2. outbox'.outcome \notin Outcomes /\ outbox'.job # 0
      BY <1>1, <1>3, <3>1, Bounds DEF OutboxTyped
    <3> QED
      BY <3>1, <3>2 DEF OutboxTyped
  <2> QED
    BY <1>2, <2>1, <2>2
<1>5. Hand = {} /\ Hand' = {} /\ InHand'
  BY <1>1, <1>4 DEF Hand, Working, InHand
<1>6. GoodTable' /\ Sent' /\ Acknowledged' /\ LeftBehind'
  BY <1>1, <1>5, QuietStep
<1>7. /\ \A j \in Jobs : jobs[j].updated <= now
      /\ \A j \in Jobs :
            jobs[j].status \notin {"absent", "pending"} => jobs[j].updated <= outbox.at
  BY <1>1, ClockFacts DEF DInv, Older
<1> QED
  BY <1>1, <1>3, <1>4, <1>5, <1>6, <1>7, OutboxMoves

\* The outbox goes on with the attempt it has in hand and leaves the store alone.
LEMMA GoingOnKeeps ==
    ASSUME DInv, PrepareDelivery \/ \E outcome \in Outcomes : AdapterReports(outcome)
    PROVE  DInv'
<1>1. /\ jobs' = jobs /\ process' = process /\ recovery' = recovery /\ now' = now
      /\ dispatch' = dispatch /\ received' = received /\ held' = held /\ kills' = kills
      /\ stops' = stops
      /\ process \in {"running", "draining", "stopping"}
  BY DEF PrepareDelivery, AdapterReports, OutboxUnchanged, environment, Alive
<1>2. \/ /\ outbox.step = "prepare"
         /\ outbox' = [outbox EXCEPT !.step = "persist", !.outcome = "TransportFailed"]
      \/ /\ outbox.step = "prepare"
         /\ outbox' = [outbox EXCEPT !.step = "submit"]
      \/ /\ outbox.step = "execute"
         /\ \E outcome \in Outcomes :
               /\ outcome = "Delivered" => <<outbox.job, outbox.relay>> \in held
               /\ outbox' = [outbox EXCEPT !.step = "persist", !.outcome = outcome]
  BY DEF PrepareDelivery, AdapterReports
<1>3. /\ outbox.at \in 1..now /\ OutboxTyped
      /\ outbox.job \in Jobs /\ outbox.relay \in Relays
      /\ outbox.step \in Working
  BY <1>2 DEF DInv, Clocked, DaemonTypeOK, OutboxTyped, Chosen, Working
<1>4. /\ outbox'.at = outbox.at /\ outbox'.job = outbox.job /\ outbox'.relay = outbox.relay
      /\ outbox'.number = outbox.number
      /\ outbox' \in [step : Steps, at : 0..MaxTime, job : Jobs \cup {0},
                      relay : Relays \cup {0}, number : 0..AttemptMax,
                      outcome : Outcomes \cup {"none"}]
      /\ \/ outbox.step = "prepare" /\ outbox'.step = "persist"
            /\ outbox'.outcome = "TransportFailed"
         \/ outbox.step = "prepare" /\ outbox'.step = "submit" /\ outbox'.outcome = outbox.outcome
         \/ outbox.step = "execute" /\ outbox'.step = "persist" /\ outbox'.outcome \in Outcomes
            /\ (outbox'.outcome = "Delivered" => <<outbox.job, outbox.relay>> \in held)
  BY <1>2, <1>3 DEF OutboxTyped, Steps, Outcomes
<1>5. OutboxTyped'
  BY <1>3, <1>4, Bounds DEF OutboxTyped, Outcomes
<1>6. InHand'
  BY <1>1, <1>3, <1>4 DEF DInv, InHand, Held, Working
<1>7. Hand' = Hand
  BY <1>3, <1>4 DEF Hand, Working
<1>8. GoodTable' /\ Sent' /\ Acknowledged' /\ LeftBehind'
  BY <1>1, <1>7, QuietStep
<1>9. /\ \A j \in Jobs : jobs[j].updated <= now
      /\ \A j \in Jobs :
            jobs[j].status \notin {"absent", "pending"} => jobs[j].updated <= outbox.at
  BY <1>3, ClockFacts DEF DInv, Older, Working
<1> QED
  BY <1>1, <1>3, <1>4, <1>5, <1>6, <1>8, <1>9, OutboxMoves

\* What a relay receives was submitted: the outbox is past that step.
LEMMA RelayReceivesKeeps ==
    ASSUME DInv, RelayReceives
    PROVE  DInv'
<1> DEFINE event == <<outbox.job, outbox.relay, outbox.number>>
<1>1. /\ jobs' = jobs /\ process' = process /\ recovery' = recovery /\ now' = now
      /\ dispatch' = dispatch /\ outbox' = outbox /\ kills' = kills /\ stops' = stops
      /\ outbox.step = "execute"
      /\ received' = received \cup {event}
      /\ held' = held \cup {<<outbox.job, outbox.relay>>} \/ held' = held
  BY DEF RelayReceives, OutboxUnchanged
<1>2. /\ outbox.job \in Jobs /\ outbox.relay \in Relays /\ outbox.number \in AttemptNumbers
      /\ jobs[outbox.job].attempt[outbox.relay][outbox.number].status = "submitted"
  BY <1>1 DEF DInv, Chosen, InHand, Working
<1>3. jobs[outbox.job].attempt[outbox.relay][outbox.number].submitted # 0
  <2>1. SoundAttempt(jobs[outbox.job].attempt[outbox.relay][outbox.number])
    BY <1>2 DEF DInv, GoodTable, GoodRow, SoundRow
  <2> QED
    BY <1>2, <2>1 DEF SoundAttempt, parse_attempt
<1>4. Sent'
  BY <1>1, <1>3 DEF DInv, Sent
<1>5. GoodTable' /\ TableAdvances(now, {}, {})
  BY <1>1, SameTable DEF DInv
<1>6. Acknowledged'
  BY <1>1, <1>5, AcknowledgedKept DEF DInv
<1>7. LeftBehind'
  <2>1. Hand' = Hand /\ kills \in Nat
    BY <1>1, DaemonAssumption DEF Hand, Working, DInv, DaemonTypeOK
  <2> QED
    BY <1>1, <1>5, <2>1, LeftBehindKept DEF DInv
<1>8. DaemonTypeOK'
  <2>1. /\ received' \subseteq Jobs \X Relays \X AttemptNumbers
        /\ held' \subseteq Jobs \X Relays
    BY <1>1, <1>2 DEF DInv, DaemonTypeOK
  <2>2. TypeOK'
    BY <1>5 DEF GoodTable, TypeOK
  <2> QED
    BY <1>1, <2>1, <2>2 DEF DInv, DaemonTypeOK
<1>9. Clocked' /\ Older' /\ Living' /\ Chosen'
  BY <1>1 DEF DInv, Clocked, Older, Living, Chosen
<1>10. InHand'
  BY <1>1 DEF DInv, InHand, Held, Working
<1> QED
  BY <1>4, <1>5, <1>6, <1>7, <1>8, <1>9, <1>10 DEF DInv

\* An admission writes a row nobody works on, or ends the task.
LEMMA CommitResponseKeeps ==
    ASSUME DInv, CommitResponse
    PROVE  DInv'
<1>1. /\ now' = now /\ recovery' = recovery /\ outbox' = outbox /\ received' = received
      /\ held' = held /\ kills' = kills /\ stops' = stops
      /\ process \in {"running", "draining", "stopping"} /\ dispatch.step = "commit"
  BY DEF CommitResponse, environment, Alive
<1>2. /\ dispatch' \in {IdleDispatch, EndedDispatch}
      /\ process' \in {"running", "draining", "stopping"}
      /\ \/ jobs' = jobs
         \/ \E p \in Policies : CreateJob(dispatch.job, p, dispatch.at)
  BY <1>1 DEF CommitResponse, BeginShutdown
<1>3. /\ dispatch' \in [step : {"idle", "commit", "ended"}, job : Jobs \cup {0}, at : 0..MaxTime]
      /\ dispatch'.step # "commit"
  BY <1>2, Bounds DEF IdleDispatch, EndedDispatch
<1>4. dispatch.job \in Jobs /\ dispatch.at \in 1..now /\ dispatch.at \in Times
  BY <1>1, ClockFacts DEF DInv, Chosen, Clocked
<1>5. kills \in Nat /\ Hand' = Hand
  BY <1>1, DaemonAssumption DEF DInv, DaemonTypeOK, Hand, Working
<1>6. /\ GoodTable' /\ TableAdvances(dispatch.at, {}, {})
      /\ \A k \in Jobs : \/ jobs'[k] = jobs[k]
                         \/ jobs[k].status = "absent" /\ jobs'[k].status = "pending"
  <2>1. CASE jobs' = jobs
    BY <2>1, SameTable DEF DInv
  <2>2. ASSUME NEW p \in Policies, CreateJob(dispatch.job, p, dispatch.at)
        PROVE  /\ GoodTable' /\ TableAdvances(dispatch.at, {}, {})
               /\ \A k \in Jobs : \/ jobs'[k] = jobs[k]
                                  \/ jobs[k].status = "absent" /\ jobs'[k].status = "pending"
    <3> DEFINE j == dispatch.job
               t == dispatch.at
               new == create_job(p, t)
    <3>1. jobs[j].status = "absent" /\ jobs' = [jobs EXCEPT ![j] = new]
      BY <2>2 DEF CreateJob, CreateAnswer
    <3>2. GoodRow(jobs[j]) /\ GoodTable
      BY <1>4 DEF DInv, GoodTable
    <3>3. GoodRow(new) /\ Advances(jobs[j], new, t, {}, {})
      BY <1>4, <3>1, <3>2, CreateGood, CreateAdvances
    <3>4. new.status = "pending"
      BY DEF create_job
    <3>a. j \in Jobs
      BY <1>4
    <3> HIDE DEF new, j, t
    <3>5. /\ GoodTable' /\ TableAdvances(t, {}, {}) /\ jobs'[j] = new
          /\ \A k \in Jobs : k # j => jobs'[k] = jobs[k]
      BY <3>a, <3>1, <3>2, <3>3, PlainJobStep
    <3> QED
      BY <3>1, <3>4, <3>5 DEF t
  <2> QED
    BY <1>2, <2>1, <2>2
<1>7. Sent' /\ Acknowledged' /\ LeftBehind'
  BY <1>1, <1>5, <1>6, SentKept, AcknowledgedKept, LeftBehindKept DEF DInv
<1>8. Older'
  BY <1>1, <1>6 DEF DInv, Older
<1>9. InHand'
  <2> SUFFICES ASSUME outbox.step \in Working PROVE InHand'
    BY <1>1 DEF InHand
  <2>1. /\ outbox.job \in Jobs /\ outbox.relay \in Relays
        /\ Held(jobs[outbox.job], outbox.relay, outbox.number, outbox.at)
    BY DEF DInv, Chosen, InHand, Working
  <2>2. jobs[outbox.job].status # "absent"
    <3>1. jobs[outbox.job].target[outbox.relay].status # "none"
      BY <2>1 DEF Held, ActiveAttemptStatus
    <3> QED
      BY <2>1, <3>1 DEF DInv, GoodTable, GoodRow, SoundRow
  <2>3. jobs'[outbox.job] = jobs[outbox.job]
    BY <1>6, <2>1, <2>2
  <2> QED
    BY <1>1, <2>3 DEF DInv, InHand, Held, Working
<1>10. DaemonTypeOK'
  <2>1. TypeOK' /\ process' \in ProcessStates
    BY <1>2, <1>6 DEF GoodTable, TypeOK, ProcessStates
  <2> QED
    BY <1>1, <1>3, <2>1 DEF DInv, DaemonTypeOK
<1>11. Clocked'
  <2>1. \A j \in Jobs : jobs'[j].updated <= now
    BY <1>4, <1>6, ClockFacts DEF TableAdvances
  <2> QED
    BY <1>1, <1>2, <1>3, <2>1 DEF DInv, Clocked
<1>12. Living' /\ Chosen'
  BY <1>1, <1>2, <1>3 DEF DInv, Living, Chosen
<1> QED
  BY <1>6, <1>7, <1>8, <1>9, <1>10, <1>11, <1>12 DEF DInv

\* A step of the outbox that dates the store with its own reading.
LEMMA OutboxDates ==
    ASSUME DInv, outbox.at \in 1..now, outbox.step \notin {"idle", "ended"},
           NEW C, NEW L, TableAdvances(outbox.at, C, L), NEW j \in Jobs,
           \A k \in Jobs : k # j => jobs'[k] = jobs[k]
    PROVE  /\ \A k \in Jobs : jobs'[k].updated <= now
           /\ jobs[j].status \notin {"absent", "pending"} \/ jobs'[j].updated = outbox.at =>
                 \A k \in Jobs :
                    jobs'[k].status \notin {"absent", "pending"} => jobs'[k].updated <= outbox.at
<1>1. \A k \in Jobs : jobs'[k].updated = jobs[k].updated \/ jobs'[k].updated = outbox.at
  BY DEF TableAdvances
<1>2. \A k \in Jobs : jobs[k].status \notin {"absent", "pending"} => jobs[k].updated <= outbox.at
  BY DEF DInv, Older
<1> QED
  BY <1>1, <1>2, ClockFacts

\* The outbox goes idle or ends with nothing in hand.
LEMMA OutboxGivesUp ==
    ASSUME DInv, outbox' \in {IdleOutbox, EndedOutbox}, jobs' = jobs, now' = now,
           recovery' = recovery, dispatch' = dispatch, received' = received, held' = held,
           kills' = kills, stops' = stops,
           process \in {"running", "draining", "stopping"},
           process' \in {"running", "draining", "stopping"},
           outbox.step \notin Working
    PROVE  DInv'
<1>1. OutboxTyped' /\ outbox'.step \in {"idle", "ended"} /\ InHand'
  BY Resting
<1>2. Hand = {}
  BY DEF Hand
<1>3. GoodTable' /\ Sent' /\ Acknowledged' /\ LeftBehind'
  BY <1>2, QuietStep
<1>4. \A j \in Jobs : jobs[j].updated <= now
  BY ClockFacts
<1> QED
  BY <1>1, <1>3, <1>4, OutboxMoves

\* A claim is dated no earlier than the row it begins with.
LEMMA ClaimDated ==
    ASSUME NEW row \in JobRow, NEW r \in Relays, NEW nonce \in Nonces, NEW t \in Times,
           ClaimAnswer(row, r, nonce, t) = "Claimed"
    PROVE  LET new == claim_target(row, r, nonce, t)
               n == row.target[r].count + 1 IN
           /\ Held(new, r, n, t) /\ n \in AttemptNumbers /\ new.attempt[r][n].status = "leased"
           /\ row.status = "pending" => new.updated = t
           /\ row.status \in {"pending", "active"}
           /\ row.target[r].active = 0
<1> DEFINE number == row.target[r].count + 1
           target == [status |-> "leased", count |-> number, active |-> number,
                      next |-> 0, updated |-> t]
           attempt == [nonce |-> nonce, status |-> "leased", leased |-> t,
                       expires |-> t + row.policy.deadline, submitted |-> 0,
                       resolved |-> 0, reason |-> "none"]
           mid == Rewrite(row, r, number, target, attempt)
           new == claim_target(row, r, nonce, t)
<1>1. number \in AttemptNumbers /\ target \in TargetRow /\ attempt \in AttemptRow
  BY ClaimType
<1>2. /\ target.status = "leased" /\ target.active = number /\ target.updated = t
      /\ attempt.status = "leased" /\ attempt.leased = t /\ attempt.submitted = 0
      /\ attempt.expires = t + row.policy.deadline
  OBVIOUS
<1>3. t \in Nat /\ row.policy.deadline \in Nat
  <2>1. row.policy \in Policy
    BY DeliveryAssumption DEF JobRow
  <2> QED
    BY <2>1, DeliveryAssumption DEF Policy, Times
<1>4. row.status \in {"pending", "active"} /\ row.target[r].active = 0
  <2>1. ~Terminal(row) /\ row.status # "absent" /\ row.status \in JobStatus /\ row.target[r].active = 0
    BY ClaimedFacts DEF JobRow
  <2> QED
    BY <2>1 DEF Terminal, JobStatus, OpenStatus
<1>5. /\ new.target = mid.target /\ new.attempt = mid.attempt /\ new.status = "active"
      /\ row.status = "pending" => new.updated = t
  <2>1. mid \in JobRow
    <3> HIDE DEF target, attempt, number
    <3> QED
      BY <1>1, RewriteFacts
  <2>2. new = [mid EXCEPT !.status = "active",
                          !.updated = IF row.status = "pending" THEN t ELSE @]
    BY DEF claim_target
  <2> HIDE DEF mid, new
  <2> QED
    BY <2>1, <2>2 DEF JobRow
<1> HIDE DEF target, attempt, number, new
<1>6. mid.target[r] = target /\ mid.attempt[r][number] = attempt
  BY <1>1, RewriteFacts
<1> HIDE DEF mid
<1>7. Held(new, r, number, t) /\ new.attempt[r][number].status = "leased"
  BY <1>2, <1>3, <1>5, <1>6 DEF Held, ActiveAttemptStatus
<1> QED
  BY <1>1, <1>4, <1>5, <1>7 DEF new, number

\* What a claim begins is what the outbox then has in hand.
LEMMA ClaimReadyTargetKeeps ==
    ASSUME DInv, ClaimReadyTarget
    PROVE  DInv'
<1> DEFINE j == outbox.job
           r == outbox.relay
           t == outbox.at
           nonce == FreshNonce(j, r)
           number == jobs[j].target[r].count + 1
           new == claim_target(jobs[j], r, nonce, t)
<1>1. /\ now' = now /\ recovery' = recovery /\ dispatch' = dispatch /\ received' = received
      /\ held' = held /\ kills' = kills /\ stops' = stops
      /\ process \in {"running", "draining", "stopping"} /\ outbox.step = "claim"
  BY DEF ClaimReadyTarget, OutboxUnchanged, environment, Alive
<1>2. \/ /\ jobs' = jobs /\ outbox' \in {IdleOutbox, EndedOutbox}
         /\ process' \in {"running", "draining", "stopping"}
      \/ /\ ClaimTarget(j, r, nonce, t)
         /\ outbox' = [outbox EXCEPT !.step = "prepare", !.number = number]
         /\ process' = process
  BY <1>1 DEF ClaimReadyTarget, TaskFailure, BeginShutdown
<1>3. CASE jobs' = jobs /\ outbox' \in {IdleOutbox, EndedOutbox}
           /\ process' \in {"running", "draining", "stopping"}
  BY <1>1, <1>3, OutboxGivesUp DEF Working
<1>4. CASE /\ ClaimTarget(j, r, nonce, t)
           /\ outbox' = [outbox EXCEPT !.step = "prepare", !.number = number]
           /\ process' = process
  <2>1. /\ j \in Jobs /\ r \in Relays /\ t \in 1..now /\ t \in Times /\ OutboxTyped
        /\ GoodTable /\ GoodRow(jobs[j]) /\ jobs[j] \in JobRow /\ kills \in Nat
    <3>1. j \in Jobs /\ r \in Relays /\ t \in 1..now /\ GoodTable
      BY <1>1 DEF DInv, Chosen, Clocked
    <3>2. OutboxTyped /\ kills \in Nat
      BY DaemonAssumption DEF DInv, DaemonTypeOK, OutboxTyped
    <3> QED
      BY <3>1, <3>2, ClockFacts DEF GoodTable
  <2>2. nonce \in Nonces
    BY <2>1, FreshNonceExists
  <2>3. ClaimAnswer(jobs[j], r, nonce, t) = "Claimed" /\ jobs' = [jobs EXCEPT ![j] = new]
    BY <1>4 DEF ClaimTarget
  <2> HIDE DEF nonce
  <2>4. GoodRow(new) /\ Advances(jobs[j], new, t, {}, {<<r, number>>})
    BY <2>1, <2>2, <2>3, ClaimGood
  <2>5. /\ Held(new, r, number, t) /\ number \in AttemptNumbers
        /\ new.attempt[r][number].status = "leased"
        /\ jobs[j].status = "pending" => new.updated = t
        /\ jobs[j].status \in {"pending", "active"}
    BY <2>1, <2>2, <2>3, ClaimDated
  <2> HIDE DEF new, number
  <2>6. /\ outbox'.step = "prepare" /\ outbox'.at = t /\ outbox'.job = j /\ outbox'.relay = r
        /\ outbox'.number = number /\ outbox'.outcome = outbox.outcome
        /\ outbox' \in [step : Steps, at : 0..MaxTime, job : Jobs \cup {0},
                        relay : Relays \cup {0}, number : 0..AttemptMax,
                        outcome : Outcomes \cup {"none"}]
    BY <1>4, <2>1, <2>5, Bounds DEF OutboxTyped, Steps
  <2>7. OutboxTyped'
    BY <1>1, <2>1, <2>6, Bounds DEF OutboxTyped
  <2>8. Hand = {} /\ Hand' = {<<j, r, number>>}
    BY <1>1, <2>6 DEF Hand, Working
  <2> HIDE DEF j, r, t
  <2>9. /\ GoodTable' /\ TableAdvances(t, {}, {<<j, r, number>>}) /\ jobs'[j] = new
        /\ \A k \in Jobs : k # j => jobs'[k] = jobs[k]
    BY <2>1, <2>3, <2>4, LeaseJobStep
  <2>10. Sent' /\ Acknowledged' /\ LeftBehind'
    BY <1>1, <2>1, <2>8, <2>9, SentKept, AcknowledgedKept, LeftBehindKept DEF DInv
  <2>11. InHand'
    BY <2>5, <2>6, <2>9 DEF InHand
  <2>12. /\ \A k \in Jobs : jobs'[k].updated <= now
         /\ \A k \in Jobs :
               jobs'[k].status \notin {"absent", "pending"} => jobs'[k].updated <= t
    BY <1>1, <2>1, <2>5, <2>9, OutboxDates DEF t
  <2> QED
    BY <1>1, <1>4, <2>1, <2>6, <2>7, <2>9, <2>10, <2>11, <2>12, OutboxMoves
<1> QED
  BY <1>2, <1>3, <1>4

\* What is known of the attempt in hand.
LEMMA HandFacts ==
    ASSUME DInv, outbox.step \in Working
    PROVE  /\ outbox.job \in Jobs /\ outbox.relay \in Relays /\ outbox.number \in AttemptNumbers
           /\ outbox.at \in 1..now /\ outbox.at \in Times
           /\ OutboxTyped /\ GoodTable /\ GoodRow(jobs[outbox.job]) /\ kills \in Nat
           /\ Held(jobs[outbox.job], outbox.relay, outbox.number, outbox.at)
           /\ outbox.step \notin {"idle", "ended"}
<1>1. /\ outbox.job \in Jobs /\ outbox.relay \in Relays /\ outbox.at \in 1..now /\ GoodTable
      /\ outbox.step \notin {"idle", "ended"}
  BY DEF DInv, Chosen, Clocked, Working
<1>2. OutboxTyped /\ kills \in Nat
  BY DaemonAssumption DEF DInv, DaemonTypeOK, OutboxTyped
<1>3. /\ outbox.number \in AttemptNumbers
      /\ Held(jobs[outbox.job], outbox.relay, outbox.number, outbox.at)
  BY DEF DInv, InHand
<1> QED
  BY <1>1, <1>2, <1>3, ClockFacts DEF GoodTable

\* The submission of the attempt in hand is accepted.
LEMMA SubmitAccepted ==
    ASSUME NEW row \in JobRow, NEW r \in Relays, NEW n \in AttemptNumbers, NEW t \in Times,
           Held(row, r, n, t), row.attempt[r][n].status = "leased"
    PROVE  LET new == mark_submitted(row, r, n, t) IN
           /\ SubmitAnswer(row, r, n, t) = "Submitted"
           /\ Held(new, r, n, t)
           /\ new.attempt[r][n].status = "submitted"
<1> DEFINE target == [row.target[r] EXCEPT !.status = "submitted", !.updated = t]
           attempt == [row.attempt[r][n] EXCEPT !.status = "submitted", !.submitted = t]
           new == mark_submitted(row, r, n, t)
<1>1. target \in TargetRow /\ attempt \in AttemptRow
  BY SubmitType
<1>2. row.target[r] \in TargetRow /\ row.attempt[r][n] \in AttemptRow
  BY RowParts
<1>3. /\ t \in Nat /\ row.attempt[r][n].leased \in Nat /\ row.attempt[r][n].expires \in Nat
      /\ row.target[r].updated \in Nat
  BY <1>2, TimesAreNumbers
<1>4. SubmitAnswer(row, r, n, t) = "Submitted"
  BY <1>3 DEF SubmitAnswer, Held
<1>5. /\ target.status = "submitted" /\ target.active = row.target[r].active /\ target.updated = t
      /\ attempt.status = "submitted" /\ attempt.submitted = t
      /\ attempt.leased = row.attempt[r][n].leased /\ attempt.expires = row.attempt[r][n].expires
  BY <1>2 DEF TargetRow, AttemptRow
<1> HIDE DEF target, attempt
<1>6. new.status = row.status /\ new.target[r] = target /\ new.attempt[r][n] = attempt
  BY <1>1, RewriteFacts DEF mark_submitted, target, attempt
<1> HIDE DEF new
<1>7. Held(new, r, n, t)
  BY <1>3, <1>5, <1>6 DEF Held, ActiveAttemptStatus
<1> QED
  BY <1>4, <1>5, <1>6, <1>7 DEF new

\* The submission is recorded before the outbox goes on to send.
LEMMA SubmitDeliveryKeeps ==
    ASSUME DInv, SubmitDelivery
    PROVE  DInv'
<1> DEFINE j == outbox.job
           r == outbox.relay
           n == outbox.number
           t == outbox.at
           new == mark_submitted(jobs[j], r, n, t)
<1>1. /\ now' = now /\ recovery' = recovery /\ dispatch' = dispatch /\ received' = received
      /\ held' = held /\ kills' = kills /\ stops' = stops
      /\ process \in {"running", "draining", "stopping"} /\ outbox.step = "submit"
  BY DEF SubmitDelivery, OutboxUnchanged, environment, Alive
<1>2. /\ j \in Jobs /\ r \in Relays /\ n \in AttemptNumbers /\ t \in 1..now /\ t \in Times
      /\ OutboxTyped /\ GoodTable /\ GoodRow(jobs[j]) /\ kills \in Nat
      /\ Held(jobs[j], r, n, t)
  BY <1>1, HandFacts DEF Working
<1>3. jobs[j].attempt[r][n].status = "leased"
  BY <1>1 DEF DInv, InHand, Working
<1>4. /\ SubmitAnswer(jobs[j], r, n, t) = "Submitted"
      /\ Held(new, r, n, t) /\ new.attempt[r][n].status = "submitted"
  BY <1>2, <1>3, SubmitAccepted DEF GoodRow
<1>5. /\ jobs' = [jobs EXCEPT ![j] = new]
      /\ outbox' = [outbox EXCEPT !.step = "execute"]
      /\ process' = process
  BY <1>4 DEF SubmitDelivery, MarkSubmitted
<1>6. GoodRow(new) /\ Advances(jobs[j], new, t, {}, {})
  BY <1>2, <1>4, SubmitGood
<1>7. /\ outbox'.step = "execute" /\ outbox'.at = t /\ outbox'.job = j /\ outbox'.relay = r
      /\ outbox'.number = n /\ outbox'.outcome = outbox.outcome
      /\ outbox' \in [step : Steps, at : 0..MaxTime, job : Jobs \cup {0},
                      relay : Relays \cup {0}, number : 0..AttemptMax,
                      outcome : Outcomes \cup {"none"}]
  BY <1>2, <1>5 DEF OutboxTyped, Steps
<1>8. OutboxTyped'
  BY <1>1, <1>2, <1>7, Bounds DEF OutboxTyped
<1>9. Hand' = Hand
  BY <1>1, <1>7 DEF Hand, Working
<1> HIDE DEF new, j, r, n, t
<1>10. /\ GoodTable' /\ TableAdvances(t, {}, {}) /\ jobs'[j] = new
       /\ \A k \in Jobs : k # j => jobs'[k] = jobs[k]
  BY <1>2, <1>5, <1>6, PlainJobStep
<1>11. Sent' /\ Acknowledged' /\ LeftBehind'
  BY <1>1, <1>2, <1>9, <1>10, SentKept, AcknowledgedKept, LeftBehindKept DEF DInv
<1>12. InHand'
  BY <1>2, <1>4, <1>7, <1>10 DEF InHand
<1>13. /\ \A k \in Jobs : jobs'[k].updated <= now
       /\ \A k \in Jobs :
             jobs'[k].status \notin {"absent", "pending"} => jobs'[k].updated <= t
  <2>1. jobs[j].status \notin {"absent", "pending"}
    BY <1>2 DEF Held
  <2> QED
    BY <1>1, <1>2, <1>10, <2>1, OutboxDates DEF t
<1> QED
  BY <1>1, <1>2, <1>5, <1>7, <1>8, <1>10, <1>11, <1>12, <1>13, OutboxMoves

\* The outcome of the attempt in hand is accepted, and ends it.
LEMMA OutcomeAccepted ==
    ASSUME NEW row, GoodRow(row), NEW r \in Relays, NEW n \in AttemptNumbers, NEW t \in Times,
           NEW o \in Outcomes, NEW jitter \in delivery_retry_jitter(row.policy, n, o),
           Held(row, r, n, t), t + JitterMax <= MaxTime, row.updated <= t,
           row.attempt[r][n].status = "submitted" \/ o = "TransportFailed"
    PROVE  /\ jitter \in Jitters
           /\ OutcomeAnswer(row, r, n, o, jitter, t) = "Recorded"
           /\ record_outcome(row, r, n, o, jitter, t).attempt[r][n].status \in TerminalStatus
<1>1. /\ row \in JobRow /\ jitter \in Jitters /\ row.policy.max \in Nat /\ n \in Nat
      /\ t \in Nat /\ jitter \in Nat /\ jitter <= JitterMax /\ JitterMax \in Nat /\ MaxTime \in Nat
  <2>1. row \in JobRow /\ jitter \in Jitters
    BY DEF GoodRow, delivery_retry_jitter
  <2>2. row.policy.max \in AttemptNumbers
    BY <2>1, CountsAreBounded
  <2> QED
    BY <2>1, <2>2, DeliveryAssumption DEF Jitters, AttemptNumbers, Times
<1>2. row.target[r].count = n
  <2>1. History(row, r)
    BY DEF GoodRow, RowHistory
  <2> QED
    BY <2>1, <1>1 DEF History, Held, ActiveAttemptStatus, ActiveTargetStatus
<1>3. /\ OutcomeStatus(o) \in TerminalStatus /\ OutcomeReason(o) \in Reasons
      /\ (OutcomeStatus(o) \in {"failed", "unknown"}) <=> (o # "Delivered")
      /\ row.attempt[r][n].status \in RequiredPrior(o)
  BY DEF Outcomes, OutcomeStatus, OutcomeReason, TerminalStatus, Reasons, RequiredPrior, Held,
         ActiveAttemptStatus
<1>4. ResolveAccepted(row, r, n, OutcomeStatus(o), jitter, t)
  <2>1. t >= row.target[r].updated
    BY <1>1, RowParts, TimesAreNumbers DEF Held
  <2>2. SchedulesRetry(row, r, OutcomeStatus(o)) <=> n < row.policy.max /\ o # "Delivered"
    BY <1>2, <1>3 DEF SchedulesRetry, AttemptsRemaining
  <2>3. CASE SchedulesRetry(row, r, OutcomeStatus(o))
    <3>1. jitter <= BackoffCap(row.policy, n)
      BY <1>1, <2>2, <2>3 DEF delivery_retry_jitter
    <3>2. t + jitter <= MaxTime
      BY <1>1
    <3> QED
      BY <2>1, <2>3, <3>1, <3>2 DEF ResolveAccepted, Held
  <2>4. CASE ~SchedulesRetry(row, r, OutcomeStatus(o))
    <3>1. jitter = 0
      BY <1>1, <2>2, <2>4 DEF delivery_retry_jitter
    <3> QED
      BY <2>1, <2>4, <3>1 DEF ResolveAccepted, Held
  <2> QED
    BY <2>3, <2>4
<1> DEFINE target == [row.target[r] EXCEPT
                        !.status = ResolvedTargetStatus(row, r, OutcomeStatus(o)), !.active = 0,
                        !.next = IF SchedulesRetry(row, r, OutcomeStatus(o)) THEN t + jitter ELSE 0,
                        !.updated = t]
           attempt == [row.attempt[r][n] EXCEPT
                        !.status = OutcomeStatus(o), !.resolved = t, !.reason = OutcomeReason(o)]
           mid == recorded(row, r, n, o, jitter, t)
<1>5. target \in TargetRow /\ attempt \in AttemptRow
  BY <1>1, <1>3, <1>4, ResolveType
<1>6. attempt.status = OutcomeStatus(o)
  BY <1>1, RowParts DEF AttemptRow
<1> HIDE DEF target, attempt
<1>7. mid \in JobRow /\ mid.updated = row.updated /\ mid.attempt[r][n] = attempt
  BY <1>1, <1>5, RewriteFacts DEF recorded, resolve_attempt_and_target, target, attempt
<1> HIDE DEF mid
<1>8. FinalizeAccepted(mid, t)
  <2>1. row.updated \in Nat
    BY <1>1 DEF JobRow
  <2> QED
    BY <1>1, <1>7, <2>1 DEF FinalizeAccepted
<1>9. OutcomeAnswer(row, r, n, o, jitter, t) = "Recorded"
  <2>1. row.attempt[r][n].status \notin TerminalStatus
    BY DEF Held, ActiveAttemptStatus, TerminalStatus
  <2> QED
    BY <1>3, <1>4, <1>8, <2>1 DEF OutcomeAnswer, Held, mid
<1>10. finalize_job_if_terminal(mid, t).attempt = mid.attempt
  BY <1>7 DEF finalize_job_if_terminal, JobRow
<1> QED
  BY <1>1, <1>3, <1>6, <1>7, <1>9, <1>10 DEF record_outcome, mid

\* The outcome ends the attempt in hand, so that none is left behind.
LEMMA PersistOutcomeKeeps ==
    ASSUME DInv, PersistOutcome
    PROVE  DInv'
<1> DEFINE j == outbox.job
           r == outbox.relay
           n == outbox.number
           t == outbox.at
           o == outbox.outcome
<1>1. /\ now' = now /\ recovery' = recovery /\ dispatch' = dispatch /\ received' = received
      /\ held' = held /\ kills' = kills /\ stops' = stops
      /\ process \in {"running", "draining", "stopping"} /\ outbox.step = "persist"
  BY DEF PersistOutcome, OutboxUnchanged, environment, Alive
<1>2. /\ j \in Jobs /\ r \in Relays /\ n \in AttemptNumbers /\ t \in 1..now /\ t \in Times
      /\ OutboxTyped /\ GoodTable /\ GoodRow(jobs[j]) /\ kills \in Nat
      /\ Held(jobs[j], r, n, t)
  BY <1>1, HandFacts DEF Working
<1>3. /\ o \in Outcomes
      /\ jobs[j].attempt[r][n].status = "submitted" \/ o = "TransportFailed"
      /\ o = "Delivered" => <<j, r>> \in held
  <2>1. o \in Outcomes
    BY <1>1, <1>2 DEF OutboxTyped
  <2> QED
    BY <1>1, <2>1 DEF DInv, InHand, Working
<1>4. jobs[j].status \notin {"absent", "pending"} /\ jobs[j].updated <= t
  BY <1>1, <1>2 DEF Held, DInv, Older
<1>5. t + JitterMax <= MaxTime
  BY <1>2, ClockFacts
<1>6. PICK jitter \in delivery_retry_jitter(jobs[j].policy, n, o) :
         \/ /\ RecordOutcome(j, r, n, o, jitter, t)
            /\ outbox' = IdleOutbox
            /\ UNCHANGED process
         \/ /\ OutcomeAnswer(jobs[j], r, n, o, jitter, t) = "Binding"
            /\ TaskFailure
  BY DEF PersistOutcome
<1> DEFINE new == record_outcome(jobs[j], r, n, o, jitter, t)
<1> HIDE DEF j, r, n, t, o
<1>7. /\ jitter \in Jitters /\ OutcomeAnswer(jobs[j], r, n, o, jitter, t) = "Recorded"
      /\ new.attempt[r][n].status \in TerminalStatus
  BY <1>2, <1>3, <1>4, <1>5, OutcomeAccepted
<1>8. jobs' = [jobs EXCEPT ![j] = new] /\ outbox' = IdleOutbox /\ process' = process
  BY <1>6, <1>7 DEF RecordOutcome
<1>9. GoodRow(new) /\ Advances(jobs[j], new, t, {s \in Relays : <<j, s>> \in held}, {})
  <2> DEFINE D == {s \in Relays : <<j, s>> \in held}
  <2>1. o = "Delivered" => r \in D
    BY <1>2, <1>3
  <2> HIDE DEF D
  <2>2. GoodRow(new) /\ Advances(jobs[j], new, t, D, {})
    BY <1>2, <1>3, <1>7, <2>1, RecordGood
  <2> QED
    BY <2>2 DEF D
<1> HIDE DEF new
<1>10. /\ GoodTable' /\ TableAdvances(t, held, {}) /\ jobs'[j] = new
       /\ \A k \in Jobs : k # j => jobs'[k] = jobs[k]
  BY <1>2, <1>8, <1>9, ConfirmJobStep
<1>11. OutboxTyped' /\ outbox'.step \in {"idle", "ended"} /\ InHand' /\ Hand' = {}
  BY <1>8, Resting
<1>12. Hand \cap RunningAttempts' = {}
  <2>1. Hand = {<<j, r, n>>}
    BY <1>1 DEF Hand, Working, j, r, n
  <2>2. jobs'[j].attempt[r][n].status \notin ActiveAttemptStatus
    BY <1>7, <1>10 DEF TerminalStatus, ActiveAttemptStatus
  <2>3. <<j, r, n>> \notin RunningAttempts'
    BY <2>2 DEF RunningAttempts
  <2> QED
    BY <2>1, <2>3
<1>13. LeftBehind'
  BY <1>1, <1>2, <1>10, <1>11, <1>12, LeftBehindKept DEF DInv
<1>14. Sent' /\ Acknowledged'
  BY <1>1, <1>10, SentKept, AcknowledgedKept DEF DInv
<1>15. \A k \in Jobs : jobs'[k].updated <= now
  BY <1>1, <1>2, <1>10, OutboxDates DEF t
<1> QED
  BY <1>1, <1>8, <1>10, <1>11, <1>13, <1>14, <1>15, OutboxMoves

\* A batch that leaves jobs to be examined examined at least one.
LEMMA BatchMovesOn ==
    ASSUME Batch # Examined
    PROVE  Max(Batch) \in Jobs
<1>1. /\ Batch \subseteq Examined /\ Examined \subseteq Jobs
      /\ Jobs \subseteq Nat /\ IsFiniteSet(Jobs) /\ RecoveryBatch \in Nat \ {0}
  BY DeliveryAssumption, DaemonAssumption DEF Batch, Examined, ActiveJobs
<1>2. Examined # {} /\ Examined \subseteq Nat
  BY <1>1
<1>3. PICK m \in Examined : \A k \in Examined : ~(k < m)
  BY <1>2, LeastNumber
<1>4. Cardinality({k \in Examined : k < m}) = 0
  <2>1. {k \in Examined : k < m} = {}
    BY <1>3
  <2> QED
    BY <2>1, FS_EmptySet
<1>5. m \in Batch
  BY <1>1, <1>4 DEF Batch
<1>6. IsFiniteSet(Batch) /\ Batch \subseteq Nat /\ Batch # {}
  BY <1>1, <1>5, FS_Subset
<1>7. Max(Batch) \in Batch
  BY <1>6, MaxExists
<1> QED
  BY <1>1, <1>7

\* The rows of a batch that recovery accepts.
LEMMA BatchAdvances ==
    ASSUME GoodTable, recovery.at \in Times, NEW jitter \in BatchJitter,
           \A j \in Batch : RecoverRow(jobs[j], jitter[j], recovery.at).ok,
           jobs' = [j \in Jobs |-> IF j \in Batch
                                   THEN RecoverRow(jobs[j], jitter[j], recovery.at).row
                                   ELSE jobs[j]]
    PROVE  GoodTable' /\ TableAdvances(recovery.at, {}, {})
<1>1. ASSUME NEW j \in Jobs, j \in Batch
      PROVE  GoodRow(jobs'[j]) /\ Advances(jobs[j], jobs'[j], recovery.at, {}, {})
  <2>1. jitter[j] \in [Relays -> Jitters]
    BY <1>1 DEF BatchJitter
  <2>2. GoodRow(jobs[j]) /\ jobs'[j] = RecoverRow(jobs[j], jitter[j], recovery.at).row
    BY <1>1 DEF GoodTable
  <2>3. RecoverRow(jobs[j], jitter[j], recovery.at).ok
    BY <1>1
  <2>4. /\ GoodRow(RecoverRow(jobs[j], jitter[j], recovery.at).row)
        /\ Advances(jobs[j], RecoverRow(jobs[j], jitter[j], recovery.at).row, recovery.at, {}, {})
    BY <2>1, <2>2, <2>3, RecoverRowGood
  <2> QED
    BY <2>2, <2>4
<1>2. ASSUME NEW j \in Jobs, j \notin Batch PROVE GoodRow(jobs'[j]) /\ jobs'[j] = jobs[j]
  BY <1>2 DEF GoodTable
<1>3. \A j \in Jobs : GoodRow(jobs'[j])
  BY <1>1, <1>2
<1>4. DOMAIN jobs' = Jobs /\ jobs' = [j \in Jobs |-> jobs'[j]]
  OBVIOUS
<1>5. GoodTable'
  BY <1>3, <1>4 DEF GoodTable, GoodRow
<1>6. ASSUME NEW j \in Jobs
      PROVE  /\ \A r \in Relays, n \in AttemptNumbers :
                   /\ jobs[j].attempt[r][n].submitted # 0 => jobs'[j].attempt[r][n].submitted # 0
                   /\ jobs'[j].attempt[r][n].status \in ActiveAttemptStatus =>
                         jobs[j].attempt[r][n].status \in ActiveAttemptStatus
             /\ \A r \in Relays :
                   jobs'[j].target[r].status = "delivered" => jobs[j].target[r].status = "delivered"
             /\ jobs'[j].updated = jobs[j].updated \/ jobs'[j].updated = recovery.at
  <2>1. CASE j \in Batch
    BY <1>1, <2>1 DEF Advances
  <2>2. CASE j \notin Batch
    BY <1>2, <2>2
  <2> QED
    BY <2>1, <2>2
<1>7. TableAdvances(recovery.at, {}, {})
  BY <1>6 DEF TableAdvances
<1> QED
  BY <1>5, <1>7

\* Recovery: nothing is in hand, and each row of the batch advances.
LEMMA RecoverBatchKeeps ==
    ASSUME DInv, RecoverBatch
    PROVE  DInv'
<1>1. /\ now' = now /\ received' = received /\ held' = held /\ kills' = kills /\ stops' = stops
      /\ process = "recovering"
  BY DEF RecoverBatch, environment
<1>2. outbox = EndedOutbox /\ dispatch = EndedDispatch
  BY <1>1 DEF DInv, Living
<1>3. outbox.step = "ended" /\ Hand = {}
  BY <1>2 DEF EndedOutbox, IdleOutbox, Hand, Working
<1>4. recovery.at \in Times /\ recovery.at <= now /\ recovery.at \in 1..now
      /\ recovery \in [at : 0..MaxTime, cursor : Jobs \cup {0}]
  BY <1>1, ClockFacts DEF DInv, Clocked, DaemonTypeOK
<1>5. GoodTable' /\ TableAdvances(recovery.at, {}, {})
  <2>0. GoodTable
    BY DEF DInv
  <2>1. PICK jitter \in BatchJitter :
           \/ jobs' = jobs
           \/ /\ \A j \in Batch : RecoverRow(jobs[j], jitter[j], recovery.at).ok
              /\ jobs' = [j \in Jobs |-> IF j \in Batch
                                         THEN RecoverRow(jobs[j], jitter[j], recovery.at).row
                                         ELSE jobs[j]]
    BY DEF RecoverBatch
  <2> QED
    BY <1>4, <2>0, <2>1, SameTable, BatchAdvances
<1>6. \/ /\ process' = "running" /\ recovery' = NoRecovery
         /\ dispatch' = IdleDispatch /\ outbox' = IdleOutbox
      \/ /\ process' = process /\ recovery' = [recovery EXCEPT !.cursor = Max(Batch)]
         /\ dispatch' = dispatch /\ outbox' = outbox /\ Batch # Examined
      \/ /\ process' = "refused" /\ recovery' = NoRecovery
         /\ dispatch' = dispatch /\ outbox' = outbox
  BY DEF RecoverBatch
<1>7. /\ outbox' \in {IdleOutbox, EndedOutbox}
      /\ dispatch' \in {IdleDispatch, EndedDispatch}
      /\ process' \in {"running", "recovering", "refused"}
      /\ process' # "running" => outbox' = EndedOutbox /\ dispatch' = EndedDispatch
  BY <1>1, <1>2, <1>6
<1>8. OutboxTyped' /\ outbox'.step \in {"idle", "ended"} /\ InHand' /\ Hand' = {}
  BY <1>7, Resting
<1>9. /\ recovery' \in [at : 0..MaxTime, cursor : Jobs \cup {0}]
      /\ process' = "recovering" => recovery'.at = recovery.at
  BY <1>4, <1>6, BatchMovesOn, Bounds DEF NoRecovery
<1>10. /\ dispatch' \in [step : {"idle", "commit", "ended"}, job : Jobs \cup {0}, at : 0..MaxTime]
       /\ dispatch'.step # "commit"
  BY <1>7, Bounds DEF IdleDispatch, EndedDispatch
<1>11. DaemonTypeOK'
  <2>1. TypeOK' /\ process' \in ProcessStates
    BY <1>5, <1>7 DEF GoodTable, TypeOK, ProcessStates
  <2> QED
    BY <1>1, <1>8, <1>9, <1>10, <2>1 DEF DInv, DaemonTypeOK, OutboxTyped
<1>12. Sent' /\ Acknowledged' /\ LeftBehind'
  <2>1. Sent /\ Acknowledged /\ LeftBehind /\ DaemonTypeOK /\ kills \in Nat
    BY DaemonAssumption DEF DInv, DaemonTypeOK
  <2>2. Sent' /\ Acknowledged'
    BY <1>1, <1>5, <2>1, SentKept, AcknowledgedKept
  <2>3. {} \subseteq Hand' /\ Hand \cap RunningAttempts' \subseteq Hand'
    BY <1>3
  <2> QED
    BY <1>1, <1>5, <2>1, <2>2, <2>3, LeftBehindKept
<1>13. Clocked'
  <2>1. \A j \in Jobs : jobs'[j].updated <= now
    BY <1>4, <1>5, ClockFacts DEF TableAdvances
  <2> QED
    BY <1>1, <1>4, <1>8, <1>9, <1>10, <2>1 DEF DInv, Clocked
<1>14. Older' /\ Living' /\ Chosen'
  BY <1>7, <1>8, <1>10 DEF Older, Living, Chosen
<1> QED
  BY <1>5, <1>8, <1>11, <1>12, <1>13, <1>14 DEF DInv

\* The empty table.
LEMMA NothingGood == GoodRow(NoJob)
<1> DEFINE first == CHOOSE p \in Policies : TRUE
<1>1. first \in Policies /\ 0 \in 0..MaxTime /\ 0 \in 0..AttemptMax
  BY DeliveryAssumption
<1>2. /\ NoJob.status = "absent" /\ NoJob.policy = first
      /\ NoJob.created = 0 /\ NoJob.updated = 0
      /\ \A r \in Relays : NoJob.target[r] = NoTarget
      /\ \A r \in Relays, n \in AttemptNumbers : NoJob.attempt[r][n] = NoAttempt
  BY DEF NoJob, NoAttempts
<1>3. NoJob \in JobRow
  <2>1. NoAttempt \in AttemptRow
    BY <1>1 DEF NoAttempt, AttemptRow, AttemptStatus, Reasons
  <2>2. NoTarget \in TargetRow
    BY <1>1 DEF NoTarget, TargetRow, TargetStatus
  <2> QED
    BY <1>1, <2>1, <2>2 DEF NoJob, NoAttempts, JobRow, JobStatus
<1>4. RowVerdict(NoJob)
  BY <1>2 DEF RowVerdict, Open, OpenStatus
<1>5. ASSUME NEW r \in Relays PROVE History(NoJob, r)
  <2>1. first.max \in Nat /\ AttemptNumbers \subseteq Nat \ {0}
    BY <1>1, DeliveryAssumption DEF Policy, AttemptNumbers
  <2>2. Valid(NoJob.target[r], NoJob.attempt[r], NoJob.policy.max)
    BY <1>2, <1>5, <2>1 DEF Valid, NoTarget, NoAttempt, ActiveTargetStatus
  <2> QED
    BY <1>3, <1>5, <2>2, HistoryIsValid
<1>6. SoundRow(NoJob)
  <2>1. SoundTarget(NoTarget, first.max) /\ SoundAttempt(NoAttempt)
    BY DEF SoundTarget, SoundAttempt, NoTarget, NoAttempt, ActiveTargetStatus
  <2>2. \A r \in Relays : Sequenced(NoJob.target[r], NoJob.attempt[r])
    BY <1>2 DEF Sequenced, NoTarget, NoAttempt
  <2> QED
    BY <1>2, <2>1, <2>2 DEF SoundRow, NoTarget
<1> QED
  BY <1>3, <1>4, <1>5, <1>6 DEF GoodRow, RowHistory

\* The invariant holds of a daemon that was never started.
LEMMA DInitGood == DInit => DInv
<1> SUFFICES ASSUME DInit PROVE DInv
  OBVIOUS
<1>1. /\ now = 1 /\ process = "down" /\ recovery = NoRecovery /\ dispatch = EndedDispatch
      /\ outbox = EndedOutbox /\ received = {} /\ held = {} /\ kills = 0 /\ stops = 0
      /\ jobs = [j \in Jobs |-> NoJob]
  BY DEF DInit, Init
<1>2. GoodTable
  BY <1>1, NothingGood DEF GoodTable, GoodRow
<1>3. /\ \A j \in Jobs : jobs[j].updated = 0 /\ jobs[j].status = "absent"
      /\ \A j \in Jobs, r \in Relays : jobs[j].target[r].status = "none"
      /\ \A j \in Jobs, r \in Relays, n \in AttemptNumbers : jobs[j].attempt[r][n].status = "none"
  BY <1>1 DEF NoJob, NoTarget, NoAttempts, NoAttempt
<1>4. /\ outbox = [step |-> "ended", at |-> 0, job |-> 0, relay |-> 0, number |-> 0,
                   outcome |-> "none"]
      /\ dispatch = [step |-> "ended", job |-> 0, at |-> 0]
  BY <1>1 DEF EndedOutbox, IdleOutbox, EndedDispatch, IdleDispatch
<1>5. 1 + JitterMax <= MaxTime /\ 1 \in Times
  BY DeliveryAssumption, DaemonAssumption DEF Times
<1>6. DaemonTypeOK
  <2>1. TypeOK /\ process \in ProcessStates
    BY <1>1, <1>2 DEF GoodTable, TypeOK, ProcessStates
  <2>2. /\ recovery \in [at : 0..MaxTime, cursor : Jobs \cup {0}]
        /\ dispatch \in [step : {"idle", "commit", "ended"}, job : Jobs \cup {0}, at : 0..MaxTime]
    BY <1>1, <1>4, Bounds DEF NoRecovery
  <2>3. OutboxTyped
    BY <1>4, Bounds DEF OutboxTyped, Steps, Outcomes
  <2>4. kills \in 0..MaxKills /\ stops \in 0..MaxStops
    BY <1>1, DaemonAssumption
  <2> QED
    BY <1>1, <1>5, <2>1, <2>2, <2>3, <2>4 DEF DaemonTypeOK, OutboxTyped
<1>7. Clocked
  <2>1. \A j \in Jobs : jobs[j].updated <= now
    BY <1>1, <1>3
  <2> QED
    BY <1>1, <1>4, <1>5, <2>1 DEF Clocked
<1>8. Older /\ Living /\ Chosen /\ InHand
  BY <1>1, <1>4 DEF Older, Living, Chosen, InHand, Working
<1>9. Sent /\ Acknowledged
  BY <1>1, <1>3 DEF Sent, Acknowledged
<1>10. LeftBehind
  <2>1. RunningAttempts = {}
    BY <1>3 DEF RunningAttempts, ActiveAttemptStatus
  <2>2. RunningAttempts \ Hand = {}
    BY <2>1
  <2> QED
    BY <1>1, <2>2, FS_EmptySet DEF LeftBehind
<1> QED
  BY <1>2, <1>6, <1>7, <1>8, <1>9, <1>10 DEF DInv

\* The invariant of the daemon, one lemma for each action.
LEMMA DInvCorrect == DSpec => []DInv
<1>1. DInit => DInv
  BY DInitGood
<1>2. DInv /\ [DNext]_dvars => DInv'
  <2>1. ASSUME DInv, DNext PROVE DInv'
    <3>1. \/ Tick \/ ReadCompletionTime \/ CommitResponse \/ DropResponse \/ DispatchEnds
          \/ ReadOutboxTime \/ QueryReadyTarget \/ ClaimReadyTarget \/ PrepareDelivery
          \/ SubmitDelivery \/ (\E outcome \in Outcomes : AdapterReports(outcome))
          \/ PersistOutcome \/ RelayReceives
          \/ Start \/ RecoverBatch \/ Stop \/ CancelOutbox \/ Exit \/ Kill
      BY <2>1 DEF DNext, OutboxStep
    <3> QED
      BY <2>1, <3>1, TickKeeps, DispatchKeeps, ProcessKeeps, KillKeeps, ReadOutboxTimeKeeps,
         QueryReadyTargetKeeps, GoingOnKeeps, RelayReceivesKeeps, CommitResponseKeeps,
         ClaimReadyTargetKeeps, SubmitDeliveryKeeps, PersistOutcomeKeeps, RecoverBatchKeeps
  <2>2. ASSUME DInv, UNCHANGED dvars PROVE DInv'
    <3>1. /\ jobs' = jobs /\ now' = now /\ process' = process /\ recovery' = recovery
          /\ dispatch' = dispatch /\ outbox' = outbox /\ received' = received /\ held' = held
          /\ kills' = kills /\ stops' = stops
      BY <2>2 DEF dvars
    <3>2. GoodTable' /\ TypeOK' /\ Sent' /\ Acknowledged' /\ LeftBehind' /\ Older' /\ InHand'
      BY <2>2, <3>1, OutboxLeftAlone
    <3>3. DaemonTypeOK' /\ Clocked' /\ Living' /\ Chosen'
      BY <2>2, <3>1, <3>2 DEF DInv, DaemonTypeOK, Clocked, Living, Chosen
    <3> QED
      BY <3>2, <3>3 DEF DInv
  <2> QED
    BY <2>1, <2>2
<1> QED
  BY <1>1, <1>2, PTL DEF DSpec

(***************************************************************************)
(* Whatever kills, stops, recoveries and failures come between, an event   *)
(* that a relay received belongs to an attempt whose submission is in the  *)
(* database, and no recovery ever writes that attempt off as a lease that  *)
(* ran out before submission (run_with_adapter marks Submitted before it   *)
(* executes; recover_expired keeps a submission).                          *)
(***************************************************************************)
THEOREM SubmittedBeforeSendCorrect == DSpec => []SubmittedBeforeSend
<1>1. DInv => SubmittedBeforeSend
  <2> SUFFICES ASSUME DInv, NEW event \in received
               PROVE  LET attempt == jobs[event[1]].attempt[event[2]][event[3]] IN
                      /\ attempt.submitted # 0
                      /\ attempt.reason # "lease_expired_before_submit"
    BY DEF SubmittedBeforeSend
  <2>1. event[1] \in Jobs /\ event[2] \in Relays /\ event[3] \in AttemptNumbers
    BY DEF DInv, DaemonTypeOK
  <2>2. jobs[event[1]].attempt[event[2]][event[3]].submitted # 0
    BY DEF DInv, Sent
  <2>3. SoundAttempt(jobs[event[1]].attempt[event[2]][event[3]])
    BY <2>1 DEF DInv, GoodTable, GoodRow, SoundRow
  <2> QED
    BY <2>2, <2>3 DEF SoundAttempt
<1> QED
  BY <1>1, DInvCorrect, PTL

(***************************************************************************)
(* A job is only ever recorded "delivered" when as many of its required    *)
(* relays as the policy asks for really accepted the event: an             *)
(* acknowledgement is the only outcome that confirms a target, and neither *)
(* a restart nor a late report makes one up (record_outcome, recover_batch,*)
(* finalize_job_if_terminal).                                              *)
(***************************************************************************)
THEOREM DeliveredIsHeldCorrect == DSpec => []DeliveredIsHeld
<1>1. DInv => DeliveredIsHeld
  <2> SUFFICES ASSUME DInv, NEW j \in Jobs, jobs[j].status = "delivered"
               PROVE  Cardinality({r \in jobs[j].policy.required : <<j, r>> \in held})
                         >= jobs[j].policy.acks
    BY DEF DeliveredIsHeld
  <2> DEFINE row == jobs[j]
             kept == {r \in row.policy.required : <<j, r>> \in held}
  <2>1. row \in JobRow /\ RowVerdict(row)
    BY DEF DInv, GoodTable, GoodRow
  <2>2. Cardinality(DeliveredRequired(row)) >= row.policy.acks
    BY <2>1 DEF RowVerdict, Satisfied
  <2>3. row.policy.required \subseteq Relays
    BY <2>1, DeliveryAssumption DEF JobRow, Policy
  <2>4. DeliveredRequired(row) \subseteq kept
    BY <2>3 DEF DeliveredRequired, DInv, Acknowledged
  <2>5. kept \subseteq row.policy.required
    OBVIOUS
  <2>6. /\ IsFiniteSet(row.policy.required) /\ row.policy.acks \in Nat
        /\ Cardinality(DeliveredRequired(row)) \in Nat
    BY <2>1, CountsAreNumbers
  <2> HIDE DEF kept
  <2>7. IsFiniteSet(kept) /\ Cardinality(kept) \in Nat
    BY <2>5, <2>6, FS_Subset, FS_CardinalityType
  <2>8. Cardinality(DeliveredRequired(row)) <= Cardinality(kept)
    BY <2>4, <2>7, FS_Subset
  <2>9. Cardinality(kept) >= row.policy.acks
    BY <2>2, <2>6, <2>7, <2>8
  <2> QED
    BY <2>9 DEF kept
<1> QED
  BY <1>1, DInvCorrect, PTL

(***************************************************************************)
(* The leases in the database are accounted for: at most the one the       *)
(* outbox has in hand and one for each process that was killed, and none   *)
(* once a daemon that was never killed has shut down (spawn_delivery_outbox*)
(* works on one target at a time, run_with_adapter records an outcome on   *)
(* every path once it has claimed).                                        *)
(***************************************************************************)
THEOREM LeasesAccountedCorrect == DSpec => []LeasesAccounted
<1>1. DInv => LeasesAccounted
  <2> SUFFICES ASSUME DInv PROVE OneAttemptPerLife /\ CleanExit
    BY DEF LeasesAccounted, DInv
  <2> DEFINE a == <<outbox.job, outbox.relay, outbox.number>>
             S == RunningAttempts \ Hand
  <2>1. kills \in Nat /\ Cardinality(S) <= kills
    BY DaemonAssumption DEF DInv, DaemonTypeOK, LeftBehind
  <2>2. RunningAttempts \subseteq S \cup {a}
    BY DEF Hand
  <2>3. /\ IsFiniteSet(S) /\ Cardinality(S) \in Nat
        /\ IsFiniteSet(RunningAttempts) /\ Cardinality(RunningAttempts) \in Nat
    BY LeasesFinite DEF RunningAttempts
  <2>4. OneAttemptPerLife
    <3> HIDE DEF a, S
    <3>1. /\ IsFiniteSet(S \cup {a})
          /\ Cardinality(S \cup {a}) = IF a \in S THEN Cardinality(S) ELSE Cardinality(S) + 1
      BY <2>3, FS_AddElement
    <3>2. Cardinality(RunningAttempts) <= Cardinality(S \cup {a})
      BY <2>2, <3>1, FS_Subset
    <3> QED
      BY <2>1, <2>3, <3>1, <3>2 DEF OneAttemptPerLife
  <2>5. ASSUME process = "down", kills = 0 PROVE RunningAttempts = {}
    <3>1. outbox = EndedOutbox
      BY <2>5 DEF DInv, Living
    <3>2. Hand = {}
      BY <3>1 DEF EndedOutbox, IdleOutbox, Hand, Working
    <3>3. S = RunningAttempts
      BY <3>2
    <3> HIDE DEF S
    <3>4. Cardinality(S) = 0
      BY <2>1, <2>3, <2>5
    <3> QED
      BY <2>3, <3>3, <3>4, FS_EmptySet
  <2> QED
    BY <2>4, <2>5 DEF CleanExit
<1> QED
  BY <1>1, DInvCorrect, PTL

-----------------------------------------------------------------------------
(* The daemon implements the outbox.  A task's step is a transaction of    *)
(* the store or leaves it alone; a batch of recovery gives up several jobs *)
(* at once.                                                                *)

\* The table of a good daemon is one the refinement of the store applies to.
LEMMA GoodTableFacts ==
    GoodTable => TypeOK /\ StatusIsVerdict /\ TableSound
BY DEF GoodTable, GoodRow, TypeOK, StatusIsVerdict, RowVerdict, TableSound

\* Every step but a batch of recovery is a transaction of the store.
LEMMA TaskStepIsTransaction ==
    ASSUME DInv, DNext, ~RecoverBatch
    PROVE  [Next]_vars
<1>1. ASSUME jobs' = jobs PROVE [Next]_vars
  BY <1>1 DEF vars
<1>2. CASE \/ Tick \/ ReadCompletionTime \/ DropResponse \/ DispatchEnds
           \/ Start \/ Stop \/ CancelOutbox \/ Exit \/ Kill
  BY <1>1, <1>2 DEF Tick, ReadCompletionTime, DropResponse, DispatchEnds, Start, Stop,
                    CancelOutbox, Exit, Kill
<1>3. CASE \/ ReadOutboxTime \/ QueryReadyTarget \/ PrepareDelivery \/ RelayReceives
           \/ \E outcome \in Outcomes : AdapterReports(outcome)
  BY <1>1, <1>3 DEF ReadOutboxTime, QueryReadyTarget, PrepareDelivery, RelayReceives,
                    AdapterReports
<1>4. CASE CommitResponse
  <2>1. dispatch.job \in Jobs /\ dispatch.at \in Times
    BY <1>4, ClockFacts DEF CommitResponse, DInv, Chosen, Clocked
  <2>2. \/ jobs' = jobs
        \/ \E p \in Policies : CreateJob(dispatch.job, p, dispatch.at)
    BY <1>4 DEF CommitResponse
  <2> QED
    BY <1>1, <2>1, <2>2 DEF Next
<1>5. ASSUME outbox.step \notin {"idle", "query", "ended"}
      PROVE  outbox.job \in Jobs /\ outbox.relay \in Relays /\ outbox.at \in Times
  BY <1>5, ClockFacts DEF DInv, Chosen, Clocked
<1>6. CASE ClaimReadyTarget
  <2> DEFINE nonce == FreshNonce(outbox.job, outbox.relay)
  <2>1. outbox.step = "claim"
        /\ (jobs' = jobs \/ ClaimTarget(outbox.job, outbox.relay, nonce, outbox.at))
    BY <1>6 DEF ClaimReadyTarget, TaskFailure
  <2>2. outbox.job \in Jobs /\ outbox.relay \in Relays /\ outbox.at \in Times
    BY <1>5, <2>1
  <2>3. nonce \in Nonces
    BY <2>2, FreshNonceExists
  <2> HIDE DEF nonce
  <2> QED
    BY <1>1, <2>1, <2>2, <2>3 DEF Next
<1>7. ASSUME outbox.step \in Working PROVE outbox.number \in AttemptNumbers
  BY <1>7 DEF DInv, InHand
<1>8. CASE SubmitDelivery
  <2>1. outbox.step = "submit"
        /\ (jobs' = jobs \/ MarkSubmitted(outbox.job, outbox.relay, outbox.number, outbox.at))
    BY <1>8 DEF SubmitDelivery, TaskFailure
  <2>2. outbox.number \in AttemptNumbers
    BY <1>7, <2>1 DEF Working
  <2> QED
    BY <1>1, <1>5, <2>1, <2>2 DEF Next
<1>9. CASE PersistOutcome
  <2>1. outbox.step = "persist"
        /\ (jobs' = jobs \/ \E jitter \in Jitters :
              RecordOutcome(outbox.job, outbox.relay, outbox.number, outbox.outcome,
                            jitter, outbox.at))
    BY <1>9 DEF PersistOutcome, TaskFailure, delivery_retry_jitter
  <2>2. outbox.number \in AttemptNumbers /\ outbox.outcome \in Outcomes
    BY <1>7, <2>1 DEF Working, DInv, DaemonTypeOK
  <2> QED
    BY <1>1, <1>5, <2>1, <2>2 DEF Next
<1> QED
  BY <1>2, <1>3, <1>4, <1>6, <1>8, <1>9 DEF DNext, OutboxStep

\* A table of which every row is as it was or given up.
LEMMA TableSettles ==
    ASSUME TypeOK, \A j \in Jobs : Settles(jobs[j], jobs'[j])
    PROVE  Abstract!ONext \/ UNCHANGED Abstract!ovars
<1> DEFINE state == [k \in Jobs |-> AbstractState(jobs[k])]
           policy == [k \in Jobs |-> jobs[k].policy]
           confirmed == [k \in Jobs |-> Confirmed(jobs[k])]
           abandoned == {j \in Jobs : GivesUp(jobs[j], jobs'[j])}
           verdict == [j \in abandoned |-> AbstractState(jobs'[j])]
<1>1. \A j \in Jobs : /\ AbstractState(jobs[j]) = "open" \/ j \notin abandoned
                      /\ j \in abandoned => AbstractState(jobs'[j]) \in {"failed", "unknown"}
                      /\ j \notin abandoned => AbstractState(jobs'[j]) = AbstractState(jobs[j])
                      /\ jobs'[j].policy = jobs[j].policy
                      /\ Confirmed(jobs'[j]) = Confirmed(jobs[j])
  BY DEF Settles, Silent, GivesUp
<1>2. policy' = policy /\ confirmed' = confirmed
  BY <1>1
<1> HIDE DEF abandoned
<1>3. abandoned \in SUBSET Jobs
  BY DEF abandoned
<1>4. verdict \in [abandoned -> Abstract!GivenUp]
  BY <1>1, <1>3 DEF Abstract!GivenUp
<1>5. state' = [j \in Jobs |-> IF j \in abandoned THEN verdict[j] ELSE state[j]]
  BY <1>1, <1>3
<1>6. \A j \in abandoned : state[j] = "open" /\ verdict[j] \in Abstract!GivenUp
  BY <1>1, <1>3, <1>4
<1>7. Abstract!GiveUp(abandoned, verdict)
  BY <1>2, <1>5, <1>6 DEF Abstract!GiveUp
<1> QED
  BY <1>3, <1>4, <1>7 DEF Abstract!ONext

\* A batch of recovery is one step of the outbox, whatever its size.
LEMMA RecoverBatchRefines ==
    ASSUME DInv, RecoverBatch
    PROVE  Abstract!ONext \/ UNCHANGED Abstract!ovars
<1>1. GoodTable /\ recovery.at \in Times
  BY ClockFacts DEF DInv, Clocked, RecoverBatch
<1>2. PICK jitter \in BatchJitter :
         \/ jobs' = jobs
         \/ /\ \A j \in Batch : RecoverRow(jobs[j], jitter[j], recovery.at).ok
            /\ jobs' = [j \in Jobs |-> IF j \in Batch
                                       THEN RecoverRow(jobs[j], jitter[j], recovery.at).row
                                       ELSE jobs[j]]
  BY DEF RecoverBatch
<1>3. ASSUME NEW j \in Jobs PROVE Settles(jobs[j], jobs'[j])
  <2>1. CASE jobs'[j] = jobs[j]
    BY <2>1 DEF Settles, Silent
  <2>2. CASE jobs'[j] # jobs[j]
    <3>1. /\ j \in Batch
          /\ RecoverRow(jobs[j], jitter[j], recovery.at).ok
          /\ jobs'[j] = RecoverRow(jobs[j], jitter[j], recovery.at).row
      BY <1>2, <2>2
    <3>2. jitter[j] \in [Relays -> Jitters] /\ GoodRow(jobs[j])
      BY <1>1, <3>1 DEF BatchJitter, GoodTable
    <3>3. Settles(jobs[j], RecoverRow(jobs[j], jitter[j], recovery.at).row)
      BY <1>1, <3>1, <3>2, RecoverRowGood
    <3> QED
      BY <3>1, <3>3
  <2> QED
    BY <2>1, <2>2
<1>4. TypeOK
  BY <1>1, GoodTableFacts
<1> QED
  BY <1>3, <1>4, TableSettles

(***************************************************************************)
(* The daemon keeps the promise of the outbox, for every batch size of     *)
(* recovery (runtime_graph.rs, state_recovery.rs behind Outbox): whatever  *)
(* tasks interleave and whenever the process is killed and recovers, jobs  *)
(* are admitted below the ceiling, confirmed relay by relay, delivered in  *)
(* the step that meets their policy or given up, and a restart gives up    *)
(* open jobs without ever confirming or reopening one.                     *)
(***************************************************************************)
THEOREM DaemonImplementsOutbox == DSpec => ImplementsOutbox
<1>1. DInit => Abstract!OInit
  BY InitRefines DEF DInit
<1>2. DInv /\ DInv' /\ [DNext]_dvars => [Abstract!ONext]_(Abstract!ovars)
  <2> SUFFICES ASSUME DInv, DInv', [DNext]_dvars
               PROVE  [Abstract!ONext]_(Abstract!ovars)
    OBVIOUS
  <2>1. /\ TypeOK /\ StatusIsVerdict /\ TableSound /\ TypeOK'
    BY GoodTableFacts DEF DInv, DaemonTypeOK
  <2>2. CASE RecoverBatch
    BY <2>2, RecoverBatchRefines
  <2>3. CASE DNext /\ ~RecoverBatch
    BY <2>1, <2>3, TaskStepIsTransaction, StoreStepRefines
  <2>4. CASE UNCHANGED dvars
    <3>1. [Next]_vars
      BY <2>4 DEF dvars, vars
    <3> QED
      BY <2>1, <3>1, StoreStepRefines
  <2> QED
    BY <2>2, <2>3, <2>4
<1> QED
  BY <1>1, <1>2, DInvCorrect, PTL DEF DSpec, ImplementsOutbox, Abstract!OSpec
=============================================================================
