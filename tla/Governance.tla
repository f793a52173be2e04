------------------------------ MODULE Governance -------------------------------
(***************************************************************************)
(* Rate windows, audit evidence and their pages                            *)
(* (src/src/state_governance.rs), with the operations that are governed by *)
(* them (src/src/state_connection.rs) and the two listings the operator    *)
(* pages through (src/src/runtime_graph.rs).  An operation is one          *)
(* transaction.  The time it works with was read before the transaction    *)
(* began, so another operation may have committed a later one.             *)
(*                                                                         *)
(* Denied admissions, lifetime counters and audit reasons that no rule     *)
(* reads are left out.                                                     *)
(***************************************************************************)
EXTENDS Naturals, Sequences, FiniteSets, FiniteSetsExt, SequencesExt

CONSTANTS
    Connects,        \* connection requests, and the connections they make
    RelayOf,         \* the relay each came from
    Challenges,      \* requests whose authorization the operator challenges
    ConnectionOf,    \* the connection of each
    Limits,          \* the values max_attempts takes over the configurations
    WindowMs,        \* window_ms
    RetentionMs,     \* retention_ms of the rate windows
    AuditMs,         \* policy/retention/audit_ms
    MaxTracked,      \* maximum_tracked_subjects
    BatchRows,       \* maximum_rows_per_class of a compaction
    PageLimit,       \* items per page
    Queries,         \* the kinds of records a traversal asks for
    MaxTime, MaxSkew, MaxRecords, MaxReconfigurations, MaxCompactions

\* What MycRateLimitPolicy::new and MycGovernanceCompactionPolicy::new accept.
ASSUME PolicyAssumption ==
    /\ WindowMs \in Nat \ {0} /\ RetentionMs \in Nat /\ RetentionMs >= WindowMs
    /\ Limits \subseteq Nat \ {0} /\ Limits # {}
    /\ MaxTracked \in Nat \ {0} /\ BatchRows \in Nat \ {0} /\ AuditMs \in Nat \ {0}
    /\ PageLimit \in Nat \ {0}
    /\ MaxTime \in Nat \ {0} /\ MaxSkew \in Nat

\* A window outlives the attempts that were timed before it could be removed.
\* The code accepts a retention of one window and bounds no delay; with a
\* longer delay the limit is not kept (RateBounded).
ASSUME DelayAssumption == WindowMs + MaxSkew <= RetentionMs + 1

\* Connection identifiers are ordered; numbers in their order stand for them.
ASSUME IdentityAssumption == Connects \subseteq Nat

VARIABLES
    now,             \* the wall clock
    limit,           \* max_attempts under the configuration in force
    rate,            \* connection_rate_windows
    audit,           \* operation_audit: sequence number to record
    sequence,        \* myc_audit_state
    connections,     \* connections: status and updated_at
    challenges,      \* authorization challenges: none, pending, resolved
    attempts,        \* every verdict that was committed, for the properties
    events,          \* a traversal of the audit pages
    listing,         \* a traversal of the connection pages
    used             \* reconfigurations and compactions so far

vars == <<now, limit, rate, audit, sequence, connections, challenges, attempts,
          events, listing, used>>

(***************************************************************************)
(* Subjects of the windows.                                                *)
(***************************************************************************)
global_subject(class) == [class |-> class, scope |-> "global", id |-> 0]
relay_subject(class, relay) == [class |-> class, scope |-> "relay", id |-> relay]
connection_subject(class, connection) == [class |-> class, scope |-> "connection", id |-> connection]

AdmissionSubjects(q) == {global_subject("connection_admission"),
                         relay_subject("connection_admission", RelayOf[q])}
ChallengeSubjects(kind, q) == {connection_subject(kind, ConnectionOf[q])}

Subjects == UNION ({AdmissionSubjects(q) : q \in Connects}
                   \cup {ChallengeSubjects("challenge_creation", q) : q \in Challenges}
                   \cup {ChallengeSubjects("challenge_authorization", q) : q \in Challenges})

(***************************************************************************)
(* Rate windows.  A window includes both of its ends.                      *)
(***************************************************************************)
FreshWindow(at) ==
    [started |-> at, ends |-> at + WindowMs, accepted |-> 0, rejected |-> 0,
     last |-> at, expires |-> at]

Tracked(subject) ==
    {s \in DOMAIN rate : s.class = subject.class /\ s.scope = subject.scope}

\* Why a window cannot be loaded.  The limit is compared before the window
\* is replaced, so a window filled under a higher limit stays unreadable.
Unreadable(subject, at) ==
    IF subject \in DOMAIN rate
    THEN at < rate[subject].last \/ rate[subject].accepted > limit
    ELSE subject.scope # "global" /\ Cardinality(Tracked(subject)) >= MaxTracked

load_rate_state(subject, at) ==
    IF subject \in DOMAIN rate /\ at <= rate[subject].ends
    THEN rate[subject]
    ELSE FreshWindow(at)

can_accept(subjects, at) ==
    \A s \in subjects : load_rate_state(s, at).accepted < limit

\* Faulty variant: a refused attempt counts as an accepted one.
persist_accepted(subject, at, admitted) ==
    [load_rate_state(subject, at) EXCEPT
        !.accepted = @ + 1,
        !.last = at, !.expires = at + RetentionMs]

persist_rate_state(subject, at, admitted) ==
    [load_rate_state(subject, at) EXCEPT
        !.accepted = IF admitted THEN @ + 1 ELSE @,
        !.rejected = IF admitted THEN @ ELSE @ + 1,
        !.last = at, !.expires = at + RetentionMs]

PersistedWindows(subjects, at, admitted) ==
    [s \in DOMAIN rate \cup subjects |->
        IF s \in subjects THEN persist_rate_state(s, at, admitted) ELSE rate[s]]

(***************************************************************************)
(* Audit records.  The identity of a record is its correlation and kind;   *)
(* an operation has one correlation of its own.                            *)
(***************************************************************************)
RequestCorrelation(q) == <<q, "request">>

Record(correlation, kind, outcome, at) ==
    [correlation |-> correlation, kind |-> kind, outcome |-> outcome, at |-> at]

read_audit_by_id(correlation, kind) ==
    {audit[n] : n \in {m \in DOMAIN audit :
                          audit[m].correlation = correlation /\ audit[m].kind = kind}}

\* Append a record of a new identity to the retained ones.
record_audit(records, record) ==
    /\ audit' = [n \in DOMAIN records \cup {sequence + 1} |->
                    IF n = sequence + 1 THEN record ELSE records[n]]
    /\ sequence' = sequence + 1

(***************************************************************************)
(* One governed attempt of correlation q.  Committed says what the caller  *)
(* does after an admission; the verdict of a refusal is already recorded.  *)
(***************************************************************************)
Verdict(q, kind, subjects, at) ==
    LET existing == read_audit_by_id(RequestCorrelation(q), kind) IN
    IF existing # {} THEN IF \E e \in existing : e.outcome = "rate_limited"
                          THEN "refused_again" ELSE "binding"
    ELSE IF \E s \in subjects : Unreadable(s, at) THEN "binding"
    ELSE IF can_accept(subjects, at) THEN "admitted"
    ELSE "refused"

Attempted(q, subjects, at, verdict) ==
    attempts' = attempts \cup
        {[correlation |-> q, number |-> sequence + 1, subjects |-> subjects,
          at |-> at, verdict |-> verdict, limit |-> limit]}

govern_rate_attempt(q, kind, subjects, at, admitted) ==
    /\ rate' = PersistedWindows(subjects, at, admitted)
    /\ record_audit(audit, Record(RequestCorrelation(q), kind,
                                  IF admitted THEN "succeeded" ELSE "rate_limited", at))
    /\ Attempted(q, subjects, at, IF admitted THEN "admitted" ELSE "refused")

\* No page is read.  A finished traversal is dropped.
Idle == [phase |-> "idle", snapshot |-> 0, before |-> 0, seen |-> <<>>, start |-> {}]
Dropped(reader) == IF reader.phase = "done" THEN Idle ELSE reader
ReadersStay == events' = Dropped(events) /\ listing' = Dropped(listing)

\* The time a handler read before its transaction.
Observed == {t \in 1..now : t + MaxSkew >= now}

(***************************************************************************)
(* A connect request.  An existing decision is replayed before the         *)
(* governance is asked; a refusal is committed.                            *)
(***************************************************************************)
AdmitConnection(q, at) ==
    LET subjects == AdmissionSubjects(q)
        verdict == Verdict(q, "connection_admission", subjects, at)
    IN /\ q \notin DOMAIN connections
       /\ verdict \in {"admitted", "refused"}
       /\ govern_rate_attempt(q, "connection_admission", subjects, at, verdict = "admitted")
       /\ connections' =
            IF verdict = "admitted"
            THEN [c \in DOMAIN connections \cup {q} |->
                    IF c = q THEN [status |-> "pending", updated |-> at] ELSE connections[c]]
            ELSE connections
       /\ UNCHANGED <<now, limit, challenges, used>> /\ ReadersStay

\* The operator approves, rejects or revokes a connection.
ConnectionMutation(c, at) ==
    /\ c \in DOMAIN connections /\ at >= connections[c].updated
    /\ \/ /\ connections[c].status = "pending"
          /\ \E status \in {"active", "denied"} :
                connections' = [connections EXCEPT ![c] = [status |-> status, updated |-> at]]
       \/ /\ connections[c].status = "active"
          /\ connections' = [connections EXCEPT ![c] = [status |-> "expired", updated |-> at]]
    /\ record_audit(audit, Record(<<c, connections[c].status>>, "connection_operator_decision",
                                  "succeeded", at))
    /\ UNCHANGED <<now, limit, rate, challenges, attempts, used>> /\ ReadersStay

(***************************************************************************)
(* The operator requires a challenge, and later authorizes it.  A refusal  *)
(* is an error to the journal: the transaction and with it the window and  *)
(* the record of the refusal are rolled back.                              *)
(***************************************************************************)
ChallengeStep(q, kind, at, to) ==
    LET subjects == ChallengeSubjects(kind, q)
    IN /\ Verdict(q, kind, subjects, at) = "admitted"
       /\ govern_rate_attempt(q, kind, subjects, at, TRUE)
       /\ challenges' = [challenges EXCEPT ![q] = to]
       /\ UNCHANGED <<now, limit, connections, used>> /\ ReadersStay

ChallengeRequire(q, at) ==
    /\ challenges[q] = "none"
    /\ ConnectionOf[q] \in DOMAIN connections
    /\ connections[ConnectionOf[q]].status = "active" /\ at >= connections[ConnectionOf[q]].updated
    /\ ChallengeStep(q, "challenge_creation", at, "pending")

ChallengeAuthorize(q, at) ==
    /\ challenges[q] = "pending"
    /\ ChallengeStep(q, "challenge_authorization", at, "resolved")

(***************************************************************************)
(* Compaction: at most BatchRows of the oldest expired records, and as     *)
(* many of the windows that expired first.                                 *)
(***************************************************************************)
cutoff(at) == IF at > AuditMs THEN at - AuditMs ELSE 0

expired_windows(at) == {s \in DOMAIN rate : rate[s].expires < at}

OldestRecords(at) ==
    LET old == {n \in DOMAIN audit : audit[n].at < cutoff(at)}
    IN {n \in old : Cardinality({m \in old : m <= n}) <= BatchRows}

OldestWindows(at) ==
    LET old == expired_windows(at)
    IN {batch \in SUBSET old :
            /\ Cardinality(batch) = Min({BatchRows, Cardinality(old)})
            /\ \A s \in batch, t \in old \ batch : rate[s].expires <= rate[t].expires}

compact_governance(at) ==
    /\ used.compactions < MaxCompactions
    /\ used' = [used EXCEPT !.compactions = @ + 1]
    /\ \E gone \in OldestWindows(at) : rate' = [s \in DOMAIN rate \ gone |-> rate[s]]
    /\ record_audit([n \in DOMAIN audit \ OldestRecords(at) |-> audit[n]],
                    Record(<<used.compactions, "compaction">>, "governance_compaction",
                           "succeeded", at))
    /\ UNCHANGED <<now, limit, connections, challenges, attempts>> /\ ReadersStay

\* A configuration with another limit is applied while the daemon is down.
Reconfigure ==
    /\ used.reconfigurations < MaxReconfigurations
    /\ limit' \in Limits \ {limit}
    /\ used' = [used EXCEPT !.reconfigurations = @ + 1]
    /\ UNCHANGED <<now, rate, audit, sequence, connections, challenges, attempts>> /\ ReadersStay

Tick ==
    /\ now < MaxTime /\ now' = now + 1
    /\ UNCHANGED <<limit, rate, audit, sequence, connections, challenges, attempts, used>>
    /\ ReadersStay

(***************************************************************************)
(* Pages.  A cursor carries the snapshot of the first page, the last item  *)
(* of the page before and the query; it is signed, so the operator can     *)
(* only send back what it was given.  A traversal changes no table, so one *)
(* of them is followed in a behaviour.                                     *)
(***************************************************************************)
\* Faulty variant: the cursor stands for the next item, which is then skipped.
next_skipping(rows) == rows[PageLimit + 1]

\* The last item given out.
next_cursor(rows) == rows[PageLimit]

\* What a page over rows, in the order of the query, answers.
Paged(reader, rows) ==
    IF Len(rows) > PageLimit
    THEN [reader EXCEPT !.seen = @ \o SubSeq(rows, 1, PageLimit), !.before = next_cursor(rows)]
    ELSE [reader EXCEPT !.seen = @ \o rows, !.phase = "done"]

\* The rows of a query in its order: each stands behind those that precede it.
InOrder(rows, precedes) ==
    [i \in 1..Cardinality(rows) |->
        CHOOSE x \in rows : Cardinality({y \in rows : <<y, x>> \in precedes}) = i - 1]

AuditRows(kind, snapshot, before) ==
    LET rows == {n \in DOMAIN audit : n <= snapshot /\ n < before /\ audit[n].kind \in kind}
    IN  InOrder(rows, {p \in rows \X rows : p[1] > p[2]})

\* The first page fixes the sequence number the traversal goes back from.
AuditFirstPage(kind) ==
    LET reader == [phase |-> "open", snapshot |-> sequence, before |-> sequence + 1, seen |-> <<>>,
                   start |-> {n \in DOMAIN audit : audit[n].kind \in kind}, kind |-> kind]
    IN /\ events.phase = "idle" /\ listing.phase = "idle"
       /\ events' = Paged(reader, AuditRows(kind, sequence, sequence + 1))

AuditNextPage ==
    /\ events.phase = "open"
    /\ events' = Paged(events, AuditRows(events.kind, events.snapshot, events.before))

audit_events ==
    /\ \/ \E kind \in Queries : AuditFirstPage(kind)
       \/ AuditNextPage
    /\ UNCHANGED <<now, limit, rate, audit, sequence, connections, challenges, attempts, listing, used>>

\* Connections by the time of their last change, the latest first.
Later(c, d) ==
    \/ connections[c].updated > connections[d].updated
    \/ connections[c].updated = connections[d].updated /\ c < d

Behind(c, before) ==
    \/ connections[c].updated < before.updated
    \/ connections[c].updated = before.updated /\ c > before.id

ConnectionRows(snapshot, before) ==
    LET rows == {c \in DOMAIN connections :
                    connections[c].updated <= snapshot /\ Behind(c, before)}
    IN  InOrder(rows, {p \in rows \X rows : Later(p[1], p[2])})

\* The cursor keeps the time and the identity of the last item.
ConnectionPaged(reader, rows) ==
    LET page == Paged(reader, rows)
    IN IF page.phase = "done" THEN page
       ELSE [page EXCEPT !.before = [id |-> @, updated |-> connections[@].updated]]

ConnectionsFirstPage(at) ==
    LET first == [id |-> 0, updated |-> at + 1]
        reader == [Idle EXCEPT !.phase = "open", !.snapshot = at, !.start = connections]
    IN /\ listing.phase = "idle" /\ events.phase = "idle"
       /\ listing' = ConnectionPaged(reader, ConnectionRows(at, first))

ConnectionsNextPage ==
    /\ listing.phase = "open"
    /\ listing' = ConnectionPaged(listing, ConnectionRows(listing.snapshot, listing.before))

connections_pages ==
    /\ (\E at \in Observed : ConnectionsFirstPage(at)) \/ ConnectionsNextPage
    /\ UNCHANGED <<now, limit, rate, audit, sequence, connections, challenges, attempts, events, used>>

(***************************************************************************)
(* Specification.                                                          *)
(***************************************************************************)
Init ==
    /\ now = 1 /\ limit \in Limits
    /\ rate = << >> /\ audit = << >> /\ sequence = 0
    /\ connections = << >> /\ challenges = [q \in Challenges |-> "none"]
    /\ attempts = {} /\ events = Idle /\ listing = Idle
    /\ used = [reconfigurations |-> 0, compactions |-> 0]

Operation(at) == sequence < MaxRecords /\
  ( \/ \E q \in Connects : AdmitConnection(q, at)
    \/ \E c \in Connects : ConnectionMutation(c, at)
    \/ \E q \in Challenges : ChallengeRequire(q, at)
    \/ \E q \in Challenges : ChallengeAuthorize(q, at)
    \/ compact_governance(at) )

Next == Tick \/ Reconfigure \/ audit_events \/ connections_pages \/ \E at \in Observed : Operation(at)

Spec == Init /\ [][Next]_vars

(***************************************************************************)
(* Properties.                                                             *)
(***************************************************************************)

\* Every table holds rows of its type.
TypeOK ==
    /\ now \in 1..MaxTime /\ limit \in Limits /\ sequence \in Nat
    /\ DOMAIN rate \subseteq Subjects
    /\ \A s \in DOMAIN rate :
          /\ rate[s].started <= rate[s].last /\ rate[s].last <= rate[s].ends
          /\ rate[s].last <= rate[s].expires
          /\ rate[s].accepted \in Nat /\ rate[s].rejected \in Nat
          /\ \E most \in Limits : rate[s].accepted <= most
    /\ DOMAIN audit \subseteq 1..sequence
    /\ DOMAIN connections \subseteq Connects
    /\ challenges \in [Challenges -> {"none", "pending", "resolved"}]

\* The rate limit (govern_rate_attempt): no stretch of time as long as a
\* window sees more than twice the limit admitted for a subject, whatever
\* other subjects the attempts counted for, although compaction removes
\* windows and times are read before the transaction.
RateBounded ==
    \A s \in Subjects, t \in 1..MaxTime :
        LET passed == {a \in attempts : /\ a.verdict = "admitted" /\ s \in a.subjects
                                        /\ a.at \in t..(t + WindowMs)}
        IN passed # {} => \E a \in passed : Cardinality(passed) <= 2 * a.limit

\* The counts of a window are the attempts committed in it: one attempt
\* counts once on each of its subjects, by the verdict on all of them.
CountsAreTrue ==
    \A s \in DOMAIN rate :
        LET counted(verdict) == Cardinality({a \in attempts :
                /\ a.verdict = verdict /\ s \in a.subjects
                /\ a.at \in rate[s].started..rate[s].ends})
        IN rate[s].accepted = counted("admitted") /\ rate[s].rejected = counted("refused")

\* A refusal stands as long as its record is retained: the same request is
\* not admitted later, when the window has room again.
RefusalStands ==
    \A n \in DOMAIN audit : audit[n].outcome = "rate_limited" =>
        audit[n].correlation \notin {RequestCorrelation(q) : q \in DOMAIN connections}

\* A finished traversal of the audit pages has returned each record that
\* matched at its first page and is still retained, in descending order and
\* once, and none that was appended meanwhile (read_admin_audit_page).
AuditPagesComplete ==
    events.phase = "done" =>
        /\ events.start \cap DOMAIN audit \subseteq Range(events.seen)
        /\ Range(events.seen) \subseteq events.start
        /\ \A i, j \in 1..Len(events.seen) : i < j => events.seen[i] > events.seen[j]

\* A finished traversal of the connections has returned each connection
\* that existed at its first page and did not change since, and none twice
\* (read_admin_connection_page).
UnchangedConnectionsListed ==
    /\ IsInjective(listing.seen)
    /\ listing.phase = "done" =>
        \A c \in DOMAIN listing.start :
            /\ connections[c] = listing.start[c]
            /\ connections[c].updated <= listing.snapshot
            => c \in Range(listing.seen)

\* The rate limit is kept on every subject by windows that count what really
\* happened, and a refusal is not taken back (govern_rate_attempt).
WindowsSound == TypeOK /\ RateBounded /\ CountsAreTrue /\ RefusalStands

\* Neither reader skips or repeats what stays where it is while it pages
\* (read_admin_audit_page, read_admin_connection_page).
PagesComplete == AuditPagesComplete /\ UnchangedConnectionsListed

\* What the contract says of the listing, "generation_fixed_by_first_page_cursor":
\* a finished traversal has returned each connection that existed at its
\* first page.  It does not hold of a connection that changes during the
\* traversal (README, known deviations).
ListingIsSnapshot ==
    listing.phase = "done" => DOMAIN listing.start \subseteq Range(listing.seen)
================================================================================
