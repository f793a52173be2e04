---------------------------- MODULE StateLifecycle ----------------------------
(***************************************************************************)
(* The database across processes and configurations: initialization in     *)
(* steps that a crash may cut short, opening, the binding to one normalized*)
(* configuration, the offline apply of another one, start-up recovery,     *)
(* backup and restore (src/src/state_host.rs, state_repository.rs,         *)
(* state_config.rs, state_maintenance.rs, state_recovery.rs).              *)
(*                                                                         *)
(* What a configuration decides about retained rows is its permission      *)
(* ceiling, its identities, its relays and its discovery projection; the   *)
(* rows are connections, challenges and delivery jobs, with the daemon's   *)
(* operations on them reduced to what these four can tell apart.  The      *)
(* writer lock is the shared service host's: at most one process has the   *)
(* database open for writing.                                              *)
(***************************************************************************)
EXTENDS Naturals, Sequences, FiniteSets, SequencesExt

CONSTANTS
    Configurations,
    Ceiling,         \* policy.permission_ceiling of each
    Identity,        \* the expected public identities of each
    RelaysOf,        \* the write relays of each, with their settings
    Projection,      \* the discovery document's content, or "disabled"
    Trusting,        \* configurations that trust the clients at hand
    Permissions,
    Connections,
    Jobs,
    SchemaVersion,   \* MYC_STATE_SCHEMA_VERSION; 1 is the base version
    MaxGenerations,  \* MYC_CONFIG_BINDING_MAX_GENERATIONS
    MaxCrashes,      \* bound
    MaxRestores      \* bound

NoConfiguration == "none"

ASSUME LifecycleAssumption ==
    /\ NoConfiguration \notin Configurations
    /\ Ceiling \in [Configurations -> SUBSET Permissions]
    /\ DOMAIN Identity = Configurations /\ DOMAIN RelaysOf = Configurations
    /\ DOMAIN Projection = Configurations /\ Trusting \subseteq Configurations
    /\ SchemaVersion \in Nat \ {0} /\ MaxGenerations \in Nat \ {0}
    /\ {MaxCrashes, MaxRestores} \subseteq Nat

VARIABLES
    database,        \* version, birth record, binding history and rows
    host,            \* the process with the writer lock
    snapshot,        \* the database in the backup, or Missing (bound: one backup)
    budget

vars == <<database, host, snapshot, budget>>

NoConnection == [status |-> "none", requested |-> {}, granted |-> {}, challenge |-> "none"]
NoJob == [status |-> "none"]

\* No file.  The last two fields are histories: the configuration a connection
\* was admitted under and the generation its grant was approved in.
Missing == [version |-> 0, birth |-> NoConfiguration, bindings |-> <<>>,
            connections |-> [k \in Connections |-> NoConnection],
            jobs |-> [j \in Jobs |-> NoJob],
            admitted |-> [k \in Connections |-> NoConfiguration],
            approved |-> [k \in Connections |-> 0]]

NoHost == [mode |-> "none", configuration |-> NoConfiguration, initializing |-> FALSE]

ConnectionRows ==
    [status : {"none", "pending", "active", "denied", "expired"},
     requested : SUBSET Permissions, granted : SUBSET Permissions,
     challenge : {"none", "pending", "authorized", "expired"}]

IsJob(job) ==
    \/ job = NoJob
    \/ /\ job.status \in {"pending", "terminal"}
       /\ job.source \in {"signer_response", "discovery_handler"}
       /\ job.configuration \in Configurations

IsDatabase(d) ==
    /\ d.version \in 0..SchemaVersion
    /\ d.birth \in Configurations \cup {NoConfiguration}
    /\ d.bindings \in Seq(Configurations) /\ Len(d.bindings) <= MaxGenerations
    /\ d.connections \in [Connections -> ConnectionRows]
    /\ \A j \in Jobs : IsJob(d.jobs[j])
    /\ d.admitted \in [Connections -> Configurations \cup {NoConfiguration}]
    /\ d.approved \in [Connections -> 0..MaxGenerations]

TypeOK ==
    /\ IsDatabase(database) /\ IsDatabase(snapshot)
    /\ host.mode \in {"none", "opening", "open", "daemon"}
    /\ host.configuration \in Configurations \cup {NoConfiguration}

\* A database of a release before the binding history has only its birth record.
Init ==
    /\ database \in {Missing} \cup
            {[Missing EXCEPT !.version = 1, !.birth = c] : c \in Configurations}
    /\ host = NoHost
    /\ snapshot = Missing
    /\ budget = [crashes |-> MaxCrashes, restores |-> MaxRestores]

\* require_expected_metadata: every transaction compares the configuration the
\* host was opened with to the latest binding.
latest == Last(database.bindings)
Bound(c) == database.bindings # <<>> /\ latest = c

(***************************************************************************)
(* Creation, opening, migration.  Every migration commits by itself.       *)
(***************************************************************************)
\* initialize_myc_state reserves a missing file, never an existing one.
Initialize(c) ==
    /\ host = NoHost
    /\ database.version = 0
    /\ database' = [database EXCEPT !.version = 1]
    /\ host' = [mode |-> "opening", configuration |-> c, initializing |-> TRUE]
    /\ UNCHANGED <<snapshot, budget>>

\* open_myc_state_read_write(_from_config) resumes at whatever version it finds.
Open(c) ==
    /\ host = NoHost
    /\ database.version > 0
    /\ host' = [mode |-> "opening", configuration |-> c, initializing |-> FALSE]
    /\ UNCHANGED <<database, snapshot, budget>>

Migrate ==
    /\ host.mode = "opening"
    /\ database.version < SchemaVersion
    /\ database' = [database EXCEPT !.version = @ + 1]
    /\ UNCHANGED <<host, snapshot, budget>>

\* Faulty variant: the first binding is the configuration at hand.
SeededFromHost(birth) == <<host.configuration>>

\* insert_initial_config_binding copies the birth record.
Seeded(birth) == <<birth>>

Birth(c) == IF database.birth = NoConfiguration THEN c ELSE database.birth

\* The history a writable open of the configuration would leave.
BindingsWith(c) == IF database.bindings = <<>> THEN Seeded(Birth(c)) ELSE database.bindings

\* matches_current_configuration of the latest binding.
Accepts(c) == Last(BindingsWith(c)) = c

\* bind_or_verify: one transaction that writes the missing birth record and the
\* missing first binding, and keeps neither when the latest binding is not the
\* configuration at hand.
BindOrVerify ==
    LET c == host.configuration
    IN /\ host.mode = "opening"
       /\ database.version = SchemaVersion
       /\ database' = IF Accepts(c)
                      THEN [database EXCEPT !.birth = Birth(c), !.bindings = BindingsWith(c)]
                      ELSE database
       /\ host' = IF Accepts(c) /\ ~host.initializing THEN [host EXCEPT !.mode = "open"] ELSE NoHost
       /\ UNCHANGED <<snapshot, budget>>

\* The end of `state migrate` and `state verify`, and of every command whose
\* work was refused; and the end of the daemon.
Close ==
    /\ host.mode \in {"open", "daemon"}
    /\ host' = NoHost
    /\ UNCHANGED <<database, snapshot, budget>>

Crash ==
    /\ host.mode \in {"opening", "daemon"}
    /\ budget.crashes > 0
    /\ budget' = [budget EXCEPT !.crashes = @ - 1]
    /\ host' = NoHost
    /\ UNCHANGED <<database, snapshot>>

(***************************************************************************)
(* Start-up.  Recovery reads every unfinished job back and compares the    *)
(* document of a discovery job with the configuration at hand              *)
(* (verify_document_for_delivery_job); a mismatch ends the start.          *)
(***************************************************************************)
Unfinished(d) == {j \in Jobs : d.jobs[j].status = "pending"}

Recoverable(d, c) ==
    \A j \in Unfinished(d) :
        d.jobs[j].source = "discovery_handler" =>
            /\ Projection[c] # "disabled"
            /\ Projection[d.jobs[j].configuration] = Projection[c]

StartDaemon ==
    /\ host.mode = "open"
    /\ host' = IF Bound(host.configuration) /\ Recoverable(database, host.configuration)
               THEN [host EXCEPT !.mode = "daemon"] ELSE NoHost
    /\ UNCHANGED <<database, snapshot, budget>>

(***************************************************************************)
(* The daemon's work on the rows.                                          *)
(***************************************************************************)
InTransaction == host.mode = "daemon" /\ Bound(host.configuration)

Row(k) == database.connections[k]

SetRow(k, row) ==
    /\ database' = [database EXCEPT !.connections[k] = row]
    /\ UNCHANGED <<host, snapshot, budget>>

\* admits_connection_request: within the ceiling; a trusted client is active at
\* once, with what it asked for.
Connect(k, requested) ==
    /\ InTransaction
    /\ Row(k).status = "none"
    /\ requested \subseteq Ceiling[host.configuration]
    /\ database' = [database EXCEPT
            !.connections[k] =
                IF host.configuration \in Trusting
                THEN [@ EXCEPT !.status = "active", !.requested = requested, !.granted = requested]
                ELSE [@ EXCEPT !.status = "pending", !.requested = requested],
            !.admitted[k] = host.configuration]
    /\ UNCHANGED <<host, snapshot, budget>>

\* connection_mutation, decide_connection: the operator grants a part of what
\* was requested.
Approve(k, granted) ==
    /\ InTransaction
    /\ Row(k).status = "pending"
    /\ granted \subseteq Row(k).requested
    /\ database' = [database EXCEPT
            !.connections[k] = [@ EXCEPT !.status = "active", !.granted = granted],
            !.approved[k] = Len(database.bindings)]
    /\ UNCHANGED <<host, snapshot, budget>>

\* Reject and Revoke.
Dismiss(k) ==
    /\ InTransaction
    /\ \/ Row(k).status = "pending" /\ SetRow(k, [Row(k) EXCEPT !.status = "denied"])
       \/ Row(k).status = "active" /\ SetRow(k, [Row(k) EXCEPT !.status = "expired"])

Challenge(k) ==
    /\ InTransaction
    /\ Row(k).status = "active"
    /\ \/ Row(k).challenge = "none" /\ SetRow(k, [Row(k) EXCEPT !.challenge = "pending"])
       \/ Row(k).challenge = "pending" /\ SetRow(k, [Row(k) EXCEPT !.challenge = "authorized"])

\* create_job: every write relay of the configuration is a target.
CreateJob(j, source) ==
    /\ InTransaction
    /\ database.jobs[j] = NoJob
    /\ source = "discovery_handler" => Projection[host.configuration] # "disabled"
    /\ database' = [database EXCEPT
            !.jobs[j] = [status |-> "pending", source |-> source,
                         configuration |-> host.configuration]]
    /\ UNCHANGED <<host, snapshot, budget>>

FinishJob(j) ==
    /\ InTransaction
    /\ database.jobs[j].status = "pending"
    /\ database' = [database EXCEPT !.jobs[j].status = "terminal"]
    /\ UNCHANGED <<host, snapshot, budget>>

(***************************************************************************)
(* apply_configuration.                                                    *)
(***************************************************************************)
\* The relays of the current configuration that the candidate drops or changes.
changed_existing_relays(current, candidate) ==
    {r \in DOMAIN RelaysOf[current] :
        r \notin DOMAIN RelaysOf[candidate] \/ RelaysOf[candidate][r] # RelaysOf[current][r]}

relay_has_nonterminal_job(r) ==
    \E j \in Unfinished(database) : r \in DOMAIN RelaysOf[database.jobs[j].configuration]

revoke_for_identity_change(row) ==
    [row EXCEPT !.status = CASE @ = "active" -> "expired" [] @ = "pending" -> "denied" [] OTHER -> @,
                !.challenge = IF @ = "pending" THEN "expired" ELSE @]

\* Faulty variant: a session with one permission left keeps all of them.
revoke_when_nothing_is_left(row, ceiling) ==
    [row EXCEPT !.status = IF @ = "active" /\ row.granted \cap ceiling = {} THEN "expired" ELSE @,
                !.challenge = IF @ = "pending" /\ ~(row.requested \subseteq ceiling)
                              THEN "expired" ELSE @]

\* Sessions go with a grant that was removed, challenges with a request.
revoke_for_permission_narrowing(row, ceiling) ==
    [row EXCEPT !.status = IF @ = "active" /\ ~(row.granted \subseteq ceiling) THEN "expired" ELSE @,
                !.challenge = IF @ = "pending" /\ ~(row.requested \subseteq ceiling)
                              THEN "expired" ELSE @]

HasGenerationLeft == Len(database.bindings) < MaxGenerations

Narrows(current, candidate) == ~(Ceiling[current] \subseteq Ceiling[candidate])

\* `config apply`: an exact replay appends nothing; a change of a relay that
\* unfinished work still needs is refused, as is one generation too many.  The
\* process ends with it; the operator replaces the configuration file.
ApplyConfiguration(candidate) ==
    /\ host.mode = "open" /\ Bound(host.configuration)
    /\ candidate # host.configuration
    /\ HasGenerationLeft
    /\ \A r \in changed_existing_relays(host.configuration, candidate) :
        ~relay_has_nonterminal_job(r)
    /\ database' = [database EXCEPT
            !.bindings = Append(@, candidate),
            !.connections = [k \in Connections |->
                IF Identity[candidate] # Identity[host.configuration]
                THEN revoke_for_identity_change(@[k])
                ELSE IF Narrows(host.configuration, candidate)
                     THEN revoke_for_permission_narrowing(@[k], Ceiling[candidate])
                     ELSE @[k]]]
    /\ host' = NoHost
    /\ UNCHANGED <<snapshot, budget>>

(***************************************************************************)
(* capture_online_backup by a running daemon or, when none answers, by the *)
(* command itself; the restore of a verified bundle replaces the closed    *)
(* database as a whole.                                                    *)
(***************************************************************************)
Backup ==
    /\ host.mode = "daemon"
    /\ snapshot = Missing
    /\ budget.restores > 0
    /\ snapshot' = database
    /\ UNCHANGED <<database, host, budget>>

OfflineBackup ==
    /\ host.mode = "open"
    /\ snapshot = Missing
    /\ budget.restores > 0
    /\ snapshot' = database
    /\ host' = NoHost
    /\ UNCHANGED <<database, budget>>

Restore ==
    /\ host = NoHost
    /\ snapshot # Missing
    /\ budget.restores > 0
    /\ budget' = [budget EXCEPT !.restores = @ - 1]
    /\ database' = snapshot
    /\ UNCHANGED <<host, snapshot>>

Next ==
    \/ \E c \in Configurations : Initialize(c) \/ Open(c) \/ ApplyConfiguration(c)
    \/ Migrate \/ BindOrVerify \/ Close \/ Crash \/ StartDaemon
    \/ \E k \in Connections :
        \/ \E p \in SUBSET Permissions : Connect(k, p) \/ Approve(k, p)
        \/ Dismiss(k) \/ Challenge(k)
    \/ \E j \in Jobs :
        \/ \E s \in {"signer_response", "discovery_handler"} : CreateJob(j, s)
        \/ FinishJob(j)
    \/ Backup \/ OfflineBackup \/ Restore

Spec == Init /\ [][Next]_vars

\* A daemon runs under the latest binding, and the history begins with the
\* configuration of the birth record: no crash during creation or migration, no
\* apply by the process that goes on and no restore separates them
\* (bind_or_verify, require_expected_metadata, insert_initial_config_binding).
RunsUnderLatest ==
    /\ host.mode = "daemon" => Bound(host.configuration)
    /\ database.bindings # <<>> => database.bindings[1] = database.birth

\* Every target of unfinished work is a relay of the latest configuration, with
\* the settings it had when the job was created, after any sequence of applies,
\* crashes and restores (changed_existing_relays, relay_has_nonterminal_job).
TargetsStayConfigured ==
    \A j \in Unfinished(database) :
        LET made == RelaysOf[database.jobs[j].configuration] IN
        \A r \in DOMAIN made : r \in DOMAIN RelaysOf[latest] /\ RelaysOf[latest][r] = made[r]

\* A session holds a permission outside the latest ceiling only when the
\* operator approved it in a generation that no narrowing followed: no session
\* survives a narrowing that came after its grant, whatever came between
\* (revoke_for_permission_narrowing, admits_connection_request).
NarrowingReachesSessions ==
    \A k \in Connections :
        Row(k).status = "active" /\ ~(Row(k).granted \subseteq Ceiling[latest]) =>
            /\ database.approved[k] # 0
            /\ \A i \in database.approved[k]..(Len(database.bindings) - 1) :
                ~Narrows(database.bindings[i], database.bindings[i + 1])

\* Sessions, connections that wait for approval and challenges that wait for an
\* answer belong to the identities of the latest configuration
\* (revoke_for_identity_change).
SessionsOfIdentity ==
    \A k \in Connections :
        Row(k).status \in {"pending", "active"} \/ Row(k).challenge = "pending" =>
            Identity[database.admitted[k]] = Identity[latest]

\* The rows that outlive an apply are rows of the latest configuration: targets
\* of its relays, and sessions of its identities that no narrowing has reached
\* (apply_configuration).
RowsFollowConfiguration ==
    TypeOK /\ TargetsStayConfigured /\ NarrowingReachesSessions /\ SessionsOfIdentity

\* nip46_authorization.v1.json, "operator_grant":
\* "subset_of_requested_and_configured_ceiling".  It does not hold of a grant to
\* a request older than a narrowing (README, known deviations).
GrantsWithinCeiling ==
    \A k \in Connections :
        Row(k).status = "active" => Row(k).granted \subseteq Row(k).requested \cap Ceiling[latest]

\* A configuration whose apply was accepted can start the daemon: what it would
\* break is refused as a conflict with retained work (PolicyConflict).  It does
\* not hold of retained discovery documents (README, known deviations).
AppliedStarts == database.bindings # <<>> => Recoverable(database, latest)

=============================================================================
