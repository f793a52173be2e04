-------------------------------- MODULE Doctor --------------------------------
(***************************************************************************)
(* The doctor command: a fixed inventory of checks, run in order under     *)
(* their deadlines by a process of its own, and the verdict an operator    *)
(* reads before starting the daemon (src/src/doctor_v1.rs,                 *)
(* system_doctor.rs).  Four checks open the database for inspection, each  *)
(* by itself; what the others find, and which of them answer too late, is  *)
(* a parameter.                                                            *)
(***************************************************************************)
EXTENDS StateLifecycle

Check(id, required) == [id |-> id, required |-> required]

CheckDefinitions ==
    <<Check("paths_permissions", TRUE), Check("writer_lock", TRUE),
      Check("sqlite_schema", TRUE), Check("sqlite_integrity", TRUE),
      Check("sqlite_free_space", TRUE), Check("identity_binding", TRUE),
      Check("signer_provider", TRUE), Check("admin_bind_policy", TRUE),
      Check("operations_bind_policy", TRUE), Check("network_policy", TRUE),
      Check("required_relays", TRUE), Check("outbox_invariants", TRUE),
      Check("clock_skew", FALSE)>>

StateChecks == {"writer_lock", "sqlite_schema", "sqlite_integrity", "outbox_invariants"}

\* Faulty variant: the inspection does not verify the binding.
InspectsUnbound(c) == host = NoHost /\ database.version = SchemaVersion

\* open_myc_state_inspection_from_config: no process holds the writer lock, the
\* schema is current, and the birth record and the latest binding are there and
\* agree with the configuration.  Nothing is migrated or written.
Inspects(c) ==
    /\ host = NoHost
    /\ database.version = SchemaVersion
    /\ database.birth # NoConfiguration
    /\ Bound(c)

\* probe: every state check passes with the inspection it opened (integrity and
\* outbox relations of a committed database hold, DeliveryProofs); the
\* clock is never compared.
Probe(id, c, failing) ==
    CASE id = "clock_skew" -> "skipped"
      [] id \in StateChecks -> IF Inspects(c) THEN "pass" ELSE "fail"
      [] OTHER -> IF id \in failing THEN "fail" ELSE "pass"

CheckStatus(check, c, failing, late) ==
    LET observed == Probe(check.id, c, failing)
    IN IF check.id \in late THEN "timeout"
       ELSE IF observed = "skipped" /\ check.required THEN "fail" ELSE observed

aggregate_status(results) ==
    IF \E i \in DOMAIN results : CheckDefinitions[i].required /\ results[i] # "pass" THEN "fail"
    ELSE IF \E i \in DOMAIN results : results[i] # "pass" THEN "degraded" ELSE "pass"

run_myc_doctor(c, failing, late) ==
    aggregate_status([i \in DOMAIN CheckDefinitions |->
                         CheckStatus(CheckDefinitions[i], c, failing, late)])

exit_code(status) == IF status = "fail" THEN 6 ELSE 0

\* With nothing else wrong, the doctor lets a configuration through exactly
\* when a writable open would take it without migrating or binding anything,
\* after every sequence of crashes, applies and restores; a required check that
\* fails or is late stops it, a late clock does not (run_myc_doctor,
\* probe_state against transact of the state repository).
DoctorPredictsStart ==
    host = NoHost =>
        /\ \A c \in Configurations :
            exit_code(run_myc_doctor(c, {}, {})) = 0
                <=> /\ database.version = SchemaVersion
                    /\ Accepts(c)
                    /\ database.birth = Birth(c) /\ database.bindings = BindingsWith(c)
        /\ database.bindings # <<>> =>
            /\ exit_code(run_myc_doctor(latest, {}, {"required_relays"})) = 6
            /\ exit_code(run_myc_doctor(latest, {"identity_binding"}, {})) = 6
            /\ database.version = SchemaVersion =>
                exit_code(run_myc_doctor(latest, {}, {"clock_skew"})) = 0

=============================================================================
