-------------------------------- MODULE Status --------------------------------
(***************************************************************************)
(* The detailed status document the daemon caches for its admin and        *)
(* operations listeners, as RuntimeStatusContext::observation builds it    *)
(* from a phase and the three health bits of the main loop                 *)
(* (src/src/runtime_graph.rs) out of the constructors of                   *)
(* src/src/status_v1.rs.  Build, configuration identity and uptime are     *)
(* left out; reason codes are a set, the code sorts and deduplicates them. *)
(***************************************************************************)
EXTENDS Naturals, FiniteSets

CONSTANTS
    Relays,               \* the configured relays
    DiscoveryConfigured   \* the discovery role has a provider

ASSUME StatusAssumption == DiscoveryConfigured \in BOOLEAN /\ IsFiniteSet(Relays)

ServicePhases == {"starting", "ready", "degraded", "unready", "stopping"}

\* The codes the daemon gives, of the twelve that exist.
ReasonCodes == {"required_relay_unavailable", "subscriber_not_active",
                "signer_provider_unavailable", "operations_listener_failed",
                "shutdown_in_progress"}

Reasons(phase, h) ==
    (IF h.providers THEN {} ELSE {"signer_provider_unavailable"})
        \cup (IF h.required_relays THEN {}
              ELSE {"required_relay_unavailable", "subscriber_not_active"})
        \cup (IF h.operations THEN {} ELSE {"operations_listener_failed"})
        \cup (IF phase = "stopping" THEN {"shutdown_in_progress"} ELSE {})

\* An unconfigured role is never available.
IdentityHealth(configured, h) ==
    [configured |-> configured, available |-> configured /\ h.providers]

ProviderHealth(transport, user, discovery) ==
    IF ~transport.available \/ ~user.available THEN "unavailable"
    ELSE IF discovery.configured /\ ~discovery.available THEN "degraded" ELSE "ready"

\* The relays counted as connected are the configured ones, or none.
TransportStatus(h) ==
    [health |-> IF h.required_relays THEN "ready" ELSE "unavailable",
     required_relays_ready |-> h.required_relays,
     connected_relay_count |-> IF h.required_relays THEN Cardinality(Relays) ELSE 0]

\* Ready only in the ready and degraded phases, and with both health bits set.
Ready(phase, h) ==
    phase \in {"ready", "degraded"} /\ h.providers /\ h.required_relays

Observation(phase, h) ==
    LET role == IdentityHealth(TRUE, h)
    IN [phase |-> phase,
        ready |-> Ready(phase, h),
        reasons |-> Reasons(phase, h),
        provider |-> ProviderHealth(role, role, IdentityHealth(DiscoveryConfigured, h)),
        transport |-> TransportStatus(h),
        \* The persistence summary of a daemon with an open database.
        persistence |-> "ready"]

Documents ==
    [phase : ServicePhases, ready : BOOLEAN, reasons : SUBSET ReasonCodes,
     provider : {"ready", "degraded", "unavailable"},
     transport : [health : {"ready", "unavailable"}, required_relays_ready : BOOLEAN,
                  connected_relay_count : {0, Cardinality(Relays)}],
     persistence : {"ready"}]

\* Before the cache exists.
NoDocument == [phase |-> "none", ready |-> FALSE, reasons |-> {}, provider |-> "none",
               transport |-> [health |-> "none"], persistence |-> "none"]

=============================================================================
