---------------------------- MODULE Configuration ----------------------------
(***************************************************************************)
(* The configuration document: the schema's ranges, the defaults, the      *)
(* relationships that parse_myc_config_v1 checks (src/src/config_v1.rs),   *)
(* the constructors that read the normalized document when the daemon      *)
(* starts, each with bounds of its own (state_metadata.rs,                 *)
(* state_governance.rs, state_delivery.rs, state_discovery.rs,             *)
(* nip46_authorization.rs, provider_contract.rs,                           *)
(* transport_nostr_adapter.rs, operations_v1.rs), and the effective        *)
(* document that is shown to an operator.                                  *)
(*                                                                         *)
(* A document is a record of its sections.  An integer that is not in it   *)
(* is Absent.  A URL, a key or a path is what its parser finds in it.      *)
(* Lifetimes and rate windows are in seconds, as TLC's integers stop at    *)
(* 2^31; everything else is in the code's unit.                            *)
(***************************************************************************)
EXTENDS Integers, Sequences, FiniteSets

Absent == -1

(***************************************************************************)
(* The schema's ranges with the defaults (config.v1.schema.json, DEFAULTS).*)
(***************************************************************************)
Field(least, most, otherwise) == [least |-> least, most |-> most, otherwise |-> otherwise]

\* The limits of the operations listener, which exist only when it is enabled.
ListenerFields ==
    [header_count |-> Field(1, 64, 32),
     header_bytes |-> Field(8192, 32768, 16384),
     response_body_utf8_bytes |-> Field(1, 1048576, 1048576),
     concurrent_connections |-> Field(1, 64, 32),
     request_deadline_ms |-> Field(1, 30000, 15000),
     idle_timeout_ms |-> Field(1, 60000, 30000)]

ServiceFields ==
    [shutdown_grace_ms |-> Field(1, 300000, 30000),
     busy_timeout_ms |-> Field(1, 60000, 5000),
     max_connections |-> Field(1, 8, 8),
     connect_deadline_ms |-> Field(1, 30000, 10000),
     max_attempts |-> Field(1, 32, 5),
     initial_backoff_ms |-> Field(1, 30000, 250),
     maximum_backoff_ms |-> Field(1, 300000, 30000),
     attempt_deadline_ms |-> Field(1, 30000, 15000)]

ResourceFields ==
    [admin_header_count |-> Field(1, 64, 32),
     admin_header_bytes |-> Field(1, 32768, 16384),
     admin_request_body |-> Field(1, 65536, 65536),
     admin_response_body |-> Field(8382, 1048576, 1048576),
     admin_connections |-> Field(1, 64, 32),
     admin_request_deadline_ms |-> Field(1, 30000, 15000),
     admin_idle_timeout_ms |-> Field(1, 60000, 30000),
     query_items |-> Field(1, 200, 100),
     wire_bytes |-> Field(1, 524288, 262144),
     content_bytes |-> Field(1, 131072, 131072),
     tag_count |-> Field(1, 1024, 1024),
     tag_total_elements |-> Field(1, 4096, 4096),
     tag_element_bytes |-> Field(1, 4096, 4096),
     tag_total_bytes |-> Field(1, 131072, 131072),
     decrypted_plaintext_bytes |-> Field(1, 262144, 262144),
     ingress |-> Field(1, 65536, 1024),
     provider |-> Field(1, 1024, 64),
     outbox |-> Field(1, 65536, 4096),
     discovery_queue |-> Field(1, 1024, 64),
     descriptors |-> Field(1, 64, 64),
     samples |-> Field(1, 512, 512),
     labels_per_sample |-> Field(1, 8, 8),
     render_utf8_bytes |-> Field(1, 1048576, 1048576),
     worker_threads |-> Field(2, 32, 4),
     blocking_threads |-> Field(1, 32, 8)]

\* The integers that have no default.
DocumentFields ==
    [subscription_deadline_ms |-> Field(1000, 300000, Absent),
     audit |-> Field(1, 31536000, Absent),
     request_dedup |-> Field(1, 31536000, Absent),
     pending_lifetime |-> Field(1, 86400, Absent),
     authorized_lifetime |-> Field(1, 2592000, Absent),
     required_acknowledgements |-> Field(1, 32, Absent)]

Fields ==
    [f \in UNION {DOMAIN ListenerFields, DOMAIN ServiceFields,
                  DOMAIN ResourceFields, DOMAIN DocumentFields} |->
        IF f \in DOMAIN ListenerFields THEN ListenerFields[f]
        ELSE IF f \in DOMAIN ServiceFields THEN ServiceFields[f]
        ELSE IF f \in DOMAIN ResourceFields THEN ResourceFields[f] ELSE DocumentFields[f]]

RateFields ==
    [window |-> Field(1, 86400, Absent), max_attempts |-> Field(1, 10000, Absent),
     retention |-> Field(1, 2592000, Absent), maximum_tracked_subjects |-> Field(1, 65536, Absent)]

InRange(field, value) == field.least <= value /\ value <= field.most

\* From one to the most that is allowed.
UpTo(value, most) == 1 <= value /\ value <= most

\* The variant of its section a field belongs to (the schema's oneOf).
Applies(d, f) ==
    /\ f \in DOMAIN ListenerFields => d.operations.enabled
    /\ f \in {"pending_lifetime", "authorized_lifetime"} => d.challenges.enabled
    /\ f = "required_acknowledgements" => d.mode = "required_quorum"

(***************************************************************************)
(* The schema's patterns.  An identifier is a sequence of characters, each *)
(* standing for its class: a lower-case letter, a digit, an underscore, an *)
(* upper-case letter.                                                      *)
(***************************************************************************)
Lower == "a"
Digit == "0"
Underscore == "_"
Upper == "A"

\* ^[a-z][a-z0-9]*(?:_[a-z0-9]+)*$: an underscore stands between two others.
IdPattern(s) ==
    /\ s # <<>> /\ s[1] = Lower /\ Len(s) <= 64
    /\ \A i \in DOMAIN s :
        \/ s[i] \in {Lower, Digit}
        \/ s[i] = Underscore /\ i < Len(s) /\ s[i + 1] \in {Lower, Digit}

\* ^(wss://|ws://<loopback>...)
RelayUrlPattern(url) == url.scheme = "wss" \/ (url.scheme = "ws" /\ url.host = "loopback")

\* A sign_event permission of up to ten digits; kinds are numbers.
MaxKind == 99             \* 2^32 - 1; a pattern of ten digits reaches past it
PermissionPattern(p) == p.name \in {"sign_event", "nip44_encrypt"}

ProviderPattern(p) ==
    /\ p.absolute
    /\ p.kind = "local_signer" =>
        /\ InRange(Field(1, 30000, Absent), p.request_deadline_ms)
        /\ InRange(Field(1, 65536, Absent), p.request_max_bytes)
        /\ InRange(Field(1, 64, Absent), p.concurrency)

SchemaValid(d) ==
    /\ \A f \in DOMAIN Fields :
        IF Applies(d, f)
        THEN \/ InRange(Fields[f], d.numbers[f])
             \/ Fields[f].otherwise # Absent /\ d.numbers[f] = Absent
        ELSE d.numbers[f] = Absent
    /\ \A c \in DOMAIN d.rates, f \in DOMAIN RateFields : InRange(RateFields[f], d.rates[c][f])
    /\ UpTo(Len(d.relays), 32)
    /\ \A i \in DOMAIN d.relays : IdPattern(d.relays[i].id) /\ RelayUrlPattern(d.relays[i].url)
    /\ \A p \in d.ceiling : PermissionPattern(p)
    /\ UpTo(Cardinality(d.ceiling), 64) /\ UpTo(Cardinality(d.kinds), 64)
    /\ \A k \in d.kinds : k <= MaxKind
    /\ d.challenges.enabled => d.challenges.url.scheme = "https"
    /\ \A r \in DOMAIN d.providers : ProviderPattern(d.providers[r])
    /\ d.discovery.enabled => d.discovery.public # {} /\ d.discovery.publish # {}

(***************************************************************************)
(* parse_myc_config_v1.                                                    *)
(***************************************************************************)
Defaulted(d, f) == Applies(d, f) /\ d.numbers[f] = Absent

apply_defaults(d) ==
    [d EXCEPT !.numbers = [f \in DOMAIN Fields |->
        IF Defaulted(d, f) THEN Fields[f].otherwise ELSE d.numbers[f]]]

\* canonical_relay_url: nothing is in the URL that its parser would drop or
\* rewrite, and the scheme is one the profile allows.
canonical_relay_url(url, profile) ==
    /\ url.canonical /\ ~url.credentials
    /\ CASE profile = "production" -> url.scheme = "wss"
         [] profile = "repo_local" ->
                url.scheme = "wss" \/ (url.scheme = "ws" /\ url.host = "loopback")

With(relays, capability) == {i \in DOMAIN relays : relays[i][capability]}

validate_relays(d) ==
    LET rs == d.relays IN
    /\ \A i \in DOMAIN rs : canonical_relay_url(rs[i].url, d.profile) /\ (rs[i].read \/ rs[i].write)
    /\ \A i, j \in DOMAIN rs : i # j => rs[i].id # rs[j].id /\ rs[i].url # rs[j].url
    /\ With(rs, "required") \intersect With(rs, "read") # {}
    /\ With(rs, "required") \intersect With(rs, "write") # {}

\* The keys of the enabled roles.
RoleKeys(d) == {r \in DOMAIN d.keys : r = "discovery" => d.identityDiscovery}

valid_nostr_public_key(key) == key # "off_curve"

validate_unique_role_keys(d) ==
    /\ \A r \in RoleKeys(d) : valid_nostr_public_key(d.keys[r])
    /\ \A r, s \in RoleKeys(d) : r # s => d.keys[r] # d.keys[s]

SignedKinds(d) == {p.kind : p \in {p \in d.ceiling : p.name = "sign_event"}}

validate_client_policy(d) ==
    /\ \A key \in d.trusted \cup d.denied : valid_nostr_public_key(key)
    /\ d.trusted \intersect d.denied = {}
    /\ \A k \in SignedKinds(d) : k <= MaxKind
    /\ SignedKinds(d) = d.kinds

validate_challenges(d) ==
    d.challenges.enabled => d.numbers["authorized_lifetime"] >= d.numbers["pending_lifetime"]

ExpectedScope == [connection_admission |-> "global_and_relay", challenge_creation |-> "connection",
                  challenge_authorization |-> "connection"]

validate_rate_limits(d) ==
    \A c \in DOMAIN d.rates :
        d.rates[c].scope = ExpectedScope[c] /\ d.rates[c].retention >= d.rates[c].window

\* Faulty variant: the quorum is compared with every write relay.
validate_quorum_of_writers(d) ==
    /\ d.numbers["initial_backoff_ms"] <= d.numbers["maximum_backoff_ms"]
    /\ d.mode = "required_quorum" =>
        d.numbers["required_acknowledgements"] <= Cardinality(With(d.relays, "write"))

validate_transport(d) ==
    /\ d.numbers["initial_backoff_ms"] <= d.numbers["maximum_backoff_ms"]
    /\ d.mode = "required_quorum" =>
        d.numbers["required_acknowledgements"]
            <= Cardinality(With(d.relays, "required") \intersect With(d.relays, "write"))

Named(relays, ids, capability) ==
    \A id \in ids : \E i \in DOMAIN relays : relays[i].id = id /\ relays[i][capability]

validate_discovery(d) ==
    /\ d.discovery.enabled = d.identityDiscovery
    /\ d.discovery.enabled =>
        Named(d.relays, d.discovery.public, "read") /\ Named(d.relays, d.discovery.publish, "write")

validate_operations(d) ==
    d.operations.enabled =>
        /\ d.operations.port # 0
        /\ d.operations.bind_policy = "loopback_only" => d.operations.loopback

validate_relationships(d) ==
    /\ validate_relays(d) /\ validate_unique_role_keys(d) /\ validate_client_policy(d)
    /\ validate_challenges(d) /\ validate_rate_limits(d) /\ validate_transport(d)
    /\ validate_discovery(d) /\ validate_operations(d)

\* MycLocalSignerLimits::new
local_signer_limits(p) ==
    UpTo(p.request_deadline_ms, 30000) /\ UpTo(p.request_max_bytes, 65536) /\ UpTo(p.concurrency, 64)

\* binding_from_config for every enabled role, with distinct identities.
provider_contract(d) ==
    /\ \A r \in RoleKeys(d) :
        /\ valid_nostr_public_key(d.keys[r]) /\ d.providers[r].absolute
        /\ d.providers[r].kind = "local_signer" => local_signer_limits(d.providers[r])
    /\ \A r, s \in RoleKeys(d) : r # s => d.keys[r] # d.keys[s]

\* The document is accepted; what the daemon reads is apply_defaults(d).
parse_myc_config_v1(d) ==
    /\ SchemaValid(d) /\ SchemaValid(apply_defaults(d))
    /\ validate_relationships(apply_defaults(d)) /\ provider_contract(apply_defaults(d))

(***************************************************************************)
(* The constructors, on a normalized document n.                           *)
(***************************************************************************)
\* MycRateRelayId::new
rate_relay_id(s) ==
    /\ UpTo(Len(s), 64) /\ s[1] = Lower /\ s[Len(s)] \in {Lower, Digit, Upper}
    /\ \A i \in DOMAIN s : i < Len(s) => ~(s[i] = Underscore /\ s[i + 1] = Underscore)
    /\ \A i \in DOMAIN s : s[i] \in {Lower, Digit, Underscore}

\* MycDeliveryRelayId::new
delivery_relay_id(s) ==
    /\ UpTo(Len(s), 64) /\ s[1] = Lower /\ s[Len(s)] \in {Lower, Digit, Upper}
    /\ \A i \in DOMAIN s : s[i] \in {Lower, Digit, Underscore}
    /\ ~\E i \in 1..(Len(s) - 1) : s[i] = Underscore /\ s[i + 1] = Underscore

\* MycRateLimitPolicy::new
rate_limit_policy(r) ==
    /\ UpTo(r.window, 86400) /\ UpTo(r.max_attempts, 10000)
    /\ r.retention >= r.window /\ r.retention <= 2592000
    /\ UpTo(r.maximum_tracked_subjects, 65536)

governance_policies(n) ==
    /\ \A c \in DOMAIN n.rates : rate_limit_policy(n.rates[c])
    /\ UpTo(n.numbers["audit"], 31536000)
    /\ n.relays # <<>> /\ \A i \in DOMAIN n.relays : rate_relay_id(n.relays[i].id)

\* MycAuthorizationChallengeUrl::new
challenge_url(url) ==
    /\ url.scheme = "https" \/ (url.scheme = "http" /\ url.host = "loopback")
    /\ ~url.credentials /\ url.canonical

\* MycConnectionPermission::parse and MycConnectionPermissionSet::new
permission_set(ps) ==
    Cardinality(ps) <= 64 /\ \A p \in ps : p.name = "sign_event" => p.kind <= MaxKind

\* MycConnectionPolicies::from_normalized and retention_is_bounded
connection_policies(n) ==
    /\ \A key \in n.trusted \cup n.denied : valid_nostr_public_key(key)
    /\ n.trusted \intersect n.denied = {} /\ permission_set(n.ceiling)
    /\ n.challenges.enabled =>
        /\ challenge_url(n.challenges.url)
        /\ n.numbers["pending_lifetime"] > 0
        /\ n.numbers["authorized_lifetime"] >= n.numbers["pending_lifetime"]
    /\ n.numbers["request_dedup"] > 0

WriteTargets(n) == With(n.relays, "write")

\* delivery_policies and MycDeliveryPolicies::new
delivery_policies(n) ==
    LET required == Cardinality(WriteTargets(n) \intersect With(n.relays, "required"))
        acknowledgements == CASE n.mode = "at_least_one_required" -> 1
                              [] n.mode = "all_required" -> required
                              [] n.mode = "required_quorum" -> n.numbers["required_acknowledgements"]
    IN  /\ \A i \in WriteTargets(n) : delivery_relay_id(n.relays[i].id)
        /\ UpTo(Cardinality(WriteTargets(n)), 32)
        /\ \A i, j \in WriteTargets(n) : i # j => n.relays[i].id # n.relays[j].id
        /\ acknowledgements # 0 /\ acknowledgements <= required
        /\ UpTo(n.numbers["max_attempts"], 32)
        /\ n.numbers["initial_backoff_ms"] # 0
        /\ n.numbers["initial_backoff_ms"] <= n.numbers["maximum_backoff_ms"]
        /\ n.numbers["maximum_backoff_ms"] <= 300000
        /\ UpTo(n.numbers["attempt_deadline_ms"], 30000)
        /\ UpTo(n.numbers["outbox"], 65536)

\* expected_identities: the discovery identity of an enabled role only.
ExpectedDiscovery(n) == n.identityDiscovery

\* MycDiscoveryPolicies::from_normalized
discovery_policies(n) ==
    n.discovery.enabled =>
        /\ ExpectedDiscovery(n)
        /\ n.discovery.public # {}
        /\ \A id \in n.discovery.public : \E i \in DOMAIN n.relays : n.relays[i].id = id
        /\ UpTo(n.numbers["wire_bytes"], 524288)

\* The profile of a transport for one relay, or none the adapter knows.
TransportOf(n, i) ==
    IF n.relays[i].url.scheme = "wss" THEN "public"
    ELSE IF n.profile = "repo_local" /\ n.relays[i].url.scheme = "ws" THEN "simulator" ELSE "none"

IngressGroups(n) == {TransportOf(n, i) : i \in With(n.relays, "read")}

\* MycNostrIngressAdapter::from_configuration
ingress_adapter(n) ==
    /\ \A i \in With(n.relays, "read") : rate_relay_id(n.relays[i].id)
    /\ "none" \notin IngressGroups(n) /\ IngressGroups(n) # {}
    /\ \A i, j \in With(n.relays, "read") : i # j => n.relays[i].url # n.relays[j].url
    /\ \E g \in IngressGroups(n) : \E i \in With(n.relays, "read") :
        TransportOf(n, i) = g /\ n.relays[i].required

\* MycNostrDeliveryAdapter::from_configuration
delivery_adapter(n) ==
    /\ n.relays # <<>>
    /\ \A i \in DOMAIN n.relays :
        /\ delivery_relay_id(n.relays[i].id) /\ TransportOf(n, i) # "none"
        /\ n.relays[i].read \/ n.relays[i].write
    /\ \A i, j \in DOMAIN n.relays : i # j => n.relays[i].id # n.relays[j].id

\* listener_config; the address and limits types are the service host's.
listener_config(n) ==
    n.operations.enabled =>
        /\ n.operations.bind_policy = "loopback_only" => n.operations.loopback
        /\ \A f \in DOMAIN ListenerFields : n.numbers[f] >= 0

\* MycNip46AdmissionLimits::from_config
admission_limits(n) ==
    \A f \in {"wire_bytes", "content_bytes", "tag_count", "tag_total_elements",
              "tag_element_bytes", "tag_total_bytes", "decrypted_plaintext_bytes"} : n.numbers[f] > 0

\* MycStateMetadata::new, then the adapters the daemon builds.
Constructs(n) ==
    /\ governance_policies(n) /\ connection_policies(n)
    /\ delivery_policies(n) /\ discovery_policies(n)
    /\ ingress_adapter(n) /\ delivery_adapter(n) /\ listener_config(n) /\ admission_limits(n)

(***************************************************************************)
(* The effective document.  A leaf of the normalized document is its path  *)
(* the kind of text its value holds; an array of scalars is one leaf, and  *)
(* an empty array, whose elements are all objects, is none.                *)
(***************************************************************************)
Leaf(path, text) == [path |-> path, text |-> text]
ArrayLeaf(path, values, text) == IF values = {} THEN {} ELSE {Leaf(path, text)}

ProviderLeaves(path, p) ==
    {Leaf(path \o <<"expected_public_key">>, "public_key")} \cup
    (IF p.kind = "encrypted_file"
     THEN {Leaf(path \o <<"envelope_path">>, "file"),
           Leaf(path \o <<"credential_reference">>, "credential")}
     ELSE {Leaf(path \o <<"socket_path">>, "file"), Leaf(path \o <<"concurrency">>, "number")})

RolePath == [transport |-> <<"identity", "transport">>, user |-> <<"identity", "user">>,
             discovery |-> <<"identity", "discovery", "binding">>]

flatten_value(n) ==
    UNION {
        {Leaf(<<"numbers", f>>, "number") : f \in {f \in DOMAIN Fields : n.numbers[f] # Absent}},
        {Leaf(<<"relays", "item", "id">>, "relay_id"), Leaf(<<"relays", "item", "url">>, "url"),
         Leaf(<<"relays", "item", "required">>, "flag")},
        UNION {ProviderLeaves(RolePath[r], n.providers[r]) : r \in RoleKeys(n)},
        ArrayLeaf(<<"policy", "trusted_clients">>, n.trusted, "public_key"),
        ArrayLeaf(<<"policy", "denied_clients">>, n.denied, "public_key"),
        ArrayLeaf(<<"policy", "permission_ceiling">>, n.ceiling, "permission"),
        ArrayLeaf(<<"policy", "allowed_sign_event_kinds">>, n.kinds, "number"),
        IF n.challenges.enabled THEN {Leaf(<<"policy", "challenges", "url">>, "url")} ELSE {},
        IF n.operations.enabled THEN {Leaf(<<"operations", "listen">>, "address")} ELSE {},
        IF n.discovery.enabled
        THEN {Leaf(<<"discovery", "domain">>, "profile"),
              Leaf(<<"discovery", "nostrconnect_url_template">>, "profile"),
              Leaf(<<"discovery", "metadata", "name">>, "profile")}
             \cup ArrayLeaf(<<"discovery", "public_relay_ids">>, n.discovery.public, "relay_id")
             \cup ArrayLeaf(<<"discovery", "publish_relay_ids">>, n.discovery.publish, "relay_id")
        ELSE {}}

EndsWith(path, names) == path[Len(path)] \in names

ProfilePaths ==
    {<<"discovery", f>> : f \in {"domain", "handler_identifier", "nostrconnect_url_template"}} \cup
    {<<"discovery", "metadata", f>> : f \in {"name", "display_name", "about", "website", "picture"}}

CountedPaths ==
    {<<"policy", "trusted_clients">>, <<"policy", "denied_clients">>,
     <<"discovery", "public_relay_ids">>, <<"discovery", "publish_relay_ids">>}

redacted_value(path, text) ==
    IF \/ EndsWith(path, {"envelope_path", "socket_path", "credential_reference",
                         "expected_public_key"})
       \/ path = <<"operations", "listen">>
       \/ path[1] = "relays" /\ EndsWith(path, {"id", "url"})
       \/ path = <<"policy", "challenges", "url">> \/ path \in ProfilePaths
    THEN "redacted"
    ELSE IF path \in CountedPaths THEN "count" ELSE text

\* The fields of the document d as they are shown once it is normalized.
build_effective(d) ==
    {[path |-> leaf.path, shown |-> redacted_value(leaf.path, leaf.text),
      source |-> IF leaf.path[1] = "numbers" /\ Fields[leaf.path[2]].otherwise # Absent
                    /\ d.numbers[leaf.path[2]] = Absent
                 THEN "default" ELSE "document"] : leaf \in flatten_value(apply_defaults(d))}

(***************************************************************************)
(* Properties of one document.                                             *)
(***************************************************************************)
\* What parse_myc_config_v1 accepts, every constructor of the daemon accepts
\* too, each with its own copy of the bounds, grammars and relationships; the
\* one exception is a challenge URL that its parser would rewrite, which only
\* MycAuthorizationChallengeUrl::new refuses.
ConstructsAccepted(d) ==
    parse_myc_config_v1(d) =>
        (Constructs(apply_defaults(d))
            <=> (d.challenges.enabled =>
                    d.challenges.url.canonical /\ ~d.challenges.url.credentials))

\* apply_defaults never turns a valid document into an invalid one, never
\* replaces what the document says, and a document that spells its defaults out
\* is the same configuration.
DefaultsAreStable(d) ==
    LET n == apply_defaults(d)
    IN  SchemaValid(d) =>
            /\ SchemaValid(n) /\ apply_defaults(n) = n
            /\ \A f \in DOMAIN Fields : d.numbers[f] # Absent => n.numbers[f] = d.numbers[f]

PrivateTexts == {"public_key", "file", "credential", "relay_id", "url", "address", "profile"}

\* The effective document of an accepted one shows no private text, has every
\* integer the daemon reads, and tells the defaults from the document's own.
EffectiveIsHonest(d) ==
    LET n == apply_defaults(d)
        shown == build_effective(d)
    IN  parse_myc_config_v1(d) =>
            /\ \A field \in shown : field.shown \notin PrivateTexts
            /\ \A f \in DOMAIN Fields : n.numbers[f] # Absent =>
                \E field \in shown :
                    /\ field.path = <<"numbers", f>>
                    /\ (field.source = "document") <=> (d.numbers[f] # Absent)
=============================================================================
