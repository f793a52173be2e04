------------------------ MODULE ConfigurationDocuments ------------------------
(***************************************************************************)
(* The documents Configuration is checked on: one section at a time (or    *)
(* two that are related) varies around a document that is accepted, with   *)
(* the values at and next to every bound; the properties are stated beside *)
(* those of the database the documents are bound to.                       *)
(***************************************************************************)
EXTENDS Doctor, Configuration

Url(scheme, place, canonical, credentials) ==
    [scheme |-> scheme, host |-> place, canonical |-> canonical, credentials |-> credentials]
RelayUrls == {Url("wss", "remote", TRUE, FALSE), Url("wss", "other", TRUE, FALSE),
              Url("ws", "loopback", TRUE, FALSE), Url("ws", "remote", TRUE, FALSE)}
OddUrls == {Url(s, "remote", c, p) : s \in {"wss", "https", "http"}, c, p \in BOOLEAN}

Relay(id, url, read, write, required) ==
    [id |-> id, url |-> url, read |-> read, write |-> write, required |-> required]
RelayRows(ids) == {Relay(id, url, r, w, q) : id \in ids, url \in RelayUrls, r, w, q \in BOOLEAN}
Main == Relay(<<Lower>>, Url("wss", "remote", TRUE, FALSE), TRUE, TRUE, TRUE)
Characters == {Lower, Digit, Underscore, Upper}
Identifiers == (UNION {[1..k -> Characters] : k \in 0..4}) \cup
               {[i \in 1..k |-> Lower] : k \in {64, 65}}

Provider(kind, absolute, deadline, bytes, concurrency) ==
    [kind |-> kind, absolute |-> absolute, request_deadline_ms |-> deadline,
     request_max_bytes |-> bytes, concurrency |-> concurrency]
Providers ==
    {Provider("local_signer", a, d, b, c) : a \in BOOLEAN, d \in {0, 1, 30000, 30001},
        b \in {0, 1, 65536, 65537}, c \in {0, 1, 64, 65}}
    \cup {Provider("encrypted_file", a, 0, 0, 0) : a \in BOOLEAN}

Base ==
    [profile |-> "production",
     numbers |-> [f \in DOMAIN Fields |->
        CASE f = "subscription_deadline_ms" -> 1000
          [] f \in {"audit", "request_dedup"} -> 1
          [] OTHER -> Absent],
     rates |-> [c \in DOMAIN ExpectedScope |->
        [scope |-> ExpectedScope[c], window |-> 1, max_attempts |-> 1, retention |-> 1,
         maximum_tracked_subjects |-> 1]],
     relays |-> <<Main>>, mode |-> "all_required",
     keys |-> [transport |-> "k1", user |-> "k2", discovery |-> "k3"],
     identityDiscovery |-> FALSE,
     providers |-> [r \in {"transport", "user", "discovery"} |->
        Provider("encrypted_file", TRUE, 0, 0, 0)],
     trusted |-> {"c1"}, denied |-> {},
     ceiling |-> {[name |-> "sign_event", kind |-> 1]}, kinds |-> {1},
     challenges |-> [enabled |-> FALSE, url |-> Url("https", "remote", TRUE, FALSE)],
     operations |-> [enabled |-> FALSE, port |-> 1, loopback |-> TRUE,
                     bind_policy |-> "loopback_only"],
     discovery |-> [enabled |-> FALSE, public |-> {}, publish |-> {}]]

\* The values at and next to a field's bounds.
Edges(f) == {Absent, 0, Fields[f].least, Fields[f].most, Fields[f].most + 1}
Edge(f) == {0, RateFields[f].least, RateFields[f].most, RateFields[f].most + 1}

RelayDocuments ==
    {[Base EXCEPT !.profile = p, !.relays = rs, !.mode = q.mode,
                  !.numbers["required_acknowledgements"] = q.count] :
        p \in {"production", "repo_local"},
        rs \in {<<r>> : r \in RelayRows({<<Lower>>})} \cup
               {<<Main, s>> : s \in RelayRows({<<Lower>>})} \cup
               {<<r, s>> : r \in RelayRows({<<Lower>>}), s \in RelayRows({<<Lower, Digit>>})},
        q \in {[mode |-> "all_required", count |-> Absent], [mode |-> "required_quorum", count |-> 1],
               [mode |-> "at_least_one_required", count |-> Absent],
               [mode |-> "required_quorum", count |-> 2], [mode |-> "required_quorum", count |-> 0]}}

IdentifierDocuments ==
    {[Base EXCEPT !.relays = <<[Main EXCEPT !.id = id, !.url = url]>>] :
        id \in Identifiers, url \in {Main.url}} \cup
    {[Base EXCEPT !.relays = <<[Main EXCEPT !.url = url]>>] : url \in OddUrls}

NumberDocuments ==
    (UNION {{[Base EXCEPT !.numbers[f] = x, !.operations.enabled = on] :
                x \in Edges(f), on \in BOOLEAN} : f \in DOMAIN Fields}) \cup
    {[Base EXCEPT !.numbers["initial_backoff_ms"] = x, !.numbers["maximum_backoff_ms"] = y] :
        x \in Edges("initial_backoff_ms"), y \in Edges("maximum_backoff_ms")}

RateDocuments ==
    {[Base EXCEPT !.rates[c] = [scope |-> s, window |-> w, max_attempts |-> m, retention |-> r,
                                maximum_tracked_subjects |-> t]] :
        c \in {"connection_admission", "challenge_creation"}, s \in {"connection", "global_and_relay"},
        w \in Edge("window"), m \in Edge("max_attempts"), r \in Edge("retention"),
        t \in Edge("maximum_tracked_subjects")}

PolicyDocuments ==
    {[Base EXCEPT !.trusted = t, !.denied = n] :
        t, n \in SUBSET {"c1", "c2", "off_curve"}} \cup
    {[Base EXCEPT !.ceiling = {[name |-> "sign_event", kind |-> k] : k \in ks} \cup
                              {[name |-> n, kind |-> 0] : n \in ns}, !.kinds = allowed] :
        ks, allowed \in SUBSET {1, MaxKind, MaxKind + 1},
        ns \in SUBSET {"nip44_encrypt", "ping"}} \cup
    {[Base EXCEPT !.challenges = [enabled |-> on, url |-> url],
                  !.numbers["pending_lifetime"] = x, !.numbers["authorized_lifetime"] = y] :
        on \in BOOLEAN, url \in OddUrls, x \in Edges("pending_lifetime"),
        y \in Edges("authorized_lifetime")}

IdentityDocuments ==
    {[Base EXCEPT !.keys = [transport |-> a, user |-> b, discovery |-> c],
                  !.identityDiscovery = i, !.discovery = e, !.relays = rs] :
        a \in {"k1", "off_curve"}, b \in {"k1", "k2"}, c \in {"k1", "k3", "off_curve"},
        i \in BOOLEAN,
        e \in [enabled : BOOLEAN, public : SUBSET {<<Lower>>, <<Digit>>},
               publish : SUBSET {<<Lower>>, <<Digit>>}],
        rs \in {<<Main>>, <<Main, [Main EXCEPT !.id = <<Lower, Lower>>, !.read = FALSE,
                                  !.url = Url("wss", "other", TRUE, FALSE)]>>}} \cup
    {[Base EXCEPT !.providers["transport"] = p, !.providers["user"] = q] :
        p \in Providers, q \in {Provider("local_signer", TRUE, 1, 1, 1)}} \cup
    {[Base EXCEPT !.operations = o, !.providers["discovery"].absolute = a] :
        o \in [enabled : BOOLEAN, port : {0, 1}, loopback : BOOLEAN,
               bind_policy : {"loopback_only", "public"}], a \in BOOLEAN}

\* Section by section, as a sequence of sets of documents.
Sections == <<RelayDocuments, IdentifierDocuments, NumberDocuments, RateDocuments,
              PolicyDocuments, IdentityDocuments>>

(***************************************************************************)
(* The properties of Configuration on all of them.                         *)
(***************************************************************************)
\* The properties of a document depend on no variable: the initial state is
\* enough to evaluate them in.
Unused == database = Missing /\ host = NoHost /\ snapshot = Missing /\ budget.crashes = MaxCrashes

\* A document parse_myc_config_v1 accepts is one the daemon can start with, but
\* for a challenge URL that is not canonical (src/src/config_v1.rs,
\* state_metadata.rs and the constructors it calls).
AcceptedStarts == Unused => \A i \in DOMAIN Sections : \A d \in Sections[i] : ConstructsAccepted(d)

\* Filling in the defaults keeps a document valid and is done once
\* (src/src/config_v1.rs, apply_defaults and the validations around it).
DefaultsStable == Unused => \A i \in DOMAIN Sections : \A d \in Sections[i] : DefaultsAreStable(d)

\* The effective document hides what is private and names the source of every
\* integer (src/src/config_v1.rs, build_effective).
EffectiveHonest == Unused => \A i \in DOMAIN Sections : \A d \in Sections[i] : EffectiveIsHonest(d)

\* A document that is accepted can be started, is what its defaults made it, and
\* is shown without its secrets (src/src/config_v1.rs).
DocumentsSound == AcceptedStarts /\ DefaultsStable /\ EffectiveHonest
=============================================================================
