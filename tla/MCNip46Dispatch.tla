--------------------------- MODULE MCNip46Dispatch ---------------------------
(***************************************************************************)
(* Small instances of the dispatcher for TLC, and the inputs the intake in *)
(* front of it is checked on.                                              *)
(***************************************************************************)
EXTENDS Nip46Dispatch, Intake

Say(client, id, method, perms) ==
    [client |-> client, id |-> id, method |-> method, perms |-> perms]

Connecting == Say("app", 1, "connect", {"sign"})
Signing == Say("app", 2, "provider", {"sign"})
LoggingOut == Say("app", 3, "logout", {})

\* A session from its connect to its logout, and a client the configuration
\* denies.
SessionWire == <<Connecting, Signing, LoggingOut, Say("foe", 1, "connect", {})>>

\* Two connects, one that asks for too much, and a signature.
OperatorWire ==
    <<Connecting, Signing, Say("app", 3, "connect", {}),
      Say("app", 4, "connect", {"sign", "decrypt"})>>

Sent == {Wire[e] : e \in EventIds}

\* The replay keys of the events and requests that are admitted.
RetainedKeys ==
    {ReplayKey(e, requests[events[e].operation].message) :
        e \in {e \in EventIds : events[e].operation # None}}

\* The store's answer to a delivery is the verdict of the replay identities on the
\* keys of what it holds: admitted when the delivery is distinct from all of them,
\* a replay when it repeats one and conflicts with none (src/src/state_request.rs
\* and nip46_replay.rs decide this independently of each other).
ReplayAgrees ==
    \A e \in EventIds, id \in {1, 2}, perms \in {{}, {"sign"}} :
        LET m == Say("app", id, "connect", perms)
            verdicts == {classify_against(ReplayKey(e, m), k) : k \in RetainedKeys}
            conflicts == {"ConflictingEventReuse", "ConflictingRequestReuse"}
        IN  /\ RequestAnswer(e, m) = "Admitted" <=> verdicts \subseteq {"DistinctRequest"}
            /\ RequestAnswer(e, m) = "ExactReplay" <=>
                    /\ verdicts \intersect conflicts = {}
                    /\ verdicts \intersect {"DuplicateEvent", "ExactRequestReplay"} # {}

\* The intake's operators depend on no variable: one state is enough.
Untouched == now = 1 /\ taken = 0 /\ restarts = 0 /\ setbacks = 0

\* Pieces a string is put together from: plain and wide characters, escapes whole
\* and cut short, and surrogates of both kinds.
Pieces ==
    {<<"0">>, <<"two">>, <<"four">>, <<"quote">>, <<"control">>, <<"backslash">>,
     <<"backslash", "n">>, <<"backslash", "u">>, <<"backslash", "u", "0", "8">>,
     <<"backslash", "u", "0", "0", "8", "8">>, <<"backslash", "u", "0", "0", "0", "c">>,
     <<"backslash", "u", "0", "8", "8", "0">>, <<"backslash", "u", "c", "0", "0", "0">>,
     <<"backslash", "u", "d", "8", "0", "0">>, <<"backslash", "u", "d", "c", "0", "d">>}
Bodies == {<<>>} \cup Pieces \cup {a \o b : a, b \in Pieces} \cup {a \o b \o c : a, b, c \in Pieces}

\* The decoded length of every string in an event or a request is measured right
\* before it is allocated (src/src/nip46_admission.rs,
\* decoded_json_string_utf8_bytes).
StringsMeasured == Untouched => \A body \in Bodies : MeasuredAsDecoded(body)

Tags == UNION {[1..k -> 0..2] : k \in 0..2}
SmallLimits ==
    [tag_count : {1, 2}, tag_total_elements : {1, 2, 3}, tag_element_bytes : {1, 2},
     tag_total_bytes : {1, 3}, param_count : {1, 2}, param_bytes : {1, 2}, params_bytes : {2, 3}]

\* Tags and parameters are admitted exactly within the limits, with their true
\* counts and sizes (src/src/nip46_admission.rs, the bounded visitors).
ListsMeasured ==
    Untouched => \A limits \in SmallLimits :
        /\ \A tags \in UNION {[1..k -> Tags] : k \in 0..2} : TagsMeasured(tags, limits)
        /\ \A parameters \in UNION {[1..k -> 0..3] : k \in 0..3} : ParametersMeasured(parameters, limits)

DefaultLimits ==
    [wire_bytes |-> 262144, content_bytes |-> 131072, tag_count |-> 1024,
     tag_total_elements |-> 4096, tag_element_bytes |-> 4096, tag_total_bytes |-> 131072,
     decrypted_plaintext_bytes |-> 262144]
PlaintextLengths ==
    1..70 \cup {n \in UNION {{2 ^ e - 1, 2 ^ e, 2 ^ e + 1, 5 * 2 ^ e, 5 * 2 ^ e + 1} : e \in 6..16} :
                    n <= 65535}

\* With the default limits nothing a conforming client sends is dropped for its
\* size, its scheme or its age (src/src/nip46_admission.rs,
\* nip46_verification.rs).
HonestEventsPass ==
    Untouched => \A scheme \in {"nip04", "nip44"}, length \in PlaintextLengths,
                    authored \in 0..5, observed \in {1, 3} :
        HonestPasses(scheme, length, authored, observed, [past |-> 2, future |-> 1], DefaultLimits)

\* What stands before the store is exact: strings and lists are measured as they
\* decode, no conforming client's event is dropped, and the replay identities come
\* to the store's verdict (src/src/nip46_admission.rs, nip46_verification.rs,
\* nip46_replay.rs).
IntakeExact == StringsMeasured /\ ListsMeasured /\ HonestEventsPass /\ ReplayAgrees

=============================================================================
