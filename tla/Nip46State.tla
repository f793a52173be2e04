----------------------------- MODULE Nip46State -----------------------------
(***************************************************************************)
(* The durable NIP-46 state: admitted requests and their deduplication     *)
(* records, client connections, request decisions, authorization           *)
(* challenges and committed responses, and the transactions that change    *)
(* them (src/src/state_request.rs, state_connection.rs,                    *)
(* state_completion.rs and state_response.rs, with the policy checks of    *)
(* nip46_authorization.rs and the table guards of state_catalog.rs).       *)
(*                                                                         *)
(* An operation is named by its request identity, the pair of client and   *)
(* request id: the table keeps one operation per identity.  A connection   *)
(* is named by the connect operation that created it, its client is the    *)
(* operation's, and a challenge by the operation it is bound to.  The      *)
(* configuration, and with it the policy generation, is fixed.  0 stands   *)
(* for SQL NULL in a time column.                                          *)
(*                                                                         *)
(* Every transaction is one step; one that returns an error is rolled back *)
(* and is no step.  What the caller gets is the ...Answer operator.        *)
(***************************************************************************)
EXTENDS Integers, FiniteSets

CONSTANTS
    Clients,            \* client public keys
    RequestIds,         \* request identifiers chosen by the clients
    EventIds,           \* ids of signed events
    Messages,           \* decrypted requests
    Permissions,        \* connection permissions
    Trusted,            \* policy.trusted_clients
    Denied,             \* policy.denied_clients
    Ceiling,            \* policy.permission_ceiling
    AuthorizedLifetime, \* policy.challenges.authorized_lifetime_ms, 0: disabled
    PendingLifetime,    \* policy.challenges.pending_lifetime_ms, 0: disabled
    Nonces,             \* operation nonces
    MaxTime,            \* the last representable time
    None                \* no operation, no connection

VARIABLES
    requests,    \* nip46_requests with the 'request' dedup records
    events,      \* the 'event' dedup records
    connections, \* connections with connection_permissions
    decisions,   \* nip46_request_decisions
    challenges,  \* connection_auth_challenges
    responses    \* nip46_operation_commits, signed and pending responses

store == <<requests, events, connections, decisions, challenges, responses>>

Times == 1..MaxTime
OptionalTime == 0..MaxTime

Operations == Clients \X RequestIds

\* get_public_key, get_session_capability, ping and switch_relays are "local";
\* the five methods that call the user's provider are "provider".
Methods == {"connect", "local", "provider", "logout"}

\* `perms' is what a connect asks for and what another request needs.
Message == [client : Clients, id : RequestIds, method : Methods,
            perms : SUBSET Permissions]

ASSUME Nip46Assumption ==
    /\ Messages \subseteq Message
    /\ Trusted \subseteq Clients
    /\ Denied \subseteq Clients
    /\ Trusted \cap Denied = {}
    /\ Ceiling \subseteq Permissions
    /\ AuthorizedLifetime \in Nat
    /\ PendingLifetime \in Nat
    /\ AuthorizedLifetime >= PendingLifetime
    /\ AuthorizedLifetime = 0 <=> PendingLifetime = 0
    /\ Nonces \subseteq Nat \ {0}
    /\ MaxTime \in Nat
    /\ None \notin Operations
    /\ None \notin Messages
    /\ None \notin EventIds

ClientOf(op) == op[1]
OperationOf(m) == <<m.client, m.id>>

(***************************************************************************)
(* Rows.  "none" is the status of a row that does not exist.               *)
(***************************************************************************)
RequestRow == [nonce : Nonces \cup {0}, event : EventIds \cup {None},
               message : Messages \cup {None}, received : OptionalTime,
               seen : OptionalTime]
NoRequest == [nonce |-> 0, event |-> None, message |-> None, received |-> 0, seen |-> 0]

EventRow == [operation : Operations \cup {None}, seen : OptionalTime]
NoEvent == [operation |-> None, seen |-> 0]

ConnectionStatus == {"none", "pending", "active", "denied", "expired"}
ConnectionRow == [status : ConnectionStatus, requested : SUBSET Permissions,
                  granted : SUBSET Permissions, created : OptionalTime,
                  updated : OptionalTime, until : OptionalTime]
NoConnection == [status |-> "none", requested |-> {}, granted |-> {},
                 created |-> 0, updated |-> 0, until |-> 0]

Decision == {"none", "pending_approval", "challenged", "allowed", "denied"}
Reasons == {"none", "explicit_approval_required", "trusted_client", "policy_denied",
            "operator_approved", "operator_denied",
            "authorization_challenge_required",
            "authorization_challenge_authorized",
            "authorization_challenge_expired"}
DecisionRow == [decision : Decision, reason : Reasons,
                connection : Operations \cup {None}, challenged : BOOLEAN,
                decided : OptionalTime]
NoDecision == [decision |-> "none", reason |-> "none", connection |-> None,
               challenged |-> FALSE, decided |-> 0]

ChallengeState == {"none", "pending", "authorized", "expired"}
ChallengeRow == [state : ChallengeState, connection : Operations \cup {None},
                 issued : OptionalTime, expires : OptionalTime,
                 resolved : OptionalTime]
NoChallenge == [state |-> "none", connection |-> None, issued |-> 0,
                expires |-> 0, resolved |-> 0]

\* A commit and its signed response are written together; a pending response
\* is written without a commit.
SessionEffects == {"none", "connection_admitted", "connection_revoked"}
ResponseRow == [kind : {"none", "pending", "terminal"},
                connection : Operations \cup {None}, effect : SessionEffects,
                committed : OptionalTime]
NoResponse == [kind |-> "none", connection |-> None, effect |-> "none", committed |-> 0]

Admitted(op) == requests[op].nonce # 0
Method(op) == requests[op].message.method
Decided(op) == decisions[op].decision # "none"

(***************************************************************************)
(* Request admission (state_request.rs).  A request is exact when its      *)
(* normalized content is the admitted one's.                               *)
(***************************************************************************)
exact_request(m) == requests[OperationOf(m)].message = m

\* Faulty variant: any delivery of the admitted content is taken for the first one.
matches_content(e, m, nonce, t) == requests[OperationOf(m)].message = m

\* The record's nonce, first event and reception are this delivery's own.
matches_request(e, m, nonce, t) ==
    LET row == requests[OperationOf(m)] IN
    row.message = m /\ row.nonce = nonce /\ row.event = e /\ row.received = t

RequestAnswer(e, m) ==
    LET op == OperationOf(m) IN
    CASE ~Admitted(op) /\ events[e].operation = None -> "Admitted"
      [] ~Admitted(op) /\ events[e].operation # None -> "ConflictingEvent"
      [] Admitted(op) /\ ~exact_request(m) -> "ConflictingRequest"
      [] Admitted(op) /\ exact_request(m) /\ events[e].operation \notin {None, op} ->
            "ConflictingRequest"
      [] OTHER -> "ExactReplay"

\* last_seen_at never goes back: the update guard aborts the transaction.
SeenRequest(op, t) ==
    /\ t >= requests[op].seen
    /\ requests' = [requests EXCEPT ![op].seen = t]

SeenEvent(e, t) ==
    /\ t >= events[e].seen
    /\ events' = [events EXCEPT ![e].seen = t]

insert_new_request(e, m, nonce, t) ==
    LET op == OperationOf(m) IN
    /\ requests' = [requests EXCEPT ![op] =
          [nonce |-> nonce, event |-> e, message |-> m, received |-> t, seen |-> t]]
    /\ events' = [events EXCEPT ![e] = [operation |-> op, seen |-> t]]

AdmitRequest(e, m, nonce, t) ==
    LET op == OperationOf(m)
        answer == RequestAnswer(e, m)
    IN
    /\ \/ answer = "Admitted" /\ insert_new_request(e, m, nonce, t)
       \/ /\ answer = "ExactReplay"
          /\ SeenRequest(op, t)
          /\ IF events[e].operation = None
             THEN events' = [events EXCEPT ![e] = [operation |-> op, seen |-> t]]
             ELSE SeenEvent(e, t)
       \/ answer = "ConflictingRequest" /\ SeenRequest(op, t) /\ UNCHANGED events
       \/ answer = "ConflictingEvent" /\ SeenEvent(e, t) /\ UNCHANGED requests
    /\ UNCHANGED <<connections, decisions, challenges, responses>>

(***************************************************************************)
(* The configured authorization policy (nip46_authorization.rs).           *)
(***************************************************************************)
ChallengesEnabled == AuthorizedLifetime # 0

expected_admission(client) ==
    CASE client \in Denied  -> "denied"
      [] client \in Trusted -> "trusted"
      [] OTHER              -> "explicit_approval"

admits_authorized_until(t, until) ==
    IF ChallengesEnabled
    THEN until > t /\ until - t <= AuthorizedLifetime
    ELSE until = 0

\* Faulty variant: the permission ceiling is not consulted.
admits_any_permission(op, until, t) ==
    LET policy == expected_admission(ClientOf(op)) IN
    \/ policy = "denied"
    \/ policy = "trusted" /\ admits_authorized_until(t, until)
    \/ policy = "explicit_approval" /\ until = 0

admits_connection_request(op, until, t) ==
    LET policy == expected_admission(ClientOf(op)) IN
    \/ policy = "denied"
    \/ /\ requests[op].message.perms \subseteq Ceiling
       /\ \/ policy = "trusted" /\ admits_authorized_until(t, until)
          \/ policy = "explicit_approval" /\ until = 0

(***************************************************************************)
(* Readers.  read_connection, parse_decision, decision_record and          *)
(* read_challenge refuse a row that is not of these shapes ("Binding"),    *)
(* which makes the request or the connection unusable for good.            *)
(***************************************************************************)
read_connection(c) ==
    LET row == connections[c] IN
    /\ row.granted \subseteq row.requested
    /\ row.updated >= row.created
    /\ row.status \in {"pending", "denied"} => row.granted = {}
    /\ row.status = "active" => row.until = 0 \/ row.until > row.updated
    /\ row.status \in {"denied", "expired"} => row.until = 0

parse_decision(row) ==
    \/ row.decision = "denied" /\ row.reason = "policy_denied"
       /\ row.connection = None /\ ~row.challenged
    \/ /\ row.connection # None /\ ~row.challenged
       /\ \/ row.decision = "pending_approval" /\ row.reason = "explicit_approval_required"
          \/ row.decision = "allowed" /\ row.reason \in {"trusted_client", "operator_approved"}
          \/ row.decision = "denied" /\ row.reason = "operator_denied"
    \/ /\ row.connection # None /\ row.challenged
       /\ \/ row.decision = "challenged" /\ row.reason = "authorization_challenge_required"
          \/ row.decision = "allowed" /\ row.reason = "authorization_challenge_authorized"
          \/ row.decision = "denied" /\ row.reason = "authorization_challenge_expired"

admission_policy(reason) ==
    CASE reason = "trusted_client" -> "trusted"
      [] reason \in {"explicit_approval_required", "operator_approved", "operator_denied"} ->
            "explicit_approval"
      [] reason = "policy_denied" -> "denied"
      [] OTHER -> "none"

decision_record(row) ==
    /\ ~row.challenged
    /\ \/ row.reason = "policy_denied" /\ row.connection = None
       \/ /\ row.decision = "allowed"
          /\ connections[row.connection].status \in {"active", "expired"}
       \/ /\ row.decision = "pending_approval"
          /\ connections[row.connection].status = "pending"
       \/ /\ row.decision = "denied" /\ row.connection # None
          /\ connections[row.connection].status = "denied"

read_challenge(row) ==
    /\ row.issued < row.expires
    /\ row.state = "pending" <=> row.resolved = 0
    /\ row.state # "pending" => row.resolved >= row.issued

(***************************************************************************)
(* Connection admission (state_connection.rs: admit_connection).  A rate   *)
(* window may refuse the admission before anything is written; that answer *)
(* changes none of these tables.                                           *)
(***************************************************************************)
ConnectionAnswer(op, until, t) ==
    CASE ~Admitted(op) \/ ~admits_connection_request(op, until, t) -> "Binding"
      [] Method(op) # "connect" \/ t < requests[op].received -> "Binding"
      [] Decided(op) ->
            IF /\ admission_policy(decisions[op].reason) = expected_admission(ClientOf(op))
               /\ decision_record(decisions[op])
            THEN "ExactReplay"
            ELSE "Binding"
      [] OTHER -> "Admitted"

InitialStatus(policy) ==
    CASE policy = "trusted"           -> "active"
      [] policy = "explicit_approval" -> "pending"
      [] policy = "denied"            -> "none"

insert_connection(policy, perms, until, t) ==
    [status |-> InitialStatus(policy), requested |-> perms,
     granted |-> IF policy = "trusted" THEN perms ELSE {},
     created |-> t, updated |-> t, until |-> until]

insert_decision(policy, op, t) ==
    CASE policy = "trusted" ->
            [decision |-> "allowed", reason |-> "trusted_client",
             connection |-> op, challenged |-> FALSE, decided |-> t]
      [] policy = "explicit_approval" ->
            [decision |-> "pending_approval", reason |-> "explicit_approval_required",
             connection |-> op, challenged |-> FALSE, decided |-> t]
      [] policy = "denied" ->
            [decision |-> "denied", reason |-> "policy_denied",
             connection |-> None, challenged |-> FALSE, decided |-> t]

AdmitConnection(op, until, t) ==
    LET policy == expected_admission(ClientOf(op)) IN
    /\ ConnectionAnswer(op, until, t) = "Admitted"
    /\ decisions' = [decisions EXCEPT ![op] = insert_decision(policy, op, t)]
    /\ connections' =
          IF policy = "denied"
          THEN connections
          ELSE [connections EXCEPT ![op] =
                  insert_connection(policy, requests[op].message.perms, until, t)]
    /\ UNCHANGED <<requests, events, challenges, responses>>

(***************************************************************************)
(* The operator's decision on a pending connection (decide_connection),    *)
(* revocation (apply_admin_connection_mutation) and expiry                 *)
(* (expire_connection).  A decision on a connection that already has it is *)
(* an exact replay or an error and changes nothing.                        *)
(***************************************************************************)
AwaitsOperator(c, t) ==
    /\ connections[c].status = "pending"
    /\ decisions[c].decision = "pending_approval"
    /\ t >= connections[c].updated

Approve(c, granted, until, t) ==
    /\ AwaitsOperator(c, t)
    /\ granted \subseteq connections[c].requested
    /\ admits_authorized_until(t, until)
    /\ connections' = [connections EXCEPT ![c].status = "active",
          ![c].granted = granted, ![c].updated = t, ![c].until = until]
    /\ decisions' = [decisions EXCEPT ![c].decision = "allowed",
          ![c].reason = "operator_approved", ![c].decided = t]
    /\ UNCHANGED <<requests, events, challenges, responses>>

Deny(c, t) ==
    /\ AwaitsOperator(c, t)
    /\ connections' = [connections EXCEPT ![c].status = "denied",
          ![c].updated = t, ![c].until = 0]
    /\ decisions' = [decisions EXCEPT ![c].decision = "denied",
          ![c].reason = "operator_denied", ![c].decided = t]
    /\ UNCHANGED <<requests, events, challenges, responses>>

\* Faulty variant: the authorization's end is not cleared.
EndSessionKeepingUntil(c, t) ==
    connections' = [connections EXCEPT ![c].status = "expired", ![c].updated = t]

EndSession(c, t) ==
    connections' = [connections EXCEPT ![c].status = "expired",
        ![c].updated = t, ![c].until = 0]

Revoke(c, t) ==
    /\ connections[c].status = "active"
    /\ t >= connections[c].updated
    /\ EndSession(c, t)
    /\ UNCHANGED <<requests, events, decisions, challenges, responses>>

Expire(c, t) ==
    /\ connections[c].status = "active"
    /\ connections[c].until # 0
    /\ connections[c].until < t
    /\ EndSession(c, t)
    /\ UNCHANGED <<requests, events, decisions, challenges, responses>>

(***************************************************************************)
(* Authorization challenges (issue_challenge, authorize_challenge).  Rate  *)
(* windows may refuse either one; nothing is written then.                 *)
(***************************************************************************)
Unexpired(c, t) == connections[c].until = 0 \/ connections[c].until >= t

admits_challenge_request(issued, expires) ==
    /\ ChallengesEnabled
    /\ expires > issued
    /\ expires - issued <= PendingLifetime

IssueChallenge(op, c, expires, t) ==
    /\ admits_challenge_request(t, expires)
    /\ Admitted(op)
    /\ Method(op) # "connect"
    /\ connections[c].status = "active"
    /\ ClientOf(c) = ClientOf(op)
    /\ challenges[op].state = "none"
    /\ t >= requests[op].received
    /\ t >= connections[c].updated
    /\ Unexpired(c, t)
    /\ ~Decided(op)
    /\ challenges' = [challenges EXCEPT ![op] =
          [state |-> "pending", connection |-> c, issued |-> t,
           expires |-> expires, resolved |-> 0]]
    /\ decisions' = [decisions EXCEPT ![op] =
          [decision |-> "challenged", reason |-> "authorization_challenge_required",
           connection |-> c, challenged |-> TRUE, decided |-> t]]
    /\ UNCHANGED <<requests, events, connections, responses>>

\* Faulty variant: only the session's end expires a challenge, not its own.
SessionExpired(op, t) ==
    LET c == challenges[op].connection IN
    connections[c].status # "active" \/ ~Unexpired(c, t)

ChallengeExpired(op, t) ==
    LET c == challenges[op].connection IN
    t > challenges[op].expires \/ connections[c].status # "active" \/ ~Unexpired(c, t)

\* Faulty variant: a resolved challenge is resolved again.
AuthorizeChallengeAgain(op, t) ==
    LET expired == ChallengeExpired(op, t) IN
    /\ challenges[op].state # "none"
    /\ t >= challenges[op].issued
    /\ challenges' = [challenges EXCEPT
          ![op].state = IF expired THEN "expired" ELSE "authorized",
          ![op].resolved = t]
    /\ decisions' = [decisions EXCEPT
          ![op].decision = IF expired THEN "denied" ELSE "allowed",
          ![op].reason = IF expired THEN "authorization_challenge_expired"
                                    ELSE "authorization_challenge_authorized",
          ![op].decided = t]
    /\ UNCHANGED <<requests, events, connections, responses>>

AuthorizeChallenge(op, t) ==
    LET expired == ChallengeExpired(op, t) IN
    /\ challenges[op].state = "pending"
    /\ t >= challenges[op].issued
    /\ challenges' = [challenges EXCEPT
          ![op].state = IF expired THEN "expired" ELSE "authorized",
          ![op].resolved = t]
    /\ decisions' = [decisions EXCEPT
          ![op].decision = IF expired THEN "denied" ELSE "allowed",
          ![op].reason = IF expired THEN "authorization_challenge_expired"
                                    ELSE "authorization_challenge_authorized",
          ![op].decided = t]
    /\ UNCHANGED <<requests, events, connections, responses>>

(***************************************************************************)
(* Responses (state_response.rs, state_completion.rs).  The delivery job   *)
(* of a response is created in the same transaction; module Delivery says  *)
(* when that is refused.                                                   *)
(***************************************************************************)
require_pending_binding(op) ==
    /\ decisions[op].decision = "pending_approval"
    /\ decisions[op].reason = "explicit_approval_required"
    /\ connections[op].status = "pending"

CommitPending(op, t) ==
    /\ require_pending_binding(op)
    /\ t >= decisions[op].decided
    /\ responses[op].kind = "none"
    /\ responses' = [responses EXCEPT ![op] =
          [kind |-> "pending", connection |-> op, effect |-> "none", committed |-> t]]
    /\ UNCHANGED <<requests, events, connections, decisions, challenges>>

\* What MycNip46CommitRequest::new binds: a connect to its terminal decision
\* (no connection for a denial), any other request to a session of its client.
BoundWork(op, c, decision) ==
    /\ Admitted(op)
    /\ IF Method(op) = "connect"
       THEN \/ decision = "allowed" /\ c # None
            \/ decision = "denied" /\ c = None
       ELSE decision = "none" /\ c # None /\ ClientOf(c) = ClientOf(op)

session_effect(op, decision) ==
    CASE Method(op) = "connect" /\ decision = "allowed" -> "connection_admitted"
      [] Method(op) = "logout" -> "connection_revoked"
      [] OTHER -> "none"

verify_connect_decision(op, c, decision) ==
    Method(op) = "connect" =>
        decisions[op].decision = decision /\ decisions[op].connection = c

\* Faulty variant: the session is not read again.
verify_session_known(c, t) == c # None => connections[c].status # "none"

verify_session(c, t) ==
    c # None => connections[c].status = "active" /\ t >= connections[c].updated

ResponseAnswer(op, c, decision, t) ==
    CASE t < requests[op].received -> "Binding"
      [] responses[op].kind = "terminal" ->
            IF responses[op] = [kind |-> "terminal", connection |-> c,
                                effect |-> session_effect(op, decision), committed |-> t]
            THEN "ExactReplay"
            ELSE "Binding"
      [] ~verify_connect_decision(op, c, decision) -> "Binding"
      [] ~verify_session(c, t) -> "Binding"
      [] responses[op].kind = "pending" -> "Storage"
      [] OTHER -> "Committed"

\* Faulty variant: the logout is acknowledged and its session stays.
CommitKeepingSession(op, c, decision, t) ==
    /\ BoundWork(op, c, decision)
    /\ ResponseAnswer(op, c, decision, t) = "Committed"
    /\ responses' = [responses EXCEPT ![op] =
          [kind |-> "terminal", connection |-> c,
           effect |-> session_effect(op, decision), committed |-> t]]
    /\ UNCHANGED <<requests, events, connections, decisions, challenges>>

CommitResponse(op, c, decision, t) ==
    LET effect == session_effect(op, decision) IN
    /\ BoundWork(op, c, decision)
    /\ ResponseAnswer(op, c, decision, t) = "Committed"
    /\ responses' = [responses EXCEPT ![op] =
          [kind |-> "terminal", connection |-> c, effect |-> effect, committed |-> t]]
    /\ IF effect = "connection_revoked"
       THEN EndSession(c, t)
       ELSE UNCHANGED connections
    /\ UNCHANGED <<requests, events, decisions, challenges>>

-----------------------------------------------------------------------------
Init ==
    /\ requests = [op \in Operations |-> NoRequest]
    /\ events = [e \in EventIds |-> NoEvent]
    /\ connections = [c \in Operations |-> NoConnection]
    /\ decisions = [op \in Operations |-> NoDecision]
    /\ challenges = [op \in Operations |-> NoChallenge]
    /\ responses = [op \in Operations |-> NoResponse]

Next ==
    \E t \in Times :
        \/ \E e \in EventIds, m \in Messages, nonce \in Nonces :
              AdmitRequest(e, m, nonce, t)
        \/ \E op \in Operations :
              \/ \E until \in OptionalTime : AdmitConnection(op, until, t)
              \/ \E granted \in SUBSET Permissions, until \in OptionalTime :
                    Approve(op, granted, until, t)
              \/ Deny(op, t)
              \/ Revoke(op, t)
              \/ Expire(op, t)
              \/ \E c \in Operations, expires \in Times : IssueChallenge(op, c, expires, t)
              \/ AuthorizeChallenge(op, t)
              \/ CommitPending(op, t)
              \/ \E c \in Operations \cup {None}, decision \in {"none", "allowed", "denied"} :
                    CommitResponse(op, c, decision, t)

Spec == Init /\ [][Next]_store

-----------------------------------------------------------------------------
TypeOK ==
    /\ requests \in [Operations -> RequestRow]
    /\ events \in [EventIds -> EventRow]
    /\ connections \in [Operations -> ConnectionRow]
    /\ decisions \in [Operations -> DecisionRow]
    /\ challenges \in [Operations -> ChallengeRow]
    /\ responses \in [Operations -> ResponseRow]

(***************************************************************************)
(* No transaction leaves a row its own readers refuse.  The rows are       *)
(* written by different transactions (an operator's approval changes a     *)
(* connection and a decision, a logout or a revocation only a connection,  *)
(* a challenge belongs to one request and another's connection), and a     *)
(* disagreement between them would make every later read fail.             *)
(***************************************************************************)
RecordsReadable ==
    TypeOK /\ \A op \in Operations :
        /\ connections[op].status # "none" => read_connection(op)
        /\ Decided(op) => parse_decision(decisions[op])
        /\ Decided(op) /\ Method(op) = "connect" => decision_record(decisions[op])
        /\ challenges[op].state # "none" => read_challenge(challenges[op])

(***************************************************************************)
(* Nobody holds a session the policy or the operator did not give: a       *)
(* denied client has no connection at all, every permission granted was    *)
(* asked for and is under the configured ceiling, and a session is or was  *)
(* open only for a trusted client or after the operator approved it.  The  *)
(* operator's path (apply_admin_connection_mutation) does not compare its  *)
(* grant with the ceiling: admission has to have done so.                  *)
(***************************************************************************)
SessionsGranted ==
    \A c \in Operations : connections[c].status # "none" =>
        /\ ClientOf(c) \notin Denied
        /\ connections[c].granted \subseteq Ceiling
        /\ connections[c].granted \subseteq requests[c].message.perms
        /\ connections[c].status \in {"active", "expired"} =>
              \/ ClientOf(c) \in Trusted
              \/ decisions[c].reason = "operator_approved"
        /\ ClientOf(c) \in Trusted =>
              connections[c].status \in {"active", "expired"}

(***************************************************************************)
(* A committed answer stays true of the state it spoke of.  A connect that *)
(* was answered with a session has an allowed decision for good, one that  *)
(* was refused never gets a connection, a pending answer is only given     *)
(* where the operator decides, and once a logout is acknowledged its       *)
(* session is over, whatever else happened to it.                          *)
(***************************************************************************)
AnswersAgree ==
    \A op \in Operations :
        /\ responses[op].kind = "pending" =>
              admission_policy(decisions[op].reason) = "explicit_approval"
        /\ responses[op].kind = "terminal" =>
              /\ Admitted(op)
              /\ Method(op) = "connect" =>
                    IF responses[op].effect = "connection_admitted"
                    THEN decisions[op].decision = "allowed"
                    ELSE decisions[op].decision = "denied" /\ connections[op].status = "none"
              /\ Method(op) = "logout" =>
                    connections[responses[op].connection].status = "expired"
              /\ Method(op) # "connect" =>
                    /\ connections[responses[op].connection].status \in {"active", "expired"}
                    /\ ClientOf(responses[op].connection) = ClientOf(op)

(***************************************************************************)
(* Evidence is only ever added (the no-update, no-delete and guard_update  *)
(* triggers): a request keeps its identity and content, an answer is never *)
(* replaced (a pending one is not upgraded either), a settled decision and *)
(* a resolved challenge stay, a session that ended stays ended and keeps   *)
(* the permissions it had.                                                 *)
(***************************************************************************)
EvidenceKept ==
    [][\A op \in Operations :
          /\ Admitted(op) =>
                [requests'[op] EXCEPT !.seen = requests[op].seen] = requests[op]
          /\ responses[op].kind # "none" => responses'[op] = responses[op]
          /\ decisions[op].decision \in {"allowed", "denied"} => decisions'[op] = decisions[op]
          /\ challenges[op].state \in {"authorized", "expired"} =>
                challenges'[op] = challenges[op]
          /\ connections[op].status \in {"denied", "expired"} =>
                connections'[op] = connections[op]
          /\ connections[op].status = "active" =>
                /\ connections'[op].status \in {"active", "expired"}
                /\ connections'[op].granted = connections[op].granted
          /\ connections[op].status # "none" =>
                connections'[op].updated >= connections[op].updated]_store

(***************************************************************************)
(* A challenge is authorized only while it and its session are alive: at   *)
(* the moment a challenge becomes authorized its connection is active, has *)
(* not outlived its authorization and the challenge has not expired, and   *)
(* the decision it resolves is the one it was issued with.                 *)
(***************************************************************************)
ChallengeAuthority ==
    \A op \in Operations : challenges[op].state # "none" =>
        /\ decisions[op].connection = challenges[op].connection
        /\ ClientOf(challenges[op].connection) = ClientOf(op)
        /\ connections[challenges[op].connection].status \in {"active", "expired"}
        /\ challenges[op].state = "pending" <=> decisions[op].decision = "challenged"
        /\ challenges[op].state = "authorized" <=> decisions[op].decision = "allowed"
        /\ challenges[op].state = "authorized" =>
              challenges[op].resolved <= challenges[op].expires
=============================================================================
