----------------------------- MODULE Nip46Proofs -----------------------------
(***************************************************************************)
(* Machine-checked proofs about the durable NIP-46 state, for every set of *)
(* clients, requests, permissions and every policy.                        *)
(*                                                                         *)
(* The tables refer to one another: a decision names a connection, a       *)
(* challenge a decision and somebody else's connection, an answer a        *)
(* decision or a connection.  The inductive invariant says what the rows   *)
(* of one operation are together (Own), and what they may expect of the    *)
(* connection they name (Linked); the second survives because a session    *)
(* only ever goes from active to expired (Settling).                       *)
(***************************************************************************)
EXTENDS Nip46State, TLAPS

-----------------------------------------------------------------------------
(* Type correctness.                                                       *)

LEMMA TimesTyped ==
    /\ Times \subseteq OptionalTime /\ 0 \in OptionalTime
    /\ OptionalTime \subseteq Nat /\ Times \subseteq Nat \ {0}
BY Nip46Assumption DEF Times, OptionalTime

LEMMA OperationTyped ==
    ASSUME NEW m \in Messages
    PROVE  OperationOf(m) \in Operations /\ m.perms \in SUBSET Permissions /\ m \in Message
BY Nip46Assumption DEF OperationOf, Operations, Message

LEMMA RowsTyped ==
    ASSUME TypeOK, NEW op \in Operations
    PROVE  /\ requests[op] \in RequestRow /\ connections[op] \in ConnectionRow
           /\ decisions[op] \in DecisionRow /\ challenges[op] \in ChallengeRow
           /\ responses[op] \in ResponseRow
BY DEF TypeOK

LEMMA AdmitRequestType ==
    ASSUME TypeOK, NEW e \in EventIds, NEW m \in Messages, NEW nonce \in Nonces, NEW t \in Times,
           AdmitRequest(e, m, nonce, t)
    PROVE  TypeOK'
<1> DEFINE op == OperationOf(m)
<1>0. op \in Operations /\ t \in OptionalTime
  BY OperationTyped, TimesTyped
<1> HIDE DEF op
<1>1. /\ UNCHANGED <<connections, decisions, challenges, responses>>
      /\ \/ requests' = [requests EXCEPT ![op] = [nonce |-> nonce, event |-> e, message |-> m,
                                                  received |-> t, seen |-> t]]
         \/ requests' = [requests EXCEPT ![op].seen = t]
         \/ requests' = requests
      /\ \/ events' = [events EXCEPT ![e] = [operation |-> op, seen |-> t]]
         \/ events' = [events EXCEPT ![e].seen = t]
         \/ events' = events
  BY DEF AdmitRequest, insert_new_request, SeenRequest, SeenEvent, op
<1>2. requests' \in [Operations -> RequestRow]
  <2>1. [nonce |-> nonce, event |-> e, message |-> m, received |-> t, seen |-> t] \in RequestRow
    BY <1>0 DEF RequestRow
  <2>2. [requests[op] EXCEPT !.seen = t] \in RequestRow
    BY <1>0, RowsTyped DEF RequestRow
  <2> QED
    BY <1>0, <1>1, <2>1, <2>2 DEF TypeOK
<1>3. events' \in [EventIds -> EventRow]
  BY <1>0, <1>1 DEF TypeOK, EventRow
<1> QED
  BY <1>1, <1>2, <1>3 DEF TypeOK

-----------------------------------------------------------------------------
(* The rows of one operation.                                              *)

PendingRow(con, dec) ==
    /\ dec.decision = "pending_approval" /\ dec.reason = "explicit_approval_required"
    /\ con.status = "pending" /\ con.granted = {}

ActiveRow(con) == con.status = "active" /\ (con.until = 0 \/ con.until > con.updated)
ExpiredRow(con) == con.status = "expired" /\ con.until = 0

DeniedRow(con, dec) ==
    /\ dec.decision = "denied" /\ dec.reason = "operator_denied"
    /\ con.status = "denied" /\ con.granted = {} /\ con.until = 0

Connected(op, req, con, dec) ==
    /\ dec.connection = op /\ ClientOf(op) \notin Denied
    /\ con.requested = req.message.perms /\ con.requested \subseteq Ceiling
    /\ con.granted \subseteq con.requested /\ con.updated >= con.created
    /\ \/ PendingRow(con, dec) /\ ClientOf(op) \notin Trusted
       \/ DeniedRow(con, dec) /\ ClientOf(op) \notin Trusted
       \/ /\ dec.decision = "allowed" /\ (ActiveRow(con) \/ ExpiredRow(con))
          /\ dec.reason = IF ClientOf(op) \in Trusted THEN "trusted_client" ELSE "operator_approved"

Refused(op, con, dec) ==
    /\ ClientOf(op) \in Denied
    /\ dec.decision = "denied" /\ dec.reason = "policy_denied"
    /\ dec.connection = None /\ con.status = "none"

Challenged(op, con, dec, cha) ==
    /\ con.status = "none"
    /\ dec.connection = cha.connection /\ cha.connection \in Operations
    /\ ClientOf(cha.connection) = ClientOf(op) /\ cha.issued < cha.expires
    /\ \/ /\ cha.state = "pending" /\ cha.resolved = 0
          /\ dec.decision = "challenged" /\ dec.reason = "authorization_challenge_required"
       \/ /\ cha.state = "authorized" /\ cha.resolved # 0
          /\ cha.issued <= cha.resolved /\ cha.resolved <= cha.expires
          /\ dec.decision = "allowed" /\ dec.reason = "authorization_challenge_authorized"
       \/ /\ cha.state = "expired" /\ cha.resolved # 0 /\ cha.issued <= cha.resolved
          /\ dec.decision = "denied" /\ dec.reason = "authorization_challenge_expired"

Own(op, req, con, dec, cha) ==
    /\ req.nonce # 0 => req.message \in Messages
    /\ req.nonce = 0 => dec.decision = "none"
    /\ dec.decision = "none" => con.status = "none" /\ cha.state = "none"
    /\ dec.decision # "none" =>
          IF req.message.method = "connect"
          THEN /\ dec.challenged = FALSE /\ cha.state = "none"
               /\ Refused(op, con, dec) \/ Connected(op, req, con, dec)
          ELSE dec.challenged = TRUE /\ Challenged(op, con, dec, cha)

Held == {"active", "expired"}

\* What an answer says of its own operation's rows.
Answered(req, con, dec, res) ==
    /\ res.kind = "pending" =>
          dec.decision # "none" /\ dec.reason \in {"explicit_approval_required", "operator_approved", "operator_denied"}
    /\ res.kind = "terminal" =>
          /\ req.nonce # 0
          /\ req.message.method = "connect" =>
                IF res.effect = "connection_admitted"
                THEN dec.decision = "allowed"
                ELSE dec.decision = "denied" /\ con.status = "none"

\* What challenges and answers expect of the connection they name.
Linked(op, req, cha, res, conns) ==
    /\ cha.state # "none" => conns[cha.connection].status \in Held
    /\ res.kind = "terminal" /\ req.message.method # "connect" =>
          /\ res.connection \in Operations /\ ClientOf(res.connection) = ClientOf(op)
          /\ conns[res.connection].status \in Held
          /\ req.message.method = "logout" => conns[res.connection].status = "expired"

Rows(op) ==
    /\ Own(op, requests[op], connections[op], decisions[op], challenges[op])
    /\ Answered(requests[op], connections[op], decisions[op], responses[op])
    /\ Linked(op, requests[op], challenges[op], responses[op], connections)

RowsAgree == \A op \in Operations : Rows(op)

\* Sessions that are over stay over, and no session is undone.
Settling(conns, next) ==
    \A c \in Operations :
        /\ conns[c].status \in Held => next[c].status \in Held
        /\ conns[c].status = "expired" => next[c].status = "expired"

LEMMA LinkedStays ==
    ASSUME NEW op, NEW req, NEW cha, NEW res, NEW conns, NEW next, Settling(conns, next),
           cha.state # "none" => cha.connection \in Operations, Linked(op, req, cha, res, conns)
    PROVE  Linked(op, req, cha, res, next)
BY DEF Linked, Settling

\* A challenge names an operation.
LEMMA ChallengeNames ==
    ASSUME NEW op, NEW req, NEW con, NEW dec, NEW cha, Own(op, req, con, dec, cha)
    PROVE  cha.state # "none" => cha.connection \in Operations
BY DEF Own, Challenged

-----------------------------------------------------------------------------
(* The steps.  Each lemma shows that the tables stay typed and the rows    *)
(* stay in agreement.                                                      *)

AllRows == TypeOK /\ RowsAgree

\* A step that only changes the rows of one operation.
LEMMA OneOperation ==
    ASSUME RowsAgree, NEW op \in Operations, Settling(connections, connections'),
           \A p \in Operations : p # op =>
              /\ requests'[p] = requests[p] /\ connections'[p] = connections[p]
              /\ decisions'[p] = decisions[p] /\ challenges'[p] = challenges[p]
              /\ responses'[p] = responses[p],
           Own(op, requests'[op], connections'[op], decisions'[op], challenges'[op]),
           Answered(requests'[op], connections'[op], decisions'[op], responses'[op]),
           Linked(op, requests'[op], challenges'[op], responses'[op], connections')
    PROVE  RowsAgree'
<1> SUFFICES ASSUME NEW p \in Operations, p # op
             PROVE  /\ Own(p, requests[p], connections[p], decisions[p], challenges[p])
                    /\ Answered(requests[p], connections[p], decisions[p], responses[p])
                    /\ Linked(p, requests[p], challenges[p], responses[p], connections')
  BY DEF RowsAgree, Rows
<1>1. Rows(p)
  BY DEF RowsAgree
<1>2. challenges[p].state # "none" => challenges[p].connection \in Operations
  BY <1>1, ChallengeNames DEF Rows
<1> QED
  BY <1>1, <1>2, LinkedStays DEF Rows

LEMMA SameConnections ==
    ASSUME connections' = connections
    PROVE  Settling(connections, connections')
BY DEF Settling

LEMMA AdmitRequestStep ==
    ASSUME AllRows, NEW e \in EventIds, NEW m \in Messages, NEW nonce \in Nonces, NEW t \in Times,
           AdmitRequest(e, m, nonce, t)
    PROVE  AllRows'
<1> DEFINE op == OperationOf(m)
<1>0. op \in Operations /\ nonce # 0
  BY OperationTyped, Nip46Assumption
<1>1. /\ connections' = connections /\ decisions' = decisions /\ challenges' = challenges
      /\ responses' = responses
      /\ \/ /\ ~Admitted(op)
            /\ requests' = [requests EXCEPT ![op] = [nonce |-> nonce, event |-> e, message |-> m,
                                                     received |-> t, seen |-> t]]
         \/ requests' = [requests EXCEPT ![op].seen = t]
         \/ requests' = requests
  BY DEF AdmitRequest, insert_new_request, SeenRequest, RequestAnswer
<1>2. TypeOK'
  BY AdmitRequestType DEF AllRows
<1> HIDE DEF op
<1>3. Rows(op) /\ requests[op] \in RequestRow
  BY <1>0, RowsTyped DEF AllRows, RowsAgree
<1>4. /\ \A p \in Operations : p # op => requests'[p] = requests[p]
      /\ \/ /\ requests[op].nonce = 0 /\ requests'[op].nonce # 0
            /\ requests'[op].message \in Messages
         \/ /\ requests'[op].nonce = requests[op].nonce
            /\ requests'[op].message = requests[op].message
  BY <1>0, <1>1 DEF AllRows, TypeOK, RequestRow, Admitted
<1>5. Own(op, requests'[op], connections[op], decisions[op], challenges[op])
  BY <1>3, <1>4 DEF Rows, Own, Connected
<1>6. Answered(requests'[op], connections[op], decisions[op], responses[op])
  BY <1>3, <1>4 DEF Rows, Answered, Own
<1>7. Linked(op, requests'[op], challenges[op], responses[op], connections)
  BY <1>3, <1>4 DEF Rows, Own, Linked, Answered
<1>8. RowsAgree'
  BY <1>0, <1>1, <1>4, <1>5, <1>6, <1>7, SameConnections, OneOperation DEF AllRows
<1> QED
  BY <1>2, <1>8 DEF AllRows

LEMMA AdmitConnectionStep ==
    ASSUME AllRows, NEW op \in Operations, NEW until \in OptionalTime, NEW t \in Times,
           AdmitConnection(op, until, t)
    PROVE  AllRows'
<1> DEFINE policy == expected_admission(ClientOf(op))
           dec == insert_decision(policy, op, t)
           con == insert_connection(policy, requests[op].message.perms, until, t)
<1>1. /\ requests' = requests /\ events' = events /\ challenges' = challenges /\ responses' = responses
      /\ decisions' = [decisions EXCEPT ![op] = dec]
      /\ connections' = IF policy = "denied" THEN connections ELSE [connections EXCEPT ![op] = con]
  BY DEF AdmitConnection
<1>2. /\ Admitted(op) /\ admits_connection_request(op, until, t) /\ Method(op) = "connect"
      /\ decisions[op].decision = "none"
  BY DEF AdmitConnection, ConnectionAnswer, Decided
<1>3. Rows(op) /\ decisions[op] \in DecisionRow /\ connections[op] \in ConnectionRow
  BY RowsTyped DEF AllRows, RowsAgree
<1>4. /\ requests[op].nonce # 0 /\ requests[op].message \in Messages
      /\ requests[op].message.method = "connect"
      /\ connections[op].status = "none" /\ challenges[op].state = "none"
      /\ responses[op].kind # "terminal" /\ responses[op].kind # "pending"
  BY <1>2, <1>3 DEF Rows, Own, Answered, Admitted, Method
<1>5. requests[op].message.perms \in SUBSET Permissions
  BY <1>4, OperationTyped
<1>6. t \in OptionalTime /\ t \in Nat /\ until \in Nat
  BY TimesTyped
<1>7. /\ decisions'[op] = dec /\ \A p \in Operations : p # op => decisions'[p] = decisions[p]
      /\ connections'[op] = IF policy = "denied" THEN connections[op] ELSE con
      /\ \A p \in Operations : p # op => connections'[p] = connections[p]
  BY <1>1 DEF AllRows, TypeOK
<1>8. policy \in {"denied", "trusted", "explicit_approval"}
  BY DEF expected_admission
<1> DEFINE Good == /\ dec \in DecisionRow /\ dec.decision # "none" /\ dec.challenged = FALSE
                   /\ policy # "denied" => con \in ConnectionRow
                   /\ IF policy = "denied" THEN Refused(op, connections[op], dec)
                      ELSE Connected(op, requests[op], con, dec)
<1>9. ASSUME policy = "denied" PROVE Good
  <2>1. dec = [decision |-> "denied", reason |-> "policy_denied",
               connection |-> None, challenged |-> FALSE, decided |-> t]
    BY <1>9 DEF insert_decision
  <2>2. ClientOf(op) \in Denied
    BY <1>9 DEF expected_admission
  <2> HIDE DEF dec, policy, con
  <2> QED
    BY <1>4, <1>6, <1>9, <2>1, <2>2 DEF DecisionRow, Decision, Reasons, Refused
<1>10. ASSUME policy = "trusted" PROVE Good
  <2>1. /\ dec = [decision |-> "allowed", reason |-> "trusted_client",
                  connection |-> op, challenged |-> FALSE, decided |-> t]
        /\ con = [status |-> "active", requested |-> requests[op].message.perms,
                  granted |-> requests[op].message.perms, created |-> t, updated |-> t, until |-> until]
    BY <1>10 DEF insert_decision, insert_connection, InitialStatus
  <2>2. ClientOf(op) \in Trusted /\ ClientOf(op) \notin Denied
    BY <1>10, Nip46Assumption DEF expected_admission
  <2>3. requests[op].message.perms \subseteq Ceiling /\ (until = 0 \/ until > t)
    BY <1>2, <1>10 DEF admits_connection_request, admits_authorized_until
  <2> HIDE DEF dec, policy, con
  <2>4. dec \in DecisionRow /\ con \in ConnectionRow
    BY <1>5, <1>6, <2>1 DEF DecisionRow, Decision, Reasons, ConnectionRow, ConnectionStatus
  <2>5. Connected(op, requests[op], con, dec)
    BY <1>6, <2>1, <2>2, <2>3 DEF Connected, ActiveRow
  <2> QED
    BY <1>10, <2>1, <2>4, <2>5
<1>11. ASSUME policy = "explicit_approval" PROVE Good
  <2>1. /\ dec = [decision |-> "pending_approval", reason |-> "explicit_approval_required",
                  connection |-> op, challenged |-> FALSE, decided |-> t]
        /\ con = [status |-> "pending", requested |-> requests[op].message.perms,
                  granted |-> {}, created |-> t, updated |-> t, until |-> until]
    BY <1>11 DEF insert_decision, insert_connection, InitialStatus
  <2>2. ClientOf(op) \notin Trusted /\ ClientOf(op) \notin Denied
    BY <1>11 DEF expected_admission
  <2>3. requests[op].message.perms \subseteq Ceiling
    BY <1>2, <1>11 DEF admits_connection_request
  <2> HIDE DEF dec, policy, con
  <2>4. dec \in DecisionRow /\ con \in ConnectionRow
    BY <1>5, <1>6, <2>1 DEF DecisionRow, Decision, Reasons, ConnectionRow, ConnectionStatus
  <2>5. Connected(op, requests[op], con, dec)
    BY <1>6, <2>1, <2>2, <2>3 DEF Connected, PendingRow
  <2> QED
    BY <1>11, <2>1, <2>4, <2>5
<1> HIDE DEF dec, con, policy
<1>12. Good
  BY <1>8, <1>9, <1>10, <1>11
<1>13. TypeOK'
  BY <1>1, <1>12 DEF AllRows, TypeOK
<1>14. Settling(connections, connections')
  BY <1>4, <1>7 DEF Settling, Held
<1>15. Own(op, requests'[op], connections'[op], decisions'[op], challenges'[op])
  BY <1>1, <1>4, <1>7, <1>12 DEF Own
<1>16. /\ Answered(requests'[op], connections'[op], decisions'[op], responses'[op])
       /\ Linked(op, requests'[op], challenges'[op], responses'[op], connections')
  BY <1>1, <1>4 DEF Answered, Linked
<1>17. RowsAgree'
  BY <1>1, <1>7, <1>14, <1>15, <1>16, OneOperation DEF AllRows
<1> QED
  BY <1>13, <1>17 DEF AllRows

\* The operator decides a connection that waits for it.
LEMMA DecideStep ==
    ASSUME AllRows, NEW op \in Operations, NEW t \in Times, AwaitsOperator(op, t),
           NEW con, NEW dec, con \in ConnectionRow, dec \in DecisionRow,
           con.requested = connections[op].requested, con.granted \subseteq con.requested,
           con.created = connections[op].created, con.updated = t,
           dec.connection = decisions[op].connection, dec.challenged = decisions[op].challenged,
           \/ DeniedRow(con, dec)
           \/ ActiveRow(con) /\ dec.decision = "allowed" /\ dec.reason = "operator_approved",
           requests' = requests, events' = events, challenges' = challenges, responses' = responses,
           connections' = [connections EXCEPT ![op] = con],
           decisions' = [decisions EXCEPT ![op] = dec]
    PROVE  AllRows'
<1>1. Rows(op) /\ connections[op] \in ConnectionRow
  BY RowsTyped DEF AllRows, RowsAgree
<1>2. /\ connections[op].status = "pending" /\ decisions[op].decision = "pending_approval"
      /\ t >= connections[op].updated
  BY DEF AwaitsOperator
<1>3. /\ requests[op].nonce # 0 /\ requests[op].message \in Messages
      /\ requests[op].message.method = "connect" /\ challenges[op].state = "none"
      /\ decisions[op].challenged = FALSE
      /\ Connected(op, requests[op], connections[op], decisions[op])
  BY <1>1, <1>2 DEF Rows, Own, Challenged, Refused
<1>4. con.updated >= con.created
  <2>1. /\ connections[op].updated \in Nat /\ connections[op].created \in Nat /\ t \in Nat
    BY <1>1, TimesTyped DEF ConnectionRow
  <2> QED
    BY <1>2, <1>3, <2>1 DEF Connected
<1>5. Connected(op, requests[op], con, dec)
  BY <1>2, <1>3, <1>4 DEF Connected, PendingRow, DeniedRow, ActiveRow, ExpiredRow
<1>6. /\ connections'[op] = con /\ decisions'[op] = dec
      /\ \A p \in Operations : p # op => connections'[p] = connections[p] /\ decisions'[p] = decisions[p]
  BY DEF AllRows, TypeOK
<1>7. TypeOK'
  BY DEF AllRows, TypeOK
<1>8. Settling(connections, connections')
  BY <1>2, <1>6 DEF Settling, Held
<1>9. dec.decision # "none" /\ dec.reason \in {"operator_approved", "operator_denied"}
  BY DEF DeniedRow
<1>10. Own(op, requests'[op], connections'[op], decisions'[op], challenges'[op])
  BY <1>3, <1>5, <1>6, <1>9 DEF Own
<1>11. responses[op].kind # "terminal"
  BY <1>1, <1>2, <1>3 DEF Rows, Answered
<1>12. /\ Answered(requests'[op], connections'[op], decisions'[op], responses'[op])
       /\ Linked(op, requests'[op], challenges'[op], responses'[op], connections')
  BY <1>3, <1>6, <1>9, <1>11 DEF Answered, Linked
<1>13. RowsAgree'
  BY <1>6, <1>8, <1>10, <1>12, OneOperation DEF AllRows
<1> QED
  BY <1>7, <1>13 DEF AllRows

LEMMA ApproveStep ==
    ASSUME AllRows, NEW op \in Operations, NEW granted \in SUBSET Permissions,
           NEW until \in OptionalTime, NEW t \in Times, Approve(op, granted, until, t)
    PROVE  AllRows'
<1> DEFINE con == [connections[op] EXCEPT !.status = "active", !.granted = granted,
                                          !.updated = t, !.until = until]
           dec == [decisions[op] EXCEPT !.decision = "allowed", !.reason = "operator_approved",
                                        !.decided = t]
<1>1. connections[op] \in ConnectionRow /\ decisions[op] \in DecisionRow /\ t \in OptionalTime
  BY RowsTyped, TimesTyped DEF AllRows
<1>2. /\ con \in ConnectionRow /\ con.requested = connections[op].requested /\ con.granted = granted
      /\ con.created = connections[op].created /\ con.updated = t /\ con.status = "active"
      /\ con.until = until
  BY <1>1 DEF ConnectionRow, ConnectionStatus
<1>3. /\ dec \in DecisionRow /\ dec.connection = decisions[op].connection
      /\ dec.challenged = decisions[op].challenged
      /\ dec.decision = "allowed" /\ dec.reason = "operator_approved"
  BY <1>1 DEF DecisionRow, Decision, Reasons
<1>4. /\ AwaitsOperator(op, t) /\ granted \subseteq connections[op].requested
      /\ until = 0 \/ until > t
      /\ requests' = requests /\ events' = events /\ challenges' = challenges /\ responses' = responses
  BY DEF Approve, admits_authorized_until
<1>5. connections' = [connections EXCEPT ![op] = con] /\ decisions' = [decisions EXCEPT ![op] = dec]
  BY DEF Approve, AllRows, TypeOK
<1> HIDE DEF con, dec
<1>6. ActiveRow(con)
  BY <1>2, <1>4 DEF ActiveRow
<1> QED
  BY <1>2, <1>3, <1>4, <1>5, <1>6, DecideStep

LEMMA DenyStep ==
    ASSUME AllRows, NEW op \in Operations, NEW t \in Times, Deny(op, t)
    PROVE  AllRows'
<1> DEFINE con == [connections[op] EXCEPT !.status = "denied", !.updated = t, !.until = 0]
           dec == [decisions[op] EXCEPT !.decision = "denied", !.reason = "operator_denied",
                                        !.decided = t]
<1>1. connections[op] \in ConnectionRow /\ decisions[op] \in DecisionRow
      /\ t \in OptionalTime /\ 0 \in OptionalTime
  BY RowsTyped, TimesTyped DEF AllRows
<1>2. /\ con \in ConnectionRow /\ con.requested = connections[op].requested
      /\ con.granted = connections[op].granted
      /\ con.created = connections[op].created /\ con.updated = t /\ con.status = "denied"
      /\ con.until = 0
  BY <1>1 DEF ConnectionRow, ConnectionStatus
<1>3. /\ dec \in DecisionRow /\ dec.connection = decisions[op].connection
      /\ dec.challenged = decisions[op].challenged
      /\ dec.decision = "denied" /\ dec.reason = "operator_denied"
  BY <1>1 DEF DecisionRow, Decision, Reasons
<1>4. /\ AwaitsOperator(op, t)
      /\ requests' = requests /\ events' = events /\ challenges' = challenges /\ responses' = responses
  BY DEF Deny
<1>5. connections' = [connections EXCEPT ![op] = con] /\ decisions' = [decisions EXCEPT ![op] = dec]
  BY DEF Deny, AllRows, TypeOK
<1>6. connections[op].granted = {}
  BY <1>4 DEF AwaitsOperator, AllRows, RowsAgree, Rows, Own, Connected, Challenged, Refused,
              PendingRow, DeniedRow, ActiveRow, ExpiredRow
<1> HIDE DEF con, dec
<1>7. DeniedRow(con, dec) /\ con.granted \subseteq con.requested
  BY <1>2, <1>3, <1>6 DEF DeniedRow
<1> QED
  BY <1>2, <1>3, <1>4, <1>5, <1>7, DecideStep

\* An active session ends: what refers to it still holds.
LEMMA EndSessionFacts ==
    ASSUME AllRows, NEW c \in Operations, NEW t \in Times,
           connections[c].status = "active", t >= connections[c].updated, EndSession(c, t)
    PROVE  /\ connections' \in [Operations -> ConnectionRow]
           /\ Settling(connections, connections')
           /\ connections'[c].status = "expired"
           /\ \A p \in Operations : p # c => connections'[p] = connections[p]
           /\ \A p \in Operations :
                 /\ Own(p, requests[p], connections'[p], decisions[p], challenges[p])
                 /\ Answered(requests[p], connections'[p], decisions[p], responses[p])
                 /\ Linked(p, requests[p], challenges[p], responses[p], connections')
<1> DEFINE con == [connections[c] EXCEPT !.status = "expired", !.updated = t, !.until = 0]
<1>1. connections[c] \in ConnectionRow /\ t \in OptionalTime /\ 0 \in OptionalTime
  BY RowsTyped, TimesTyped DEF AllRows
<1>2. /\ con \in ConnectionRow /\ con.requested = connections[c].requested
      /\ con.granted = connections[c].granted
      /\ con.created = connections[c].created /\ con.updated = t /\ con.status = "expired"
      /\ con.until = 0
  BY <1>1 DEF ConnectionRow, ConnectionStatus
<1>3. connections' = [connections EXCEPT ![c] = con]
  BY DEF EndSession, AllRows, TypeOK
<1> HIDE DEF con
<1>4. /\ connections' \in [Operations -> ConnectionRow] /\ connections'[c] = con
      /\ \A p \in Operations : p # c => connections'[p] = connections[p]
  BY <1>2, <1>3 DEF AllRows, TypeOK
<1>5. Settling(connections, connections')
  BY <1>2, <1>4 DEF Settling, Held
<1>6. Rows(c)
  BY DEF AllRows, RowsAgree
<1>7. /\ requests[c].message.method = "connect" /\ decisions[c].decision = "allowed"
      /\ challenges[c].state = "none" /\ Connected(c, requests[c], connections[c], decisions[c])
      /\ requests[c].message \in Messages /\ requests[c].nonce # 0
      /\ decisions[c].challenged = FALSE
  BY <1>6 DEF Rows, Own, Challenged, Refused, Connected, PendingRow, DeniedRow
<1>8. con.updated >= con.created
  <2>1. connections[c].updated \in Nat /\ connections[c].created \in Nat /\ t \in Nat
    BY <1>1, TimesTyped DEF ConnectionRow
  <2> QED
    BY <1>2, <1>7, <2>1 DEF Connected
<1>9. Connected(c, requests[c], con, decisions[c])
  BY <1>2, <1>7, <1>8 DEF Connected, ExpiredRow, PendingRow, DeniedRow
<1>10. Own(c, requests[c], con, decisions[c], challenges[c])
  BY <1>7, <1>9 DEF Own
<1>11. Answered(requests[c], con, decisions[c], responses[c])
  BY <1>6, <1>7 DEF Rows, Answered
<1>12. ASSUME NEW p \in Operations
       PROVE  /\ Own(p, requests[p], connections'[p], decisions[p], challenges[p])
              /\ Answered(requests[p], connections'[p], decisions[p], responses[p])
              /\ Linked(p, requests[p], challenges[p], responses[p], connections')
  <2>1. Rows(p)
    BY DEF AllRows, RowsAgree
  <2>2. challenges[p].state # "none" => challenges[p].connection \in Operations
    BY <2>1, ChallengeNames DEF Rows
  <2>3. Linked(p, requests[p], challenges[p], responses[p], connections')
    BY <1>5, <2>1, <2>2, LinkedStays DEF Rows
  <2> QED
    BY <1>4, <1>10, <1>11, <2>1, <2>3 DEF Rows
<1> QED
  BY <1>2, <1>4, <1>5, <1>12

LEMMA EndTime ==
    ASSUME AllRows, NEW c \in Operations, NEW t \in Times, Revoke(c, t) \/ Expire(c, t)
    PROVE  t >= connections[c].updated
<1>1. CASE Revoke(c, t)
  BY <1>1 DEF Revoke
<1>2. CASE Expire(c, t)
  <2>1. /\ connections[c].status = "active"
        /\ connections[c].until # 0 /\ connections[c].until < t
    BY <1>2 DEF Expire
  <2>2. /\ connections[c].updated \in Nat /\ connections[c].until \in Nat /\ t \in Nat
    BY RowsTyped, TimesTyped DEF AllRows, ConnectionRow
  <2>3. connections[c].until > connections[c].updated
    BY <2>1 DEF AllRows, RowsAgree, Rows, Own, Challenged, Refused, Connected, PendingRow,
                DeniedRow, ActiveRow, ExpiredRow
  <2> QED
    BY <2>1, <2>2, <2>3
<1> QED
  BY <1>1, <1>2

LEMMA EndStep ==
    ASSUME AllRows, NEW c \in Operations, NEW t \in Times, Revoke(c, t) \/ Expire(c, t)
    PROVE  AllRows'
<1>1. /\ connections[c].status = "active" /\ EndSession(c, t)
      /\ UNCHANGED <<requests, events, decisions, challenges, responses>>
  BY DEF Revoke, Expire
<1>2. t >= connections[c].updated
  BY EndTime
<1>3. /\ connections' \in [Operations -> ConnectionRow]
      /\ \A p \in Operations :
            /\ Own(p, requests[p], connections'[p], decisions[p], challenges[p])
            /\ Answered(requests[p], connections'[p], decisions[p], responses[p])
            /\ Linked(p, requests[p], challenges[p], responses[p], connections')
  BY <1>1, <1>2, EndSessionFacts
<1> QED
  BY <1>1, <1>3 DEF AllRows, TypeOK, RowsAgree, Rows

\* A step that writes the decision and the challenge of one operation.
LEMMA ChallengeStep ==
    ASSUME AllRows, NEW op \in Operations, NEW dec \in DecisionRow, NEW cha \in ChallengeRow,
           requests[op].nonce # 0, requests[op].message \in Messages,
           requests[op].message.method # "connect", responses[op].kind # "pending",
           dec.challenged = TRUE, dec.decision # "none",
           Challenged(op, connections[op], dec, cha), connections[cha.connection].status \in Held,
           requests' = requests, events' = events, connections' = connections, responses' = responses,
           challenges' = [challenges EXCEPT ![op] = cha],
           decisions' = [decisions EXCEPT ![op] = dec]
    PROVE  AllRows'
<1>1. Rows(op)
  BY DEF AllRows, RowsAgree
<1>2. /\ challenges'[op] = cha /\ decisions'[op] = dec
      /\ \A p \in Operations : p # op => challenges'[p] = challenges[p] /\ decisions'[p] = decisions[p]
  BY DEF AllRows, TypeOK
<1>3. TypeOK'
  BY DEF AllRows, TypeOK
<1>4. Own(op, requests[op], connections[op], dec, cha)
  BY DEF Own
<1>5. Answered(requests[op], connections[op], dec, responses[op])
  BY <1>1 DEF Rows, Answered
<1>6. Linked(op, requests[op], cha, responses[op], connections)
  BY <1>1 DEF Rows, Linked
<1>7. RowsAgree'
  BY <1>2, <1>4, <1>5, <1>6, SameConnections, OneOperation DEF AllRows
<1> QED
  BY <1>3, <1>7 DEF AllRows

LEMMA IssueChallengeStep ==
    ASSUME AllRows, NEW op \in Operations, NEW c \in Operations, NEW expires \in Times,
           NEW t \in Times, IssueChallenge(op, c, expires, t)
    PROVE  AllRows'
<1> DEFINE cha == [state |-> "pending", connection |-> c, issued |-> t,
                   expires |-> expires, resolved |-> 0]
           dec == [decision |-> "challenged", reason |-> "authorization_challenge_required",
                   connection |-> c, challenged |-> TRUE, decided |-> t]
<1>1. /\ requests' = requests /\ events' = events /\ connections' = connections
      /\ responses' = responses
      /\ challenges' = [challenges EXCEPT ![op] = cha]
      /\ decisions' = [decisions EXCEPT ![op] = dec]
  BY DEF IssueChallenge
<1>2. /\ requests[op].nonce # 0 /\ requests[op].message.method # "connect"
      /\ connections[c].status = "active" /\ ClientOf(c) = ClientOf(op)
      /\ decisions[op].decision = "none" /\ expires > t
  BY DEF IssueChallenge, Admitted, Method, Decided, admits_challenge_request
<1>3. Rows(op)
  BY DEF AllRows, RowsAgree
<1>4. /\ requests[op].message \in Messages /\ connections[op].status = "none"
      /\ responses[op].kind # "pending"
  BY <1>2, <1>3 DEF Rows, Own, Answered
<1>5. t \in OptionalTime /\ expires \in OptionalTime /\ 0 \in OptionalTime /\ t \in Nat /\ expires \in Nat
  BY TimesTyped
<1>6. cha \in ChallengeRow /\ dec \in DecisionRow
  BY <1>5 DEF ChallengeRow, ChallengeState, DecisionRow, Decision, Reasons
<1>7. Challenged(op, connections[op], dec, cha)
  BY <1>2, <1>4, <1>5 DEF Challenged
<1>8. /\ dec.challenged = TRUE /\ dec.decision # "none"
      /\ connections[cha.connection].status \in Held
  BY <1>2 DEF Held
<1> HIDE DEF cha, dec
<1> QED
  BY <1>1, <1>2, <1>4, <1>6, <1>7, <1>8, ChallengeStep

LEMMA AuthorizeChallengeStep ==
    ASSUME AllRows, NEW op \in Operations, NEW t \in Times, AuthorizeChallenge(op, t)
    PROVE  AllRows'
<1> DEFINE expired == ChallengeExpired(op, t)
           cha == [challenges[op] EXCEPT !.state = IF expired THEN "expired" ELSE "authorized",
                                         !.resolved = t]
           dec == [decisions[op] EXCEPT
                      !.decision = IF expired THEN "denied" ELSE "allowed",
                      !.reason = IF expired THEN "authorization_challenge_expired"
                                            ELSE "authorization_challenge_authorized",
                      !.decided = t]
<1>1. /\ requests' = requests /\ events' = events /\ connections' = connections
      /\ responses' = responses
      /\ challenges' = [challenges EXCEPT ![op] = cha]
      /\ decisions' = [decisions EXCEPT ![op] = dec]
  BY DEF AuthorizeChallenge, AllRows, TypeOK
<1>2. /\ challenges[op].state = "pending" /\ t >= challenges[op].issued
  BY DEF AuthorizeChallenge
<1>3. Rows(op) /\ challenges[op] \in ChallengeRow /\ decisions[op] \in DecisionRow
  BY RowsTyped DEF AllRows, RowsAgree
<1>4. /\ requests[op].nonce # 0 /\ requests[op].message \in Messages
      /\ requests[op].message.method # "connect" /\ decisions[op].challenged = TRUE
      /\ Challenged(op, connections[op], decisions[op], challenges[op])
      /\ connections[challenges[op].connection].status \in Held
  BY <1>2, <1>3 DEF Rows, Own, Linked
<1>5. responses[op].kind # "pending"
  BY <1>2, <1>3, <1>4 DEF Rows, Answered, Challenged
<1>6. /\ t \in OptionalTime /\ t \in Nat /\ t # 0
      /\ challenges[op].issued \in Nat /\ challenges[op].expires \in Nat
  BY <1>3, TimesTyped DEF ChallengeRow
<1>7. ~expired => t <= challenges[op].expires
  BY <1>6 DEF ChallengeExpired
<1> HIDE DEF expired
<1>8. /\ cha \in ChallengeRow /\ cha.connection = challenges[op].connection
      /\ cha.issued = challenges[op].issued /\ cha.expires = challenges[op].expires
      /\ cha.resolved = t /\ cha.state = IF expired THEN "expired" ELSE "authorized"
  BY <1>3, <1>6 DEF ChallengeRow, ChallengeState
<1>9. /\ dec \in DecisionRow /\ dec.connection = decisions[op].connection
      /\ dec.challenged = decisions[op].challenged
      /\ dec.decision = (IF expired THEN "denied" ELSE "allowed")
      /\ dec.reason = IF expired THEN "authorization_challenge_expired"
                                 ELSE "authorization_challenge_authorized"
  BY <1>3, <1>6 DEF DecisionRow, Decision, Reasons
<1> HIDE DEF cha, dec
<1>10. Challenged(op, connections[op], dec, cha)
  BY <1>2, <1>4, <1>6, <1>7, <1>8, <1>9 DEF Challenged
<1>11. /\ dec.challenged = TRUE /\ dec.decision # "none"
       /\ connections[cha.connection].status \in Held
  BY <1>4, <1>8, <1>9
<1> QED
  BY <1>1, <1>4, <1>5, <1>8, <1>9, <1>10, <1>11, ChallengeStep

LEMMA CommitPendingStep ==
    ASSUME AllRows, NEW op \in Operations, NEW t \in Times, CommitPending(op, t)
    PROVE  AllRows'
<1> DEFINE res == [kind |-> "pending", connection |-> op, effect |-> "none", committed |-> t]
<1>1. /\ requests' = requests /\ events' = events /\ connections' = connections
      /\ decisions' = decisions /\ challenges' = challenges
      /\ responses' = [responses EXCEPT ![op] = res]
  BY DEF CommitPending
<1>2. /\ decisions[op].decision = "pending_approval"
      /\ decisions[op].reason = "explicit_approval_required"
  BY DEF CommitPending, require_pending_binding
<1>3. Rows(op)
  BY DEF AllRows, RowsAgree
<1>4. res \in ResponseRow /\ res.kind = "pending"
  BY TimesTyped DEF ResponseRow, SessionEffects
<1> HIDE DEF res
<1>5. responses'[op] = res /\ \A p \in Operations : p # op => responses'[p] = responses[p]
  BY <1>1 DEF AllRows, TypeOK
<1>6. TypeOK'
  BY <1>1, <1>4 DEF AllRows, TypeOK
<1>7. Answered(requests[op], connections[op], decisions[op], res)
  BY <1>2, <1>4 DEF Answered
<1>8. Linked(op, requests[op], challenges[op], res, connections)
  BY <1>3, <1>4 DEF Rows, Linked
<1>9. Own(op, requests[op], connections[op], decisions[op], challenges[op])
  BY <1>3 DEF Rows
<1>10. RowsAgree'
  BY <1>1, <1>5, <1>7, <1>8, <1>9, SameConnections, OneOperation DEF AllRows
<1> QED
  BY <1>6, <1>10 DEF AllRows

\* What a commit finds: a fresh answer, and the rows the work was bound to.
LEMMA CommitFacts ==
    ASSUME AllRows, NEW op \in Operations, NEW c \in Operations \cup {None},
           NEW decision \in {"none", "allowed", "denied"}, NEW t \in Times,
           CommitResponse(op, c, decision, t)
    PROVE  /\ requests[op].nonce # 0 /\ requests[op].message \in Messages
           /\ responses[op].kind = "none"
           /\ c # None => connections[c].status = "active" /\ t >= connections[c].updated
           /\ IF requests[op].message.method = "connect"
              THEN /\ decisions[op].decision = decision /\ decisions[op].connection = c
                   /\ \/ decision = "allowed" /\ c # None
                      \/ decision = "denied" /\ c = None
              ELSE c # None /\ ClientOf(c) = ClientOf(op)
<1>1. BoundWork(op, c, decision) /\ ResponseAnswer(op, c, decision, t) = "Committed"
  BY DEF CommitResponse
<1>2. /\ verify_connect_decision(op, c, decision) /\ verify_session(c, t)
      /\ responses[op].kind # "terminal" /\ responses[op].kind # "pending"
  BY <1>1 DEF ResponseAnswer
<1>3. responses[op].kind \in {"none", "pending", "terminal"} /\ Rows(op)
  BY RowsTyped DEF AllRows, ResponseRow, RowsAgree
<1>4. requests[op].nonce # 0 /\ requests[op].message \in Messages
  BY <1>1, <1>3 DEF BoundWork, Admitted, Rows, Own
<1> QED
  BY <1>1, <1>2, <1>3, <1>4 DEF BoundWork, verify_connect_decision, verify_session, Method

\* What a commit writes.
LEMMA CommitEffect ==
    ASSUME AllRows, NEW op \in Operations, NEW c \in Operations \cup {None},
           NEW decision \in {"none", "allowed", "denied"}, NEW t \in Times,
           CommitResponse(op, c, decision, t)
    PROVE  /\ requests' = requests /\ events' = events /\ decisions' = decisions
           /\ challenges' = challenges /\ responses' \in [Operations -> ResponseRow]
           /\ \A p \in Operations : p # op => responses'[p] = responses[p]
           /\ responses'[op].kind = "terminal" /\ responses'[op].connection = c
           /\ requests[op].message.method = "connect" =>
                 /\ responses'[op].effect = "connection_admitted" <=> decision = "allowed"
                 /\ connections' = connections
           /\ requests[op].message.method = "logout" => EndSession(c, t)
           /\ requests[op].message.method # "logout" => connections' = connections
<1> DEFINE effect == session_effect(op, decision)
           res == [kind |-> "terminal", connection |-> c, effect |-> effect, committed |-> t]
<1>1. /\ requests' = requests /\ events' = events /\ decisions' = decisions
      /\ challenges' = challenges /\ responses' = [responses EXCEPT ![op] = res]
      /\ effect = "connection_revoked" => EndSession(c, t)
      /\ effect # "connection_revoked" => connections' = connections
  BY DEF CommitResponse
<1>2. effect \in SessionEffects /\ t \in OptionalTime
  BY TimesTyped DEF session_effect, SessionEffects
<1>3. /\ requests[op].message.method = "connect" =>
            /\ effect # "connection_revoked"
            /\ effect = "connection_admitted" <=> decision = "allowed"
      /\ requests[op].message.method = "logout" <=> effect = "connection_revoked"
  BY DEF session_effect, Method
<1> HIDE DEF effect
<1>4. /\ res \in ResponseRow /\ res.kind = "terminal" /\ res.connection = c /\ res.effect = effect
  BY <1>2 DEF ResponseRow
<1> HIDE DEF res
<1>5. /\ responses' \in [Operations -> ResponseRow] /\ responses'[op] = res
      /\ \A p \in Operations : p # op => responses'[p] = responses[p]
  BY <1>1, <1>4 DEF AllRows, TypeOK
<1> QED
  BY <1>1, <1>3, <1>4, <1>5

LEMMA CommitResponseStep ==
    ASSUME AllRows, NEW op \in Operations, NEW c \in Operations \cup {None},
           NEW decision \in {"none", "allowed", "denied"}, NEW t \in Times,
           CommitResponse(op, c, decision, t)
    PROVE  AllRows'
<1>1. /\ requests[op].nonce # 0 /\ requests[op].message \in Messages
      /\ responses[op].kind = "none"
      /\ c # None => connections[c].status = "active" /\ t >= connections[c].updated
      /\ IF requests[op].message.method = "connect"
         THEN /\ decisions[op].decision = decision /\ decisions[op].connection = c
              /\ \/ decision = "allowed" /\ c # None
                 \/ decision = "denied" /\ c = None
         ELSE c # None /\ ClientOf(c) = ClientOf(op)
  BY CommitFacts
<1>2. /\ requests' = requests /\ events' = events /\ decisions' = decisions
      /\ challenges' = challenges /\ responses' \in [Operations -> ResponseRow]
      /\ \A p \in Operations : p # op => responses'[p] = responses[p]
      /\ responses'[op].kind = "terminal" /\ responses'[op].connection = c
      /\ requests[op].message.method = "connect" =>
            /\ responses'[op].effect = "connection_admitted" <=> decision = "allowed"
            /\ connections' = connections
      /\ requests[op].message.method = "logout" => EndSession(c, t)
      /\ requests[op].message.method # "logout" => connections' = connections
  BY CommitEffect
<1>3. Rows(op)
  BY DEF AllRows, RowsAgree
<1>4. /\ connections' \in [Operations -> ConnectionRow]
      /\ Settling(connections, connections')
      /\ requests[op].message.method = "logout" => connections'[c].status = "expired"
      /\ \A p \in Operations :
            /\ Own(p, requests[p], connections'[p], decisions[p], challenges[p])
            /\ Answered(requests[p], connections'[p], decisions[p], responses[p])
            /\ Linked(p, requests[p], challenges[p], responses[p], connections')
  <2>1. CASE requests[op].message.method = "logout"
    <3>1. c \in Operations /\ connections[c].status = "active" /\ t >= connections[c].updated
      BY <1>1, <2>1
    <3>2. EndSession(c, t)
      BY <1>2, <2>1
    <3> QED
      BY <3>1, <3>2, EndSessionFacts
  <2>2. CASE requests[op].message.method # "logout"
    <3>1. connections' = connections
      BY <1>2, <2>2
    <3> QED
      BY <2>2, <3>1, SameConnections DEF AllRows, TypeOK, RowsAgree, Rows
  <2> QED
    BY <2>1, <2>2
<1>5. c \in Operations => connections[c].status = "active" /\ connections'[c].status \in Held
  BY <1>1, <1>4, Nip46Assumption DEF Settling, Held
<1>6. Answered(requests[op], connections'[op], decisions[op], responses'[op])
  <2>1. CASE requests[op].message.method = "connect"
    <3>1. decisions[op].decision = "denied" /\ decisions[op].connection = None
             => connections[op].status = "none"
      BY <1>3, <2>1, Nip46Assumption DEF Rows, Own, Connected, Refused
    <3> QED
      BY <1>1, <1>2, <2>1, <3>1 DEF Answered
  <2>2. CASE requests[op].message.method # "connect"
    BY <1>1, <1>2, <2>2 DEF Answered
  <2> QED
    BY <2>1, <2>2
<1>7. Linked(op, requests[op], challenges[op], responses'[op], connections')
  <2>1. challenges[op].state # "none" => connections'[challenges[op].connection].status \in Held
    BY <1>4 DEF Linked
  <2> QED
    BY <1>1, <1>2, <1>4, <1>5, <2>1 DEF Linked
<1>8. TypeOK'
  BY <1>2, <1>4 DEF AllRows, TypeOK
<1>9. RowsAgree'
  <2> SUFFICES ASSUME NEW p \in Operations
               PROVE  /\ Own(p, requests[p], connections'[p], decisions[p], challenges[p])
                      /\ Answered(requests[p], connections'[p], decisions[p], responses'[p])
                      /\ Linked(p, requests[p], challenges[p], responses'[p], connections')
    BY <1>2 DEF RowsAgree, Rows
  <2>1. CASE p = op
    BY <1>4, <1>6, <1>7, <2>1
  <2>2. CASE p # op
    BY <1>2, <1>4, <2>2
  <2> QED
    BY <2>1, <2>2
<1> QED
  BY <1>8, <1>9 DEF AllRows

-----------------------------------------------------------------------------
LEMMA InitRows ==
    ASSUME Init
    PROVE  AllRows
<1>1. 0 \in OptionalTime
  BY TimesTyped
<1>2. TypeOK
  BY <1>1 DEF Init, TypeOK, RequestRow, NoRequest, EventRow, NoEvent, ConnectionRow, NoConnection,
              ConnectionStatus, DecisionRow, NoDecision, Decision, Reasons, ChallengeRow, NoChallenge,
              ChallengeState, ResponseRow, NoResponse, SessionEffects
<1>3. \A op \in Operations :
         /\ requests[op] = NoRequest /\ connections[op] = NoConnection
         /\ decisions[op] = NoDecision /\ challenges[op] = NoChallenge /\ responses[op] = NoResponse
  BY DEF Init
<1>4. RowsAgree
  BY <1>3 DEF RowsAgree, Rows, Own, Answered, Linked, NoRequest, NoConnection, NoDecision,
              NoChallenge, NoResponse
<1> QED
  BY <1>2, <1>4 DEF AllRows

LEMMA NextRows ==
    ASSUME AllRows, [Next]_store
    PROVE  AllRows'
<1>1. CASE UNCHANGED store
  BY <1>1 DEF store, AllRows, TypeOK, RowsAgree, Rows
<1>2. CASE Next
  <2>1. PICK t \in Times :
           \/ \E e \in EventIds, m \in Messages, nonce \in Nonces : AdmitRequest(e, m, nonce, t)
           \/ \E op \in Operations :
                 \/ \E until \in OptionalTime : AdmitConnection(op, until, t)
                 \/ \E granted \in SUBSET Permissions, until \in OptionalTime :
                       Approve(op, granted, until, t)
                 \/ Deny(op, t)
                 \/ Revoke(op, t)
                 \/ Expire(op, t)
                 \/ \E c \in Operations, expires \in Times : IssueChallenge(op, c, expires, t)
                 \/ AuthorizeChallenge(op, t)
                 \/ CommitPending(op, t)
                 \/ \E c \in Operations \cup {None}, decision \in {"none", "allowed", "denied"} :
                       CommitResponse(op, c, decision, t)
    BY <1>2 DEF Next
  <2> QED
    BY <2>1, AdmitRequestStep, AdmitConnectionStep, ApproveStep, DenyStep, EndStep,
       IssueChallengeStep, AuthorizeChallengeStep, CommitPendingStep, CommitResponseStep
<1> QED
  BY <1>1, <1>2

LEMMA AllRowsCorrect == Spec => []AllRows
BY InitRows, NextRows, PTL DEF Spec

-----------------------------------------------------------------------------
(* What the runs check of the tables.                                      *)

\* Admission, approval, revocation, expiry, logout and challenges leave only rows that
\* read_connection, parse_decision, decision_record and read_challenge accept.
THEOREM RecordsReadableCorrect == Spec => []RecordsReadable
<1>1. ASSUME AllRows PROVE RecordsReadable
  <2> SUFFICES ASSUME NEW op \in Operations
               PROVE  /\ connections[op].status # "none" => read_connection(op)
                      /\ Decided(op) => parse_decision(decisions[op])
                      /\ Decided(op) /\ Method(op) = "connect" => decision_record(decisions[op])
                      /\ challenges[op].state # "none" => read_challenge(challenges[op])
    BY <1>1 DEF RecordsReadable, AllRows
  <2>1. /\ Own(op, requests[op], connections[op], decisions[op], challenges[op])
        /\ None \notin Operations
        /\ connections[op] \in ConnectionRow /\ decisions[op] \in DecisionRow
    BY <1>1, RowsTyped, Nip46Assumption DEF AllRows, RowsAgree, Rows
  <2>2. connections[op].status # "none" => read_connection(op)
    BY <2>1 DEF Own, Refused, Challenged, Connected, PendingRow, DeniedRow, ActiveRow, ExpiredRow,
                read_connection
  <2>3. Decided(op) => parse_decision(decisions[op])
    BY <2>1 DEF Decided, Own, Refused, Challenged, Connected, PendingRow, DeniedRow, parse_decision
  <2>4. Decided(op) /\ Method(op) = "connect" => decision_record(decisions[op])
    BY <2>1 DEF Decided, Method, Own, Refused, Connected, PendingRow, DeniedRow, ActiveRow, ExpiredRow,
                decision_record
  <2>5. challenges[op].state # "none" => read_challenge(challenges[op])
    <3>1. /\ challenges[op] \in ChallengeRow
          /\ challenges[op].resolved \in Nat /\ challenges[op].issued \in Nat
      BY <1>1, RowsTyped, TimesTyped DEF AllRows, ChallengeRow
    <3> QED
      BY <2>1, <3>1 DEF Own, Challenged, read_challenge
  <2> QED
    BY <2>2, <2>3, <2>4, <2>5
<1> QED
  BY <1>1, AllRowsCorrect, PTL

\* No denied client has a connection, no grant exceeds the request or the ceiling, and only a
\* trusted client or an approved one ever holds a session, although apply_admin_connection_mutation
\* itself never compares a grant with the ceiling.
THEOREM SessionsGrantedCorrect == Spec => []SessionsGranted
<1>1. ASSUME AllRows PROVE SessionsGranted
  <2> SUFFICES ASSUME NEW c \in Operations, connections[c].status # "none"
               PROVE  /\ ClientOf(c) \notin Denied
                      /\ connections[c].granted \subseteq Ceiling
                      /\ connections[c].granted \subseteq requests[c].message.perms
                      /\ connections[c].status \in {"active", "expired"} =>
                            ClientOf(c) \in Trusted \/ decisions[c].reason = "operator_approved"
                      /\ ClientOf(c) \in Trusted => connections[c].status \in {"active", "expired"}
    BY DEF SessionsGranted
  <2>1. Connected(c, requests[c], connections[c], decisions[c])
    BY <1>1 DEF AllRows, RowsAgree, Rows, Own, Refused, Challenged
  <2> QED
    BY <2>1 DEF Connected, PendingRow, DeniedRow, ActiveRow, ExpiredRow
<1> QED
  BY <1>1, AllRowsCorrect, PTL

\* What commit_response and commit_pending answered stays true of the tables they answered for,
\* whatever transaction follows.
THEOREM AnswersAgreeCorrect == Spec => []AnswersAgree
<1>1. ASSUME AllRows PROVE AnswersAgree
  <2> SUFFICES ASSUME NEW op \in Operations
               PROVE  /\ responses[op].kind = "pending" =>
                            admission_policy(decisions[op].reason) = "explicit_approval"
                      /\ responses[op].kind = "terminal" =>
                            /\ Admitted(op)
                            /\ Method(op) = "connect" =>
                                  IF responses[op].effect = "connection_admitted"
                                  THEN decisions[op].decision = "allowed"
                                  ELSE decisions[op].decision = "denied" /\ connections[op].status = "none"
                            /\ Method(op) = "logout" =>
                                  connections[responses[op].connection].status = "expired"
                            /\ Method(op) # "connect" =>
                                  /\ connections[responses[op].connection].status \in {"active", "expired"}
                                  /\ ClientOf(responses[op].connection) = ClientOf(op)
    BY DEF AnswersAgree
  <2>1. /\ Answered(requests[op], connections[op], decisions[op], responses[op])
        /\ Linked(op, requests[op], challenges[op], responses[op], connections)
    BY <1>1 DEF AllRows, RowsAgree, Rows
  <2>2. responses[op].kind = "pending" => admission_policy(decisions[op].reason) = "explicit_approval"
    BY <2>1 DEF Answered, admission_policy
  <2> QED
    BY <2>1, <2>2 DEF Answered, Linked, Held, Admitted, Method
<1> QED
  BY <1>1, AllRowsCorrect, PTL

\* A challenge agrees with its decision and with the session it was issued for, and one that
\* authorize_challenge let through was resolved before it expired.
THEOREM ChallengeAuthorityCorrect == Spec => []ChallengeAuthority
<1>1. ASSUME AllRows PROVE ChallengeAuthority
  <2> SUFFICES ASSUME NEW op \in Operations, challenges[op].state # "none"
               PROVE  /\ decisions[op].connection = challenges[op].connection
                      /\ ClientOf(challenges[op].connection) = ClientOf(op)
                      /\ connections[challenges[op].connection].status \in {"active", "expired"}
                      /\ challenges[op].state = "pending" <=> decisions[op].decision = "challenged"
                      /\ challenges[op].state = "authorized" <=> decisions[op].decision = "allowed"
                      /\ challenges[op].state = "authorized" =>
                            challenges[op].resolved <= challenges[op].expires
    BY DEF ChallengeAuthority
  <2>1. /\ Own(op, requests[op], connections[op], decisions[op], challenges[op])
        /\ Linked(op, requests[op], challenges[op], responses[op], connections)
    BY <1>1 DEF AllRows, RowsAgree, Rows
  <2>2. Challenged(op, connections[op], decisions[op], challenges[op])
    BY <2>1 DEF Own
  <2> QED
    BY <2>1, <2>2 DEF Challenged, Linked, Held
<1> QED
  BY <1>1, AllRowsCorrect, PTL

-----------------------------------------------------------------------------
(* Evidence is kept, step by step.                                         *)

Kept(op) ==
    /\ Admitted(op) => [requests'[op] EXCEPT !.seen = requests[op].seen] = requests[op]
    /\ responses[op].kind # "none" => responses'[op] = responses[op]
    /\ decisions[op].decision \in {"allowed", "denied"} => decisions'[op] = decisions[op]
    /\ challenges[op].state \in {"authorized", "expired"} => challenges'[op] = challenges[op]
    /\ connections[op].status \in {"denied", "expired"} => connections'[op] = connections[op]
    /\ connections[op].status = "active" =>
          /\ connections'[op].status \in {"active", "expired"}
          /\ connections'[op].granted = connections[op].granted
    /\ connections[op].status # "none" => connections'[op].updated >= connections[op].updated

LEMMA UpdatedReflexive ==
    ASSUME AllRows, NEW op \in Operations
    PROVE  connections[op].updated >= connections[op].updated
<1>1. connections[op].updated \in OptionalTime
  BY RowsTyped DEF AllRows, ConnectionRow
<1>2. connections[op].updated \in Nat
  BY <1>1, TimesTyped
<1> QED
  BY <1>2

\* An operation whose rows a step does not touch keeps its evidence.
LEMMA SameRows ==
    ASSUME AllRows, NEW op \in Operations,
           requests'[op] = requests[op], connections'[op] = connections[op],
           decisions'[op] = decisions[op], challenges'[op] = challenges[op],
           responses'[op] = responses[op]
    PROVE  Kept(op)
<1>1. requests[op] \in RequestRow
  BY RowsTyped DEF AllRows
<1>2. [requests[op] EXCEPT !.seen = requests[op].seen] = requests[op]
  BY <1>1 DEF RequestRow
<1>3. connections[op].updated >= connections[op].updated
  BY UpdatedReflexive
<1> QED
  BY <1>2, <1>3 DEF Kept

LEMMA AdmitRequestKeeps ==
    ASSUME AllRows, NEW e \in EventIds, NEW m \in Messages, NEW nonce \in Nonces, NEW t \in Times,
           AdmitRequest(e, m, nonce, t), NEW op \in Operations
    PROVE  Kept(op)
<1> DEFINE o == OperationOf(m)
<1>1. /\ connections' = connections /\ decisions' = decisions /\ challenges' = challenges
      /\ responses' = responses
      /\ \/ /\ ~Admitted(o)
            /\ requests' = [requests EXCEPT ![o] = [nonce |-> nonce, event |-> e, message |-> m,
                                                    received |-> t, seen |-> t]]
         \/ requests' = [requests EXCEPT ![o].seen = t]
         \/ requests' = requests
  BY DEF AdmitRequest, insert_new_request, SeenRequest, RequestAnswer
<1>2. o \in Operations
  BY OperationTyped
<1> HIDE DEF o
<1>3. CASE requests'[op] = requests[op]
  BY <1>1, <1>3, SameRows
<1>4. CASE requests'[op] # requests[op]
  <2>1. /\ op = o
        /\ Admitted(op) => requests'[op] = [requests[op] EXCEPT !.seen = t]
    BY <1>1, <1>2, <1>4 DEF AllRows, TypeOK
  <2>2. requests[op] \in RequestRow
    BY RowsTyped DEF AllRows
  <2>3. [[requests[op] EXCEPT !.seen = t] EXCEPT !.seen = requests[op].seen] = requests[op]
    BY <2>2 DEF RequestRow
  <2>4. connections[op].updated >= connections[op].updated
    BY UpdatedReflexive
  <2> QED
    BY <1>1, <2>1, <2>3, <2>4 DEF Kept
<1> QED
  BY <1>3, <1>4

\* Every other step leaves the requests alone.
LEMMA KeptRows ==
    ASSUME AllRows, NEW op \in Operations, requests' = requests,
           responses[op].kind # "none" => responses'[op] = responses[op],
           decisions[op].decision \in {"allowed", "denied"} => decisions'[op] = decisions[op],
           challenges[op].state \in {"authorized", "expired"} => challenges'[op] = challenges[op],
           \/ connections'[op] = connections[op]
           \/ connections[op].status = "none"
           \/ /\ connections[op].status = "pending"
              /\ connections'[op].updated >= connections[op].updated
           \/ /\ connections[op].status = "active" /\ connections'[op].status = "expired"
              /\ connections'[op].granted = connections[op].granted
              /\ connections'[op].updated >= connections[op].updated
    PROVE  Kept(op)
<1>1. requests[op] \in RequestRow
  BY RowsTyped DEF AllRows
<1>2. [requests[op] EXCEPT !.seen = requests[op].seen] = requests[op]
  BY <1>1 DEF RequestRow
<1>3. connections[op].updated >= connections[op].updated
  BY UpdatedReflexive
<1> QED
  BY <1>2, <1>3 DEF Kept

LEMMA AdmitConnectionKeeps ==
    ASSUME AllRows, NEW o \in Operations, NEW until \in OptionalTime, NEW t \in Times,
           AdmitConnection(o, until, t), NEW op \in Operations
    PROVE  Kept(op)
<1>1. /\ requests' = requests /\ challenges' = challenges /\ responses' = responses
      /\ \E dec : decisions' = [decisions EXCEPT ![o] = dec]
      /\ connections' = connections \/ \E con : connections' = [connections EXCEPT ![o] = con]
      /\ decisions[o].decision = "none"
  BY DEF AdmitConnection, ConnectionAnswer, Decided
<1>2. connections[o].status = "none"
  BY <1>1 DEF AllRows, RowsAgree, Rows, Own
<1>3. op # o => decisions'[op] = decisions[op] /\ connections'[op] = connections[op]
  BY <1>1 DEF AllRows, TypeOK
<1> QED
  BY <1>1, <1>2, <1>3, KeptRows

LEMMA DecisionKeeps ==
    ASSUME AllRows, NEW o \in Operations, NEW granted \in SUBSET Permissions,
           NEW until \in OptionalTime, NEW t \in Times,
           Approve(o, granted, until, t) \/ Deny(o, t), NEW op \in Operations
    PROVE  Kept(op)
<1>1. /\ requests' = requests /\ challenges' = challenges /\ responses' = responses
      /\ AwaitsOperator(o, t)
      /\ op # o => decisions'[op] = decisions[op] /\ connections'[op] = connections[op]
  BY DEF Approve, Deny, AllRows, TypeOK
<1>2. connections'[o].updated = t
  BY DEF Approve, Deny, AllRows, TypeOK, ConnectionRow
<1> QED
  BY <1>1, <1>2, KeptRows DEF AwaitsOperator

LEMMA EndSessionKeeps ==
    ASSUME AllRows, NEW c \in Operations, NEW t \in Times, EndSession(c, t)
    PROVE  /\ \A p \in Operations : p # c => connections'[p] = connections[p]
           /\ connections'[c].status = "expired" /\ connections'[c].updated = t
           /\ connections'[c].granted = connections[c].granted
<1>1. connections \in [Operations -> ConnectionRow]
  BY DEF AllRows, TypeOK
<1> QED
  BY <1>1 DEF EndSession, ConnectionRow

LEMMA EndKeeps ==
    ASSUME AllRows, NEW c \in Operations, NEW t \in Times, Revoke(c, t) \/ Expire(c, t),
           NEW op \in Operations
    PROVE  Kept(op)
<1>1. /\ connections[c].status = "active" /\ EndSession(c, t)
      /\ requests' = requests /\ decisions' = decisions /\ challenges' = challenges
      /\ responses' = responses
  BY DEF Revoke, Expire
<1>2. t >= connections[c].updated
  BY EndTime
<1> QED
  BY <1>1, <1>2, EndSessionKeeps, KeptRows

LEMMA ChallengeKeeps ==
    ASSUME AllRows, NEW o \in Operations, NEW c \in Operations, NEW expires \in Times,
           NEW t \in Times, IssueChallenge(o, c, expires, t) \/ AuthorizeChallenge(o, t),
           NEW op \in Operations
    PROVE  Kept(op)
<1>1. /\ requests' = requests /\ connections' = connections /\ responses' = responses
      /\ op # o => decisions'[op] = decisions[op] /\ challenges'[op] = challenges[op]
      /\ challenges[o].state \in {"none", "pending"}
      /\ challenges[o].state = "none" => decisions[o].decision = "none"
  BY DEF IssueChallenge, AuthorizeChallenge, Decided, AllRows, TypeOK
<1>2. challenges[o].state = "pending" => decisions[o].decision = "challenged"
  BY DEF AllRows, RowsAgree, Rows, Own, Challenged
<1> QED
  BY <1>1, <1>2, KeptRows

LEMMA CommitKeeps ==
    ASSUME AllRows, NEW o \in Operations, NEW c \in Operations \cup {None},
           NEW decision \in {"none", "allowed", "denied"}, NEW t \in Times,
           CommitPending(o, t) \/ CommitResponse(o, c, decision, t), NEW op \in Operations
    PROVE  Kept(op)
<1>1. CASE CommitPending(o, t)
  <2>1. /\ requests' = requests /\ connections' = connections /\ decisions' = decisions
        /\ challenges' = challenges /\ responses[o].kind = "none"
        /\ op # o => responses'[op] = responses[op]
    BY <1>1 DEF CommitPending, AllRows, TypeOK
  <2> QED
    BY <2>1, KeptRows
<1>2. CASE CommitResponse(o, c, decision, t)
  <2>1. /\ requests' = requests /\ decisions' = decisions /\ challenges' = challenges
        /\ op # o => responses'[op] = responses[op]
        /\ EndSession(c, t) \/ connections' = connections
        /\ EndSession(c, t) /\ connections' # connections => requests[o].message.method = "logout"
    BY <1>2, CommitEffect
  <2>2. /\ responses[o].kind = "none"
        /\ c # None => connections[c].status = "active" /\ t >= connections[c].updated
        /\ requests[o].message.method # "connect" => c # None
    BY <1>2, CommitFacts
  <2>3. CASE connections' = connections
    BY <2>1, <2>2, <2>3, KeptRows
  <2>4. CASE connections' # connections
    <3>1. /\ c \in Operations /\ connections[c].status = "active" /\ t >= connections[c].updated
          /\ EndSession(c, t)
      BY <2>1, <2>2, <2>4
    <3> QED
      BY <2>1, <2>2, <3>1, EndSessionKeeps, KeptRows
  <2> QED
    BY <2>3, <2>4
<1> QED
  BY <1>1, <1>2

LEMMA NextKeeps ==
    ASSUME AllRows, Next, NEW op \in Operations
    PROVE  Kept(op)
<1>1. PICK t \in Times :
         \/ \E e \in EventIds, m \in Messages, nonce \in Nonces : AdmitRequest(e, m, nonce, t)
         \/ \E o \in Operations :
               \/ \E until \in OptionalTime : AdmitConnection(o, until, t)
               \/ \E granted \in SUBSET Permissions, until \in OptionalTime :
                     Approve(o, granted, until, t)
               \/ Deny(o, t)
               \/ Revoke(o, t)
               \/ Expire(o, t)
               \/ \E c \in Operations, expires \in Times : IssueChallenge(o, c, expires, t)
               \/ AuthorizeChallenge(o, t)
               \/ CommitPending(o, t)
               \/ \E c \in Operations \cup {None}, decision \in {"none", "allowed", "denied"} :
                     CommitResponse(o, c, decision, t)
  BY DEF Next
<1>2. \A o \in Operations : Deny(o, t) => Kept(op)
  <2>1. {} \in SUBSET Permissions /\ 0 \in OptionalTime
    BY TimesTyped
  <2> QED
    BY <2>1, DecisionKeeps
<1>3. \A o \in Operations : AuthorizeChallenge(o, t) => Kept(op)
  BY ChallengeKeeps
<1>4. \A o \in Operations : CommitPending(o, t) => Kept(op)
  BY CommitKeeps
<1> QED
  BY <1>1, <1>2, <1>3, <1>4, AdmitRequestKeeps, AdmitConnectionKeeps, DecisionKeeps, EndKeeps,
     ChallengeKeeps, CommitKeeps

\* The triggers' promise, for any sequence of transactions: requests, answers, settled decisions,
\* resolved challenges and ended sessions are never rewritten.
THEOREM EvidenceKeptCorrect == Spec => EvidenceKept
<1>1. ASSUME AllRows, [Next]_store
      PROVE  [\A op \in Operations : Kept(op)]_store
  BY <1>1, NextKeeps
<1> QED
  BY <1>1, AllRowsCorrect, PTL DEF Spec, EvidenceKept, Kept
=============================================================================
