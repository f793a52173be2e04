---------------------------- MODULE Nip46Dispatch ----------------------------
(***************************************************************************)
(* The provider_dispatch task over the NIP-46 state, next to the operator's*)
(* admin handlers, the delivery of the committed responses, the wall clock *)
(* and process restarts (src/src/runtime_nip46.rs, runtime_graph.rs and    *)
(* nip46_work.rs).                                                         *)
(*                                                                         *)
(* One task works through the received events one at a time.  What it read *)
(* in one transaction (`work') it uses after provider calls and in later   *)
(* transactions, while operators change the same connections.  A provider  *)
(* failure starts the event over with the same evidence; any other error   *)
(* ends the task and with it the daemon.  What the task holds is lost with *)
(* the process.                                                            *)
(***************************************************************************)
EXTENDS Nip46State

CONSTANTS
    Wire,          \* the request an event decrypts to
    OutboxMaximum, \* unfinished delivery jobs the store admits
    Horizon,       \* bound: the clock stops here
    Staleness,     \* bound: age of a clock reading an admin handler works with
    MaxDeliveries, \* bound: events taken from the ingress queue
    MaxRestarts,   \* bound: process restarts
    MaxSetBacks    \* bound: times the wall clock is set back

VARIABLES
    now,      \* the wall clock
    pc,       \* where the dispatch task is
    item,     \* the event in hand and its admission evidence
    work,     \* what earlier transactions returned for it
    executed, \* calls of the user's provider, by operation and nonce
    held,     \* operations whose response a relay holds
    taken, restarts, setbacks

dispatch == <<pc, item, work, executed, taken>>
vars == <<store, dispatch, now, held, restarts, setbacks>>

ASSUME DispatchAssumption ==
    /\ Wire \in [EventIds -> Messages]
    /\ {OutboxMaximum, Horizon} \subseteq Nat \ {0}
    /\ {Staleness, MaxDeliveries, MaxRestarts, MaxSetBacks} \subseteq Nat
    /\ 1..MaxDeliveries \subseteq Nonces
    /\ Horizon + AuthorizedLifetime <= MaxTime

Phases == {"idle", "decrypt", "admit", "authorize", "connect", "execute",
           "complete", "sign", "commit", "stopped", "killed"}
Down == pc \in {"stopped", "killed"}

\* MycRuntimeNip46AdmissionEvidence and the raw event it was drawn for.
Item == [event : EventIds \cup {None}, nonce : Nonces \cup {0}, received : OptionalTime]
NoItem == [event |-> None, nonce |-> 0, received |-> 0]

\* The connection and the decision as they were read, and the time of completion.
Work == [connection : Operations \cup {None}, status : ConnectionStatus,
         updated : OptionalTime, decision : Decision, decided : OptionalTime,
         completed : OptionalTime]
NoWork == [connection |-> None, status |-> "none", updated |-> 0,
           decision |-> "none", decided |-> 0, completed |-> 0]

Request == Wire[item.event]
Operation == OperationOf(Request)

DispatchInit ==
    /\ Init
    /\ now = 1
    /\ pc = "idle"
    /\ item = NoItem
    /\ work = NoWork
    /\ executed = {}
    /\ held = {}
    /\ taken = 0
    /\ restarts = 0
    /\ setbacks = 0

environment == <<now, held, restarts, setbacks>>

Goto(next) == pc' = next /\ UNCHANGED <<item, executed, taken>>

Stop == Goto("stopped") /\ work' = NoWork
Drop == Goto("idle") /\ work' = NoWork
Retry == Goto("decrypt") /\ work' = NoWork

(***************************************************************************)
(* run_provider_dispatch takes the next event and draws its evidence: a    *)
(* fresh nonce and the time of reception.                                  *)
(***************************************************************************)
Take(e) ==
    /\ pc = "idle"
    /\ taken < MaxDeliveries
    /\ pc' = "decrypt"
    /\ taken' = taken + 1
    /\ item' = [event |-> e, nonce |-> taken + 1, received |-> now]
    /\ UNCHANGED <<store, work, executed, environment>>

\* The transport's provider decrypts the event; a failed call is tried again
\* and changes nothing.  An event that does not verify, or decrypts to no
\* request, is dropped before anything is written and is not modelled.
Decrypt ==
    /\ pc = "decrypt"
    /\ Goto("admit")
    /\ UNCHANGED <<store, work, environment>>

\* Admission, and the answer that is already there.
Admit ==
    /\ pc = "admit"
    /\ AdmitRequest(item.event, Request, item.nonce, item.received)
    /\ IF \/ RequestAnswer(item.event, Request) \in {"ConflictingRequest", "ConflictingEvent"}
          \/ responses[Operation].kind # "none"
       THEN Drop
       ELSE Goto("authorize") /\ work' = NoWork
    /\ UNCHANGED environment

\* The update guard of the deduplication records aborts the admission.
AdmitRefused ==
    /\ pc = "admit"
    /\ Admitted(Operation)
    /\ item.received < requests[Operation].seen
    /\ Stop
    /\ UNCHANGED <<store, environment>>

(***************************************************************************)
(* Authorization of a request (read_active_connection_for_client and       *)
(* prepare_myc_nip46_work), at the time of its reception.                  *)
(***************************************************************************)
ActiveConnections(client, t) ==
    {c \in Operations : /\ ClientOf(c) = client
                        /\ connections[c].status = "active"
                        /\ Unexpired(c, t)}

Sessions == ActiveConnections(Request.client, item.received)

IsMatch == matches_request(item.event, Request, item.nonce, item.received)

PreparesWork(c) ==
    /\ Sessions = {c}
    /\ IsMatch
    /\ Request.perms \subseteq connections[c].granted

\* Faulty variant: a request without a session is tried again.
AuthorizeWaiting ==
    /\ pc = "authorize"
    /\ Request.method # "connect"
    /\ Cardinality(Sessions) <= 1
    /\ IF \E c \in Operations : PreparesWork(c)
       THEN \E c \in Sessions :
               /\ Goto(IF Request.method = "provider" THEN "execute" ELSE "complete")
               /\ work' = [NoWork EXCEPT !.connection = c, !.status = "active",
                                         !.updated = connections[c].updated]
       ELSE Retry
    /\ UNCHANGED <<store, environment>>

Authorize ==
    /\ pc = "authorize"
    /\ Request.method # "connect"
    /\ Cardinality(Sessions) <= 1
    /\ IF \E c \in Operations : PreparesWork(c)
       THEN \E c \in Sessions :
               /\ Goto(IF Request.method = "provider" THEN "execute" ELSE "complete")
               /\ work' = [NoWork EXCEPT !.connection = c, !.status = "active",
                                         !.updated = connections[c].updated]
       ELSE Drop
    /\ UNCHANGED <<store, environment>>

\* A client with two sessions is ambiguous, and the read fails.
AmbiguousSession ==
    /\ pc = "authorize"
    /\ Request.method # "connect"
    /\ Cardinality(Sessions) > 1
    /\ Stop
    /\ UNCHANGED <<store, environment>>

AuthorizeConnect ==
    /\ pc = "authorize"
    /\ Request.method = "connect"
    /\ IF IsMatch THEN Goto("connect") /\ UNCHANGED work ELSE Drop
    /\ UNCHANGED <<store, environment>>

(***************************************************************************)
(* Connection admission, with the reception as its time.                   *)
(***************************************************************************)
\* Faulty variant: every client gets the challenge lifetime.
authorized_until_always == item.received + AuthorizedLifetime

authorized_until ==
    IF Request.client \in Trusted /\ ChallengesEnabled
    THEN item.received + AuthorizedLifetime
    ELSE 0

Answer == ConnectionAnswer(Operation, authorized_until, item.received)

Recorded(decision, connection) ==
    [NoWork EXCEPT !.decision = decision.decision, !.decided = decision.decided,
                   !.connection = decision.connection,
                   !.status = IF decision.connection = None THEN "none" ELSE connection.status]

Connect ==
    /\ pc = "connect"
    /\ \/ AdmitConnection(Operation, authorized_until, item.received)
       \/ Answer = "ExactReplay" /\ UNCHANGED store
    /\ Goto("complete")
    /\ work' = Recorded(decisions'[Operation], connections'[Operation])
    /\ UNCHANGED environment

ConnectRateLimited ==
    /\ pc = "connect"
    /\ Answer = "Admitted"
    /\ expected_admission(Request.client) # "denied"
    /\ Drop
    /\ UNCHANGED <<store, environment>>

ConnectRefused ==
    /\ pc = "connect"
    /\ Answer = "Binding"
    /\ Stop
    /\ UNCHANGED <<store, environment>>

(***************************************************************************)
(* The user's provider.  A call that fails may have been carried out.      *)
(***************************************************************************)
Execute ==
    /\ pc = "execute"
    /\ pc' = "complete"
    /\ executed' = executed \cup {<<Operation, item.nonce>>}
    /\ UNCHANGED <<store, item, work, taken, environment>>

ExecuteFails ==
    /\ pc = "execute"
    /\ pc' = "decrypt"
    /\ work' = NoWork
    /\ executed' \in {executed, executed \cup {<<Operation, item.nonce>>}}
    /\ UNCHANGED <<store, item, taken, environment>>

(***************************************************************************)
(* The completion is stamped with the clock, bound to what was read before *)
(* (MycNip46CommitRequest), and encrypted and signed by the transport's    *)
(* provider.  A pending answer is bound only after it is signed            *)
(* (MycNip46PendingResponseCommitRequest).                                 *)
(***************************************************************************)
\* Faulty variant: the completion has to be later than the reception.
CompletionBoundLater ==
    /\ now > requests[Operation].received
    /\ now >= work.updated
    /\ now >= work.decided
    /\ work.decision = "allowed" => work.status = "active"
    /\ work.decision = "denied" => work.connection = None

CompletionBound ==
    /\ now >= requests[Operation].received
    /\ now >= work.updated
    /\ now >= work.decided
    /\ work.decision = "allowed" => work.status = "active"
    /\ work.decision = "denied" => work.connection = None

Complete ==
    /\ pc = "complete"
    /\ IF work.decision = "pending_approval" \/ CompletionBound
       THEN Goto("sign") /\ work' = [work EXCEPT !.completed = now]
       ELSE Stop
    /\ UNCHANGED <<store, environment>>

Sign ==
    /\ pc = "sign"
    /\ Goto("commit")
    /\ UNCHANGED <<store, work, environment>>

SignFails ==
    /\ pc = "sign"
    /\ Retry
    /\ UNCHANGED <<store, environment>>

(***************************************************************************)
(* The commit reads the decision and the connection again.  It also        *)
(* creates the delivery job, which the outbox ceiling may refuse.          *)
(***************************************************************************)
Outstanding == {op \in Operations : responses[op].kind # "none"} \ held

HasRoom == Cardinality(Outstanding) < OutboxMaximum

Commits ==
    IF work.decision = "pending_approval"
    THEN require_pending_binding(Operation) /\ work.completed >= work.decided
    ELSE ResponseAnswer(Operation, work.connection, work.decision, work.completed) = "Committed"

Commit ==
    /\ pc = "commit"
    /\ HasRoom
    /\ IF work.decision = "pending_approval"
       THEN CommitPending(Operation, work.completed)
       ELSE CommitResponse(Operation, work.connection, work.decision, work.completed)
    /\ Drop
    /\ UNCHANGED environment

CommitRefused ==
    /\ pc = "commit"
    /\ ~HasRoom \/ ~Commits
    /\ Stop
    /\ UNCHANGED <<store, environment>>

Dispatch ==
    \/ Decrypt \/ Admit \/ AdmitRefused
    \/ Authorize \/ AmbiguousSession \/ AuthorizeConnect
    \/ Connect \/ ConnectRateLimited \/ ConnectRefused
    \/ Execute \/ ExecuteFails
    \/ Complete \/ Sign \/ SignFails
    \/ Commit \/ CommitRefused

(***************************************************************************)
(* The operator.  A handler reads the clock first and runs its transaction *)
(* later.                                                                  *)
(***************************************************************************)
Readings == {t \in Times : t <= now /\ now - t <= Staleness}

ConnectionApprove(c, granted, t) ==
    Approve(c, granted, IF ChallengesEnabled THEN t + AuthorizedLifetime ELSE 0, t)

ConnectionReject(c, t) == Deny(c, t)
ConnectionRevoke(c, t) == Revoke(c, t)

ChallengeRequire(op, c, t) == IssueChallenge(op, c, t + PendingLifetime, t)
ChallengeAuthorize(op, t) == AuthorizeChallenge(op, t)

Operator ==
    /\ ~Down
    /\ \E t \in Readings, c \in Operations :
          \/ \E granted \in SUBSET Permissions : ConnectionApprove(c, granted, t)
          \/ ConnectionReject(c, t)
          \/ ConnectionRevoke(c, t)
          \/ \E op \in Operations : ChallengeRequire(op, c, t)
          \/ ChallengeAuthorize(c, t)
    /\ UNCHANGED <<dispatch, environment>>

(***************************************************************************)
(* Delivery (module Delivery), the clock and the process.                  *)
(***************************************************************************)
Deliver(op) ==
    /\ ~Down
    /\ op \in Outstanding
    /\ held' = held \cup {op}
    /\ UNCHANGED <<store, dispatch, now, restarts, setbacks>>

Tick ==
    /\ now < Horizon
    /\ now' = now + 1
    /\ UNCHANGED <<store, dispatch, held, restarts, setbacks>>

SetBack ==
    /\ setbacks < MaxSetBacks
    /\ now > 1
    /\ now' = now - 1
    /\ setbacks' = setbacks + 1
    /\ UNCHANGED <<store, dispatch, held, restarts>>

Kill ==
    /\ ~Down
    /\ restarts < MaxRestarts
    /\ pc' = "killed"
    /\ UNCHANGED <<store, item, work, executed, taken, environment>>

Restart ==
    /\ Down
    /\ restarts < MaxRestarts
    /\ restarts' = restarts + 1
    /\ pc' = "idle"
    /\ item' = NoItem
    /\ work' = NoWork
    /\ UNCHANGED <<store, executed, taken, now, held, setbacks>>

DispatchNext ==
    \/ \E e \in EventIds : Take(e)
    \/ Dispatch
    \/ Operator
    \/ \E op \in Operations : Deliver(op)
    \/ Tick \/ SetBack
    \/ Kill \/ Restart

(***************************************************************************)
(* Fairness: the task is scheduled, and a provider that is called again    *)
(* and again answers in the end (each call has a deadline, and the retry   *)
(* loop has no limit).                                                     *)
(***************************************************************************)
Fairness ==
    /\ WF_vars(Dispatch)
    /\ SF_vars(Execute)
    /\ SF_vars(Sign)

DispatchSpec == DispatchInit /\ [][DispatchNext]_vars
FairDispatchSpec == DispatchSpec /\ Fairness

-----------------------------------------------------------------------------
DispatchTypeOK ==
    /\ TypeOK
    /\ now \in 1..Horizon
    /\ pc \in Phases
    /\ item \in Item
    /\ work \in Work
    /\ executed \subseteq Operations \X Nonces
    /\ held \subseteq Operations

(***************************************************************************)
(* A session ended by the operator or by a logout releases nothing any     *)
(* more, although its requests were authorized before: when the answer to  *)
(* a request is committed, the one session it names is still active,       *)
(* belongs to the client, grants the permission the request needs, and had *)
(* not outlived its authorization when the request was received.           *)
(***************************************************************************)
ReleasedUnderSession ==
    [][\A op \in Operations :
          responses'[op].kind = "terminal" /\ responses[op].kind # "terminal"
          /\ Method(op) # "connect" =>
            LET c == responses'[op].connection IN
            /\ ClientOf(c) = ClientOf(op)
            /\ connections[c].status = "active"
            /\ Unexpired(c, requests[op].received)
            /\ requests[op].message.perms \subseteq connections[c].granted]_vars

(***************************************************************************)
(* The user's provider works for one delivery of an operation only: calls  *)
(* are repeated while their event is retried, but neither another delivery *)
(* of the same request (a replay, from any relay) nor a later life of the  *)
(* process calls it again, and no answer of it is committed without a call.*)
(***************************************************************************)
OneExecutor ==
    /\ \A x, y \in executed : x[1] = y[1] => x = y
    /\ \A op \in Operations :
          responses[op].kind = "terminal" /\ Method(op) = "provider" =>
              <<op, requests[op].nonce>> \in executed

(***************************************************************************)
(* "Completed replay never re-executes a provider" (README): the user's    *)
(* provider is only called for an operation that has no answer yet.        *)
(***************************************************************************)
CompletedNotReexecuted ==
    pc = "execute" => responses[Operation].kind = "none"

\* A request is worked on once: by one delivery of it, and never when it has
\* its answer, through redelivery, retries and restarts (process,
\* run_provider_dispatch).
ExecutesOnce == DispatchTypeOK /\ OneExecutor /\ CompletedNotReexecuted

(***************************************************************************)
(* What can end the dispatch task, and the daemon with it.  The checks of  *)
(* the commit never trip on the task's own account: it stops only because  *)
(* a client holds two sessions, a connect asks for more than the ceiling,  *)
(* the operator changed the connection while the event was in hand, the    *)
(* outbox is full or the clock was set back.                               *)
(***************************************************************************)
OperatorIntervened ==
    \/ /\ work.connection # None
       /\ connections[work.connection].status # work.status
    \/ /\ Request.method = "connect"
       /\ decisions[Operation].reason = "operator_denied"
    \/ /\ Request.method = "connect"
       /\ connections[Operation].status = "expired"

StopsExplained ==
    [][pc' = "stopped" /\ pc # "stopped" =>
          \/ Cardinality(Sessions) > 1
          \/ Request.method = "connect" /\ ~(Request.perms \subseteq Ceiling)
          \/ OperatorIntervened
          \/ ~HasRoom
          \/ setbacks > 0]_vars

(***************************************************************************)
(* The task is never stuck on an event: whatever is received is answered,  *)
(* dropped or ends the task.                                               *)
(***************************************************************************)
ItemsSettle == pc = "decrypt" ~> (pc = "idle" \/ Down)
=============================================================================
