---------------------------- MODULE DispatchProofs ----------------------------
(***************************************************************************)
(* Machine-checked proofs about the provider_dispatch task, for every set  *)
(* of events, clients and permissions, every policy and every bound.       *)
(*                                                                         *)
(* Every step of the task, the operator, the clock and the process is a    *)
(* transaction of module Nip46State or leaves the tables alone, so the     *)
(* rows keep their agreement (AllRows).  On top of it the invariant says   *)
(* what the task may rely on between its transactions (Hand): from the     *)
(* authorization on the record of the request is this delivery's own, it   *)
(* has no answer, and its provider is called before it is completed.       *)
(***************************************************************************)
EXTENDS Nip46Dispatch, Nip46Proofs

Waits == {"decrypt", "admit"}
Later == {"connect", "execute", "complete", "sign", "commit"}

OperationIn(i) == OperationOf(Wire[i.event])

\* The delivery in hand.
Holds(p, i) ==
    p \in Waits \cup {"authorize"} \cup Later =>
        i.event \in EventIds /\ i.nonce \in Nonces /\ i.received \in 1..Horizon

\* The record of the request is the delivery's own.
Owns(p, i, reqs) ==
    p \in Later => /\ reqs[OperationIn(i)].message = Wire[i.event]
                   /\ reqs[OperationIn(i)].nonce = i.nonce
                   /\ reqs[OperationIn(i)].event = i.event
                   /\ reqs[OperationIn(i)].received = i.received

\* It has no answer, is on the path of its method, and its provider was called.
Pursues(p, i, w, calls, ress) ==
    /\ p \in {"authorize"} \cup Later => ress[OperationIn(i)].kind = "none"
    /\ p = "execute" => Wire[i.event].method = "provider"
    /\ p = "connect" => Wire[i.event].method = "connect"
    /\ p \in {"sign", "commit"} => w.completed \in 1..Horizon
    /\ p \in {"complete", "sign", "commit"} /\ Wire[i.event].method = "provider" =>
          <<OperationIn(i), i.nonce>> \in calls

\* Calls are made for the delivery on record, and come before the answer.
CallsSound(calls, reqs, ress) ==
    /\ \A x \in calls : reqs[x[1]].nonce = x[2]
    /\ \A op \in Operations :
          ress[op].kind = "terminal" /\ reqs[op].message.method = "provider" =>
              <<op, reqs[op].nonce>> \in calls

Hand(p, i, w, calls, reqs, ress) ==
    Holds(p, i) /\ Owns(p, i, reqs) /\ Pursues(p, i, w, calls, ress) /\ CallsSound(calls, reqs, ress)

DispatchInv ==
    /\ AllRows /\ DispatchTypeOK /\ taken \in Nat
    /\ Hand(pc, item, work, executed, requests, responses)

LEMMA DispatchConstants ==
    /\ Horizon \in Nat /\ 1..Horizon \subseteq Times /\ MaxDeliveries \in Nat
    /\ 1..Horizon \subseteq OptionalTime
    /\ \A t \in 1..Horizon : t + AuthorizedLifetime \in Times /\ t + PendingLifetime \in Times
BY DispatchAssumption, Nip46Assumption DEF Times, OptionalTime

LEMMA InHand ==
    ASSUME NEW p \in Waits \cup {"authorize"} \cup Later, NEW i, Holds(p, i)
    PROVE  /\ Wire[i.event] \in Messages /\ OperationIn(i) \in Operations
           /\ i.event \in EventIds /\ i.nonce \in Nonces /\ i.nonce # 0 /\ i.received \in Times
           /\ i.received \in 1..Horizon
<1>1. i.event \in EventIds /\ i.nonce \in Nonces /\ i.received \in 1..Horizon
  BY DEF Holds
<1>2. Wire[i.event] \in Messages
  BY <1>1, DispatchAssumption
<1> QED
  BY <1>1, <1>2, OperationTyped, DispatchConstants, Nip46Assumption DEF OperationIn

-----------------------------------------------------------------------------
(* Every step is a transaction of the tables, or leaves them alone.        *)

LEMMA AdmitIsTransaction ==
    ASSUME DispatchInv, Admit
    PROVE  Next
<1>1. Holds("admit", item)
  BY DEF DispatchInv, Hand, Admit
<1>2. Wire[item.event] \in Messages /\ item.event \in EventIds /\ item.nonce \in Nonces
      /\ item.received \in Times
  BY <1>1, InHand DEF Waits
<1>3. AdmitRequest(item.event, Wire[item.event], item.nonce, item.received)
  BY DEF Admit, Request
<1> QED
  BY <1>2, <1>3 DEF Next

LEMMA ConnectIsTransaction ==
    ASSUME DispatchInv, Connect
    PROVE  [Next]_store
<1>1. Holds("connect", item)
  BY DEF DispatchInv, Hand, Connect
<1>2. OperationIn(item) \in Operations /\ item.received \in Times /\ item.received \in 1..Horizon
  BY <1>1, InHand DEF Later
<1>3. authorized_until \in OptionalTime
  BY <1>2, DispatchConstants, TimesTyped DEF authorized_until
<1>4. \/ AdmitConnection(OperationIn(item), authorized_until, item.received)
      \/ UNCHANGED store
  BY DEF Connect, Operation, Request, OperationIn
<1> QED
  BY <1>2, <1>3, <1>4 DEF Next

LEMMA CommitIsTransaction ==
    ASSUME DispatchInv, Commit
    PROVE  Next
<1> DEFINE op == OperationIn(item)
           c == work.connection
           d == work.decision
           t == work.completed
<1>1. Holds("commit", item) /\ t \in 1..Horizon
  BY DEF DispatchInv, Hand, Pursues, Commit
<1>2. op \in Operations
  BY <1>1, InHand DEF Later
<1>3. t \in Times /\ c \in Operations \cup {None}
  BY <1>1, DispatchConstants DEF DispatchInv, DispatchTypeOK, Work
<1>4. \/ CommitPending(op, t)
      \/ CommitResponse(op, c, d, t)
  BY DEF Commit, Operation, Request, OperationIn
<1>5. ASSUME CommitResponse(op, c, d, t) PROVE d \in {"none", "allowed", "denied"}
  BY <1>5 DEF CommitResponse, BoundWork
<1> HIDE DEF op, c, d, t
<1> QED
  BY <1>2, <1>3, <1>4, <1>5 DEF Next

LEMMA OperatorIsTransaction ==
    ASSUME DispatchInv, Operator
    PROVE  Next
<1>1. PICK t \in Readings, c \in Operations :
          \/ \E granted \in SUBSET Permissions : ConnectionApprove(c, granted, t)
          \/ ConnectionReject(c, t)
          \/ ConnectionRevoke(c, t)
          \/ \E op \in Operations : ChallengeRequire(op, c, t)
          \/ ChallengeAuthorize(c, t)
  BY DEF Operator
<1>2. t \in Times /\ t \in 1..Horizon
  <2>1. t \in Times /\ t <= now /\ now \in 1..Horizon
    BY DEF Readings, DispatchInv, DispatchTypeOK
  <2> QED
    BY <2>1, DispatchConstants, TimesTyped
<1>3. /\ t + AuthorizedLifetime \in OptionalTime /\ 0 \in OptionalTime
      /\ t + PendingLifetime \in Times
  BY <1>2, DispatchConstants, TimesTyped
<1>4. ASSUME NEW granted \in SUBSET Permissions, ConnectionApprove(c, granted, t) PROVE Next
  <2>1. PICK until \in OptionalTime : Approve(c, granted, until, t)
    BY <1>3, <1>4 DEF ConnectionApprove
  <2> QED
    BY <1>2, <2>1 DEF Next
<1>5. ASSUME NEW op \in Operations, ChallengeRequire(op, c, t) PROVE Next
  <2>1. PICK expires \in Times : IssueChallenge(op, c, expires, t)
    BY <1>3, <1>5 DEF ChallengeRequire
  <2> QED
    BY <1>2, <2>1 DEF Next
<1>6. ConnectionReject(c, t) \/ ConnectionRevoke(c, t) \/ ChallengeAuthorize(c, t) => Next
  BY <1>2 DEF Next, ConnectionReject, ConnectionRevoke, ChallengeAuthorize
<1> QED
  BY <1>1, <1>4, <1>5, <1>6

\* What a step other than these four does: it leaves the tables alone.
LEMMA OtherwiseUnchanged ==
    ASSUME [DispatchNext]_vars
    PROVE  Admit \/ Connect \/ Commit \/ Operator \/ UNCHANGED store
<1>1. CASE UNCHANGED vars
  BY <1>1 DEF vars
<1>2. CASE Dispatch
  BY <1>2 DEF Dispatch, Decrypt, AdmitRefused, Authorize, AmbiguousSession, AuthorizeConnect,
              ConnectRateLimited, ConnectRefused, Execute, ExecuteFails, Complete, Sign, SignFails,
              CommitRefused
<1>3. CASE DispatchNext /\ ~Dispatch
  BY <1>3 DEF DispatchNext, Take, Deliver, Tick, SetBack, Kill, Restart
<1> QED
  BY <1>1, <1>2, <1>3

LEMMA StoreStep ==
    ASSUME DispatchInv, [DispatchNext]_vars
    PROVE  [Next]_store
BY OtherwiseUnchanged, AdmitIsTransaction, ConnectIsTransaction, CommitIsTransaction,
   OperatorIsTransaction

-----------------------------------------------------------------------------
(* What the task relies on.                                                *)

\* Nothing is in hand.
LEMMA HandEmpty ==
    ASSUME CallsSound(executed, requests, responses), NEW i, NEW w,
           NEW p \in {"idle", "stopped", "killed"}
    PROVE  Hand(p, i, w, executed, requests, responses)
BY DEF Hand, Holds, Owns, Pursues, Waits, Later

\* The delivery starts over, or is about to.
LEMMA HandWaits ==
    ASSUME CallsSound(executed, requests, responses), NEW i, NEW w, NEW p \in Waits, Holds(p, i)
    PROVE  Hand(p, i, w, executed, requests, responses)
BY DEF Hand, Owns, Pursues, Waits, Later

LEMMA AdmitHand ==
    ASSUME DispatchInv, Admit
    PROVE  Hand(pc', item', work', executed', requests', responses')
<1>1. /\ Holds("admit", item) /\ CallsSound(executed, requests, responses)
      /\ pc = "admit" /\ item' = item /\ executed' = executed /\ responses' = responses
  BY DEF DispatchInv, Hand, Admit, Drop, Goto, AdmitRequest
<1>2. AllRows' /\ \A op \in Operations : Kept(op)
  BY AdmitIsTransaction, NextRows, NextKeeps DEF DispatchInv
<1>3. \A op \in Operations : Admitted(op) =>
          /\ requests'[op].nonce = requests[op].nonce /\ requests'[op].message = requests[op].message
  <2> SUFFICES ASSUME NEW op \in Operations, Admitted(op)
               PROVE  /\ requests'[op].nonce = requests[op].nonce
                      /\ requests'[op].message = requests[op].message
    OBVIOUS
  <2>1. [requests'[op] EXCEPT !.seen = requests[op].seen] = requests[op]
    BY <1>2 DEF Kept
  <2>2. requests'[op] \in RequestRow
    BY <1>2 DEF AllRows, TypeOK
  <2> QED
    BY <2>1, <2>2 DEF RequestRow
<1>4. CallsSound(executed, requests', responses)
  <2>1. ASSUME NEW x \in executed PROVE requests'[x[1]].nonce = x[2]
    <3>1. x[1] \in Operations /\ x[2] \in Nonces /\ x[2] # 0
      BY Nip46Assumption DEF DispatchInv, DispatchTypeOK
    <3>2. requests[x[1]].nonce = x[2]
      BY <1>1 DEF CallsSound
    <3> QED
      BY <1>3, <3>1, <3>2 DEF Admitted
  <2>2. ASSUME NEW op \in Operations, responses[op].kind = "terminal",
               requests'[op].message.method = "provider"
        PROVE  <<op, requests'[op].nonce>> \in executed
    <3>1. Admitted(op)
      BY <2>2 DEF DispatchInv, AllRows, RowsAgree, Rows, Answered, Admitted
    <3> QED
      BY <1>1, <1>3, <2>2, <3>1 DEF CallsSound
  <2> QED
    BY <2>1, <2>2 DEF CallsSound
<1>5. pc' = "idle" \/ (pc' = "authorize" /\ responses[OperationIn(item)].kind = "none")
  <2>1. OperationIn(item) \in Operations
    BY <1>1, InHand DEF Waits
  <2> QED
    BY DEF Admit, Drop, Goto, Operation, Request, OperationIn
<1>6. CASE pc' = "idle"
  BY <1>1, <1>4, <1>6 DEF Hand, Holds, Owns, Pursues, Waits, Later
<1>7. CASE pc' = "authorize" /\ responses[OperationIn(item)].kind = "none"
  BY <1>1, <1>4, <1>7 DEF Hand, Holds, Owns, Pursues, Waits, Later
<1> QED
  BY <1>5, <1>6, <1>7

LEMMA CommitHand ==
    ASSUME DispatchInv, Commit
    PROVE  Hand(pc', item', work', executed', requests', responses')
<1> DEFINE op == OperationIn(item)
<1>1. /\ Hand("commit", item, work, executed, requests, responses)
      /\ pc' = "idle" /\ executed' = executed
  BY DEF DispatchInv, Commit, Drop, Goto
<1>2. op \in Operations
  BY <1>1, InHand DEF Hand, Later
<1>3. /\ requests' = requests
      /\ \E row : responses' = [responses EXCEPT ![op] = row]
  BY DEF Commit, CommitPending, CommitResponse, Operation, Request, OperationIn
<1>4. requests[op].message = Wire[item.event] /\ requests[op].nonce = item.nonce
  BY <1>1 DEF Hand, Owns, Later
<1>5. Wire[item.event].method = "provider" => <<op, item.nonce>> \in executed
  BY <1>1 DEF Hand, Pursues
<1> HIDE DEF op
<1>6. CallsSound(executed, requests, responses')
  <2>1. \A x \in executed : requests[x[1]].nonce = x[2]
    BY <1>1 DEF Hand, CallsSound
  <2>2. ASSUME NEW o \in Operations, responses'[o].kind = "terminal",
               requests[o].message.method = "provider"
        PROVE  <<o, requests[o].nonce>> \in executed
    <3>1. CASE o = op
      BY <1>4, <1>5, <2>2, <3>1
    <3>2. CASE o # op
      <4>1. responses'[o] = responses[o]
        BY <1>2, <1>3, <3>2 DEF DispatchInv, AllRows, TypeOK
      <4> QED
        BY <1>1, <2>2, <4>1 DEF Hand, CallsSound
    <3> QED
      BY <3>1, <3>2
  <2> QED
    BY <2>1, <2>2 DEF CallsSound
<1> QED
  BY <1>1, <1>3, <1>6 DEF Hand, Holds, Owns, Pursues, Waits, Later

\* The steps of the task that change no table.
LEMMA TaskHand ==
    ASSUME DispatchInv, Dispatch, ~Admit, ~Commit
    PROVE  Hand(pc', item', work', executed', requests', responses')
<1>1. /\ requests' = requests /\ responses' = responses /\ item' = item
      /\ CallsSound(executed, requests, responses)
      /\ Hand(pc, item, work, executed, requests, responses)
  BY DEF DispatchInv, Hand, Dispatch, store, Decrypt, AdmitRefused, Authorize, AmbiguousSession,
         AuthorizeConnect, Connect, AdmitConnection, ConnectRateLimited, ConnectRefused, Execute,
         ExecuteFails, Complete, Sign, SignFails, CommitRefused, Goto, Stop, Drop, Retry
<1>2. CASE Decrypt
  BY <1>1, <1>2 DEF Decrypt, Goto, Hand, Holds, Owns, Pursues, Waits, Later
<1>3. CASE AdmitRefused \/ AmbiguousSession \/ ConnectRateLimited \/ ConnectRefused \/ CommitRefused
  BY <1>1, <1>3, HandEmpty DEF AdmitRefused, AmbiguousSession, ConnectRateLimited, ConnectRefused,
              CommitRefused, Stop, Drop, Goto
<1>4. ASSUME pc \in {"authorize"} \cup Later, executed' = executed, IsMatch,
             pc' \in {"connect", "execute", "complete"},
             pc' = "connect" => Request.method = "connect",
             pc' = "execute" => Request.method = "provider",
             pc' = "complete" => Request.method # "provider"
      PROVE  Hand(pc', item', work', executed', requests', responses')
  BY <1>1, <1>4 DEF Hand, Holds, Owns, Pursues, Waits, Later, IsMatch, matches_request, Request,
                    OperationIn
<1>5. CASE Authorize
  <2>1. CASE \E c \in Operations : PreparesWork(c)
    BY <1>4, <1>5, <2>1 DEF Authorize, Goto, PreparesWork
  <2>2. CASE ~\E c \in Operations : PreparesWork(c)
    BY <1>1, <1>5, <2>2, HandEmpty DEF Authorize, Drop, Goto
  <2> QED
    BY <2>1, <2>2
<1>6. CASE AuthorizeConnect
  <2>1. CASE IsMatch
    BY <1>4, <1>6, <2>1 DEF AuthorizeConnect, Goto
  <2>2. CASE ~IsMatch
    BY <1>1, <1>6, <2>2, HandEmpty DEF AuthorizeConnect, Drop, Goto
  <2> QED
    BY <2>1, <2>2
<1>7. CASE Connect
  BY <1>1, <1>7 DEF Connect, Goto, Hand, Holds, Owns, Pursues, Waits, Later
<1>8. CASE Execute
  BY <1>1, <1>8 DEF Execute, Hand, Holds, Owns, Pursues, CallsSound, Waits, Later, Request,
                    OperationIn, Operation
<1>9. CASE ExecuteFails
  BY <1>1, <1>9 DEF ExecuteFails, Hand, Holds, Owns, Pursues, CallsSound, Waits, Later, Request,
                    OperationIn, Operation
<1>10. CASE Complete
  <2>1. now \in 1..Horizon /\ work \in Work
    BY DEF DispatchInv, DispatchTypeOK
  <2>2. CASE pc' = "sign"
    <3>1. work'.completed = now
      BY <1>10, <2>1, <2>2 DEF Complete, Stop, Goto, Work
    <3> QED
      BY <1>1, <1>10, <2>1, <2>2, <3>1 DEF Complete, Goto, Stop, Hand, Holds, Owns, Pursues, Waits, Later
  <2>3. CASE pc' = "stopped"
    BY <1>1, <1>10, <2>3, HandEmpty DEF Complete, Goto, Stop
  <2> QED
    BY <1>10, <2>2, <2>3 DEF Complete, Goto, Stop
<1>11. CASE Sign
  BY <1>1, <1>11 DEF Sign, Goto, Hand, Holds, Owns, Pursues, Waits, Later
<1>12. CASE SignFails
  BY <1>1, <1>12 DEF SignFails, Retry, Goto, Hand, Holds, Owns, Pursues, Waits, Later
<1> QED
  BY <1>2, <1>3, <1>5, <1>6, <1>7, <1>8, <1>9, <1>10, <1>11, <1>12 DEF Dispatch

\* An operator changes connections, decisions and challenges only.
LEMMA OperatorKeeps ==
    ASSUME Operator
    PROVE  /\ requests' = requests /\ events' = events /\ responses' = responses
           /\ UNCHANGED <<dispatch, environment>>
<1>1. PICK t \in Readings, c \in Operations :
          \/ \E granted \in SUBSET Permissions : ConnectionApprove(c, granted, t)
          \/ ConnectionReject(c, t)
          \/ ConnectionRevoke(c, t)
          \/ \E op \in Operations : ChallengeRequire(op, c, t)
          \/ ChallengeAuthorize(c, t)
  BY DEF Operator
<1>2. requests' = requests /\ events' = events /\ responses' = responses
  <2>1. \A g, u : Approve(c, g, u, t) => UNCHANGED <<requests, events, responses>>
    BY DEF Approve
  <2>2. \A op, u : IssueChallenge(op, c, u, t) => UNCHANGED <<requests, events, responses>>
    BY DEF IssueChallenge
  <2>3. Deny(c, t) \/ Revoke(c, t) \/ AuthorizeChallenge(c, t) =>
            UNCHANGED <<requests, events, responses>>
    BY DEF Deny, Revoke, AuthorizeChallenge
  <2> QED
    BY <1>1, <2>1, <2>2, <2>3 DEF ConnectionApprove, ConnectionReject, ConnectionRevoke,
       ChallengeRequire, ChallengeAuthorize
<1> QED
  BY <1>2 DEF Operator

LEMMA OtherHand ==
    ASSUME DispatchInv, [DispatchNext]_vars, ~Dispatch
    PROVE  Hand(pc', item', work', executed', requests', responses')
<1>0. Hand(pc, item, work, executed, requests, responses) /\ CallsSound(executed, requests, responses)
  BY DEF DispatchInv, Hand
<1>1. CASE UNCHANGED vars
  BY <1>0, <1>1 DEF vars, dispatch, store
<1>2. ASSUME NEW e \in EventIds, Take(e)
      PROVE  Hand(pc', item', work', executed', requests', responses')
  <2>1. taken + 1 \in Nonces /\ now \in 1..Horizon
    BY <1>2, DispatchConstants, DispatchAssumption DEF Take, DispatchInv, DispatchTypeOK
  <2>2. /\ requests' = requests /\ responses' = responses /\ executed' = executed
        /\ pc' = "decrypt" /\ item' = [event |-> e, nonce |-> taken + 1, received |-> now]
    BY <1>2 DEF Take, store
  <2>3. Holds(pc', item') /\ pc' \in Waits
    BY <2>1, <2>2 DEF Holds, Waits
  <2>4. Hand(pc', item', work', executed, requests, responses)
    BY <1>0, <2>3, HandWaits
  <2> QED
    BY <2>2, <2>4
<1>3. CASE Operator
  BY <1>0, <1>3, OperatorKeeps DEF dispatch
<1>4. CASE (\E op \in Operations : Deliver(op)) \/ Tick \/ SetBack
  BY <1>0, <1>4 DEF Deliver, Tick, SetBack, dispatch, store
<1>5. CASE Kill \/ Restart
  BY <1>0, <1>5, HandEmpty DEF Kill, Restart, store
<1> QED
  BY <1>1, <1>2, <1>3, <1>4, <1>5 DEF DispatchNext

-----------------------------------------------------------------------------
LEMMA NoWorkTyped == NoWork \in Work /\ NoItem \in Item
BY TimesTyped DEF NoWork, Work, NoItem, Item, ConnectionStatus, Decision

LEMMA RecordedFields ==
    ASSUME NEW a, NEW b, NEW o, NEW s
    PROVE  [NoWork EXCEPT !.decision = a, !.decided = b, !.connection = o, !.status = s] =
               [connection |-> o, status |-> s, updated |-> 0, decision |-> a, decided |-> b,
                completed |-> 0]
<1> DEFINE Row(p, q, x, y) == [connection |-> p, status |-> q, updated |-> 0, decision |-> x,
                               decided |-> y, completed |-> 0]
<1>1. NoWork = Row(None, "none", "none", 0)
  BY DEF NoWork
<1>2. [Row(None, "none", "none", 0) EXCEPT !.decision = a] = Row(None, "none", a, 0)
  OBVIOUS
<1>3. [Row(None, "none", a, 0) EXCEPT !.decided = b] = Row(None, "none", a, b)
  OBVIOUS
<1>4. [Row(None, "none", a, b) EXCEPT !.connection = o] = Row(o, "none", a, b)
  OBVIOUS
<1>5. [Row(o, "none", a, b) EXCEPT !.status = s] = Row(o, s, a, b)
  OBVIOUS
<1>6. Row(o, s, a, b) = [connection |-> o, status |-> s, updated |-> 0, decision |-> a,
                         decided |-> b, completed |-> 0]
  OBVIOUS
<1> HIDE DEF Row
<1> QED
  BY <1>1, <1>2, <1>3, <1>4, <1>5, <1>6, Zenon

LEMMA RecordedTyped ==
    ASSUME NEW d \in DecisionRow, NEW c \in ConnectionRow
    PROVE  /\ Recorded(d, c) \in Work /\ Recorded(d, c).updated = 0
           /\ Recorded(d, c).decision = d.decision /\ Recorded(d, c).decided = d.decided
           /\ Recorded(d, c).connection = d.connection
           /\ Recorded(d, c).status = IF d.connection = None THEN "none" ELSE c.status
<1> DEFINE s == IF d.connection = None THEN "none" ELSE c.status
<1>1. Recorded(d, c) = [connection |-> d.connection, status |-> s, updated |-> 0,
                        decision |-> d.decision, decided |-> d.decided, completed |-> 0]
  <2> DEFINE W(a, b, o, q) == [NoWork EXCEPT !.decision = a, !.decided = b, !.connection = o,
                                             !.status = q]
             V(a, b, o, q) == [connection |-> o, status |-> q, updated |-> 0, decision |-> a,
                               decided |-> b, completed |-> 0]
  <2>1. Recorded(d, c) = W(d.decision, d.decided, d.connection, s)
    BY Zenon DEF Recorded
  <2>2. \A a, b, o, q : W(a, b, o, q) = V(a, b, o, q)
    BY RecordedFields, Zenon
  <2>3. V(d.decision, d.decided, d.connection, s) =
            [connection |-> d.connection, status |-> s, updated |-> 0,
             decision |-> d.decision, decided |-> d.decided, completed |-> 0]
    OBVIOUS
  <2> HIDE DEF W, V, s
  <2> QED
    BY <2>1, <2>2, <2>3, Zenon
<1> QED
  BY <1>1, TimesTyped DEF Work, DecisionRow, ConnectionRow, ConnectionStatus

LEMMA WorkTyped ==
    ASSUME DispatchInv, AllRows', [DispatchNext]_vars
    PROVE  work' \in Work
<1>0. work \in Work /\ NoWork \in Work /\ now \in OptionalTime
  BY NoWorkTyped, DispatchConstants DEF DispatchInv, DispatchTypeOK
<1>1. CASE Authorize
  <2> DEFINE Read(c) == [NoWork EXCEPT !.connection = c, !.status = "active",
                                       !.updated = connections[c].updated]
  <2>1. work' = NoWork \/ \E c \in Sessions : work' = Read(c)
    BY <1>1, Zenon DEF Authorize, Drop
  <2>2. ASSUME NEW c \in Sessions, work' = Read(c)
        PROVE  work' \in Work
    <3>1. c \in Operations
      BY DEF Sessions, ActiveConnections
    <3>2. connections[c].updated \in OptionalTime
      BY <3>1, RowsTyped DEF DispatchInv, AllRows, ConnectionRow
    <3>3. work' = [connection |-> c, status |-> "active", updated |-> connections[c].updated,
                   decision |-> "none", decided |-> 0, completed |-> 0]
      BY <2>2 DEF NoWork
    <3> QED
      BY <3>1, <3>2, <3>3, TimesTyped DEF Work, ConnectionStatus, Decision
  <2> HIDE DEF Read
  <2> QED
    BY <1>0, <2>1, <2>2
<1>2. CASE Connect
  <2> DEFINE d == decisions'[Operation]
             c == connections'[Operation]
  <2>1. Operation \in Operations
    <3>1. Holds("connect", item)
      BY <1>2 DEF Connect, DispatchInv, Hand
    <3> QED
      BY <3>1, InHand DEF Later, Operation, OperationIn, Request
  <2>2. d \in DecisionRow /\ c \in ConnectionRow
    BY <2>1 DEF AllRows, TypeOK
  <2>3. work' = Recorded(d, c)
    BY <1>2 DEF Connect
  <2> HIDE DEF d, c
  <2> QED
    BY <2>2, <2>3, RecordedTyped
<1>3. CASE Complete
  <2>1. work' = NoWork \/ work' = [work EXCEPT !.completed = now]
    BY <1>3 DEF Complete, Stop
  <2> QED
    BY <1>0, <2>1 DEF Work
<1>4. work' = work \/ work' = NoWork \/ Authorize \/ Connect \/ Complete
  <2>1. CASE UNCHANGED vars
    BY <2>1 DEF vars, dispatch
  <2>2. CASE Dispatch
    BY <2>2 DEF Dispatch, Decrypt, Admit, AdmitRefused, AmbiguousSession,
         AuthorizeConnect, ConnectRateLimited, ConnectRefused, Execute,
         ExecuteFails, Sign, SignFails, Commit, CommitRefused, Goto, Stop, Drop, Retry
  <2>3. CASE Operator
    BY <2>3, OperatorKeeps DEF dispatch
  <2>4. CASE (\E e \in EventIds : Take(e)) \/ (\E op \in Operations : Deliver(op)) \/ Tick
             \/ SetBack \/ Kill \/ Restart
    BY <2>4 DEF Take, Deliver, Tick, SetBack, Kill, Restart, dispatch
  <2> QED
    BY <2>1, <2>2, <2>3, <2>4 DEF DispatchNext
<1> QED
  BY <1>0, <1>1, <1>2, <1>3, <1>4

LEMMA EnvironmentTyped ==
    ASSUME DispatchInv, [DispatchNext]_vars
    PROVE  /\ now' \in 1..Horizon /\ taken' \in Nat /\ held' \subseteq Operations
           /\ pc' \in Phases /\ item' \in Item
<1>0. /\ now \in 1..Horizon /\ taken \in Nat /\ held \subseteq Operations /\ pc \in Phases
      /\ item \in Item /\ now \in OptionalTime /\ Horizon \in Nat /\ now \in Nat
  BY DispatchConstants DEF DispatchInv, DispatchTypeOK
<1>1. CASE UNCHANGED vars
  BY <1>0, <1>1 DEF vars, dispatch
<1>2. CASE Dispatch
  BY <1>0, <1>2 DEF Dispatch, Decrypt, Admit, AdmitRefused, Authorize, AmbiguousSession,
         AuthorizeConnect, Connect, ConnectRateLimited, ConnectRefused, Execute,
         ExecuteFails, Complete, Sign, SignFails, Commit, CommitRefused, Goto, Stop, Drop, Retry,
         environment, Phases
<1>3. CASE Operator
  BY <1>0, <1>3, OperatorKeeps DEF dispatch, environment
<1>4. ASSUME NEW e \in EventIds, Take(e)
      PROVE  /\ now' \in 1..Horizon /\ taken' \in Nat /\ held' \subseteq Operations
             /\ pc' \in Phases /\ item' \in Item
  <2>1. taken + 1 \in Nonces
    BY <1>0, <1>4, DispatchConstants, DispatchAssumption DEF Take
  <2>2. item' = [event |-> e, nonce |-> taken + 1, received |-> now]
    BY <1>4 DEF Take
  <2>3. item' \in Item
    BY <1>0, <2>1, <2>2 DEF Item
  <2> QED
    BY <1>0, <1>4, <2>3 DEF Take, environment, Phases
<1>5. CASE (\E op \in Operations : Deliver(op))
  BY <1>0, <1>5 DEF Deliver, dispatch
<1>6. CASE Tick
  BY <1>0, <1>6 DEF Tick, dispatch
<1>7. CASE SetBack
  BY <1>0, <1>7 DEF SetBack, dispatch
<1>8. CASE Kill \/ Restart
  BY <1>0, <1>8, NoWorkTyped DEF Kill, Restart, environment, Phases
<1> QED
  BY <1>1, <1>2, <1>3, <1>4, <1>5, <1>6, <1>7, <1>8 DEF DispatchNext

LEMMA ExecutedTyped ==
    ASSUME DispatchInv, [DispatchNext]_vars
    PROVE  executed' \subseteq Operations \X Nonces
<1>0. executed \subseteq Operations \X Nonces
  BY DEF DispatchInv, DispatchTypeOK
<1>1. CASE Execute \/ ExecuteFails
  <2>1. Holds("execute", item)
    BY <1>1 DEF Execute, ExecuteFails, DispatchInv, Hand
  <2>2. Operation \in Operations /\ item.nonce \in Nonces
    BY <2>1, InHand DEF Later, Operation, OperationIn, Request
  <2> QED
    BY <1>0, <1>1, <2>2 DEF Execute, ExecuteFails
<1>2. executed' = executed \/ Execute \/ ExecuteFails
  <2>1. CASE UNCHANGED vars
    BY <2>1 DEF vars, dispatch
  <2>2. CASE Dispatch
    BY <2>2 DEF Dispatch, Decrypt, Admit, AdmitRefused, Authorize, AmbiguousSession,
         AuthorizeConnect, Connect, ConnectRateLimited, ConnectRefused, Complete, Sign, SignFails,
         Commit, CommitRefused, Goto, Stop, Drop, Retry
  <2>3. CASE Operator
    BY <2>3, OperatorKeeps DEF dispatch
  <2>4. CASE (\E e \in EventIds : Take(e)) \/ (\E op \in Operations : Deliver(op)) \/ Tick
             \/ SetBack \/ Kill \/ Restart
    BY <2>4 DEF Take, Deliver, Tick, SetBack, Kill, Restart, dispatch
  <2> QED
    BY <2>1, <2>2, <2>3, <2>4 DEF DispatchNext
<1> QED
  BY <1>0, <1>1, <1>2

LEMMA DispatchStep ==
    ASSUME DispatchInv, [DispatchNext]_vars
    PROVE  DispatchInv'
<1>1. AllRows'
  BY StoreStep, NextRows DEF DispatchInv
<1>2. Hand(pc', item', work', executed', requests', responses')
  BY AdmitHand, CommitHand, TaskHand, OtherHand
<1>3. DispatchTypeOK'
  BY <1>1, WorkTyped, EnvironmentTyped, ExecutedTyped DEF DispatchTypeOK, AllRows
<1> QED
  BY <1>1, <1>2, <1>3, EnvironmentTyped DEF DispatchInv

LEMMA DispatchStart ==
    ASSUME DispatchInit
    PROVE  DispatchInv
<1>1. AllRows
  BY InitRows DEF DispatchInit
<1>2. \A op \in Operations : responses[op].kind = "none"
  BY DEF DispatchInit, Init, NoResponse
<1>3. CallsSound(executed, requests, responses)
  BY <1>2 DEF DispatchInit, CallsSound
<1>4. Hand(pc, item, work, executed, requests, responses)
  BY <1>3, HandEmpty DEF DispatchInit
<1>5. DispatchTypeOK
  <2>1. 1 \in 1..Horizon
    BY DispatchAssumption
  <2> QED
    BY <1>1, <2>1, NoWorkTyped DEF DispatchInit, DispatchTypeOK, AllRows, Phases
<1> QED
  BY <1>1, <1>4, <1>5 DEF DispatchInv, DispatchInit

LEMMA DispatchInvCorrect == DispatchSpec => []DispatchInv
BY DispatchStart, DispatchStep, PTL DEF DispatchSpec

\* The running service is a history of the tables: every step of the task, the operator, the
\* clock and the process is one transaction of Nip46State or leaves the tables alone, so what is
\* proved of every sequence of transactions holds of it (process, run_provider_dispatch).
THEOREM DispatchImplementsState == DispatchSpec => Spec
<1>1. DispatchInit => Init
  BY DEF DispatchInit
<1> QED
  BY <1>1, StoreStep, DispatchInvCorrect, PTL DEF DispatchSpec, Spec

\* Retries, replays from any relay and restarts never make the user's provider work for a second
\* delivery of a request or for one that has its answer, and no answer of it is committed without
\* a call (process, run_provider_dispatch).
THEOREM ExecutesOnceCorrect == DispatchSpec => []ExecutesOnce
<1>1. ASSUME DispatchInv
      PROVE  ExecutesOnce
  <2>1. CallsSound(executed, requests, responses)
        /\ Pursues(pc, item, work, executed, responses)
    BY <1>1 DEF DispatchInv, Hand
  <2>2. OneExecutor
    <3>1. ASSUME NEW x \in executed, NEW y \in executed, x[1] = y[1] PROVE x = y
      <4>1. x \in Operations \X Nonces /\ y \in Operations \X Nonces
        BY <1>1 DEF DispatchInv, DispatchTypeOK
      <4>2. x[2] = y[2]
        BY <2>1, <3>1 DEF CallsSound
      <4> QED
        BY <3>1, <4>1, <4>2
    <3> QED
      BY <2>1, <3>1 DEF CallsSound, OneExecutor, Method
  <2>3. CompletedNotReexecuted
    BY <2>1 DEF Pursues, CompletedNotReexecuted, Later, Operation, OperationIn, Request
  <2> QED
    BY <1>1, <2>2, <2>3 DEF ExecutesOnce, DispatchInv
<1> QED
  BY <1>1, DispatchInvCorrect, PTL

-----------------------------------------------------------------------------
(* What was read and is used later.  The operator may change a connection  *)
(* between any two steps: a session stays as it was read or has expired    *)
(* (SessionStays), a settled decision stays, and the rest the commit finds *)
(* out.  As long as the clock was never set back, no stamp is in the       *)
(* future.                                                                 *)

Working == {"execute", "complete", "sign", "commit"}
Completed == {"sign", "commit"}

\* The session a request works under.
Session(p, i, w, conns) ==
    p \in Working /\ Wire[i.event].method # "connect" =>
        LET c == w.connection IN
        /\ c \in Operations /\ w.decision = "none" /\ w.status = "active"
        /\ conns[c].status \in Held
        /\ conns[c].status = "active" =>
              /\ conns[c].until = 0 \/ conns[c].until >= i.received
              /\ Wire[i.event].perms \subseteq conns[c].granted
              /\ conns[c].updated = w.updated

\* The decision a connect was answered with.
AnswersWith(w, con, dec, op) ==
    \/ w.decision = "pending_approval" /\ w.connection = op /\ w.status = "pending"
    \/ /\ w.decision = "allowed" /\ dec.decision = "allowed"
       /\ w.connection = op /\ dec.connection = op
       /\ w.status \in Held /\ con.status \in Held
       /\ w.status = "expired" => con.status = "expired"
    \/ /\ w.decision = "denied" /\ dec.decision = "denied" /\ w.connection = dec.connection
       /\ w.connection # None => dec.reason = "operator_denied"

Joined(p, i, w, conns, decs) ==
    p \in {"complete"} \cup Completed /\ Wire[i.event].method = "connect" =>
        /\ AnswersWith(w, conns[OperationIn(i)], decs[OperationIn(i)], OperationIn(i))
        /\ p \in Completed /\ w.decision = "allowed" => w.status = "active"
        /\ p \in Completed /\ w.decision = "denied" => w.connection = None

\* Stamps the tables carry, and stamps in hand.
TablesPast(n, reqs, conns, decs) ==
    \A op \in Operations :
        reqs[op].seen <= n /\ conns[op].updated <= n /\ decs[op].decided <= n

HandPast(n, p, i, w, reqs, conns) ==
    /\ p \in Waits \cup {"authorize"} \cup Later =>
          i.received <= n /\ \A op \in Operations : reqs[op].seen <= i.received
    /\ p \in Working => w.updated <= n /\ w.decided <= n
    /\ p \in Completed =>
          /\ w.completed <= n /\ i.received <= w.completed
          /\ w.updated <= w.completed /\ w.decided <= w.completed
          /\ /\ Wire[i.event].method = "connect" /\ w.decision = "allowed"
             /\ conns[OperationIn(i)].status = "active"
             => conns[OperationIn(i)].updated <= w.completed

Past ==
    setbacks = 0 =>
        /\ TablesPast(now, requests, connections, decisions)
        /\ HandPast(now, pc, item, work, requests, connections)

DispatchSound ==
    /\ DispatchInv /\ setbacks \in Nat
    /\ Session(pc, item, work, connections)
    /\ Joined(pc, item, work, connections, decisions)
    /\ Past

LEMMA StampsTyped ==
    ASSUME AllRows, NEW op \in Operations
    PROVE  /\ requests[op].seen \in Nat /\ connections[op].updated \in Nat
           /\ decisions[op].decided \in Nat /\ requests[op].received \in Nat
<1>1. /\ requests[op].seen \in OptionalTime /\ connections[op].updated \in OptionalTime
      /\ decisions[op].decided \in OptionalTime /\ requests[op].received \in OptionalTime
  BY RowsTyped DEF AllRows, RequestRow, ConnectionRow, DecisionRow
<1> QED
  BY <1>1, TimesTyped

LEMMA WorkStamps ==
    ASSUME DispatchInv
    PROVE  /\ now \in Nat /\ now \in 1..Horizon /\ item.received \in Nat
           /\ work.updated \in Nat /\ work.decided \in Nat /\ work.completed \in Nat
<1>1. /\ item.received \in OptionalTime /\ work.updated \in OptionalTime
      /\ work.decided \in OptionalTime /\ work.completed \in OptionalTime
      /\ now \in 1..Horizon /\ now \in OptionalTime
  BY DispatchConstants DEF DispatchInv, DispatchTypeOK, Item, Work
<1> QED
  BY <1>1, TimesTyped

\* What a transaction of time t does to a connection and a decision.
Moves(t) ==
    \A c \in Operations :
        /\ connections[c].status \in Held =>
              connections'[c] = connections[c] \/ connections'[c].status = "expired"
        /\ connections'[c].updated \in {connections[c].updated, t}
        /\ decisions'[c].decided \in {decisions[c].decided, t}

LEMMA SameMoves ==
    ASSUME connections' = connections, decisions' = decisions, NEW t
    PROVE  Moves(t)
BY DEF Moves

LEMMA EndSessionMoves ==
    ASSUME AllRows, NEW c \in Operations, NEW t, EndSession(c, t), decisions' = decisions
    PROVE  Moves(t)
<1>1. connections'[c] = [connections[c] EXCEPT !.status = "expired", !.updated = t, !.until = 0]
      /\ \A d \in Operations : d # c => connections'[d] = connections[d]
  BY DEF EndSession, AllRows, TypeOK
<1>2. connections[c] \in ConnectionRow
  BY RowsTyped DEF AllRows
<1>3. connections'[c].status = "expired" /\ connections'[c].updated = t
  BY <1>1, <1>2 DEF ConnectionRow
<1> QED
  BY <1>1, <1>3 DEF Moves

LEMMA AdmitConnectionMoves ==
    ASSUME AllRows, NEW op \in Operations, NEW until, NEW t, AdmitConnection(op, until, t)
    PROVE  Moves(t)
<1> DEFINE policy == expected_admission(ClientOf(op))
           dec == insert_decision(policy, op, t)
           con == insert_connection(policy, requests[op].message.perms, until, t)
<1>1. /\ decisions' = [decisions EXCEPT ![op] = dec]
      /\ connections' = IF policy = "denied" THEN connections ELSE [connections EXCEPT ![op] = con]
      /\ decisions[op].decision = "none"
  BY DEF AdmitConnection, ConnectionAnswer, Decided
<1>2. connections[op].status \notin Held
  BY <1>1 DEF AllRows, RowsAgree, Rows, Own, Held
<1>3. policy \in {"denied", "trusted", "explicit_approval"}
  BY DEF expected_admission
<1> HIDE DEF policy
<1>4. dec.decided = t /\ con.updated = t
  BY <1>3 DEF insert_decision, insert_connection
<1> HIDE DEF dec, con
<1> QED
  BY <1>1, <1>2, <1>4 DEF Moves, AllRows, TypeOK

LEMMA DecideMoves ==
    ASSUME AllRows, NEW c \in Operations, NEW t, AwaitsOperator(c, t),
           NEW row, NEW dec, row.updated = t, dec.decided = t,
           connections' = [connections EXCEPT ![c] = row],
           decisions' = [decisions EXCEPT ![c] = dec]
    PROVE  Moves(t)
<1>1. connections[c].status \notin Held
  BY DEF AwaitsOperator, Held
<1> QED
  BY <1>1 DEF Moves, AllRows, TypeOK

LEMMA ApproveMoves ==
    ASSUME AllRows, NEW c \in Operations, NEW granted, NEW until, NEW t, Approve(c, granted, until, t)
    PROVE  Moves(t)
<1> DEFINE row == [connections[c] EXCEPT !.status = "active", !.granted = granted, !.updated = t,
                                         !.until = until]
           dec == [decisions[c] EXCEPT !.decision = "allowed", !.reason = "operator_approved",
                                       !.decided = t]
<1>1. connections[c] \in ConnectionRow /\ decisions[c] \in DecisionRow
  BY RowsTyped DEF AllRows
<1>2. row.updated = t /\ dec.decided = t
  BY <1>1 DEF ConnectionRow, DecisionRow
<1>3. /\ connections' = [connections EXCEPT ![c] = row] /\ decisions' = [decisions EXCEPT ![c] = dec]
      /\ AwaitsOperator(c, t)
  BY DEF Approve, AllRows, TypeOK
<1> HIDE DEF row, dec
<1> QED
  BY <1>2, <1>3, DecideMoves

LEMMA DenyMoves ==
    ASSUME AllRows, NEW c \in Operations, NEW t, Deny(c, t)
    PROVE  Moves(t)
<1> DEFINE row == [connections[c] EXCEPT !.status = "denied", !.updated = t, !.until = 0]
           dec == [decisions[c] EXCEPT !.decision = "denied", !.reason = "operator_denied",
                                       !.decided = t]
<1>1. connections[c] \in ConnectionRow /\ decisions[c] \in DecisionRow
  BY RowsTyped DEF AllRows
<1>2. row.updated = t /\ dec.decided = t
  BY <1>1 DEF ConnectionRow, DecisionRow
<1>3. /\ connections' = [connections EXCEPT ![c] = row] /\ decisions' = [decisions EXCEPT ![c] = dec]
      /\ AwaitsOperator(c, t)
  BY DEF Deny, AllRows, TypeOK
<1> HIDE DEF row, dec
<1> QED
  BY <1>2, <1>3, DecideMoves

LEMMA ChallengeMoves ==
    ASSUME AllRows, NEW op \in Operations, NEW c, NEW expires, NEW t,
           IssueChallenge(op, c, expires, t) \/ AuthorizeChallenge(op, t)
    PROVE  Moves(t)
<1>1. decisions[op] \in DecisionRow
  BY RowsTyped DEF AllRows
<1>2. connections' = connections
  BY DEF IssueChallenge, AuthorizeChallenge
<1>3. \A d \in Operations : decisions'[d].decided \in {decisions[d].decided, t}
  <2>1. CASE IssueChallenge(op, c, expires, t)
    BY <2>1 DEF IssueChallenge, AllRows, TypeOK
  <2>2. CASE AuthorizeChallenge(op, t)
    <3>1. PICK x, y : decisions' = [decisions EXCEPT ![op] =
              [[[@ EXCEPT !.decision = x] EXCEPT !.reason = y] EXCEPT !.decided = t]]
      BY <2>2 DEF AuthorizeChallenge, AllRows, TypeOK
    <3>2. [[[decisions[op] EXCEPT !.decision = x] EXCEPT !.reason = y] EXCEPT !.decided = t].decided = t
      BY <1>1 DEF DecisionRow
    <3> QED
      BY <3>1, <3>2 DEF AllRows, TypeOK
  <2> QED
    BY <2>1, <2>2
<1> QED
  BY <1>2, <1>3 DEF Moves

LEMMA CommitMoves ==
    ASSUME AllRows, NEW op \in Operations, NEW c \in Operations \cup {None}, NEW d, NEW t,
           CommitPending(op, t) \/ CommitResponse(op, c, d, t)
    PROVE  Moves(t)
<1>1. decisions' = decisions
  BY DEF CommitPending, CommitResponse
<1>2. CASE connections' = connections
  BY <1>1, <1>2, SameMoves
<1>3. CASE CommitResponse(op, c, d, t) /\ connections' # connections
  <2>1. EndSession(c, t) /\ session_effect(op, d) = "connection_revoked" /\ BoundWork(op, c, d)
    BY <1>3 DEF CommitResponse
  <2>2. c # None
    BY <2>1 DEF BoundWork, session_effect
  <2> QED
    BY <1>1, <2>1, <2>2, EndSessionMoves
<1> QED
  BY <1>2, <1>3 DEF CommitPending

-----------------------------------------------------------------------------
(* How the parts of DispatchSound survive a step.                          *)

LEMMA SessionKept ==
    ASSUME NEW p, NEW i, NEW w, NEW t, Session(p, i, w, connections), Moves(t)
    PROVE  Session(p, i, w, connections')
BY DEF Session, Moves, Held

LEMMA JoinedKept ==
    ASSUME NEW p, NEW i, NEW w, NEW t, OperationIn(i) \in Operations,
           Joined(p, i, w, connections, decisions), Moves(t), \A op \in Operations : Kept(op)
    PROVE  Joined(p, i, w, connections', decisions')
<1> DEFINE op == OperationIn(i)
<1>1. /\ decisions[op].decision \in {"allowed", "denied"} => decisions'[op] = decisions[op]
      /\ connections[op].status = "expired" => connections'[op] = connections[op]
      /\ connections[op].status = "active" => connections'[op].status \in Held
  BY DEF Kept, Held
<1> HIDE DEF op
<1>2. ASSUME AnswersWith(w, connections[op], decisions[op], op)
      PROVE  AnswersWith(w, connections'[op], decisions'[op], op)
  BY <1>1, <1>2 DEF AnswersWith, Held
<1> QED
  BY <1>2 DEF Joined, op

LEMMA TablesPastKept ==
    ASSUME AllRows, NEW n \in Nat, NEW t \in Nat, t <= n,
           TablesPast(n, requests, connections, decisions), Moves(t),
           \A op \in Operations : requests'[op].seen <= n
    PROVE  TablesPast(n, requests', connections', decisions')
BY StampsTyped DEF TablesPast, Moves

\* The delivery alone.
ItemPast(n, p, i, reqs) ==
    p \in Waits \cup {"authorize"} \cup Later =>
        i.received <= n /\ \A op \in Operations : reqs[op].seen <= i.received

LEMMA HandPastItem ==
    ASSUME NEW n, NEW p \in Phases \ Working, NEW i, NEW w, NEW reqs, NEW conns
    PROVE  HandPast(n, p, i, w, reqs, conns) <=> ItemPast(n, p, i, reqs)
BY DEF HandPast, ItemPast, Working, Completed

LEMMA HandPastKept ==
    ASSUME AllRows, NEW n, NEW p, NEW i, NEW w, NEW reqs, NEW t, OperationIn(i) \in Operations,
           HandPast(n, p, i, w, reqs, connections), Joined(p, i, w, connections, decisions), Moves(t)
    PROVE  HandPast(n, p, i, w, reqs, connections')
<1> DEFINE op == OperationIn(i)
<1>1. ASSUME p \in Completed, Wire[i.event].method = "connect", w.decision = "allowed",
             connections'[op].status = "active"
      PROVE  connections'[op] = connections[op]
  <2>1. connections[op].status \in Held
    BY <1>1 DEF Joined, AnswersWith
  <2> QED
    BY <1>1, <2>1 DEF Moves
<1> HIDE DEF op
<1> QED
  BY <1>1 DEF HandPast, op

\* The conjuncts of DispatchSound that DispatchStep does not give.
Beside ==
    /\ setbacks \in Nat
    /\ Session(pc, item, work, connections)
    /\ Joined(pc, item, work, connections, decisions)
    /\ Past

\* A transaction beside the task.
LEMMA OperatorBeside ==
    ASSUME DispatchSound, Operator
    PROVE  Beside'
<1>1. PICK t \in Readings, c \in Operations :
          \/ \E granted \in SUBSET Permissions : ConnectionApprove(c, granted, t)
          \/ ConnectionReject(c, t)
          \/ ConnectionRevoke(c, t)
          \/ \E op \in Operations : ChallengeRequire(op, c, t)
          \/ ChallengeAuthorize(c, t)
  BY DEF Operator
<1>2. AllRows /\ DispatchInv /\ now \in Nat /\ t \in Nat /\ t <= now
  BY WorkStamps, TimesTyped DEF DispatchSound, DispatchInv, Readings
<1>3. Moves(t)
  <2>1. ConnectionRevoke(c, t) => Moves(t)
    BY <1>2, EndSessionMoves DEF ConnectionRevoke, Revoke
  <2>2. \A op \in Operations : ChallengeRequire(op, c, t) => Moves(t)
    BY <1>2, ChallengeMoves DEF ChallengeRequire
  <2>3. ChallengeAuthorize(c, t) => Moves(t)
    BY <1>2, ChallengeMoves DEF ChallengeAuthorize
  <2>4. \A granted \in SUBSET Permissions : ConnectionApprove(c, granted, t) => Moves(t)
    BY <1>2, ApproveMoves DEF ConnectionApprove
  <2>5. ConnectionReject(c, t) => Moves(t)
    BY <1>2, DenyMoves DEF ConnectionReject
  <2> QED
    BY <1>1, <2>1, <2>2, <2>3, <2>4, <2>5
<1>4. /\ requests' = requests /\ pc' = pc /\ item' = item /\ work' = work
      /\ now' = now /\ setbacks' = setbacks
  BY OperatorKeeps DEF dispatch, environment
<1>5. \A op \in Operations : Kept(op)
  BY <1>2, OperatorIsTransaction, NextKeeps
<1>6. Session(pc, item, work, connections')
  BY <1>3, SessionKept DEF DispatchSound
<1>7. Joined(pc, item, work, connections', decisions')
  <2>1. CASE pc \in Later
    <3>1. OperationIn(item) \in Operations
      BY <1>2, <2>1, InHand DEF DispatchInv, Hand
    <3> QED
      BY <1>3, <1>5, <3>1, JoinedKept DEF DispatchSound
  <2>2. CASE pc \notin Later
    BY <2>2 DEF Joined, Completed, Later
  <2> QED
    BY <2>1, <2>2
<1>8. Past'
  <2> SUFFICES ASSUME setbacks = 0
               PROVE  /\ TablesPast(now, requests, connections', decisions')
                      /\ HandPast(now, pc, item, work, requests, connections')
    BY <1>4 DEF Past
  <2>1. /\ TablesPast(now, requests, connections, decisions)
        /\ HandPast(now, pc, item, work, requests, connections)
        /\ Joined(pc, item, work, connections, decisions)
    BY DEF DispatchSound, Past
  <2>2. TablesPast(now, requests', connections', decisions')
    <3>1. \A op \in Operations : requests'[op].seen <= now
      BY <1>4, <2>1 DEF TablesPast
    <3> QED
      BY <1>2, <1>3, <2>1, <3>1, TablesPastKept
  <2>3. HandPast(now, pc, item, work, requests, connections')
    <3>1. CASE pc \in Later
      <4>1. OperationIn(item) \in Operations
        BY <1>2, <3>1, InHand DEF DispatchInv, Hand
      <4> QED
        BY <1>2, <1>3, <2>1, <4>1, HandPastKept
    <3>2. CASE pc \notin Later
      BY <2>1, <3>2 DEF HandPast, Working, Completed, Later
    <3> QED
      BY <3>1, <3>2
  <2> QED
    BY <1>4, <2>2, <2>3
<1> QED
  BY <1>4, <1>6, <1>7, <1>8 DEF Beside, DispatchSound

\* Time passes, a response is delivered, the process is killed or starts again, a delivery is taken.
LEMMA LaterPast ==
    ASSUME DispatchInv, NEW n \in Nat, now <= n,
           TablesPast(now, requests, connections, decisions),
           HandPast(now, pc, item, work, requests, connections)
    PROVE  /\ TablesPast(n, requests, connections, decisions)
           /\ HandPast(n, pc, item, work, requests, connections)
<1>1. TablesPast(n, requests, connections, decisions)
  BY WorkStamps, StampsTyped DEF TablesPast, DispatchInv
<1> QED
  BY <1>1, WorkStamps DEF HandPast

LEMMA EnvironmentBeside ==
    ASSUME DispatchSound,
           \/ UNCHANGED vars \/ (\E op \in Operations : Deliver(op)) \/ Tick \/ SetBack
    PROVE  Beside'
<1>1. /\ UNCHANGED <<requests, connections, decisions, pc, item, work>>
      /\ \/ setbacks' = setbacks /\ (now' = now \/ now' = now + 1)
         \/ setbacks' = setbacks + 1
  BY DEF vars, dispatch, store, Deliver, Tick, SetBack
<1>2. setbacks \in Nat /\ now \in Nat /\ DispatchInv
  BY WorkStamps DEF DispatchSound
<1>3. setbacks' = 0 => setbacks = 0 /\ now' \in Nat /\ now <= now'
  BY <1>1, <1>2
<1>4. Past'
  <2> SUFFICES ASSUME setbacks' = 0
               PROVE  /\ TablesPast(now', requests, connections, decisions)
                      /\ HandPast(now', pc, item, work, requests, connections)
    BY <1>1 DEF Past
  <2> QED
    BY <1>2, <1>3, LaterPast DEF DispatchSound, Past
<1> QED
  BY <1>1, <1>2, <1>4 DEF Beside, DispatchSound

LEMMA ProcessBeside ==
    ASSUME DispatchSound, (\E e \in EventIds : Take(e)) \/ Kill \/ Restart
    PROVE  Beside'
<1>1. /\ UNCHANGED <<requests, connections, decisions, now, setbacks>>
      /\ pc' \in {"killed", "idle"} \/ (pc' = "decrypt" /\ item'.received = now)
  BY DEF store, environment, Take, Kill, Restart
<1>2. Past'
  <2> SUFFICES ASSUME setbacks = 0
               PROVE  /\ TablesPast(now, requests, connections, decisions)
                      /\ HandPast(now, pc', item', work', requests, connections)
    BY <1>1 DEF Past
  <2>1. TablesPast(now, requests, connections, decisions) /\ now \in Nat
    BY WorkStamps DEF DispatchSound, Past
  <2> QED
    BY <1>1, <2>1 DEF HandPast, TablesPast, Waits, Later, Working, Completed
<1> QED
  BY <1>1, <1>2 DEF Beside, DispatchSound, Session, Joined, Working, Completed

\* The task drops or ends its work, or goes on without having read anything yet.
LEMMA QuietBeside ==
    ASSUME DispatchSound, pc' \in Phases \ Working,
           UNCHANGED <<requests, connections, decisions, now, setbacks>>,
           \/ pc' \in {"idle", "stopped", "killed"}
           \/ pc \in Waits \cup {"authorize"} \cup Later /\ item' = item
    PROVE  Beside'
<1>1. Past'
  <2> SUFFICES ASSUME setbacks = 0
               PROVE  /\ TablesPast(now, requests, connections, decisions)
                      /\ HandPast(now, pc', item', work', requests, connections)
    BY DEF Past
  <2>1. /\ TablesPast(now, requests, connections, decisions)
        /\ HandPast(now, pc, item, work, requests, connections)
    BY DEF DispatchSound, Past
  <2> QED
    BY <2>1 DEF HandPast, Waits, Later, Working, Completed
<1> QED
  BY <1>1 DEF Beside, DispatchSound, Session, Joined, Working, Completed

LEMMA AdmitBeside ==
    ASSUME DispatchSound, Admit
    PROVE  Beside'
<1>1. /\ connections' = connections /\ decisions' = decisions /\ now' = now /\ setbacks' = setbacks
      /\ item' = item /\ pc = "admit" /\ pc' \in {"idle", "authorize"}
  BY DEF Admit, AdmitRequest, Drop, Goto, environment
<1>2. DispatchInv /\ AllRows /\ AllRows' /\ setbacks \in Nat
  BY AdmitIsTransaction, NextRows DEF DispatchSound, DispatchInv
<1>3. \A op \in Operations : requests'[op].seen \in {requests[op].seen, item.received}
  <2> DEFINE o == OperationIn(item)
  <2>1. AdmitRequest(item.event, Wire[item.event], item.nonce, item.received)
    BY DEF Admit, Request
  <2>2. \/ requests' = [requests EXCEPT ![o] = [nonce |-> item.nonce, event |-> item.event,
                message |-> Wire[item.event], received |-> item.received, seen |-> item.received]]
        \/ requests' = [requests EXCEPT ![o].seen = item.received]
        \/ requests' = requests
    BY <2>1 DEF AdmitRequest, insert_new_request, SeenRequest, OperationIn
  <2>3. requests \in [Operations -> RequestRow]
    BY <1>2 DEF AllRows, TypeOK
  <2> HIDE DEF o
  <2> QED
    BY <2>2, <2>3 DEF RequestRow
<1>4. Past'
  <2> SUFFICES ASSUME setbacks = 0
               PROVE  /\ TablesPast(now, requests', connections, decisions)
                      /\ HandPast(now, pc', item, work', requests', connections)
    BY <1>1 DEF Past
  <2>1. /\ TablesPast(now, requests, connections, decisions)
        /\ item.received <= now /\ \A op \in Operations : requests[op].seen <= item.received
    BY <1>1 DEF DispatchSound, Past, HandPast, Waits
  <2>2. item.received \in Nat
    BY <1>2, WorkStamps
  <2>3. \A op \in Operations : requests'[op].seen <= item.received /\ requests'[op].seen <= now
    BY <1>3, <2>1, <2>2 DEF TablesPast
  <2>4. TablesPast(now, requests', connections, decisions)
    BY <2>1, <2>3 DEF TablesPast
  <2> QED
    BY <1>1, <2>1, <2>3, <2>4 DEF HandPast, Waits, Later, Working, Completed
<1> QED
  BY <1>1, <1>2, <1>4 DEF Beside, Session, Joined, Working, Completed

\* The session is read, and becomes what the rest of the work relies on.
LEMMA AuthorizeBeside ==
    ASSUME DispatchSound, Authorize
    PROVE  Beside'
<1>1. /\ UNCHANGED <<requests, connections, decisions, now, setbacks>> /\ item' = item
      /\ pc = "authorize" /\ Request.method # "connect"
  BY DEF Authorize, Drop, Goto, store, environment
<1>2. CASE pc' = "idle"
  BY <1>1, <1>2, QuietBeside DEF Phases, Working
<1>3. CASE pc' # "idle"
  <2>1. PICK c \in Sessions : /\ pc' \in {"execute", "complete"}
                              /\ Request.perms \subseteq connections[c].granted
                              /\ work' = [NoWork EXCEPT !.connection = c, !.status = "active",
                                                        !.updated = connections[c].updated]
    <3>1. PICK s \in Operations : PreparesWork(s)
      BY <1>3 DEF Authorize, Drop, Goto
    <3>2. Sessions = {s} /\ Request.perms \subseteq connections[s].granted
      BY <3>1 DEF PreparesWork
    <3>3. /\ pc' = IF Request.method = "provider" THEN "execute" ELSE "complete"
          /\ work' = [NoWork EXCEPT !.connection = s, !.status = "active",
                                    !.updated = connections[s].updated]
      BY <3>1, <3>2, Zenon DEF Authorize, Goto
    <3> QED
      BY <3>2, <3>3
  <2>2. /\ c \in Operations /\ connections[c].status = "active"
        /\ connections[c].until = 0 \/ connections[c].until >= item.received
    BY DEF Sessions, ActiveConnections, Unexpired
  <2>3. /\ work'.connection = c /\ work'.status = "active" /\ work'.updated = connections[c].updated
        /\ work'.decision = "none" /\ work'.decided = 0
    BY <2>1 DEF NoWork
  <2>4. Session(pc', item, work', connections)
    BY <2>1, <2>2, <2>3 DEF Session, Held, Request
  <2>5. Joined(pc', item, work', connections, decisions)
    BY <1>1 DEF Joined, Request
  <2>6. Past'
    <3> SUFFICES ASSUME setbacks = 0
                 PROVE  /\ TablesPast(now, requests, connections, decisions)
                        /\ HandPast(now, pc', item, work', requests, connections)
      BY <1>1 DEF Past
    <3>1. /\ TablesPast(now, requests, connections, decisions)
          /\ HandPast(now, pc, item, work, requests, connections) /\ now \in Nat
      BY WorkStamps DEF DispatchSound, Past
    <3>2. work'.updated <= now /\ work'.decided <= now
      BY <2>2, <2>3, <3>1 DEF TablesPast
    <3> QED
      BY <1>1, <2>1, <3>1, <3>2 DEF HandPast, Waits, Later, Working, Completed
  <2> QED
    BY <1>1, <2>4, <2>5, <2>6 DEF Beside, DispatchSound
<1> QED
  BY <1>2, <1>3

\* The decision is read in the transaction that may have made it.
LEMMA ConnectBeside ==
    ASSUME DispatchSound, Connect
    PROVE  Beside'
<1> DEFINE op == OperationIn(item)
           con == connections'[op]
           dec == decisions'[op]
<1>1. /\ UNCHANGED <<requests, now, setbacks>> /\ item' = item
      /\ pc = "connect" /\ pc' = "complete" /\ work' = Recorded(dec, con)
  BY DEF Connect, Goto, store, environment, AdmitConnection, Operation, OperationIn, Request
<1>2. DispatchInv /\ AllRows /\ AllRows' /\ setbacks \in Nat
  BY ConnectIsTransaction, NextRows DEF DispatchSound, DispatchInv
<1>3. /\ op \in Operations /\ requests[op].nonce # 0 /\ Wire[item.event] = requests[op].message
      /\ requests[op].message.method = "connect" /\ item.received \in Nat
  BY <1>1, <1>2, InHand, WorkStamps DEF DispatchInv, Hand, Owns, Pursues, Later
<1>4. Moves(item.received)
  <2>1. CASE UNCHANGED store
    BY <2>1, SameMoves DEF store
  <2>2. CASE ~ UNCHANGED store
    BY <1>2, <1>3, <2>2, AdmitConnectionMoves DEF Connect, Operation, OperationIn, Request
  <2> QED
    BY <2>1, <2>2
<1>5. dec.decision # "none"
  <2>1. CASE UNCHANGED store
    <3>1. Answer = "ExactReplay" \/ AdmitConnection(op, authorized_until, item.received)
      BY DEF Connect, Operation, OperationIn, Request
    <3>2. CASE Answer = "ExactReplay"
      BY <2>1, <3>2 DEF Answer, ConnectionAnswer, Decided, store, Operation, OperationIn, Request
    <3>3. CASE AdmitConnection(op, authorized_until, item.received)
      BY <1>2, <1>3, <3>3 DEF AdmitConnection, insert_decision, expected_admission, AllRows, TypeOK
    <3> QED
      BY <3>1, <3>2, <3>3
  <2>2. CASE ~UNCHANGED store
    <3>1. AdmitConnection(op, authorized_until, item.received)
      BY <2>2 DEF Connect, Operation, OperationIn, Request
    <3> QED
      BY <1>2, <1>3, <3>1 DEF AdmitConnection, insert_decision, expected_admission, AllRows, TypeOK
  <2> QED
    BY <2>1, <2>2
<1>6. dec \in DecisionRow /\ con \in ConnectionRow
      /\ Own(op, requests[op], con, dec, challenges'[op])
  BY <1>1, <1>2, <1>3 DEF AllRows, TypeOK, RowsAgree, Rows
<1> HIDE DEF con, dec, op
<1>7. /\ work'.decision = dec.decision /\ work'.connection = dec.connection
      /\ work'.status = IF dec.connection = None THEN "none" ELSE con.status
      /\ work'.decided = dec.decided /\ work'.updated = 0
  BY <1>1, <1>6, RecordedTyped
<1>8. AnswersWith(work', con, dec, op)
  <2>1. Refused(op, con, dec) \/ Connected(op, requests[op], con, dec)
    BY <1>3, <1>5, <1>6 DEF Own
  <2>2. op # None
    BY <1>3, Nip46Assumption
  <2>3. CASE Refused(op, con, dec)
    BY <1>7, <2>3 DEF Refused, AnswersWith
  <2>4. CASE Connected(op, requests[op], con, dec)
    BY <1>7, <2>2, <2>4 DEF Connected, PendingRow, DeniedRow, ActiveRow, ExpiredRow, AnswersWith, Held
  <2> QED
    BY <2>1, <2>3, <2>4
<1>9. Joined(pc', item', work', connections', decisions')
  BY <1>1, <1>8 DEF Joined, Completed, con, dec, op
<1>10. Session(pc', item', work', connections')
  BY <1>1, <1>3 DEF Session
<1>11. Past'
  <2> SUFFICES ASSUME setbacks = 0
               PROVE  /\ TablesPast(now, requests, connections', decisions')
                      /\ HandPast(now, pc', item, work', requests, connections')
    BY <1>1 DEF Past
  <2>1. /\ TablesPast(now, requests, connections, decisions)
        /\ HandPast(now, pc, item, work, requests, connections) /\ now \in Nat
    BY WorkStamps DEF DispatchSound, Past
  <2>2. item.received <= now /\ \A o \in Operations : requests'[o].seen <= now
    BY <1>1, <2>1 DEF HandPast, TablesPast, Later
  <2>3. TablesPast(now, requests', connections', decisions')
    BY <1>2, <1>3, <1>4, <2>1, <2>2, TablesPastKept
  <2>4. work'.decided <= now /\ work'.updated <= now
    BY <1>3, <1>7, <2>1, <2>3 DEF TablesPast, dec
  <2> QED
    BY <1>1, <2>1, <2>3, <2>4 DEF HandPast, Waits, Later, Working, Completed
<1> QED
  BY <1>1, <1>2, <1>9, <1>10, <1>11 DEF Beside

LEMMA CompleteBeside ==
    ASSUME DispatchSound, Complete
    PROVE  Beside'
<1>1. /\ UNCHANGED <<requests, connections, decisions, now, setbacks>> /\ item' = item
      /\ pc = "complete" /\ pc' \in {"sign", "stopped"}
  BY DEF Complete, Stop, Goto, store, environment
<1>2. CASE pc' = "stopped"
  BY <1>1, <1>2, QuietBeside DEF Phases, Working
<1>3. CASE pc' = "sign"
  <2>1. /\ work' = [work EXCEPT !.completed = now]
        /\ work.decision = "pending_approval" \/ CompletionBound
    BY <1>3 DEF Complete, Stop, Goto
  <2>2. work \in Work /\ DispatchInv
    BY DEF DispatchSound, DispatchInv, DispatchTypeOK
  <2>3. /\ work'.completed = now /\ work'.connection = work.connection
        /\ work'.status = work.status /\ work'.updated = work.updated
        /\ work'.decision = work.decision /\ work'.decided = work.decided
    BY <2>1, <2>2 DEF Work
  <2>4. Session(pc', item', work', connections')
    <3>1. Session("complete", item, work, connections)
      BY <1>1 DEF DispatchSound
    <3> QED
      BY <1>1, <2>3, <3>1 DEF Session, Working
  <2>5. Joined(pc', item', work', connections', decisions')
    <3>1. Joined("complete", item, work, connections, decisions)
      BY <1>1 DEF DispatchSound
    <3>2. /\ work.decision = "allowed" => work.status = "active"
          /\ work.decision = "denied" => work.connection = None
      BY <2>1 DEF CompletionBound
    <3> QED
      BY <1>1, <2>3, <3>1, <3>2 DEF Joined, AnswersWith
  <2>6. Past'
    <3> SUFFICES ASSUME setbacks = 0
                 PROVE  /\ TablesPast(now, requests, connections, decisions)
                        /\ HandPast(now, pc', item, work', requests, connections)
      BY <1>1 DEF Past
    <3>1. /\ TablesPast(now, requests, connections, decisions)
          /\ HandPast(now, "complete", item, work, requests, connections) /\ now \in Nat
      BY <1>1, WorkStamps DEF DispatchSound, Past
    <3>2. Holds("complete", item)
      BY <1>1, <2>2 DEF DispatchInv, Hand
    <3>3. OperationIn(item) \in Operations
      BY <3>2, InHand DEF Later
    <3>4. connections[OperationIn(item)].updated <= now
      BY <3>1, <3>3 DEF TablesPast
    <3> QED
      BY <1>3, <2>3, <3>1, <3>4 DEF HandPast, Waits, Later, Working, Completed
  <2> QED
    BY <1>1, <2>4, <2>5, <2>6 DEF Beside, DispatchSound
<1> QED
  BY <1>1, <1>2, <1>3

\* The provider and the signer are called with what was read.
LEMMA CallBeside ==
    ASSUME DispatchSound, Execute \/ Sign
    PROVE  Beside'
<1>1. /\ UNCHANGED <<requests, connections, decisions, now, setbacks>> /\ item' = item
      /\ work' = work
      /\ \/ pc = "execute" /\ pc' = "complete" /\ Wire[item.event].method = "provider"
         \/ pc = "sign" /\ pc' = "commit"
  BY DEF Execute, Sign, Goto, store, environment, DispatchSound, DispatchInv, Hand, Pursues
<1>2. Past'
  <2> SUFFICES ASSUME setbacks = 0
               PROVE  /\ TablesPast(now, requests, connections, decisions)
                      /\ HandPast(now, pc', item, work, requests, connections)
    BY <1>1 DEF Past
  <2>1. /\ TablesPast(now, requests, connections, decisions)
        /\ HandPast(now, pc, item, work, requests, connections)
    BY DEF DispatchSound, Past
  <2> QED
    BY <1>1, <2>1 DEF HandPast, Waits, Later, Working, Completed
<1>3. Session(pc', item, work, connections)
  BY <1>1 DEF DispatchSound, Session, Working
<1>4. Joined(pc', item, work, connections, decisions)
  BY <1>1 DEF DispatchSound, Joined, Completed
<1> QED
  BY <1>1, <1>2, <1>3, <1>4 DEF Beside, DispatchSound

LEMMA CommitBeside ==
    ASSUME DispatchSound, Commit
    PROVE  Beside'
<1> DEFINE op == OperationIn(item)
           t == work.completed
<1>1. /\ UNCHANGED <<requests, now, setbacks>> /\ pc = "commit" /\ pc' = "idle"
      /\ CommitPending(op, t) \/ CommitResponse(op, work.connection, work.decision, t)
  BY DEF Commit, CommitPending, CommitResponse, Drop, Goto, environment, Operation, OperationIn, Request
<1>2. DispatchInv /\ AllRows /\ t \in Nat /\ setbacks \in Nat /\ now \in Nat
  BY WorkStamps DEF DispatchSound, DispatchInv
<1>3. op \in Operations /\ work.connection \in Operations \cup {None}
  BY <1>1, <1>2, InHand DEF DispatchInv, DispatchTypeOK, Work, Hand, Later
<1> HIDE DEF op, t
<1>4. Moves(t)
  BY <1>1, <1>2, <1>3, CommitMoves
<1>5. Past'
  <2> SUFFICES ASSUME setbacks = 0
               PROVE  /\ TablesPast(now, requests', connections', decisions')
                      /\ HandPast(now, pc', item', work', requests', connections')
    BY <1>1 DEF Past
  <2>1. /\ TablesPast(now, requests, connections, decisions) /\ t <= now
    BY <1>1 DEF DispatchSound, Past, HandPast, Completed, t
  <2>2. \A o \in Operations : requests'[o].seen <= now
    BY <1>1, <2>1 DEF TablesPast
  <2>3. TablesPast(now, requests', connections', decisions')
    BY <1>2, <1>4, <2>1, <2>2, TablesPastKept
  <2> QED
    BY <1>1, <2>3 DEF HandPast, Waits, Later, Working, Completed
<1> QED
  BY <1>1, <1>2, <1>5 DEF Beside, Session, Joined, Working, Completed

LEMMA SoundStep ==
    ASSUME DispatchSound, [DispatchNext]_vars
    PROVE  DispatchSound'
<1>1. DispatchInv'
  BY DispatchStep DEF DispatchSound
<1>2. ASSUME Decrypt \/ AdmitRefused \/ AmbiguousSession \/ AuthorizeConnect \/ ConnectRateLimited
             \/ ConnectRefused \/ ExecuteFails \/ SignFails \/ CommitRefused
      PROVE  Beside'
  <2>1. /\ UNCHANGED <<requests, connections, decisions, now, setbacks>> /\ item' = item
        /\ pc \in Waits \cup {"authorize"} \cup Later /\ pc' \in Phases \ Working
    BY <1>2 DEF Decrypt, AdmitRefused, AmbiguousSession, AuthorizeConnect, ConnectRateLimited,
                ConnectRefused, ExecuteFails, SignFails, CommitRefused, Goto, Stop, Drop, Retry,
                store, environment, Phases, Working, Waits, Later
  <2> QED
    BY <2>1, QuietBeside
<1>3. Beside'
  BY <1>2, OperatorBeside, EnvironmentBeside, ProcessBeside, AdmitBeside, AuthorizeBeside,
     ConnectBeside, CompleteBeside, CallBeside, CommitBeside DEF DispatchNext, Dispatch
<1> QED
  BY <1>1, <1>3 DEF DispatchSound, Beside

LEMMA SoundStart ==
    ASSUME DispatchInit
    PROVE  DispatchSound
<1>1. DispatchInv
  BY DispatchStart
<1>2. \A op \in Operations :
         requests[op].seen = 0 /\ connections[op].updated = 0 /\ decisions[op].decided = 0
  BY DEF DispatchInit, Init, NoRequest, NoConnection, NoDecision
<1>3. now = 1 /\ pc = "idle" /\ setbacks = 0
  BY DEF DispatchInit
<1>4. TablesPast(now, requests, connections, decisions)
  BY <1>2, <1>3 DEF TablesPast
<1> QED
  BY <1>1, <1>3, <1>4 DEF DispatchSound, Past, HandPast, Session, Joined, Waits, Later, Working,
                          Completed

LEMMA DispatchSoundCorrect == DispatchSpec => []DispatchSound
BY SoundStart, SoundStep, PTL DEF DispatchSpec

-----------------------------------------------------------------------------
(* What is released, and what stops the task.                              *)

LEMMA OnlyCommitAnswers ==
    ASSUME [DispatchNext]_vars
    PROVE  responses' = responses \/ Commit
BY OtherwiseUnchanged, OperatorKeeps DEF Admit, AdmitRequest, Connect, AdmitConnection, store

\* A session that was revoked, logged out, expired or belongs to somebody else releases no answer,
\* whenever the operator acts between the authorization and the commit (prepare_myc_nip46_work,
\* verify_session).
THEOREM ReleasedUnderSessionCorrect == DispatchSpec => ReleasedUnderSession
<1> DEFINE Released(op) ==
              responses'[op].kind = "terminal" /\ responses[op].kind # "terminal"
              /\ Method(op) # "connect" =>
                LET c == responses'[op].connection IN
                /\ ClientOf(c) = ClientOf(op)
                /\ connections[c].status = "active"
                /\ Unexpired(c, requests[op].received)
                /\ requests[op].message.perms \subseteq connections[c].granted
<1>1. ASSUME DispatchSound, [DispatchNext]_vars, NEW op \in Operations
      PROVE  Released(op)
  <2> SUFFICES ASSUME responses'[op].kind = "terminal", responses[op].kind # "terminal",
                      Method(op) # "connect"
               PROVE  LET c == responses'[op].connection IN
                      /\ ClientOf(c) = ClientOf(op)
                      /\ connections[c].status = "active"
                      /\ Unexpired(c, requests[op].received)
                      /\ requests[op].message.perms \subseteq connections[c].granted
    OBVIOUS
  <2>1. Commit
    BY <1>1, OnlyCommitAnswers
  <2> DEFINE o == OperationIn(item)
             c == work.connection
  <2>2. DispatchInv /\ AllRows /\ Holds("commit", item) /\ Owns("commit", item, requests)
        /\ Session("commit", item, work, connections)
    BY <1>1, <2>1 DEF DispatchSound, DispatchInv, Hand, Commit
  <2>3. o \in Operations
    BY <2>2, InHand DEF Later
  <2>4. \/ CommitPending(o, work.completed)
        \/ CommitResponse(o, c, work.decision, work.completed)
    BY <2>1 DEF Commit, Operation, OperationIn, Request
  <2>5. PICK row : responses' = [responses EXCEPT ![o] = row]
    BY <2>4 DEF CommitPending, CommitResponse
  <2> HIDE DEF o, c
  <2>6. op = o
    BY <2>3, <2>5 DEF DispatchInv
  <2>7. CommitResponse(o, c, work.decision, work.completed)
    <3>1. ASSUME CommitPending(o, work.completed) PROVE FALSE
      <4>1. responses'[o].kind = "pending"
        BY <2>2, <2>3, <3>1 DEF CommitPending, AllRows, TypeOK
      <4> QED
        BY <2>6, <4>1
    <3> QED
      BY <2>4, <3>1
  <2>8. /\ responses'[o].connection = c /\ BoundWork(o, c, work.decision)
        /\ ResponseAnswer(o, c, work.decision, work.completed) = "Committed"
    BY <2>2, <2>3, <2>7 DEF CommitResponse, AllRows, TypeOK
  <2>9. c # None /\ ClientOf(c) = ClientOf(o)
    BY <2>6, <2>8 DEF BoundWork
  <2>10. connections[c].status = "active"
    BY <2>8, <2>9 DEF ResponseAnswer, verify_session
  <2>11. requests[o].message = Wire[item.event] /\ requests[o].received = item.received
    BY <2>2 DEF Owns, Later, o
  <2>12. /\ connections[c].until = 0 \/ connections[c].until >= item.received
         /\ Wire[item.event].perms \subseteq connections[c].granted
    BY <2>2, <2>6, <2>10, <2>11 DEF Session, Working, Method, c
  <2> QED
    BY <2>6, <2>8, <2>9, <2>10, <2>11, <2>12 DEF Unexpired
<1>2. ASSUME DispatchSound, [DispatchNext]_vars
      PROVE  [\A op \in Operations : Released(op)]_vars
  BY <1>1, <1>2
<1> QED
  BY <1>2, DispatchSoundCorrect, PTL DEF DispatchSpec, ReleasedUnderSession

Explained ==
    \/ Cardinality(Sessions) > 1
    \/ Request.method = "connect" /\ ~(Request.perms \subseteq Ceiling)
    \/ OperatorIntervened
    \/ ~HasRoom
    \/ setbacks > 0

\* Admission at the reception never meets a record that was seen later.
LEMMA AdmitRefusedExplained ==
    ASSUME DispatchSound, AdmitRefused
    PROVE  setbacks > 0
<1> SUFFICES ASSUME setbacks = 0 PROVE FALSE
  BY DEF DispatchSound
<1>1. DispatchInv /\ AllRows /\ pc = "admit" /\ Holds("admit", item)
  BY DEF DispatchSound, DispatchInv, Hand, AdmitRefused
<1>2. Operation \in Operations
  BY <1>1, InHand DEF Waits, Operation, OperationIn, Request
<1>3. requests[Operation].seen <= item.received
  BY <1>1, <1>2 DEF DispatchSound, Past, HandPast, Waits
<1>4. requests[Operation].seen \in Nat /\ item.received \in Nat
  BY <1>1, <1>2, StampsTyped, WorkStamps
<1> QED
  BY <1>3, <1>4 DEF AdmitRefused

\* The connection record of the client's own request is only refused for its permissions.
LEMMA ConnectRefusedExplained ==
    ASSUME DispatchSound, ConnectRefused
    PROVE  Request.method = "connect" /\ ~(Request.perms \subseteq Ceiling)
<1> DEFINE op == Operation
<1>1. DispatchInv /\ AllRows /\ pc = "connect" /\ Answer = "Binding"
  BY DEF DispatchSound, DispatchInv, ConnectRefused
<1>2. /\ op \in Operations /\ item.received \in 1..Horizon /\ item.received \in Nat
      /\ requests[op].message = Request /\ requests[op].nonce # 0
      /\ requests[op].received = item.received /\ Request.method = "connect"
      /\ ClientOf(op) = Request.client
  <2>1. Holds("connect", item) /\ Owns("connect", item, requests) /\ Request.method = "connect"
    BY <1>1 DEF DispatchInv, Hand, Pursues, Request
  <2>2. op = OperationIn(item) /\ Wire[item.event] = Request /\ ClientOf(op) = Request.client
    BY DEF Operation, OperationIn, Request, OperationOf, ClientOf
  <2>3. op \in Operations /\ item.nonce # 0 /\ item.received \in 1..Horizon
    BY <2>1, <2>2, InHand DEF Later
  <2>4. item.received \in Nat
    BY <1>1, WorkStamps
  <2> QED
    BY <2>1, <2>2, <2>3, <2>4 DEF Owns, Later
<1>3. Own(op, requests[op], connections[op], decisions[op], challenges[op])
  BY <1>1, <1>2 DEF AllRows, RowsAgree, Rows
<1> SUFFICES ASSUME Request.perms \subseteq Ceiling PROVE FALSE
  BY <1>2
<1> HIDE DEF op
<1>4. admits_connection_request(op, authorized_until, item.received)
  <2>1. AuthorizedLifetime \in Nat
    BY Nip46Assumption
  <2>2. admits_authorized_until(item.received, item.received + AuthorizedLifetime) \/ ~ChallengesEnabled
    BY <1>2, <2>1 DEF admits_authorized_until, ChallengesEnabled
  <2>3. ~ChallengesEnabled => admits_authorized_until(item.received, 0)
    BY DEF admits_authorized_until
  <2>4. expected_admission(ClientOf(op)) = "trusted" =>
            ClientOf(op) \in Trusted
    BY DEF expected_admission
  <2>5. expected_admission(ClientOf(op)) = "explicit_approval" => ClientOf(op) \notin Trusted
    BY DEF expected_admission
  <2>6. expected_admission(ClientOf(op)) \in {"denied", "trusted", "explicit_approval"}
    BY DEF expected_admission
  <2> QED
    BY <1>2, <2>2, <2>3, <2>4, <2>5, <2>6 DEF admits_connection_request, authorized_until
<1>5. Admitted(op) /\ Method(op) = "connect" /\ ~(item.received < requests[op].received)
  BY <1>2 DEF Admitted, Method
<1>6. ASSUME Decided(op)
      PROVE  /\ admission_policy(decisions[op].reason) = expected_admission(ClientOf(op))
             /\ decision_record(decisions[op])
  <2>1. decisions[op].challenged = FALSE
    BY <1>2, <1>3, <1>6 DEF Own, Decided
  <2>2. CASE Refused(op, connections[op], decisions[op])
    <3>1. /\ decisions[op].reason = "policy_denied" /\ decisions[op].connection = None
          /\ expected_admission(ClientOf(op)) = "denied"
      BY <2>2, Nip46Assumption DEF Refused, expected_admission
    <3>2. admission_policy("policy_denied") = "denied"
      BY DEF admission_policy
    <3> QED
      BY <2>1, <3>1, <3>2 DEF decision_record
  <2>3. CASE Connected(op, requests[op], connections[op], decisions[op])
    <3>1. /\ ClientOf(op) \notin Denied /\ decisions[op].connection = op
          /\ IF ClientOf(op) \in Trusted THEN decisions[op].reason = "trusted_client"
             ELSE decisions[op].reason \in {"explicit_approval_required", "operator_approved",
                                           "operator_denied"}
      BY <2>3 DEF Connected, PendingRow, DeniedRow
    <3>2. /\ admission_policy("trusted_client") = "trusted"
          /\ \A r \in {"explicit_approval_required", "operator_approved", "operator_denied"} :
                admission_policy(r) = "explicit_approval"
      BY DEF admission_policy
    <3>3. expected_admission(ClientOf(op)) =
              IF ClientOf(op) \in Trusted THEN "trusted" ELSE "explicit_approval"
      BY <3>1 DEF expected_admission
    <3>4. op # None
      BY <1>2, Nip46Assumption
    <3>5. decision_record(decisions[op])
      BY <2>1, <2>3, <3>1, <3>4 DEF Connected, PendingRow, DeniedRow, ActiveRow, ExpiredRow,
                                    decision_record
    <3> QED
      BY <3>1, <3>2, <3>3, <3>5
  <2> QED
    BY <1>2, <1>3, <1>6, <2>2, <2>3 DEF Own, Decided
<1>7. Answer # "Binding"
  BY <1>4, <1>5, <1>6 DEF Answer, ConnectionAnswer, op
<1> QED
  BY <1>1, <1>7

\* A completion is bound unless the operator ended the new session or denied it.
LEMMA CompleteExplained ==
    ASSUME DispatchSound, Complete, pc' = "stopped", setbacks = 0
    PROVE  OperatorIntervened
<1> DEFINE op == OperationIn(item)
<1>1. /\ DispatchInv /\ AllRows /\ pc = "complete" /\ ~CompletionBound
      /\ Session("complete", item, work, connections)
      /\ Joined("complete", item, work, connections, decisions)
      /\ HandPast(now, "complete", item, work, requests, connections)
  BY DEF DispatchSound, DispatchInv, Past, Complete, Goto, Stop
<1>2. Holds("complete", item) /\ Owns("complete", item, requests)
  BY <1>1 DEF DispatchInv, Hand
<1>3. op \in Operations /\ op = Operation /\ Wire[item.event] = Request
  BY <1>2, InHand DEF Later, Operation, OperationIn, Request
<1>4. now >= requests[Operation].received /\ now >= work.updated /\ now >= work.decided
  <2>1. requests[Operation].received = item.received /\ item.received <= now
        /\ work.updated <= now /\ work.decided <= now
    BY <1>1, <1>2, <1>3 DEF Owns, HandPast, Later, Working
  <2>2. /\ now \in Nat /\ item.received \in Nat /\ work.updated \in Nat /\ work.decided \in Nat
    BY <1>1, WorkStamps
  <2> QED
    BY <2>1, <2>2
<1> HIDE DEF op
<1>5. \/ work.decision = "allowed" /\ work.status # "active"
      \/ work.decision = "denied" /\ work.connection # None
  BY <1>1, <1>4 DEF CompletionBound
<1>6. Request.method = "connect"
  BY <1>1, <1>3, <1>5 DEF Session, Working
<1>7. AnswersWith(work, connections[op], decisions[op], op)
  BY <1>1, <1>3, <1>6 DEF Joined, op
<1>8. connections[op].status = "expired" \/ decisions[op].reason = "operator_denied"
  BY <1>5, <1>7 DEF AnswersWith, Held
<1> QED
  BY <1>3, <1>6, <1>8 DEF OperatorIntervened

\* A commit finds what was read, unless the operator changed it.
LEMMA CommitRefusedExplained ==
    ASSUME DispatchSound, CommitRefused, HasRoom, setbacks = 0
    PROVE  OperatorIntervened
<1> DEFINE op == OperationIn(item)
           c == work.connection
           t == work.completed
<1>1. /\ DispatchInv /\ AllRows /\ pc = "commit" /\ ~Commits
      /\ Session("commit", item, work, connections)
      /\ Joined("commit", item, work, connections, decisions)
      /\ HandPast(now, "commit", item, work, requests, connections)
  BY DEF DispatchSound, DispatchInv, Past, CommitRefused
<1>2. Holds("commit", item) /\ Owns("commit", item, requests)
      /\ Pursues("commit", item, work, executed, responses)
  BY <1>1 DEF DispatchInv, Hand
<1>3. op \in Operations /\ op = Operation /\ Wire[item.event] = Request /\ op # None
  BY <1>2, InHand, Nip46Assumption DEF Later, Operation, OperationIn, Request
<1>4. /\ requests[op].message = Request /\ requests[op].received = item.received
      /\ requests[op].nonce # 0 /\ responses[op].kind = "none"
      /\ item.received <= t /\ work.updated <= t /\ work.decided <= t
  BY <1>1, <1>2, <1>3, InHand DEF Owns, Pursues, HandPast, Later, Completed
<1>5. /\ item.received \in Nat /\ t \in Nat /\ work.updated \in Nat /\ work.decided \in Nat
      /\ connections[op].updated \in Nat
  BY <1>1, <1>3, WorkStamps, StampsTyped
<1> SUFFICES ASSUME ~OperatorIntervened PROVE FALSE
  OBVIOUS
<1>6. c # None => connections[c].status = work.status
  BY DEF OperatorIntervened
<1> HIDE DEF op, c, t
<1>7. ASSUME verify_connect_decision(op, c, work.decision), verify_session(c, t),
             work.decision # "pending_approval"
      PROVE  FALSE
  <2>1. ~(t < requests[op].received)
    BY <1>4, <1>5
  <2>2. ResponseAnswer(op, c, work.decision, t) = "Committed"
    BY <1>4, <1>7, <2>1 DEF ResponseAnswer
  <2> QED
    BY <1>1, <1>3, <1>7, <2>2 DEF Commits, c, t
<1>8. CASE Request.method # "connect"
  <2>1. /\ c \in Operations /\ work.decision = "none" /\ work.status = "active"
        /\ connections[c].status = "active" => connections[c].updated = work.updated
    BY <1>1, <1>3, <1>8 DEF Session, Working, c
  <2>2. verify_connect_decision(op, c, work.decision)
    BY <1>4, <1>8 DEF verify_connect_decision, Method
  <2>3. verify_session(c, t)
    <3>1. c # None
      BY <2>1, Nip46Assumption
    <3>2. connections[c].status = "active" /\ connections[c].updated = work.updated
      BY <1>6, <2>1, <3>1
    <3> QED
      BY <1>4, <1>5, <3>2 DEF verify_session
  <2> QED
    BY <1>7, <2>1, <2>2, <2>3
<1>9. CASE Request.method = "connect"
  <2>1. /\ AnswersWith(work, connections[op], decisions[op], op)
        /\ work.decision = "allowed" => work.status = "active"
        /\ work.decision = "denied" => work.connection = None
        /\ work.decision = "allowed" /\ connections[op].status = "active" =>
              connections[op].updated <= t
    BY <1>1, <1>3, <1>9 DEF Joined, HandPast, Completed, op, t
  <2>2. CASE work.decision = "pending_approval"
    <3>1. connections[op].status = "pending"
      BY <1>3, <1>6, <2>1, <2>2 DEF AnswersWith, c
    <3>2. Own(op, requests[op], connections[op], decisions[op], challenges[op])
      BY <1>1, <1>3 DEF AllRows, RowsAgree, Rows
    <3>3. decisions[op].decision = "pending_approval"
          /\ decisions[op].reason = "explicit_approval_required"
      BY <1>4, <1>9, <3>1, <3>2 DEF Own, Refused, Connected, PendingRow, DeniedRow, ActiveRow,
                                    ExpiredRow
    <3>4. work.completed >= work.decided
      BY <1>4, <1>5 DEF t
    <3> QED
      BY <1>1, <1>3, <2>2, <3>1, <3>3, <3>4 DEF Commits, require_pending_binding
  <2>3. CASE work.decision = "allowed"
    <3>1. c = op /\ decisions[op].decision = "allowed" /\ decisions[op].connection = op
      BY <2>1, <2>3 DEF AnswersWith, c
    <3>2. connections[op].status = "active"
      BY <1>3, <1>6, <2>1, <2>3, <3>1
    <3>3. verify_session(c, t)
      BY <1>5, <2>1, <2>3, <3>1, <3>2 DEF verify_session
    <3> QED
      BY <1>7, <2>3, <3>1, <3>3 DEF verify_connect_decision
  <2>4. CASE work.decision = "denied"
    <3>1. c = None /\ decisions[op].decision = "denied" /\ decisions[op].connection = c
      BY <2>1, <2>4 DEF AnswersWith, c
    <3> QED
      BY <1>7, <2>4, <3>1 DEF verify_connect_decision, verify_session
  <2> QED
    BY <2>1, <2>2, <2>3, <2>4 DEF AnswersWith
<1> QED
  BY <1>8, <1>9

\* Without a clock that was set back, a full outbox, a client with two sessions or one that asks
\* for more than the ceiling, only the operator's own intervention ends the dispatch task: none of
\* the checks between reception and commit trips by itself (process, run_provider_dispatch).
THEOREM StopsExplainedCorrect == DispatchSpec => StopsExplained
<1>1. ASSUME DispatchSound, [DispatchNext]_vars, pc' = "stopped", pc # "stopped"
      PROVE  Explained
  <2>0. setbacks \in Nat
    BY <1>1 DEF DispatchSound
  <2>1. AdmitRefused \/ AmbiguousSession \/ ConnectRefused \/ Complete \/ CommitRefused
    <3>1. CASE Dispatch
      BY <1>1, <3>1 DEF Dispatch, Decrypt, Admit, Authorize, AuthorizeConnect, Connect,
         ConnectRateLimited, Execute, ExecuteFails, Sign, SignFails, Commit, Goto, Drop, Retry
    <3>2. CASE Operator
      BY <1>1, <3>2, OperatorKeeps DEF dispatch
    <3>3. CASE (\E e \in EventIds : Take(e)) \/ (\E op \in Operations : Deliver(op)) \/ Tick
               \/ SetBack \/ Kill \/ Restart \/ UNCHANGED vars
      BY <1>1, <3>3 DEF Take, Deliver, Tick, SetBack, Kill, Restart, dispatch, vars
    <3> QED
      BY <1>1, <3>1, <3>2, <3>3 DEF DispatchNext
  <2>2. CASE AdmitRefused
    BY <1>1, <2>2, AdmitRefusedExplained DEF Explained
  <2>3. CASE AmbiguousSession
    BY <2>3 DEF AmbiguousSession, Explained
  <2>4. CASE ConnectRefused
    BY <1>1, <2>4, ConnectRefusedExplained DEF Explained
  <2>5. CASE Complete
    BY <1>1, <2>0, <2>5, CompleteExplained DEF Explained
  <2>6. CASE CommitRefused
    BY <1>1, <2>0, <2>6, CommitRefusedExplained DEF Explained
  <2> QED
    BY <2>1, <2>2, <2>3, <2>4, <2>5, <2>6
<1>2. ASSUME DispatchSound, [DispatchNext]_vars
      PROVE  [pc' = "stopped" /\ pc # "stopped" => Explained]_vars
  BY <1>1, <1>2
<1> QED
  BY <1>2, DispatchSoundCorrect, PTL DEF DispatchSpec, StopsExplained, Explained
=============================================================================
