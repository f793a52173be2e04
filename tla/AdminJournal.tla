----------------------------- MODULE AdminJournal -----------------------------
(***************************************************************************)
(* The journal of administrative mutations (src/src/state_admin.rs).  An   *)
(* operation identifier is bound to one request; the row is Prepared before*)
(* the effect and Completed, with the response, after it.  Completed rows  *)
(* expire and are pruned by the next admission; Prepared rows never are.   *)
(*                                                                         *)
(* The operators below are the transactions' bodies: what prepare_operation*)
(* answers, and the journal that prepare_operation and complete_operation  *)
(* leave behind.  ControlPlane puts them into the admin handlers.          *)
(***************************************************************************)
EXTENDS Naturals, FiniteSets

CONSTANTS
    OperationIds,    \* operation identifiers that callers choose
    Requests,        \* canonical requests; a request determines its route
    CompletedLimit,  \* MYC_ADMIN_OPERATION_COMPLETED_LIMIT, 4096
    PreparedLimit,   \* MYC_ADMIN_OPERATION_PREPARED_LIMIT, 128
    Retention        \* MycAdminOperationJournalPolicy, in ticks

ASSUME JournalAssumption ==
    /\ CompletedLimit \in Nat \ {0} /\ PreparedLimit \in Nat \ {0}
    /\ PreparedLimit <= CompletedLimit
    /\ Retention \in Nat \ {0}
    /\ IsFiniteSet(OperationIds)

VARIABLE journal     \* myc_admin_operations

NoRow == [state |-> "none"]

Prepared(request, now) == [state |-> "prepared", request |-> request, prepared_at |-> now]

Completed(row, response, now) ==
    [state |-> "completed", request |-> row.request, prepared_at |-> row.prepared_at,
     response |-> response, completed_at |-> now, expires_at |-> now + Retention]

RowsIn(j, state) == {id \in OperationIds : j[id].state = state}

\* READ_COUNTS_SQL.
read_counts(j) == [completed |-> Cardinality(RowsIn(j, "completed")),
                   prepared |-> Cardinality(RowsIn(j, "prepared"))]

\* Faulty variant: unresolved rows expire with the others.
prune_all(now) ==
    [id \in OperationIds |->
        IF \/ journal[id].state = "completed" /\ journal[id].expires_at <= now
           \/ journal[id].state = "prepared" /\ journal[id].prepared_at + Retention <= now
        THEN NoRow ELSE journal[id]]

\* prune_expired: PRUNE_LIMIT is the number of completed rows there can be.
prune_expired(now) ==
    [id \in OperationIds |->
        IF journal[id].state = "completed" /\ journal[id].expires_at <= now
        THEN NoRow ELSE journal[id]]

\* Faulty variant: the completed rows alone are counted.
AdmissionCompletedOnly(j, id, request) ==
    CASE j[id].state # "none" /\ j[id].request # request -> "conflict"
      [] j[id].state = "prepared" /\ j[id].request = request -> "outcome_unknown"
      [] j[id].state = "completed" /\ j[id].request = request -> "replay"
      [] j[id].state = "none" ->
            IF \/ read_counts(j).completed >= CompletedLimit
               \/ read_counts(j).prepared >= PreparedLimit
            THEN "exhausted" ELSE "prepared"

\* Faulty variant: the identifier alone decides, not the request it came with.
AdmissionById(j, id, request) ==
    CASE j[id].state = "prepared" -> "outcome_unknown"
      [] j[id].state = "completed" -> "replay"
      [] j[id].state = "none" ->
            IF \/ read_counts(j).completed + read_counts(j).prepared >= CompletedLimit
               \/ read_counts(j).prepared >= PreparedLimit
            THEN "exhausted" ELSE "prepared"

\* prepare_operation's answer about a journal that was pruned.
Admission(j, id, request) ==
    CASE j[id].state # "none" /\ j[id].request # request -> "conflict"
      [] j[id].state = "prepared" /\ j[id].request = request -> "outcome_unknown"
      [] j[id].state = "completed" /\ j[id].request = request -> "replay"
      [] j[id].state = "none" ->
            IF \/ read_counts(j).completed + read_counts(j).prepared >= CompletedLimit
               \/ read_counts(j).prepared >= PreparedLimit
            THEN "exhausted" ELSE "prepared"

\* complete_operation's answer; a caller always completes what it prepared.
Completion(j, id, request, prepared_at, response) ==
    CASE j[id].state = "completed" ->
            IF j[id].request = request /\ j[id].response = response
            THEN "replay" ELSE "conflict"
      [] j[id].state = "prepared" ->
            IF j[id].request # request \/ j[id].prepared_at # prepared_at THEN "conflict"
            ELSE IF read_counts(j).completed >= CompletedLimit THEN "exhausted"
            ELSE "completed"
      [] OTHER -> "binding"

=============================================================================
