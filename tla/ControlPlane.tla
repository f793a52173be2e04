----------------------------- MODULE ControlPlane -----------------------------
(***************************************************************************)
(* The administrative mutations of a running daemon: the handlers of       *)
(* src/src/runtime_graph.rs over the journal (AdminJournal) and the        *)
(* discovery state (Discovery).  Calls run concurrently, each in the steps *)
(* between which the handler awaits: a connection or challenge mutation is *)
(* one transaction; a backup prepares, captures, completes; the discovery  *)
(* routes prepare, have the provider sign, and complete, a publication     *)
(* together with its commit.  Replies are lost, calls are repeated, the    *)
(* process crashes between any two steps and comes back through recovery,  *)
(* possibly under a configuration that was applied meanwhile.              *)
(*                                                                         *)
(* What a connection mutation does to its rows is Nip46State's business;   *)
(* here it takes effect or is refused.                                     *)
(***************************************************************************)
EXTENDS AdminJournal, Discovery, Sequences, SequencesExt

CONSTANTS
    Callers,         \* connections to the admin socket
    Route,           \* the route of each request
    ExpectedGeneration, \* expected_generation of each request
    MaxTime,         \* bound of the clock
    MaxCalls,        \* bound: calls
    MaxRestarts,     \* bound: crashes or stops, each followed by a start
    MaxGenerations   \* bound: applied configurations

Routes == {"connection", "backup", "render", "publish"}

ASSUME ControlPlaneAssumption ==
    /\ Route \in [Requests -> Routes]
    /\ ExpectedGeneration \in [Requests -> Nat]
    /\ {MaxTime, MaxCalls, MaxRestarts} \subseteq Nat /\ MaxGenerations \in Nat \ {0}

VARIABLES
    clock,
    generation,      \* the latest configuration generation
    calls,           \* what each caller's call is doing
    applied,         \* history: the effects of each operation, in order, and
                     \* when the journal may forget them
    replies,         \* history: success responses that were sent
    budget

controlVars == <<clock, generation, calls, applied, replies, budget>>
vars == <<journal, discoveryVars, controlVars>>

Never == MaxTime + Retention + 1

Idle == [pc |-> "idle"]

Documents == [config : 1..MaxGenerations, created_at : 0..MaxTime, signature : Signatures]
Answers == [effect : Nat \ {0}] \cup [document : Documents]

TypeOK ==
    /\ clock \in 0..MaxTime
    /\ generation \in 1..MaxGenerations
    /\ \A id \in OperationIds :
        \/ journal[id] = NoRow
        \/ journal[id] \in [state : {"prepared"}, request : Requests, prepared_at : 0..MaxTime]
        \/ /\ journal[id] \in [state : {"completed"}, request : Requests,
                               prepared_at : 0..MaxTime, response : Answers,
                               completed_at : 0..MaxTime, expires_at : 0..MaxTime + Retention]
           /\ journal[id].prepared_at <= journal[id].completed_at
    /\ DOMAIN documents \subseteq Documents
    /\ \A d \in DOMAIN documents : documents[d] \in {"pending", "delivered", "exhausted"}
    /\ {publication.desired, publication.current} \subseteq DOMAIN documents \cup {None}
    /\ publication.updated_at \in 0..MaxTime
    /\ \A c \in Callers : calls[c].pc \in {"idle", "prepare", "effect", "complete"}

Init ==
    /\ journal = [id \in OperationIds |-> NoRow]
    /\ documents = [d \in {} |-> "pending"]
    /\ publication = NoPublication
    /\ clock = 0
    /\ generation = 1
    /\ calls = [c \in Callers |-> Idle]
    /\ applied = [id \in OperationIds |-> <<>>]
    /\ replies = {}
    /\ budget = [calls |-> MaxCalls, restarts |-> MaxRestarts]

\* The response to an effect tells it from the others of its operation.
EffectResponse(id) == [effect |-> Len(applied[id]) + 1]

(***************************************************************************)
(* Calls.                                                                  *)
(***************************************************************************)
ReadsGeneration(request) == Route[request] # "connection"

\* A mutation arrives: the generation it names is compared with the latest,
\* the clock is read.
Call(c, id, request) ==
    /\ calls[c] = Idle
    /\ budget.calls > 0
    /\ budget' = [budget EXCEPT !.calls = @ - 1]
    /\ calls' = IF ReadsGeneration(request) /\ ExpectedGeneration[request] # generation
                THEN calls
                ELSE [calls EXCEPT ![c] = [pc |-> "prepare", id |-> id, request |-> request,
                                           now |-> clock]]
    /\ UNCHANGED <<journal, discoveryVars, clock, generation, applied, replies>>

Reply(c, response) ==
    /\ replies' = replies \cup {[id |-> calls[c].id, request |-> calls[c].request,
                                 response |-> response]}
    /\ calls' = [calls EXCEPT ![c] = Idle]

Fail(c) == calls' = [calls EXCEPT ![c] = Idle] /\ UNCHANGED replies

Apply(id, request, response, expires) ==
    applied' = [applied EXCEPT ![id] =
                    Append(@, [request |-> request, response |-> response, expires |-> expires])]

\* The journal answers before anything is done: the stored response, or a
\* refusal that rolls the pruning back.
Answered(c) ==
    LET call == calls[c]
        pruned == prune_expired(call.now)
        answer == Admission(pruned, call.id, call.request)
    IN /\ call.pc = "prepare"
       /\ \/ answer = "replay" /\ journal' = pruned /\ Reply(c, pruned[call.id].response)
          \/ /\ answer \in {"conflict", "outcome_unknown", "exhausted"}
             /\ UNCHANGED journal /\ Fail(c)
       /\ UNCHANGED <<discoveryVars, clock, generation, applied, budget>>

\* prepare_admin_operation for the routes with a step outside the database.
Prepare(c) ==
    LET call == calls[c]
        pruned == prune_expired(call.now)
    IN /\ call.pc = "prepare" /\ Route[call.request] # "connection"
       /\ Admission(pruned, call.id, call.request) = "prepared"
       /\ journal' = [pruned EXCEPT ![call.id] = Prepared(call.request, call.now)]
       /\ calls' = [calls EXCEPT ![c].pc = "effect"]
       /\ UNCHANGED <<discoveryVars, clock, generation, applied, replies, budget>>

\* execute_database_admin_operation: preparation, effect and completion in one
\* transaction, which an effect that is refused rolls back.
Execute(c) ==
    LET call == calls[c]
        pruned == prune_expired(call.now)
        response == EffectResponse(call.id)
    IN /\ call.pc = "prepare" /\ Route[call.request] = "connection"
       /\ Admission(pruned, call.id, call.request) = "prepared"
       /\ \/ /\ journal' = [pruned EXCEPT ![call.id] =
                                Completed(Prepared(call.request, call.now), response, call.now)]
             /\ Apply(call.id, call.request, response, call.now + Retention)
             /\ Reply(c, response)
          \/ UNCHANGED <<journal, applied>> /\ Fail(c)
       /\ UNCHANGED <<discoveryVars, clock, generation, budget>>

\* The step outside the database: the snapshot is captured ...
Capture(c) ==
    LET call == calls[c]
        response == EffectResponse(call.id)
    IN /\ call.pc = "effect" /\ Route[call.request] = "backup"
       /\ calls' = [calls EXCEPT ![c] = [pc |-> "complete", id |-> call.id,
                        request |-> call.request, now |-> call.now, response |-> response]]
       /\ Apply(call.id, call.request, response, Never)
       /\ UNCHANGED <<journal, discoveryVars, clock, generation, replies, budget>>

\* ... or the provider signs the document of the generation in force, dated
\* with the time the call was accepted ...
prepare_discovery_commit(c) ==
    LET call == calls[c] IN
    /\ call.pc = "effect" /\ Route[call.request] \in {"render", "publish"}
    /\ \E s \in Signatures :
          calls' = [calls EXCEPT ![c] = [pc |-> "complete", id |-> call.id,
                       request |-> call.request, now |-> call.now,
                       response |-> [document |-> Document(generation, call.now, s)]]]
    /\ UNCHANGED <<journal, discoveryVars, clock, generation, applied, replies, budget>>

\* ... or it fails, and leaves the row prepared.
OutsideFails(c) ==
    /\ calls[c].pc = "effect"
    /\ Fail(c)
    /\ UNCHANGED <<journal, discoveryVars, clock, generation, applied, budget>>

Outside(c) == Capture(c) \/ prepare_discovery_commit(c) \/ OutsideFails(c)

Completing(c) ==
    LET call == calls[c] IN
    /\ call.pc = "complete"
    /\ Completion(journal, call.id, call.request, call.now, call.response) = "completed"
    /\ journal' = [journal EXCEPT ![call.id] = Completed(@, call.response, clock)]

\* complete_admin_operation.
Complete(c) ==
    LET call == calls[c] IN
    /\ Completing(c)
    /\ Route[call.request] \in {"backup", "render"}
    /\ IF Route[call.request] = "backup"
       THEN applied' = [applied EXCEPT ![call.id][Len(applied[call.id])].expires = clock + Retention]
       ELSE Apply(call.id, call.request, call.response, clock + Retention)
    /\ Reply(c, call.response)
    /\ UNCHANGED <<discoveryVars, clock, generation, budget>>

\* complete_prepared_database_admin_operation with the commit of the desired
\* generation.
Publish(c) ==
    LET call == calls[c] IN
    /\ Completing(c)
    /\ Route[call.request] = "publish"
    /\ Commit(call.response.document)
    /\ Apply(call.id, call.request, call.response, clock + Retention)
    /\ Reply(c, call.response)
    /\ UNCHANGED <<clock, generation, budget>>

\* The completing transaction fails: the commit is refused (an older
\* generation, the outbox at its ceiling) or the database fails.
CompletionFails(c) ==
    /\ calls[c].pc = "complete"
    /\ Fail(c)
    /\ UNCHANGED <<journal, discoveryVars, clock, generation, applied, budget>>

(***************************************************************************)
(* Around the calls: deliveries, the clock, and the end of the process,    *)
(* which takes every call with it.                                         *)
(***************************************************************************)
Deliver(d) == FinishJob(d) /\ UNCHANGED <<journal, controlVars>>

Tick ==
    /\ clock < MaxTime
    /\ clock' = clock + 1
    /\ UNCHANGED <<journal, discoveryVars, generation, calls, applied, replies, budget>>

\* The process ends, a configuration may be applied offline, the next process
\* recovers.
Restart ==
    /\ budget.restarts > 0
    /\ budget' = [budget EXCEPT !.restarts = @ - 1]
    /\ calls' = [c \in Callers |-> Idle]
    /\ generation' \in {generation} \cup (1..MaxGenerations \cap {generation + 1})
    /\ promote_current(clock)
    /\ UNCHANGED <<journal, documents, clock, applied, replies>>

Next ==
    \/ \E c \in Callers :
        \/ \E id \in OperationIds, request \in Requests : Call(c, id, request)
        \/ Answered(c) \/ Prepare(c) \/ Execute(c) \/ Outside(c)
        \/ Complete(c) \/ Publish(c) \/ CompletionFails(c)
    \/ \E d \in DOMAIN documents : Deliver(d)
    \/ Tick \/ Restart

Spec == Init /\ [][Next]_vars

\* An operation takes effect a second time only when the journal had completed
\* and forgotten the first: a repeated call, two calls at once, a reply that was
\* lost and a crash between effect and completion never apply it twice
\* (prepare_operation, prune_expired, the handlers' order of steps).
AppliedOnce ==
    [][\A id \in OperationIds :
        Len(applied'[id]) > Len(applied[id]) =>
            applied[id] = <<>> \/ Last(applied[id]).expires <= clock]_vars

\* A success response belongs to an effect of that very operation and request,
\* and a stored response that may still be replayed does too
\* (prepare_operation, complete_operation).
RepliesAreEffects ==
    LET Made(id, request, response) ==
            \E i \in DOMAIN applied[id] :
                applied[id][i].request = request /\ applied[id][i].response = response
    IN /\ \A r \in replies : Made(r.id, r.request, r.response)
       /\ \A id \in RowsIn(journal, "completed") :
            Made(id, journal[id].request, journal[id].response)

\* Completed and prepared rows together never exceed the limit of completed
\* rows (prepare_operation reserves a place for every prepared row).
JournalReserved ==
    /\ read_counts(journal).completed + read_counts(journal).prepared <= CompletedLimit
    /\ read_counts(journal).prepared <= PreparedLimit

\* A call that has prepared its operation can complete it, whatever the other
\* calls did since: its row is still there, still its own, and has room
\* (complete_operation).
EffectsCompletable ==
    \A c \in Callers :
        calls[c].pc \in {"effect", "complete"} =>
            /\ journal[calls[c].id] = Prepared(calls[c].request, calls[c].now)
            /\ \A c2 \in Callers \ {c} :
                calls[c2].pc \in {"effect", "complete"} => calls[c2].id # calls[c].id
            /\ read_counts(journal).completed < CompletedLimit

\* The current generation was delivered, it is never later than the desired
\* one, and recovery's clock is never behind what it recovers: the delivery of
\* a generation that was replaced meanwhile promotes nothing
\* (promote_current_if_desired, commit_desired).
PublicationConsistent ==
    /\ publication.updated_at <= clock
    /\ publication.current # None =>
        /\ documents[publication.current] = "delivered"
        /\ publication.desired # None
        /\ publication.current.created_at <= publication.desired.created_at
    /\ (publication.desired = None) = (DOMAIN documents = {})

\* Neither pointer ever goes back to an older generation, however the
\* publications overlap (commit_desired, promote_current).
Advances ==
    /\ publication.desired # None /\ publication'.desired # publication.desired =>
            publication'.desired.created_at > publication.desired.created_at
    /\ publication.current # None /\ publication'.current # publication.current =>
            publication'.current.created_at > publication.current.created_at

\* The journal can keep what it promised: it has room for every prepared
\* operation, and the row of an effect that was made waits for its completion
\* (prepare_operation, prune_expired, complete_operation).
JournalSound == TypeOK /\ JournalReserved /\ EffectsCompletable

\* Whatever a step does, the publication state it leaves is consistent with what
\* was delivered, and it only ever moves to a newer generation (commit_desired,
\* promote_current).
PublicationSound == [][PublicationConsistent' /\ Advances]_vars

=============================================================================
