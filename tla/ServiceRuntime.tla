---------------------------- MODULE ServiceRuntime ----------------------------
(***************************************************************************)
(* The daemon's task graph around the two workers that other modules model *)
(* in detail: the relay ingress task with its one or two subscription      *)
(* groups and reconnect delays, the queue between it and provider_dispatch,*)
(* the health channel and the status cache that the main loop publishes    *)
(* from, the optional operations listener, and the phased shutdown         *)
(* (src/src/runtime_graph.rs, transport_nostr_adapter.rs, status_v1.rs).   *)
(*                                                                         *)
(* What an event does to the database is Nip46Dispatch's business, how     *)
(* responses leave is DeliveryDaemon's; here an event is a number a relay  *)
(* gave it and processing it succeeds, fails at the provider, or fails for *)
(* good.  The supervisor and the ordered shutdown belong to the shared     *)
(* service host, which the repository uses and does not contain.           *)
(***************************************************************************)
EXTENDS Sequences, SequencesExt, Status

CONSTANTS
    RelayKind,           \* their URL class: "public" (wss) or "local" (ws)
    ReadRelays,          \* those with read = true
    RequiredRelays,      \* those with required = true
    IngressCapacity,     \* resource_limits.queues.ingress
    ProviderCapacity,    \* resource_limits.queues.provider
    HealthCapacity,      \* capacity of the health channel
    InitialBackoff,      \* transport.publish_retry.initial_backoff_ms, in ticks
    MaximumBackoff,      \* transport.publish_retry.maximum_backoff_ms, in ticks
    OperationsEnabled,   \* operations.enabled
    MaxEvents,           \* bound, per relay: events it holds for the service
    MaxOutages,          \* bound: subscriptions that end and connects that fail
    MaxFaults,           \* bound: provider calls and tasks that fail
    MaxChanges           \* bound: state changes by the admin and delivery tasks

Kinds == {"public", "local"}

ASSUME RuntimeAssumption ==
    /\ RelayKind \in [Relays -> Kinds]
    /\ ReadRelays \subseteq Relays /\ RequiredRelays \subseteq Relays
    /\ IngressCapacity \in Nat \ {0} /\ ProviderCapacity \in Nat \ {0}
    /\ HealthCapacity \in Nat \ {0}
    /\ InitialBackoff \in Nat \ {0} /\ MaximumBackoff \in Nat
    /\ InitialBackoff <= MaximumBackoff
    /\ OperationsEnabled \in BOOLEAN
    /\ MaxEvents \in [ReadRelays -> Nat]
    /\ {MaxOutages, MaxFaults, MaxChanges} \subseteq Nat

(***************************************************************************)
(* The subscription groups: the readable relays of one URL class share one *)
(* subscription, and the group is required as soon as one of them is.      *)
(***************************************************************************)
GroupRelays(g) == {r \in ReadRelays : RelayKind[r] = g}
Groups == {g \in Kinds : GroupRelays(g) # {}}
Required(g) == GroupRelays(g) \cap RequiredRelays # {}

\* The adapter of a configuration without a required group is refused.
ASSUME AdapterAssumption == \E g \in Groups : Required(g)

Tasks == {"admin_server", "operations_server", "relay_ingress",
          "provider_dispatch", "delivery_outbox"}
Spawned == IF OperationsEnabled THEN Tasks ELSE Tasks \ {"operations_server"}

ShutdownPhases == <<"reject_new_mutations", "cancel_ingress", "drain_operations",
                    "persist_recoverable_work", "close_network", "close_sqlite",
                    "close_sockets">>

\* Faulty variant: the outbox is left to the end, with the sockets.
LatePhaseOf(task) ==
    CASE task = "relay_ingress" -> "cancel_ingress"
      [] task = "provider_dispatch" -> "drain_operations"
      [] OTHER -> "close_sockets"

\* The phase in which each task is cancelled and joined.
PhaseOf(task) ==
    CASE task = "relay_ingress" -> "cancel_ingress"
      [] task = "provider_dispatch" -> "drain_operations"
      [] task = "delivery_outbox" -> "persist_recoverable_work"
      [] task \in {"admin_server", "operations_server"} -> "close_sockets"

VARIABLES
    slots,      \* the ingress groups: state, delay and how much of it was slept
    checkpoint, \* per relay, the last event the ingress task took
    position,   \* per relay, where its active subscription stands
    ingress,    \* what the ingress task is doing, with the value it waits to send
    channel,    \* ingress queue
    batch,      \* provider_dispatch: the items it took from the channel
    dispatch,   \* provider_dispatch: what it is doing
    handled,    \* per relay, the events processed to the end
    healthQueue,
    health,     \* RuntimeHealth of the main loop
    published,  \* the status cache
    counts,     \* whether the cached counts are those of the database
    main,       \* "starting", "loop", "stopping", "exited"
    stop,       \* the shutdown: phase number, who asked, what went wrong
    ended,      \* tasks that returned
    result,     \* MycProcessResult
    budget      \* what is left of the bounds

ingressVars == <<slots, checkpoint, position, ingress>>
dispatchVars == <<batch, dispatch, handled>>
mainVars == <<health, published, counts, main, stop, ended, result>>
vars == <<ingressVars, channel, dispatchVars, healthQueue, mainVars, budget>>

SlotStates == {"active", "waiting", "connecting"}
HealthEvents == {<<"providers", TRUE>>, <<"providers", FALSE>>,
                 <<"required_relays", TRUE>>, <<"required_relays", FALSE>>,
                 <<"state_changed">>}
Items == UNION {{r} \X (1..MaxEvents[r]) : r \in ReadRelays}

TypeOK ==
    /\ slots \in [Groups -> [state : SlotStates, slept : 0..MaximumBackoff,
                             delay : InitialBackoff..MaximumBackoff]]
    /\ \A r \in ReadRelays : {checkpoint[r], position[r]} \subseteq 0..MaxEvents[r]
    /\ ingress \in [pc : {"select", "send", "report", "ended"},
                    item : Items \cup {<<>>}, ready : BOOLEAN]
    /\ channel \in Seq(Items) /\ Len(channel) <= IngressCapacity
    /\ batch \in Seq(Items) /\ Len(batch) <= ProviderCapacity
    /\ dispatch \in [pc : {"recv", "process", "report", "backoff", "ended"},
                     ok : BOOLEAN]
    /\ \A r \in ReadRelays : handled[r] \subseteq 1..MaxEvents[r]
    /\ healthQueue \in Seq(HealthEvents) /\ Len(healthQueue) <= HealthCapacity
    /\ health \in [providers : BOOLEAN, required_relays : BOOLEAN, operations : BOOLEAN]
    /\ published \in Documents \cup {NoDocument}
    /\ counts \in {"fresh", "stale", "lost"}
    /\ main \in {"starting", "loop", "stopping", "exited"}
    /\ stop \in [phase : 0..Len(ShutdownPhases), entered : BOOLEAN, signalled : BOOLEAN,
                 forced : BOOLEAN, fault : BOOLEAN, closed : BOOLEAN]
    /\ ended \subseteq Tasks
    /\ result \in {"none", "success", "state_or_identity_unavailable",
                   "service_or_dependency_unavailable", "unexpected_internal"}

\* The phase the main loop publishes after a health event.
PhaseFor(h) ==
    IF h.providers /\ h.required_relays
    THEN IF h.operations THEN "ready" ELSE "degraded"
    ELSE "unready"

Healthy == [providers |-> TRUE, required_relays |-> TRUE, operations |-> TRUE]

NoSlots == [g \in Groups |-> [state |-> "waiting", slept |-> 0, delay |-> InitialBackoff]]
NoEvents == [r \in ReadRelays |-> 0]
NothingHandled == [r \in ReadRelays |-> {}]

Init ==
    /\ slots = NoSlots
    /\ checkpoint = NoEvents
    /\ position = NoEvents
    /\ ingress = [pc |-> "select", item |-> <<>>, ready |-> FALSE]
    /\ channel = <<>>
    /\ batch = <<>>
    /\ dispatch = [pc |-> "recv", ok |-> TRUE]
    /\ handled = NothingHandled
    /\ healthQueue = <<>>
    /\ health = Healthy
    /\ published = NoDocument
    /\ counts = "fresh"
    /\ main = "starting"
    /\ stop = [phase |-> 0, entered |-> FALSE, signalled |-> FALSE, forced |-> FALSE,
               fault |-> FALSE, closed |-> FALSE]
    /\ ended = {}
    /\ result = "none"
    /\ budget = [outages |-> MaxOutages, faults |-> MaxFaults, changes |-> MaxChanges]

Spend(what) == budget[what] > 0 /\ budget' = [budget EXCEPT ![what] = @ - 1]

\* What a task held is gone when it returns, what is left with the process.
IngressGone ==
    /\ slots' = NoSlots /\ checkpoint' = NoEvents /\ position' = NoEvents
    /\ ingress' = [pc |-> "ended", item |-> <<>>, ready |-> FALSE]

DispatchGone ==
    /\ batch' = <<>> /\ channel' = <<>> /\ handled' = NothingHandled
    /\ dispatch' = [pc |-> "ended", ok |-> TRUE]

Exit(how) ==
    /\ main' = "exited"
    /\ result' = how
    /\ IngressGone /\ DispatchGone
    /\ healthQueue' = <<>>
    /\ counts' = "fresh"
    /\ UNCHANGED budget

(***************************************************************************)
(* Start.  The state opens, recovery and verification pass, the providers  *)
(* answer their probes; then every group is subscribed, a required one must*)
(* be; the admin and operations listeners bind, the tasks are spawned and  *)
(* the status goes from starting to ready.  A failure ends the process with*)
(* the result of its class, before any task exists.                        *)
(***************************************************************************)
required_relays_ready(s) == \A g \in Groups : Required(g) => s[g].state = "active"

Start ==
    /\ main = "starting"
    /\ \E up \in SUBSET Groups :
        /\ slots' = [g \in Groups |->
                        [slots[g] EXCEPT !.state = IF g \in up THEN "active" ELSE "waiting"]]
        /\ required_relays_ready(slots')
    /\ main' = "loop"
    /\ ended' = Tasks \ Spawned
    /\ published' = Observation("ready", health)
    /\ UNCHANGED <<checkpoint, position, ingress, channel, dispatchVars, healthQueue,
                   health, counts, stop, result, budget>>

StartFails ==
    /\ main = "starting"
    /\ \E how \in {"state_or_identity_unavailable",      \* state, recovery, verification
                  "service_or_dependency_unavailable",  \* provider, relay, admin, operations
                  "unexpected_internal"} :              \* clock, entropy, status model
        Exit(how)
    /\ ended' = Tasks
    /\ UNCHANGED <<health, published, stop>>

Running(task) == main \in {"loop", "stopping"} /\ task \notin ended

\* The supervisor has cancelled the task.
Cancelled(task) ==
    /\ main = "stopping"
    /\ stop.phase > 0
    /\ \E p \in 1..stop.phase :
        /\ ShutdownPhases[p] = PhaseOf(task)
        /\ p < stop.phase \/ stop.entered

(***************************************************************************)
(* relay_ingress.  One task polls all its groups.  Whatever it handles, it *)
(* starts a new select and with it a new sleep for every waiting group.    *)
(***************************************************************************)
Asleep(s) == [g \in Groups |-> [s[g] EXCEPT !.slept = 0]]

Selecting == Running("relay_ingress") /\ ingress.pc = "select"

\* After a change of a group's state the task reports and then selects again.
Report(s) ==
    /\ slots' = Asleep(s)
    /\ ingress' = [ingress EXCEPT !.pc = "report", !.ready = required_relays_ready(s)]

\* Time passes for the groups that wait; one tick, all sleeps.
Sleep ==
    /\ Selecting
    /\ \E g \in Groups : slots[g].state = "waiting" /\ slots[g].slept < slots[g].delay
    /\ slots' = [g \in Groups |->
                    IF slots[g].state = "waiting" /\ slots[g].slept < slots[g].delay
                    THEN [slots[g] EXCEPT !.slept = @ + 1] ELSE slots[g]]
    /\ UNCHANGED <<checkpoint, position, ingress, channel, dispatchVars, healthQueue,
                   mainVars, budget>>

\* Faulty variant: the checkpoint of the group's other relays moves as well.
ReplaceAllCheckpoints(r, n) ==
    [q \in ReadRelays |-> IF RelayKind[q] = RelayKind[r] /\ checkpoint[q] < n
                          THEN n ELSE checkpoint[q]]

\* The checkpoint of the relay the event came from.
replace_checkpoint(r, n) == [checkpoint EXCEPT ![r] = n]

\* An event: its checkpoint replaces the relay's, then the item waits for
\* room in the channel.
NextEvent(r) ==
    /\ Selecting
    /\ slots[RelayKind[r]].state = "active"
    /\ position[r] < MaxEvents[r]
    /\ position' = [position EXCEPT ![r] = @ + 1]
    /\ checkpoint' = replace_checkpoint(r, position[r] + 1)
    /\ ingress' = [ingress EXCEPT !.pc = "send", !.item = <<r, position[r] + 1>>]
    /\ slots' = Asleep(slots)
    /\ UNCHANGED <<channel, dispatchVars, healthQueue, mainVars, budget>>

SendItem ==
    /\ Running("relay_ingress") /\ ingress.pc = "send"
    /\ Running("provider_dispatch")
    /\ Len(channel) < IngressCapacity
    /\ channel' = Append(channel, ingress.item)
    /\ ingress' = [ingress EXCEPT !.pc = "select", !.item = <<>>]
    /\ UNCHANGED <<slots, checkpoint, position, dispatchVars, healthQueue, mainVars, budget>>

\* The receiver is gone: the task fails.
SendItemFails ==
    /\ Running("relay_ingress") /\ ingress.pc = "send"
    /\ ~Running("provider_dispatch")
    /\ IngressGone
    /\ ended' = ended \cup {"relay_ingress"}
    /\ stop' = [stop EXCEPT !.fault = TRUE]
    /\ UNCHANGED <<channel, dispatchVars, healthQueue, health, published, counts, main,
                   result, budget>>

\* The subscription ends (its deadline, its event limit) or breaks.
SubscriptionEnds(g) ==
    /\ Selecting
    /\ slots[g].state = "active"
    /\ Spend("outages")
    /\ Report([slots EXCEPT ![g].state = "waiting"])
    /\ UNCHANGED <<checkpoint, position, channel, dispatchVars, healthQueue, mainVars>>

\* Faulty variant: the longest delay must pass, while the sleep ends earlier.
RetryAfterMaximum(g) ==
    /\ Selecting
    /\ slots[g].state = "waiting"
    /\ slots[g].slept = MaximumBackoff
    /\ slots' = Asleep([slots EXCEPT ![g].state = "connecting"])
    /\ UNCHANGED <<checkpoint, position, ingress, channel, dispatchVars, healthQueue,
                   mainVars, budget>>

\* The whole delay has passed in one select: subscribe from the checkpoints.
Retry(g) ==
    /\ Selecting
    /\ slots[g].state = "waiting"
    /\ slots[g].slept = slots[g].delay
    /\ slots' = Asleep([slots EXCEPT ![g].state = "connecting"])
    /\ UNCHANGED <<checkpoint, position, ingress, channel, dispatchVars, healthQueue,
                   mainVars, budget>>

Connected(g) ==
    /\ Selecting
    /\ slots[g].state = "connecting"
    /\ position' = [r \in ReadRelays |-> IF RelayKind[r] = g THEN checkpoint[r] ELSE position[r]]
    /\ Report([slots EXCEPT ![g].state = "active", ![g].delay = InitialBackoff])
    /\ UNCHANGED <<checkpoint, channel, dispatchVars, healthQueue, mainVars, budget>>

Doubled(delay) == IF 2 * delay < MaximumBackoff THEN 2 * delay ELSE MaximumBackoff

ConnectFails(g) ==
    /\ Selecting
    /\ slots[g].state = "connecting"
    /\ Spend("outages")
    /\ Report([slots EXCEPT ![g].state = "waiting", ![g].delay = Doubled(@)])
    /\ UNCHANGED <<checkpoint, position, channel, dispatchVars, healthQueue, mainVars>>

\* send_required_relay_health waits for room in the health channel.
SendRelayHealth ==
    /\ Running("relay_ingress") /\ ingress.pc = "report"
    /\ Len(healthQueue) < HealthCapacity
    /\ healthQueue' = Append(healthQueue, <<"required_relays", ingress.ready>>)
    /\ ingress' = [ingress EXCEPT !.pc = "select"]
    /\ UNCHANGED <<slots, checkpoint, position, channel, dispatchVars, mainVars, budget>>

\* Faulty variant: the sends of the task do not watch the cancellation.
IngressCancelledSelecting ==
    /\ Selecting
    /\ Cancelled("relay_ingress")
    /\ IngressGone
    /\ ended' = ended \cup {"relay_ingress"}
    /\ UNCHANGED <<channel, dispatchVars, healthQueue, health, published, counts, main, stop,
                   result, budget>>

\* Cancellation wins every wait of the task; an event in hand is dropped.
IngressCancelled ==
    /\ Running("relay_ingress")
    /\ Cancelled("relay_ingress")
    /\ IngressGone
    /\ ended' = ended \cup {"relay_ingress"}
    /\ UNCHANGED <<channel, dispatchVars, healthQueue, health, published, counts, main, stop,
                   result, budget>>

(***************************************************************************)
(* provider_dispatch: one item at a time from a batch that is filled from  *)
(* the channel whenever an item is taken.                                  *)
(***************************************************************************)
Lower(a, b) == IF a < b THEN a ELSE b

Take ==
    /\ Running("provider_dispatch") /\ dispatch.pc = "recv"
    /\ batch # <<>> \/ channel # <<>>
    /\ LET n == Lower(ProviderCapacity - Len(batch), Len(channel)) IN
        /\ batch' = batch \o SubSeq(channel, 1, n)
        /\ channel' = SubSeq(channel, n + 1, Len(channel))
    /\ dispatch' = [dispatch EXCEPT !.pc = "process"]
    /\ UNCHANGED <<ingressVars, handled, healthQueue, mainVars, budget>>

\* No item left and every sender gone: the task takes it for a failure.
ChannelClosed ==
    /\ Running("provider_dispatch") /\ dispatch.pc = "recv"
    /\ batch = <<>> /\ channel = <<>>
    /\ "relay_ingress" \in ended
    /\ DispatchGone
    /\ ended' = ended \cup {"provider_dispatch"}
    /\ stop' = [stop EXCEPT !.fault = TRUE]
    /\ UNCHANGED <<ingressVars, healthQueue, health, published, counts, main, result, budget>>

\* try_send of a state change: dropped when the channel is full, which loses
\* the news unless an earlier one still waits there.
StateChangedSent ==
    IF Len(healthQueue) < HealthCapacity
    THEN /\ healthQueue' = Append(healthQueue, <<"state_changed">>)
         /\ counts' = IF counts = "fresh" THEN "stale" ELSE counts
    ELSE /\ UNCHANGED healthQueue
         /\ counts' = IF Contains(healthQueue, <<"state_changed">>)
                      THEN IF counts = "fresh" THEN "stale" ELSE counts
                      ELSE "lost"

Processed ==
    /\ Running("provider_dispatch") /\ dispatch.pc = "process"
    /\ handled' = [handled EXCEPT ![Head(batch)[1]] = @ \cup {Head(batch)[2]}]
    /\ batch' = Tail(batch)
    /\ dispatch' = [pc |-> "report", ok |-> TRUE]
    /\ StateChangedSent
    /\ UNCHANGED <<ingressVars, channel, health, published, main, stop, ended, result, budget>>

ProviderFails ==
    /\ Running("provider_dispatch") /\ dispatch.pc = "process"
    /\ Spend("faults")
    /\ dispatch' = [pc |-> "report", ok |-> FALSE]
    /\ UNCHANGED <<ingressVars, channel, batch, handled, healthQueue, mainVars>>

\* send_provider_health, then the next item, or the backoff before the same one.
SendProviderHealth ==
    /\ Running("provider_dispatch") /\ dispatch.pc = "report"
    /\ Len(healthQueue) < HealthCapacity
    /\ healthQueue' = Append(healthQueue, <<"providers", dispatch.ok>>)
    /\ dispatch' = [dispatch EXCEPT !.pc = IF dispatch.ok THEN "recv" ELSE "backoff"]
    /\ UNCHANGED <<ingressVars, channel, batch, handled, mainVars, budget>>

BackoffOver ==
    /\ Running("provider_dispatch") /\ dispatch.pc = "backoff"
    /\ dispatch' = [dispatch EXCEPT !.pc = "process"]
    /\ UNCHANGED <<ingressVars, channel, batch, handled, healthQueue, mainVars, budget>>

\* Any other error of the coordinator ends the task.
ProcessFails ==
    /\ Running("provider_dispatch") /\ dispatch.pc = "process"
    /\ Spend("faults")
    /\ DispatchGone
    /\ ended' = ended \cup {"provider_dispatch"}
    /\ stop' = [stop EXCEPT !.fault = TRUE]
    /\ UNCHANGED <<ingressVars, healthQueue, health, published, counts, main, result>>

\* Every wait of the task, and every provider call, ends with cancellation.
DispatchCancelled ==
    /\ Running("provider_dispatch")
    /\ Cancelled("provider_dispatch")
    /\ DispatchGone
    /\ ended' = ended \cup {"provider_dispatch"}
    /\ UNCHANGED <<ingressVars, healthQueue, health, published, counts, main, stop, result,
                   budget>>

(***************************************************************************)
(* The admin handlers and the outbox report what they changed the same way.*)
(***************************************************************************)
StateChange(task) ==
    /\ task \in {"admin_server", "delivery_outbox"}
    /\ Running(task)
    /\ task = "admin_server" => stop.phase = 0  \* accepting_mutations
    /\ Spend("changes")
    /\ StateChangedSent
    /\ UNCHANGED <<ingressVars, channel, dispatchVars, health, published, main, stop, ended,
                   result>>

\* The outbox and the listeners end on cancellation; they may also fail.
TaskEnds(task) ==
    /\ task \in {"admin_server", "delivery_outbox", "operations_server"}
    /\ Running(task)
    /\ ended' = ended \cup {task}
    /\ \/ Cancelled(task) /\ UNCHANGED <<stop, budget>>
       \/ /\ Spend("faults")
          /\ stop' = [stop EXCEPT !.fault = @ \/ task # "operations_server"]
    /\ UNCHANGED <<ingressVars, channel, dispatchVars, healthQueue, health, published, counts,
                   main, result>>

(***************************************************************************)
(* The main loop: health events, joined tasks, signals.                    *)
(***************************************************************************)
\* RuntimeHealth::observe.
Observe(event) ==
    CASE event[1] = "providers" -> [health EXCEPT !.providers = event[2]]
      [] event[1] = "required_relays" -> [health EXCEPT !.required_relays = event[2]]
      [] OTHER -> health

\* Faulty variant: an unready service does not read them.
refresh_state_ready(event) ==
    IF event[1] = "state_changed" /\ health.providers /\ health.required_relays
    THEN "fresh" ELSE counts

\* The counts after a health event: read again after a state change.
refresh_state(event) == IF event[1] = "state_changed" THEN "fresh" ELSE counts

\* A changed bit or a state change is published, the counts read again first.
HealthEvent ==
    /\ main = "loop"
    /\ healthQueue # <<>>
    /\ LET event == Head(healthQueue)
           changed == event[1] = "state_changed" \/ Observe(event) # health
       IN /\ health' = Observe(event)
          /\ published' = IF changed THEN Observation(PhaseFor(health'), health')
                          ELSE published
          /\ counts' = refresh_state(event)
    /\ healthQueue' = Tail(healthQueue)
    /\ UNCHANGED <<ingressVars, channel, dispatchVars, main, stop, ended, result, budget>>

\* The counts cannot be read: the daemon returns at once, its tasks unjoined.
RefreshFails ==
    /\ main = "loop"
    /\ healthQueue # <<>> /\ Head(healthQueue)[1] = "state_changed"
    /\ Exit("state_or_identity_unavailable")
    /\ UNCHANGED <<health, published, stop, ended>>

\* The optional listener is gone: published as degraded, whatever the rest is.
OperationsJoined ==
    /\ main = "loop"
    /\ OperationsEnabled /\ "operations_server" \in ended
    /\ health.operations
    /\ health' = [health EXCEPT !.operations = FALSE]
    /\ published' = Observation("degraded", health')
    /\ UNCHANGED <<ingressVars, channel, dispatchVars, healthQueue, counts, main, stop, ended,
                   result, budget>>

\* The first signal arrives, the signal source fails, or a critical task is joined.
LeaveLoop(cause) ==
    /\ main = "loop"
    /\ cause = "task" => ended \cap (Spawned \ {"operations_server"}) # {}
    /\ main' = "stopping"
    /\ stop' = [stop EXCEPT !.signalled = cause = "signal", !.phase = 1]
    /\ UNCHANGED <<ingressVars, channel, dispatchVars, healthQueue, health, published, counts,
                   ended, result, budget>>

(***************************************************************************)
(* The ordered shutdown of the service host (external): entering a phase   *)
(* runs the daemon's handler and cancels the phase's tasks; the next phase *)
(* waits for them.  A second signal or the deadline aborts what is left.   *)
(***************************************************************************)
EnterPhase ==
    /\ main = "stopping" /\ ~stop.entered
    /\ stop' = [stop EXCEPT !.entered = TRUE,
                            !.closed = @ \/ ShutdownPhases[stop.phase] = "close_sqlite"]
    /\ published' = IF ShutdownPhases[stop.phase] = "reject_new_mutations"
                    THEN Observation("stopping", health) ELSE published
    /\ UNCHANGED <<ingressVars, channel, dispatchVars, healthQueue, health, counts, main,
                   ended, result, budget>>

PhaseTasks(n) == {t \in Spawned : PhaseOf(t) = ShutdownPhases[n]}

LeavePhase ==
    /\ main = "stopping" /\ stop.entered
    /\ PhaseTasks(stop.phase) \subseteq ended
    /\ stop.phase < Len(ShutdownPhases)
    /\ stop' = [stop EXCEPT !.phase = @ + 1, !.entered = FALSE]
    /\ UNCHANGED <<ingressVars, channel, dispatchVars, healthQueue, health, published, counts,
                   main, ended, result, budget>>

\* The handler's verification or close fails and ends the shutdown.
PhaseFails ==
    /\ main = "stopping" /\ ~stop.entered
    /\ ShutdownPhases[stop.phase] \in {"persist_recoverable_work", "close_sqlite"}
    /\ Exit("unexpected_internal")
    /\ stop' = [stop EXCEPT !.fault = TRUE]
    /\ UNCHANGED <<health, published, ended>>

ForceStop ==
    /\ main = "stopping"
    /\ stop' = [stop EXCEPT !.forced = TRUE]
    /\ ended' = Tasks
    /\ Exit("unexpected_internal")
    /\ UNCHANGED <<health, published>>

\* Success needs the signal and a completed shutdown.  Whether the host still
\* calls a shutdown completed when a task returned an error is left open.
Finish ==
    /\ main = "stopping" /\ stop.entered
    /\ stop.phase = Len(ShutdownPhases)
    /\ PhaseTasks(stop.phase) \subseteq ended
    /\ \E completed \in {TRUE} \cup (IF stop.fault THEN {FALSE} ELSE {}) :
        Exit(IF completed /\ stop.signalled THEN "success" ELSE "unexpected_internal")
    /\ UNCHANGED <<health, published, stop, ended>>

Exited == main = "exited" /\ UNCHANGED vars

Next ==
    \/ Start \/ StartFails
    \/ Sleep \/ SendItem \/ SendItemFails \/ SendRelayHealth \/ IngressCancelled
    \/ \E r \in ReadRelays : NextEvent(r)
    \/ \E g \in Groups : SubscriptionEnds(g) \/ Retry(g) \/ Connected(g) \/ ConnectFails(g)
    \/ Take \/ ChannelClosed \/ Processed \/ ProviderFails \/ SendProviderHealth
    \/ BackoffOver \/ ProcessFails \/ DispatchCancelled
    \/ \E t \in Tasks : StateChange(t) \/ TaskEnds(t)
    \/ HealthEvent \/ RefreshFails \/ OperationsJoined
    \/ \E cause \in {"signal", "signal_error", "task"} : LeaveLoop(cause)
    \/ EnterPhase \/ LeavePhase \/ PhaseFails \/ ForceStop \/ Finish
    \/ Exited

Spec == Init /\ [][Next]_vars

(***************************************************************************)
(* Fairness: the runtime polls every task that can go on, the host goes    *)
(* through its phases, relays let a subscription succeed in the end (the   *)
(* bounds make failures finite).  No event, outage, signal, failure or     *)
(* other task's change is ever forced to happen.                           *)
(***************************************************************************)
FairSpec ==
    /\ Spec
    /\ WF_vars(Sleep) /\ WF_vars(SendItem) /\ WF_vars(SendRelayHealth)
    /\ WF_vars(IngressCancelled)
    /\ \A g \in Groups : WF_vars(Retry(g)) /\ WF_vars(Connected(g) \/ ConnectFails(g))
    /\ WF_vars(Take) /\ WF_vars(ChannelClosed) /\ WF_vars(SendProviderHealth)
    /\ WF_vars(Processed \/ ProviderFails \/ ProcessFails)
    /\ WF_vars(BackoffOver) /\ WF_vars(DispatchCancelled)
    /\ WF_vars(HealthEvent \/ RefreshFails) /\ WF_vars(LeaveLoop("task"))
    /\ \A t \in Tasks : WF_vars(Cancelled(t) /\ TaskEnds(t))
    /\ WF_vars(EnterPhase \/ PhaseFails) /\ WF_vars(LeavePhase) /\ WF_vars(Finish)

Queued(kind) == \E i \in DOMAIN healthQueue : healthQueue[i][1] = kind

\* Once the health channel holds no report of a bit and its task is not about
\* to send one, the status document shows that bit as it is, in the transport's
\* or the provider's health, in readiness and among the reasons: no
\* interleaving of outages, reconnects, provider failures and the listener's
\* end leaves the published health behind (send_required_relay_health,
\* send_provider_health, RuntimeHealth::observe, observation).
StatusSettles ==
    main = "loop" =>
        /\ ~Queued("required_relays") /\ ingress.pc \notin {"report", "ended"} =>
               /\ published.transport.health = "ready" <=> required_relays_ready(slots)
               /\ ~required_relays_ready(slots) =>
                      ~published.ready /\ "required_relay_unavailable" \in published.reasons
        /\ ~Queued("providers") /\ dispatch.pc \notin {"report", "ended"} =>
               /\ published.provider = "ready" <=> dispatch.ok
               /\ ~dispatch.ok =>
                      ~published.ready /\ "signer_provider_unavailable" \in published.reasons
        /\ published.reasons \subseteq {"operations_listener_failed"} => published.ready

\* While the ingress task lives, the checkpoint of a relay counts exactly the
\* events that were handed on: each one processed, in the batch, in the channel
\* or in the task's hand, once.  A checkpoint ahead of them would skip events
\* at the next subscription, one behind would repeat them
\* (handle_ingress_action, replace_checkpoint, run_provider_dispatch).
CheckpointsFollow ==
    LET inFlight == batch \o channel \o (IF ingress.item = <<>> THEN <<>> ELSE <<ingress.item>>)
    IN Running("relay_ingress") /\ Running("provider_dispatch") =>
        /\ IsInjective(inFlight)
        /\ \A r \in ReadRelays :
            LET waiting == {inFlight[i][2] : i \in {j \in DOMAIN inFlight : inFlight[j][1] = r}}
            IN handled[r] \cap waiting = {} /\ handled[r] \cup waiting = 1..checkpoint[r]

\* Counts that no longer describe the database are read again: the news is
\* still in the health channel, unless the full channel refused it
\* (try_send of StateChanged, refresh_state).
StaleCountsAreTold ==
    main = "loop" /\ counts = "stale" => Queued("state_changed")

\* Unless it was forced, the shutdown closes the database only when the tasks
\* that write requests and deliveries have returned (task_metadata and the
\* shutdown phases).
WritersStopBeforeClose ==
    stop.closed /\ ~stop.forced =>
        {"relay_ingress", "provider_dispatch", "delivery_outbox"} \subseteq ended

\* The process reports success exactly for a stop that a signal asked for and
\* that ran to its end: every task returned, the database closed, stopping
\* published.  A signalled stop that was not forced fails only when a task or
\* a phase did, such as dispatch when it finds its channel closed before it is
\* cancelled (run_myc_daemon_inner, run_provider_dispatch).
ExitTellsTheStop ==
    main = "exited" /\ stop.phase > 0 =>
        /\ result = "success" =>
               /\ stop.signalled /\ ~stop.forced /\ stop.closed
               /\ ended = Tasks /\ published.phase = "stopping"
        /\ stop.signalled /\ ~stop.forced /\ ~stop.fault => result = "success"

\* A group whose subscription ended subscribes again, as long as the daemon
\* runs: the delay starts over with every event the other group brings, so
\* this rests on that group falling quiet at times (poll_ingress_slot).
GroupsReturn ==
    \A g \in Groups : slots[g].state # "active" /\ main = "loop"
                          ~> slots[g].state = "active" \/ main # "loop"

\* A daemon that publishes not ready publishes ready again once its relays and
\* its provider answer, or it stops (run_relay_ingress, run_provider_dispatch).
ReadyReturns == main = "loop" /\ ~published.ready ~> published.ready \/ main # "loop"

\* A shutdown ends, whatever the tasks were waiting for when it began
\* (every wait of a task also waits for its cancellation).
StopEnds == main = "stopping" ~> main = "exited"

\* The published status is true, or news that corrects it is on its way over the
\* bounded channels (RuntimeStatusContext::observation, refresh_state).
StatusTruthful == TypeOK /\ StatusSettles /\ StaleCountsAreTold

\* A stop goes through its phases in order, no writer outlives the database, and
\* the exit result says how it ended (run_myc_daemon_inner, task_metadata).
StopOrderly == WritersStopBeforeClose /\ ExitTellsTheStop

\* What an outage took comes back while the daemon runs: the subscriptions, and
\* with them readiness (run_relay_ingress, run_provider_dispatch).
HealthReturns == GroupsReturn /\ ReadyReturns

=============================================================================
