----------------------------- MODULE RuntimeProofs -----------------------------
(***************************************************************************)
(* Machine-checked proofs about the daemon's task graph, for every set of  *)
(* relays and groups, every queue capacity and every number of events,     *)
(* outages and failures.                                                   *)
(*                                                                         *)
(* Three arguments that share little but their typing: how far the         *)
(* shutdown is and who must have returned by then (Stopping), what the     *)
(* health channel still has to tell the main loop (Told), and where every  *)
(* event of a relay is between its checkpoint and its processing           *)
(* (Followed).                                                             *)
(***************************************************************************)
EXTENDS ServiceRuntime, SequenceTheorems, TLAPS

StopRecords == [phase : 0..7, entered : BOOLEAN, signalled : BOOLEAN,
                forced : BOOLEAN, fault : BOOLEAN, closed : BOOLEAN]

LEMMA PhasesKnown ==
    /\ Len(ShutdownPhases) = 7
    /\ ShutdownPhases[1] = "reject_new_mutations" /\ ShutdownPhases[2] = "cancel_ingress"
    /\ ShutdownPhases[3] = "drain_operations" /\ ShutdownPhases[4] = "persist_recoverable_work"
    /\ ShutdownPhases[5] = "close_network" /\ ShutdownPhases[6] = "close_sqlite"
    /\ ShutdownPhases[7] = "close_sockets"
BY DEF ShutdownPhases

\* Which phase waits for which task.
LEMMA PhaseTasksKnown ==
    /\ "relay_ingress" \in PhaseTasks(2)
    /\ "provider_dispatch" \in PhaseTasks(3)
    /\ "delivery_outbox" \in PhaseTasks(4)
    /\ "admin_server" \in PhaseTasks(7)
    /\ OperationsEnabled => "operations_server" \in PhaseTasks(7)
BY PhasesKnown, RuntimeAssumption DEF PhaseTasks, PhaseOf, Spawned, Tasks

\* Where the shutdown stands.
Stopping ==
    /\ stop \in StopRecords /\ ended \subseteq Tasks
    /\ main \in {"starting", "loop", "stopping", "exited"}
    /\ main \in {"starting", "loop"} =>
          stop.phase = 0 /\ ~stop.entered /\ ~stop.forced
    /\ main = "stopping" => stop.phase \in 1..7 /\ ~stop.forced
    /\ main # "starting" => Tasks \ Spawned \subseteq ended
    /\ ~stop.forced => \A n \in 1..7 : n < stop.phase => PhaseTasks(n) \subseteq ended
    /\ stop.closed => stop.phase > 6 \/ (stop.phase = 6 /\ stop.entered)
    /\ stop.phase > 6 \/ (stop.phase = 6 /\ stop.entered) => stop.closed
    /\ main = "stopping" /\ (stop.phase > 1 \/ stop.entered) => published.phase = "stopping"
    /\ ExitTellsTheStop

\* The record after a task's fault.
SameStop(s, n) ==
    /\ n \in StopRecords /\ n.phase = s.phase /\ n.entered = s.entered /\ n.signalled = s.signalled
    /\ n.forced = s.forced /\ n.closed = s.closed /\ (s.fault => n.fault)

\* A step of a task, or of the main loop before the shutdown.
Aside ==
    /\ main' = main /\ result' = result
    /\ ended \subseteq ended' /\ ended' \subseteq Tasks
    /\ published' = published \/ main = "loop"
    /\ SameStop(stop, stop')

LEMMA AsideStopping ==
    ASSUME Stopping, Aside
    PROVE  Stopping'
<1>1. \A n \in 1..7 : PhaseTasks(n)' = PhaseTasks(n)
  BY DEF PhaseTasks
<1>2. ExitTellsTheStop'
  BY DEF Stopping, Aside, SameStop, ExitTellsTheStop
<1>3. ~stop.forced => \A n \in 1..7 : n < stop.phase => PhaseTasks(n) \subseteq ended'
  BY DEF Stopping, Aside
<1>4. Tasks \ Spawned \subseteq ended => Tasks \ Spawned \subseteq ended'
  BY DEF Aside
<1> QED
  BY <1>2, <1>3, <1>4 DEF Stopping, Aside, SameStop

LEMMA SameStopHolds ==
    ASSUME stop \in StopRecords
    PROVE  /\ SameStop(stop, stop)
           /\ SameStop(stop, [stop EXCEPT !.fault = TRUE])
           /\ \A b \in BOOLEAN : SameStop(stop, [stop EXCEPT !.fault = @ \/ b])
BY DEF SameStop, StopRecords

LEMMA TasksAside ==
    ASSUME Stopping,
           \/ Sleep \/ SendItem \/ SendItemFails \/ SendRelayHealth \/ IngressCancelled
           \/ \E r \in ReadRelays : NextEvent(r)
           \/ \E g \in Groups : SubscriptionEnds(g) \/ Retry(g) \/ Connected(g) \/ ConnectFails(g)
           \/ Take \/ ChannelClosed \/ Processed \/ ProviderFails \/ SendProviderHealth
           \/ BackoffOver \/ ProcessFails \/ DispatchCancelled
           \/ \E t \in Tasks : StateChange(t) \/ TaskEnds(t)
           \/ HealthEvent \/ OperationsJoined
    PROVE  Aside
<1>1. stop \in StopRecords /\ ended \subseteq Tasks
  BY DEF Stopping
<1>2. CASE Sleep \/ SendItem \/ SendRelayHealth \/ (\E r \in ReadRelays : NextEvent(r))
           \/ \E g \in Groups : SubscriptionEnds(g) \/ Retry(g) \/ Connected(g) \/ ConnectFails(g)
  <2>1. UNCHANGED mainVars
    BY <1>2 DEF Sleep, SendItem, SendRelayHealth, NextEvent, SubscriptionEnds, Retry, Connected,
                ConnectFails
  <2> QED
    BY <1>1, <2>1, SameStopHolds DEF Aside, mainVars
<1>3. CASE SendItemFails \/ IngressCancelled \/ ChannelClosed \/ ProcessFails \/ DispatchCancelled
  BY <1>1, <1>3, SameStopHolds DEF SendItemFails, IngressCancelled, ChannelClosed, ProcessFails,
                                   DispatchCancelled, Aside, Tasks
<1>4. CASE Take \/ Processed \/ ProviderFails \/ SendProviderHealth \/ BackoffOver
           \/ \E t \in Tasks : StateChange(t)
  <2>1. UNCHANGED <<published, main, stop, ended, result>>
    BY <1>4 DEF Take, Processed, ProviderFails, SendProviderHealth, BackoffOver, StateChange, mainVars
  <2> QED
    BY <1>1, <2>1, SameStopHolds DEF Aside
<1>5. ASSUME NEW t \in Tasks, TaskEnds(t)
      PROVE  Aside
  <2>1. stop' = stop \/ stop' = [stop EXCEPT !.fault = @ \/ (t # "operations_server")]
    BY <1>5 DEF TaskEnds
  <2>2. (t # "operations_server") \in BOOLEAN
    OBVIOUS
  <2>3. SameStop(stop, stop')
    BY <1>1, <2>1, <2>2, SameStopHolds
  <2> QED
    BY <1>1, <1>5, <2>3 DEF TaskEnds, Aside
<1>6. CASE HealthEvent \/ OperationsJoined
  BY <1>1, <1>6, SameStopHolds DEF HealthEvent, OperationsJoined, Aside
<1> QED
  BY <1>2, <1>3, <1>4, <1>5, <1>6

-----------------------------------------------------------------------------
LEMMA PublishedPhase ==
    ASSUME NEW phase, NEW h
    PROVE  Observation(phase, h).phase = phase
BY DEF Observation

LEMMA StartStopping ==
    ASSUME Stopping, Start \/ StartFails
    PROVE  Stopping'
<1>1. stop' = stop /\ stop \in StopRecords /\ stop.phase = 0 /\ ~stop.entered /\ ~stop.forced
  BY DEF Start, StartFails, Stopping
<1>2. main' \in {"loop", "exited"} /\ Tasks \ Spawned \subseteq ended' /\ ended' \subseteq Tasks
  BY DEF Start, StartFails, Exit
<1> QED
  BY <1>1, <1>2 DEF Stopping, ExitTellsTheStop

LEMMA LeaveStopping ==
    ASSUME Stopping,
           RefreshFails \/ \E cause \in {"signal", "signal_error", "task"} : LeaveLoop(cause)
    PROVE  Stopping'
<1>1. CASE RefreshFails
  <2>1. main = "loop" /\ main' = "exited" /\ stop' = stop /\ ended' = ended
    BY <1>1 DEF RefreshFails, Exit
  <2> QED
    BY <2>1 DEF Stopping, ExitTellsTheStop
<1>2. ASSUME NEW cause, LeaveLoop(cause)
      PROVE  Stopping'
  <2>1. /\ main = "loop" /\ main' = "stopping" /\ ended' = ended /\ published' = published
        /\ stop' = [stop EXCEPT !.signalled = (cause = "signal"), !.phase = 1]
    BY <1>2 DEF LeaveLoop
  <2>2. stop \in StopRecords /\ stop.phase = 0 /\ ~stop.entered /\ ~stop.forced /\ ~stop.closed
    BY <2>1 DEF Stopping
  <2>3. /\ stop' \in StopRecords /\ stop'.phase = 1 /\ ~stop'.entered /\ ~stop'.forced
        /\ ~stop'.closed
    <3> DEFINE b == cause = "signal"
    <3>1. b \in BOOLEAN /\ stop' = [stop EXCEPT !.signalled = b, !.phase = 1]
      BY <2>1
    <3> HIDE DEF b
    <3>2. stop' = [phase |-> 1, entered |-> stop.entered, signalled |-> b, forced |-> stop.forced,
                   fault |-> stop.fault, closed |-> stop.closed]
      BY <2>2, <3>1 DEF StopRecords
    <3> QED
      BY <2>2, <3>1, <3>2 DEF StopRecords
  <2> QED
    BY <2>1, <2>3 DEF Stopping, ExitTellsTheStop
<1> QED
  BY <1>1, <1>2

LEMMA PhaseStopping ==
    ASSUME Stopping, EnterPhase \/ LeavePhase
    PROVE  Stopping'
<1>1. /\ main = "stopping" /\ main' = "stopping" /\ ended' = ended /\ stop \in StopRecords
      /\ stop.phase \in 1..7 /\ ~stop.forced /\ ended \subseteq Tasks
      /\ Tasks \ Spawned \subseteq ended
  BY DEF Stopping, EnterPhase, LeavePhase
<1>2. CASE EnterPhase
  <2>1. /\ ~stop.entered
        /\ stop' = [stop EXCEPT !.entered = TRUE,
                                !.closed = @ \/ ShutdownPhases[stop.phase] = "close_sqlite"]
        /\ published' = IF ShutdownPhases[stop.phase] = "reject_new_mutations"
                        THEN Observation("stopping", health) ELSE published
    BY <1>2 DEF EnterPhase
  <2>2. ShutdownPhases[stop.phase] = "close_sqlite" <=> stop.phase = 6
    BY <1>1, PhasesKnown
  <2>3. /\ stop' \in StopRecords /\ stop'.phase = stop.phase /\ stop'.entered /\ ~stop'.forced
        /\ stop'.closed <=> (stop.closed \/ stop.phase = 6)
    BY <1>1, <2>1, <2>2 DEF StopRecords
  <2>4. published'.phase = "stopping"
    <3>1. CASE stop.phase = 1
      BY <2>1, <3>1, PhasesKnown, PublishedPhase
    <3>2. CASE stop.phase # 1
      <4>1. ShutdownPhases[stop.phase] # "reject_new_mutations"
        BY <1>1, <3>2, PhasesKnown
      <4> QED
        BY <1>1, <2>1, <3>2, <4>1 DEF Stopping
    <3> QED
      BY <3>1, <3>2
  <2> QED
    BY <1>1, <2>3, <2>4 DEF Stopping, ExitTellsTheStop
<1>3. CASE LeavePhase
  <2>1. /\ stop.entered /\ PhaseTasks(stop.phase) \subseteq ended /\ stop.phase < 7
        /\ stop' = [stop EXCEPT !.phase = @ + 1, !.entered = FALSE] /\ published' = published
    BY <1>3, PhasesKnown DEF LeavePhase
  <2>2. /\ stop' \in StopRecords /\ stop'.phase = stop.phase + 1 /\ ~stop'.entered /\ ~stop'.forced
        /\ stop'.closed = stop.closed /\ stop'.phase \in 1..7
    <3>1. stop' = [phase |-> stop.phase + 1, entered |-> FALSE, signalled |-> stop.signalled,
                   forced |-> stop.forced, fault |-> stop.fault, closed |-> stop.closed]
      BY <1>1, <2>1 DEF StopRecords
    <3>2. stop.phase + 1 \in 0..7 /\ stop.phase + 1 \in 1..7
      BY <1>1, <2>1
    <3> QED
      BY <1>1, <3>1, <3>2 DEF StopRecords
  <2>3. \A n \in 1..7 : n < stop'.phase => PhaseTasks(n) \subseteq ended'
    BY <1>1, <2>1, <2>2 DEF Stopping
  <2> QED
    BY <1>1, <2>1, <2>2, <2>3 DEF Stopping, ExitTellsTheStop
<1> QED
  BY <1>2, <1>3

\* Everyone has returned when the last phase is over.
LEMMA AllReturned ==
    ASSUME Stopping, main = "stopping", stop.phase = 7, PhaseTasks(7) \subseteq ended
    PROVE  ended = Tasks
<1>1. \A n \in 1..7 : PhaseTasks(n) \subseteq ended
  BY DEF Stopping
<1>2. {"relay_ingress", "provider_dispatch", "delivery_outbox", "admin_server"} \subseteq ended
  BY <1>1, PhaseTasksKnown
<1>3. "operations_server" \in ended
  <2>1. CASE OperationsEnabled
    BY <2>1, <1>1, PhaseTasksKnown
  <2>2. CASE ~OperationsEnabled
    BY <2>2 DEF Stopping, Spawned, Tasks
  <2> QED
    BY <2>1, <2>2
<1> QED
  BY <1>2, <1>3 DEF Tasks, Stopping

LEMMA ExitStopping ==
    ASSUME Stopping, PhaseFails \/ ForceStop \/ Finish
    PROVE  Stopping'
<1>1. /\ main = "stopping" /\ main' = "exited" /\ published' = published /\ stop \in StopRecords
      /\ stop.phase \in 1..7 /\ ~stop.forced /\ ended \subseteq Tasks /\ Tasks \ Spawned \subseteq ended
  BY DEF Stopping, PhaseFails, ForceStop, Finish, Exit
<1>2. CASE PhaseFails
  <2>1. /\ stop' = [stop EXCEPT !.fault = TRUE] /\ ended' = ended /\ result' = "unexpected_internal"
    BY <1>2 DEF PhaseFails, Exit
  <2>2. SameStop(stop, stop') /\ stop'.fault
    BY <1>1, <2>1, SameStopHolds DEF StopRecords
  <2> QED
    BY <1>1, <2>1, <2>2 DEF Stopping, SameStop, ExitTellsTheStop
<1>3. CASE ForceStop
  <2>1. /\ stop' = [stop EXCEPT !.forced = TRUE] /\ ended' = Tasks /\ result' = "unexpected_internal"
    BY <1>3 DEF ForceStop, Exit
  <2>2. /\ stop' \in StopRecords /\ stop'.forced /\ stop'.phase = stop.phase
        /\ stop'.closed = stop.closed /\ stop'.entered = stop.entered
    BY <1>1, <2>1 DEF StopRecords
  <2> QED
    BY <1>1, <2>1, <2>2 DEF Stopping, ExitTellsTheStop
<1>4. CASE Finish
  <2>1. /\ stop' = stop /\ ended' = ended /\ stop.entered /\ stop.phase = 7
        /\ PhaseTasks(7) \subseteq ended
        /\ \E completed \in {TRUE} \cup (IF stop.fault THEN {FALSE} ELSE {}) :
              result' = IF completed /\ stop.signalled THEN "success" ELSE "unexpected_internal"
    BY <1>4, PhasesKnown DEF Finish, Exit
  <2>2. ended = Tasks
    BY <1>1, <2>1, AllReturned
  <2>3. stop.closed /\ published.phase = "stopping"
    BY <1>1, <2>1 DEF Stopping
  <2>4. /\ result' = "success" => stop.signalled
        /\ stop.signalled /\ ~stop.fault => result' = "success"
    BY <2>1
  <2> QED
    BY <1>1, <2>1, <2>2, <2>3, <2>4 DEF Stopping, ExitTellsTheStop
<1> QED
  BY <1>2, <1>3, <1>4

LEMMA StoppingStep ==
    ASSUME Stopping, [Next]_vars
    PROVE  Stopping'
<1>1. CASE UNCHANGED vars
  BY <1>1 DEF vars, mainVars, Stopping, ExitTellsTheStop
<1> QED
  BY <1>1, TasksAside, AsideStopping, StartStopping, LeaveStopping, PhaseStopping, ExitStopping
     DEF Next, Exited

LEMMA StoppingStart ==
    ASSUME Init
    PROVE  Stopping
BY PhasesKnown DEF Init, Stopping, StopRecords, ExitTellsTheStop

\* The database is closed only after ingress, dispatch and the outbox returned, and the exit
\* result says how the stop ended, whatever fails, ends early or is forced while it goes through
\* its phases (run_myc_daemon_inner, task_metadata).
THEOREM StopOrderlyCorrect == Spec => []StopOrderly
<1>1. Spec => []Stopping
  BY StoppingStart, StoppingStep, PTL DEF Spec
<1>2. ASSUME Stopping
      PROVE  StopOrderly
  <2>1. ASSUME stop.closed, ~stop.forced
        PROVE  {"relay_ingress", "provider_dispatch", "delivery_outbox"} \subseteq ended
    <3>1. stop.phase > 5 /\ stop.phase \in Nat
      BY <1>2, <2>1 DEF Stopping, StopRecords
    <3>2. PhaseTasks(2) \subseteq ended /\ PhaseTasks(3) \subseteq ended /\ PhaseTasks(4) \subseteq ended
      BY <1>2, <2>1, <3>1 DEF Stopping
    <3> QED
      BY <3>2, PhaseTasksKnown
  <2> QED
    BY <1>2, <2>1 DEF StopOrderly, WritersStopBeforeClose, Stopping
<1> QED
  BY <1>1, <1>2, PTL

-----------------------------------------------------------------------------
(***************************************************************************)
(* Where every event is.  The events between a relay's checkpoint and their*)
(* processing form one sequence, over the batch, the channel and the hand  *)
(* of the ingress task: taking one appends to it, processing takes its     *)
(* head, and moving items from place to place leaves it as it is.          *)
(***************************************************************************)
InFlight(b, c, item) == b \o c \o (IF item = <<>> THEN <<>> ELSE <<item>>)

Waiting(q, r) == {q[i][2] : i \in {j \in DOMAIN q : q[j][1] = r}}

Accounted(q, h, cp) ==
    /\ IsInjective(q)
    /\ \A r \in ReadRelays :
          h[r] \cap Waiting(q, r) = {} /\ h[r] \cup Waiting(q, r) = 1..cp[r]

LEMMA ItemsKnown ==
    /\ \A x \in Items : x # <<>> /\ x[1] \in ReadRelays /\ x[2] \in 1..MaxEvents[x[1]]
                       /\ x = <<x[1], x[2]>> /\ x[2] \in Nat
    /\ \A r \in ReadRelays : \A n \in 1..MaxEvents[r] : <<r, n>> \in Items
<1>1. \A r \in ReadRelays : MaxEvents[r] \in Nat
  BY RuntimeAssumption
<1>2. ASSUME NEW x \in Items
      PROVE  /\ x # <<>> /\ x[1] \in ReadRelays /\ x[2] \in 1..MaxEvents[x[1]]
             /\ x = <<x[1], x[2]>> /\ x[2] \in Nat
  <2>1. PICK r \in ReadRelays : x \in {r} \X (1..MaxEvents[r])
    BY DEF Items
  <2>2. PICK n \in 1..MaxEvents[r] : x = <<r, n>>
    BY <2>1
  <2>3. x # <<>>
    BY <2>2
  <2> QED
    BY <1>1, <2>2, <2>3
<1>3. ASSUME NEW r \in ReadRelays, NEW n \in 1..MaxEvents[r]
      PROVE  <<r, n>> \in Items
  BY DEF Items
<1> QED
  BY <1>2, <1>3

LEMMA EventTaken ==
    ASSUME NEW q \in Seq(Items), NEW h, NEW cp \in [ReadRelays -> Nat], NEW r \in ReadRelays,
           Accounted(q, h, cp), cp[r] + 1 \in 1..MaxEvents[r]
    PROVE  Accounted(Append(q, <<r, cp[r] + 1>>), h, [cp EXCEPT ![r] = cp[r] + 1])
<1> DEFINE n == cp[r] + 1
           x == <<r, n>>
           p == Append(q, x)
           l == Len(q) + 1
<1>1. x \in Items /\ x[1] = r /\ x[2] = n /\ n \in Nat /\ cp[r] \in Nat /\ n = cp[r] + 1
  BY ItemsKnown
<1> HIDE DEF n, x
<1>2. /\ p \in Seq(Items) /\ Len(p) = l /\ DOMAIN p = 1..l /\ DOMAIN q = 1..Len(q) /\ Len(q) \in Nat
      /\ \A i \in 1..Len(q) : p[i] = q[i]
      /\ p[l] = x
  BY <1>1, AppendProperties, LenProperties
<1> HIDE DEF p
<1>3. Waiting(p, r) = Waiting(q, r) \cup {n}
  BY <1>1, <1>2 DEF Waiting
<1>4. ASSUME NEW s \in ReadRelays, s # r
      PROVE  Waiting(p, s) = Waiting(q, s)
  <2>1. {j \in DOMAIN p : p[j][1] = s} = {j \in DOMAIN q : q[j][1] = s}
    BY <1>1, <1>2, <1>4
  <2>2. \A j \in {j \in DOMAIN q : q[j][1] = s} : p[j] = q[j]
    BY <1>2
  <2> QED
    BY <2>1, <2>2 DEF Waiting
<1>5. n \notin 1..cp[r] /\ 1..n = (1..cp[r]) \cup {n}
  BY <1>1
<1>6. n \notin h[r] /\ n \notin Waiting(q, r)
  BY <1>5 DEF Accounted
<1>7. \A i \in 1..Len(q) : q[i] # x
  BY <1>1, <1>2, <1>6 DEF Waiting
<1>8. IsInjective(p)
  <2>1. ASSUME NEW a \in 1..l, NEW b \in 1..l, p[a] = p[b]
        PROVE  a = b
    <3>1. (a \in 1..Len(q) \/ a = l) /\ (b \in 1..Len(q) \/ b = l)
      BY <1>2
    <3>2. ASSUME a \in 1..Len(q), b \in 1..Len(q)
          PROVE  a = b
      BY <1>2, <2>1, <3>2 DEF Accounted, IsInjective
    <3> QED
      BY <1>2, <1>7, <2>1, <3>1, <3>2
  <2> QED
    BY <1>2, <2>1 DEF IsInjective
<1>9. ASSUME NEW s \in ReadRelays
      PROVE  /\ h[s] \cap Waiting(p, s) = {}
             /\ h[s] \cup Waiting(p, s) = 1..[cp EXCEPT ![r] = n][s]
  <2>1. h[s] \cap Waiting(q, s) = {} /\ h[s] \cup Waiting(q, s) = 1..cp[s]
    BY DEF Accounted
  <2>2. CASE s # r
    BY <1>4, <2>1, <2>2
  <2>3. CASE s = r
    <3>1. [cp EXCEPT ![r] = n][s] = n
      BY <2>3
    <3>2. h[s] \cap Waiting(p, s) = {} /\ h[s] \cup Waiting(p, s) = (1..cp[r]) \cup {n}
      BY <1>3, <1>6, <2>1, <2>3
    <3> QED
      BY <1>5, <3>1, <3>2
  <2> QED
    BY <2>2, <2>3
<1> QED
  BY <1>1, <1>8, <1>9 DEF Accounted, p, x, n

LEMMA HeadDone ==
    ASSUME NEW q \in Seq(Items), q # <<>>, NEW h \in [ReadRelays -> SUBSET Nat], NEW cp,
           Accounted(q, h, cp)
    PROVE  Accounted(Tail(q), [h EXCEPT ![Head(q)[1]] = @ \cup {Head(q)[2]}], cp)
<1> DEFINE x == Head(q)
           p == Tail(q)
           k == [h EXCEPT ![x[1]] = @ \cup {x[2]}]
           l == Len(q) - 1
<1>1. /\ x \in Items /\ x = q[1] /\ x[1] \in ReadRelays /\ x[2] \in Nat
      /\ p \in Seq(Items) /\ Len(p) = l /\ DOMAIN p = 1..l /\ DOMAIN q = 1..Len(q)
      /\ Len(q) \in Nat \ {0} /\ l \in Nat
      /\ \A i \in 1..l : p[i] = q[i + 1]
  BY HeadTailProperties, LenProperties, EmptySeq, ItemsKnown
<1> HIDE DEF x, p
<1>2. \A a \in 1..Len(q), b \in 1..Len(q) : q[a] = q[b] => a = b
  BY <1>1 DEF Accounted, IsInjective
<1>3. IsInjective(p)
  <2>1. ASSUME NEW a \in 1..l, NEW b \in 1..l, p[a] = p[b]
        PROVE  a = b
    <3>1. a + 1 \in 1..Len(q) /\ b + 1 \in 1..Len(q) /\ q[a + 1] = q[b + 1]
      BY <1>1, <2>1
    <3> QED
      BY <1>1, <1>2, <3>1
  <2> QED
    BY <1>1, <2>1 DEF IsInjective
<1>4. ASSUME NEW r \in ReadRelays
      PROVE  Waiting(q, r) = Waiting(p, r) \cup (IF x[1] = r THEN {x[2]} ELSE {})
  <2>1. ASSUME NEW v \in Waiting(q, r)
        PROVE  v \in Waiting(p, r) \/ (x[1] = r /\ v = x[2])
    <3>1. PICK i \in 1..Len(q) : q[i][1] = r /\ v = q[i][2]
      BY <1>1 DEF Waiting
    <3>2. CASE i = 1
      BY <1>1, <3>1, <3>2
    <3>3. CASE i # 1
      <4>1. i - 1 \in 1..l /\ p[i - 1] = q[i]
        BY <1>1, <3>3
      <4> QED
        BY <1>1, <3>1, <4>1 DEF Waiting
    <3> QED
      BY <3>2, <3>3
  <2>2. ASSUME NEW v \in Waiting(p, r)
        PROVE  v \in Waiting(q, r)
    <3>1. PICK i \in 1..l : p[i][1] = r /\ v = p[i][2]
      BY <1>1 DEF Waiting
    <3>2. i + 1 \in 1..Len(q) /\ p[i] = q[i + 1]
      BY <1>1
    <3> QED
      BY <1>1, <3>1, <3>2 DEF Waiting
  <2>3. x[1] = r => x[2] \in Waiting(q, r)
    BY <1>1 DEF Waiting
  <2> QED
    BY <2>1, <2>2, <2>3
<1>5. x[2] \notin Waiting(p, x[1])
  <2>1. ASSUME NEW i \in 1..l, p[i][1] = x[1], p[i][2] = x[2]
        PROVE  FALSE
    <3>1. i + 1 \in 1..Len(q) /\ p[i] = q[i + 1] /\ i + 1 # 1 /\ 1 \in 1..Len(q)
      BY <1>1
    <3>2. q[i + 1] \in Items /\ x \in Items
      BY <1>1, <3>1, ElementOfSeq
    <3>3. q[i + 1] = x
      BY <2>1, <3>1, <3>2, ItemsKnown
    <3> QED
      BY <1>1, <1>2, <3>1, <3>3
  <2> QED
    BY <1>1, <2>1 DEF Waiting
<1>6. ASSUME NEW r \in ReadRelays
      PROVE  k[r] \cap Waiting(p, r) = {} /\ k[r] \cup Waiting(p, r) = 1..cp[r]
  <2>1. h[r] \cap Waiting(q, r) = {} /\ h[r] \cup Waiting(q, r) = 1..cp[r]
    BY DEF Accounted
  <2>2. k[r] = h[r] \cup (IF x[1] = r THEN {x[2]} ELSE {})
    BY <1>1
  <2> HIDE DEF k
  <2> QED
    BY <1>4, <1>5, <2>1, <2>2
<1> QED
  BY <1>3, <1>6 DEF Accounted, x, p

LEMMA MovedTogether ==
    \A s, t, u \in Seq(Items) : (s \o t) \o u = s \o (t \o u)
BY ConcatAssociative

LEMMA FlightMoves ==
    ASSUME NEW b \in Seq(Items), NEW c \in Seq(Items), NEW item \in Items \cup {<<>>}
    PROVE  /\ InFlight(b, c, item) \in Seq(Items)
           /\ item # <<>> => InFlight(b, Append(c, item), <<>>) = InFlight(b, c, item)
           /\ \A x \in Items : InFlight(b, c, x) = Append(InFlight(b, c, <<>>), x)
           /\ b # <<>> => /\ InFlight(b, c, item) # <<>>
                          /\ Head(InFlight(b, c, item)) = Head(b)
                          /\ Tail(InFlight(b, c, item)) = InFlight(Tail(b), c, item)
           /\ \A n \in 0..Len(c) :
                 InFlight(b \o SubSeq(c, 1, n), SubSeq(c, n + 1, Len(c)), item)
                     = InFlight(b, c, item)
<1> DEFINE hand == IF item = <<>> THEN <<>> ELSE <<item>>
<1>1. hand \in Seq(Items) /\ b \o c \in Seq(Items) /\ <<>> \in Seq(Items)
  BY ConcatProperties, EmptySeq
<1>2. InFlight(b, c, item) = (b \o c) \o hand /\ InFlight(b, c, item) \in Seq(Items)
  BY <1>1, ConcatProperties DEF InFlight
<1>3. \A x \in Items : InFlight(b, c, x) = Append(InFlight(b, c, <<>>), x)
  <2>1. InFlight(b, c, <<>>) = b \o c
    BY <1>1, ConcatEmptySeq DEF InFlight
  <2> QED
    BY <1>1, <2>1, AppendIsConcat, ItemsKnown DEF InFlight
<1>4. ASSUME item # <<>>
      PROVE  InFlight(b, Append(c, item), <<>>) = InFlight(b, c, item)
  <2>1. item \in Items /\ <<item>> \in Seq(Items)
    BY <1>1, <1>4
  <2>2. Append(c, item) = c \o <<item>> /\ Append(c, item) \in Seq(Items)
    BY <2>1, AppendIsConcat, AppendProperties
  <2>3. InFlight(b, Append(c, item), <<>>) = b \o Append(c, item)
    BY <2>2, ConcatProperties, ConcatEmptySeq DEF InFlight
  <2>4. InFlight(b, c, item) = (b \o c) \o <<item>>
    BY <1>4 DEF InFlight
  <2> QED
    <3> DEFINE one == <<item>>
    <3>1. one \in Seq(Items) /\ Append(c, item) = c \o one /\ InFlight(b, c, item) = (b \o c) \o one
      BY <2>1, <2>2, <2>4
    <3> HIDE DEF one
    <3>2. (b \o c) \o one = b \o (c \o one)
      BY <3>1, MovedTogether, Zenon
    <3> QED
      BY <2>3, <3>1, <3>2
<1>5. ASSUME b # <<>>
      PROVE  /\ InFlight(b, c, item) # <<>>
             /\ Head(InFlight(b, c, item)) = Head(b)
             /\ Tail(InFlight(b, c, item)) = InFlight(Tail(b), c, item)
  <2> DEFINE t == c \o hand
  <2> HIDE DEF hand
  <2>1. t \in Seq(Items) /\ InFlight(b, c, item) = b \o t
    BY <1>1, <1>2, ConcatProperties, ConcatAssociative
  <2>2. Tail(b) \in Seq(Items) /\ InFlight(Tail(b), c, item) = Tail(b) \o t
    <3>1. Tail(b) \in Seq(Items)
      BY <1>5, HeadTailProperties
    <3>2. InFlight(Tail(b), c, item) = (Tail(b) \o c) \o hand
      BY DEF InFlight, hand
    <3> QED
      BY <1>1, <3>1, <3>2, MovedTogether, Zenon
  <2> HIDE DEF t
  <2>3. Len(b) \in Nat \ {0} /\ Len(t) \in Nat
    BY <1>5, <2>1, EmptySeq, LenProperties
  <2>4. /\ b \o t \in Seq(Items) /\ Len(b \o t) = Len(b) + Len(t)
        /\ \A i \in 1..Len(b) + Len(t) : (b \o t)[i] = IF i <= Len(b) THEN b[i] ELSE t[i - Len(b)]
    BY <2>1, ConcatProperties
  <2>5. b \o t # <<>> /\ Head(b \o t) = Head(b)
    BY <2>3, <2>4
  <2>6. Tail(b \o t) = Tail(b) \o t
    <3>1. /\ Tail(b \o t) \in Seq(Items) /\ Len(Tail(b \o t)) = Len(b) + Len(t) - 1
          /\ \A i \in 1..Len(b) + Len(t) - 1 : Tail(b \o t)[i] = (b \o t)[i + 1]
      BY <2>4, <2>5, HeadTailProperties
    <3>2. Len(Tail(b)) = Len(b) - 1 /\ \A i \in 1..Len(b) - 1 : Tail(b)[i] = b[i + 1]
      BY <1>5, HeadTailProperties
    <3>3. /\ Tail(b) \o t \in Seq(Items) /\ Len(Tail(b) \o t) = Len(b) - 1 + Len(t)
          /\ \A i \in 1..Len(b) - 1 + Len(t) :
                (Tail(b) \o t)[i] = IF i <= Len(b) - 1 THEN Tail(b)[i] ELSE t[i - (Len(b) - 1)]
      BY <2>1, <2>2, <3>2, ConcatProperties
    <3>4. ASSUME NEW i \in 1..Len(b) + Len(t) - 1
          PROVE  Tail(b \o t)[i] = (Tail(b) \o t)[i]
      BY <2>3, <2>4, <3>1, <3>2, <3>3
    <3> QED
      BY <2>3, <3>1, <3>3, <3>4, SeqEqual
  <2> QED
    BY <2>1, <2>2, <2>5, <2>6
<1>6. ASSUME NEW n \in 0..Len(c)
      PROVE  InFlight(b \o SubSeq(c, 1, n), SubSeq(c, n + 1, Len(c)), item) = InFlight(b, c, item)
  <2> DEFINE u == SubSeq(c, 1, n)
             v == SubSeq(c, n + 1, Len(c))
  <2>1. Len(c) \in Nat /\ \A i \in 1..Len(c) : c[i] \in Items
    BY LenProperties, ElementOfSeq
  <2>2. u \in Seq(Items) /\ v \in Seq(Items)
    BY <2>1, SubSeqProperties
  <2>3. u \o v = c
    <3>1. 1 \in 1..Len(c) + 1 /\ n \in 1 - 1..Len(c) /\ Len(c) \in n..Len(c)
      BY <2>1
    <3>2. SubSeq(c, 1, n) \o SubSeq(c, n + 1, Len(c)) = SubSeq(c, 1, Len(c))
      BY <3>1, ConcatAdjacentSubSeq
    <3> QED
      BY <3>2, SubSeqFull
  <2> HIDE DEF u, v
  <2>4. (b \o u) \o v = b \o c
    BY <2>2, <2>3, MovedTogether, Zenon
  <2> QED
    BY <2>4 DEF InFlight, u, v
<1> QED
  BY <1>2, <1>3, <1>4, <1>5, <1>6

-----------------------------------------------------------------------------
(***************************************************************************)
(* The types, with what the type invariant does not say: an item is in the *)
(* hand of the ingress task exactly while it sends, a subscription stands  *)
(* where the checkpoint does, and dispatch holds the item it works on.     *)
(***************************************************************************)
Slots == [state : SlotStates, slept : 0..MaximumBackoff, delay : InitialBackoff..MaximumBackoff]

IngressTyped ==
    /\ slots \in [Groups -> Slots]
    /\ checkpoint \in [ReadRelays -> Nat] /\ position = checkpoint
    /\ \A r \in ReadRelays : checkpoint[r] <= MaxEvents[r]
    /\ ingress \in [pc : {"select", "send", "report", "ended"},
                    item : Items \cup {<<>>}, ready : BOOLEAN]
    /\ ingress.pc = "send" <=> ingress.item # <<>>

DispatchTyped ==
    /\ channel \in Seq(Items) /\ Len(channel) <= IngressCapacity
    /\ batch \in Seq(Items) /\ Len(batch) <= ProviderCapacity
    /\ dispatch \in [pc : {"recv", "process", "report", "backoff", "ended"}, ok : BOOLEAN]
    /\ handled \in [ReadRelays -> SUBSET Nat]
    /\ \A r \in ReadRelays : handled[r] \subseteq 1..MaxEvents[r]
    /\ dispatch.pc \in {"process", "backoff"} \/ (dispatch.pc = "report" /\ ~dispatch.ok) =>
          batch # <<>>

LEMMA BoundsKnown ==
    /\ InitialBackoff \in Nat \ {0} /\ MaximumBackoff \in Nat /\ InitialBackoff <= MaximumBackoff
    /\ MaxEvents \in [ReadRelays -> Nat]
    /\ IngressCapacity \in Nat \ {0} /\ ProviderCapacity \in Nat \ {0} /\ HealthCapacity \in Nat \ {0}
BY RuntimeAssumption

LEMMA EmptyHanded ==
    /\ NoSlots \in [Groups -> Slots]
    /\ NoEvents \in [ReadRelays -> Nat] /\ \A r \in ReadRelays : NoEvents[r] <= MaxEvents[r]
    /\ NothingHandled \in [ReadRelays -> SUBSET Nat]
    /\ \A r \in ReadRelays : NothingHandled[r] \subseteq 1..MaxEvents[r]
    /\ Accounted(InFlight(<<>>, <<>>, <<>>), NothingHandled, NoEvents)
<1>1. NoSlots \in [Groups -> Slots]
  BY BoundsKnown DEF NoSlots, Slots, SlotStates
<1>2. NoEvents \in [ReadRelays -> Nat] /\ \A r \in ReadRelays : NoEvents[r] <= MaxEvents[r]
  BY BoundsKnown DEF NoEvents
<1>3. InFlight(<<>>, <<>>, <<>>) = <<>>
  BY DEF InFlight
<1>4. IsInjective(<<>>) /\ \A r \in ReadRelays : Waiting(<<>>, r) = {}
  BY DEF IsInjective, Waiting
<1>5. \A r \in ReadRelays : NothingHandled[r] = {} /\ NoEvents[r] = 0 /\ 1..0 = {}
  BY DEF NothingHandled, NoEvents
<1>6. Accounted(<<>>, NothingHandled, NoEvents)
  BY <1>4, <1>5 DEF Accounted
<1>7. NothingHandled \in [ReadRelays -> SUBSET Nat]
  BY DEF NothingHandled
<1> QED
  BY <1>1, <1>2, <1>3, <1>5, <1>6, <1>7

LEMMA AsleepKnown ==
    ASSUME NEW s \in [Groups -> Slots]
    PROVE  /\ Asleep(s) \in [Groups -> Slots]
           /\ \A g \in Groups : Asleep(s)[g].state = s[g].state
           /\ required_relays_ready(Asleep(s)) <=> required_relays_ready(s)
<1>1. 0 \in 0..MaximumBackoff
  BY BoundsKnown
<1>2. ASSUME NEW g \in Groups
      PROVE  [s[g] EXCEPT !.slept = 0] \in Slots /\ [s[g] EXCEPT !.slept = 0].state = s[g].state
  BY <1>1 DEF Slots
<1> QED
  BY <1>2 DEF Asleep, required_relays_ready

LEMMA SlotsChanged ==
    ASSUME slots \in [Groups -> Slots], NEW g \in Groups, NEW state \in SlotStates
    PROVE  /\ [slots EXCEPT ![g].state = state] \in [Groups -> Slots]
           /\ [slots EXCEPT ![g].state = state][g].state = state
           /\ \A other \in Groups \ {g} : [slots EXCEPT ![g].state = state][other] = slots[other]
           /\ \A delay \in InitialBackoff..MaximumBackoff :
                 [slots EXCEPT ![g].state = state, ![g].delay = delay] \in [Groups -> Slots]
<1>1. slots[g] \in Slots
  OBVIOUS
<1>2. [slots[g] EXCEPT !.state = state] \in Slots /\ [slots[g] EXCEPT !.state = state].state = state
  BY <1>1 DEF Slots
<1>3. ASSUME NEW delay \in InitialBackoff..MaximumBackoff
      PROVE  [slots EXCEPT ![g].state = state, ![g].delay = delay] \in [Groups -> Slots]
  <2>1. [[slots[g] EXCEPT !.state = state] EXCEPT !.delay = delay] \in Slots
    BY <1>2 DEF Slots
  <2>2. [slots EXCEPT ![g].state = state, ![g].delay = delay]
            = [slots EXCEPT ![g] = [[slots[g] EXCEPT !.state = state] EXCEPT !.delay = delay]]
    OBVIOUS
  <2> QED
    BY <2>1, <2>2
<1> QED
  BY <1>2, <1>3

LEMMA DoubledTyped ==
    ASSUME NEW delay \in InitialBackoff..MaximumBackoff
    PROVE  Doubled(delay) \in InitialBackoff..MaximumBackoff
BY BoundsKnown DEF Doubled

LEMMA ReportTyped ==
    ASSUME IngressTyped, NEW s \in [Groups -> Slots], ingress.pc = "select", Report(s)
    PROVE  /\ slots' \in [Groups -> Slots] /\ (required_relays_ready(slots') <=> required_relays_ready(s))
           /\ ingress' = [pc |-> "report", item |-> <<>>, ready |-> required_relays_ready(s)]
<1> DEFINE ready == required_relays_ready(s)
<1>1. ingress' = [ingress EXCEPT !.pc = "report", !.ready = ready] /\ slots' = Asleep(s)
  BY DEF Report
<1> HIDE DEF ready
<1>2. ingress.item = <<>>
  BY DEF IngressTyped
<1>3. ingress' = [pc |-> "report", item |-> <<>>, ready |-> ready]
  BY <1>1, <1>2 DEF IngressTyped
<1> QED
  BY <1>1, <1>3, AsleepKnown DEF ready

-----------------------------------------------------------------------------
(***************************************************************************)
(* What the main loop still has to be told.  A task reports a bit with     *)
(* every change, over a channel that keeps the order: the last report of   *)
(* the bit that is queued carries its value, and if none is queued the     *)
(* main loop has it.                                                       *)
(***************************************************************************)
Carries(q, kind, bit, v) ==
    /\ \A i \in 1..Len(q) :
          q[i][1] = kind /\ (\A j \in 1..Len(q) : j > i => q[j][1] # kind) => q[i][2] = v
    /\ (\A i \in 1..Len(q) : q[i][1] # kind) => bit = v

HealthRecords == [providers : BOOLEAN, required_relays : BOOLEAN, operations : BOOLEAN]

MainTyped ==
    /\ healthQueue \in Seq(HealthEvents) /\ Len(healthQueue) <= HealthCapacity
    /\ health \in HealthRecords
    /\ published \in Documents \cup {NoDocument}
    /\ counts \in {"fresh", "stale", "lost"}
    /\ result \in {"none", "success", "state_or_identity_unavailable",
                   "service_or_dependency_unavailable", "unexpected_internal"}

\* The document shows the health of the main loop, under a phase that admits it.
Shows(document, h) ==
    \E phase \in {"ready", "degraded", "unready"} :
        /\ document = Observation(phase, h)
        /\ phase = "unready" => ~(h.providers /\ h.required_relays)

RelaysTold ==
    /\ ingress.pc \notin {"report", "ended"} =>
          Carries(healthQueue, "required_relays", health.required_relays,
                  required_relays_ready(slots))
    /\ ingress.pc = "report" => (ingress.ready <=> required_relays_ready(slots))

ProvidersTold ==
    dispatch.pc \notin {"report", "ended"} =>
        Carries(healthQueue, "providers", health.providers, dispatch.ok)

Told ==
    main = "loop" =>
        /\ Shows(published, health)
        /\ counts = "stale" => Queued("state_changed")
        /\ RelaysTold
        /\ ProvidersTold

LEMMA EventsKnown ==
    /\ \A b \in BOOLEAN : <<"providers", b>> \in HealthEvents /\ <<"required_relays", b>> \in HealthEvents
    /\ <<"state_changed">> \in HealthEvents
    /\ \A e \in HealthEvents :
          /\ e[1] \in {"providers", "required_relays", "state_changed"}
          /\ e[1] # "state_changed" => e[2] \in BOOLEAN
<1>1. \A b \in BOOLEAN : <<"providers", b>> \in HealthEvents /\ <<"required_relays", b>> \in HealthEvents
  BY DEF HealthEvents
<1>2. <<"state_changed">> \in HealthEvents
  BY DEF HealthEvents
<1>3. ASSUME NEW e \in HealthEvents
      PROVE  /\ e[1] \in {"providers", "required_relays", "state_changed"}
             /\ e[1] # "state_changed" => e[2] \in BOOLEAN
  <2>1. \/ e = <<"providers", TRUE>> \/ e = <<"providers", FALSE>>
        \/ e = <<"required_relays", TRUE>> \/ e = <<"required_relays", FALSE>>
        \/ e = <<"state_changed">>
    BY DEF HealthEvents
  <2>2. CASE e = <<"state_changed">>
    <3>1. e[1] = "state_changed"
      BY <2>2
    <3> QED
      BY <3>1
  <2>3. ASSUME NEW kind \in {"providers", "required_relays"}, NEW b \in BOOLEAN, e = <<kind, b>>
        PROVE  e[1] \in {"providers", "required_relays", "state_changed"} /\ e[2] \in BOOLEAN
    BY <2>3
  <2> QED
    BY <2>1, <2>2, <2>3
<1> QED
  BY <1>1, <1>2, <1>3

LEMMA AppendReport ==
    ASSUME NEW q \in Seq(HealthEvents), NEW e \in HealthEvents, NEW kind, NEW bit, NEW v,
           e[1] = kind, e[2] = v
    PROVE  Carries(Append(q, e), kind, bit, v)
<1> DEFINE p == Append(q, e)
<1>1. /\ Len(p) = Len(q) + 1 /\ Len(q) \in Nat /\ p[Len(q) + 1] = e
      /\ \A i \in 1..Len(q) : p[i] = q[i]
  BY AppendProperties, LenProperties
<1> HIDE DEF p
<1> QED
  BY <1>1 DEF Carries, p

LEMMA AppendOther ==
    ASSUME NEW q \in Seq(HealthEvents), NEW e \in HealthEvents, NEW kind, NEW bit, NEW v,
           e[1] # kind, Carries(q, kind, bit, v)
    PROVE  Carries(Append(q, e), kind, bit, v)
<1> DEFINE p == Append(q, e)
<1>1. /\ Len(p) = Len(q) + 1 /\ Len(q) \in Nat /\ p[Len(q) + 1] = e
      /\ \A i \in 1..Len(q) : p[i] = q[i]
  BY AppendProperties, LenProperties
<1> HIDE DEF p
<1>2. ASSUME NEW i \in 1..Len(p), p[i][1] = kind, \A j \in 1..Len(p) : j > i => p[j][1] # kind
      PROVE  p[i][2] = v
  <2>1. i \in 1..Len(q) /\ p[i] = q[i]
    BY <1>1, <1>2
  <2>2. \A j \in 1..Len(q) : j > i => q[j][1] # kind
    BY <1>1, <1>2
  <2> QED
    BY <1>2, <2>1, <2>2 DEF Carries
<1>3. ASSUME \A i \in 1..Len(p) : p[i][1] # kind
      PROVE  bit = v
  BY <1>1, <1>3 DEF Carries
<1> QED
  BY <1>2, <1>3 DEF Carries, p

LEMMA TailCarries ==
    ASSUME NEW q \in Seq(HealthEvents), q # <<>>, NEW kind, NEW bit, NEW v,
           Carries(q, kind, bit, v)
    PROVE  Carries(Tail(q), kind, IF Head(q)[1] = kind THEN Head(q)[2] ELSE bit, v)
<1> DEFINE p == Tail(q)
           x == Head(q)
<1>1. /\ Len(q) \in Nat \ {0} /\ Len(p) = Len(q) - 1 /\ x = q[1]
      /\ \A i \in 1..Len(p) : p[i] = q[i + 1]
  BY HeadTailProperties, LenProperties, EmptySeq
<1> HIDE DEF p, x
<1>2. ASSUME NEW i \in 1..Len(p), p[i][1] = kind, \A j \in 1..Len(p) : j > i => p[j][1] # kind
      PROVE  p[i][2] = v
  <2>1. i + 1 \in 1..Len(q) /\ p[i] = q[i + 1]
    BY <1>1
  <2>2. ASSUME NEW j \in 1..Len(q), j > i + 1
        PROVE  q[j][1] # kind
    <3>1. j - 1 \in 1..Len(p) /\ j - 1 > i /\ p[j - 1] = q[j]
      BY <1>1, <2>2
    <3> QED
      BY <1>2, <3>1
  <2> QED
    BY <1>2, <2>1, <2>2 DEF Carries
<1>3. ASSUME \A i \in 1..Len(p) : p[i][1] # kind
      PROVE  (IF x[1] = kind THEN x[2] ELSE bit) = v
  <2>1. ASSUME NEW j \in 1..Len(q), j > 1
        PROVE  q[j][1] # kind
    <3>1. j - 1 \in 1..Len(p) /\ p[j - 1] = q[j]
      BY <1>1, <2>1
    <3> QED
      BY <1>3, <3>1
  <2>2. 1 \in 1..Len(q)
    BY <1>1
  <2>3. CASE x[1] = kind
    BY <1>1, <2>1, <2>2, <2>3 DEF Carries
  <2>4. CASE x[1] # kind
    <3>1. \A j \in 1..Len(q) : q[j][1] # kind
      BY <1>1, <2>1, <2>4
    <3> QED
      BY <2>4, <3>1 DEF Carries
  <2> QED
    BY <2>3, <2>4
<1> QED
  BY <1>2, <1>3 DEF Carries, p, x

LEMMA NoReports ==
    ASSUME NEW kind, NEW v
    PROVE  Carries(<<>>, kind, v, v)
BY DEF Carries

LEMMA QueueGrows ==
    ASSUME MainTyped, NEW e \in HealthEvents, Len(healthQueue) < HealthCapacity
    PROVE  /\ Append(healthQueue, e) \in Seq(HealthEvents)
           /\ Len(Append(healthQueue, e)) <= HealthCapacity
           /\ \E i \in DOMAIN Append(healthQueue, e) : Append(healthQueue, e)[i] = e
<1>1. healthQueue \in Seq(HealthEvents) /\ Len(healthQueue) \in Nat
  BY LenProperties DEF MainTyped
<1>2. /\ Append(healthQueue, e) \in Seq(HealthEvents)
      /\ Len(Append(healthQueue, e)) = Len(healthQueue) + 1
      /\ Append(healthQueue, e)[Len(healthQueue) + 1] = e
  BY <1>1, AppendProperties
<1>3. DOMAIN Append(healthQueue, e) = 1..Len(healthQueue) + 1
  BY <1>2, LenProperties
<1> QED
  BY <1>1, <1>2, <1>3, BoundsKnown

\* The news of a state change: queued, already there, or given up for lost.
LEMMA StateChangedTold ==
    ASSUME MainTyped, StateChangedSent
    PROVE  /\ healthQueue' = healthQueue \/ healthQueue' = Append(healthQueue, <<"state_changed">>)
           /\ healthQueue' \in Seq(HealthEvents) /\ Len(healthQueue') <= HealthCapacity
           /\ counts' \in {"fresh", "stale", "lost"}
           /\ counts' = "stale" => Queued("state_changed")'
<1>1. <<"state_changed">> \in HealthEvents /\ <<"state_changed">>[1] = "state_changed"
  BY EventsKnown
<1>2. CASE Len(healthQueue) < HealthCapacity
  <2>1. healthQueue' = Append(healthQueue, <<"state_changed">>) /\ counts' \in {counts, "stale"}
    BY <1>2 DEF StateChangedSent
  <2>2. \E i \in DOMAIN healthQueue' : healthQueue'[i] = <<"state_changed">>
    BY <1>1, <1>2, <2>1, QueueGrows
  <2>3. Queued("state_changed")'
    BY <1>1, <2>2 DEF Queued
  <2> QED
    BY <1>1, <1>2, <2>1, <2>3, QueueGrows DEF MainTyped
<1>3. CASE ~(Len(healthQueue) < HealthCapacity)
  <2>1. /\ healthQueue' = healthQueue
        /\ counts' = IF Contains(healthQueue, <<"state_changed">>)
                     THEN IF counts = "fresh" THEN "stale" ELSE counts
                     ELSE "lost"
    BY <1>3 DEF StateChangedSent
  <2>2. counts' = "stale" => Contains(healthQueue, <<"state_changed">>)
    BY <2>1
  <2>3. DOMAIN healthQueue = 1..Len(healthQueue)
    BY LenProperties DEF MainTyped
  <2>4. Contains(healthQueue, <<"state_changed">>) => Queued("state_changed")'
    BY <1>1, <2>1, <2>3 DEF Contains, Queued
  <2> QED
    BY <2>1, <2>2, <2>4 DEF MainTyped
<1> QED
  BY <1>2, <1>3

LEMMA ObservationTyped ==
    ASSUME NEW phase \in ServicePhases, NEW h \in HealthRecords
    PROVE  Observation(phase, h) \in Documents
<1>1. h.providers \in BOOLEAN /\ h.required_relays \in BOOLEAN /\ h.operations \in BOOLEAN
  BY DEF HealthRecords
<1>2. Ready(phase, h) \in BOOLEAN
  BY DEF Ready
<1>3. Reasons(phase, h) \in SUBSET ReasonCodes
  BY DEF Reasons, ReasonCodes
<1>4. TransportStatus(h) \in [health : {"ready", "unavailable"}, required_relays_ready : BOOLEAN,
                              connected_relay_count : {0, Cardinality(Relays)}]
  BY <1>1 DEF TransportStatus
<1>5. \A a, b, c : ProviderHealth(a, b, c) \in {"ready", "degraded", "unavailable"}
  BY DEF ProviderHealth
<1> QED
  BY <1>2, <1>3, <1>4, <1>5 DEF Observation, Documents

-----------------------------------------------------------------------------
(***************************************************************************)
(* The steps, one lemma for the actions that do the same to these parts.   *)
(***************************************************************************)
\* While both tasks live (and before they start), every event is accounted for.
Followed ==
    main # "exited" /\ {"relay_ingress", "provider_dispatch"} \cap ended = {} =>
        Accounted(InFlight(batch, channel, ingress.item), handled, checkpoint)

Sound == IngressTyped /\ DispatchTyped /\ MainTyped /\ Told /\ Followed

LEMMA SleepTyped ==
    ASSUME slots \in [Groups -> Slots], Sleep
    PROVE  slots' \in [Groups -> Slots] /\ \A g \in Groups : slots'[g].state = slots[g].state
<1>1. ASSUME NEW g \in Groups, slots[g].slept < slots[g].delay
      PROVE  /\ [slots[g] EXCEPT !.slept = @ + 1] \in Slots
             /\ [slots[g] EXCEPT !.slept = @ + 1].state = slots[g].state
  <2>1. slots[g] \in Slots
    OBVIOUS
  <2>2. slots[g].slept + 1 \in 0..MaximumBackoff
    BY <1>1, <2>1, BoundsKnown DEF Slots
  <2>3. \A n \in 0..MaximumBackoff : /\ [slots[g] EXCEPT !.slept = n] \in Slots
                                     /\ [slots[g] EXCEPT !.slept = n].state = slots[g].state
    BY <2>1 DEF Slots
  <2> QED
    BY <2>2, <2>3
<1>2. slots' = [g \in Groups |->
                   IF slots[g].state = "waiting" /\ slots[g].slept < slots[g].delay
                   THEN [slots[g] EXCEPT !.slept = @ + 1] ELSE slots[g]]
  BY DEF Sleep
<1> QED
  BY <1>1, <1>2

LEMMA QuietIngress ==
    ASSUME Sound, Sleep \/ \E g \in Groups : Retry(g)
    PROVE  Sound'
<1>1. slots \in [Groups -> Slots]
  BY DEF Sound, IngressTyped
<1>2. /\ UNCHANGED <<checkpoint, position, ingress, channel, batch, dispatch, handled, healthQueue>>
      /\ UNCHANGED <<health, published, counts, main, stop, ended, result>>
  BY DEF Sleep, Retry, dispatchVars, mainVars
<1>3. slots' \in [Groups -> Slots] /\ (required_relays_ready(slots') <=> required_relays_ready(slots))
  <2>1. CASE Sleep
    BY <1>1, <2>1, SleepTyped DEF required_relays_ready
  <2>2. ASSUME NEW g \in Groups, Retry(g)
        PROVE  /\ slots' \in [Groups -> Slots]
               /\ required_relays_ready(slots') <=> required_relays_ready(slots)
    <3> DEFINE s == [slots EXCEPT ![g].state = "connecting"]
    <3>1. slots' = Asleep(s) /\ slots[g].state = "waiting"
      BY <2>2 DEF Retry
    <3>2. /\ s \in [Groups -> Slots] /\ s[g].state = "connecting"
          /\ \A other \in Groups \ {g} : s[other] = slots[other]
      BY <1>1, SlotsChanged DEF SlotStates
    <3> HIDE DEF s
    <3>3. required_relays_ready(s) <=> required_relays_ready(slots)
      BY <3>1, <3>2 DEF required_relays_ready
    <3> QED
      BY <3>1, <3>2, <3>3, AsleepKnown
  <2> QED
    BY <2>1, <2>2
<1>4. IngressTyped'
  BY <1>2, <1>3 DEF Sound, IngressTyped
<1>5. DispatchTyped' /\ MainTyped' /\ Followed'
  BY <1>2 DEF Sound, DispatchTyped, MainTyped, Followed
<1>6. Told'
  <2>1. required_relays_ready(slots)' = required_relays_ready(slots)
    BY <1>3 DEF required_relays_ready
  <2> QED
    BY <1>2, <2>1 DEF Sound, Told, RelaysTold, ProvidersTold, Queued
<1> QED
  BY <1>4, <1>5, <1>6 DEF Sound

LEMMA NextEventSound ==
    ASSUME Sound, NEW r \in ReadRelays, NextEvent(r)
    PROVE  Sound'
<1>1. /\ slots \in [Groups -> Slots] /\ checkpoint \in [ReadRelays -> Nat] /\ position = checkpoint
      /\ checkpoint[r] < MaxEvents[r] /\ MaxEvents[r] \in Nat
      /\ ingress.pc = "select" /\ ingress.item = <<>> /\ ingress.ready \in BOOLEAN
  BY BoundsKnown DEF Sound, IngressTyped, NextEvent, Selecting
<1> DEFINE n == checkpoint[r] + 1
           x == <<r, n>>
<1>2. /\ UNCHANGED <<channel, batch, dispatch, handled, healthQueue>>
      /\ UNCHANGED <<health, published, counts, main, stop, ended, result>>
      /\ position' = [checkpoint EXCEPT ![r] = n] /\ checkpoint' = [checkpoint EXCEPT ![r] = n]
      /\ ingress' = [ingress EXCEPT !.pc = "send", !.item = x]
      /\ slots' = Asleep(slots)
  BY <1>1 DEF NextEvent, dispatchVars, mainVars, replace_checkpoint
<1>3. n \in 1..MaxEvents[r] /\ n \in Nat /\ n <= MaxEvents[r] /\ x \in Items /\ x # <<>>
  BY <1>1, ItemsKnown
<1>4. slots' \in [Groups -> Slots] /\ (required_relays_ready(slots') <=> required_relays_ready(slots))
  BY <1>1, <1>2, AsleepKnown
<1>5. Followed'
  <2>1. SUFFICES ASSUME Followed, Accounted(InFlight(batch, channel, <<>>), handled, checkpoint)
                 PROVE  Accounted(InFlight(batch, channel, x), handled, [checkpoint EXCEPT ![r] = n])
    <3>1. ingress'.item = x
      BY <1>2 DEF Sound, IngressTyped
    <3> QED
      BY <1>1, <1>2, <3>1 DEF Sound, Followed
  <2>2. batch \in Seq(Items) /\ channel \in Seq(Items)
    BY DEF Sound, DispatchTyped
  <2>3. /\ InFlight(batch, channel, <<>>) \in Seq(Items)
        /\ InFlight(batch, channel, x) = Append(InFlight(batch, channel, <<>>), x)
    BY <1>3, <2>2, FlightMoves
  <2> DEFINE flight == InFlight(batch, channel, <<>>)
  <2> HIDE DEF flight
  <2>4. Accounted(Append(flight, <<r, checkpoint[r] + 1>>), handled,
                  [checkpoint EXCEPT ![r] = checkpoint[r] + 1])
    <3>1. flight \in Seq(Items) /\ Accounted(flight, handled, checkpoint)
      BY <2>1, <2>3 DEF flight
    <3> QED
      BY <1>1, <1>3, <3>1, EventTaken
  <2> QED
    BY <2>3, <2>4 DEF flight
<1> HIDE DEF n, x
<1>6. ingress' = [pc |-> "send", item |-> x, ready |-> ingress.ready]
  BY <1>2 DEF Sound, IngressTyped
<1>7. IngressTyped'
  <2>1. checkpoint' \in [ReadRelays -> Nat] /\ \A q \in ReadRelays : checkpoint'[q] <= MaxEvents[q]
    BY <1>1, <1>2, <1>3 DEF Sound, IngressTyped
  <2> QED
    BY <1>1, <1>2, <1>3, <1>4, <1>6, <2>1 DEF IngressTyped
<1>8. DispatchTyped' /\ MainTyped'
  BY <1>2 DEF Sound, DispatchTyped, MainTyped
<1>9. Told'
  <2>1. required_relays_ready(slots)' = required_relays_ready(slots)
    BY <1>4 DEF required_relays_ready
  <2> QED
    BY <1>1, <1>2, <1>6, <2>1 DEF Sound, Told, RelaysTold, ProvidersTold, Queued
<1> QED
  BY <1>5, <1>7, <1>8, <1>9 DEF Sound

LEMMA SendItemSound ==
    ASSUME Sound, SendItem
    PROVE  Sound'
<1>1. /\ UNCHANGED <<slots, checkpoint, position, batch, dispatch, handled, healthQueue>>
      /\ UNCHANGED <<health, published, counts, main, stop, ended, result>>
      /\ ingress.pc = "send" /\ ingress' = [ingress EXCEPT !.pc = "select", !.item = <<>>]
      /\ channel' = Append(channel, ingress.item) /\ Len(channel) < IngressCapacity
  BY DEF SendItem, dispatchVars, mainVars
<1>2. /\ ingress' = [pc |-> "select", item |-> <<>>, ready |-> ingress.ready]
      /\ ingress.item \in Items /\ ingress.item # <<>> /\ ingress.ready \in BOOLEAN
  BY <1>1 DEF Sound, IngressTyped
<1>3. /\ batch \in Seq(Items) /\ channel \in Seq(Items) /\ Len(channel) \in Nat
      /\ channel' \in Seq(Items) /\ Len(channel') <= IngressCapacity
  BY <1>1, <1>2, AppendProperties, LenProperties, BoundsKnown DEF Sound, DispatchTyped
<1>4. IngressTyped' /\ DispatchTyped' /\ MainTyped'
  BY <1>1, <1>2, <1>3 DEF Sound, IngressTyped, DispatchTyped, MainTyped
<1>5. Followed'
  <2>1. InFlight(batch, Append(channel, ingress.item), <<>>) = InFlight(batch, channel, ingress.item)
    BY <1>2, <1>3, FlightMoves
  <2> QED
    BY <1>1, <1>2, <2>1 DEF Sound, Followed
<1>6. Told'
  BY <1>1, <1>2 DEF Sound, Told, RelaysTold, ProvidersTold, Queued, required_relays_ready
<1> QED
  BY <1>4, <1>5, <1>6 DEF Sound

LEMMA ReportSound ==
    ASSUME Sound, NEW g \in Groups, SubscriptionEnds(g) \/ Connected(g) \/ ConnectFails(g)
    PROVE  Sound'
<1>1. /\ slots \in [Groups -> Slots] /\ checkpoint \in [ReadRelays -> Nat] /\ position = checkpoint
      /\ ingress.pc = "select" /\ ingress.item = <<>>
  BY DEF Sound, IngressTyped, SubscriptionEnds, Connected, ConnectFails, Selecting
<1>2. /\ UNCHANGED <<checkpoint, channel, batch, dispatch, handled, healthQueue>>
      /\ UNCHANGED <<health, published, counts, main, stop, ended, result>>
  BY DEF SubscriptionEnds, Connected, ConnectFails, dispatchVars, mainVars
<1>3. position' = checkpoint
  BY <1>1 DEF SubscriptionEnds, Connected, ConnectFails
<1>4. \E s \in [Groups -> Slots] : Report(s)
  <2>1. CASE SubscriptionEnds(g)
    BY <1>1, <2>1, SlotsChanged DEF SubscriptionEnds, SlotStates
  <2>2. CASE Connected(g)
    <3>1. InitialBackoff \in InitialBackoff..MaximumBackoff /\ "active" \in SlotStates
      BY BoundsKnown DEF SlotStates
    <3>2. [slots EXCEPT ![g].state = "active", ![g].delay = InitialBackoff] \in [Groups -> Slots]
      BY <1>1, <3>1, SlotsChanged
    <3> QED
      BY <2>2, <3>2 DEF Connected
  <2>3. CASE ConnectFails(g)
    <3> DEFINE d == Doubled(slots[g].delay)
    <3>1. d \in InitialBackoff..MaximumBackoff
      BY <1>1, DoubledTyped DEF Slots
    <3>2. Report([slots EXCEPT ![g].state = "waiting", ![g].delay = d])
      <4>1. [slots EXCEPT ![g].state = "waiting", ![g].delay = Doubled(@)]
              = [slots EXCEPT ![g].state = "waiting", ![g].delay = d]
        <5>1. slots[g] \in Slots
          BY <1>1
        <5>2. [slots[g] EXCEPT !.state = "waiting"].delay = slots[g].delay
          BY <5>1 DEF Slots
        <5> QED
          BY <1>1, <5>2
      <4> QED
        BY <2>3, <4>1 DEF ConnectFails
    <3> HIDE DEF d
    <3> QED
      BY <1>1, <3>1, <3>2, SlotsChanged DEF SlotStates
  <2> QED
    BY <2>1, <2>2, <2>3
<1>5. PICK s \in [Groups -> Slots] : Report(s)
  BY <1>4
<1>6. /\ slots' \in [Groups -> Slots] /\ (required_relays_ready(slots') <=> required_relays_ready(s))
      /\ ingress' = [pc |-> "report", item |-> <<>>, ready |-> required_relays_ready(s)]
  BY <1>1, <1>5, ReportTyped DEF Sound
<1>7. required_relays_ready(s) \in BOOLEAN
  BY DEF required_relays_ready
<1>8. IngressTyped'
  BY <1>1, <1>2, <1>3, <1>6, <1>7 DEF Sound, IngressTyped
<1>9. DispatchTyped' /\ MainTyped' /\ Followed'
  BY <1>1, <1>2, <1>6 DEF Sound, DispatchTyped, MainTyped, Followed
<1>10. Told'
  <2>1. ingress'.pc = "report" /\ (ingress'.ready <=> required_relays_ready(slots)')
    BY <1>6 DEF required_relays_ready
  <2> QED
    BY <1>2, <2>1 DEF Sound, Told, RelaysTold, ProvidersTold, Queued
<1> QED
  BY <1>8, <1>9, <1>10 DEF Sound

LEMMA QueuedStays ==
    ASSUME MainTyped, NEW e \in HealthEvents, NEW kind, Queued(kind),
           healthQueue' = Append(healthQueue, e)
    PROVE  Queued(kind)'
<1>1. healthQueue \in Seq(HealthEvents)
  BY DEF MainTyped
<1>2. /\ DOMAIN healthQueue = 1..Len(healthQueue) /\ Len(healthQueue) \in Nat
      /\ healthQueue' \in Seq(HealthEvents) /\ Len(healthQueue') = Len(healthQueue) + 1
      /\ \A i \in 1..Len(healthQueue) : healthQueue'[i] = healthQueue[i]
  BY <1>1, AppendProperties, LenProperties
<1>3. DOMAIN healthQueue' = 1..Len(healthQueue) + 1
  BY <1>2, LenProperties
<1> QED
  BY <1>2, <1>3 DEF Queued

\* A report that is appended leaves what the channel says of the other bit.
LEMMA ReportQueued ==
    ASSUME Sound, NEW e \in HealthEvents, Len(healthQueue) < HealthCapacity,
           healthQueue' = Append(healthQueue, e),
           UNCHANGED <<health, published, counts, result>>
    PROVE  /\ MainTyped'
           /\ counts = "stale" /\ Queued("state_changed") => Queued("state_changed")'
           /\ \A kind, v : Carries(healthQueue, kind, health[kind], v) /\ e[1] # kind =>
                             Carries(healthQueue', kind, health'[kind], v)
           /\ \A kind, v : e[1] = kind /\ e[2] = v => Carries(healthQueue', kind, health'[kind], v)
<1>1. MainTyped
  BY DEF Sound
<1>2. healthQueue' \in Seq(HealthEvents) /\ Len(healthQueue') <= HealthCapacity
  BY <1>1, QueueGrows
<1>3. healthQueue \in Seq(HealthEvents)
  BY <1>1 DEF MainTyped
<1>4. MainTyped'
  BY <1>1, <1>2 DEF MainTyped
<1>5. Queued("state_changed") => Queued("state_changed")'
  BY <1>1, QueuedStays
<1>6. ASSUME NEW kind, NEW v, Carries(healthQueue, kind, health[kind], v), e[1] # kind
      PROVE  Carries(healthQueue', kind, health'[kind], v)
  <2>1. \A bit : Carries(healthQueue, kind, bit, v) => Carries(Append(healthQueue, e), kind, bit, v)
    BY <1>3, <1>6, AppendOther
  <2> QED
    BY <1>6, <2>1
<1>7. ASSUME NEW kind, NEW v, e[1] = kind, e[2] = v
      PROVE  Carries(healthQueue', kind, health'[kind], v)
  <2>1. \A bit : Carries(Append(healthQueue, e), kind, bit, v)
    BY <1>3, <1>7, AppendReport
  <2> QED
    BY <2>1
<1> QED
  BY <1>4, <1>5, <1>6, <1>7

LEMMA SendRelayHealthSound ==
    ASSUME Sound, SendRelayHealth
    PROVE  Sound'
<1>1. /\ UNCHANGED <<slots, checkpoint, position, channel, batch, dispatch, handled>>
      /\ UNCHANGED <<health, published, counts, main, stop, ended, result>>
      /\ ingress.pc = "report" /\ ingress' = [ingress EXCEPT !.pc = "select"]
      /\ Len(healthQueue) < HealthCapacity
      /\ healthQueue' = Append(healthQueue, <<"required_relays", ingress.ready>>)
  BY DEF SendRelayHealth, dispatchVars, mainVars
<1>2. /\ ingress' = [pc |-> "select", item |-> <<>>, ready |-> ingress.ready]
      /\ ingress.item = <<>> /\ ingress.ready \in BOOLEAN
  BY <1>1 DEF Sound, IngressTyped
<1> DEFINE e == <<"required_relays", ingress.ready>>
<1>3. e \in HealthEvents /\ e[1] = "required_relays" /\ e[2] = ingress.ready
  BY <1>2, EventsKnown
<1> HIDE DEF e
<1>4. /\ MainTyped'
      /\ counts = "stale" /\ Queued("state_changed") => Queued("state_changed")'
      /\ \A v : Carries(healthQueue, "providers", health["providers"], v) =>
                    Carries(healthQueue', "providers", health'["providers"], v)
      /\ Carries(healthQueue', "required_relays", health'["required_relays"], ingress.ready)
  <2>1. healthQueue' = Append(healthQueue, e)
    BY <1>1 DEF e
  <2> QED
    BY <1>1, <1>3, <2>1, ReportQueued
<1>5. IngressTyped' /\ DispatchTyped' /\ Followed'
  BY <1>1, <1>2 DEF Sound, IngressTyped, DispatchTyped, Followed
<1>6. ASSUME main = "loop"
      PROVE  RelaysTold'
  <2>1. ingress.ready = required_relays_ready(slots)'
    BY <1>1, <1>2, <1>6 DEF Sound, Told, RelaysTold, required_relays_ready
  <2>2. Carries(healthQueue, "required_relays", health.required_relays, required_relays_ready(slots))'
    BY <1>4, <2>1
  <2>3. ingress'.pc = "select"
    BY <1>2
  <2> QED
    BY <2>2, <2>3 DEF RelaysTold
<1>7. Told'
  BY <1>1, <1>4, <1>6 DEF Sound, Told, ProvidersTold
<1> QED
  BY <1>4, <1>5, <1>7 DEF Sound

LEMMA IngressGoneSound ==
    ASSUME Sound, SendItemFails \/ IngressCancelled
    PROVE  Sound'
<1>1. /\ UNCHANGED <<channel, batch, dispatch, handled, healthQueue, health, published, counts, main,
                     result>>
      /\ "relay_ingress" \in ended' /\ IngressGone
  BY DEF SendItemFails, IngressCancelled, dispatchVars
<1>2. IngressTyped' /\ ingress'.pc = "ended"
  BY <1>1, EmptyHanded DEF IngressGone, IngressTyped
<1>3. DispatchTyped' /\ MainTyped'
  BY <1>1 DEF Sound, DispatchTyped, MainTyped
<1>4. Followed'
  BY <1>1 DEF Followed
<1>5. Told'
  BY <1>1, <1>2 DEF Sound, Told, RelaysTold, ProvidersTold, Queued
<1> QED
  BY <1>2, <1>3, <1>4, <1>5 DEF Sound

LEMMA RoomKnown ==
    ASSUME NEW held \in Nat, NEW queued \in Nat, held <= ProviderCapacity, held > 0 \/ queued > 0
    PROVE  /\ Lower(ProviderCapacity - held, queued) \in 0..queued
           /\ Lower(ProviderCapacity - held, queued) + held <= ProviderCapacity
           /\ Lower(ProviderCapacity - held, queued) \in Nat
           /\ Lower(ProviderCapacity - held, queued) + held > 0
BY BoundsKnown DEF Lower

\* Taking items moves them from the channel to the batch, and leaves one to process.
LEMMA TakeSound ==
    ASSUME Sound, Take
    PROVE  Sound'
<1> DEFINE n == Lower(ProviderCapacity - Len(batch), Len(channel))
<1>1. /\ UNCHANGED <<slots, checkpoint, position, ingress, handled, healthQueue>>
      /\ UNCHANGED <<health, published, counts, main, stop, ended, result>>
      /\ dispatch.pc = "recv" /\ dispatch' = [dispatch EXCEPT !.pc = "process"]
      /\ batch # <<>> \/ channel # <<>>
      /\ batch' = batch \o SubSeq(channel, 1, n)
      /\ channel' = SubSeq(channel, n + 1, Len(channel))
  BY DEF Take, ingressVars, mainVars
<1>2. /\ batch \in Seq(Items) /\ channel \in Seq(Items)
      /\ Len(batch) \in Nat /\ Len(channel) \in Nat /\ Len(batch) <= ProviderCapacity
      /\ Len(channel) <= IngressCapacity
      /\ batch # <<>> => Len(batch) > 0
      /\ channel # <<>> => Len(channel) > 0
  BY LenProperties, EmptySeq DEF Sound, DispatchTyped
<1>3. /\ n \in 0..Len(channel) /\ n + Len(batch) <= ProviderCapacity
      /\ n \in Nat /\ n + Len(batch) > 0
  BY <1>1, <1>2, RoomKnown
<1> HIDE DEF n
<1>4. \A i \in 1..Len(channel) : channel[i] \in Items
  BY <1>2, ElementOfSeq
<1>5. /\ SubSeq(channel, 1, n) \in Seq(Items) /\ Len(SubSeq(channel, 1, n)) = n
      /\ channel' \in Seq(Items) /\ Len(channel') <= IngressCapacity
  <2>1. \A i \in 1..n : channel[i] \in Items
    BY <1>2, <1>3, <1>4
  <2>2. \A i \in n + 1..Len(channel) : channel[i] \in Items
    BY <1>2, <1>3, <1>4
  <2>3. /\ SubSeq(channel, 1, n) \in Seq(Items)
        /\ Len(SubSeq(channel, 1, n)) = IF 1 <= n THEN n - 1 + 1 ELSE 0
    BY <1>3, <2>1, SubSeqProperties
  <2>4. /\ channel' \in Seq(Items)
        /\ Len(channel') = IF n + 1 <= Len(channel) THEN Len(channel) - (n + 1) + 1 ELSE 0
    BY <1>1, <1>2, <1>3, <2>2, SubSeqProperties
  <2> QED
    BY <1>2, <1>3, <2>3, <2>4, BoundsKnown
<1>6. batch' \in Seq(Items) /\ Len(batch') = Len(batch) + n
  BY <1>1, <1>2, <1>5, ConcatProperties
<1>7. batch' # <<>> /\ Len(batch') <= ProviderCapacity
  BY <1>2, <1>3, <1>6
<1>8. dispatch' = [pc |-> "process", ok |-> dispatch.ok] /\ dispatch.ok \in BOOLEAN
  BY <1>1 DEF Sound, DispatchTyped
<1>9. DispatchTyped'
  BY <1>1, <1>5, <1>6, <1>7, <1>8 DEF Sound, DispatchTyped
<1>10. IngressTyped' /\ MainTyped'
  BY <1>1 DEF Sound, IngressTyped, MainTyped
<1>11. Followed'
  <2>1. ingress.item \in Items \cup {<<>>}
    BY DEF Sound, IngressTyped
  <2>2. InFlight(batch', channel', ingress.item) = InFlight(batch, channel, ingress.item)
    BY <1>1, <1>2, <1>3, <2>1, FlightMoves
  <2> QED
    BY <1>1, <2>2 DEF Sound, Followed
<1>12. Told'
  BY <1>1, <1>8 DEF Sound, Told, RelaysTold, ProvidersTold, Queued, required_relays_ready
<1> QED
  BY <1>9, <1>10, <1>11, <1>12 DEF Sound

\* The news of a state change leaves what the channel says of the bits.
LEMMA StateNews ==
    ASSUME Sound, StateChangedSent, UNCHANGED <<health, published, result>>
    PROVE  /\ MainTyped'
           /\ counts' = "stale" => Queued("state_changed")'
           /\ \A v : Carries(healthQueue, "providers", health.providers, v) =>
                         Carries(healthQueue', "providers", health'.providers, v)
           /\ \A v : Carries(healthQueue, "required_relays", health.required_relays, v) =>
                         Carries(healthQueue', "required_relays", health'.required_relays, v)
<1>1. MainTyped /\ healthQueue \in Seq(HealthEvents)
  BY DEF Sound, MainTyped
<1> DEFINE e == <<"state_changed">>
<1>2. e \in HealthEvents /\ e[1] = "state_changed"
  BY EventsKnown
<1>3. healthQueue' = healthQueue \/ healthQueue' = Append(healthQueue, e)
  BY <1>1, StateChangedTold
<1> HIDE DEF e
<1>4. MainTyped' /\ (counts' = "stale" => Queued("state_changed")')
  BY <1>1, StateChangedTold DEF MainTyped
<1>5. ASSUME NEW kind \in {"providers", "required_relays"}, NEW bit, NEW v,
             Carries(healthQueue, kind, bit, v)
      PROVE  Carries(healthQueue', kind, bit, v)
  <2>1. e[1] # kind
    BY <1>2
  <2>2. Carries(Append(healthQueue, e), kind, bit, v)
    BY <1>1, <1>2, <1>5, <2>1, AppendOther
  <2> QED
    BY <1>3, <1>5, <2>2
<1> QED
  BY <1>4, <1>5

LEMMA ProcessedSound ==
    ASSUME Sound, Processed
    PROVE  Sound'
<1> DEFINE x == Head(batch)
<1>1. /\ UNCHANGED <<slots, checkpoint, position, ingress, channel>>
      /\ UNCHANGED <<health, published, main, stop, ended, result>>
      /\ dispatch.pc = "process" /\ dispatch' = [pc |-> "report", ok |-> TRUE]
      /\ batch' = Tail(batch) /\ StateChangedSent
      /\ handled' = [handled EXCEPT ![x[1]] = @ \cup {x[2]}]
  BY DEF Processed, ingressVars
<1>2. /\ batch \in Seq(Items) /\ batch # <<>> /\ channel \in Seq(Items) /\ Len(batch) \in Nat
      /\ Len(batch) <= ProviderCapacity /\ handled \in [ReadRelays -> SUBSET Nat]
      /\ ingress.item \in Items \cup {<<>>}
  BY <1>1, LenProperties DEF Sound, DispatchTyped, IngressTyped
<1>3. x \in Items /\ batch' \in Seq(Items) /\ Len(batch') = Len(batch) - 1
  BY <1>1, <1>2, HeadTailProperties
<1>4. Followed'
  <2>1. SUFFICES ASSUME Accounted(InFlight(batch, channel, ingress.item), handled, checkpoint)
                 PROVE  Accounted(InFlight(Tail(batch), channel, ingress.item), handled', checkpoint)
    BY <1>1 DEF Sound, Followed
  <2> DEFINE flight == InFlight(batch, channel, ingress.item)
  <2>2. /\ flight \in Seq(Items) /\ flight # <<>> /\ Head(flight) = x
        /\ Tail(flight) = InFlight(Tail(batch), channel, ingress.item)
    BY <1>2, FlightMoves
  <2>3. Accounted(flight, handled, checkpoint)
    BY <2>1
  <2> HIDE DEF flight, x
  <2>4. Accounted(Tail(flight), [handled EXCEPT ![Head(flight)[1]] = @ \cup {Head(flight)[2]}],
                  checkpoint)
    BY <1>2, <2>2, <2>3, HeadDone
  <2> QED
    BY <1>1, <2>2, <2>4
<1> HIDE DEF x
<1>5. DispatchTyped'
  <2>1. x[1] \in ReadRelays /\ x[2] \in 1..MaxEvents[x[1]] /\ x[2] \in Nat
    BY <1>3, ItemsKnown
  <2>2. /\ handled' \in [ReadRelays -> SUBSET Nat]
        /\ \A r \in ReadRelays : handled'[r] \subseteq 1..MaxEvents[r]
    BY <1>1, <1>2, <2>1 DEF Sound, DispatchTyped
  <2>3. Len(batch') <= ProviderCapacity
    BY <1>2, <1>3, BoundsKnown
  <2> QED
    BY <1>1, <1>3, <2>2, <2>3 DEF Sound, DispatchTyped
<1>6. IngressTyped'
  BY <1>1 DEF Sound, IngressTyped
<1>7. MainTyped' /\ Told'
  BY <1>1, StateNews DEF Sound, Told, RelaysTold, ProvidersTold, required_relays_ready
<1> QED
  BY <1>4, <1>5, <1>6, <1>7 DEF Sound

LEMMA ProviderSound ==
    ASSUME Sound, ProviderFails \/ BackoffOver
    PROVE  Sound'
<1>1. /\ UNCHANGED <<slots, checkpoint, position, ingress, channel, batch, handled, healthQueue>>
      /\ UNCHANGED <<health, published, counts, main, stop, ended, result>>
      /\ dispatch.pc \in {"process", "backoff"}
  BY DEF ProviderFails, BackoffOver, ingressVars, mainVars
<1>2. \/ dispatch' = [pc |-> "report", ok |-> FALSE]
      \/ dispatch' = [pc |-> "process", ok |-> dispatch.ok] /\ dispatch.pc = "backoff"
  BY DEF ProviderFails, BackoffOver, Sound, DispatchTyped
<1>3. batch # <<>> /\ dispatch.ok \in BOOLEAN
  BY <1>1 DEF Sound, DispatchTyped
<1>4. /\ dispatch' \in [pc : {"recv", "process", "report", "backoff", "ended"}, ok : BOOLEAN]
      /\ dispatch'.pc \in {"report", "process"}
      /\ dispatch'.pc = "process" => dispatch.pc = "backoff" /\ dispatch'.ok = dispatch.ok
  <2>1. CASE dispatch' = [pc |-> "report", ok |-> FALSE]
    BY <2>1
  <2>2. CASE dispatch' = [pc |-> "process", ok |-> dispatch.ok] /\ dispatch.pc = "backoff"
    BY <1>3, <2>2
  <2> QED
    BY <1>2, <2>1, <2>2
<1>5. DispatchTyped'
  BY <1>1, <1>3, <1>4 DEF Sound, DispatchTyped
<1>6. IngressTyped' /\ MainTyped' /\ Followed'
  BY <1>1 DEF Sound, IngressTyped, MainTyped, Followed
<1>7. Told'
  BY <1>1, <1>4 DEF Sound, Told, RelaysTold, ProvidersTold, Queued, required_relays_ready
<1> QED
  BY <1>5, <1>6, <1>7 DEF Sound

LEMMA SendProviderHealthSound ==
    ASSUME Sound, SendProviderHealth
    PROVE  Sound'
<1>1. /\ UNCHANGED <<slots, checkpoint, position, ingress, channel, batch, handled>>
      /\ UNCHANGED <<health, published, counts, main, stop, ended, result>>
      /\ dispatch.pc = "report"
      /\ dispatch' = [dispatch EXCEPT !.pc = IF dispatch.ok THEN "recv" ELSE "backoff"]
      /\ Len(healthQueue) < HealthCapacity
      /\ healthQueue' = Append(healthQueue, <<"providers", dispatch.ok>>)
  BY DEF SendProviderHealth, ingressVars, mainVars
<1>2. /\ dispatch' = [pc |-> IF dispatch.ok THEN "recv" ELSE "backoff", ok |-> dispatch.ok]
      /\ dispatch.ok \in BOOLEAN /\ (~dispatch.ok => batch # <<>>)
  BY <1>1 DEF Sound, DispatchTyped
<1> DEFINE e == <<"providers", dispatch.ok>>
<1>3. e \in HealthEvents /\ e[1] = "providers" /\ e[2] = dispatch.ok
  BY <1>2, EventsKnown
<1> HIDE DEF e
<1>4. /\ MainTyped'
      /\ counts = "stale" /\ Queued("state_changed") => Queued("state_changed")'
      /\ \A v : Carries(healthQueue, "required_relays", health["required_relays"], v) =>
                    Carries(healthQueue', "required_relays", health'["required_relays"], v)
      /\ Carries(healthQueue', "providers", health'["providers"], dispatch.ok)
  <2>1. healthQueue' = Append(healthQueue, e)
    BY <1>1 DEF e
  <2> QED
    BY <1>1, <1>3, <2>1, ReportQueued
<1>5. DispatchTyped'
  <2>1. dispatch'.pc = "backoff" => ~dispatch.ok
    BY <1>2
  <2> QED
    BY <1>1, <1>2, <2>1 DEF Sound, DispatchTyped
<1>6. IngressTyped' /\ Followed'
  BY <1>1 DEF Sound, IngressTyped, Followed
<1>7. ProvidersTold'
  <2>1. dispatch'.ok = dispatch.ok
    BY <1>2
  <2> QED
    BY <1>4, <2>1 DEF ProvidersTold
<1>8. ASSUME main = "loop"
      PROVE  RelaysTold'
  BY <1>1, <1>4, <1>8 DEF Sound, Told, RelaysTold, required_relays_ready
<1>9. Told'
  BY <1>1, <1>4, <1>7, <1>8 DEF Sound, Told
<1> QED
  BY <1>4, <1>5, <1>6, <1>9 DEF Sound

LEMMA DispatchGoneSound ==
    ASSUME Sound, ChannelClosed \/ ProcessFails \/ DispatchCancelled
    PROVE  Sound'
<1>1. /\ UNCHANGED <<slots, checkpoint, position, ingress, healthQueue, health, published, counts,
                     main, result>>
      /\ "provider_dispatch" \in ended' /\ DispatchGone
  BY DEF ChannelClosed, ProcessFails, DispatchCancelled, ingressVars
<1>2. DispatchTyped' /\ dispatch'.pc = "ended"
  BY <1>1, EmptyHanded, EmptySeq, BoundsKnown DEF DispatchGone, DispatchTyped
<1>3. IngressTyped' /\ MainTyped'
  BY <1>1 DEF Sound, IngressTyped, MainTyped
<1>4. Followed'
  BY <1>1 DEF Followed
<1>5. Told'
  BY <1>1, <1>2 DEF Sound, Told, RelaysTold, ProvidersTold, Queued, required_relays_ready
<1> QED
  BY <1>2, <1>3, <1>4, <1>5 DEF Sound

LEMMA OthersSound ==
    ASSUME Sound, NEW t \in Tasks, StateChange(t) \/ TaskEnds(t)
    PROVE  Sound'
<1>1. /\ UNCHANGED <<slots, checkpoint, position, ingress, channel, batch, dispatch, handled>>
      /\ UNCHANGED <<health, published, main, result>>
      /\ ended \subseteq ended'
  BY DEF StateChange, TaskEnds, ingressVars, dispatchVars
<1>2. IngressTyped' /\ DispatchTyped' /\ Followed'
  BY <1>1 DEF Sound, IngressTyped, DispatchTyped, Followed
<1>3. CASE StateChange(t)
  <2>1. StateChangedSent
    BY <1>3 DEF StateChange
  <2>2. MainTyped' /\ Told'
    BY <1>1, <2>1, StateNews DEF Sound, Told, RelaysTold, ProvidersTold, required_relays_ready
  <2> QED
    BY <1>2, <2>2 DEF Sound
<1>4. CASE TaskEnds(t)
  <2>1. UNCHANGED <<healthQueue, counts>>
    BY <1>4 DEF TaskEnds
  <2>2. MainTyped' /\ Told'
    BY <1>1, <2>1 DEF Sound, MainTyped, Told, RelaysTold, ProvidersTold, Queued, required_relays_ready
  <2> QED
    BY <1>2, <2>2 DEF Sound
<1> QED
  BY <1>3, <1>4

LEMMA ObserveKnown ==
    ASSUME health \in HealthRecords, NEW e \in HealthEvents
    PROVE  /\ Observe(e) \in HealthRecords
           /\ Observe(e).providers = IF e[1] = "providers" THEN e[2] ELSE health.providers
           /\ Observe(e).required_relays =
                  IF e[1] = "required_relays" THEN e[2] ELSE health.required_relays
<1>1. /\ e[1] \in {"providers", "required_relays", "state_changed"}
      /\ e[1] # "state_changed" => e[2] \in BOOLEAN
  BY EventsKnown
<1>2. CASE e[1] = "providers"
  <2>1. Observe(e) = [health EXCEPT !.providers = e[2]]
    BY <1>2 DEF Observe
  <2> QED
    BY <1>1, <1>2, <2>1 DEF HealthRecords
<1>3. CASE e[1] = "required_relays"
  <2>1. Observe(e) = [health EXCEPT !.required_relays = e[2]]
    BY <1>3 DEF Observe
  <2> QED
    BY <1>1, <1>3, <2>1 DEF HealthRecords
<1>4. CASE e[1] = "state_changed"
  <2>1. Observe(e) = health
    BY <1>4 DEF Observe
  <2> QED
    BY <1>4, <2>1
<1> QED
  BY <1>1, <1>2, <1>3, <1>4

LEMMA PhaseForShows ==
    ASSUME NEW h \in HealthRecords
    PROVE  /\ PhaseFor(h) \in {"ready", "degraded", "unready"}
           /\ PhaseFor(h) = "unready" => ~(h.providers /\ h.required_relays)
BY DEF PhaseFor

LEMMA QueuedTail ==
    ASSUME MainTyped, healthQueue # <<>>, healthQueue' = Tail(healthQueue), NEW kind,
           Queued(kind), Head(healthQueue)[1] # kind
    PROVE  Queued(kind)'
<1>1. /\ DOMAIN healthQueue = 1..Len(healthQueue) /\ Len(healthQueue) \in Nat
      /\ DOMAIN healthQueue' = 1..Len(healthQueue) - 1 /\ Head(healthQueue) = healthQueue[1]
      /\ \A i \in 1..Len(healthQueue) - 1 : healthQueue'[i] = healthQueue[i + 1]
  BY HeadTailProperties, LenProperties DEF MainTyped
<1>2. PICK i \in 1..Len(healthQueue) : healthQueue[i][1] = kind
  BY <1>1 DEF Queued
<1>3. i - 1 \in 1..Len(healthQueue) - 1 /\ healthQueue'[i - 1] = healthQueue[i]
  BY <1>1, <1>2
<1> QED
  BY <1>1, <1>2, <1>3 DEF Queued

LEMMA HealthEventSound ==
    ASSUME Sound, HealthEvent
    PROVE  Sound'
<1> DEFINE e == Head(healthQueue)
           h == Observe(e)
<1>1. /\ UNCHANGED <<slots, checkpoint, position, ingress, channel, batch, dispatch, handled>>
      /\ UNCHANGED <<main, stop, ended, result>>
      /\ main = "loop" /\ healthQueue # <<>> /\ healthQueue' = Tail(healthQueue)
      /\ health' = h
      /\ published' = IF e[1] = "state_changed" \/ h # health
                      THEN Observation(PhaseFor(health'), health') ELSE published
      /\ counts' = refresh_state(e)
  BY DEF HealthEvent, ingressVars, dispatchVars
<1>2. /\ healthQueue \in Seq(HealthEvents) /\ Len(healthQueue) <= HealthCapacity
      /\ health \in HealthRecords /\ Len(healthQueue) \in Nat
  BY LenProperties DEF Sound, MainTyped
<1>3. e \in HealthEvents /\ Tail(healthQueue) \in Seq(HealthEvents)
      /\ Len(Tail(healthQueue)) = Len(healthQueue) - 1
  BY <1>1, <1>2, HeadTailProperties
<1> HIDE DEF e
<1>4. /\ h \in HealthRecords
      /\ h.providers = IF e[1] = "providers" THEN e[2] ELSE health.providers
      /\ h.required_relays = IF e[1] = "required_relays" THEN e[2] ELSE health.required_relays
  BY <1>2, <1>3, ObserveKnown
<1> HIDE DEF h
<1>5. PhaseFor(h) \in {"ready", "degraded", "unready"}
      /\ (PhaseFor(h) = "unready" => ~(h.providers /\ h.required_relays))
  BY <1>4, PhaseForShows
<1>6. MainTyped'
  <2>1. PhaseFor(h) \in ServicePhases
    BY <1>5 DEF ServicePhases
  <2>2. Observation(PhaseFor(h), h) \in Documents
    BY <1>4, <2>1, ObservationTyped
  <2>3. published' \in Documents \cup {NoDocument}
    BY <1>1, <2>2 DEF Sound, MainTyped
  <2>4. counts' \in {"fresh", "stale", "lost"}
    BY <1>1 DEF refresh_state, Sound, MainTyped
  <2>5. Len(healthQueue') <= HealthCapacity
    BY <1>1, <1>2, <1>3, BoundsKnown
  <2> QED
    BY <1>1, <1>3, <1>4, <2>3, <2>4, <2>5 DEF Sound, MainTyped
<1>7. IngressTyped' /\ DispatchTyped' /\ Followed'
  BY <1>1 DEF Sound, IngressTyped, DispatchTyped, Followed
<1>8. Shows(published, health)'
  <2>1. CASE e[1] = "state_changed" \/ h # health
    BY <1>1, <1>5, <2>1 DEF Shows
  <2>2. CASE ~(e[1] = "state_changed" \/ h # health)
    <3>1. published' = published /\ health' = health
      BY <1>1, <2>2
    <3> QED
      BY <1>1, <3>1 DEF Sound, Told, Shows
  <2> QED
    BY <2>1, <2>2
<1>9. counts' = "stale" => Queued("state_changed")'
  <2>1. ASSUME counts' = "stale"
        PROVE  Queued("state_changed")'
    <3>1. counts = "stale" /\ e[1] # "state_changed"
      BY <1>1, <2>1 DEF refresh_state
    <3> QED
      BY <1>1, <3>1, QueuedTail DEF Sound, Told, e
  <2> QED
    BY <2>1
<1>10. \A kind, bit, v : Carries(healthQueue, kind, bit, v) =>
           Carries(healthQueue', kind, IF e[1] = kind THEN e[2] ELSE bit, v)
  BY <1>1, <1>2, TailCarries DEF e
<1>11. RelaysTold'
  <2>1. ASSUME ingress'.pc \notin {"report", "ended"}
        PROVE  Carries(healthQueue', "required_relays", health'.required_relays,
                       required_relays_ready(slots)')
    <3>1. Carries(healthQueue, "required_relays", health.required_relays, required_relays_ready(slots))
      BY <1>1, <2>1 DEF Sound, Told, RelaysTold
    <3>2. required_relays_ready(slots)' = required_relays_ready(slots)
      BY <1>1 DEF required_relays_ready
    <3> QED
      BY <1>1, <1>4, <1>10, <3>1, <3>2
  <2>2. ingress'.pc = "report" => (ingress'.ready <=> required_relays_ready(slots)')
    BY <1>1 DEF Sound, Told, RelaysTold, required_relays_ready
  <2> QED
    BY <2>1, <2>2 DEF RelaysTold
<1>12. ProvidersTold'
  <2>1. ASSUME dispatch'.pc \notin {"report", "ended"}
        PROVE  Carries(healthQueue', "providers", health'.providers, dispatch'.ok)
    <3>1. Carries(healthQueue, "providers", health.providers, dispatch.ok)
      BY <1>1, <2>1 DEF Sound, Told, ProvidersTold
    <3> QED
      BY <1>1, <1>4, <1>10, <3>1
  <2> QED
    BY <2>1 DEF ProvidersTold
<1> QED
  BY <1>6, <1>7, <1>8, <1>9, <1>11, <1>12 DEF Sound, Told

LEMMA OperationsJoinedSound ==
    ASSUME Sound, OperationsJoined
    PROVE  Sound'
<1>1. /\ UNCHANGED <<slots, checkpoint, position, ingress, channel, batch, dispatch, handled>>
      /\ UNCHANGED <<healthQueue, counts, main, stop, ended, result>>
      /\ health' = [health EXCEPT !.operations = FALSE]
      /\ published' = Observation("degraded", health')
  BY DEF OperationsJoined, ingressVars, dispatchVars
<1>2. /\ health' \in HealthRecords /\ health'.providers = health.providers
      /\ health'.required_relays = health.required_relays
  BY <1>1 DEF Sound, MainTyped, HealthRecords
<1>3. Shows(published, health)'
  BY <1>1 DEF Shows
<1>4. MainTyped'
  <2>1. Observation("degraded", health') \in Documents
    BY <1>2, ObservationTyped DEF ServicePhases
  <2> QED
    BY <1>1, <1>2, <2>1 DEF Sound, MainTyped
<1>5. IngressTyped' /\ DispatchTyped' /\ Followed'
  BY <1>1 DEF Sound, IngressTyped, DispatchTyped, Followed
<1>6. Told'
  BY <1>1, <1>2, <1>3 DEF Sound, Told, RelaysTold, ProvidersTold, Queued, required_relays_ready
<1> QED
  BY <1>4, <1>5, <1>6 DEF Sound

LEMMA PhasesSound ==
    ASSUME Sound, \/ \E cause \in {"signal", "signal_error", "task"} : LeaveLoop(cause)
                  \/ EnterPhase \/ LeavePhase
    PROVE  Sound'
<1>1. /\ UNCHANGED <<slots, checkpoint, position, ingress, channel, batch, dispatch, handled>>
      /\ UNCHANGED <<healthQueue, health, counts, ended, result>>
      /\ main \in {"loop", "stopping"} /\ main' = "stopping"
      /\ published' \in {published, Observation("stopping", health)}
  BY DEF LeaveLoop, EnterPhase, LeavePhase, ingressVars, dispatchVars
<1>2. IngressTyped' /\ DispatchTyped'
  BY <1>1 DEF Sound, IngressTyped, DispatchTyped
<1>3. Followed' /\ Told'
  BY <1>1 DEF Sound, Followed, Told
<1>4. MainTyped'
  <2>1. Observation("stopping", health) \in Documents
    BY ObservationTyped DEF Sound, MainTyped, ServicePhases
  <2> QED
    BY <1>1, <2>1 DEF Sound, MainTyped
<1> QED
  BY <1>2, <1>3, <1>4 DEF Sound

LEMMA ExitSound ==
    ASSUME Sound, StartFails \/ RefreshFails \/ PhaseFails \/ ForceStop \/ Finish
    PROVE  Sound'
<1>1. /\ main' = "exited" /\ IngressGone /\ DispatchGone /\ healthQueue' = <<>> /\ counts' = "fresh"
      /\ UNCHANGED <<health, published>>
      /\ result' \in {"success", "state_or_identity_unavailable",
                      "service_or_dependency_unavailable", "unexpected_internal"}
  BY DEF StartFails, RefreshFails, PhaseFails, ForceStop, Finish, Exit
<1>2. IngressTyped'
  BY <1>1, EmptyHanded DEF IngressGone, IngressTyped
<1>3. DispatchTyped'
  BY <1>1, EmptyHanded, EmptySeq, BoundsKnown DEF DispatchGone, DispatchTyped
<1>4. MainTyped'
  BY <1>1, EmptySeq, BoundsKnown DEF Sound, MainTyped
<1>5. Told' /\ Followed'
  BY <1>1 DEF Told, Followed
<1> QED
  BY <1>2, <1>3, <1>4, <1>5 DEF Sound

-----------------------------------------------------------------------------
\* Until it starts, the process is as it was created.
Fresh == main = "starting" => Init

LEMMA FreshStep ==
    ASSUME Fresh, [Next]_vars
    PROVE  Fresh'
<1>1. ASSUME main' = "starting", Next
      PROVE  UNCHANGED vars
  BY <1>1 DEF Next, Start, StartFails, Sleep, SendItem, SendItemFails, SendRelayHealth,
       IngressCancelled, NextEvent, SubscriptionEnds, Retry, Connected, ConnectFails, Take,
       ChannelClosed, Processed, ProviderFails, SendProviderHealth, BackoffOver, ProcessFails,
       DispatchCancelled, StateChange, TaskEnds, HealthEvent, RefreshFails, OperationsJoined,
       LeaveLoop, EnterPhase, LeavePhase, PhaseFails, ForceStop, Finish, Exited, Exit, Selecting,
       Running, mainVars
<1>2. ASSUME UNCHANGED vars
      PROVE  Fresh'
  BY <1>2 DEF vars, ingressVars, dispatchVars, mainVars, Fresh, Init
<1> QED
  BY <1>1, <1>2 DEF Fresh

LEMMA InitSound ==
    ASSUME Init
    PROVE  Sound
<1>1. IngressTyped
  BY EmptyHanded DEF Init, IngressTyped
<1>2. DispatchTyped
  BY EmptyHanded, EmptySeq, BoundsKnown DEF Init, DispatchTyped
<1>3. MainTyped
  BY EmptySeq, BoundsKnown DEF Init, MainTyped, Healthy, HealthRecords
<1>4. Told
  BY DEF Init, Told
<1>5. Followed
  BY EmptyHanded DEF Init, Followed
<1> QED
  BY <1>1, <1>2, <1>3, <1>4, <1>5 DEF Sound

LEMMA StartSound ==
    ASSUME Sound, Fresh, Start
    PROVE  Sound'
<1>1. Init
  BY DEF Fresh, Start
<1>2. /\ UNCHANGED <<checkpoint, position, ingress, channel, batch, dispatch, handled, healthQueue>>
      /\ UNCHANGED <<health, counts, result>>
      /\ published' = Observation("ready", health) /\ main' = "loop" /\ ended' = Tasks \ Spawned
      /\ required_relays_ready(slots')
  BY DEF Start, dispatchVars
<1>3. slots' \in [Groups -> Slots]
  <2>1. PICK up \in SUBSET Groups :
          slots' = [g \in Groups |->
                        [slots[g] EXCEPT !.state = IF g \in up THEN "active" ELSE "waiting"]]
    BY DEF Start
  <2>2. ASSUME NEW g \in Groups, NEW state \in SlotStates
        PROVE  [slots[g] EXCEPT !.state = state] \in Slots
    BY DEF Sound, IngressTyped, Slots
  <2>3. \A g \in Groups : (IF g \in up THEN "active" ELSE "waiting") \in SlotStates
    BY DEF SlotStates
  <2> QED
    BY <2>1, <2>2, <2>3
<1>4. IngressTyped' /\ DispatchTyped'
  BY <1>2, <1>3 DEF Sound, IngressTyped, DispatchTyped
<1>5. MainTyped' /\ Shows(published, health)'
  <2>1. Observation("ready", health) \in Documents
    BY ObservationTyped DEF Sound, MainTyped, ServicePhases
  <2> QED
    BY <1>2, <2>1 DEF Sound, MainTyped, Shows
<1>6. Followed'
  <2>1. Accounted(InFlight(<<>>, <<>>, <<>>), NothingHandled, NoEvents)
    BY EmptyHanded
  <2>2. /\ batch' = <<>> /\ channel' = <<>> /\ ingress'.item = <<>> /\ handled' = NothingHandled
        /\ checkpoint' = NoEvents
    BY <1>1, <1>2 DEF Init
  <2> QED
    BY <2>1, <2>2 DEF Followed
<1>7. RelaysTold'
  <2>1. /\ healthQueue' = <<>> /\ health'.required_relays = TRUE /\ ingress'.pc = "select"
        /\ required_relays_ready(slots)' = TRUE
    BY <1>1, <1>2 DEF Init, Healthy, required_relays_ready
  <2> QED
    BY <2>1, NoReports DEF RelaysTold
<1>8. ProvidersTold'
  <2>1. healthQueue' = <<>> /\ health'.providers = TRUE /\ dispatch'.ok = TRUE
    BY <1>1, <1>2 DEF Init, Healthy
  <2> QED
    BY <2>1, NoReports DEF ProvidersTold
<1>9. Told'
  BY <1>1, <1>2, <1>5, <1>7, <1>8 DEF Told, Init
<1> QED
  BY <1>4, <1>5, <1>6, <1>9 DEF Sound

LEMMA SoundStep ==
    ASSUME Sound, Fresh, [Next]_vars
    PROVE  Sound'
<1>1. CASE UNCHANGED vars
  <2>1. /\ UNCHANGED <<slots, checkpoint, position, ingress, channel, batch, dispatch, handled>>
        /\ UNCHANGED <<healthQueue, health, published, counts, main, stop, ended, result>>
    BY <1>1 DEF vars, ingressVars, dispatchVars, mainVars
  <2>2. IngressTyped' /\ DispatchTyped' /\ MainTyped' /\ Followed'
    BY <2>1 DEF Sound, IngressTyped, DispatchTyped, MainTyped, Followed
  <2>3. Told'
    BY <2>1 DEF Sound, Told, RelaysTold, ProvidersTold, Queued, required_relays_ready
  <2> QED
    BY <2>2, <2>3 DEF Sound
<1> QED
  BY <1>1, StartSound, QuietIngress, NextEventSound, SendItemSound, ReportSound,
     SendRelayHealthSound, IngressGoneSound, TakeSound, ProcessedSound, ProviderSound,
     SendProviderHealthSound, DispatchGoneSound, OthersSound, HealthEventSound,
     OperationsJoinedSound, PhasesSound, ExitSound
     DEF Next, Exited

LEMMA RuntimeCorrect == Spec => [](Stopping /\ Fresh /\ Sound)
<1>1. Init => Stopping /\ Fresh /\ Sound
  BY StoppingStart, InitSound DEF Fresh
<1>2. Stopping /\ Fresh /\ Sound /\ [Next]_vars => (Stopping /\ Fresh /\ Sound)'
  BY StoppingStep, FreshStep, SoundStep
<1> QED
  BY <1>1, <1>2, PTL DEF Spec

LEMMA TypesSound ==
    ASSUME Stopping, Sound
    PROVE  TypeOK
<1>1. \A r \in ReadRelays : {checkpoint[r], position[r]} \subseteq 0..MaxEvents[r]
  BY BoundsKnown DEF Sound, IngressTyped
<1>2. stop \in [phase : 0..Len(ShutdownPhases), entered : BOOLEAN, signalled : BOOLEAN,
                forced : BOOLEAN, fault : BOOLEAN, closed : BOOLEAN]
  BY PhasesKnown DEF Stopping, StopRecords
<1>3. ended \subseteq Tasks /\ main \in {"starting", "loop", "stopping", "exited"}
  BY DEF Stopping
<1>4. slots \in [Groups -> [state : SlotStates, slept : 0..MaximumBackoff,
                            delay : InitialBackoff..MaximumBackoff]]
  BY DEF Sound, IngressTyped, Slots
<1> QED
  BY <1>1, <1>2, <1>3, <1>4
     DEF TypeOK, Sound, IngressTyped, DispatchTyped, MainTyped, HealthRecords

\* What a document says of the bits it was made from.
LEMMA ShownBits ==
    ASSUME NEW document, NEW h \in HealthRecords, Shows(document, h)
    PROVE  /\ document.transport.health = "ready" <=> h.required_relays
           /\ document.provider = "ready" <=> h.providers
           /\ ~h.required_relays =>
                  ~document.ready /\ "required_relay_unavailable" \in document.reasons
           /\ ~h.providers =>
                  ~document.ready /\ "signer_provider_unavailable" \in document.reasons
           /\ document.reasons \subseteq {"operations_listener_failed"} => document.ready
<1>1. PICK phase \in {"ready", "degraded", "unready"} :
          /\ document = Observation(phase, h)
          /\ phase = "unready" => ~(h.providers /\ h.required_relays)
  BY DEF Shows
<1>2. h.providers \in BOOLEAN /\ h.required_relays \in BOOLEAN /\ DiscoveryConfigured \in BOOLEAN
  BY StatusAssumption DEF HealthRecords
<1> DEFINE role == IdentityHealth(TRUE, h)
           other == IdentityHealth(DiscoveryConfigured, h)
<1>3. /\ document.ready = Ready(phase, h) /\ document.reasons = Reasons(phase, h)
      /\ document.provider = ProviderHealth(role, role, other)
      /\ document.transport = TransportStatus(h)
  BY <1>1 DEF Observation
<1>4. document.transport.health = "ready" <=> h.required_relays
  BY <1>2, <1>3 DEF TransportStatus
<1>5. document.provider = "ready" <=> h.providers
  <2>1. /\ role.available <=> h.providers
        /\ other.configured = DiscoveryConfigured
        /\ other.available <=> (DiscoveryConfigured /\ h.providers)
    BY <1>2 DEF IdentityHealth
  <2> HIDE DEF role, other
  <2> QED
    BY <1>2, <1>3, <2>1 DEF ProviderHealth
<1>6. document.ready <=> (phase # "unready" /\ h.providers /\ h.required_relays)
  BY <1>1, <1>3 DEF Ready
<1>7. /\ ~h.providers => "signer_provider_unavailable" \in document.reasons
      /\ ~h.required_relays => "required_relay_unavailable" \in document.reasons
  BY <1>3 DEF Reasons
<1> QED
  BY <1>1, <1>4, <1>5, <1>6, <1>7

\* The status document is true, or the report that corrects it is in the health channel or in the
\* hand of its task, under every interleaving of outages, reconnects, provider failures, state
\* changes and the end of the listener, for every set of relays and every capacity of the channels
\* (RuntimeStatusContext::observation, send_required_relay_health, refresh_state).
THEOREM StatusTruthfulCorrect == Spec => []StatusTruthful
<1>1. ASSUME Stopping, Sound
      PROVE  StatusTruthful
  <2>1. StaleCountsAreTold
    BY <1>1 DEF Sound, Told, StaleCountsAreTold
  <2>2. ASSUME main = "loop"
        PROVE  /\ ~Queued("required_relays") /\ ingress.pc \notin {"report", "ended"} =>
                     /\ published.transport.health = "ready" <=> required_relays_ready(slots)
                     /\ ~required_relays_ready(slots) =>
                          ~published.ready /\ "required_relay_unavailable" \in published.reasons
               /\ ~Queued("providers") /\ dispatch.pc \notin {"report", "ended"} =>
                     /\ published.provider = "ready" <=> dispatch.ok
                     /\ ~dispatch.ok =>
                          ~published.ready /\ "signer_provider_unavailable" \in published.reasons
               /\ published.reasons \subseteq {"operations_listener_failed"} => published.ready
    <3>1. Shows(published, health) /\ RelaysTold /\ ProvidersTold
      BY <1>1, <2>2 DEF Sound, Told
    <3>2. health \in HealthRecords /\ DOMAIN healthQueue = 1..Len(healthQueue)
      BY <1>1, LenProperties DEF Sound, MainTyped
    <3>3. ASSUME ~Queued("required_relays"), ingress.pc \notin {"report", "ended"}
          PROVE  health.required_relays = required_relays_ready(slots)
      BY <3>1, <3>2, <3>3 DEF RelaysTold, Carries, Queued
    <3>4. ASSUME ~Queued("providers"), dispatch.pc \notin {"report", "ended"}
          PROVE  health.providers = dispatch.ok
      BY <3>1, <3>2, <3>4 DEF ProvidersTold, Carries, Queued
    <3> QED
      BY <3>1, <3>2, <3>3, <3>4, ShownBits
  <2>3. StatusSettles
    BY <2>2 DEF StatusSettles
  <2> QED
    BY <1>1, <2>1, <2>3, TypesSound DEF StatusTruthful
<1> QED
  BY <1>1, RuntimeCorrect, PTL

\* While ingress and dispatch live, a relay's checkpoint counts exactly the events that were
\* processed or are on their way, each of them once, through every reconnect, for every number of
\* relays and events and every capacity of the queues (replace_checkpoint, run_provider_dispatch).
THEOREM CheckpointsFollowCorrect == Spec => []CheckpointsFollow
<1>1. ASSUME Sound
      PROVE  CheckpointsFollow
  <2>1. ASSUME Running("relay_ingress"), Running("provider_dispatch")
        PROVE  Accounted(InFlight(batch, channel, ingress.item), handled, checkpoint)
    BY <1>1, <2>1 DEF Sound, Followed, Running
  <2> QED
    BY <2>1 DEF CheckpointsFollow, Accounted, InFlight, Waiting
<1> QED
  BY <1>1, RuntimeCorrect, PTL

=============================================================================
