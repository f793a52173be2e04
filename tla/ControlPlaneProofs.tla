-------------------------- MODULE ControlPlaneProofs --------------------------
(***************************************************************************)
(* Machine-checked proofs about the administration journal and the         *)
(* published generations, for any number of callers, operations, requests  *)
(* and generations, and any limits.                                        *)
(***************************************************************************)
EXTENDS ControlPlane, FiniteSetTheorems, SequenceTheorems, TLAPS

-----------------------------------------------------------------------------
(* Types.                                                                  *)

PreparedRows == [state : {"prepared"}, request : Requests, prepared_at : 0..MaxTime]
CompletedRows == [state : {"completed"}, request : Requests, prepared_at : 0..MaxTime,
                  response : Answers, completed_at : 0..MaxTime,
                  expires_at : 0..MaxTime + Retention]
Journals == [OperationIds -> {NoRow} \cup PreparedRows \cup CompletedRows]

OpenCalls == [pc : {"prepare", "effect"}, id : OperationIds, request : Requests,
              now : 0..MaxTime]
EndingCalls == [pc : {"complete"}, id : OperationIds, request : Requests,
                now : 0..MaxTime, response : Answers]
Calls == {Idle} \cup OpenCalls \cup EndingCalls

Entries == [request : Requests, response : Answers, expires : Nat]
Statuses == {"pending", "delivered", "exhausted"}

\* The state has its types (the discovery state apart).
Types ==
    /\ clock \in 0..MaxTime /\ generation \in 1..MaxGenerations
    /\ journal \in Journals
    /\ calls \in [Callers -> Calls]
    /\ applied \in [OperationIds -> Seq(Entries)]

\* The rows of journal j have room and are not dated ahead of the clock.
Reserved(j) ==
    /\ Cardinality(RowsIn(j, "completed")) + Cardinality(RowsIn(j, "prepared")) <= CompletedLimit
    /\ Cardinality(RowsIn(j, "prepared")) <= PreparedLimit

RowsDated(j) ==
    \A id \in OperationIds :
        /\ j[id].state = "prepared" => j[id].prepared_at <= clock
        /\ j[id].state = "completed" => j[id].prepared_at <= j[id].completed_at

\* The last of the effects of an operation may be forgotten, or is this one.
Over(effects) == effects = <<>> \/ Last(effects).expires <= clock

Recorded(effects, request, response) ==
    effects # <<>> /\ Last(effects).request = request /\ Last(effects).response = response

\* A completed row stands for the last effect, for as long as that one is to be
\* remembered; without a row there is none to be remembered.
RowsKnown(j, app) ==
    \A id \in OperationIds :
        /\ j[id].state = "none" => Over(app[id])
        /\ j[id].state = "completed" =>
              /\ Recorded(app[id], j[id].request, j[id].response)
              /\ Last(app[id]).expires = j[id].expires_at

Holding(call) == call.pc \in {"effect", "complete"}

\* A call that holds a prepared row owns it; it has made no effect that is still
\* remembered, but for a snapshot that it has captured itself.
CallSound(call, j, app) ==
    /\ call.pc # "idle" => call.now <= clock
    /\ Holding(call) => /\ Route[call.request] # "connection"
                        /\ j[call.id] = Prepared(call.request, call.now)
    /\ call.pc = "effect" => Over(app[call.id])
    /\ call.pc = "complete" /\ Route[call.request] = "backup" =>
          Recorded(app[call.id], call.request, call.response)
    /\ call.pc = "complete" /\ Route[call.request] # "backup" =>
          /\ Over(app[call.id])
          /\ call.response \in [document : Documents]
          /\ call.response.document.created_at <= clock

Exclusive ==
    \A c, d \in Callers : c # d /\ Holding(calls[c]) /\ Holding(calls[d]) =>
        calls[c].id # calls[d].id

JournalInv ==
    /\ Types /\ Reserved(journal) /\ RowsDated(journal) /\ RowsKnown(journal, applied)
    /\ \A c \in Callers : CallSound(calls[c], journal, applied)
    /\ Exclusive

LEMMA Constants ==
    /\ MaxTime \in Nat /\ MaxGenerations \in Nat /\ MaxGenerations >= 1
    /\ Retention \in Nat /\ Retention > 0
    /\ CompletedLimit \in Nat /\ PreparedLimit \in Nat /\ IsFiniteSet(OperationIds)
    /\ PreparedLimit <= CompletedLimit /\ CompletedLimit > 0
    /\ \A r \in Requests : Route[r] \in Routes
BY JournalAssumption, ControlPlaneAssumption

-----------------------------------------------------------------------------
(* The journal's operators.                                                *)

\* What a row of each state is.
LEMMA RowShape ==
    ASSUME NEW j \in Journals, NEW id \in OperationIds
    PROVE  /\ j[id].state \in {"none", "prepared", "completed"}
           /\ j[id].state = "none" <=> j[id] = NoRow
           /\ j[id].state = "prepared" <=> j[id] \in PreparedRows
           /\ j[id].state = "completed" <=> j[id] \in CompletedRows
BY DEF Journals, NoRow, PreparedRows, CompletedRows

\* Pruning forgets completed rows only, and only expired ones.
LEMMA Pruned ==
    ASSUME journal \in Journals, NEW now
    PROVE  /\ prune_expired(now) \in Journals
           /\ \A id \in OperationIds :
                \/ prune_expired(now)[id] = journal[id]
                \/ /\ prune_expired(now)[id] = NoRow
                   /\ journal[id].state = "completed" /\ journal[id].expires_at <= now
BY DEF prune_expired, Journals

LEMMA RowsFinite ==
    ASSUME NEW j, NEW state
    PROVE  /\ IsFiniteSet(RowsIn(j, state))
           /\ Cardinality(RowsIn(j, state)) \in Nat
<1>1. RowsIn(j, state) \subseteq OperationIds
  BY DEF RowsIn
<1>2. IsFiniteSet(RowsIn(j, state))
  BY <1>1, Constants, FS_Subset
<1> QED
  BY <1>2, FS_CardinalityType

LEMMA PrunedCounts ==
    ASSUME journal \in Journals, NEW now
    PROVE  /\ RowsIn(prune_expired(now), "prepared") = RowsIn(journal, "prepared")
           /\ Cardinality(RowsIn(prune_expired(now), "completed"))
                <= Cardinality(RowsIn(journal, "completed"))
<1> DEFINE p == prune_expired(now)
<1>1. RowsIn(p, "prepared") = RowsIn(journal, "prepared")
  BY Pruned DEF RowsIn, NoRow
<1>2. RowsIn(p, "completed") \subseteq RowsIn(journal, "completed")
  BY Pruned DEF RowsIn, NoRow
<1>3. Cardinality(RowsIn(p, "completed")) <= Cardinality(RowsIn(journal, "completed"))
  BY <1>2, RowsFinite, FS_Subset
<1> QED
  BY <1>1, <1>3

\* An operation is admitted when its row is free and there is room for it.
LEMMA Admitted ==
    ASSUME NEW j \in Journals, NEW id \in OperationIds, NEW request,
           Admission(j, id, request) = "prepared"
    PROVE  /\ j[id] = NoRow
           /\ Cardinality(RowsIn(j, "completed")) + Cardinality(RowsIn(j, "prepared"))
                < CompletedLimit
           /\ Cardinality(RowsIn(j, "prepared")) < PreparedLimit
<1>1. j[id].state \in {"none", "prepared", "completed"}
  BY RowShape
<1>2. j[id].state = "none"
  BY <1>1 DEF Admission
<1>3. ~(\/ read_counts(j).completed + read_counts(j).prepared >= CompletedLimit
        \/ read_counts(j).prepared >= PreparedLimit)
  BY <1>2 DEF Admission
<1> QED
  BY <1>2, <1>3, RowShape, RowsFinite, Constants DEF read_counts

\* A stored response is replayed to the request it was stored for.
LEMMA Replayed ==
    ASSUME NEW j \in Journals, NEW id \in OperationIds, NEW request,
           Admission(j, id, request) = "replay"
    PROVE  j[id].state = "completed" /\ j[id].request = request
<1>1. j[id].state \in {"none", "prepared", "completed"}
  BY RowShape
<1> QED
  BY <1>1 DEF Admission

\* An operation is completed when its row is prepared, its own, and has room.
LEMMA CompletionFacts ==
    ASSUME NEW j \in Journals, NEW id \in OperationIds, NEW request, NEW at, NEW response,
           Completion(j, id, request, at, response) = "completed"
    PROVE  j[id].state = "prepared" /\ j[id].request = request /\ j[id].prepared_at = at
<1>1. j[id].state \in {"none", "prepared", "completed"}
  BY RowShape
<1> QED
  BY <1>1 DEF Completion

\* One more, one fewer.
LEMMA CountOneMore ==
    ASSUME NEW j, NEW k, NEW state, NEW id, id \notin RowsIn(j, state),
           RowsIn(k, state) = RowsIn(j, state) \cup {id}
    PROVE  Cardinality(RowsIn(k, state)) = Cardinality(RowsIn(j, state)) + 1
BY RowsFinite, FS_AddElement

LEMMA CountOneFewer ==
    ASSUME NEW j, NEW k, NEW state, NEW id, id \in RowsIn(j, state),
           RowsIn(k, state) = RowsIn(j, state) \ {id}
    PROVE  Cardinality(RowsIn(k, state)) = Cardinality(RowsIn(j, state)) - 1
BY RowsFinite, FS_RemoveElement

-----------------------------------------------------------------------------
(* What the transactions do to the journal's rows.                         *)

LEMMA CallShape ==
    ASSUME Types, NEW c \in Callers
    PROVE  /\ calls[c].pc \in {"idle", "prepare", "effect", "complete"}
           /\ calls[c].pc \in {"prepare", "effect"} => calls[c] \in OpenCalls
           /\ calls[c].pc = "complete" => calls[c] \in EndingCalls
           /\ calls[c].pc # "idle" => /\ calls[c].id \in OperationIds
                                      /\ calls[c].request \in Requests
                                      /\ calls[c].now \in 0..MaxTime
           /\ calls[c].pc = "complete" => calls[c].response \in Answers
BY DEF Types, Calls, Idle, OpenCalls, EndingCalls

LEMMA PruneKeeps ==
    ASSUME Types, Reserved(journal), RowsDated(journal), RowsKnown(journal, applied),
           NEW now \in Nat, now <= clock
    PROVE  /\ prune_expired(now) \in Journals
           /\ Reserved(prune_expired(now)) /\ RowsDated(prune_expired(now))
           /\ RowsKnown(prune_expired(now), applied)
           /\ \A id \in OperationIds : journal[id].state = "prepared" =>
                 prune_expired(now)[id] = journal[id]
<1> DEFINE p == prune_expired(now)
<1>1. /\ p \in Journals
      /\ \A id \in OperationIds :
            \/ p[id] = journal[id]
            \/ p[id] = NoRow /\ journal[id].state = "completed" /\ journal[id].expires_at <= now
  BY Pruned DEF Types
<1>2. NoRow.state = "none"
  BY DEF NoRow
<1>3. Reserved(p)
  BY PrunedCounts, RowsFinite, Constants DEF Types, Reserved
<1> HIDE DEF p
<1>4. RowsDated(p)
  BY <1>1, <1>2 DEF RowsDated
<1>5. RowsKnown(p, applied)
  <2> SUFFICES ASSUME NEW id \in OperationIds
               PROVE  /\ p[id].state = "none" => Over(applied[id])
                      /\ p[id].state = "completed" =>
                            /\ Recorded(applied[id], p[id].request, p[id].response)
                            /\ Last(applied[id]).expires = p[id].expires_at
    BY DEF RowsKnown
  <2>1. CASE p[id] = journal[id]
    BY <2>1 DEF RowsKnown
  <2>2. CASE p[id] = NoRow /\ journal[id].state = "completed" /\ journal[id].expires_at <= now
    <3>1. Last(applied[id]).expires = journal[id].expires_at
      BY <2>2 DEF RowsKnown
    <3>2. journal[id].expires_at \in Nat
      BY <2>2, RowShape, Constants DEF Types, CompletedRows
    <3>3. Last(applied[id]).expires <= clock
      BY <2>2, <3>1, <3>2, Constants DEF Types
    <3> QED
      BY <2>2, <1>2, <3>3 DEF Over
  <2> QED
    BY <1>1, <2>1, <2>2
<1> QED
  BY <1>1, <1>2, <1>3, <1>4, <1>5 DEF p

\* A row is prepared.
LEMMA PrepareKeeps ==
    ASSUME NEW j \in Journals, Reserved(j), RowsDated(j), RowsKnown(j, applied),
           NEW id \in OperationIds, NEW request \in Requests, NEW now \in 0..MaxTime,
           now <= clock, Admission(j, id, request) = "prepared", NEW k,
           k = [j EXCEPT ![id] = Prepared(request, now)]
    PROVE  /\ k \in Journals /\ Reserved(k) /\ RowsDated(k) /\ RowsKnown(k, applied)
           /\ k[id] = Prepared(request, now) /\ Over(applied[id])
           /\ \A o \in OperationIds : o # id => k[o] = j[o]
           /\ j[id] = NoRow
<1> DEFINE row == Prepared(request, now)
<1>1. /\ row \in PreparedRows /\ row.state = "prepared" /\ row.prepared_at = now
      /\ NoRow.state = "none"
  BY DEF Prepared, PreparedRows, NoRow
<1>2. /\ j[id] = NoRow
      /\ Cardinality(RowsIn(j, "completed")) + Cardinality(RowsIn(j, "prepared")) < CompletedLimit
      /\ Cardinality(RowsIn(j, "prepared")) < PreparedLimit
  BY Admitted
<1>3. k = [j EXCEPT ![id] = row]
  OBVIOUS
<1> HIDE DEF row
<1>4. k \in Journals /\ k[id] = row /\ \A o \in OperationIds : o # id => k[o] = j[o]
  BY <1>1, <1>3 DEF Journals
<1>5. Reserved(k)
  <2>1. RowsIn(k, "completed") = RowsIn(j, "completed")
    BY <1>1, <1>2, <1>4 DEF RowsIn
  <2>2. RowsIn(k, "prepared") = RowsIn(j, "prepared") \cup {id} /\ id \notin RowsIn(j, "prepared")
    BY <1>1, <1>2, <1>4 DEF RowsIn
  <2>3. Cardinality(RowsIn(k, "prepared")) = Cardinality(RowsIn(j, "prepared")) + 1
    BY <2>2, CountOneMore
  <2> QED
    BY <1>2, <2>1, <2>3, RowsFinite, Constants DEF Reserved
<1>6. RowsDated(k)
  BY <1>1, <1>4 DEF RowsDated
<1>7. RowsKnown(k, applied) /\ Over(applied[id])
  BY <1>1, <1>2, <1>4 DEF RowsKnown
<1> QED
  BY <1>2, <1>4, <1>5, <1>6, <1>7 DEF row

\* Row id of j is completed in k, from none or from the prepared row.
Completes(j, k, id, row, response, at) ==
    /\ \/ /\ j[id] = NoRow
          /\ Cardinality(RowsIn(j, "completed")) + Cardinality(RowsIn(j, "prepared"))
               < CompletedLimit
       \/ j[id] = row
    /\ k = [j EXCEPT ![id] = Completed(row, response, at)]

\* The histories app differ from the present ones in id, whose last effect is this.
Records(app, id, request, response, expires) ==
    /\ \A o \in OperationIds : o # id => app[o] = applied[o]
    /\ Recorded(app[id], request, response) /\ Last(app[id]).expires = expires

LEMMA CompleteKeeps ==
    ASSUME NEW j \in Journals, Reserved(j), RowsDated(j), RowsKnown(j, applied),
           NEW id \in OperationIds, NEW row \in PreparedRows, NEW response \in Answers,
           NEW at \in 0..MaxTime, row.prepared_at <= at,
           NEW k, Completes(j, k, id, row, response, at),
           NEW app, Records(app, id, row.request, response, at + Retention)
    PROVE  /\ k \in Journals /\ Reserved(k) /\ RowsDated(k) /\ RowsKnown(k, app)
           /\ \A o \in OperationIds : o # id => k[o] = j[o]
<1> USE DEF Completes, Records
<1> DEFINE done == Completed(row, response, at)
<1>1. at + Retention \in 0..MaxTime + Retention
  BY Constants
<1>2. /\ done \in CompletedRows /\ done.state = "completed" /\ done.request = row.request
      /\ done.response = response /\ done.expires_at = at + Retention
      /\ done.prepared_at <= done.completed_at
  BY <1>1 DEF Completed, CompletedRows, PreparedRows
<1>3. k = [j EXCEPT ![id] = done] /\ NoRow.state = "none" /\ row.state = "prepared"
  BY DEF NoRow, PreparedRows
<1> HIDE DEF done
<1>4. k \in Journals /\ k[id] = done /\ \A o \in OperationIds : o # id => k[o] = j[o]
  BY <1>2, <1>3 DEF Journals
<1>5. Reserved(k)
  <2>1. RowsIn(k, "completed") = RowsIn(j, "completed") \cup {id} /\ id \notin RowsIn(j, "completed")
    BY <1>2, <1>3, <1>4 DEF RowsIn
  <2>2. Cardinality(RowsIn(k, "completed")) = Cardinality(RowsIn(j, "completed")) + 1
    BY <2>1, CountOneMore
  <2>3. CASE j[id] = row
    <3>1. RowsIn(k, "prepared") = RowsIn(j, "prepared") \ {id} /\ id \in RowsIn(j, "prepared")
      BY <1>2, <1>3, <1>4, <2>3 DEF RowsIn
    <3>2. Cardinality(RowsIn(k, "prepared")) = Cardinality(RowsIn(j, "prepared")) - 1
      BY <3>1, CountOneFewer
    <3> QED
      BY <2>2, <3>2, RowsFinite, Constants DEF Reserved
  <2>4. CASE j[id] # row
    <3>1. RowsIn(k, "prepared") = RowsIn(j, "prepared")
      BY <1>2, <1>3, <1>4, <2>4 DEF RowsIn
    <3> QED
      BY <2>2, <2>4, <3>1, RowsFinite, Constants DEF Reserved
  <2> QED
    BY <2>3, <2>4
<1>6. RowsDated(k)
  BY <1>2, <1>4 DEF RowsDated
<1>7. RowsKnown(k, app)
  BY <1>2, <1>4 DEF RowsKnown
<1> QED
  BY <1>4, <1>5, <1>6, <1>7

-----------------------------------------------------------------------------
(* The steps of the calls.                                                 *)

\* A step of one call: the others keep their rows and their effects.
LEMMA CallStep ==
    ASSUME JournalInv, UNCHANGED <<clock, generation>>, NEW c \in Callers, NEW call \in Calls,
           calls' = [calls EXCEPT ![c] = call],
           journal' \in Journals, Reserved(journal'), RowsDated(journal'),
           applied' \in [OperationIds -> Seq(Entries)], RowsKnown(journal', applied'),
           CallSound(call, journal', applied'),
           \A d \in Callers : d # c /\ Holding(calls[d]) =>
              /\ journal'[calls[d].id] = journal[calls[d].id]
              /\ applied'[calls[d].id] = applied[calls[d].id]
              /\ Holding(call) => calls[d].id # call.id
    PROVE  JournalInv'
<1>1. /\ calls' \in [Callers -> Calls] /\ calls'[c] = call
      /\ \A d \in Callers : d # c => calls'[d] = calls[d]
  BY DEF JournalInv, Types
<1>2. Types'
  BY <1>1 DEF JournalInv, Types
<1>3. Reserved(journal)' /\ RowsDated(journal)' /\ RowsKnown(journal, applied)'
  BY DEF Reserved, RowsDated, RowsKnown, Over, Recorded
<1>4. ASSUME NEW d \in Callers PROVE CallSound(calls[d], journal, applied)'
  <2>1. CASE d = c
    BY <1>1, <2>1 DEF CallSound, Over, Recorded, Holding
  <2>2. CASE d # c
    <3>1. CallSound(calls[d], journal, applied) /\ calls'[d] = calls[d]
      BY <1>1, <2>2 DEF JournalInv
    <3> QED
      BY <2>2, <3>1 DEF CallSound, Over, Recorded, Holding
  <2> QED
    BY <2>1, <2>2
<1>5. Exclusive'
  BY <1>1 DEF JournalInv, Exclusive, Holding
<1> QED
  BY <1>2, <1>3, <1>4, <1>5 DEF JournalInv

\* A call that begins.
LEMMA CallBegins ==
    ASSUME JournalInv, NEW c \in Callers, NEW id \in OperationIds, NEW request \in Requests,
           Call(c, id, request)
    PROVE  JournalInv'
<1> DEFINE call == [pc |-> "prepare", id |-> id, request |-> request, now |-> clock]
<1>1. /\ UNCHANGED <<journal, clock, generation, applied>>
      /\ calls' = calls \/ calls' = [calls EXCEPT ![c] = call]
  BY DEF Call
<1>2. call \in Calls /\ call.pc = "prepare" /\ call.now = clock
  BY DEF Calls, OpenCalls, JournalInv, Types
<1> HIDE DEF call
<1>3. CallSound(call, journal', applied')
  BY <1>2, Constants DEF CallSound, Holding, JournalInv, Types
<1>4. CASE calls' = calls
  BY <1>1, <1>4 DEF JournalInv, Types, Reserved, RowsDated, RowsKnown, Over, Recorded,
                    CallSound, Holding, Exclusive
<1>5. CASE calls' = [calls EXCEPT ![c] = call]
  <2>1. ~Holding(call)
    BY <1>2 DEF Holding
  <2> QED
    BY <1>1, <1>2, <1>3, <1>5, <2>1, CallStep DEF JournalInv, Types
<1> QED
  BY <1>1, <1>4, <1>5

\* A call that ends without having touched anything.
LEMMA CallFails ==
    ASSUME JournalInv, NEW c \in Callers, calls' = [calls EXCEPT ![c] = Idle],
           UNCHANGED <<journal, clock, generation, applied>>
    PROVE  JournalInv'
<1>1. Idle \in Calls /\ Idle.pc = "idle"
  BY DEF Idle, Calls
<1>2. ~Holding(Idle) /\ CallSound(Idle, journal', applied')
  BY <1>1 DEF Holding, CallSound
<1> QED
  BY <1>1, <1>2, CallStep DEF JournalInv, Types

\* The time of a call, and what its journal is after pruning.
LEMMA CallPrunes ==
    ASSUME JournalInv, NEW c \in Callers, calls[c].pc = "prepare"
    PROVE  LET p == prune_expired(calls[c].now) IN
           /\ calls[c].id \in OperationIds /\ calls[c].request \in Requests
           /\ calls[c].now \in 0..MaxTime /\ calls[c].now <= clock
           /\ p \in Journals /\ Reserved(p) /\ RowsDated(p) /\ RowsKnown(p, applied)
           /\ \A d \in Callers : Holding(calls[d]) =>
                 /\ calls[d].id \in OperationIds
                 /\ p[calls[d].id] = journal[calls[d].id]
                 /\ p[calls[d].id].state = "prepared"
<1>1. /\ calls[c].id \in OperationIds /\ calls[c].request \in Requests
      /\ calls[c].now \in 0..MaxTime
  BY CallShape DEF JournalInv
<1>2. calls[c].now <= clock
  BY DEF JournalInv, CallSound
<1>3. calls[c].now \in Nat
  BY <1>1, Constants
<1> DEFINE p == prune_expired(calls[c].now)
<1>4. /\ p \in Journals /\ Reserved(p) /\ RowsDated(p) /\ RowsKnown(p, applied)
      /\ \A id \in OperationIds : journal[id].state = "prepared" => p[id] = journal[id]
  BY <1>2, <1>3, PruneKeeps DEF JournalInv
<1>5. ASSUME NEW d \in Callers, Holding(calls[d])
      PROVE  calls[d].id \in OperationIds /\ journal[calls[d].id].state = "prepared"
  <2>1. calls[d].pc # "idle" /\ Types
    BY <1>5 DEF Holding, JournalInv
  <2>2. journal[calls[d].id] = Prepared(calls[d].request, calls[d].now)
    BY <1>5 DEF JournalInv, CallSound
  <2>3. calls[d].id \in OperationIds
    BY <2>1, CallShape
  <2> QED
    BY <2>2, <2>3 DEF Prepared
<1>6. \A d \in Callers : Holding(calls[d]) =>
          /\ calls[d].id \in OperationIds
          /\ p[calls[d].id] = journal[calls[d].id]
          /\ p[calls[d].id].state = "prepared"
  BY <1>4, <1>5
<1> HIDE DEF p
<1> QED
  BY <1>1, <1>2, <1>4, <1>6 DEF p

LEMMA CallAnswered ==
    ASSUME JournalInv, NEW c \in Callers, Answered(c)
    PROVE  JournalInv'
<1> DEFINE p == prune_expired(calls[c].now)
<1>1. /\ UNCHANGED <<clock, generation, applied>> /\ calls' = [calls EXCEPT ![c] = Idle]
      /\ journal' = p \/ journal' = journal
      /\ calls[c].pc = "prepare"
  BY DEF Answered, Reply, Fail
<1>2. CASE journal' = journal
  BY <1>1, <1>2, CallFails
<1>3. CASE journal' = p
  <2>1. Idle \in Calls /\ Idle.pc = "idle"
    BY DEF Idle, Calls
  <2>2. ~Holding(Idle) /\ CallSound(Idle, journal', applied')
    BY <2>1 DEF Holding, CallSound
  <2>3. /\ p \in Journals /\ Reserved(p) /\ RowsDated(p) /\ RowsKnown(p, applied)
        /\ \A d \in Callers : Holding(calls[d]) => p[calls[d].id] = journal[calls[d].id]
    BY <1>1, CallPrunes
  <2> HIDE DEF p
  <2> QED
    BY <1>1, <1>3, <2>1, <2>2, <2>3, CallStep DEF JournalInv, Types
<1> QED
  BY <1>1, <1>2, <1>3

LEMMA CallPrepares ==
    ASSUME JournalInv, NEW c \in Callers, Prepare(c)
    PROVE  JournalInv'
<1> DEFINE p == prune_expired(calls[c].now)
           id == calls[c].id
           request == calls[c].request
           now == calls[c].now
           call == [calls[c] EXCEPT !.pc = "effect"]
<1>1. /\ UNCHANGED <<clock, generation, applied>> /\ calls' = [calls EXCEPT ![c] = call]
      /\ calls[c].pc = "prepare" /\ Route[request] # "connection"
      /\ Admission(p, id, request) = "prepared"
      /\ journal' = [p EXCEPT ![id] = Prepared(request, now)]
  BY DEF Prepare
<1>2. calls[c] \in OpenCalls
  BY <1>1, CallShape DEF JournalInv
<1>3. /\ call \in Calls /\ call.pc = "effect" /\ call.id = id
      /\ call.request = request /\ call.now = now
  BY <1>2 DEF Calls, OpenCalls
<1>4. /\ id \in OperationIds /\ request \in Requests /\ now \in 0..MaxTime /\ now <= clock
      /\ p \in Journals /\ Reserved(p) /\ RowsDated(p) /\ RowsKnown(p, applied)
      /\ \A d \in Callers : Holding(calls[d]) =>
            /\ calls[d].id \in OperationIds
            /\ p[calls[d].id] = journal[calls[d].id] /\ p[calls[d].id].state = "prepared"
  BY <1>1, CallPrunes
<1> HIDE DEF p, id, request, now, call
<1>5. /\ journal' \in Journals /\ Reserved(journal') /\ RowsDated(journal')
      /\ RowsKnown(journal', applied)
      /\ journal'[id] = Prepared(request, now) /\ Over(applied[id])
      /\ \A o \in OperationIds : o # id => journal'[o] = p[o]
      /\ p[id] = NoRow
  <2>1. now \in 0..MaxTime /\ now <= clock /\ Admission(p, id, request) = "prepared"
    BY <1>1, <1>4
  <2>2. \A k : k = [p EXCEPT ![id] = Prepared(request, now)] =>
           /\ k \in Journals /\ Reserved(k) /\ RowsDated(k) /\ RowsKnown(k, applied)
           /\ k[id] = Prepared(request, now) /\ Over(applied[id])
           /\ \A o \in OperationIds : o # id => k[o] = p[o]
           /\ p[id] = NoRow
    BY <1>4, <2>1, PrepareKeeps
  <2> QED
    BY <1>1, <2>2, Zenon
<1>6. NoRow.state = "none"
  BY DEF NoRow
<1>7. CallSound(call, journal', applied')
  BY <1>1, <1>3, <1>4, <1>5 DEF CallSound, Holding
<1>8. \A d \in Callers : Holding(calls[d]) =>
          calls[d].id # id /\ journal'[calls[d].id] = journal[calls[d].id]
  BY <1>4, <1>5, <1>6
<1> QED
  BY <1>1, <1>3, <1>5, <1>7, <1>8, CallStep DEF JournalInv, Types

\* Appending an effect to the history of an operation.
LEMMA Applied ==
    ASSUME Types, NEW id \in OperationIds, NEW request \in Requests, NEW response \in Answers,
           NEW expires \in Nat, Apply(id, request, response, expires)
    PROVE  /\ applied' \in [OperationIds -> Seq(Entries)]
           /\ \A o \in OperationIds : o # id => applied'[o] = applied[o]
           /\ Recorded(applied'[id], request, response) /\ Last(applied'[id]).expires = expires
           /\ Len(applied'[id]) = Len(applied[id]) + 1
           /\ \A i \in 1..Len(applied[id]) : applied'[id][i] = applied[id][i]
<1> DEFINE e == [request |-> request, response |-> response, expires |-> expires]
<1>1. e \in Entries /\ e.request = request /\ e.response = response /\ e.expires = expires
  BY DEF Entries
<1>2. applied' = [applied EXCEPT ![id] = Append(applied[id], e)] /\ applied[id] \in Seq(Entries)
  BY DEF Apply, Types
<1> HIDE DEF e
<1> DEFINE s == Append(applied[id], e)
<1>3. /\ s \in Seq(Entries) /\ s # <<>> /\ Len(s) = Len(applied[id]) + 1
      /\ \A i \in 1..Len(applied[id]) : s[i] = applied[id][i]
      /\ s[Len(applied[id]) + 1] = e
  BY <1>1, <1>2, AppendProperties
<1>4. applied' = [applied EXCEPT ![id] = s]
  BY <1>2
<1> HIDE DEF s
<1>5. applied'[id] = s /\ applied' \in [OperationIds -> Seq(Entries)]
      /\ \A o \in OperationIds : o # id => applied'[o] = applied[o]
  BY <1>3, <1>4 DEF Types
<1>6. Last(s) = e
  BY <1>3 DEF Last
<1> QED
  BY <1>1, <1>3, <1>5, <1>6 DEF Recorded

LEMMA ResponseTyped ==
    ASSUME Types, NEW id \in OperationIds
    PROVE  EffectResponse(id) \in Answers
<1>1. Len(applied[id]) \in Nat
  BY LenProperties DEF Types
<1> QED
  BY <1>1 DEF EffectResponse, Answers

LEMMA CallExecutes ==
    ASSUME JournalInv, NEW c \in Callers, Execute(c)
    PROVE  JournalInv'
<1> DEFINE p == prune_expired(calls[c].now)
           id == calls[c].id
           request == calls[c].request
           now == calls[c].now
           response == EffectResponse(id)
           row == Prepared(request, now)
<1>1. /\ UNCHANGED <<clock, generation>> /\ calls' = [calls EXCEPT ![c] = Idle]
      /\ calls[c].pc = "prepare"
      /\ Admission(p, id, request) = "prepared"
      /\ \/ /\ journal' = [p EXCEPT ![id] = Completed(row, response, now)]
            /\ Apply(id, request, response, now + Retention)
         \/ UNCHANGED <<journal, applied>>
  BY DEF Execute, Reply, Fail
<1>2. CASE UNCHANGED <<journal, applied>>
  BY <1>1, <1>2, CallFails
<1>3. CASE /\ journal' = [p EXCEPT ![id] = Completed(row, response, now)]
           /\ Apply(id, request, response, now + Retention)
  <2>1. /\ id \in OperationIds /\ request \in Requests /\ now \in 0..MaxTime /\ now <= clock
        /\ p \in Journals /\ Reserved(p) /\ RowsDated(p) /\ RowsKnown(p, applied)
        /\ \A d \in Callers : Holding(calls[d]) =>
              /\ calls[d].id \in OperationIds
              /\ p[calls[d].id] = journal[calls[d].id] /\ p[calls[d].id].state = "prepared"
    BY <1>1, CallPrunes
  <2>2. response \in Answers /\ Types
    BY <2>1, ResponseTyped DEF JournalInv
  <2>3. row \in PreparedRows /\ row.request = request /\ row.prepared_at <= now
    BY <2>1, Constants DEF Prepared, PreparedRows
  <2> HIDE DEF p, id, request, now, response, row
  <2>4. now + Retention \in Nat
    BY <2>1, Constants
  <2>5. /\ applied' \in [OperationIds -> Seq(Entries)]
        /\ \A o \in OperationIds : o # id => applied'[o] = applied[o]
        /\ Recorded(applied'[id], request, response)
        /\ Last(applied'[id]).expires = now + Retention
    BY <1>3, <2>1, <2>2, <2>4, Applied
  <2>6. /\ p[id] = NoRow
        /\ Cardinality(RowsIn(p, "completed")) + Cardinality(RowsIn(p, "prepared")) < CompletedLimit
    BY <1>1, <2>1, Admitted
  <2>7. /\ journal' \in Journals /\ Reserved(journal') /\ RowsDated(journal')
        /\ RowsKnown(journal', applied')
        /\ \A o \in OperationIds : o # id => journal'[o] = p[o]
    <3>1. Recorded(applied'[id], row.request, response)
      BY <2>3, <2>5
    <3>2. /\ Completes(p, journal', id, row, response, now)
          /\ Records(applied', id, row.request, response, now + Retention)
      BY <1>3, <2>5, <2>6, <3>1 DEF Completes, Records
    <3>3. \A k, app : Completes(p, k, id, row, response, now)
                      /\ Records(app, id, row.request, response, now + Retention)
             => /\ k \in Journals /\ Reserved(k) /\ RowsDated(k) /\ RowsKnown(k, app)
                /\ \A o \in OperationIds : o # id => k[o] = p[o]
      BY <2>1, <2>2, <2>3, CompleteKeeps
    <3> QED
      BY <3>2, <3>3, Zenon
  <2>8. Idle \in Calls /\ Idle.pc = "idle" /\ NoRow.state = "none"
    BY DEF Idle, Calls, NoRow
  <2>9. ~Holding(Idle) /\ CallSound(Idle, journal', applied')
    BY <2>8 DEF Holding, CallSound
  <2>10. \A d \in Callers : Holding(calls[d]) =>
           /\ journal'[calls[d].id] = journal[calls[d].id]
           /\ applied'[calls[d].id] = applied[calls[d].id]
    BY <2>1, <2>5, <2>6, <2>7, <2>8
  <2> QED
    BY <1>1, <2>5, <2>7, <2>8, <2>9, <2>10, CallStep
<1> QED
  BY <1>1, <1>2, <1>3

\* The rows of the holders, and that one's is not another's.
LEMMA HolderFacts ==
    ASSUME JournalInv, NEW c \in Callers, Holding(calls[c])
    PROVE  /\ calls[c].id \in OperationIds /\ calls[c].request \in Requests
           /\ calls[c].now \in 0..MaxTime /\ calls[c].now <= clock
           /\ journal[calls[c].id] = Prepared(calls[c].request, calls[c].now)
           /\ \A d \in Callers : d # c /\ Holding(calls[d]) =>
                 calls[d].id \in OperationIds /\ calls[d].id # calls[c].id
<1>1. Types /\ \A d \in Callers : Holding(calls[d]) => calls[d].pc # "idle"
  BY DEF Holding, JournalInv
<1>2. /\ calls[c].now <= clock
      /\ journal[calls[c].id] = Prepared(calls[c].request, calls[c].now)
  BY <1>1 DEF JournalInv, CallSound
<1> QED
  BY <1>1, <1>2, CallShape DEF JournalInv, Exclusive

LEMMA CallCaptures ==
    ASSUME JournalInv, NEW c \in Callers, Capture(c)
    PROVE  JournalInv'
<1> DEFINE id == calls[c].id
           request == calls[c].request
           now == calls[c].now
           response == EffectResponse(id)
           call == [pc |-> "complete", id |-> id, request |-> request, now |-> now,
                    response |-> response]
<1>1. /\ UNCHANGED <<clock, generation, journal>> /\ calls' = [calls EXCEPT ![c] = call]
      /\ calls[c].pc = "effect" /\ Route[request] = "backup"
      /\ Apply(id, request, response, Never)
  BY DEF Capture
<1>2. Holding(calls[c])
  BY <1>1 DEF Holding
<1>3. /\ id \in OperationIds /\ request \in Requests /\ now \in 0..MaxTime /\ now <= clock
      /\ journal[id] = Prepared(request, now)
      /\ \A d \in Callers : d # c /\ Holding(calls[d]) =>
            calls[d].id \in OperationIds /\ calls[d].id # id
  BY <1>2, HolderFacts
<1>4. response \in Answers /\ Types /\ Never \in Nat
  BY <1>3, ResponseTyped, Constants DEF JournalInv, Never
<1>5. /\ call \in Calls /\ call.pc = "complete" /\ call.id = id /\ call.request = request
      /\ call.now = now /\ call.response = response
  BY <1>3, <1>4 DEF Calls, EndingCalls
<1> HIDE DEF id, request, now, response, call
<1>6. /\ applied' \in [OperationIds -> Seq(Entries)]
      /\ \A o \in OperationIds : o # id => applied'[o] = applied[o]
      /\ Recorded(applied'[id], request, response)
  BY <1>1, <1>3, <1>4, Applied
<1>7. RowsKnown(journal', applied')
  <2>1. journal[id].state = "prepared"
    BY <1>3 DEF Prepared
  <2> QED
    BY <1>1, <1>6, <2>1 DEF JournalInv, RowsKnown
<1>8. CallSound(call, journal', applied')
  BY <1>1, <1>3, <1>5, <1>6 DEF CallSound, Holding
<1>9. journal' \in Journals /\ Reserved(journal') /\ RowsDated(journal')
  BY <1>1 DEF JournalInv, Types
<1> QED
  BY <1>1, <1>3, <1>5, <1>6, <1>7, <1>8, <1>9, CallStep

LEMMA CallSigns ==
    ASSUME JournalInv, NEW c \in Callers, prepare_discovery_commit(c)
    PROVE  JournalInv'
<1> DEFINE id == calls[c].id
           request == calls[c].request
           now == calls[c].now
           doc(s) == Document(generation, now, s)
           call(s) == [pc |-> "complete", id |-> id, request |-> request, now |-> now,
                       response |-> [document |-> doc(s)]]
<1>1. /\ UNCHANGED <<clock, generation, journal, applied>>
      /\ calls[c].pc = "effect" /\ Route[request] \in {"render", "publish"}
  BY DEF prepare_discovery_commit
<1>2. PICK s \in Signatures : calls' = [calls EXCEPT ![c] = call(s)]
  BY DEF prepare_discovery_commit
<1>3. Holding(calls[c])
  BY <1>1 DEF Holding
<1>4. /\ id \in OperationIds /\ request \in Requests /\ now \in 0..MaxTime /\ now <= clock
      /\ journal[id] = Prepared(request, now)
      /\ \A d \in Callers : d # c /\ Holding(calls[d]) =>
            calls[d].id \in OperationIds /\ calls[d].id # id
  BY <1>3, HolderFacts
<1>5. Over(applied[id])
  BY <1>1 DEF JournalInv, CallSound
<1>6. doc(s) \in Documents /\ doc(s).created_at = now
  BY <1>4 DEF Document, Documents, JournalInv, Types
<1> HIDE DEF id, request, now, doc
<1> DEFINE new == call(s)
<1>7. /\ new \in Calls /\ new.pc = "complete" /\ new.id = id /\ new.request = request
      /\ new.now = now /\ new.response \in [document : Documents]
      /\ new.response.document.created_at = now
  <2>1. [document |-> doc(s)] \in Answers
    BY <1>6 DEF Answers
  <2> QED
    BY <1>4, <1>6, <2>1 DEF Calls, EndingCalls
<1>8. calls' = [calls EXCEPT ![c] = new]
  BY <1>2
<1> HIDE DEF new, call
<1>9. CallSound(new, journal', applied')
  BY <1>1, <1>4, <1>5, <1>7 DEF CallSound, Holding
<1>10. /\ journal' \in Journals /\ Reserved(journal') /\ RowsDated(journal')
       /\ RowsKnown(journal', applied') /\ applied' \in [OperationIds -> Seq(Entries)]
  BY <1>1 DEF JournalInv, Types
<1> QED
  BY <1>1, <1>4, <1>7, <1>8, <1>9, <1>10, CallStep

\* Dating the last effect of an operation.
LEMMA Dated ==
    ASSUME Types, NEW id \in OperationIds, applied[id] # <<>>, NEW expires \in Nat,
           applied' = [applied EXCEPT ![id][Len(applied[id])].expires = expires]
    PROVE  /\ applied' \in [OperationIds -> Seq(Entries)]
           /\ \A o \in OperationIds : o # id => applied'[o] = applied[o]
           /\ applied'[id] # <<>> /\ Last(applied'[id]).expires = expires
           /\ Len(applied'[id]) = Len(applied[id])
           /\ \A i \in 1..Len(applied[id]) :
                 /\ applied'[id][i].request = applied[id][i].request
                 /\ applied'[id][i].response = applied[id][i].response
<1> DEFINE s == applied[id]
           n == Len(s)
           e == [s[n] EXCEPT !.expires = expires]
           t == [s EXCEPT ![n] = e]
<1>1. s \in Seq(Entries) /\ s # <<>> /\ n \in Nat /\ n >= 1
  BY EmptySeq, LenProperties DEF Types
<1>2. s[n] \in Entries
  BY <1>1, ElementOfSeq
<1>3. /\ e \in Entries /\ e.expires = expires
      /\ e.request = s[n].request /\ e.response = s[n].response
  BY <1>2 DEF Entries
<1>4. applied' = [applied EXCEPT ![id] = t]
  OBVIOUS
<1> HIDE DEF e
<1>5. /\ t \in Seq(Entries) /\ Len(t) = n
      /\ \A i \in 1..n : t[i] = IF i = n THEN e ELSE s[i]
  BY <1>1, <1>3, ExceptSeq
<1> HIDE DEF t
<1>6. /\ applied' \in [OperationIds -> Seq(Entries)] /\ applied'[id] = t
      /\ \A o \in OperationIds : o # id => applied'[o] = applied[o]
  BY <1>4, <1>5 DEF Types
<1>7. t # <<>>
  BY <1>1, <1>5, EmptySeq
<1>8. Last(t) = e
  BY <1>1, <1>5 DEF Last
<1> QED
  BY <1>3, <1>5, <1>6, <1>7, <1>8

\* A row completed at the present time.
LEMMA CompleteNow ==
    ASSUME JournalInv, NEW id \in OperationIds, NEW row \in PreparedRows,
           NEW response \in Answers, row.prepared_at <= clock
    PROVE  \A k, app : Completes(journal, k, id, row, response, clock)
                      /\ Records(app, id, row.request, response, clock + Retention)
             => /\ k \in Journals /\ Reserved(k) /\ RowsDated(k) /\ RowsKnown(k, app)
                /\ \A o \in OperationIds : o # id => k[o] = journal[o]
<1>1. /\ journal \in Journals /\ Reserved(journal) /\ RowsDated(journal)
      /\ RowsKnown(journal, applied) /\ clock \in 0..MaxTime
  BY DEF JournalInv, Types
<1> QED
  BY <1>1, CompleteKeeps

\* Completing a prepared row, whatever the effect was.
LEMMA CallCompletes ==
    ASSUME JournalInv, NEW c \in Callers, Completing(c), UNCHANGED <<clock, generation>>,
           calls' = [calls EXCEPT ![c] = Idle],
           applied' \in [OperationIds -> Seq(Entries)],
           Records(applied', calls[c].id, calls[c].request, calls[c].response, clock + Retention)
    PROVE  JournalInv'
<1> DEFINE id == calls[c].id
           request == calls[c].request
           response == calls[c].response
           row == journal[id]
<1>1. /\ calls[c].pc = "complete"
      /\ journal' = [journal EXCEPT ![id] = Completed(row, response, clock)]
  BY DEF Completing
<1>2. Holding(calls[c])
  BY <1>1 DEF Holding
<1>3. /\ id \in OperationIds /\ request \in Requests /\ calls[c].now \in 0..MaxTime
      /\ calls[c].now <= clock /\ row = Prepared(request, calls[c].now)
      /\ \A d \in Callers : d # c /\ Holding(calls[d]) =>
            calls[d].id \in OperationIds /\ calls[d].id # id
  BY <1>2, HolderFacts
<1>4. response \in Answers /\ clock \in 0..MaxTime
  BY <1>1, CallShape DEF JournalInv, Types
<1>5. row \in PreparedRows /\ row.prepared_at <= clock /\ row.request = request
  BY <1>3 DEF Prepared, PreparedRows
<1> HIDE DEF id, request, response, row
<1>6. /\ Completes(journal, journal', id, row, response, clock)
      /\ Records(applied', id, row.request, response, clock + Retention)
  BY <1>1, <1>5 DEF Completes, id, request, response, row
<1>7. \A k, app : Completes(journal, k, id, row, response, clock)
                  /\ Records(app, id, row.request, response, clock + Retention)
         => /\ k \in Journals /\ Reserved(k) /\ RowsDated(k) /\ RowsKnown(k, app)
            /\ \A o \in OperationIds : o # id => k[o] = journal[o]
  BY <1>3, <1>4, <1>5, CompleteNow
<1>8. /\ journal' \in Journals /\ Reserved(journal') /\ RowsDated(journal')
      /\ RowsKnown(journal', applied')
      /\ \A o \in OperationIds : o # id => journal'[o] = journal[o]
  BY <1>6, <1>7, Zenon
<1>9. \A o \in OperationIds : o # id => applied'[o] = applied[o]
  BY <1>6 DEF Records
<1>10. Idle \in Calls /\ ~Holding(Idle) /\ CallSound(Idle, journal', applied')
  BY DEF Idle, Calls, Holding, CallSound
<1>11. \A d \in Callers : d # c /\ Holding(calls[d]) =>
           /\ journal'[calls[d].id] = journal[calls[d].id]
           /\ applied'[calls[d].id] = applied[calls[d].id]
  BY <1>3, <1>8, <1>9
<1> QED
  BY <1>8, <1>10, <1>11, CallStep

\* complete_admin_operation and the publication: the effect of the row is the
\* last one of its operation.
LEMMA EffectCompleted ==
    ASSUME JournalInv, NEW c \in Callers, Complete(c) \/ Publish(c)
    PROVE  /\ Completing(c) /\ UNCHANGED <<clock, generation>>
           /\ calls' = [calls EXCEPT ![c] = Idle]
           /\ applied' \in [OperationIds -> Seq(Entries)]
           /\ Records(applied', calls[c].id, calls[c].request, calls[c].response,
                      clock + Retention)
           /\ \A id \in OperationIds :
                 /\ Len(applied'[id]) >= Len(applied[id])
                 /\ \A i \in 1..Len(applied[id]) :
                       /\ applied'[id][i].request = applied[id][i].request
                       /\ applied'[id][i].response = applied[id][i].response
                 /\ Len(applied'[id]) > Len(applied[id]) => Over(applied[id])
<1> DEFINE id == calls[c].id
           request == calls[c].request
           response == calls[c].response
<1>1. /\ Completing(c) /\ UNCHANGED <<clock, generation>> /\ calls' = [calls EXCEPT ![c] = Idle]
      /\ calls[c].pc = "complete"
  BY DEF Complete, Publish, Reply, Completing
<1>2. Holding(calls[c])
  BY <1>1 DEF Holding
<1>3. id \in OperationIds /\ request \in Requests
  BY <1>2, HolderFacts
<1>4. response \in Answers /\ Types /\ clock + Retention \in Nat
  BY <1>1, CallShape, Constants DEF JournalInv, Types
<1>5. \A o \in OperationIds : Len(applied[o]) \in Nat
  BY <1>4, LenProperties DEF Types
<1>6. CASE Complete(c) /\ Route[request] = "backup"
  <2>1. Recorded(applied[id], request, response)
    BY <1>1, <1>6 DEF JournalInv, CallSound
  <2>2. applied' = [applied EXCEPT ![id][Len(applied[id])].expires = clock + Retention]
    BY <1>6 DEF Complete
  <2>3. applied[id] # <<>>
    BY <2>1 DEF Recorded
  <2> HIDE DEF id, request, response
  <2>4. /\ applied' \in [OperationIds -> Seq(Entries)]
        /\ \A o \in OperationIds : o # id => applied'[o] = applied[o]
        /\ applied'[id] # <<>> /\ Last(applied'[id]).expires = clock + Retention
        /\ Len(applied'[id]) = Len(applied[id])
        /\ \A i \in 1..Len(applied[id]) :
              /\ applied'[id][i].request = applied[id][i].request
              /\ applied'[id][i].response = applied[id][i].response
    BY <1>3, <1>4, <2>2, <2>3, Dated
  <2>5. Len(applied[id]) \in 1..Len(applied[id])
    BY <1>3, <1>4, <2>3, EmptySeq, LenProperties DEF Types
  <2>6. Recorded(applied'[id], request, response)
    BY <2>1, <2>4, <2>5 DEF Recorded, Last
  <2>7. Records(applied', id, request, response, clock + Retention)
    BY <2>4, <2>6 DEF Records
  <2>8. ASSUME NEW o \in OperationIds
        PROVE  /\ Len(applied'[o]) = Len(applied[o])
               /\ \A i \in 1..Len(applied[o]) :
                     /\ applied'[o][i].request = applied[o][i].request
                     /\ applied'[o][i].response = applied[o][i].response
    BY <2>4
  <2>9. \A o \in OperationIds : /\ Len(applied'[o]) >= Len(applied[o])
                                /\ ~(Len(applied'[o]) > Len(applied[o]))
    BY <1>5, <2>8
  <2> QED
    BY <1>1, <2>4, <2>7, <2>8, <2>9 DEF id, request, response
<1>7. CASE ~(Complete(c) /\ Route[request] = "backup")
  <2>1. /\ Apply(id, request, response, clock + Retention)
        /\ Route[request] # "backup"
    BY <1>7 DEF Complete, Publish
  <2>2. Over(applied[id])
    BY <1>1, <2>1 DEF JournalInv, CallSound
  <2> HIDE DEF id, request, response
  <2>3. /\ applied' \in [OperationIds -> Seq(Entries)]
        /\ \A o \in OperationIds : o # id => applied'[o] = applied[o]
        /\ Recorded(applied'[id], request, response)
        /\ Last(applied'[id]).expires = clock + Retention
        /\ Len(applied'[id]) = Len(applied[id]) + 1
        /\ \A i \in 1..Len(applied[id]) : applied'[id][i] = applied[id][i]
    BY <1>3, <1>4, <2>1, Applied
  <2>4. Records(applied', id, request, response, clock + Retention)
    BY <2>3 DEF Records
  <2> QED
    BY <1>1, <1>5, <2>2, <2>3, <2>4 DEF id, request, response
<1> QED
  BY <1>6, <1>7

LEMMA TickKeeps ==
    ASSUME JournalInv, Tick
    PROVE  JournalInv'
<1>1. /\ clock < MaxTime /\ clock' = clock + 1 /\ clock' \in 0..MaxTime
      /\ UNCHANGED <<generation, journal, calls, applied>>
  BY Constants DEF Tick, JournalInv, Types
<1>2. Types'
  BY <1>1 DEF JournalInv, Types
<1>3. \A id \in OperationIds : Over(applied[id]) => Over(applied[id])'
  <2> SUFFICES ASSUME NEW id \in OperationIds, Over(applied[id]) PROVE Over(applied[id])'
    OBVIOUS
  <2>1. CASE applied[id] = <<>>
    BY <1>1, <2>1 DEF Over
  <2>2. CASE applied[id] # <<>>
    <3>1. Len(applied[id]) \in 1..Len(applied[id]) /\ applied[id] \in Seq(Entries)
      BY <2>2, EmptySeq, LenProperties DEF JournalInv, Types
    <3>2. Last(applied[id]) \in Entries
      BY <3>1, ElementOfSeq DEF Last
    <3>3. Last(applied[id]).expires \in Nat
      BY <3>2 DEF Entries
    <3>4. Last(applied[id]).expires <= clock /\ clock \in Nat
      BY <2>2, Constants DEF Over, JournalInv, Types
    <3>5. Last(applied[id]).expires <= clock'
      BY <1>1, <3>3, <3>4
    <3> QED
      BY <1>1, <3>5 DEF Over
  <2> QED
    BY <2>1, <2>2
<1>4. Reserved(journal)'
  BY <1>1 DEF JournalInv, Reserved
<1>5. RowsDated(journal)'
  <2> SUFFICES ASSUME NEW id \in OperationIds
               PROVE  /\ journal[id].state = "prepared" => journal[id].prepared_at <= clock'
                      /\ journal[id].state = "completed" =>
                            journal[id].prepared_at <= journal[id].completed_at
    BY <1>1 DEF RowsDated
  <2>1. journal[id].state = "prepared" => journal[id].prepared_at \in 0..MaxTime
    BY RowShape DEF JournalInv, Types, PreparedRows
  <2> QED
    BY <1>1, <2>1, Constants DEF JournalInv, Types, RowsDated
<1>6. RowsKnown(journal, applied)'
  BY <1>1, <1>3 DEF JournalInv, RowsKnown, Recorded
<1>7. ASSUME NEW c \in Callers PROVE CallSound(calls[c], journal, applied)'
  <2>1. CallSound(calls[c], journal, applied) /\ Types
    BY DEF JournalInv
  <2>2. calls[c].pc # "idle" => calls[c].id \in OperationIds /\ calls[c].now \in 0..MaxTime
    BY <2>1, CallShape
  <2>3. calls[c].pc # "idle" => calls[c].now <= clock'
    BY <1>1, <2>1, <2>2, Constants DEF CallSound, Types
  <2>4. calls[c].pc = "complete" /\ Route[calls[c].request] # "backup" =>
           calls[c].response.document.created_at <= clock'
    <3> SUFFICES ASSUME calls[c].pc = "complete", Route[calls[c].request] # "backup"
                 PROVE  calls[c].response.document.created_at <= clock'
      OBVIOUS
    <3>1. /\ calls[c].response \in [document : Documents]
          /\ calls[c].response.document.created_at <= clock
      BY <2>1 DEF CallSound
    <3>2. calls[c].response.document.created_at \in 0..MaxTime
      BY <3>1 DEF Documents
    <3> QED
      BY <1>1, <2>1, <3>1, <3>2, Constants DEF Types
  <2> QED
    BY <1>1, <1>3, <2>1, <2>2, <2>3, <2>4 DEF CallSound, Holding, Recorded
<1>8. Exclusive'
  BY <1>1 DEF JournalInv, Exclusive, Holding
<1> QED
  BY <1>2, <1>4, <1>5, <1>6, <1>7, <1>8 DEF JournalInv

\* The end of the process takes every call with it.
LEMMA RestartKeeps ==
    ASSUME JournalInv, Restart
    PROVE  JournalInv'
<1>1. /\ UNCHANGED <<clock, journal, applied>> /\ calls' = [c \in Callers |-> Idle]
      /\ generation' \in 1..MaxGenerations
  BY DEF Restart, JournalInv, Types
<1>2. Idle \in Calls /\ Idle.pc = "idle"
  BY DEF Idle, Calls
<1>3. \A c \in Callers : calls'[c] = Idle
  BY <1>1
<1>4. Types'
  BY <1>1, <1>2 DEF JournalInv, Types
<1>5. Reserved(journal)' /\ RowsDated(journal)' /\ RowsKnown(journal, applied)'
  BY <1>1 DEF JournalInv, Reserved, RowsDated, RowsKnown, Over, Recorded
<1>6. \A c \in Callers : CallSound(calls[c], journal, applied)'
  BY <1>2, <1>3 DEF CallSound, Holding
<1>7. Exclusive'
  BY <1>2, <1>3 DEF Exclusive, Holding
<1> QED
  BY <1>4, <1>5, <1>6, <1>7 DEF JournalInv

LEMMA JournalInitial == Init => JournalInv
<1> SUFFICES ASSUME Init PROVE JournalInv
  OBVIOUS
<1>1. NoRow.state = "none" /\ Idle.pc = "idle" /\ Idle \in Calls
  BY DEF NoRow, Idle, Calls
<1>2. /\ \A id \in OperationIds : journal[id] = NoRow /\ applied[id] = <<>>
      /\ \A c \in Callers : calls[c] = Idle
  BY DEF Init
<1>3. Types
  <2>1. journal \in Journals
    BY DEF Init, Journals
  <2>2. applied \in [OperationIds -> Seq(Entries)]
    BY EmptySeq DEF Init
  <2>3. calls \in [Callers -> Calls]
    BY <1>1 DEF Init
  <2> QED
    BY <2>1, <2>2, <2>3, Constants DEF Init, Types
<1>4. Reserved(journal)
  <2>1. RowsIn(journal, "completed") = {} /\ RowsIn(journal, "prepared") = {}
    BY <1>1, <1>2 DEF RowsIn
  <2>2. Cardinality({}) = 0
    BY FS_EmptySet
  <2> QED
    BY <2>1, <2>2, Constants DEF Reserved
<1>5. RowsDated(journal) /\ RowsKnown(journal, applied)
  BY <1>1, <1>2 DEF RowsDated, RowsKnown, Over
<1>6. \A c \in Callers : CallSound(calls[c], journal, applied)
  BY <1>1, <1>2 DEF CallSound, Holding
<1>7. Exclusive
  BY <1>1, <1>2 DEF Exclusive, Holding
<1> QED
  BY <1>3, <1>4, <1>5, <1>6, <1>7 DEF JournalInv

LEMMA JournalStep == JournalInv /\ [Next]_vars => JournalInv'
<1> SUFFICES ASSUME JournalInv, [Next]_vars PROVE JournalInv'
  OBVIOUS
<1>1. ASSUME NEW c \in Callers, NEW id \in OperationIds, NEW request \in Requests,
             Call(c, id, request)
      PROVE  JournalInv'
  BY <1>1, CallBegins
<1>2. ASSUME NEW c \in Callers, Answered(c) PROVE JournalInv'
  BY <1>2, CallAnswered
<1>3. ASSUME NEW c \in Callers, Prepare(c) PROVE JournalInv'
  BY <1>3, CallPrepares
<1>4. ASSUME NEW c \in Callers, Execute(c) PROVE JournalInv'
  BY <1>4, CallExecutes
<1>5. ASSUME NEW c \in Callers, Outside(c) PROVE JournalInv'
  <2>1. CASE OutsideFails(c)
    BY <2>1, CallFails DEF OutsideFails, Fail
  <2> QED
    BY <1>5, <2>1, CallCaptures, CallSigns DEF Outside
<1>6. ASSUME NEW c \in Callers, Complete(c) \/ Publish(c) PROVE JournalInv'
  <2>1. /\ Completing(c) /\ UNCHANGED <<clock, generation>>
        /\ calls' = [calls EXCEPT ![c] = Idle]
        /\ applied' \in [OperationIds -> Seq(Entries)]
        /\ Records(applied', calls[c].id, calls[c].request, calls[c].response, clock + Retention)
    BY <1>6, EffectCompleted
  <2> QED
    BY <2>1, CallCompletes
<1>7. ASSUME NEW c \in Callers, CompletionFails(c) PROVE JournalInv'
  BY <1>7, CallFails DEF CompletionFails, Fail
<1>8. CASE UNCHANGED <<journal, controlVars>>
  BY <1>8 DEF controlVars, JournalInv, Types, Reserved, RowsDated, RowsKnown, Over, Recorded,
              CallSound, Holding, Exclusive
<1>9. CASE Tick
  BY <1>9, TickKeeps
<1>10. CASE Restart
  BY <1>10, RestartKeeps
<1> QED
  BY <1>1, <1>2, <1>3, <1>4, <1>5, <1>6, <1>7, <1>8, <1>9, <1>10 DEF Next, Deliver, vars

\* What a step does to the history: effects are only added, and to an operation
\* whose last one may be forgotten.
LEMMA HistoryGrows ==
    ASSUME JournalInv, [Next]_vars, NEW id \in OperationIds
    PROVE  /\ Len(applied'[id]) >= Len(applied[id])
           /\ \A i \in 1..Len(applied[id]) :
                 /\ applied'[id][i].request = applied[id][i].request
                 /\ applied'[id][i].response = applied[id][i].response
           /\ Len(applied'[id]) > Len(applied[id]) => Over(applied[id])
<1> DEFINE Grows == /\ Len(applied'[id]) >= Len(applied[id])
                    /\ \A i \in 1..Len(applied[id]) :
                          /\ applied'[id][i].request = applied[id][i].request
                          /\ applied'[id][i].response = applied[id][i].response
                    /\ Len(applied'[id]) > Len(applied[id]) => Over(applied[id])
<1>1. Types /\ Len(applied[id]) \in Nat
  BY LenProperties DEF JournalInv, Types
<1>2. CASE applied'[id] = applied[id]
  BY <1>1, <1>2
<1>3. ASSUME NEW o \in OperationIds, NEW request \in Requests, NEW response \in Answers,
             NEW expires \in Nat, Apply(o, request, response, expires), Over(applied[o])
      PROVE  Grows
  <2>1. /\ \A q \in OperationIds : q # o => applied'[q] = applied[q]
        /\ Len(applied'[o]) = Len(applied[o]) + 1
        /\ \A i \in 1..Len(applied[o]) : applied'[o][i] = applied[o][i]
    BY <1>1, <1>3, Applied
  <2>2. CASE id = o
    BY <1>1, <1>3, <2>1, <2>2
  <2>3. CASE id # o
    BY <1>2, <2>1, <2>3
  <2> QED
    BY <2>2, <2>3
<1>4. ASSUME NEW c \in Callers, Execute(c) PROVE Grows
  <2> DEFINE o == calls[c].id
             now == calls[c].now
             pr == prune_expired(now)
  <2>1. /\ calls[c].pc = "prepare" /\ Admission(pr, o, calls[c].request) = "prepared"
        /\ \/ Apply(o, calls[c].request, EffectResponse(o), now + Retention)
           \/ applied' = applied
    BY <1>4 DEF Execute
  <2>2. /\ o \in OperationIds /\ calls[c].request \in Requests
        /\ now \in 0..MaxTime /\ pr \in Journals /\ RowsKnown(pr, applied)
    BY <2>1, CallPrunes
  <2> HIDE DEF o, now, pr
  <2>3. pr[o] = NoRow /\ NoRow.state = "none"
    BY <2>1, <2>2, Admitted DEF NoRow
  <2>4. Over(applied[o])
    BY <2>2, <2>3 DEF RowsKnown
  <2>5. EffectResponse(o) \in Answers /\ now + Retention \in Nat
    BY <1>1, <2>2, ResponseTyped, Constants
  <2> QED
    BY <1>2, <1>3, <2>1, <2>2, <2>4, <2>5
<1>5. ASSUME NEW c \in Callers, Capture(c) PROVE Grows
  <2> DEFINE o == calls[c].id
  <2>1. calls[c].pc = "effect" /\ Apply(o, calls[c].request, EffectResponse(o), Never)
    BY <1>5 DEF Capture
  <2>2. Over(applied[o])
    BY <2>1 DEF JournalInv, CallSound
  <2>3. o \in OperationIds /\ calls[c].request \in Requests
    BY <1>1, <2>1, CallShape
  <2>4. EffectResponse(o) \in Answers /\ Never \in Nat
    BY <1>1, <2>3, ResponseTyped, Constants DEF Never
  <2> HIDE DEF o
  <2> QED
    BY <1>3, <2>1, <2>2, <2>3, <2>4
<1>6. ASSUME NEW c \in Callers, Complete(c) \/ Publish(c) PROVE Grows
  BY <1>6, EffectCompleted
<1>7. CASE applied' = applied
  BY <1>2, <1>7
<1>8. Next => \/ applied' = applied
              \/ \E c \in Callers : Execute(c) \/ Capture(c) \/ Complete(c) \/ Publish(c)
  BY DEF Next, Call, Answered, Prepare, Outside, prepare_discovery_commit, OutsideFails,
         CompletionFails, Deliver, controlVars, Tick, Restart
<1>9. UNCHANGED vars => applied' = applied
  BY DEF vars, controlVars
<1> QED
  BY <1>4, <1>5, <1>6, <1>7, <1>8, <1>9

\* An operation takes effect a second time only when the journal had completed
\* and forgotten the first (prepare_operation, prune_expired, the handlers' order
\* of steps).
THEOREM AppliedOnceCorrect == Spec => AppliedOnce
<1>1. JournalInv /\ [Next]_vars =>
         [\A id \in OperationIds : Len(applied'[id]) > Len(applied[id]) =>
             applied[id] = <<>> \/ Last(applied[id]).expires <= clock]_vars
  BY HistoryGrows DEF Over
<1> QED
  BY <1>1, JournalInitial, JournalStep, PTL DEF Spec, AppliedOnce

-----------------------------------------------------------------------------
(* Replies.                                                                *)

Made(id, request, response) ==
    \E i \in DOMAIN applied[id] :
        applied[id][i].request = request /\ applied[id][i].response = response

RepliesKnown == \A r \in replies : r.id \in OperationIds /\ Made(r.id, r.request, r.response)

LEMMA RecordedIsMade ==
    ASSUME Types, NEW id \in OperationIds, NEW request, NEW response,
           Recorded(applied[id], request, response)
    PROVE  Made(id, request, response)
<1>1. applied[id] \in Seq(Entries) /\ applied[id] # <<>>
  BY DEF Types, Recorded
<1>2. Len(applied[id]) \in DOMAIN applied[id]
  BY <1>1, EmptySeq, LenProperties
<1> QED
  BY <1>2 DEF Made, Recorded, Last

\* What was made stays made.
LEMMA MadeStays ==
    ASSUME JournalInv, JournalInv', [Next]_vars, NEW id \in OperationIds, NEW request,
           NEW response, Made(id, request, response)
    PROVE  Made(id, request, response)'
<1>1. /\ Len(applied'[id]) >= Len(applied[id])
      /\ \A i \in 1..Len(applied[id]) :
            /\ applied'[id][i].request = applied[id][i].request
            /\ applied'[id][i].response = applied[id][i].response
  BY HistoryGrows
<1>2. applied[id] \in Seq(Entries) /\ applied'[id] \in Seq(Entries)
  BY DEF JournalInv, Types
<1>3. /\ DOMAIN applied[id] = 1..Len(applied[id]) /\ DOMAIN applied'[id] = 1..Len(applied'[id])
      /\ Len(applied[id]) \in Nat /\ Len(applied'[id]) \in Nat
  BY <1>2, LenProperties
<1>4. PICK i \in 1..Len(applied[id]) :
         applied[id][i].request = request /\ applied[id][i].response = response
  BY <1>3 DEF Made
<1>5. i \in 1..Len(applied'[id])
  BY <1>1, <1>3
<1> QED
  BY <1>1, <1>3, <1>4, <1>5 DEF Made

\* Every reply that is sent is of an effect that was made.
LEMMA ReplyMade ==
    ASSUME JournalInv, JournalInv', [Next]_vars, NEW r \in replies', r \notin replies
    PROVE  r.id \in OperationIds /\ Made(r.id, r.request, r.response)'
<1>1. Types /\ Types'
  BY DEF JournalInv
<1>2. ASSUME NEW c \in Callers, Answered(c) PROVE r.id \in OperationIds /\ Made(r.id, r.request, r.response)'
  <2> DEFINE id == calls[c].id
             request == calls[c].request
             pr == prune_expired(calls[c].now)
  <2>1. /\ calls[c].pc = "prepare" /\ Admission(pr, id, request) = "replay"
        /\ r = [id |-> id, request |-> request, response |-> pr[id].response]
        /\ applied' = applied
    BY <1>2 DEF Answered, Reply, Fail
  <2>2. /\ id \in OperationIds /\ pr \in Journals /\ RowsKnown(pr, applied)
    BY <2>1, CallPrunes
  <2> HIDE DEF id, request, pr
  <2>3. pr[id].state = "completed" /\ pr[id].request = request
    BY <2>1, <2>2, Replayed
  <2>4. Recorded(applied[id], request, pr[id].response)
    BY <2>2, <2>3 DEF RowsKnown
  <2>5. Made(id, request, pr[id].response)
    BY <1>1, <2>2, <2>4, RecordedIsMade
  <2> QED
    BY <2>1, <2>2, <2>5 DEF Made
<1>3. ASSUME NEW c \in Callers, Execute(c) PROVE r.id \in OperationIds /\ Made(r.id, r.request, r.response)'
  <2> DEFINE id == calls[c].id
             request == calls[c].request
             response == EffectResponse(id)
             at == calls[c].now + Retention
  <2>1. /\ calls[c].pc = "prepare" /\ Apply(id, request, response, at)
        /\ r = [id |-> id, request |-> request, response |-> response]
    BY <1>3 DEF Execute, Reply, Fail
  <2>2. id \in OperationIds /\ request \in Requests /\ calls[c].now \in 0..MaxTime
    BY <1>1, <2>1, CallShape
  <2>3. response \in Answers /\ at \in Nat
    BY <1>1, <2>2, ResponseTyped, Constants
  <2> HIDE DEF id, request, response, at
  <2>4. Recorded(applied'[id], request, response)
    BY <1>1, <2>1, <2>2, <2>3, Applied
  <2>5. applied'[id] \in Seq(Entries) /\ applied'[id] # <<>>
    BY <1>1, <2>2, <2>4 DEF Types, Recorded
  <2>6. Len(applied'[id]) \in DOMAIN applied'[id]
    BY <2>5, EmptySeq, LenProperties
  <2> QED
    BY <2>1, <2>2, <2>4, <2>6 DEF Made, Recorded, Last
<1>4. ASSUME NEW c \in Callers, Complete(c) \/ Publish(c) PROVE r.id \in OperationIds /\ Made(r.id, r.request, r.response)'
  <2> DEFINE id == calls[c].id
             request == calls[c].request
             response == calls[c].response
  <2>1. /\ calls[c].pc = "complete"
        /\ r = [id |-> id, request |-> request, response |-> response]
    BY <1>4 DEF Complete, Publish, Completing, Reply
  <2>2. Records(applied', id, request, response, clock + Retention)
    BY <1>4, EffectCompleted
  <2>3. id \in OperationIds
    BY <1>1, <2>1, CallShape
  <2> HIDE DEF id, request, response
  <2>4. Recorded(applied'[id], request, response)
    BY <2>2 DEF Records
  <2>5. applied'[id] \in Seq(Entries) /\ applied'[id] # <<>>
    BY <1>1, <2>3, <2>4 DEF Types, Recorded
  <2>6. Len(applied'[id]) \in DOMAIN applied'[id]
    BY <2>5, EmptySeq, LenProperties
  <2> QED
    BY <2>1, <2>3, <2>4, <2>6 DEF Made, Recorded, Last
<1>5. Next => \/ replies' = replies
              \/ \E c \in Callers : Answered(c) \/ Execute(c) \/ Complete(c) \/ Publish(c)
  BY DEF Next, Call, Prepare, Outside, Capture, prepare_discovery_commit, OutsideFails,
         CompletionFails, Fail, Deliver, controlVars, Tick, Restart
<1>6. UNCHANGED vars => replies' = replies
  BY DEF vars, controlVars
<1> QED
  BY <1>2, <1>3, <1>4, <1>5, <1>6

\* A success response belongs to an effect of that very operation and request,
\* and a stored response that may still be replayed does too
\* (prepare_operation, complete_operation).
THEOREM RepliesAreEffectsCorrect == Spec => []RepliesAreEffects
<1>1. Init => JournalInv /\ RepliesKnown
  BY JournalInitial DEF Init, RepliesKnown
<1>2. JournalInv /\ RepliesKnown /\ [Next]_vars => (JournalInv /\ RepliesKnown)'
  <2> SUFFICES ASSUME JournalInv, RepliesKnown, [Next]_vars PROVE JournalInv' /\ RepliesKnown'
    OBVIOUS
  <2>1. JournalInv'
    BY JournalStep
  <2>2. ASSUME NEW r \in replies' PROVE r.id \in OperationIds /\ Made(r.id, r.request, r.response)'
    <3>1. CASE r \in replies
      <4>1. r.id \in OperationIds /\ Made(r.id, r.request, r.response)
        BY <3>1 DEF RepliesKnown
      <4> QED
        BY <2>1, <4>1, MadeStays
    <3>2. CASE r \notin replies
      BY <2>1, <3>2, ReplyMade
    <3> QED
      BY <3>1, <3>2
  <2> QED
    BY <2>1, <2>2 DEF RepliesKnown
<1>3. JournalInv /\ RepliesKnown => RepliesAreEffects
  <2> SUFFICES ASSUME JournalInv, RepliesKnown PROVE RepliesAreEffects
    OBVIOUS
  <2>1. \A r \in replies : Made(r.id, r.request, r.response)
    BY DEF RepliesKnown
  <2>2. ASSUME NEW id \in RowsIn(journal, "completed")
        PROVE  Made(id, journal[id].request, journal[id].response)
    <3>1. id \in OperationIds /\ journal[id].state = "completed" /\ Types
      BY DEF RowsIn, JournalInv
    <3>2. Recorded(applied[id], journal[id].request, journal[id].response)
      BY <3>1 DEF JournalInv, RowsKnown
    <3> QED
      BY <3>1, <3>2, RecordedIsMade
  <2> QED
    BY <2>1, <2>2 DEF RepliesAreEffects, Made
<1> QED
  BY <1>1, <1>2, <1>3, PTL DEF Spec

-----------------------------------------------------------------------------
(* The published generations.                                              *)

\* What makes the publication state consistent: the desired generation is not
\* younger than the state, and a current one that is not the desired one is older.
PublicationInv ==
    /\ DOMAIN documents \subseteq Documents
    /\ documents \in [DOMAIN documents -> Statuses]
    /\ publication \in [desired : Documents \cup {None}, current : Documents \cup {None},
                        updated_at : 0..MaxTime]
    /\ publication.desired \in DOMAIN documents \cup {None}
    /\ publication.current \in DOMAIN documents \cup {None}
    /\ publication.desired # None => publication.desired.created_at <= publication.updated_at
    /\ publication.current # None /\ publication.current # publication.desired =>
          publication.current.created_at < publication.desired.created_at
    /\ PublicationConsistent

LEMMA PublicationInitial == Init => PublicationInv
<1> SUFFICES ASSUME Init PROVE PublicationInv
  OBVIOUS
<1>1. DOMAIN documents = {} /\ documents \in [DOMAIN documents -> Statuses]
  BY DEF Init
<1> QED
  BY <1>1, Constants DEF Init, PublicationInv, NoPublication, PublicationConsistent

LEMMA NoneIsNoDocument == None \notin Documents
<1>1. \A d \in Documents : d.config \in 1..MaxGenerations
  BY DEF Documents
<1>2. None.config = 0
  BY DEF None
<1> QED
  BY <1>1, <1>2, Constants

\* A commit that is not a repetition names a document later than all before it.
LEMMA CommitAdvances ==
    ASSUME PublicationInv, clock \in 0..MaxTime, clock' = clock, NEW d \in Documents,
           d.created_at <= clock, Commit(d)
    PROVE  PublicationInv' /\ Advances
<1>1. CASE UNCHANGED discoveryVars
  BY <1>1 DEF PublicationInv, PublicationConsistent, Advances, discoveryVars
<1>2. CASE ~UNCHANGED discoveryVars
  <2>1. /\ commit_desired(d) = "created"
        /\ documents' = WithJob(d)
        /\ publication' = [publication EXCEPT !.desired = d, !.updated_at = d.created_at]
    BY <1>2 DEF Commit
  <2>2. d \notin DOMAIN documents /\ publication.desired # d
    BY <2>1 DEF commit_desired
  <2>3. publication.desired = None \/ d.created_at > publication.updated_at
    BY <2>1, <2>2 DEF commit_desired
  <2>4. /\ DOMAIN documents' = DOMAIN documents \cup {d}
        /\ documents' \in [DOMAIN documents' -> Statuses]
        /\ \A e \in DOMAIN documents : documents'[e] = documents[e]
    BY <2>1, <2>2 DEF WithJob, Statuses, PublicationInv
  <2>5. /\ publication'.desired = d /\ publication'.current = publication.current
        /\ publication'.updated_at = d.created_at
        /\ publication' \in [desired : Documents \cup {None}, current : Documents \cup {None},
                             updated_at : 0..MaxTime]
    BY <2>1 DEF PublicationInv, Documents
  <2>6. d # None /\ publication.updated_at \in 0..MaxTime /\ d.created_at \in 0..MaxTime
        /\ \A e \in Documents : e.created_at \in 0..MaxTime
    BY NoneIsNoDocument DEF PublicationInv, Documents
  <2>7. publication.current # None => publication.current.created_at < d.created_at
    <3> SUFFICES ASSUME publication.current # None
                 PROVE  publication.current.created_at < d.created_at
      OBVIOUS
    <3>1. publication.desired # None /\ publication.desired \in Documents
          /\ publication.current \in Documents
      BY DEF PublicationInv, PublicationConsistent
    <3>2. publication.current.created_at <= publication.desired.created_at
      BY DEF PublicationInv, PublicationConsistent
    <3>3. publication.desired.created_at <= publication.updated_at
      BY <3>1 DEF PublicationInv
    <3> QED
      BY <2>3, <2>6, <3>1, <3>2, <3>3, Constants
  <2>8. PublicationConsistent'
    <3>1. publication'.updated_at <= clock'
      BY <2>5
    <3>2. publication.current # None =>
             publication.current \in DOMAIN documents /\ publication.current \in Documents
      BY DEF PublicationInv
    <3>3. publication'.current # None =>
             /\ documents'[publication'.current] = "delivered"
             /\ publication'.desired # None
             /\ publication'.current.created_at <= publication'.desired.created_at
      <4> SUFFICES ASSUME publication.current # None
                   PROVE  /\ documents'[publication.current] = "delivered"
                          /\ publication.current.created_at <= d.created_at
        BY <2>5, <2>6
      <4>1. documents[publication.current] = "delivered"
        BY DEF PublicationInv, PublicationConsistent
      <4> QED
        BY <2>4, <2>6, <2>7, <3>2, <4>1, Constants
    <3>4. (publication'.desired = None) = (DOMAIN documents' = {})
      BY <2>4, <2>5, <2>6
    <3> QED
      BY <3>1, <3>3, <3>4 DEF PublicationConsistent
  <2>9. PublicationInv'
    <3>1. /\ publication'.desired \in DOMAIN documents' \cup {None}
          /\ publication'.current \in DOMAIN documents' \cup {None}
          /\ DOMAIN documents' \subseteq Documents
      BY <2>4, <2>5 DEF PublicationInv
    <3>2. publication'.desired.created_at <= publication'.updated_at
      BY <2>5, <2>6, Constants
    <3> QED
      BY <2>4, <2>5, <2>7, <2>8, <3>1, <3>2 DEF PublicationInv
  <2>10. Advances
    <3>1. publication.desired # None => d.created_at > publication.desired.created_at
      <4> SUFFICES ASSUME publication.desired # None
                   PROVE  d.created_at > publication.desired.created_at
        OBVIOUS
      <4>1. publication.desired \in Documents
            /\ publication.desired.created_at <= publication.updated_at
        BY DEF PublicationInv
      <4> QED
        BY <2>3, <2>6, <4>1, Constants
    <3> QED
      BY <2>5, <3>1 DEF Advances
  <2> QED
    BY <2>9, <2>10
<1> QED
  BY <1>1, <1>2

\* Recovery promotes the desired generation, if it was delivered.
LEMMA PromotionAdvances ==
    ASSUME PublicationInv, clock \in 0..MaxTime, clock' = clock, documents' = documents,
           promote_current(clock)
    PROVE  PublicationInv' /\ Advances
<1>1. CASE publication' = publication
  BY <1>1 DEF PublicationInv, PublicationConsistent, Advances
<1>2. CASE publication' # publication
  <2>1. /\ clock >= publication.updated_at
        /\ \E d \in Promotable :
              publication' = [publication EXCEPT !.current = d, !.updated_at = clock]
    BY <1>2 DEF promote_current
  <2>2. PICK d \in Promotable :
              publication' = [publication EXCEPT !.current = d, !.updated_at = clock]
    BY <2>1
  <2>3. /\ d \in DOMAIN documents /\ documents[d] = "delivered" /\ publication.desired = d
        /\ publication.current # d
    BY DEF Promotable
  <2>4. d \in Documents /\ d # None /\ d.created_at \in 0..MaxTime
    BY <2>3, NoneIsNoDocument DEF PublicationInv, Documents
  <2>5. /\ publication'.desired = d /\ publication'.current = d /\ publication'.updated_at = clock
        /\ publication' \in [desired : Documents \cup {None}, current : Documents \cup {None},
                             updated_at : 0..MaxTime]
    BY <2>2, <2>3, <2>4 DEF PublicationInv
  <2>6. d.created_at <= clock
    <3>1. d.created_at <= publication.updated_at /\ publication.updated_at \in 0..MaxTime
      BY <2>3, <2>4 DEF PublicationInv
    <3> QED
      BY <2>1, <2>4, <3>1, Constants
  <2>7. PublicationConsistent'
    <3>1. clock <= clock /\ d.created_at <= d.created_at
      BY <2>4, Constants
    <3>2. (publication'.desired = None) = (DOMAIN documents' = {})
      BY <2>3, <2>4, <2>5
    <3> QED
      BY <2>3, <2>4, <2>5, <3>1, <3>2 DEF PublicationConsistent
  <2>8. PublicationInv'
    BY <2>3, <2>5, <2>6, <2>7 DEF PublicationInv
  <2>9. Advances
    <3>1. publication.current # None => d.created_at > publication.current.created_at
      <4> SUFFICES ASSUME publication.current # None
                   PROVE  d.created_at > publication.current.created_at
        OBVIOUS
      <4>1. publication.current \in Documents /\ publication.current.created_at < d.created_at
        BY <2>3 DEF PublicationInv
      <4>2. publication.current.created_at \in 0..MaxTime
        BY <4>1 DEF Documents
      <4> QED
        BY <2>4, <4>1, <4>2, Constants
    <3> QED
      BY <2>3, <2>5, <3>1 DEF Advances
  <2> QED
    BY <2>8, <2>9
<1> QED
  BY <1>1, <1>2

LEMMA PublicationStep ==
    ASSUME JournalInv, PublicationInv, [Next]_vars
    PROVE  PublicationInv' /\ (Advances \/ UNCHANGED vars)
<1>1. clock \in 0..MaxTime
  BY DEF JournalInv, Types
<1>2. CASE UNCHANGED <<discoveryVars, clock>>
  BY <1>2 DEF discoveryVars, PublicationInv, PublicationConsistent, Advances
<1>3. ASSUME NEW c \in Callers, Publish(c) PROVE PublicationInv' /\ Advances
  <2>1. /\ calls[c].pc = "complete" /\ Route[calls[c].request] = "publish"
        /\ Commit(calls[c].response.document) /\ clock' = clock
    BY <1>3 DEF Publish, Completing
  <2>2. /\ calls[c].response \in [document : Documents]
        /\ calls[c].response.document.created_at <= clock
    BY <2>1 DEF JournalInv, CallSound
  <2>3. calls[c].response.document \in Documents
    BY <2>2
  <2> QED
    BY <1>1, <2>1, <2>2, <2>3, CommitAdvances
<1>4. ASSUME NEW d \in DOMAIN documents, Deliver(d) PROVE PublicationInv' /\ Advances
  <2>1. /\ documents[d] = "pending" /\ UNCHANGED <<publication, clock>>
        /\ \E status \in {"delivered", "exhausted"} :
              documents' = [documents EXCEPT ![d] = status]
    BY <1>4 DEF Deliver, FinishJob, controlVars
  <2>2. PICK status \in {"delivered", "exhausted"} : documents' = [documents EXCEPT ![d] = status]
    BY <2>1
  <2>3. /\ DOMAIN documents' = DOMAIN documents /\ documents' \in [DOMAIN documents' -> Statuses]
        /\ \A e \in DOMAIN documents : e # d => documents'[e] = documents[e]
    BY <2>2 DEF PublicationInv, Statuses
  <2>4. publication.current # None =>
           /\ publication.current \in DOMAIN documents
           /\ documents[publication.current] = "delivered"
    BY DEF PublicationInv, PublicationConsistent
  <2>5. publication.current # None => documents'[publication.current] = "delivered"
    BY <2>1, <2>3, <2>4
  <2>6. PublicationConsistent'
    BY <2>1, <2>3, <2>5 DEF PublicationInv, PublicationConsistent
  <2> QED
    BY <2>1, <2>3, <2>6 DEF PublicationInv, Advances
<1>5. CASE Tick
  <2>1. clock' = clock + 1 /\ UNCHANGED discoveryVars /\ publication.updated_at \in 0..MaxTime
    BY <1>5 DEF Tick, PublicationInv
  <2>2. publication.updated_at <= clock'
    BY <1>1, <2>1, Constants DEF PublicationInv, PublicationConsistent
  <2> QED
    BY <2>1, <2>2 DEF discoveryVars, PublicationInv, PublicationConsistent, Advances
<1>6. CASE Restart
  <2>1. promote_current(clock) /\ documents' = documents /\ clock' = clock
    BY <1>6 DEF Restart
  <2> QED
    BY <1>1, <2>1, PromotionAdvances
<1>7. Next => \/ UNCHANGED <<discoveryVars, clock>> \/ Tick \/ Restart
              \/ \E c \in Callers : Publish(c)
              \/ \E d \in DOMAIN documents : Deliver(d)
  BY DEF Next, Call, Answered, Prepare, Execute, Outside, Capture, prepare_discovery_commit,
         OutsideFails, Complete, CompletionFails
<1>8. UNCHANGED vars => UNCHANGED <<discoveryVars, clock>>
  BY DEF vars, controlVars
<1> QED
  BY <1>2, <1>3, <1>4, <1>5, <1>6, <1>7, <1>8

\* Whatever a step does, the publication state it leaves is consistent with what
\* was delivered, and it only ever moves to a newer generation (commit_desired,
\* promote_current).
THEOREM PublicationSoundCorrect == Spec => PublicationSound
<1>1. Init => JournalInv /\ PublicationInv
  BY JournalInitial, PublicationInitial
<1>2. JournalInv /\ PublicationInv /\ [Next]_vars => (JournalInv /\ PublicationInv)'
  BY JournalStep, PublicationStep
<1>3. JournalInv /\ PublicationInv /\ [Next]_vars => [PublicationConsistent' /\ Advances]_vars
  <2>1. PublicationInv' => PublicationConsistent'
    BY DEF PublicationInv
  <2> QED
    BY <2>1, PublicationStep
<1> QED
  BY <1>1, <1>2, <1>3, PTL DEF Spec, PublicationSound

\* The journal can keep what it promised: it has room for every prepared
\* operation, and the row of an effect that was made waits for its completion
\* (prepare_operation, prune_expired, complete_operation).
THEOREM JournalSoundCorrect == Spec => []JournalSound
<1>1. Init => JournalInv /\ PublicationInv
  BY JournalInitial, PublicationInitial
<1>2. JournalInv /\ PublicationInv /\ [Next]_vars => (JournalInv /\ PublicationInv)'
  BY JournalStep, PublicationStep
<1>3. JournalInv /\ PublicationInv => JournalSound
  <2> SUFFICES ASSUME JournalInv, PublicationInv PROVE JournalSound
    OBVIOUS
  <2>1. JournalReserved
    BY DEF JournalInv, Reserved, JournalReserved, read_counts
  <2>2. TypeOK
    <3>1. \A id \in OperationIds :
            \/ journal[id] = NoRow \/ journal[id] \in PreparedRows
            \/ journal[id] \in CompletedRows /\ journal[id].prepared_at <= journal[id].completed_at
      BY RowShape DEF JournalInv, Types, RowsDated
    <3>2. \A c \in Callers : calls[c].pc \in {"idle", "prepare", "effect", "complete"}
      BY CallShape DEF JournalInv
    <3>3. clock \in 0..MaxTime /\ generation \in 1..MaxGenerations
      BY DEF JournalInv, Types
    <3>4. /\ DOMAIN documents \subseteq Documents
          /\ \A d \in DOMAIN documents : documents[d] \in {"pending", "delivered", "exhausted"}
          /\ {publication.desired, publication.current} \subseteq DOMAIN documents \cup {None}
          /\ publication.updated_at \in 0..MaxTime
      BY DEF PublicationInv, Statuses
    <3> QED
      BY <3>1, <3>2, <3>3, <3>4 DEF TypeOK, PreparedRows, CompletedRows
  <2>3. EffectsCompletable
    <3> SUFFICES ASSUME NEW c \in Callers, calls[c].pc \in {"effect", "complete"}
                 PROVE  /\ journal[calls[c].id] = Prepared(calls[c].request, calls[c].now)
                        /\ \A c2 \in Callers \ {c} :
                              calls[c2].pc \in {"effect", "complete"} => calls[c2].id # calls[c].id
                        /\ read_counts(journal).completed < CompletedLimit
      BY DEF EffectsCompletable
    <3>1. Holding(calls[c])
      BY DEF Holding
    <3>2. /\ journal[calls[c].id] = Prepared(calls[c].request, calls[c].now)
          /\ calls[c].id \in OperationIds
          /\ \A d \in Callers : d # c /\ Holding(calls[d]) => calls[d].id # calls[c].id
      BY <3>1, HolderFacts
    <3>3. calls[c].id \in RowsIn(journal, "prepared")
      BY <3>2 DEF RowsIn, Prepared
    <3>4. Cardinality(RowsIn(journal, "prepared")) # 0
      BY <3>3, RowsFinite, FS_EmptySet
    <3>5. Cardinality(RowsIn(journal, "completed")) < CompletedLimit
      BY <3>4, RowsFinite, Constants DEF JournalInv, Reserved
    <3> QED
      BY <3>2, <3>5 DEF Holding, read_counts
  <2> QED
    BY <2>1, <2>2, <2>3 DEF JournalSound
<1> QED
  BY <1>1, <1>2, <1>3, PTL DEF Spec

=============================================================================
