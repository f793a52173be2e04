---------------------------- MODULE CustodyProofs -----------------------------
(***************************************************************************)
(* Machine-checked proofs about the envelope, the provider calls and the   *)
(* verification of what providers answer, for every set of roles and calls,*)
(* every number of permits, every length and every bound.                  *)
(***************************************************************************)
EXTENDS Custody, FiniteSetTheorems, TLAPS

-----------------------------------------------------------------------------
(* The envelope.                                                           *)

\* The inductive invariant: inodes are not used twice; what the running command
\* has synced of its own file is synced; and an envelope known to be good is
\* wholly synced and belongs to no running command any more.
EnvelopeInv ==
    /\ files \in Nat /\ kept \in Nat
    /\ file \in [inode : Nat, data : {"none", "part", "full"},
                 data_synced : BOOLEAN, entry_synced : BOOLEAN]
    /\ init \in [stage : {"idle", "created", "writing", "written", "synced", "linked"},
                 inode : Nat]
    /\ file.inode <= files /\ init.inode <= files
    /\ init.stage # "idle" => init.inode # 0
    /\ file.inode = init.inode /\ init.stage \in {"synced", "linked"} =>
           file.data_synced = TRUE
    /\ file.inode = init.inode /\ init.stage = "linked" => file.entry_synced = TRUE
    /\ kept # 0 => /\ file.inode = kept /\ file.data = "full"
                   /\ file.data_synced = TRUE /\ file.entry_synced = TRUE
                   /\ init.inode # kept

LEMMA EnvelopeInitial == EnvelopeInit => EnvelopeInv
BY DEF EnvelopeInit, EnvelopeInv, NoFile, NotRunning

\* No step of the command, of a crash or of the operator breaks it.
LEMMA EnvelopeStep ==
    ASSUME EnvelopeInv, MaxFiles \in Nat, EnvelopeNext
    PROVE  EnvelopeInv'
<1> USE DEF EnvelopeInv, NoFile, NotRunning
<1>1. CASE CreateNew
  BY <1>1 DEF CreateNew
<1>2. CASE WriteAll
  BY <1>2 DEF WriteAll, OnOwn
<1>3. CASE SyncFile
  BY <1>3 DEF SyncFile, OnOwn
<1>4. CASE SyncParent
  BY <1>4 DEF SyncParent, validate_current_binding
<1>5. CASE Provisioned
  BY <1>5 DEF Provisioned, validate_current_binding
<1>6. CASE ProvisionFails
  BY <1>6 DEF ProvisionFails, cleanup_owned, OnOwn
<1>7. CASE Killed
  BY <1>7 DEF Killed
<1>8. CASE PowerLoss
  <2>1. CASE file' = file
    BY <1>8, <2>1 DEF PowerLoss
  <2>2. CASE ~file.entry_synced /\ file' = NoFile
    <3>1. file.entry_synced # TRUE
      BY <2>2, Zenon
    <3>2. kept = 0
      BY <3>1
    <3> QED
      BY <1>8, <2>2, <3>2 DEF PowerLoss
  <2>3. CASE ~file.data_synced /\ file' = [file EXCEPT !.data = "none"]
    <3>1. file.data_synced # TRUE
      BY <2>3, Zenon
    <3>2. kept = 0
      BY <3>1
    <3> QED
      BY <1>8, <2>3, <3>2 DEF PowerLoss
  <2> QED
    BY <1>8, <2>1, <2>2, <2>3 DEF PowerLoss
<1>9. CASE OperatorRemoves
  BY <1>9 DEF OperatorRemoves
<1>10. CASE OperatorRestores
  BY <1>10 DEF OperatorRestores
<1> QED
  BY <1>1, <1>2, <1>3, <1>4, <1>5, <1>6, <1>7, <1>8, <1>9, <1>10 DEF EnvelopeNext

\* An envelope that was reported as provisioned, or that the operator put in
\* place, is there and opens until the operator removes it (provider_envelope.rs,
\* persist_create_new, cleanup_owned).
THEOREM ProvisionedStandsCorrect == Spec => []ProvisionedStands
<1>1. Init => EnvelopeInv
  BY EnvelopeInitial DEF Init
<1>2. EnvelopeInv /\ [Next]_vars => EnvelopeInv'
  <2> SUFFICES ASSUME EnvelopeInv, [Next]_vars PROVE EnvelopeInv'
    OBVIOUS
  <2>1. CASE Provision
    BY <2>1, EnvelopeStep, CustodyAssumption DEF Provision
  <2>2. CASE UNCHANGED envelopeVars
    BY <2>2 DEF envelopeVars, EnvelopeInv
  <2>3. Next => Provision \/ UNCHANGED envelopeVars
    BY DEF Next, Start, Open, OpenFails, Probe, Execute, Send, Answer, RemoteFailure,
           Timeout, WorkerBegins, WorkerEnds, Cancelled, DropCall, Shutdown, Stopped,
           Tick, Rekey
  <2> QED
    BY <2>1, <2>2, <2>3 DEF vars
<1>3. EnvelopeInv => ProvisionedStands
  BY DEF EnvelopeInv, ProvisionedStands, Opens
<1> QED
  BY <1>1, <1>2, <1>3, PTL DEF Spec

-----------------------------------------------------------------------------
(* Calls, permits and workers.                                             *)

Stages == {"none", "acquiring", "sent", "working", "joining"}
Calls == [stage : Stages, operation : Operations, observed_at : Nat, started : Nat]
Kinds == {"none", "accepted", "verification", "transport", "cancelled"}

\* The inductive strengthening of TypeOK.
Types ==
    /\ now \in 1..MaxTime /\ lives \in 0..MaxLives
    /\ phase \in {"down", "opening", "probing", "up"}
    /\ providers \subseteq Roles /\ stopping \in BOOLEAN
    /\ call \in [Waiting -> Calls]
    /\ worker \in [Waiting -> {"none", "queued", "running"}]
    /\ permits \in [Local -> Nat]
    /\ outcome.kind \in Kinds
    /\ received \in [Local -> SUBSET Operations]
    /\ key \in [Local -> BOOLEAN]

\* Who may have a call in which phase: a restart hands out fresh permits, so
\* none may be held when it begins.
Served ==
    /\ phase # "down" => lives \in 1..MaxLives
    /\ phase \in {"down", "opening"} => \A c \in Waiting : Idle(c)
    /\ phase = "probing" => \A c \in Callers : Idle(c)
    /\ phase = "up" => Idle(Startup)

\* Calls that hold a permit are calls of a local signer.
OfSigner == \A c \in Waiting : call[c].stage \in {"acquiring", "sent"} =>
                call[c].operation.work.role \in Local

Holders(r) == {c \in Waiting : /\ call[c].stage = "sent"
                               /\ call[c].operation.work.role = r}

CallInv == Types /\ Served /\ OfSigner /\ NoDetachedWork /\ PermitsReturned

\* Works and operations name roles of the configuration.
LEMMA WorkRoles ==
    /\ \A w \in Works : w.role \in Roles
    /\ NoWork \in Works
    /\ \A r \in Roles, n \in 1..MaxLives : ProbeWork(r, n) \in Works
    /\ NoOperation \in Operations /\ NoCall \in Calls
<1>1. "transport" \in Roles
  BY CustodyAssumption
<1>2. \A w \in Work : w.role \in Roles
  BY CustodyAssumption
<1>3. NoWork \in Works /\ NoWork.role \in Roles
  BY <1>1 DEF NoWork, Works
<1>4. \A r, n : ProbeWork(r, n).role = r
  BY DEF NoWork, ProbeWork
<1>5. ASSUME NEW w \in Works PROVE w.role \in Roles
  BY <1>2, <1>3, <1>4 DEF Works
<1>6. NoOperation \in Operations
  BY <1>3 DEF NoOperation, Operations
<1>7. NoCall \in Calls
  BY <1>6 DEF NoCall, Calls, Stages
<1>8. \A r \in Roles, n \in 1..MaxLives : ProbeWork(r, n) \in Works
  BY DEF Works
<1> QED
  BY <1>3, <1>5, <1>6, <1>7, <1>8

LEMMA WaitingFinite == IsFiniteSet(Waiting) /\ Startup \notin Callers
<1>1. IsFiniteSet(Callers)
  BY CustodyAssumption
<1>2. IsFiniteSet(Callers \union {Startup})
  BY <1>1, FS_AddElement
<1> QED
  BY <1>2, CustodyAssumption DEF Waiting

\* The role a start turns to next is a configured one that is not done.
LEMMA NextRoleFacts ==
    ASSUME providers \subseteq Roles, providers # Roles
    PROVE  NextRole(providers) \in Roles
<1> DEFINE S == {i \in 1..3 : Order[i] \in Roles \ providers}
<1>1. Order[1] = "transport" /\ Order[2] = "user" /\ Order[3] = "discovery"
  BY DEF Order
<1>2. PICK r \in Roles : r \notin providers
  OBVIOUS
<1>3. r \in {"transport", "user", "discovery"}
  BY CustodyAssumption
<1>4. \E i \in 1..3 : Order[i] = r
  BY <1>1, <1>3
<1>5. S # {}
  BY <1>2, <1>4
<1>6. \E x \in S : \A y \in S : x <= y
  BY <1>5
<1>7. Min(S) \in S
  BY <1>6 DEF Min
<1> QED
  BY <1>7 DEF NextRole

\* A call that changes its stage is still a call.
LEMMA StageChanges ==
    ASSUME NEW c \in Waiting, NEW s \in Stages, call \in [Waiting -> Calls],
           call' = [call EXCEPT ![c].stage = s]
    PROVE  /\ call' \in [Waiting -> Calls]
           /\ call'[c].stage = s /\ call'[c].operation = call[c].operation
           /\ \A d \in Waiting : d # c => call'[d] = call[d]
<1>1. call[c] \in Calls
  OBVIOUS
<1>2. [call[c] EXCEPT !.stage = s] \in Calls
  BY <1>1 DEF Calls
<1>3. /\ [call[c] EXCEPT !.stage = s].stage = s
      /\ [call[c] EXCEPT !.stage = s].operation = call[c].operation
  BY <1>1 DEF Calls
<1>4. call' = [call EXCEPT ![c] = [call[c] EXCEPT !.stage = s]]
  OBVIOUS
<1> DEFINE e == [call[c] EXCEPT !.stage = s]
<1>5. e \in Calls /\ e.stage = s /\ e.operation = call[c].operation
  BY <1>2, <1>3
<1>6. call' = [call EXCEPT ![c] = e]
  BY <1>4
<1> HIDE DEF e
<1> QED
  BY <1>5, <1>6

\* The calls that hold a permit of r are finitely many.
LEMMA HoldersFinite ==
    ASSUME NEW r
    PROVE  IsFiniteSet(Holders(r)) /\ Cardinality(Holders(r)) \in Nat
<1>1. Holders(r) \subseteq Waiting
  BY DEF Holders
<1>2. IsFiniteSet(Holders(r))
  BY <1>1, WaitingFinite, FS_Subset
<1> QED
  BY <1>2, FS_CardinalityType

\* A permit is never counted twice, so there are at most Concurrency.
LEMMA PermitsBounded ==
    ASSUME Types, PermitsReturned
    PROVE  permits \in [Local -> 0..Concurrency]
<1>1. ASSUME NEW r \in Local PROVE permits[r] \in 0..Concurrency
  <2>1. permits[r] + Cardinality(Holders(r)) = Concurrency
    BY DEF PermitsReturned, Holders
  <2>2. Cardinality(Holders(r)) \in Nat
    BY HoldersFinite
  <2>3. permits[r] \in Nat
    BY DEF Types
  <2> QED
    BY <2>1, <2>2, <2>3, CustodyAssumption
<1> QED
  BY <1>1 DEF Types

\* Where no call takes or gives up the stage "sent", the permits are as they were.
LEMMA SameHolders ==
    ASSUME PermitsReturned, permits' = permits,
           \A c \in Waiting :
              /\ call'[c].stage = "sent" <=> call[c].stage = "sent"
              /\ call[c].stage = "sent" => call'[c].operation = call[c].operation
    PROVE  PermitsReturned'
<1>1. \A r : Holders(r)' = Holders(r)
  BY DEF Holders
<1>2. \A r \in Local : permits[r] + Cardinality(Holders(r)) = Concurrency
  BY DEF PermitsReturned, Holders
<1>3. \A r \in Local : permits'[r] + Cardinality(Holders(r)') = Concurrency
  BY <1>1, <1>2
<1> QED
  BY <1>3 DEF PermitsReturned, Holders

\* A call begins without a permit.
LEMMA BeginCall ==
    ASSUME CallInv, NEW c \in Waiting, NEW work \in Works, NEW deadline \in Nat,
           Begin(c, work, deadline), permits' = permits
    PROVE  /\ call' \in [Waiting -> Calls] /\ outcome'.kind \in Kinds
           /\ worker' \in [Waiting -> {"none", "queued", "running"}]
           /\ \A d \in Waiting : d # c => call'[d] = call[d]
           /\ OfSigner' /\ NoDetachedWork' /\ PermitsReturned'
<1> DEFINE e == [stage |-> IF work.role \in Encrypted THEN "working" ELSE "acquiring",
                 operation |-> [work |-> work, deadline |-> deadline],
                 observed_at |-> now, started |-> now]
<1>1. e \in Calls
  BY DEF CallInv, Types, Calls, Stages, Operations
<1>2. /\ e.stage = IF work.role \in Encrypted THEN "working" ELSE "acquiring"
      /\ e.operation.work.role = work.role
  OBVIOUS
<1>3. call' = [call EXCEPT ![c] = e] /\ call[c].stage = "none" /\ outcome' = NoOutcome
  BY DEF Begin, Idle
<1>4. worker' = [worker EXCEPT ![c] = IF work.role \in Encrypted THEN "queued" ELSE worker[c]]
  BY DEF Begin
<1>5. work.role \in Roles
  BY WorkRoles
<1> HIDE DEF e
<1> USE DEF CallInv
<1>6. call' \in [Waiting -> Calls] /\ \A d \in Waiting : call'[d] = IF d = c THEN e ELSE call[d]
  BY <1>1, <1>3 DEF Types
<1>7. outcome'.kind \in Kinds
  BY <1>3 DEF NoOutcome, Kinds
<1>8. /\ worker' \in [Waiting -> {"none", "queued", "running"}]
      /\ worker'[c] = IF work.role \in Encrypted THEN "queued" ELSE worker[c]
      /\ \A d \in Waiting : d # c => worker'[d] = worker[d]
  BY <1>4 DEF Types
<1>9. OfSigner'
  BY <1>2, <1>5, <1>6 DEF OfSigner, Local
<1>10. NoDetachedWork'
  <2>1. worker[c] = "none"
    BY <1>3 DEF NoDetachedWork
  <2> QED
    BY <1>2, <1>6, <1>8, <2>1 DEF NoDetachedWork
<1>11. PermitsReturned'
  BY <1>2, <1>3, <1>6, SameHolders
<1> QED
  BY <1>6, <1>7, <1>8, <1>9, <1>10, <1>11

\* Sending a request takes one permit, and one more call holds one.
LEMMA SendTakes ==
    ASSUME CallInv, NEW c \in Waiting, Send(c)
    PROVE  CallInv'
<1> DEFINE role == call[c].operation.work.role
<1>1. /\ call[c].stage = "acquiring" /\ permits[role] > 0
      /\ permits' = [permits EXCEPT ![role] = @ - 1]
      /\ call' = [call EXCEPT ![c].stage = "sent"]
      /\ received' = [received EXCEPT ![role] = @ \union {call[c].operation}]
      /\ outcome' = NoOutcome
      /\ UNCHANGED <<now, phase, providers, stopping, worker, key, lives>>
  BY DEF Send, PermitFree
<1>2. role \in Local /\ call[c].operation \in Operations
  BY <1>1 DEF CallInv, OfSigner, Types, Calls
<1>3. /\ call' \in [Waiting -> Calls]
      /\ call'[c].stage = "sent" /\ call'[c].operation = call[c].operation
      /\ \A d \in Waiting : d # c => call'[d] = call[d]
  BY <1>1, StageChanges DEF CallInv, Types, Stages
<1>4. Types'
  <2>1. permits' \in [Local -> Nat]
    BY <1>1, <1>2 DEF CallInv, Types
  <2>2. received' \in [Local -> SUBSET Operations]
    BY <1>1, <1>2 DEF CallInv, Types
  <2> HIDE DEF role
  <2> QED
    BY <1>1, <1>3, <2>1, <2>2 DEF CallInv, Types, NoOutcome, Kinds
<1>5. Served'
  BY <1>1, <1>3 DEF CallInv, Served, Idle, Waiting
<1>6. OfSigner'
  BY <1>2, <1>3 DEF CallInv, OfSigner
<1>7. NoDetachedWork'
  BY <1>1, <1>3 DEF CallInv, NoDetachedWork
<1>8. PermitsReturned'
  <2>1. ASSUME NEW r \in Local
        PROVE  permits'[r] + Cardinality(Holders(r)') = Concurrency
    <3>1. /\ permits[r] + Cardinality(Holders(r)) = Concurrency /\ permits[r] \in Nat
          /\ IsFiniteSet(Holders(r)) /\ Cardinality(Holders(r)) \in Nat
      BY HoldersFinite DEF CallInv, PermitsReturned, Holders, Types
    <3>2. CASE r = role
      <4>1. Holders(r)' = Holders(r) \union {c} /\ c \notin Holders(r)
        BY <1>1, <1>3, <3>2 DEF Holders
      <4>2. Cardinality(Holders(r) \union {c}) = Cardinality(Holders(r)) + 1
        BY <3>1, <4>1, FS_AddElement
      <4>3. permits'[r] = permits[r] - 1
        BY <1>1, <1>2, <3>2 DEF CallInv, Types
      <4> QED
        BY <3>1, <4>1, <4>2, <4>3, CustodyAssumption
    <3>3. CASE r # role
      <4>1. Holders(r)' = Holders(r)
        BY <1>1, <1>3, <3>3 DEF Holders
      <4>2. permits'[r] = permits[r]
        BY <1>1, <3>3 DEF CallInv, Types
      <4> QED
        BY <3>1, <4>1, <4>2
    <3> QED
      BY <3>2, <3>3
  <2> QED
    BY <2>1 DEF PermitsReturned, Holders
<1> QED
  BY <1>4, <1>5, <1>6, <1>7, <1>8 DEF CallInv

\* A call that ends gives back the permit it held, if it held one, and a probe
\* that ends leaves no call at all.
LEMMA EndedGives ==
    ASSUME CallInv, NEW c \in Waiting, ~Idle(c), NEW kind \in Kinds, NEW response, NEW honest,
           Ended(c, kind, response, honest),
           worker' = [worker EXCEPT ![c] = "none"] \/ (worker' = worker /\ worker[c] = "none"),
           UNCHANGED <<now, stopping, received, key, lives>>
    PROVE  CallInv'
<1> DEFINE role == call[c].operation.work.role
<1>1. /\ call' = [call EXCEPT ![c] = NoCall]
      /\ permits' = IF call[c].stage = "sent" THEN [permits EXCEPT ![role] = @ + 1] ELSE permits
      /\ outcome'.kind = kind
      /\ UNCHANGED <<now, stopping, received, key, lives>>
  BY DEF Ended
<1>2. /\ call' \in [Waiting -> Calls] /\ call'[c] = NoCall /\ NoCall.stage = "none"
      /\ \A d \in Waiting : d # c => call'[d] = call[d]
  BY <1>1, WorkRoles DEF CallInv, Types, NoCall
<1>3. /\ worker' \in [Waiting -> {"none", "queued", "running"}] /\ worker'[c] = "none"
      /\ \A d \in Waiting : d # c => worker'[d] = worker[d]
  BY DEF CallInv, Types
<1>4. call[c].stage = "sent" => role \in Local
  BY DEF CallInv, OfSigner
<1>5. role \in Roles
  <2>1. call[c].operation.work \in Works
    BY DEF CallInv, Types, Calls, Operations
  <2> QED
    BY <2>1, WorkRoles
<1>6. c = Startup =>
        /\ providers' = IF kind = "accepted" THEN providers \union {role} ELSE {}
        /\ \/ kind # "accepted" /\ phase' = "down"
           \/ phase' \in {"up", "probing"}
  BY DEF Ended
<1>7. c # Startup => phase' = phase /\ providers' = providers
  BY DEF Ended
<1>8. permits' \in [Local -> Nat]
  BY <1>1, <1>4 DEF CallInv, Types
<1>9. Types'
  <2>1. providers' \subseteq Roles
    BY <1>5, <1>6, <1>7 DEF CallInv, Types
  <2>2. phase' \in {"down", "opening", "probing", "up"}
    BY <1>6, <1>7 DEF CallInv, Types
  <2> HIDE DEF role
  <2> QED
    BY <1>1, <1>2, <1>3, <1>8, <2>1, <2>2 DEF CallInv, Types
<1>10. Served'
  <2>1. CASE c # Startup
    BY <1>1, <1>2, <1>7, <2>1 DEF CallInv, Served, Idle, Waiting
  <2>2. CASE c = Startup
    <3>1. phase = "probing"
      BY <2>2 DEF CallInv, Served, Types
    <3>2. \A d \in Callers : Idle(d)
      BY <3>1 DEF CallInv, Served
    <3>3. \A d \in Waiting : Idle(d)'
      BY <1>2, <2>2, <3>2 DEF Idle, Waiting
    <3>4. lives' \in 1..MaxLives
      BY <1>1, <3>1 DEF CallInv, Served
    <3> QED
      BY <3>3, <3>4 DEF Served, Waiting
  <2> QED
    BY <2>1, <2>2
<1>11. OfSigner'
  BY <1>2 DEF CallInv, OfSigner
<1>12. NoDetachedWork'
  BY <1>2, <1>3 DEF CallInv, NoDetachedWork
<1>13. PermitsReturned'
  <2>1. ASSUME NEW r \in Local
        PROVE  permits'[r] + Cardinality(Holders(r)') = Concurrency
    <3>1. /\ permits[r] + Cardinality(Holders(r)) = Concurrency /\ permits[r] \in Nat
          /\ IsFiniteSet(Holders(r)) /\ Cardinality(Holders(r)) \in Nat
      BY HoldersFinite DEF CallInv, PermitsReturned, Holders, Types
    <3>2. CASE call[c].stage = "sent" /\ r = role
      <4>1. Holders(r)' = Holders(r) \ {c} /\ c \in Holders(r)
        BY <1>2, <3>2 DEF Holders
      <4>2. Cardinality(Holders(r) \ {c}) = Cardinality(Holders(r)) - 1
        BY <3>1, <4>1, FS_RemoveElement
      <4>3. permits'[r] = permits[r] + 1
        BY <1>1, <1>4, <3>2 DEF CallInv, Types
      <4> QED
        BY <3>1, <4>1, <4>2, <4>3, CustodyAssumption
    <3>3. CASE ~(call[c].stage = "sent" /\ r = role)
      <4>1. Holders(r)' = Holders(r)
        BY <1>2, <3>3 DEF Holders
      <4>2. permits'[r] = permits[r]
        BY <1>1, <3>3 DEF CallInv, Types
      <4> QED
        BY <3>1, <4>1, <4>2
    <3> QED
      BY <3>2, <3>3
  <2> QED
    BY <2>1 DEF PermitsReturned, Holders
<1> QED
  BY <1>9, <1>10, <1>11, <1>12, <1>13 DEF CallInv

\* A verified answer ends the call, accepted or not.
LEMMA VerifiedEnds ==
    ASSUME NEW c, NEW response, NEW honest, Verified(c, response, honest)
    PROVE  \E kind, given : kind \in Kinds /\ Ended(c, kind, given, honest)
<1>1. "accepted" \in Kinds /\ "verification" \in Kinds
  BY DEF Kinds
<1>2. CASE verify(call[c].operation, call[c].observed_at, response)
  <2>1. Ended(c, "accepted", response, honest)
    BY <1>2, Zenon DEF Verified
  <2> QED
    BY <1>1, <2>1, Zenon
<1>3. CASE ~verify(call[c].operation, call[c].observed_at, response)
  <2>1. Ended(c, "verification", NoResponse, honest)
    BY <1>3, Zenon DEF Verified
  <2> QED
    BY <1>1, <2>1, Zenon
<1> QED
  BY <1>2, <1>3

\* A step that leaves the calls, their workers and the permits alone.
LEMMA CallsUntouched ==
    ASSUME CallInv, UNCHANGED <<call, worker, permits, received>>,
           Types', Served'
    PROVE  CallInv'
<1>1. PermitsReturned'
  BY SameHolders DEF CallInv
<1> QED
  BY <1>1 DEF CallInv, OfSigner, NoDetachedWork

\* Whoever waits for a signer has no worker, and whoever has one is not idle.
LEMMA WorkerOf ==
    ASSUME CallInv, NEW c \in Waiting
    PROVE  /\ call[c].stage \in {"acquiring", "sent"} => worker[c] = "none" /\ ~Idle(c)
           /\ worker[c] = "running" => call[c].stage \in {"working", "joining"} /\ ~Idle(c)
BY DEF CallInv, NoDetachedWork, Idle

LEMMA CallInitial == Init => CallInv
<1> SUFFICES ASSUME Init PROVE CallInv
  OBVIOUS
<1>1. NoCall.stage = "none" /\ NoOutcome.kind = "none"
  BY DEF NoCall, NoOutcome
<1>2. /\ call = [c \in Waiting |-> NoCall] /\ worker = [c \in Waiting |-> "none"]
      /\ \A c \in Waiting : call[c].stage = "none" /\ worker[c] = "none"
  BY <1>1 DEF Init
<1>3. received \in [Local -> SUBSET Operations]
  <2>1. \A r : Earlier(r) \subseteq Operations
    BY CustodyAssumption DEF Earlier, Operations, Works
  <2> QED
    BY <2>1 DEF Init
<1>4. Types
  <2>1. now \in 1..MaxTime /\ lives \in 0..MaxLives
    BY CustodyAssumption DEF Init
  <2>2. call \in [Waiting -> Calls]
    BY <1>2, WorkRoles
  <2>3. permits \in [Local -> Nat]
    BY CustodyAssumption DEF Init
  <2>4. key \in [Local -> BOOLEAN]
    BY DEF Init
  <2> QED
    BY <1>1, <1>2, <1>3, <2>1, <2>2, <2>3, <2>4 DEF Init, Types, Kinds
<1>5. PermitsReturned
  <2>1. \A r \in Local : permits[r] = Concurrency
    BY DEF Init
  <2>2. \A r : {c \in Waiting : call[c].stage = "sent" /\ call[c].operation.work.role = r} = {}
    BY <1>2
  <2>3. Cardinality({}) = 0
    BY FS_EmptySet
  <2>4. Concurrency \in Nat
    BY CustodyAssumption
  <2> QED
    BY <2>1, <2>2, <2>3, <2>4 DEF PermitsReturned
<1>6. Served
  <2>1. \A c \in Waiting : Idle(c)
    BY <1>2 DEF Idle
  <2> QED
    BY <2>1 DEF Init, Served
<1> QED
  BY <1>2, <1>4, <1>5, <1>6 DEF CallInv, OfSigner, NoDetachedWork

LEMMA CallStep == CallInv /\ [Next]_vars => CallInv'
<1> SUFFICES ASSUME CallInv, [Next]_vars PROVE CallInv'
  OBVIOUS
<1>0. NoOutcome.kind \in Kinds
  BY DEF NoOutcome, Kinds
<1>1. CASE UNCHANGED custodyVars
  <2>1. Types' /\ Served' /\ UNCHANGED <<call, worker, permits, received>>
    BY <1>1 DEF custodyVars, CallInv, Types, Served, Idle
  <2> QED
    BY <2>1, CallsUntouched
<1>2. CASE Start
  <2>1. \A c \in Waiting : Idle(c)
    BY <1>2 DEF Start, CallInv, Served
  <2>2. /\ permits' = [r \in Local |-> Concurrency]
        /\ UNCHANGED <<now, call, worker, received, key>> /\ outcome' = NoOutcome
        /\ lives' = lives + 1 /\ lives < MaxLives
        /\ phase' = "opening" /\ providers' = {} /\ stopping' = FALSE
    BY <1>2 DEF Start
  <2>3. permits' \in [Local -> Nat]
    BY <2>2, CustodyAssumption
  <2>4. lives' \in 1..MaxLives
    BY <2>2, CustodyAssumption DEF CallInv, Types
  <2>5. Types'
    <3>1. lives' \in 0..MaxLives
      BY <2>4
    <3>2. stopping' \in BOOLEAN /\ providers' \subseteq Roles /\ outcome'.kind \in Kinds
      BY <1>0, <2>2
    <3> QED
      BY <2>2, <2>3, <3>1, <3>2 DEF CallInv, Types
  <2>6. Served'
    BY <2>1, <2>2, <2>4 DEF Served, Idle
  <2>7. PermitsReturned'
    <3>1. \A r : {c \in Waiting : call'[c].stage = "sent" /\ call'[c].operation.work.role = r} = {}
      BY <2>1, <2>2 DEF Idle
    <3>2. Cardinality({}) = 0
      BY FS_EmptySet
    <3>3. \A r \in Local : permits'[r] = Concurrency
      BY <2>2
    <3> QED
      BY <3>1, <3>2, <3>3, CustodyAssumption DEF PermitsReturned
  <2> QED
    BY <2>2, <2>5, <2>6, <2>7 DEF CallInv, OfSigner, NoDetachedWork
<1>3. CASE Open
  <2>1. NextRole(providers) \in Roles
    BY <1>3, NextRoleFacts DEF Open, CallInv, Types
  <2>2. /\ providers' \subseteq Roles /\ phase' \in {"opening", "probing"}
        /\ outcome' = NoOutcome /\ phase = "opening"
        /\ UNCHANGED <<now, stopping, call, worker, permits, received, key, lives>>
    BY <1>3, <2>1 DEF Open, CallInv, Types
  <2>3. Types'
    BY <1>0, <2>2 DEF CallInv, Types
  <2>4. Served'
    BY <2>2 DEF CallInv, Served, Idle, Waiting
  <2> QED
    BY <2>2, <2>3, <2>4, CallsUntouched
<1>4. CASE OpenFails
  <2>1. Types' /\ Served' /\ UNCHANGED <<call, worker, permits, received>>
    BY <1>0, <1>4 DEF OpenFails, CallInv, Types, Served, Idle
  <2> QED
    BY <2>1, CallsUntouched
<1>5. CASE Probe
  <2> DEFINE r == NextRole(providers)
  <2>1. r \in Roles
    BY <1>5, NextRoleFacts DEF Probe, CallInv, Types
  <2>2. ProbeWork(r, lives) \in Works
    BY <1>5, <2>1, WorkRoles DEF Probe, CallInv, Served
  <2>3. now + RequestDeadline \in Nat
    BY CustodyAssumption DEF CallInv, Types
  <2>4. /\ Begin(Startup, ProbeWork(r, lives), now + RequestDeadline)
        /\ UNCHANGED <<now, phase, providers, stopping, permits, received, key, lives>>
        /\ phase = "probing"
    BY <1>5 DEF Probe
  <2>5. Startup \in Waiting
    BY DEF Waiting
  <2>6. /\ call' \in [Waiting -> Calls] /\ outcome'.kind \in Kinds
        /\ worker' \in [Waiting -> {"none", "queued", "running"}]
        /\ \A d \in Waiting : d # Startup => call'[d] = call[d]
        /\ OfSigner' /\ NoDetachedWork' /\ PermitsReturned'
    <3> HIDE DEF r
    <3> QED
      BY <2>2, <2>3, <2>4, <2>5, BeginCall
  <2>7. Types'
    BY <2>4, <2>6 DEF CallInv, Types
  <2>8. Served'
    BY <2>4, <2>6, WaitingFinite DEF CallInv, Served, Idle, Waiting
  <2> QED
    BY <2>6, <2>7, <2>8 DEF CallInv
<1>6. ASSUME NEW c \in Callers, Execute(c) PROVE CallInv'
  <2>1. PICK w \in Work : Begin(c, w, now + ProviderTimeout)
    BY <1>6 DEF Execute
  <2>2. /\ UNCHANGED <<now, phase, providers, stopping, permits, received, key, lives>>
        /\ phase = "up" /\ c \in Waiting /\ c # Startup
    BY <1>6, WaitingFinite DEF Execute, Waiting
  <2>3. w \in Works /\ now + ProviderTimeout \in Nat
    BY CustodyAssumption DEF Works, CallInv, Types
  <2>4. /\ call' \in [Waiting -> Calls] /\ outcome'.kind \in Kinds
        /\ worker' \in [Waiting -> {"none", "queued", "running"}]
        /\ \A d \in Waiting : d # c => call'[d] = call[d]
        /\ OfSigner' /\ NoDetachedWork' /\ PermitsReturned'
    BY <2>1, <2>2, <2>3, BeginCall
  <2>5. Types'
    BY <2>2, <2>4 DEF CallInv, Types
  <2>6. Served'
    BY <2>2, <2>4 DEF CallInv, Served, Idle, Waiting
  <2> QED
    BY <2>4, <2>5, <2>6 DEF CallInv
<1>7. ASSUME NEW c \in Waiting, Send(c) PROVE CallInv'
  BY <1>7, SendTakes
<1>8. ASSUME NEW c \in Waiting, Answer(c) PROVE CallInv'
  <2>1. PICK response, honest : Verified(c, response, honest)
    BY <1>8, Zenon DEF Answer
  <2>2. PICK kind, given : kind \in Kinds /\ Ended(c, kind, given, honest)
    BY <2>1, VerifiedEnds
  <2>3. /\ worker' = worker /\ UNCHANGED <<now, stopping, received, key, lives>>
        /\ call[c].stage = "sent"
    BY <1>8 DEF Answer
  <2> QED
    BY <2>2, <2>3, WorkerOf, EndedGives
<1>9. ASSUME NEW c \in Waiting, RemoteFailure(c) \/ Timeout(c) PROVE CallInv'
  <2>1. /\ Ended(c, "transport", NoResponse, FALSE) /\ worker' = worker
        /\ UNCHANGED <<now, stopping, received, key, lives>>
        /\ call[c].stage \in {"acquiring", "sent"} /\ "transport" \in Kinds
    BY <1>9 DEF RemoteFailure, Timeout, Kinds
  <2> QED
    BY <2>1, WorkerOf, EndedGives
<1>10. ASSUME NEW c \in Waiting, WorkerBegins(c) PROVE CallInv'
  <2>1. /\ UNCHANGED <<now, phase, providers, stopping, call, permits, received, key, lives>>
        /\ outcome' = NoOutcome /\ worker[c] = "queued"
        /\ worker' = [worker EXCEPT ![c] = "running"]
    BY <1>10 DEF WorkerBegins
  <2>2. Types' /\ Served'
    BY <1>0, <2>1 DEF CallInv, Types, Served, Idle
  <2>3. NoDetachedWork'
    BY <2>1 DEF CallInv, NoDetachedWork, Types
  <2>4. PermitsReturned'
    BY <2>1, SameHolders DEF CallInv
  <2> QED
    BY <2>1, <2>2, <2>3, <2>4 DEF CallInv, OfSigner
<1>11. ASSUME NEW c \in Waiting, WorkerEnds(c) PROVE CallInv'
  <2>1. /\ worker' = [worker EXCEPT ![c] = "none"] /\ worker[c] = "running"
        /\ UNCHANGED <<now, stopping, received, key, lives>>
    BY <1>11 DEF WorkerEnds
  <2>2. call[c].stage \in {"working", "joining"} /\ ~Idle(c)
    BY <2>1, WorkerOf
  <2>3. CASE call[c].stage = "working"
    <3>1. PICK response : Verified(c, response, TRUE)
      BY <1>11, <2>3, Zenon DEF WorkerEnds
    <3>2. PICK kind, given : kind \in Kinds /\ Ended(c, kind, given, TRUE)
      BY <3>1, VerifiedEnds
    <3> QED
      BY <2>1, <2>2, <3>2, EndedGives
  <2>4. CASE call[c].stage = "joining"
    <3>1. Ended(c, "cancelled", NoResponse, FALSE) /\ "cancelled" \in Kinds
      BY <1>11, <2>4 DEF WorkerEnds, Kinds
    <3> QED
      BY <2>1, <2>2, <3>1, EndedGives
  <2> QED
    BY <2>2, <2>3, <2>4
<1>12. ASSUME NEW c \in Waiting, worker' = worker, call[c].stage = "working",
              call' = [call EXCEPT ![c].stage = "joining"], outcome' = NoOutcome,
              UNCHANGED <<now, phase, providers, stopping, permits, received, key, lives>>
       PROVE  CallInv'
  <2>1. /\ call' \in [Waiting -> Calls]
        /\ call'[c].stage = "joining" /\ call'[c].operation = call[c].operation
        /\ \A d \in Waiting : d # c => call'[d] = call[d]
    BY <1>12, StageChanges DEF CallInv, Types, Stages
  <2>2. Types'
    BY <1>0, <1>12, <2>1 DEF CallInv, Types
  <2>3. Served'
    BY <1>12, <2>1 DEF CallInv, Served, Idle, Waiting
  <2>4. OfSigner' /\ NoDetachedWork'
    BY <1>12, <2>1 DEF CallInv, OfSigner, NoDetachedWork
  <2>5. PermitsReturned'
    BY <1>12, <2>1, SameHolders DEF CallInv
  <2> QED
    BY <2>2, <2>3, <2>4, <2>5 DEF CallInv
<1>13. ASSUME NEW c \in Waiting, Cancelled(c) PROVE CallInv'
  <2>1. CancelCall(c) /\ worker' = worker /\ UNCHANGED <<now, stopping, received, key, lives>>
    BY <1>13 DEF Cancelled
  <2>2. CASE call[c].stage = "working"
    BY <1>12, <2>1, <2>2 DEF CancelCall
  <2>3. CASE call[c].stage # "working"
    <3>1. /\ Ended(c, "cancelled", NoResponse, FALSE) /\ "cancelled" \in Kinds
          /\ call[c].stage \in {"acquiring", "sent"}
      BY <2>1, <2>3 DEF CancelCall, Kinds
    <3> QED
      BY <2>1, <3>1, WorkerOf, EndedGives
  <2> QED
    BY <2>2, <2>3
<1>14. ASSUME NEW c \in Waiting, DropCall(c) PROVE CallInv'
  <2>1. UNCHANGED <<now, stopping, received, key, lives>>
    BY <1>14 DEF DropCall
  <2>2. CASE worker[c] = "running"
    BY <1>12, <1>14, <2>1, <2>2 DEF DropCall
  <2>3. CASE worker[c] # "running"
    <3>1. /\ Ended(c, "cancelled", NoResponse, FALSE) /\ "cancelled" \in Kinds
          /\ ~Idle(c) /\ worker' = [worker EXCEPT ![c] = "none"]
      BY <1>14, <2>3 DEF DropCall, Kinds, Idle
    <3> QED
      BY <2>1, <3>1, EndedGives
  <2> QED
    BY <2>2, <2>3
<1>15. CASE Shutdown
  <2>1. Types' /\ Served' /\ UNCHANGED <<call, worker, permits, received>>
    BY <1>0, <1>15 DEF Shutdown, CallInv, Types, Served, Idle
  <2> QED
    BY <2>1, CallsUntouched
<1>16. CASE Stopped
  <2>1. Types' /\ Served' /\ UNCHANGED <<call, worker, permits, received>>
    BY <1>0, <1>16 DEF Stopped, CallInv, Types, Served, Idle
  <2> QED
    BY <2>1, CallsUntouched
<1>17. CASE Tick
  <2>1. Types' /\ Served' /\ UNCHANGED <<call, worker, permits, received>>
    BY <1>0, <1>17, CustodyAssumption DEF Tick, CallInv, Types, Served, Idle
  <2> QED
    BY <2>1, CallsUntouched
<1>18. ASSUME NEW r \in Local, Rekey(r) PROVE CallInv'
  <2>1. Types' /\ Served' /\ UNCHANGED <<call, worker, permits, received>>
    BY <1>0, <1>18 DEF Rekey, CallInv, Types, Served, Idle
  <2> QED
    BY <2>1, CallsUntouched
<1> QED
  BY <1>1, <1>2, <1>3, <1>4, <1>5, <1>6, <1>7, <1>8, <1>9, <1>10, <1>11, <1>13, <1>14,
     <1>15, <1>16, <1>17, <1>18 DEF Next, Provision, vars

\* However calls end - answered, refused, timed out, cancelled or dropped - every
\* permit is back or held by a waiting call, and no blocking task outlives its
\* call (MycLocalSignerClient::execute, MycProviderExecutor::execute).
THEOREM NothingLeftBehindCorrect == Spec => []NothingLeftBehind
<1>1. CallInv => NothingLeftBehind
  <2> SUFFICES ASSUME CallInv PROVE NothingLeftBehind
    OBVIOUS
  <2>1. permits \in [Local -> 0..Concurrency]
    BY PermitsBounded DEF CallInv
  <2>2. TypeOK
    BY <2>1 DEF CallInv, Types, TypeOK, Calls, Stages, Kinds
  <2> QED
    BY <2>2 DEF CallInv, NothingLeftBehind
<1> QED
  BY <1>1, CallInitial, CallStep, PTL DEF Spec

-----------------------------------------------------------------------------
(* Padded lengths.                                                         *)

Chunks == {64, 128, 256, 512, 1024, 2048, 4096, 8192}

Least(S, x) == S \subseteq Nat /\ x \in S /\ \A y \in S : x <= y

\* The minimum of a set that has a least element.
LEMMA MinIs ==
    ASSUME NEW S, NEW x, Least(S, x)
    PROVE  Min(S) = x
<1> DEFINE least == Min(S)
<1>0. S \subseteq Nat /\ x \in S /\ \A y \in S : x <= y
  BY DEF Least
<1>1. least \in S /\ \A y \in S : least <= y
  BY <1>0 DEF Min
<1> HIDE DEF least
<1>2. least <= x /\ x <= least /\ least \in Int /\ x \in Int
  BY <1>0, <1>1
<1>3. least = x
  BY <1>2
<1> QED
  BY <1>3 DEF least

\* The power of two that a length is rounded up to.
RoundsUp(n, power) ==
    power \in PowersOfTwo /\ n <= power /\ \A q \in PowersOfTwo : n <= q => power <= q

\* NextPowerOfTwo is what RoundsUp says.
LEMMA PowerAt ==
    ASSUME NEW n \in Nat, NEW power, RoundsUp(n, power)
    PROVE  NextPowerOfTwo(n) = power
<1>1. \A q \in PowersOfTwo : q \in Nat /\ (q >= n <=> n <= q)
  BY DEF PowersOfTwo
<1>2. Least({q \in PowersOfTwo : q >= n}, power)
  BY <1>1 DEF Least, RoundsUp
<1> QED
  BY <1>2, MinIs DEF NextPowerOfTwo

\* Up to 256 the chunk is 32.
LEMMA SmallPower ==
    ASSUME NEW n \in Nat, 1 <= n, n <= 256
    PROVE  NextPowerOfTwo(n) \in Int /\ NextPowerOfTwo(n) <= 256
<1>1. \E power \in PowersOfTwo : power <= 256 /\ RoundsUp(n, power)
  <2>1. CASE n <= 1
    BY <2>1 DEF PowersOfTwo, RoundsUp
  <2>2. CASE n > 1 /\ n <= 2
    BY <2>2 DEF PowersOfTwo, RoundsUp
  <2>3. CASE n > 2 /\ n <= 4
    BY <2>3 DEF PowersOfTwo, RoundsUp
  <2>4. CASE n > 4 /\ n <= 8
    BY <2>4 DEF PowersOfTwo, RoundsUp
  <2>5. CASE n > 8 /\ n <= 16
    BY <2>5 DEF PowersOfTwo, RoundsUp
  <2>6. CASE n > 16 /\ n <= 32
    BY <2>6 DEF PowersOfTwo, RoundsUp
  <2>7. CASE n > 32 /\ n <= 64
    BY <2>7 DEF PowersOfTwo, RoundsUp
  <2>8. CASE n > 64 /\ n <= 128
    BY <2>8 DEF PowersOfTwo, RoundsUp
  <2>9. CASE n > 128
    BY <2>9 DEF PowersOfTwo, RoundsUp
  <2> QED
    BY <2>1, <2>2, <2>3, <2>4, <2>5, <2>6, <2>7, <2>8, <2>9
<1>2. PICK power \in PowersOfTwo : power <= 256 /\ RoundsUp(n, power)
  BY <1>1
<1>3. NextPowerOfTwo(n) = power
  BY <1>2, PowerAt
<1> QED
  BY <1>2, <1>3 DEF PowersOfTwo

\* Above, the power is eight times the chunk.
LEMMA LargePower ==
    ASSUME NEW chunk \in Chunks, NEW n \in Nat, 4 * chunk < n, n <= 8 * chunk
    PROVE  NextPowerOfTwo(n) = 8 * chunk
<1>1. RoundsUp(n, 8 * chunk)
  <2> USE DEF PowersOfTwo, RoundsUp
  <2>1. CASE chunk = 64   BY <2>1
  <2>2. CASE chunk = 128  BY <2>2
  <2>3. CASE chunk = 256  BY <2>3
  <2>4. CASE chunk = 512  BY <2>4
  <2>5. CASE chunk = 1024 BY <2>5
  <2>6. CASE chunk = 2048 BY <2>6
  <2>7. CASE chunk = 4096 BY <2>7
  <2>8. CASE chunk = 8192 BY <2>8
  <2> QED
    BY <2>1, <2>2, <2>3, <2>4, <2>5, <2>6, <2>7, <2>8 DEF Chunks
<1> QED
  BY <1>1, PowerAt

\* Every length above 256 lies in the range of one chunk.
LEMMA Ranges ==
    ASSUME NEW n \in Nat, 256 < n, n <= 65536
    PROVE  \E chunk \in Chunks : 4 * chunk < n /\ n <= 8 * chunk
BY DEF Chunks

\* What the two functions compute in each range.
LEMMA PaddedInRange ==
    ASSUME NEW chunk \in Chunks, NEW n \in Nat, 4 * chunk < n, n <= 8 * chunk
    PROVE  /\ nip44_padding_length(n) = chunk * ((n - 1) \div chunk + 1)
           /\ is_valid_nip44_padding_length(n) <=> n % chunk = 0
<1>1. NextPowerOfTwo(n) = 8 * chunk /\ 256 < 8 * chunk /\ (8 * chunk) \div 8 = chunk
  BY LargePower DEF Chunks
<1>2. n > 256 /\ n \in 32..Nip44PaddedMax
  BY DEF Chunks, Nip44PaddedMax
<1>3. ~(n <= 32) /\ ~(8 * chunk <= 256) /\ ~(n <= 256)
  BY <1>1, <1>2 DEF Chunks
<1>4. nip44_padding_length(n) = chunk * ((n - 1) \div chunk + 1)
  BY <1>1, <1>3, Zenon DEF nip44_padding_length
<1>5. is_valid_nip44_padding_length(n) <=> n % chunk = 0
  BY <1>1, <1>2, <1>3, Zenon DEF is_valid_nip44_padding_length
<1> QED
  BY <1>4, <1>5

\* Rounding up to a multiple of the chunk.
LEMMA Rounded ==
    ASSUME NEW chunk \in Chunks, NEW n \in Nat, 4 * chunk < n, n <= 8 * chunk
    PROVE  \E k \in 5..8 : /\ (n - 1) \div chunk + 1 = k
                           /\ n <= chunk * k /\ chunk * (k - 1) < n
                           /\ (n % chunk = 0 <=> n = chunk * k)
<1>1. CASE chunk = 64   BY <1>1
<1>2. CASE chunk = 128  BY <1>2
<1>3. CASE chunk = 256  BY <1>3
<1>4. CASE chunk = 512  BY <1>4
<1>5. CASE chunk = 1024 BY <1>5
<1>6. CASE chunk = 2048 BY <1>6
<1>7. CASE chunk = 4096 BY <1>7
<1>8. CASE chunk = 8192 BY <1>8
<1> QED
  BY <1>1, <1>2, <1>3, <1>4, <1>5, <1>6, <1>7, <1>8 DEF Chunks

\* The permitted lengths of a range are its multiples of the chunk.
LEMMA PermittedInRange ==
    ASSUME NEW chunk \in Chunks, NEW p \in Permitted, 4 * chunk < p, p <= 8 * chunk
    PROVE  \E k \in 5..8 : p = chunk * k
<1>1. CASE \E k \in 1..8 : p = 32 * k
  BY <1>1 DEF Chunks
<1>2. CASE \E d \in Chunks, k \in 5..8 : p = d * k
  <2>1. PICK d \in Chunks, k \in 5..8 : p = d * k
    BY <1>2
  <2>2. d = chunk
    <3>1. CASE d = 64   BY <3>1, <2>1 DEF Chunks
    <3>2. CASE d = 128  BY <3>2, <2>1 DEF Chunks
    <3>3. CASE d = 256  BY <3>3, <2>1 DEF Chunks
    <3>4. CASE d = 512  BY <3>4, <2>1 DEF Chunks
    <3>5. CASE d = 1024 BY <3>5, <2>1 DEF Chunks
    <3>6. CASE d = 2048 BY <3>6, <2>1 DEF Chunks
    <3>7. CASE d = 4096 BY <3>7, <2>1 DEF Chunks
    <3>8. CASE d = 8192 BY <3>8, <2>1 DEF Chunks
    <3> QED
      BY <3>1, <3>2, <3>3, <3>4, <3>5, <3>6, <3>7, <3>8 DEF Chunks
  <2> QED
    BY <2>1, <2>2
<1> QED
  BY <1>1, <1>2 DEF Permitted, Chunks

\* Permitted lengths are numbers.
LEMMA PermittedNumbers == Permitted \subseteq Nat
BY DEF Permitted

\* The least permitted length that holds a plaintext.
LEMMA LeastPermitted ==
    ASSUME NEW n \in Nat, NEW x, x \in Permitted, n <= x,
           \A p \in Permitted : p >= n => x <= p
    PROVE  Least({p \in Permitted : p >= n}, x)
<1>1. x \in Nat /\ x >= n
  BY PermittedNumbers
<1> DEFINE S == {p \in Permitted : p >= n}
<1>2. S \subseteq Nat
  BY PermittedNumbers
<1>3. x \in S
  BY <1>1
<1>4. \A y \in S : x <= y
  OBVIOUS
<1> HIDE DEF S
<1>5. Least(S, x)
  BY <1>2, <1>3, <1>4 DEF Least
<1> QED
  BY <1>5 DEF S

\* Above 256 bytes.
LEMMA PaddingOfLarge ==
    ASSUME NEW n \in Nat, 256 < n, n <= 65536
    PROVE  /\ n <= nip44_padding_length(n)
           /\ Least({p \in Permitted : p >= n}, nip44_padding_length(n))
           /\ is_valid_nip44_padding_length(n) <=> n \in Permitted
<1>1. PICK chunk \in Chunks : 4 * chunk < n /\ n <= 8 * chunk
  BY Ranges
<1>2. PICK k \in 5..8 : /\ (n - 1) \div chunk + 1 = k
                        /\ n <= chunk * k /\ chunk * (k - 1) < n
                        /\ (n % chunk = 0 <=> n = chunk * k)
  BY <1>1, Rounded
<1>3. /\ nip44_padding_length(n) = chunk * k
      /\ is_valid_nip44_padding_length(n) <=> n = chunk * k
  BY <1>1, <1>2, PaddedInRange
<1>4. chunk * k \in Permitted
  BY DEF Permitted, Chunks
<1>5. \A p \in Permitted : 4 * chunk < p /\ p <= 8 * chunk => \E i \in 5..8 : p = chunk * i
  BY PermittedInRange
<1>6. chunk \in Nat /\ chunk > 0 /\ k \in Nat /\ chunk * k \in Nat /\ chunk * k <= 8 * chunk
  BY DEF Chunks
<1>7. ASSUME NEW i \in 5..8, chunk * (k - 1) < chunk * i PROVE chunk * k <= chunk * i
  BY <1>7 DEF Chunks
<1>8. ASSUME NEW p \in Permitted, p >= n PROVE chunk * k <= p
  <2>1. p \in Nat /\ 4 * chunk < p
    BY <1>1, <1>6, <1>8, PermittedNumbers
  <2>2. CASE p <= 8 * chunk
    <3>1. PICK i \in 5..8 : p = chunk * i
      BY <1>5, <2>1, <2>2
    <3>2. chunk * (k - 1) < chunk * i
      BY <1>2, <1>6, <1>8, <2>1, <3>1
    <3> QED
      BY <1>7, <3>1, <3>2
  <2>3. CASE p > 8 * chunk
    BY <1>6, <2>1, <2>3
  <2> QED
    BY <1>6, <2>1, <2>2, <2>3
<1>9. Least({p \in Permitted : p >= n}, chunk * k)
  <2> DEFINE x == chunk * k
  <2>1. x \in Permitted /\ n <= x /\ \A p \in Permitted : p >= n => x <= p
    BY <1>2, <1>4, <1>8
  <2> HIDE DEF x
  <2>2. Least({p \in Permitted : p >= n}, x)
    BY <2>1, LeastPermitted
  <2> QED
    BY <2>2 DEF x
<1>10. n = chunk * k <=> n \in Permitted
  <2>1. ASSUME n \in Permitted PROVE n = chunk * k
    BY <1>2, <1>6, <1>8, <2>1
  <2> QED
    BY <1>4, <2>1
<1> QED
  BY <1>2, <1>3, <1>9, <1>10

\* Up to 256 bytes.
LEMMA PaddingOfSmall ==
    ASSUME NEW n \in Nat, 1 <= n, n <= 256
    PROVE  /\ n <= nip44_padding_length(n)
           /\ Least({p \in Permitted : p >= n}, nip44_padding_length(n))
           /\ is_valid_nip44_padding_length(n) <=> n \in Permitted
<1>1. nip44_padding_length(n) = 32 * ((n - 1) \div 32 + 1)
  <2>1. CASE n <= 32
    <3>1. nip44_padding_length(n) = 32
      BY <2>1, Zenon DEF nip44_padding_length
    <3> QED
      BY <2>1, <3>1
  <2>2. CASE ~(n <= 32)
    <3>1. NextPowerOfTwo(n) <= 256
      BY SmallPower
    <3> QED
      BY <2>2, <3>1, Zenon DEF nip44_padding_length
  <2> QED
    BY <2>1, <2>2
<1>2. PICK k \in 1..8 : /\ (n - 1) \div 32 + 1 = k /\ n <= 32 * k /\ 32 * (k - 1) < n
                       /\ ((n >= 32 /\ n % 32 = 0) <=> (n = 32 * k))
  OBVIOUS
<1>3. 32 * k \in Permitted
  BY DEF Permitted
<1>4. ASSUME NEW p \in Permitted, p >= n PROVE 32 * k <= p
  <2>1. CASE \E i \in 1..8 : p = 32 * i
    BY <1>2, <1>4, <2>1
  <2>2. CASE p > 256
    BY <2>2, PermittedNumbers
  <2>3. (\E i \in 1..8 : p = 32 * i) \/ p > 256
    BY <1>4 DEF Permitted
  <2> QED
    BY <2>1, <2>2, <2>3
<1>5. Least({p \in Permitted : p >= n}, 32 * k)
  <2> DEFINE x == 32 * k
  <2>1. x \in Permitted /\ n <= x /\ \A p \in Permitted : p >= n => x <= p
    BY <1>2, <1>3, <1>4
  <2> HIDE DEF x
  <2>2. Least({p \in Permitted : p >= n}, x)
    BY <2>1, LeastPermitted
  <2> QED
    BY <2>2 DEF x
<1>6. is_valid_nip44_padding_length(n) <=> n = 32 * k
  <2>0. Nip44PaddedMax \in Nat /\ n <= Nip44PaddedMax
    BY DEF Nip44PaddedMax
  <2>1. n \in 32..Nip44PaddedMax <=> n >= 32
    BY <2>0
  <2>2. is_valid_nip44_padding_length(n) <=> (n \in 32..Nip44PaddedMax /\ n % 32 = 0)
    BY <2>1, Zenon DEF is_valid_nip44_padding_length
  <2> QED
    BY <1>2, <2>1, <2>2
<1>7. n = 32 * k <=> n \in Permitted
  <2>1. ASSUME n \in Permitted PROVE n = 32 * k
    BY <1>2, <1>4, <2>1
  <2> QED
    BY <1>3, <2>1
<1> QED
  BY <1>1, <1>2, <1>5, <1>6, <1>7

\* The two functions at every length, and the least permitted one that they give.
LEMMA PaddingExact ==
    ASSUME NEW n \in Nat, 1 <= n, n <= Nip44PaddedMax
    PROVE  /\ n <= nip44_padding_length(n) /\ nip44_padding_length(n) \in Nat
           /\ nip44_padding_length(n) = Min({p \in Permitted : p >= n})
           /\ is_valid_nip44_padding_length(n) <=> n \in Permitted
<1>1. /\ n <= nip44_padding_length(n)
      /\ Least({p \in Permitted : p >= n}, nip44_padding_length(n))
      /\ is_valid_nip44_padding_length(n) <=> n \in Permitted
  <2>1. CASE n <= 256
    BY <2>1, PaddingOfSmall
  <2>2. CASE ~(n <= 256)
    <3>1. 256 < n /\ n <= 65536
      BY <2>2 DEF Nip44PaddedMax
    <3> QED
      BY <3>1, PaddingOfLarge
  <2> QED
    BY <2>1, <2>2
<1>2. nip44_padding_length(n) = Min({p \in Permitted : p >= n})
  BY <1>1, MinIs
<1>3. nip44_padding_length(n) \in Nat
  BY <1>1, PermittedNumbers DEF Least
<1> QED
  BY <1>1, <1>2, <1>3

-----------------------------------------------------------------------------
(* Verification.                                                           *)

\* An operation is known by its identifier, role and capability.
LEMMA WorkKnown ==
    ASSUME NEW v \in Works, NEW w \in Works,
           v.id = w.id, v.role = w.role, v.capability = w.capability
    PROVE  v = w
<1>1. /\ \A x \in Work : x.id \notin 0..MaxLives
      /\ \A x, y \in Work :
            x.id = y.id /\ x.role = y.role /\ x.capability = y.capability => x = y
      /\ MaxLives \in Nat
  BY CustodyAssumption
<1>2. NoWork.id = 0 /\ 0 \in 0..MaxLives /\ 0 \notin 1..MaxLives
      /\ 1..MaxLives \subseteq 0..MaxLives
  BY <1>1 DEF NoWork
<1>3. \A x \in Works : \/ x \in Work
                       \/ x = NoWork
                       \/ \E r \in Roles, n \in 1..MaxLives : x = ProbeWork(r, n)
  BY DEF Works
<1>4. \A r, n : ProbeWork(r, n).id = n /\ ProbeWork(r, n).role = r
  BY DEF ProbeWork, NoWork
<1>5. CASE v \in Work
  BY <1>1, <1>2, <1>3, <1>4, <1>5
<1>6. CASE v \notin Work
  BY <1>1, <1>2, <1>3, <1>4, <1>6
<1> QED
  BY <1>5, <1>6

\* The lengths of a provider that did what it was asked are accepted.
LEMMA HonestFits ==
    ASSUME NEW work \in Works
    PROVE  verify_result(work, ResultOf(work, TRUE))
<1> DEFINE result == ResultOf(work, TRUE)
<1>1. /\ result.capability = work.capability /\ result.peer = work.peer
      /\ result.content = work.content /\ result.expected = TRUE
      /\ work.capability = "nip04_encrypt" =>
            result.length = nip04_ciphertext_length(work.length)
      /\ work.capability = "nip44_encrypt" =>
            result.length = Nip44Fixed + nip44_padding_length(work.length)
      /\ work.capability \notin {"nip04_encrypt", "nip44_encrypt"} =>
            result.length = work.length
  BY DEF ResultOf
<1>2. /\ work.capability \in Capabilities
      /\ work.length \in Nat
      /\ work.capability = "nip44_decrypt" => work.length \in 1..Nip44PlaintextMax
  <2>1. CASE work \in Work
    BY <2>1, CustodyAssumption DEF for_role, Capabilities
  <2>2. CASE work \notin Work
    <3>0. /\ NoWork.capability = "describe" /\ NoWork.length = 0
          /\ \A r, n : ProbeWork(r, n).capability = "describe" /\ ProbeWork(r, n).length = 0
      BY DEF ProbeWork, NoWork
    <3>1. work.capability = "describe" /\ work.length = 0
      BY <2>2, <3>0 DEF Works
    <3> QED
      BY <3>1 DEF Capabilities
  <2> QED
    BY <2>1, <2>2
<1>3. result.expected
  BY DEF ResultOf
<1> HIDE DEF result
<1>4. verify_identity(result) /\ verify_signed_event(work, result)
  BY <1>1, <1>3 DEF verify_identity, verify_signed_event
<1>5. ASSUME work.capability \in {"nip04_encrypt", "nip44_encrypt"}
      PROVE  verify_encrypted_length(work, result)
  BY <1>1, <1>5 DEF verify_encrypted_length
<1>6. ASSUME work.capability = "nip04_decrypt" PROVE verify_decrypted_length(work, result)
  <2>1. work.length < nip04_ciphertext_length(work.length)
    BY <1>2 DEF nip04_ciphertext_length
  <2> QED
    BY <1>1, <1>6, <2>1 DEF verify_decrypted_length
<1>7. ASSUME work.capability = "nip44_decrypt" PROVE verify_decrypted_length(work, result)
  <2>1. /\ work.length \in Nat /\ 1 <= work.length
        /\ work.length <= Nip44PlaintextMax /\ work.length <= Nip44PaddedMax
    <3>1. /\ Nip44PlaintextMax \in Nat /\ Nip44PaddedMax \in Nat
          /\ Nip44PlaintextMax <= Nip44PaddedMax
      BY DEF Nip44PlaintextMax, Nip44PaddedMax
    <3> QED
      BY <1>2, <1>7, <3>1
  <2>2. work.length <= nip44_padding_length(work.length) /\ nip44_padding_length(work.length) \in Nat
    BY <2>1, PaddingExact
  <2>3. work.length \in 1..nip44_padding_length(work.length)
    BY <2>1, <2>2
  <2> QED
    BY <1>1, <1>7, <2>1, <2>3 DEF verify_decrypted_length
<1>8. verify_result(work, result)
  <2>1. CASE work.capability \in {"describe", "public_identity"}
    BY <1>1, <1>4, <2>1 DEF verify_result
  <2>2. CASE work.capability = "sign_event"
    BY <1>1, <1>4, <2>2 DEF verify_result
  <2>3. CASE work.capability \in {"nip04_encrypt", "nip44_encrypt"}
    BY <1>1, <1>5, <2>3 DEF verify_result
  <2>4. CASE work.capability \in {"nip04_decrypt", "nip44_decrypt"}
    BY <1>1, <1>6, <1>7, <2>4 DEF verify_result
  <2> QED
    BY <1>2, <2>1, <2>2, <2>3, <2>4 DEF Capabilities
<1> QED
  BY <1>8 DEF result

\* The observation time of a call lies before its deadline.
Timely == \A c \in Waiting : call[c].observed_at <= call[c].operation.deadline

Told == AnswersTheQuestion /\ SignedAsAsked /\ HonestAccepted

\* A step that ends no call with an answer has nothing to tell.
LEMMA NotAccepted ==
    ASSUME outcome'.kind \notin {"accepted", "verification"}
    PROVE  Told'
BY DEF Told, AnswersTheQuestion, SignedAsAsked, HonestAccepted, Accepted

\* What the end of a call records.
LEMMA EndedFacts ==
    ASSUME NEW c \in Waiting, NEW kind, NEW response, NEW honest,
           Ended(c, kind, response, honest), call \in [Waiting -> Calls], Timely
    PROVE  /\ outcome' = [kind |-> kind, operation |-> call[c].operation,
                          response |-> response, honest |-> honest, at |-> now]
           /\ Timely'
<1>1. /\ call' = [call EXCEPT ![c] = NoCall]
      /\ outcome' = [kind |-> kind, operation |-> call[c].operation,
                     response |-> response, honest |-> honest, at |-> now]
  BY DEF Ended
<1>2. NoCall.observed_at = 0 /\ NoCall.operation.deadline = 0
  BY DEF NoCall, NoOperation
<1>3. ASSUME NEW d \in Waiting PROVE call'[d].observed_at <= call'[d].operation.deadline
  <2>1. CASE d = c
    BY <1>1, <1>2, <2>1
  <2>2. CASE d # c
    BY <1>1, <2>2 DEF Timely
  <2> QED
    BY <2>1, <2>2
<1> QED
  BY <1>1, <1>3 DEF Timely

\* What verification accepts, it may; what it refuses was not an honest answer.
LEMMA VerifiedTells ==
    ASSUME NEW c \in Waiting, NEW o \in Operations, NEW p \in Operations, NEW expected,
           NEW honest, call \in [Waiting -> Calls], Timely,
           Verified(c, Response(o, ResultOf(p.work, expected)), honest),
           honest => o = call[c].operation /\ p = o /\ expected = TRUE
    PROVE  Told' /\ Timely'
<1> DEFINE operation == call[c].operation
           result == ResultOf(p.work, expected)
           response == Response(o, result)
<1>1. operation \in Operations /\ call[c].observed_at <= operation.deadline
  BY DEF Calls, Timely
<1>2. operation.work \in Works /\ o.work \in Works /\ p.work \in Works
  BY <1>1 DEF Operations
<1>3. response.operation = o /\ response.result = result
  BY DEF Response
<1>4. CASE verify(operation, call[c].observed_at, response)
  <2>1. Ended(c, "accepted", response, honest)
    BY <1>4, Zenon DEF Verified
  <2> HIDE DEF response, result
  <2>2. /\ outcome' = [kind |-> "accepted", operation |-> operation, response |-> response,
                       honest |-> honest, at |-> now]
        /\ Timely'
    BY <2>1, EndedFacts
  <2>3. o.work = operation.work
    BY <1>2, <1>3, <1>4, WorkKnown DEF verify, ResponseBinds
  <2>4. verify_result(operation.work, result)
    BY <1>3, <1>4 DEF verify
  <2>5. /\ outcome'.kind = "accepted" /\ outcome'.operation = operation
        /\ outcome'.response.operation = o /\ outcome'.response.result = result
    BY <1>3, <2>2
  <2>6. AnswersTheQuestion' /\ HonestAccepted'
    BY <2>3, <2>5 DEF AnswersTheQuestion, HonestAccepted, Accepted
  <2>7. /\ operation.work.capability \in {"sign_event", "describe"} => result.expected
        /\ operation.work.capability = "sign_event" => result.content = operation.work.content
    <3> HIDE DEF operation
    <3>1. CASE operation.work.capability = "describe"
      BY <2>4, <3>1 DEF verify_result, verify_identity
    <3>2. CASE operation.work.capability = "sign_event"
      BY <2>4, <3>2 DEF verify_result, verify_identity, verify_signed_event
    <3> QED
      BY <3>1, <3>2
  <2>8. SignedAsAsked'
    BY <2>5, <2>7 DEF SignedAsAsked, Accepted
  <2> QED
    BY <2>2, <2>6, <2>8 DEF Told
<1>5. CASE ~verify(operation, call[c].observed_at, response)
  <2>1. Ended(c, "verification", NoResponse, honest)
    BY <1>5, Zenon DEF Verified
  <2>2. /\ outcome' = [kind |-> "verification", operation |-> operation, response |-> NoResponse,
                       honest |-> honest, at |-> now]
        /\ Timely'
    BY <2>1, EndedFacts
  <2>3. ASSUME honest PROVE FALSE
    <3>1. o = operation /\ result = ResultOf(operation.work, TRUE)
      BY <2>3
    <3>2. verify_result(operation.work, result)
      BY <1>2, <3>1, HonestFits
    <3> HIDE DEF result, operation
    <3>3. ResponseBinds(response, operation)
      BY <1>3, <3>1 DEF ResponseBinds
    <3>4. verify(operation, call[c].observed_at, response)
      BY <1>1, <1>3, <3>2, <3>3 DEF verify
    <3> QED
      BY <1>5, <3>4
  <2>4. outcome'.kind = "verification" /\ outcome'.honest = honest
    BY <2>2
  <2>5. Told'
    BY <2>3, <2>4 DEF Told, AnswersTheQuestion, SignedAsAsked, HonestAccepted, Accepted
  <2> QED
    BY <2>2, <2>5
<1> QED
  BY <1>4, <1>5

VerifyInv == Timely /\ Told

\* A step that leaves the calls alone, or only moves one on, and ends none.
LEMMA CallsGoOn ==
    ASSUME VerifyInv, outcome' = NoOutcome,
           \A c \in Waiting : /\ call'[c].observed_at = call[c].observed_at
                              /\ call'[c].operation = call[c].operation
    PROVE  VerifyInv'
<1>1. Told'
  BY NotAccepted DEF NoOutcome
<1> QED
  BY <1>1 DEF VerifyInv, Timely

\* The calls are as they were.
LEMMA CallsStay ==
    ASSUME VerifyInv, outcome' = NoOutcome, call' = call
    PROVE  VerifyInv'
BY CallsGoOn

\* One call moves on to another stage.
LEMMA CallMovesOn ==
    ASSUME VerifyInv, call \in [Waiting -> Calls], outcome' = NoOutcome, NEW c \in Waiting,
           NEW stage, call' = [call EXCEPT ![c].stage = stage]
    PROVE  VerifyInv'
<1>1. \A d \in Waiting : /\ call'[d].observed_at = call[d].observed_at
                         /\ call'[d].operation = call[d].operation
  BY DEF Calls
<1> QED
  BY <1>1, CallsGoOn

\* A call takes its deadline and its observation time from one clock reading.
LEMMA CallBegins ==
    ASSUME VerifyInv, Types, NEW c \in Waiting, NEW work, NEW wait \in Nat,
           Begin(c, work, now + wait)
    PROVE  VerifyInv'
<1> DEFINE e == [stage |-> IF work.role \in Encrypted THEN "working" ELSE "acquiring",
                 operation |-> [work |-> work, deadline |-> now + wait],
                 observed_at |-> now, started |-> now]
<1>1. call' = [call EXCEPT ![c] = e] /\ outcome' = NoOutcome
  BY DEF Begin
<1>2. e.observed_at <= e.operation.deadline
  <2>1. now \in Nat
    BY DEF Types
  <2> QED
    BY <2>1
<1> HIDE DEF e
<1>3. ASSUME NEW d \in Waiting PROVE call'[d].observed_at <= call'[d].operation.deadline
  <2>1. CASE d = c
    BY <1>1, <1>2, <2>1 DEF Types
  <2>2. CASE d # c
    BY <1>1, <2>2 DEF Types, VerifyInv, Timely
  <2> QED
    BY <2>1, <2>2
<1>4. Told'
  BY <1>1, NotAccepted DEF NoOutcome
<1> QED
  BY <1>3, <1>4 DEF VerifyInv, Timely

\* A call that ends without an answer.
LEMMA CallGivesUp ==
    ASSUME VerifyInv, Types, NEW c \in Waiting, NEW kind \in {"transport", "cancelled"},
           Ended(c, kind, NoResponse, FALSE)
    PROVE  VerifyInv'
<1>1. /\ outcome' = [kind |-> kind, operation |-> call[c].operation,
                     response |-> NoResponse, honest |-> FALSE, at |-> now]
      /\ Timely'
  BY EndedFacts DEF Types, VerifyInv
<1>2. outcome'.kind = kind
  BY <1>1
<1> QED
  BY <1>1, <1>2, NotAccepted DEF VerifyInv

\* A signer answers.
LEMMA AnswerTells ==
    ASSUME VerifyInv, CallInv, NEW c \in Waiting, Answer(c)
    PROVE  VerifyInv'
<1> DEFINE role == call[c].operation.work.role
<1>1. call[c].stage = "sent" /\ role \in Local
  BY DEF Answer, CallInv, OfSigner
<1>2. PICK o \in received[role], p \in received[role] :
         Verified(c, Response(o, ResultOf(p.work, key[role])),
                  o = call[c].operation /\ p = o /\ key[role])
  BY DEF Answer
<1>3. o \in Operations /\ p \in Operations /\ key[role] \in BOOLEAN
  BY <1>1 DEF CallInv, Types
<1>4. call \in [Waiting -> Calls] /\ Timely
  BY DEF CallInv, Types, VerifyInv
<1>5. (o = call[c].operation /\ p = o /\ key[role]) =>
          o = call[c].operation /\ p = o /\ key[role] = TRUE
  BY <1>3
<1> HIDE DEF role
<1>6. Told' /\ Timely'
  BY <1>2, <1>3, <1>4, <1>5, VerifiedTells, Zenon
<1> QED
  BY <1>6 DEF VerifyInv

\* A worker of the encrypted file ends.
LEMMA WorkerTells ==
    ASSUME VerifyInv, CallInv, NEW c \in Waiting, WorkerEnds(c)
    PROVE  VerifyInv'
<1>1. call[c].stage \in {"working", "joining"}
  BY WorkerOf DEF WorkerEnds
<1>2. call \in [Waiting -> Calls] /\ Timely /\ Types
  BY DEF CallInv, Types, VerifyInv
<1>3. call[c].operation \in Operations
  BY <1>2 DEF Calls
<1>4. CASE call[c].stage = "working"
  <2>1. Verified(c, Response(call[c].operation, ResultOf(call[c].operation.work, TRUE)), TRUE)
    BY <1>4 DEF WorkerEnds
  <2>2. Told' /\ Timely'
    BY <1>2, <1>3, <2>1, VerifiedTells, Zenon
  <2> QED
    BY <2>2 DEF VerifyInv
<1>5. CASE call[c].stage = "joining"
  <2>1. Ended(c, "cancelled", NoResponse, FALSE)
    BY <1>5 DEF WorkerEnds
  <2> QED
    BY <1>2, <2>1, CallGivesUp
<1> QED
  BY <1>1, <1>4, <1>5

\* The invariant, one step for each action.
LEMMA VerifyStep == CallInv /\ VerifyInv /\ [Next]_vars => VerifyInv'
<1> SUFFICES ASSUME CallInv, VerifyInv, [Next]_vars PROVE VerifyInv'
  OBVIOUS
<1>0. Types /\ call \in [Waiting -> Calls]
  BY DEF CallInv, Types
<1>1. CASE UNCHANGED custodyVars
  BY <1>1 DEF custodyVars, VerifyInv, Timely, Told, AnswersTheQuestion, SignedAsAsked,
              HonestAccepted, Accepted
<1>2. CASE Start \/ Open \/ OpenFails \/ Shutdown \/ Stopped \/ Tick \/ \E r \in Local : Rekey(r)
  <2>1. outcome' = NoOutcome /\ call' = call
    BY <1>2 DEF Start, Open, OpenFails, Shutdown, Stopped, Tick, Rekey
  <2> QED
    BY <2>1, CallsStay
<1>3. CASE Probe
  <2>1. RequestDeadline \in Nat /\ Startup \in Waiting
    BY CustodyAssumption DEF Waiting
  <2>2. Begin(Startup, ProbeWork(NextRole(providers), lives), now + RequestDeadline)
    BY <1>3 DEF Probe
  <2> QED
    BY <1>0, <2>1, <2>2, CallBegins
<1>4. ASSUME NEW c \in Callers, Execute(c) PROVE VerifyInv'
  <2>1. ProviderTimeout \in Nat /\ c \in Waiting
    BY CustodyAssumption DEF Waiting
  <2>2. PICK w \in Work : Begin(c, w, now + ProviderTimeout)
    BY <1>4 DEF Execute
  <2> QED
    BY <1>0, <2>1, <2>2, CallBegins
<1>5. ASSUME NEW c \in Waiting, Send(c) PROVE VerifyInv'
  <2>1. call' = [call EXCEPT ![c].stage = "sent"] /\ outcome' = NoOutcome
    BY <1>5 DEF Send
  <2> QED
    BY <1>0, <2>1, CallMovesOn
<1>6. ASSUME NEW c \in Waiting, RemoteFailure(c) \/ Timeout(c) PROVE VerifyInv'
  <2>1. Ended(c, "transport", NoResponse, FALSE)
    BY <1>6 DEF RemoteFailure, Timeout
  <2> QED
    BY <1>0, <2>1, CallGivesUp
<1>7. ASSUME NEW c \in Waiting, WorkerBegins(c) PROVE VerifyInv'
  <2>1. outcome' = NoOutcome /\ call' = call
    BY <1>7 DEF WorkerBegins
  <2> QED
    BY <2>1, CallsStay
<1>8. ASSUME NEW c \in Waiting, Cancelled(c) \/ DropCall(c) PROVE VerifyInv'
  <2>1. \/ call' = [call EXCEPT ![c].stage = "joining"] /\ outcome' = NoOutcome
        \/ Ended(c, "cancelled", NoResponse, FALSE)
    BY <1>8 DEF Cancelled, CancelCall, DropCall
  <2> QED
    BY <1>0, <2>1, CallMovesOn, CallGivesUp
<1> QED
  BY <1>1, <1>2, <1>3, <1>4, <1>5, <1>6, <1>7, <1>8, AnswerTells, WorkerTells
     DEF Next, Provision, vars

\* Verification accepts exactly what it should.  An accepted answer is the answer to
\* this question although signers may send any answer they ever computed, an accepted
\* signature is the expected identity's and on the event that was asked for, no honest
\* answer is refused, and the padding rules are the least permitted length
\* (verify_response, verify_signed_event, nip44_padding_length).
THEOREM VerificationExactCorrect == Spec => []VerificationExact
<1>1. Init => VerifyInv
  <2> SUFFICES ASSUME Init PROVE VerifyInv
    OBVIOUS
  <2>1. \A c \in Waiting : call[c] = NoCall
    BY DEF Init
  <2>2. NoCall.observed_at = 0 /\ NoCall.operation.deadline = 0
    BY DEF NoCall, NoOperation
  <2>3. outcome.kind = "none"
    BY DEF Init, NoOutcome
  <2> QED
    BY <2>1, <2>2, <2>3 DEF VerifyInv, Timely, Told, AnswersTheQuestion, SignedAsAsked,
                            HonestAccepted, Accepted
<1>2. PaddingAgrees
  <2> SUFFICES ASSUME NEW n \in PaddedLengths
               PROVE  /\ n <= Nip44PlaintextMax =>
                            nip44_padding_length(n) = Min({p \in Permitted : p >= n})
                      /\ is_valid_nip44_padding_length(n) <=> n \in Permitted
    BY DEF PaddingAgrees
  <2>0. Nip44PaddedMax \in Nat
    BY DEF Nip44PaddedMax
  <2>1. n \in 1..Nip44PaddedMax
    BY CustodyAssumption
  <2>2. n \in Nat /\ 1 <= n /\ n <= Nip44PaddedMax
    BY <2>0, <2>1
  <2> QED
    BY <2>2, PaddingExact
<1>3. VerifyInv => AnswersTheQuestion /\ SignedAsAsked /\ HonestAccepted
  BY DEF VerifyInv, Told
<1> QED
  BY <1>1, <1>2, <1>3, CallInitial, CallStep, VerifyStep, PTL DEF Spec, VerificationExact
=============================================================================
