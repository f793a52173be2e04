-------------------------------- MODULE Custody --------------------------------
(***************************************************************************)
(* Provider custody: the executor over the configured signer providers     *)
(* (src/src/provider_executor.rs), the local-signer client                 *)
(* (src/src/provider_local_signer.rs) and the verification of what a       *)
(* provider answers (src/src/provider_verification.rs).  The daemon opens  *)
(* every provider, probes it, and then serves two kinds of callers at the  *)
(* same time: the request worker and the administration handlers.          *)
(*                                                                         *)
(* A local signer is another process.  It outlives the daemon, may answer  *)
(* on a connection with the answer to any request it ever received, may    *)
(* put the payload of one answer into another, may change its key, may     *)
(* fail and may stay silent.  An encrypted file is decrypted once, at      *)
(* start; each operation on it is a blocking task of the daemon.           *)
(*                                                                         *)
(* An operation's identifier and correlation are derived from one request, *)
(* so one value stands for both; payloads are told apart by name and       *)
(* length.  Encodings, signatures and error wording are left out.          *)
(***************************************************************************)
EXTENDS Envelope, FiniteSets, FiniteSetsExt

CONSTANTS
    Roles,              \* the enabled roles
    KindOf,             \* provider kind of each
    Work,               \* what callers ask for: [id, caller, role, capability, peer, content, length]
    Concurrency,        \* permits of a local-signer client
    RequestDeadline,    \* request_deadline of a local-signer client
    ProviderTimeout,    \* subscription_deadline_ms, from which deadlines are derived
    PaddedLengths,      \* lengths for which the padding rules are compared
    MaxTime, MaxCalls, MaxRekeys, MaxLives

\* MYC_PROVIDER_NIP44_PLAINTEXT_MAX_BYTES, and the longest padded plaintext
Nip44PlaintextMax == 65408
Nip44PaddedMax == 65536

Capabilities == {"describe", "public_identity", "sign_event",
                 "nip04_encrypt", "nip04_decrypt", "nip44_encrypt", "nip44_decrypt"}

\* MycProviderCapabilitySet::for_role
for_role(r) == IF r = "discovery" THEN {"describe", "public_identity", "sign_event"}
               ELSE Capabilities

Encrypted == {r \in Roles : KindOf[r] = "encrypted_file"}
Local == Roles \ Encrypted
Callers == {w.caller : w \in Work}
Startup == "startup"

\* MycProviderContract::from_normalized, MycLocalSignerLimits::new and
\* MycProviderOperation::new accept these.  Envelope has one file.  The identifier
\* of an operation is a digest of its request and purpose, and probes have their own
\* domain (derived_operation, admin_identity, probe_identifier).  A plaintext that
\* is decrypted is within the limit that holds for one to be encrypted.
ASSUME CustodyAssumption ==
    /\ {"transport", "user"} \subseteq Roles
    /\ Roles \subseteq {"transport", "user", "discovery"}
    /\ KindOf \in [Roles -> {"encrypted_file", "local_signer"}]
    /\ Cardinality(Encrypted) <= 1
    /\ Concurrency \in Nat \ {0} /\ RequestDeadline \in Nat \ {0}
    /\ ProviderTimeout \in Nat \ {0}
    /\ MaxTime \in Nat \ {0} /\ MaxLives \in Nat /\ MaxFiles \in Nat
    /\ IsFiniteSet(Callers)
    /\ \A w \in Work : w.role \in Roles /\ w.capability \in for_role(w.role)
    /\ \A v, w \in Work :
          v.id = w.id /\ v.role = w.role /\ v.capability = w.capability => v = w
    /\ \A w \in Work : w.id \notin 0..MaxLives
    /\ \A w \in Work :
          /\ w.length \in Nat
          /\ w.capability = "nip44_decrypt" => w.length \in 1..Nip44PlaintextMax
    /\ PaddedLengths \subseteq 1..Nip44PaddedMax
    /\ Startup \notin Callers

VARIABLES
    now,          \* the wall clock, in the unit of the deadlines
    phase,        \* down, opening, probing or up
    providers,    \* roles opened (opening), then roles probed (probing)
    stopping,     \* the cancellation of the daemon's tasks
    call,         \* what each caller is waiting for
    worker,       \* the blocking task of each caller's call
    permits,      \* free permits of each local-signer client
    received,     \* requests each local signer has received
    key,          \* whether each local signer holds the expected identity
    outcome,      \* how the call that ended with the last step ended, if one did
    calls, rekeys, lives

custodyVars == <<now, phase, providers, stopping, call, worker, permits, received, key,
                 outcome, calls, rekeys, lives>>
vars == <<envelopeVars, custodyVars>>

Waiting == Callers \union {Startup}
NoWork == [id |-> 0, caller |-> Startup, role |-> "transport", capability |-> "describe",
           peer |-> 0, content |-> 0, length |-> 0]
NoOperation == [work |-> NoWork, deadline |-> 0]
NoCall == [stage |-> "none", operation |-> NoOperation, observed_at |-> 0, started |-> 0]
NoResult == [capability |-> "describe", peer |-> 0, content |-> 0, expected |-> TRUE, length |-> 0]
NoResponse == [operation |-> NoOperation, result |-> NoResult]
NoOutcome == [kind |-> "none", operation |-> NoOperation, response |-> NoResponse,
              honest |-> FALSE, at |-> 0]

\* The signers outlive the daemon: an earlier life, ended within the same tick,
\* may have sent each request already.
Earlier(r) == {[work |-> w, deadline |-> 1 + ProviderTimeout] : w \in {v \in Work : v.role = r}}

Init ==
    /\ EnvelopeInit
    /\ now = 1
    /\ phase = "down" /\ providers = {} /\ stopping = FALSE
    /\ call = [c \in Waiting |-> NoCall]
    /\ worker = [c \in Waiting |-> "none"]
    /\ permits = [r \in Local |-> Concurrency]
    /\ received = [r \in Local |-> Earlier(r)]
    /\ key = [r \in Local |-> TRUE]
    /\ outcome = NoOutcome
    /\ calls = 0 /\ rekeys = 0 /\ lives = 0

(***************************************************************************)
(* Lengths of ciphertexts.                                                 *)
(***************************************************************************)
nip04_ciphertext_length(length) == ((length \div 16) + 1) * 16

PowersOfTwo == {1, 2, 4, 8, 16, 32, 64, 128, 256, 512, 1024, 2048, 4096, 8192, 16384,
                32768, 65536}

\* checked_next_power_of_two, for lengths up to the longest padded plaintext
NextPowerOfTwo(n) == Min({power \in PowersOfTwo : power >= n})

nip44_padding_length(length) ==
    LET power == NextPowerOfTwo(length)
        chunk == IF power <= 256 THEN 32 ELSE power \div 8
    IN  IF length <= 32 THEN 32 ELSE chunk * ((length - 1) \div chunk + 1)

is_valid_nip44_padding_length(padded) ==
    /\ padded \in 32..Nip44PaddedMax
    /\ IF padded <= 256 THEN padded % 32 = 0
       ELSE padded % (NextPowerOfTwo(padded) \div 8) = 0

Nip44Fixed == 67

(***************************************************************************)
(* What a provider computes: execute_encrypted, and a local signer that    *)
(* does its work.  `expected' says whether the expected identity did it.   *)
(***************************************************************************)
ResultOf(work, expected) ==
    [capability |-> work.capability, peer |-> work.peer, content |-> work.content,
     expected |-> expected,
     length |-> CASE work.capability = "nip04_encrypt" -> nip04_ciphertext_length(work.length)
                  [] work.capability = "nip44_encrypt" -> Nip44Fixed + nip44_padding_length(work.length)
                  [] OTHER -> work.length]

\* The wire response: the fields of the request, echoed, and the result.
Response(operation, result) == [operation |-> operation, result |-> result]

\* Faulty variant: the operation's identity is not compared.
ResponseFits(response, operation) ==
    /\ response.operation.work.role = operation.work.role
    /\ response.operation.work.capability = operation.work.capability
    /\ response.operation.deadline = operation.deadline

(***************************************************************************)
(* Verification.                                                           *)
(***************************************************************************)
ResponseBinds(response, operation) ==
    /\ response.operation.work.id = operation.work.id
    /\ response.operation.work.role = operation.work.role
    /\ response.operation.work.capability = operation.work.capability
    /\ response.operation.deadline = operation.deadline

verify_identity(result) == result.expected

verify_signed_event(work, result) ==
    /\ verify_identity(result)
    /\ result.content = work.content

verify_encrypted_length(work, result) ==
    result.length = IF work.capability = "nip04_encrypt"
                    THEN nip04_ciphertext_length(work.length)
                    ELSE Nip44Fixed + nip44_padding_length(work.length)

\* The plaintext is shorter than its ciphertext; a NIP-44 plaintext is not empty.
verify_decrypted_length(work, result) ==
    IF work.capability = "nip04_decrypt"
    THEN result.length < nip04_ciphertext_length(work.length)
    ELSE /\ result.length \in 1..nip44_padding_length(work.length)
         /\ result.length <= Nip44PlaintextMax

verify_result(work, result) ==
    /\ result.capability = work.capability
    /\ CASE work.capability \in {"describe", "public_identity"} -> verify_identity(result)
         [] work.capability = "sign_event" -> verify_signed_event(work, result)
         [] work.capability \in {"nip04_encrypt", "nip44_encrypt"} ->
              result.peer = work.peer /\ verify_encrypted_length(work, result)
         [] OTHER -> result.peer = work.peer /\ verify_decrypted_length(work, result)

\* observed_at is the time handed in with the call.
verify(operation, observed_at, response) ==
    /\ observed_at <= operation.deadline
    /\ ResponseBinds(response, operation)
    /\ verify_result(operation.work, response.result)

(***************************************************************************)
(* The daemon's start: every provider is opened, then probed with a        *)
(* describe operation, one after the other; one failure ends the start.    *)
(***************************************************************************)
Idle(c) == call[c].stage = "none"
Order == <<"transport", "user", "discovery">>
NextRole(done) == Order[Min({i \in 1..3 : Order[i] \in Roles \ done})]

Start ==
    /\ phase = "down" /\ lives < MaxLives
    /\ init.stage = "idle"
    /\ lives' = lives + 1
    /\ phase' = "opening" /\ providers' = {} /\ stopping' = FALSE
    /\ permits' = [r \in Local |-> Concurrency]
    /\ outcome' = NoOutcome
    /\ UNCHANGED <<envelopeVars, now, call, worker, received, key, calls, rekeys>>

Open ==
    /\ phase = "opening" /\ providers # Roles
    /\ LET r == NextRole(providers)
       IN  /\ r \in Encrypted => Opens
           /\ providers' = IF providers \union {r} = Roles THEN {} ELSE providers \union {r}
    /\ phase' = IF providers' = {} THEN "probing" ELSE "opening"
    /\ outcome' = NoOutcome
    /\ UNCHANGED <<envelopeVars, now, stopping, call, worker, permits, received, key, calls,
                   rekeys, lives>>

OpenFails ==
    /\ phase = "opening"
    /\ NextRole(providers) \in Encrypted /\ ~Opens
    /\ phase' = "down" /\ providers' = {}
    /\ outcome' = NoOutcome
    /\ UNCHANGED <<envelopeVars, now, stopping, call, worker, permits, received, key, calls,
                   rekeys, lives>>

(***************************************************************************)
(* execute: the call of one caller.  A deadline and the observation time   *)
(* are both taken before the call is made.                                 *)
(***************************************************************************)
Begin(c, work, deadline) ==
    /\ Idle(c)
    /\ now + RequestDeadline <= MaxTime
    /\ call' = [call EXCEPT ![c] =
          [stage |-> IF work.role \in Encrypted THEN "working" ELSE "acquiring",
           operation |-> [work |-> work, deadline |-> deadline],
           observed_at |-> now, started |-> now]]
    /\ worker' = [worker EXCEPT ![c] = IF work.role \in Encrypted THEN "queued" ELSE @]
    /\ outcome' = NoOutcome

ProbeWork(r, life) == [NoWork EXCEPT !.role = r, !.id = life]

\* probe_all
Probe ==
    /\ phase = "probing" /\ providers # Roles
    /\ LET r == NextRole(providers)
       IN  Begin(Startup, ProbeWork(r, lives), now + RequestDeadline)
    /\ UNCHANGED <<envelopeVars, now, phase, providers, stopping, permits, received, key,
                   calls, rekeys, lives>>

\* A request worker that sees the cancellation makes no call; the administration
\* handlers hold a cancellation that never comes.
Cancellable(c) == c = "dispatch"

Execute(c) ==
    /\ phase = "up" /\ calls < MaxCalls
    /\ ~(stopping /\ Cancellable(c))
    /\ calls' = calls + 1
    /\ \E w \in Work : w.caller = c /\ Begin(c, w, now + ProviderTimeout)
    /\ UNCHANGED <<envelopeVars, now, phase, providers, stopping, permits, received, key,
                   rekeys, lives>>

\* Faulty variant: the permit is kept when a call ends without an answer.
EndedHolding(c, kind, response, honest) ==
    LET role == call[c].operation.work.role
    IN  /\ call' = [call EXCEPT ![c] = NoCall]
        /\ permits' = IF kind = "accepted" /\ call[c].stage = "sent"
                      THEN [permits EXCEPT ![role] = @ + 1] ELSE permits
        /\ outcome' = [kind |-> kind, operation |-> call[c].operation, response |-> response,
                        honest |-> honest, at |-> now]
        /\ IF c # Startup
           THEN UNCHANGED <<phase, providers>>
           ELSE /\ providers' = IF kind = "accepted" THEN providers \union {role} ELSE {}
                /\ phase' = CASE kind # "accepted" -> "down"
                              [] providers' = Roles -> "up"
                              [] OTHER -> "probing"

\* A call ends: its permit is free again, and a probe moves the start on or ends it.
Ended(c, kind, response, honest) ==
    LET held == call[c].stage = "sent"
        role == call[c].operation.work.role
    IN  /\ call' = [call EXCEPT ![c] = NoCall]
        /\ permits' = IF held THEN [permits EXCEPT ![role] = @ + 1] ELSE permits
        /\ outcome' = [kind |-> kind, operation |-> call[c].operation, response |-> response,
                        honest |-> honest, at |-> now]
        /\ IF c # Startup
           THEN UNCHANGED <<phase, providers>>
           ELSE /\ providers' = IF kind = "accepted" THEN providers \union {role} ELSE {}
                /\ phase' = CASE kind # "accepted" -> "down"
                              [] providers' = Roles -> "up"
                              [] OTHER -> "probing"

Verified(c, response, honest) ==
    IF verify(call[c].operation, call[c].observed_at, response)
    THEN Ended(c, "accepted", response, honest)
    ELSE Ended(c, "verification", NoResponse, honest)

PermitFree(role) == permits[role] > 0

\* The permit is taken and the request sent.
Send(c) ==
    LET role == call[c].operation.work.role
    IN  /\ call[c].stage = "acquiring"
        /\ PermitFree(role)
        /\ permits' = [permits EXCEPT ![role] = @ - 1]
        /\ call' = [call EXCEPT ![c].stage = "sent"]
        /\ received' = [received EXCEPT ![role] = @ \union {call[c].operation}]
        /\ outcome' = NoOutcome
        /\ UNCHANGED <<envelopeVars, now, phase, providers, stopping, worker, key, calls,
                       rekeys, lives>>

\* The signer answers on the connection of c: the answer to some request it
\* received, with the payload it computes for that one or for another.
Answer(c) ==
    LET role == call[c].operation.work.role
    IN  /\ call[c].stage = "sent"
        /\ \E o, p \in received[role] :
              Verified(c, Response(o, ResultOf(p.work, key[role])),
                       o = call[c].operation /\ p = o /\ key[role])
        /\ UNCHANGED <<envelopeVars, now, stopping, worker, received, key, calls, rekeys, lives>>

\* The connection fails or the signer refuses.
RemoteFailure(c) ==
    /\ call[c].stage = "sent"
    /\ Ended(c, "transport", NoResponse, FALSE)
    /\ UNCHANGED <<envelopeVars, now, stopping, worker, received, key, calls, rekeys, lives>>

\* Faulty variant: the client waits for as long as the signer takes.
NeverTimedOut(c) == FALSE

\* The deadline of the client covers the wait for a permit and for the answer.
RequestTimedOut(c) == now >= call[c].started + RequestDeadline

Timeout(c) ==
    /\ call[c].stage \in {"acquiring", "sent"}
    /\ RequestTimedOut(c)
    /\ Ended(c, "transport", NoResponse, FALSE)
    /\ UNCHANGED <<envelopeVars, now, stopping, worker, received, key, calls, rekeys, lives>>

\* The blocking task of an encrypted-file operation is run by a pool thread.
WorkerBegins(c) ==
    /\ worker[c] = "queued"
    /\ worker' = [worker EXCEPT ![c] = "running"]
    /\ outcome' = NoOutcome
    /\ UNCHANGED <<envelopeVars, now, phase, providers, stopping, call, permits, received,
                   key, calls, rekeys, lives>>

\* It ends, and the call that joins it returns: with its result, or with the
\* cancellation it was joined under.
WorkerEnds(c) ==
    /\ worker[c] = "running"
    /\ worker' = [worker EXCEPT ![c] = "none"]
    /\ CASE call[c].stage = "working" ->
              Verified(c, Response(call[c].operation, ResultOf(call[c].operation.work, TRUE)), TRUE)
         [] call[c].stage = "joining" -> Ended(c, "cancelled", NoResponse, FALSE)
         [] OTHER -> outcome' = NoOutcome /\ UNCHANGED <<call, permits, phase, providers>>
    /\ UNCHANGED <<envelopeVars, now, stopping, received, key, calls, rekeys, lives>>

\* The cancellation arm of execute's select: an encrypted-file call joins its
\* worker first, a local-signer call is dropped at once.
CancelCall(c) ==
    \/ /\ call[c].stage = "working"
       /\ call' = [call EXCEPT ![c].stage = "joining"]
       /\ outcome' = NoOutcome
       /\ UNCHANGED <<phase, providers, permits>>
    \/ /\ call[c].stage \in {"acquiring", "sent"}
       /\ Ended(c, "cancelled", NoResponse, FALSE)

Cancelled(c) ==
    /\ stopping /\ Cancellable(c)
    /\ CancelCall(c)
    /\ UNCHANGED <<envelopeVars, now, stopping, worker, received, key, calls, rekeys, lives>>

\* The future of an administration call is dropped when its connection goes.
\* Drop aborts a task that has not begun and waits for one that has.
DropCall(c) ==
    /\ c \in Callers /\ ~Cancellable(c)
    /\ \/ /\ call[c].stage = "working" /\ worker[c] = "running"
          /\ call' = [call EXCEPT ![c].stage = "joining"]
          /\ outcome' = NoOutcome
          /\ UNCHANGED <<worker, phase, providers, permits>>
       \/ /\ call[c].stage \in {"working", "acquiring", "sent"} /\ worker[c] # "running"
          /\ worker' = [worker EXCEPT ![c] = "none"]
          /\ Ended(c, "cancelled", NoResponse, FALSE)
    /\ UNCHANGED <<envelopeVars, now, stopping, received, key, calls, rekeys, lives>>

(***************************************************************************)
(* The end of a life, and the world.                                       *)
(***************************************************************************)
Shutdown ==
    /\ phase = "up" /\ ~stopping
    /\ stopping' = TRUE
    /\ outcome' = NoOutcome
    /\ UNCHANGED <<envelopeVars, now, phase, providers, call, worker, permits, received,
                   key, calls, rekeys, lives>>

\* The tasks have been joined.
Stopped ==
    /\ phase = "up" /\ stopping
    /\ \A c \in Waiting : Idle(c)
    /\ phase' = "down" /\ providers' = {}
    /\ outcome' = NoOutcome
    /\ UNCHANGED <<envelopeVars, now, stopping, call, worker, permits, received, key, calls,
                   rekeys, lives>>

\* A local signer's key is replaced.
Rekey(r) ==
    /\ key[r] /\ rekeys < MaxRekeys
    /\ rekeys' = rekeys + 1
    /\ key' = [key EXCEPT ![r] = FALSE]
    /\ outcome' = NoOutcome
    /\ UNCHANGED <<envelopeVars, now, phase, providers, stopping, call, worker, permits,
                   received, calls, lives>>

Tick ==
    /\ now < MaxTime
    /\ \E c \in Waiting : ~Idle(c)
    /\ now' = now + 1
    /\ outcome' = NoOutcome
    /\ UNCHANGED <<envelopeVars, phase, providers, stopping, call, worker, permits,
                   received, key, calls, rekeys, lives>>

\* `identity init' takes the writer authority, which a running daemon holds.
Provision ==
    /\ phase = "down" /\ lives = 0 /\ Encrypted # {}
    /\ EnvelopeNext
    /\ UNCHANGED custodyVars

Next ==
    \/ Provision \/ Start \/ Open \/ OpenFails \/ Probe
    \/ \E c \in Callers : Execute(c)
    \/ \E c \in Waiting :
          \/ Send(c) \/ Answer(c) \/ RemoteFailure(c) \/ Timeout(c)
          \/ WorkerBegins(c) \/ WorkerEnds(c) \/ Cancelled(c) \/ DropCall(c)
    \/ Shutdown \/ Stopped \/ Tick
    \/ \E r \in Local : Rekey(r)

Spec == Init /\ [][Next]_vars

\* Time passes, the timer of a call fires, and a pool thread runs its task to the
\* end.  That a signer answers, or that a permit is ever given, is not assumed.
Fairness ==
    /\ WF_vars(Tick)
    /\ \A c \in Waiting : /\ WF_vars(Timeout(c))
                          /\ WF_vars(WorkerBegins(c))
                          /\ WF_vars(WorkerEnds(c))

FairSpec == Spec /\ Fairness

(***************************************************************************)
(* Properties.                                                             *)
(***************************************************************************)
Works == Work \union {NoWork} \union {ProbeWork(r, n) :
                                       r \in Roles, n \in 1..MaxLives}
Operations == [work : Works, deadline : Nat]

\* The state has its types.
TypeOK ==
    /\ now \in 1..MaxTime
    /\ phase \in {"down", "opening", "probing", "up"}
    /\ providers \subseteq Roles /\ stopping \in BOOLEAN
    /\ \A c \in Waiting :
          /\ call[c].stage \in {"none", "acquiring", "sent", "working", "joining"}
          /\ call[c].operation \in Operations
          /\ worker[c] \in {"none", "queued", "running"}
    /\ permits \in [Local -> 0..Concurrency]
    /\ outcome.kind \in {"none", "accepted", "verification", "transport", "cancelled"}
    /\ \A r \in Local : received[r] \subseteq Operations
    /\ key \in [Local -> BOOLEAN]

Accepted == outcome.kind = "accepted"

\* A response that is accepted answers the question that was asked, although the
\* signer may answer on a connection with what it computed for an earlier call,
\* of this life or of one before it, that timed out or was cancelled.
AnswersTheQuestion ==
    Accepted => outcome.response.operation.work = outcome.operation.work

\* Whatever a signer does, an accepted signature is on the event that was to be
\* signed, and an accepted signature or description is the expected identity's.
SignedAsAsked ==
    Accepted =>
        LET work == outcome.operation.work
            result == outcome.response.result
        IN  /\ work.capability \in {"sign_event", "describe"} => result.expected
            /\ work.capability = "sign_event" => result.content = work.content

\* Verification refuses no answer of a provider that did what it was asked.
HonestAccepted == outcome.kind = "verification" => ~outcome.honest

\* Every permit of a client is free or held by a call that is waiting for the
\* signer: no way for a call to end loses one.
PermitsReturned ==
    \A r \in Local :
        permits[r] + Cardinality({c \in Waiting : /\ call[c].stage = "sent"
                                                  /\ call[c].operation.work.role = r})
            = Concurrency

\* No protected operation is detached: a blocking task runs only while the call
\* that started it has not returned, so none runs once the daemon has stopped.
NoDetachedWork ==
    \A c \in Waiting : worker[c] # "none" => call[c].stage \in {"working", "joining"}

\* The padded lengths NIP-44 permits: multiples of 32 up to 256, and from there on
\* four for each doubling.
Permitted == {32 * k : k \in 1..8} \union
             {chunk * k : chunk \in {64, 128, 256, 512, 1024, 2048, 4096, 8192}, k \in 5..8}

\* The padded length is the least permitted one that holds the plaintext, and the
\* lengths accepted for a ciphertext are exactly the permitted ones.  (It depends
\* on no variable; one state is enough to evaluate it in.)
PaddingAgrees ==
    calls + files = 0 /\ phase = "down" =>
        \A length \in PaddedLengths :
           /\ length <= Nip44PlaintextMax =>
                 nip44_padding_length(length) = Min({p \in Permitted : p >= length})
           /\ is_valid_nip44_padding_length(length) <=> length \in Permitted

\* Verification accepts exactly what it should: the answer to this question, by
\* the expected identity, and every honest one at every length
\* (verify_response, verify_signed_event, nip44_padding_length).
VerificationExact == AnswersTheQuestion /\ SignedAsAsked /\ HonestAccepted /\ PaddingAgrees

\* However calls end, they leave nothing behind: no permit and no worker
\* (MycLocalSignerClient::execute, MycProviderExecutor::execute).
NothingLeftBehind == TypeOK /\ PermitsReturned /\ NoDetachedWork

\* A caller is not kept for ever: not by a signer that never answers, not by the
\* wait for a permit, not by a cancelled operation that has to be joined.
EveryCallReturns == \A c \in Waiting : ~Idle(c) ~> Idle(c)

\* An accepted response came before the deadline of its operation.  It does not
\* hold: the observation time is read before the call (README, known deviations).
LateRefused == Accepted => outcome.at <= outcome.operation.deadline
================================================================================
