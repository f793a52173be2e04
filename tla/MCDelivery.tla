----------------------------- MODULE MCDelivery -----------------------------
(***************************************************************************)
(* Small instances of the delivery store for TLC.                          *)
(***************************************************************************)
EXTENDS Delivery, TLC

SomePolicy(mode, quorum, required, targets, attempts) ==
    [targets |-> targets, required |-> required,
     acks |-> required_acknowledgements(mode, quorum, required),
     max |-> attempts, initial |-> 1, maximum |-> JitterMax, deadline |-> 1]

OptionalRelay == CHOOSE r \in Relays : TRUE
RequiredRelays == Relays \ {OptionalRelay}

\* One attempt on two relays, both required: one acknowledgement is enough, or
\* both are needed.
AnyRelay == SomePolicy("at_least_one_required", 0, RequiredRelays, RequiredRelays, 1)
EveryRelay == SomePolicy("all_required", 0, RequiredRelays, RequiredRelays, 1)

\* A quorum of the required relays, next to a relay that is optional.
Quorum == SomePolicy("required_quorum", 1, RequiredRelays, Relays, 1)

\* One relay, and as many attempts as there may be.
Persistent == SomePolicy("all_required", 0, {OptionalRelay}, {OptionalRelay}, AttemptMax)

\* Attempt nonces are only compared.
NonceSymmetry == Permutations(Nonces)

AllPolicies == {AnyRelay, EveryRelay, Quorum, Persistent}
=============================================================================
