-------------------------- MODULE MCDeliveryDaemon --------------------------
(***************************************************************************)
(* Small instances of the daemon for TLC.                                  *)
(***************************************************************************)
EXTENDS DeliveryDaemon

SomePolicy(mode, quorum, required, attempts) ==
    [targets |-> required, required |-> required,
     acks |-> required_acknowledgements(mode, quorum, required),
     max |-> attempts, initial |-> 1, maximum |-> JitterMax, deadline |-> 1]

EveryRelay == {SomePolicy("all_required", 0, Relays, AttemptMax)}
=============================================================================
