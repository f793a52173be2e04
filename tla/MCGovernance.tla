----------------------------- MODULE MCGovernance ------------------------------
(* Small instances of Governance for TLC. *)
EXTENDS Governance

\* Three connections over one relay, a fourth over another; one challenge.
Relays == [q \in Connects |-> IF q = 4 THEN 2 ELSE 1]
ChallengeConnections == [q \in Challenges |-> 1]
Admissions == {{"connection_admission"}}
================================================================================
