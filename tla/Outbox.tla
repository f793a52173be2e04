------------------------------- MODULE Outbox -------------------------------
(***************************************************************************)
(* What the delivery store promises, without leases, attempts or time.     *)
(*                                                                         *)
(* A job is admitted below the outbox ceiling under a fixed policy.        *)
(* Relays confirm it one at a time.  The job is delivered in the very step *)
(* in which enough required relays have confirmed it, or it is given up;   *)
(* a job that was given up never reaches its policy any more, although     *)
(* single late confirmations of it may still come in.                      *)
(***************************************************************************)
EXTENDS Integers, FiniteSets

CONSTANTS Jobs, Relays, Policies, OutboxMaximum

VARIABLES
    state,      \* "absent", "open", "delivered", "failed" or "unknown"
    policy,     \* the policy a job was admitted under
    confirmed   \* the relays that acknowledged a job

GivenUp == {"failed", "unknown"}

OpenJobs == {j \in Jobs : state[j] = "open"}

Enough(p, relays) == Cardinality(relays \cap p.required) >= p.acks

Admit(j, p) ==
    /\ state[j] = "absent"
    /\ Cardinality(OpenJobs) < OutboxMaximum
    /\ state' = [state EXCEPT ![j] = "open"]
    /\ policy' = [policy EXCEPT ![j] = p]
    /\ UNCHANGED confirmed

Confirm(j, r) ==
    LET relays == confirmed[j] \cup {r} IN
    /\ state[j] # "absent"
    /\ r \in policy[j].targets \ confirmed[j]
    /\ state[j] \in GivenUp => ~Enough(policy[j], relays)
    /\ confirmed' = [confirmed EXCEPT ![j] = relays]
    /\ state' = [state EXCEPT
                    ![j] = IF @ = "open" /\ Enough(policy[j], relays)
                           THEN "delivered" ELSE @]
    /\ UNCHANGED policy

\* Several jobs may be given up at once: restart recovery works in batches.
GiveUp(abandoned, verdict) ==
    /\ \A j \in abandoned : state[j] = "open" /\ verdict[j] \in GivenUp
    /\ state' = [j \in Jobs |-> IF j \in abandoned THEN verdict[j] ELSE state[j]]
    /\ UNCHANGED <<policy, confirmed>>

OInit ==
    /\ state = [j \in Jobs |-> "absent"]
    /\ policy \in [Jobs -> Policies]
    /\ confirmed = [j \in Jobs |-> {}]

ONext ==
    \/ \E j \in Jobs, p \in Policies : Admit(j, p)
    \/ \E j \in Jobs, r \in Relays : Confirm(j, r)
    \/ \E abandoned \in SUBSET Jobs :
          \E verdict \in [abandoned -> GivenUp] : GiveUp(abandoned, verdict)

ovars == <<state, policy, confirmed>>

OSpec == OInit /\ [][ONext]_ovars
=============================================================================
