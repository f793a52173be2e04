---------------------------- MODULE MCNip46State ----------------------------
(***************************************************************************)
(* Small instances of the NIP-46 state for TLC.                            *)
(***************************************************************************)
EXTENDS Nip46State, TLC

Say(client, id, method, perms) ==
    [client |-> client, id |-> id, method |-> method, perms |-> perms]

\* One client connects and asks for a signature or logs out, with the same
\* request id for both.
SessionMessages ==
    UNION {{Say(c, 1, "connect", Permissions), Say(c, 2, "provider", Permissions),
            Say(c, 2, "logout", {})} : c \in Clients}

\* Nothing tells two event ids apart.
EventSymmetry == Permutations(EventIds)
=============================================================================
