------------------------------- MODULE MCCustody -------------------------------
(* Small instances of Custody for TLC. *)
EXTENDS Custody

Kinds == [r \in Roles |-> IF r = "user" THEN "encrypted_file" ELSE "local_signer"]

Ask(id, caller, role, capability, content, length) ==
    [id |-> id, caller |-> caller, role |-> role, capability |-> capability,
     peer |-> 1, content |-> content, length |-> length]

\* Two responses of one length to one client, a user's ciphertext whose plaintext
\* fills its padding, and the discovery events of two administration calls.
Asked == {Ask(11, "dispatch", "transport", "nip44_encrypt", 1, 40),
          Ask(12, "dispatch", "transport", "nip44_encrypt", 2, 40),
          Ask(13, "dispatch", "user", "nip44_decrypt", 3, 32),
          Ask(14, "admin", "discovery", "sign_event", 5, 9),
          Ask(15, "admin2", "discovery", "sign_event", 6, 9)}

Lengths == (1..1100) \union (65400..65536)
================================================================================
