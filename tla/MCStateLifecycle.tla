--------------------------- MODULE MCStateLifecycle ---------------------------
(***************************************************************************)
(* Instances of StateLifecycle: "wide" allows both permissions, "narrow"   *)
(* one of them and a further relay, "quiet" one of them and no discovery   *)
(* document, "moved" drops a relay, changes the discovery document and the *)
(* identities, and trusts the clients.                                     *)
(***************************************************************************)
EXTENDS ConfigurationDocuments

CONSTANTS k1, j1

MCConfigurations == {"wide", "narrow", "quiet", "moved"}
MCPermissions == {"sign", "decrypt"}
MCCeiling == [c \in MCConfigurations |-> IF c \in {"narrow", "quiet"} THEN {"sign"} ELSE MCPermissions]
MCIdentity == [c \in MCConfigurations |-> IF c = "moved" THEN "key2" ELSE "key1"]
MCRelaysOf == [c \in MCConfigurations |->
    CASE c = "moved" -> "r1" :> "a"
      [] c = "narrow" -> "r1" :> "a" @@ "r2" :> "b" @@ "r3" :> "a"
      [] c \in {"wide", "quiet"} -> "r1" :> "a" @@ "r2" :> "b"]
MCProjection == [c \in MCConfigurations |->
    CASE c = "moved" -> "q" [] c = "narrow" -> "p" [] OTHER -> "disabled"]

\* Once no restore is left the backup is never read again, and states that differ
\* in nothing else are the same.
RelevantState == <<database, host, budget, IF budget.restores = 0 THEN Missing ELSE snapshot>>

=============================================================================
