--------------------------- MODULE MCServiceRuntime ---------------------------
(***************************************************************************)
(* Instances of ServiceRuntime: two public relays in one optional group,   *)
(* one of them with two events, and one quiet local relay that is required.*)
(***************************************************************************)
EXTENDS ServiceRuntime

CONSTANTS wss1, wss2, ws1

MCRelayKind == wss1 :> "public" @@ wss2 :> "public" @@ ws1 :> "local"
MCMaxEvents == wss1 :> 2 @@ wss2 :> 0 @@ ws1 :> 0

=============================================================================
