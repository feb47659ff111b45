-------------------------- MODULE MCBridgeMailbox --------------------------
(* Instances of BridgeMailbox for TLC. *)
EXTENDS BridgeMailbox

\* Every post of a wake message succeeds.
ReliablePostSpec == Init /\ [][Next /\ ~PostFails]_vars

\* A Call never writes its request while a callback may still be executing an
\* earlier one, in any session ("Never overwrite a request that timed out on
\* the controller side but may still be executing on the game thread",
\* BridgeClient::Call).
TimedOutNotOverwritten ==
  cpc = "prepared" => \A d \in 1 .. depth : frame[d].pc = "completed"

============================================================================
