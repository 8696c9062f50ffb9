--------------------------- MODULE MCMessageTurn ---------------------------
EXTENDS MessageTurn, TLC

(* One tool for each way through the gates: read is called, write is       *)
(* confirmed by a rule, edit as well but approved of itself, send and      *)
(* shell are RED, shell approved of itself, wipe is denied, fetch belongs  *)
(* to Gmail, ghost is not registered.                                      *)
CONSTANTS read, write, edit, send, shell, wipe, fetch, ghost

MCTools == {read, write, edit, send, shell, wipe, fetch, ghost}
MCRule == [t \in MCTools |->
              CASE t \in {write, edit, fetch, ghost} -> "require_confirmation"
                [] t = wipe -> "deny"
                [] OTHER -> "allow"]
=============================================================================
