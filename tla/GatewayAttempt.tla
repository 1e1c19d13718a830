---------------------------- MODULE GatewayAttempt ----------------------------
(***************************************************************************)
(* What up, status and systemd may rely on of one attempt of the gateway,  *)
(* and all that they see of it: the state in status.json and the exit      *)
(* status.  A snapshot may be lost; the promise is that readiness, once    *)
(* withdrawn, does not come back, and that the last word fits the exit.    *)
(***************************************************************************)
VARIABLES phase, status, exit

attempt == <<phase, status, exit>>

Init == phase = "new" /\ status = "none" /\ exit = "running"

\* Reconciliation of what an earlier attempt left
Reconcile == phase = "new" /\ status' = "stopping" /\ UNCHANGED <<phase, exit>>
Begin == phase = "new" /\ phase' = "serving" /\ status' = "starting" /\ UNCHANGED exit
Refuse == phase = "new" /\ phase' = "withdrawn" /\ UNCHANGED <<status, exit>>

Ready == phase = "serving" /\ status' = "ready" /\ UNCHANGED <<phase, exit>>
Withdraw == phase = "serving" /\ phase' = "withdrawn" /\ UNCHANGED <<status, exit>>
Announce == phase = "withdrawn" /\ status' = "stopping" /\ UNCHANGED <<phase, exit>>

\* The last snapshot, unless it is lost, and the exit status
End ==
  /\ phase = "withdrawn" /\ phase' = "over"
  /\ \/ exit' = "75" /\ status' \in {status, "retrying"}
     \/ exit' = "0" /\ status' \in {status, "stopped"}
     \/ exit' \in {"1", "2"} /\ status' \in {status, "failed"}

Next == Reconcile \/ Begin \/ Refuse \/ Ready \/ Withdraw \/ Announce \/ End
Spec == Init /\ [][Next]_attempt
===============================================================================
