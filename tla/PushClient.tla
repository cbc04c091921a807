----------------------------- MODULE PushClient -----------------------------
(***************************************************************************)
(* What the rest of the middleware relies on a push client for, seen from  *)
(* the run_state it publishes: it is created, it tries to get a session    *)
(* with the push server, it serves, it may lose the session and try again, *)
(* and when it gives up it says so for good.  FcmReceiver decides from     *)
(* this alone whether it has to build a new client.                        *)
(***************************************************************************)
VARIABLE phase

Phases == {"created", "connecting", "serving", "terminated"}

Init == phase = "created"

Start     == phase = "created" /\ phase' = "connecting"
Serve     == phase = "connecting" /\ phase' = "serving"
Interrupt == phase = "serving" /\ phase' = "connecting"
Terminate == phase \in {"connecting", "serving"} /\ phase' = "terminated"

Next == Start \/ Serve \/ Interrupt \/ Terminate

(* A client that is connecting does not stay so: it serves or gives up.    *)
Settle == phase = "connecting" /\ (Serve \/ Terminate)

Spec == Init /\ [][Next]_phase /\ WF_phase(Settle)

TypeOK == phase \in Phases
=============================================================================
