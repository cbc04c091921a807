-------------------------- MODULE LocationRequests --------------------------
(***************************************************************************)
(* What polling the trackers promises for each location request: it is     *)
(* made once, it comes back, and it comes back with an answer to itself or *)
(* with nothing.                                                           *)
(***************************************************************************)
CONSTANTS
  Requests,  \* location requests; the answer to one carries its uuid
  NoAnswer

VARIABLES status, answer

vars == <<status, answer>>

Init == /\ status = [r \in Requests |-> "idle"]
        /\ answer = [r \in Requests |-> NoAnswer]

ReturnAnswer(r) == /\ status[r] = "open"
                   /\ status' = [status EXCEPT ![r] = "answered"]
                   /\ answer' = [answer EXCEPT ![r] = r]

ReturnNothing(r) == /\ status[r] = "open"
                    /\ status' = [status EXCEPT ![r] = "empty"]
                    /\ UNCHANGED answer

(* Requests of a batch are made together.                                  *)
MakeAll(R) == /\ \A r \in R : status[r] = "idle"
              /\ status' = [r \in Requests |-> IF r \in R THEN "open" ELSE status[r]]
              /\ UNCHANGED answer

Next == \/ \E R \in SUBSET Requests : MakeAll(R)
        \/ \E r \in Requests : ReturnAnswer(r) \/ ReturnNothing(r)

Safety == Init /\ [][Next]_vars

Spec == Safety /\ \A r \in Requests : WF_vars(ReturnAnswer(r) \/ ReturnNothing(r))
=============================================================================
