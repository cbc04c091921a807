----------------------------- MODULE MCPolling ------------------------------
(* Polling with ranges of two values each, and texts inside, at the edges  *)
(* of and outside them.                                                    *)
EXTENDS Polling

MCLow     == [poll_interval |-> 1, location_batch_size |-> 1, location_batch_delay |-> 0]
MCHigh    == [poll_interval |-> 2, location_batch_size |-> 2, location_batch_delay |-> 1]
MCDefault == [poll_interval |-> 2, location_batch_size |-> 2, location_batch_delay |-> 1]

MCEnvTexts ==
  [poll_interval        |-> {Absent, <<"int", -1>>, <<"int", 4>>},
   location_batch_size  |-> {Absent, <<"int", 0>>, <<"int", -1>>},
   location_batch_delay |-> {Absent}]

(* One field of a proper form is replaced by any text.                     *)
ProperForms == {f \in [Keys -> {"int"} \X (0..2)] : \A k \in Keys : MCLow[k] <= f[k][2] /\ f[k][2] <= MCHigh[k]}
Typed       == ({"int"} \X (-1..3)) \cup ({"float"} \X (0..1)) \cup {<<"nan", 0>>, <<"junk", 0>>}
MCForms     == {[f EXCEPT ![k] = t] : f \in ProperForms, k \in Keys, t \in Typed}
=============================================================================
