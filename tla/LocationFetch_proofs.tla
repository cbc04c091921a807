------------------------ MODULE LocationFetch_proofs ------------------------
(***************************************************************************)
(* Proofs about LocationFetch, for any set of devices, batch size and      *)
(* number of cycles: its safety invariants, the limit on open requests,    *)
(* and that it implements the safety part of LocationRequests.             *)
(***************************************************************************)
EXTENDS LocationFetch, FiniteSetTheorems, TLAPS

Active == {"registered", "waiting", "raising", "returning"}

Returned == {"done", "exited"}

(* The local `result' of a request only ever holds its own answer.         *)
OwnResult == \A r \in Requests : result[r] # NoAnswer => result[r] = r

(* A batch belongs to a cycle that has begun; none of its devices waits    *)
(* for a later one.                                                        *)
BatchShape ==
  /\ batch \cup todo # {} => cycle \in 1..MaxCycles
  /\ batch \cap todo = {}

(* From registering to unregistering the callback is in the list.          *)
Registered == \A d \in batch : at[d] \in Active => Req(d) \in callbacks

(* No request of a device still to come, or of a cycle to come, was made.  *)
Fresh == \A d \in Devices, c \in 1..MaxCycles :
           c > cycle \/ (c = cycle /\ d \in todo) => status[<<d, c>>] = "idle"

(* The open requests are those of the batch whose thread has not returned. *)
OpenInBatch ==
  \A d \in Devices, c \in 1..MaxCycles :
    status[<<d, c>>] = "open" <=> c = cycle /\ d \in batch /\ at[d] \notin Returned

(* A batch is no larger than BatchSize.                                    *)
BatchBounded == IsFiniteSet(batch) /\ Cardinality(batch) <= BatchSize

IInv == /\ TypeOK /\ OwnResult /\ OwnAnswerOnly /\ BatchShape /\ Registered
        /\ NoDeadCallbacks /\ Fresh /\ OpenInBatch /\ BatchBounded

-----------------------------------------------------------------------------
LEMMA ReqType == ASSUME TypeOK, BatchShape, NEW d \in batch
                 PROVE  /\ d \in Devices /\ cycle \in 1..MaxCycles
                        /\ Req(d) \in Requests /\ at[d] # "idle"
  BY DEF TypeOK, BatchShape, Req, Requests

LEMMA InitIInv == Init => IInv
<1> SUFFICES ASSUME Init PROVE IInv
  OBVIOUS
<1> USE LocationFetchAssumption DEF Init
<1>1. TypeOK
  BY DEF TypeOK, Requests, Locations
<1>2. OwnResult /\ OwnAnswerOnly /\ BatchShape /\ Registered /\ NoDeadCallbacks
  BY DEF OwnResult, OwnAnswerOnly, BatchShape, Registered, NoDeadCallbacks
<1>3. Fresh /\ OpenInBatch
  BY DEF Fresh, OpenInBatch, Requests
<1>4. BatchBounded
  BY FS_EmptySet DEF BatchBounded
<1> QED
  BY <1>1, <1>2, <1>3, <1>4 DEF IInv

LEMMA StartCycleIInv == ASSUME IInv, NEW L \in SUBSET Devices, StartCycle(L)
                        PROVE  IInv'
<1> USE DEF IInv, StartCycle, notify
<1>1. TypeOK'
  BY LocationFetchAssumption DEF TypeOK
<1>2. OwnResult' /\ OwnAnswerOnly'
  BY DEF OwnResult, OwnAnswerOnly
<1>3. BatchShape'
  BY LocationFetchAssumption DEF BatchShape, TypeOK
<1>4. Registered' /\ NoDeadCallbacks'
  BY DEF Registered, NoDeadCallbacks, Req
<1>5. Fresh'
  BY LocationFetchAssumption DEF Fresh, TypeOK
<1>6. OpenInBatch'
  BY DEF OpenInBatch
<1>7. BatchBounded'
  BY DEF BatchBounded
<1> QED
  BY <1>1, <1>2, <1>3, <1>4, <1>5, <1>6, <1>7

LEMMA StartBatchIInv == ASSUME IInv, NEW B \in SUBSET Devices, StartBatch(B)
                        PROVE  IInv'
<1> USE DEF IInv, StartBatch, IsNextBatch, notify
<1>1. TypeOK'
  BY DEF TypeOK, Locations
<1>2. OwnResult' /\ OwnAnswerOnly'
  BY DEF OwnResult, OwnAnswerOnly
<1>3. BatchShape'
  BY DEF BatchShape, TypeOK
<1>4. Registered' /\ NoDeadCallbacks'
  BY DEF Registered, NoDeadCallbacks, Req, TypeOK, Active
<1>5. Fresh'
  BY DEF Fresh, TypeOK, Requests
<1>6. OpenInBatch'
  <2> SUFFICES ASSUME NEW d \in Devices, NEW c \in 1..MaxCycles
               PROVE  status'[<<d, c>>] = "open" <=> c = cycle /\ d \in B /\ at'[d] \notin Returned
    BY DEF OpenInBatch
  <2>1. status'[<<d, c>>] = IF d \in B /\ c = cycle THEN "open" ELSE status[<<d, c>>]
    BY DEF TypeOK, Requests
  <2>2. status[<<d, c>>] # "open"
    BY DEF OpenInBatch
  <2>3. d \in B => at'[d] = "submitted"
    OBVIOUS
  <2> QED
    BY <2>1, <2>2, <2>3 DEF Returned
<1>7. BatchBounded'
  BY LocationFetchAssumption, FS_Subset DEF BatchBounded
<1> QED
  BY <1>1, <1>2, <1>3, <1>4, <1>5, <1>6, <1>7

LEMMA EndBatchIInv == ASSUME IInv, EndBatch PROVE IInv'
<1> USE DEF IInv, EndBatch, notify
<1>1. TypeOK'
  BY DEF TypeOK, Locations
<1>2. OwnResult' /\ OwnAnswerOnly'
  BY DEF OwnResult, OwnAnswerOnly
<1>3. BatchShape'
  BY DEF BatchShape, TypeOK
<1>4. Registered' /\ NoDeadCallbacks'
  BY DEF Registered, NoDeadCallbacks
<1>5. Fresh'
  BY DEF Fresh
<1>6. OpenInBatch'
  BY DEF OpenInBatch, Returned
<1>7. BatchBounded'
  BY LocationFetchAssumption, FS_EmptySet DEF BatchBounded
<1> QED
  BY <1>1, <1>2, <1>3, <1>4, <1>5, <1>6, <1>7

LEMMA RegisterIInv == ASSUME IInv, NEW d \in batch, Register(d)
                      PROVE  IInv'
<1> USE DEF IInv, Register, Go, notify, calls
<1>0. d \in Devices /\ cycle \in 1..MaxCycles /\ Req(d) \in Requests
  BY ReqType
<1>1. TypeOK'
  BY <1>0 DEF TypeOK, Locations
<1>2. OwnResult' /\ OwnAnswerOnly'
  BY <1>0 DEF OwnResult, OwnAnswerOnly, TypeOK
<1>3. BatchShape'
  BY <1>0 DEF BatchShape, TypeOK
<1>4. Registered' /\ NoDeadCallbacks'
  BY <1>0 DEF Registered, NoDeadCallbacks, Req, TypeOK, Active
<1>5. Fresh'
  BY DEF Fresh
<1>6. OpenInBatch'
  BY <1>0 DEF OpenInBatch, TypeOK, Returned
<1>7. BatchBounded'
  BY DEF BatchBounded
<1> QED
  BY <1>1, <1>2, <1>3, <1>4, <1>5, <1>6, <1>7

LEMMA SendIInv == ASSUME IInv, NEW d \in batch, Send(d) \/ SendRaises(d) \/ WaitEnds(d)
                  PROVE  IInv'
<1> USE DEF IInv, Send, SendRaises, WaitEnds, Go, notify, calls
<1>0. d \in Devices /\ cycle \in 1..MaxCycles /\ Req(d) \in Requests
  BY ReqType
<1>1. TypeOK'
  BY <1>0 DEF TypeOK, Locations
<1>2. OwnResult' /\ OwnAnswerOnly'
  BY <1>0 DEF OwnResult, OwnAnswerOnly, TypeOK
<1>3. BatchShape'
  BY <1>0 DEF BatchShape, TypeOK
<1>4. Registered' /\ NoDeadCallbacks'
  BY <1>0 DEF Registered, NoDeadCallbacks, Req, TypeOK, Active
<1>5. Fresh'
  BY DEF Fresh
<1>6. OpenInBatch'
  BY <1>0 DEF OpenInBatch, TypeOK, Returned
<1>7. BatchBounded'
  BY DEF BatchBounded
<1> QED
  BY <1>1, <1>2, <1>3, <1>4, <1>5, <1>6, <1>7

LEMMA UnregisterIInv == ASSUME IInv, NEW d \in batch, Unregister(d)
                        PROVE  IInv'
<1> USE DEF IInv, Unregister, Go, notify, calls
<1>0. d \in Devices /\ cycle \in 1..MaxCycles /\ Req(d) \in Requests
  BY ReqType
<1>1. TypeOK'
  BY <1>0 DEF TypeOK, Locations
<1>2. OwnResult' /\ OwnAnswerOnly'
  BY <1>0 DEF OwnResult, OwnAnswerOnly, TypeOK
<1>3. BatchShape'
  BY <1>0 DEF BatchShape, TypeOK
<1>4. Registered' /\ NoDeadCallbacks'
  BY <1>0 DEF Registered, NoDeadCallbacks, Req, TypeOK, Active
<1>5. Fresh'
  BY DEF Fresh
<1>6. OpenInBatch'
  BY <1>0 DEF OpenInBatch, TypeOK, Returned
<1>7. BatchBounded'
  BY DEF BatchBounded
<1> QED
  BY <1>1, <1>2, <1>3, <1>4, <1>5, <1>6, <1>7

LEMMA ReturnIInv == ASSUME IInv, NEW d \in batch, ReturnAnswer(d) \/ ReturnNothing(d) \/ DecryptExits(d)
                    PROVE  IInv'
<1> USE DEF IInv, ReturnAnswer, ReturnNothing, DecryptExits, Forget, Go, notify, calls
<1>0. d \in Devices /\ cycle \in 1..MaxCycles /\ Req(d) \in Requests
  BY ReqType
<1>1. TypeOK'
  BY <1>0 DEF TypeOK, Locations
<1>2. OwnResult' /\ OwnAnswerOnly'
  BY <1>0 DEF OwnResult, OwnAnswerOnly, TypeOK
<1>3. BatchShape'
  BY <1>0 DEF BatchShape, TypeOK
<1>4. Registered' /\ NoDeadCallbacks'
  BY <1>0 DEF Registered, NoDeadCallbacks, Req, TypeOK, Active
<1>5. Fresh'
  <2>1. PICK s \in {"answered", "empty"} : status' = [status EXCEPT ![Req(d)] = s]
    OBVIOUS
  <2> SUFFICES ASSUME NEW e \in Devices, NEW c \in 1..MaxCycles,
                      c > cycle \/ (c = cycle /\ e \in todo)
               PROVE  status'[<<e, c>>] = "idle"
    BY DEF Fresh
  <2>2. <<e, c>> \in Requests /\ <<e, c>> # Req(d)
    BY <1>0 DEF Requests, Req, BatchShape
  <2> QED
    BY <1>0, <2>1, <2>2 DEF Fresh, TypeOK
<1>6. OpenInBatch'
  <2>1. PICK s \in {"answered", "empty"} : status' = [status EXCEPT ![Req(d)] = s]
    OBVIOUS
  <2>2. PICK l \in Returned : at' = [at EXCEPT ![d] = l]
    BY DEF Returned
  <2> SUFFICES ASSUME NEW e \in Devices, NEW c \in 1..MaxCycles
               PROVE  status'[<<e, c>>] = "open" <=>
                        c = cycle /\ e \in batch /\ at'[e] \notin Returned
    BY DEF OpenInBatch
  <2>3. <<e, c>> \in Requests
    BY DEF Requests
  <2>4. CASE e = d /\ c = cycle
    BY <1>0, <2>1, <2>2, <2>3, <2>4 DEF Req, TypeOK
  <2>5. CASE e = d /\ c # cycle
    BY <1>0, <2>1, <2>3, <2>5 DEF Req, TypeOK, OpenInBatch
  <2>6. CASE e # d
    BY <1>0, <2>1, <2>2, <2>3, <2>6 DEF Req, TypeOK, OpenInBatch
  <2> QED
    BY <2>4, <2>5, <2>6
<1>7. BatchBounded'
  BY DEF BatchBounded
<1> QED
  BY <1>1, <1>2, <1>3, <1>4, <1>5, <1>6, <1>7

LEMMA PushIInv == ASSUME IInv, Push PROVE IInv'
<1> USE DEF IInv, Push, Notify, HandleResponse, NotifyEnds, calls
<1>1. TypeOK'
  BY DEF TypeOK
<1>2. OwnResult' /\ OwnAnswerOnly'
  BY DEF OwnResult, OwnAnswerOnly, TypeOK
<1>3. BatchShape' /\ Registered' /\ NoDeadCallbacks'
  BY DEF BatchShape, Registered, NoDeadCallbacks, Req
<1>4. Fresh' /\ OpenInBatch' /\ BatchBounded'
  BY DEF Fresh, OpenInBatch, BatchBounded
<1> QED
  BY <1>1, <1>2, <1>3, <1>4

LEMMA StutterIInv == ASSUME IInv, UNCHANGED vars PROVE IInv'
<1> USE DEF IInv, vars, calls, notify
<1>1. TypeOK' /\ OwnResult' /\ OwnAnswerOnly' /\ BatchShape'
  BY DEF TypeOK, OwnResult, OwnAnswerOnly, BatchShape
<1>2. Registered' /\ NoDeadCallbacks' /\ Fresh' /\ OpenInBatch' /\ BatchBounded'
  BY DEF Registered, NoDeadCallbacks, Req, Fresh, OpenInBatch, BatchBounded
<1> QED
  BY <1>1, <1>2

(* Every step preserves the inductive invariant.                           *)
LEMMA NextIInv == ASSUME IInv, [Next]_vars PROVE IInv'
<1>1. CASE Poll
  BY <1>1, StartCycleIInv, StartBatchIInv, EndBatchIInv DEF Poll
<1>2. CASE \E d \in batch : Fetch(d)
  BY <1>2, RegisterIInv, SendIInv, UnregisterIInv, ReturnIInv DEF Fetch
<1>3. CASE Push
  BY <1>3, PushIInv
<1>4. CASE UNCHANGED vars
  BY <1>4, StutterIInv
<1> QED
  BY <1>1, <1>2, <1>3, <1>4 DEF Next

(* The inductive invariant holds throughout.                               *)
THEOREM Invariance == Spec => []IInv
  BY InitIInv, NextIInv, PTL DEF Spec

-----------------------------------------------------------------------------
(* The state of poll cycles, request threads and callbacks is well typed.  *)
THEOREM TypeCorrect == Spec => []TypeOK
<1>1. IInv => TypeOK
  BY DEF IInv
<1> QED
  BY <1>1, Invariance, PTL

(* No request returns the answer to another request, for any number of     *)
(* trackers and however late answers come.                                 *)
THEOREM AnswersAreOwn == Spec => []OwnAnswerOnly
<1>1. IInv => OwnAnswerOnly
  BY DEF IInv
<1> QED
  BY <1>1, Invariance, PTL

(* No thread waits for an answer without its callback in the list.         *)
THEOREM WaitersListen == Spec => []ListeningWhileWaiting
<1>1. IInv => ListeningWhileWaiting
  BY DEF IInv, ListeningWhileWaiting, Registered, Active
<1> QED
  BY <1>1, Invariance, PTL

(* With a token, the callback list never holds a callback of a request     *)
(* that has come back.                                                     *)
THEOREM CallbacksAreLive == Spec => []NoDeadCallbacks
<1>1. IInv => NoDeadCallbacks
  BY DEF IInv
<1> QED
  BY <1>1, Invariance, PTL

(* Never more than BatchSize location requests are open.                   *)
LEMMA RateBound == ASSUME IInv PROVE RateLimited
<1> DEFINE Open == {r \in Requests : status[r] = "open"}
<1>1. Open \subseteq batch \X {cycle}
  BY DEF IInv, OpenInBatch, Requests
<1>2. /\ IsFiniteSet(batch \X {cycle})
      /\ Cardinality(batch \X {cycle}) = Cardinality(batch)
  <2>1. IsFiniteSet({cycle}) /\ Cardinality({cycle}) = 1
    BY FS_Singleton
  <2>2. IsFiniteSet(batch) /\ Cardinality(batch) \in Nat
    BY FS_CardinalityType DEF IInv, BatchBounded
  <2> QED
    BY <2>1, <2>2, FS_Product
<1>3. Cardinality(Open) <= Cardinality(batch)
  BY <1>1, <1>2, FS_Subset
<1>4. Cardinality(batch) \in Nat /\ Cardinality(Open) \in Nat
  BY <1>1, <1>2, FS_Subset, FS_CardinalityType DEF IInv, BatchBounded
<1> QED
  BY <1>3, <1>4, LocationFetchAssumption DEF IInv, BatchBounded, RateLimited

(* The cap on concurrent requests holds for every batch size.              *)
THEOREM RateIsLimited == Spec => []RateLimited
  BY RateBound, Invariance, PTL

-----------------------------------------------------------------------------
(* LocationFetch implements the safety part of LocationRequests.           *)

LEMMA InitRefines == Init => Abstract!Init
  BY DEF Init, Abstract!Init

LEMMA BatchRefines == ASSUME IInv, NEW B \in SUBSET Devices, StartBatch(B)
                      PROVE  Abstract!MakeAll(B \X {cycle})
<1>1. B \subseteq todo /\ B # {} /\ cycle \in 1..MaxCycles
  BY DEF StartBatch, IsNextBatch, IInv, BatchShape
<1>2. \A r \in B \X {cycle} : status[r] = "idle"
  BY <1>1 DEF IInv, Fresh
<1>3. UNCHANGED answer
  BY DEF StartBatch
<1> QED
  BY <1>2, <1>3 DEF StartBatch, Abstract!MakeAll

LEMMA ReturnRefines == ASSUME IInv, NEW d \in batch,
                              ReturnAnswer(d) \/ ReturnNothing(d) \/ DecryptExits(d)
                       PROVE  Abstract!Next
<1>1. d \in Devices /\ cycle \in 1..MaxCycles /\ Req(d) \in Requests
  BY ReqType DEF IInv
<1>2. status[Req(d)] = "open"
  BY <1>1 DEF IInv, OpenInBatch, ReturnAnswer, ReturnNothing, DecryptExits, Go, Req, Returned
<1>3. CASE ReturnAnswer(d)
  <2>1. result[Req(d)] = Req(d)
    BY <1>1, <1>3 DEF IInv, OwnResult, ReturnAnswer
  <2>2. Abstract!ReturnAnswer(Req(d))
    BY <1>2, <1>3, <2>1 DEF ReturnAnswer, Abstract!ReturnAnswer
  <2> QED
    BY <1>1, <2>2 DEF Abstract!Next
<1>4. CASE ReturnNothing(d) \/ DecryptExits(d)
  <2>1. Abstract!ReturnNothing(Req(d))
    BY <1>2, <1>4 DEF ReturnNothing, DecryptExits, Abstract!ReturnNothing
  <2> QED
    BY <1>1, <2>1 DEF Abstract!Next
<1> QED
  BY <1>3, <1>4

LEMMA NextRefines == ASSUME IInv, [Next]_vars PROVE [Abstract!Next]_(Abstract!vars)
<1> USE DEF Abstract!vars
<1>1. CASE \E L \in SUBSET Devices : StartCycle(L)
  BY <1>1 DEF StartCycle
<1>2. ASSUME NEW B \in SUBSET Devices, StartBatch(B) PROVE Abstract!Next
  <2>1. B \X {cycle} \in SUBSET Requests
    BY <1>2 DEF StartBatch, IsNextBatch, IInv, BatchShape, Requests
  <2> QED
    BY <1>2, <2>1, BatchRefines DEF Abstract!Next
<1>3. CASE EndBatch
  BY <1>3 DEF EndBatch
<1>4. ASSUME NEW d \in batch, Fetch(d) PROVE Abstract!Next \/ UNCHANGED <<status, answer>>
  <2>1. CASE Register(d) \/ Send(d) \/ SendRaises(d) \/ WaitEnds(d) \/ Unregister(d)
    BY <2>1 DEF Register, Send, SendRaises, WaitEnds, Unregister
  <2>2. CASE ReturnAnswer(d) \/ ReturnNothing(d) \/ DecryptExits(d)
    BY <2>2, ReturnRefines
  <2> QED
    BY <1>4, <2>1, <2>2 DEF Fetch
<1>5. CASE Push
  BY <1>5 DEF Push, Notify, HandleResponse, NotifyEnds
<1>6. CASE UNCHANGED vars
  BY <1>6 DEF vars
<1> QED
  BY <1>1, <1>2, <1>3, <1>4, <1>5, <1>6 DEF Next, Poll

(* Every location request is made once, by its batch, and comes back once, *)
(* with its own answer or with nothing.                                    *)
THEOREM Refinement == Spec => Abstract!Safety
  BY InitRefines, NextRefines, Invariance, PTL DEF Spec, Abstract!Safety
=============================================================================
