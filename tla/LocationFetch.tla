--------------------------- MODULE LocationFetch ----------------------------
(***************************************************************************)
(* runtime/location_fetcher.py together with the callback list of          *)
(* FcmReceiver: a poll cycle asks Google for the location of every device, *)
(* a batch at a time, one thread per device of the batch.  The answers     *)
(* come back as pushes, on the thread of the push client, which calls      *)
(* every registered callback; each callback keeps the answer that carries  *)
(* its own request uuid.  Answers may come late, more than once, or never. *)
(*                                                                         *)
(* The uuid of the request for device d in cycle c is <<d, c>>.            *)
(***************************************************************************)
EXTENDS Naturals, FiniteSets

CONSTANTS
  Devices,    \* the trackers of the account
  BatchSize,  \* location_batch_size
  MaxCycles,  \* bound: poll cycles
  MaxRequests,\* bound: location requests
  NoAnswer

ASSUME LocationFetchAssumption ==
  /\ IsFiniteSet(Devices)
  /\ BatchSize \in Nat \ {0}
  /\ MaxCycles \in Nat
  /\ MaxRequests \in Nat
  /\ NoAnswer \notin Devices \X (1..MaxCycles)

VARIABLES
  token,      \* the saved credentials hold an FCM registration
  cycle,      \* the poll cycle
  todo,       \* devices of this cycle not yet in a batch
  batch,      \* devices of the running batch
  polling,    \* the polling thread is alive
  at,         \* where the thread fetching a device is
  callbacks,  \* location_update_callbacks, by the request each belongs to
  result,     \* the local `result' of each request
  asked,      \* requests Google accepted; it may answer at any time, and again
  current,    \* the answer being handed to the callbacks
  left,       \* callbacks of its snapshot not yet called
  status,     \* what became of each request, as fetch_all_locations sees it
  answer      \* the answer it returned with

calls  == <<token, cycle, todo, batch, polling>>
notify == <<current, left>>
vars   == <<calls, at, callbacks, result, asked, notify, status, answer>>

Requests == Devices \X (1..MaxCycles)

Req(d) == <<d, cycle>>

Init ==
  /\ token \in BOOLEAN
  /\ cycle = 0 /\ todo = {} /\ batch = {} /\ polling = TRUE
  /\ at = [d \in Devices |-> "idle"]
  /\ callbacks = {}
  /\ result = [r \in Requests |-> NoAnswer]
  /\ asked = {}
  /\ current = NoAnswer /\ left = {}
  /\ status = [r \in Requests |-> "idle"]
  /\ answer = [r \in Requests |-> NoAnswer]

Go(d, from, to) == at[d] = from /\ at' = [at EXCEPT ![d] = to]

-----------------------------------------------------------------------------
(* fetch_all_locations, called by polling_loop.                            *)

Made == {r \in Requests : status[r] # "idle"}

(* fetch_device_list: the trackers now on the account, perhaps none.       *)
StartCycle(L) ==
  /\ polling /\ todo = {} /\ batch = {} /\ cycle < MaxCycles
  /\ Cardinality(Made) + Cardinality(L) <= MaxRequests
  /\ cycle' = cycle + 1
  /\ todo' = L
  /\ UNCHANGED <<token, batch, polling, at, callbacks, result, asked, notify, status, answer>>

(* Variant: the whole list at once.                                        *)
IsWholeList(B) == B = todo /\ B # {}

(* devices[start:start + batch_size]; the order of the list is Google's.   *)
IsNextBatch(B) ==
  /\ B \subseteq todo /\ B # {}
  /\ Cardinality(B) <= BatchSize
  /\ B = todo \/ Cardinality(B) = BatchSize

StartBatch(B) ==
  /\ polling /\ batch = {} /\ IsNextBatch(B)
  /\ batch' = B /\ todo' = todo \ B
  /\ at' = [d \in Devices |-> IF d \in B THEN "submitted" ELSE at[d]]
  /\ status' = [r \in Requests |-> IF r \in B \X {cycle} THEN "open" ELSE status[r]]
  /\ UNCHANGED <<token, cycle, polling, callbacks, result, asked, notify, answer>>

(* Variant: the batch ends with the first of its threads.                  *)
EndBatchAtFirst ==
  /\ \E d \in batch : at[d] \in {"done", "exited"}
  /\ batch' = {}
  /\ at' = [d \in Devices |-> IF at[d] \in {"done", "exited"} THEN "idle" ELSE at[d]]
  /\ polling' = (\A d \in batch : at[d] # "exited")
  /\ UNCHANGED <<token, cycle, todo, callbacks, result, asked, notify, status, answer>>

(* as_completed collects every future; a SystemExit in one of them is not  *)
(* an Exception: it leaves fetch_all_locations and polling_loop.           *)
EndBatch ==
  /\ batch # {} /\ \A d \in batch : at[d] \in {"done", "exited"}
  /\ batch' = {}
  /\ at' = [d \in Devices |-> "idle"]
  /\ polling' = (\A d \in batch : at[d] = "done")
  /\ UNCHANGED <<token, cycle, todo, callbacks, result, asked, notify, status, answer>>

-----------------------------------------------------------------------------
(* fetch_locations_for_device, on a thread of the pool.                    *)

(* The callback is registered, then the token is read: without one the     *)
(* exception leaves before the try block whose finally would unregister.   *)
Register(d) ==
  /\ Go(d, "submitted", IF token THEN "registered" ELSE "failed")
  /\ callbacks' = callbacks \cup {Req(d)}
  /\ UNCHANGED <<calls, result, asked, notify, status, answer>>

(* nova_request: accepted, refused (its result is ignored), or raising,    *)
(* perhaps after Google has accepted: the reply was lost.                  *)
Send(d) ==
  /\ Go(d, "registered", "waiting")
  /\ asked' \in {asked, asked \cup {Req(d)}}
  /\ UNCHANGED <<calls, callbacks, result, notify, status, answer>>

SendRaises(d) ==
  /\ Go(d, "registered", "raising")
  /\ asked' \in {asked, asked \cup {Req(d)}}
  /\ UNCHANGED <<calls, callbacks, result, notify, status, answer>>

(* Variant: done.wait() without a timeout.                                 *)
WaitForAnswer(d) ==
  /\ result[Req(d)] # NoAnswer
  /\ Go(d, "waiting", "returning")
  /\ UNCHANGED <<calls, callbacks, result, asked, notify, status, answer>>

(* done.wait returns because an answer came or because the time is up.     *)
WaitEnds(d) ==
  /\ Go(d, "waiting", "returning")
  /\ UNCHANGED <<calls, callbacks, result, asked, notify, status, answer>>

(* Variant: only a request that was answered unregisters.                  *)
UnregisterAnswered(d) ==
  /\ Go(d, "returning", "unregistered") \/ Go(d, "raising", "failed")
  /\ callbacks' = IF result[Req(d)] # NoAnswer THEN callbacks \ {Req(d)} ELSE callbacks
  /\ UNCHANGED <<calls, result, asked, notify, status, answer>>

(* finally: unregister_for_location_updates                                *)
Unregister(d) ==
  /\ Go(d, "returning", "unregistered") \/ Go(d, "raising", "failed")
  /\ callbacks' = callbacks \ {Req(d)}
  /\ UNCHANGED <<calls, result, asked, notify, status, answer>>

(* The local variable is gone with the call.                               *)
Forget(d) == result' = [result EXCEPT ![Req(d)] = NoAnswer]

ReturnAnswer(d) ==
  /\ result[Req(d)] # NoAnswer
  /\ Go(d, "unregistered", "done")
  /\ status' = [status EXCEPT ![Req(d)] = "answered"]
  /\ answer' = [answer EXCEPT ![Req(d)] = result[Req(d)]]
  /\ Forget(d)
  /\ UNCHANGED <<calls, callbacks, asked, notify>>

(* No answer, an answer that _decrypt_to_dicts raises on, or no token.     *)
ReturnNothing(d) ==
  /\ Go(d, "unregistered", "done") \/ Go(d, "failed", "done")
  /\ status' = [status EXCEPT ![Req(d)] = "empty"]
  /\ Forget(d)
  /\ UNCHANGED <<calls, callbacks, asked, notify, answer>>

(* retrieve_identity_key gives up on the owner key with exit(1).           *)
DecryptExits(d) ==
  /\ result[Req(d)] # NoAnswer
  /\ Go(d, "unregistered", "exited")
  /\ status' = [status EXCEPT ![Req(d)] = "empty"]
  /\ Forget(d)
  /\ UNCHANGED <<calls, callbacks, asked, notify, answer>>

-----------------------------------------------------------------------------
(* _on_notification, on the thread of the push client.                     *)

Notify(r) ==
  /\ current = NoAnswer /\ r \in asked
  /\ current' = r
  /\ left' = callbacks
  /\ UNCHANGED <<calls, at, callbacks, result, asked, status, answer>>

(* Variant: the uuid of the answer is not compared.                        *)
HandleAnyResponse(r) ==
  /\ r \in left
  /\ left' = left \ {r}
  /\ result' = IF status[r] = "open" THEN [result EXCEPT ![r] = current] ELSE result
  /\ UNCHANGED <<calls, at, callbacks, asked, current, status, answer>>

(* handle_response of request r; after the call has returned nobody reads  *)
(* what it sets.                                                           *)
HandleResponse(r) ==
  /\ r \in left
  /\ left' = left \ {r}
  /\ result' = IF current = r /\ status[r] = "open"
               THEN [result EXCEPT ![r] = current] ELSE result
  /\ UNCHANGED <<calls, at, callbacks, asked, current, status, answer>>

NotifyEnds ==
  /\ current # NoAnswer /\ left = {}
  /\ current' = NoAnswer
  /\ UNCHANGED <<calls, at, callbacks, result, asked, left, status, answer>>

-----------------------------------------------------------------------------
Fetch(d) == \/ Register(d) \/ Send(d) \/ SendRaises(d) \/ WaitEnds(d) \/ Unregister(d)
            \/ ReturnAnswer(d) \/ ReturnNothing(d) \/ DecryptExits(d)

Poll == \/ \E L \in SUBSET Devices : StartCycle(L)
        \/ \E B \in SUBSET Devices : StartBatch(B)
        \/ EndBatch

Push == \/ \E r \in Requests : Notify(r) \/ HandleResponse(r)
        \/ NotifyEnds

Next == Poll \/ (\E d \in batch : Fetch(d)) \/ Push

Spec == Init /\ [][Next]_vars

(* The polling thread and the pool threads run; every wait has a timeout.  *)
(* Nothing is assumed of Google or of the push channel.                    *)
Fairness == WF_vars(Poll) /\ \A d \in Devices : WF_vars(d \in batch /\ Fetch(d))

FairSpec == Spec /\ Fairness

-----------------------------------------------------------------------------
Locations == {"idle", "submitted", "registered", "waiting", "raising", "returning",
              "unregistered", "failed", "done", "exited"}

(* Everything has its type, and threads run for the devices of the batch   *)
(* and for no other: the pool is left when all of them are done.           *)
TypeOK ==
  /\ token \in BOOLEAN /\ polling \in BOOLEAN
  /\ cycle \in 0..MaxCycles
  /\ todo \subseteq Devices /\ batch \subseteq Devices
  /\ at \in [Devices -> Locations]
  /\ \A d \in Devices : d \in batch <=> at[d] # "idle"
  /\ callbacks \subseteq Requests
  /\ result \in [Requests -> Requests \cup {NoAnswer}]
  /\ asked \subseteq Requests
  /\ current \in Requests \cup {NoAnswer} /\ left \subseteq Requests
  /\ status \in [Requests -> {"idle", "open", "answered", "empty"}]
  /\ answer \in [Requests -> Requests \cup {NoAnswer}]

(* No tracker is ever given the position of another, nor that of an older  *)
(* poll, however late the pushes come (handle_response:35-40).             *)
OwnAnswerOnly ==
  \A r \in Requests : answer[r] # NoAnswer => answer[r] = r

(* While a thread waits for an answer Google may already be sending, its   *)
(* callback is in the list: registering comes before asking (:43-46).      *)
ListeningWhileWaiting ==
  \A d \in batch : at[d] = "waiting" => Req(d) \in callbacks

(* fcm_receiver.py:136-138, "Callers must unregister once their request    *)
(* resolves; otherwise the shared callback list grows without bound": the  *)
(* list holds at most the requests of the running batch, as long as there  *)
(* is a token to return.                                                   *)
NoDeadCallbacks ==
  token => callbacks \subseteq {Req(d) : d \in {e \in batch :
             at[e] \in {"registered", "waiting", "raising", "returning"}}}

(* Comment at :122-124: concurrency is capped: no more than BatchSize      *)
(* requests are open at any time.                                          *)
RateLimited ==
  Cardinality({r \in Requests : status[r] = "open"}) <= BatchSize

(* Every request is made once and returns, with its own answer or nothing. *)
Abstract == INSTANCE LocationRequests
RequestsResolve == Abstract!Spec

CyclesDone == cycle = MaxCycles /\ todo = {} /\ batch = {}

(* README.md:172, "calls fetch_all_locations() on a loop": every poll      *)
(* cycle ends and the next one comes, whatever the answers were.           *)
PollsOnALoop == <>CyclesDone
=============================================================================
