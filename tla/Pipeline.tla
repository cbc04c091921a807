------------------------------ MODULE Pipeline ------------------------------
(***************************************************************************)
(* The way of a fix from a poll to the screen: the polling thread of       *)
(* runtime/middleware.py publishes each fix it fetched (QoS 1, retained),  *)
(* the broker keeps the last one of each topic, runtime/subscriber.py      *)
(* upserts what it receives into device_locations, and the portal reads    *)
(* the view latest_device_locations.                                       *)
(*                                                                         *)
(* A fix is a device and the time Google reports for it; its coordinates   *)
(* follow from those.  Fixes without coordinates are skipped by the code   *)
(* and left out of the batches here.  A message is acknowledged per hop:   *)
(* between any two hops it may be lost with its connection and sent again. *)
(***************************************************************************)
EXTENDS Naturals, Sequences, FiniteSets, SequencesExt

CONSTANTS
  Devices,    \* trackers, of different names without "/", "+" and "#"
  MaxTime,    \* bound: fixes per tracker
  MaxOutbox,  \* bound: messages the middleware holds when it polls again
  MaxInbox,   \* bound: messages on their way to the subscriber
  MaxFaults,  \* bound: connections lost, processes restarted, upserts refused
  None        \* no retained message

ASSUME PipelineAssumption ==
  /\ IsFiniteSet(Devices)
  /\ MaxTime \in Nat \ {0}
  /\ {MaxOutbox, MaxInbox, MaxFaults} \subseteq Nat

VARIABLES
  now,       \* newest fix Google has of each tracker; 0: none
  batch,     \* fixes _publish_locations has still to publish, by answer
  outbox,    \* messages the middleware's client holds until acknowledged
  sent,      \* how many of them went out on the present connection
  retained,  \* the broker's retained message of each topic
  session,   \* the subscriber: "down", "connected" or "subscribed"
  inbox,     \* messages between broker and subscriber
  rows,      \* device_locations: the times of each tracker, in insertion order
  missed,    \* history: fixes whose upsert failed
  faults     \* faults so far

middleware == <<batch, outbox, sent>>
subscriber == <<session, inbox>>
store      == <<rows, missed>>
vars       == <<now, middleware, retained, subscriber, store, faults>>

Times == 1..MaxTime
Fixes == [device : Devices, time : Times]

Init ==
  /\ now = [d \in Devices |-> 0]
  /\ batch = <<>> /\ outbox = <<>> /\ sent = 0
  /\ retained = [d \in Devices |-> None]
  /\ session = "down" /\ inbox = <<>>
  /\ rows = [d \in Devices |-> <<>>] /\ missed = {}
  /\ faults = 0

Fault == faults < MaxFaults /\ faults' = faults + 1

-----------------------------------------------------------------------------
(* Google learns of a newer fix.                                           *)
Reported(d) ==
  /\ now[d] < MaxTime
  /\ now' = [now EXCEPT ![d] = @ + 1]
  /\ UNCHANGED <<middleware, retained, subscriber, store, faults>>

(* What a request for d returns, unless nothing: the newest fix, perhaps   *)
(* after older ones.  That every answer has the newest one and has it last *)
(* is assumed of Google: the code publishes the list in the order it came. *)
Fix(d, t)  == [device |-> d, time |-> t]
Answers(d) == {<<Fix(d, now[d])>>} \cup {<<Fix(d, t), Fix(d, now[d])>> : t \in 1..(now[d] - 1)}

(* A cycle of polling_loop: the answers in the order they came in.         *)
Poll ==
  /\ batch = <<>> /\ Len(outbox) < MaxOutbox
  /\ \E answered \in (SUBSET {d \in Devices : now[d] > 0}) \ {{}} :
       \E order \in SetToSeqs(answered), answer \in [answered -> UNION {Answers(d) : d \in answered}] :
         /\ \A d \in answered : answer[d] \in Answers(d)
         /\ batch' = [i \in 1..Len(order) |-> answer[order[i]]]
  /\ UNCHANGED <<now, outbox, sent, retained, subscriber, store, faults>>

(* _mqtt_client.publish queues the message and returns at once.            *)
Publish ==
  /\ batch # <<>>
  /\ LET answer == Head(batch) IN
       /\ outbox' = Append(outbox, Head(answer))
       /\ batch' = IF Len(answer) = 1 THEN Tail(batch) ELSE <<Tail(answer)>> \o Tail(batch)
  /\ UNCHANGED <<now, sent, retained, subscriber, store, faults>>

(* The middleware restarts: what it held is gone.                          *)
MiddlewareRestarts ==
  /\ Fault
  /\ middleware # <<<<>>, <<>>, 0>>
  /\ batch' = <<>> /\ outbox' = <<>> /\ sent' = 0
  /\ UNCHANGED <<now, retained, subscriber, store>>

(* Its connection is lost: loop_start's thread dials again and repeats     *)
(* every message that is not acknowledged.                                 *)
PublisherReconnects ==
  /\ Fault
  /\ sent > 0 /\ sent' = 0
  /\ UNCHANGED <<now, batch, outbox, retained, subscriber, store>>

-----------------------------------------------------------------------------
Forward(m) == inbox' = IF session = "subscribed" THEN Append(inbox, m) ELSE inbox

(* The broker stores the message as the topic's last and forwards it.      *)
BrokerReceives ==
  /\ sent < Len(outbox) /\ Len(inbox) < MaxInbox
  /\ LET m == outbox[sent + 1] IN
       /\ retained' = [retained EXCEPT ![m.device] = m]
       /\ Forward(m)
  /\ sent' = sent + 1
  /\ UNCHANGED <<now, batch, outbox, session, store, faults>>

Acknowledged ==
  /\ sent > 0
  /\ outbox' = Tail(outbox)
  /\ sent' = sent - 1
  /\ UNCHANGED <<now, batch, retained, subscriber, store, faults>>

-----------------------------------------------------------------------------
SubscriberConnects ==
  /\ session = "down"
  /\ session' = "connected"
  /\ UNCHANGED <<now, middleware, retained, inbox, store, faults>>

(* Variant: subscribed once at the start, not on every connect.            *)
OnFirstConnect ==
  /\ session = "connected" /\ faults = 0
  /\ session' = "subscribed"
  /\ \E kept \in SetToSeqs({retained[d] : d \in Devices} \ {None}) :
       inbox' = inbox \o kept
  /\ UNCHANGED <<now, middleware, retained, store, faults>>

(* Variant: messages published without retain=True.                        *)
OnConnectNothingKept ==
  /\ session = "connected"
  /\ session' = "subscribed"
  /\ UNCHANGED <<now, middleware, retained, inbox, store, faults>>

(* on_connect subscribes; the broker sends the retained messages.          *)
OnConnect ==
  /\ session = "connected"
  /\ session' = "subscribed"
  /\ \E kept \in SetToSeqs({retained[d] : d \in Devices} \ {None}) :
       inbox' = inbox \o kept
  /\ UNCHANGED <<now, middleware, retained, store, faults>>

(* Variant: a new session goes on with the messages of the old one.        *)
SubscriberDropsOnly ==
  /\ Fault
  /\ session # "down" /\ session' = "down"
  /\ UNCHANGED <<now, middleware, retained, inbox, store>>

(* Its connection is lost or it restarts; the session is a clean one.      *)
SubscriberDrops ==
  /\ Fault
  /\ session # "down" /\ session' = "down"
  /\ inbox' = <<>>
  /\ UNCHANGED <<now, middleware, retained, store>>

(* Variant: an insert in place of the upsert.                              *)
Insert(m) == rows' = [rows EXCEPT ![m.device] = Append(@, m.time)]

(* upsert with on_conflict="device_name,time"                              *)
Upsert(m) ==
  rows' = IF m.time \in ToSet(rows[m.device]) THEN rows
          ELSE [rows EXCEPT ![m.device] = Append(@, m.time)]

OnMessage ==
  /\ inbox # <<>> /\ inbox' = Tail(inbox)
  /\ Upsert(Head(inbox))
  /\ UNCHANGED <<now, middleware, retained, session, missed, faults>>

(* Any exception is printed and the message is taken for handled.          *)
OnMessageFails ==
  /\ Fault
  /\ inbox # <<>> /\ inbox' = Tail(inbox)
  /\ missed' = missed \cup {Head(inbox)}
  /\ UNCHANGED <<now, middleware, retained, session, rows>>

-----------------------------------------------------------------------------
Next ==
  \/ \E d \in Devices : Reported(d)
  \/ Poll \/ Publish \/ MiddlewareRestarts \/ PublisherReconnects
  \/ BrokerReceives \/ Acknowledged
  \/ SubscriberConnects \/ OnConnect \/ SubscriberDrops
  \/ OnMessage \/ OnMessageFails

Spec == Init /\ [][Next]_vars

(* Every hop goes on while it can, and faults are finitely many.           *)
Fairness ==
  /\ WF_vars(Publish) /\ WF_vars(BrokerReceives) /\ WF_vars(Acknowledged)
  /\ WF_vars(SubscriberConnects) /\ WF_vars(OnConnect) /\ WF_vars(OnMessage)

FairSpec == Spec /\ Fairness

-----------------------------------------------------------------------------
TypeOK ==
  /\ now \in [Devices -> 0..MaxTime]
  /\ batch \in Seq(Seq(Fixes) \ {<<>>})
  /\ outbox \in Seq(Fixes) /\ inbox \in Seq(Fixes)
  /\ sent \in 0..Len(outbox)
  /\ retained \in [Devices -> Fixes \cup {None}]
  /\ session \in {"down", "connected", "subscribed"}
  /\ session # "subscribed" => inbox = <<>>
  /\ rows \in [Devices -> Seq(Times)]
  /\ missed \subseteq Fixes
  /\ faults \in 0..MaxFaults

Stored(m) == m.time \in ToSet(rows[m.device])

(* Variant: the view goes by recorded_at, the time of the insert.          *)
ShownByArrival(d) == IF rows[d] = <<>> THEN 0 ELSE Last(rows[d])

(* latest_device_locations: distinct on (device_name), newest time first.  *)
Shown(d) ==
  IF rows[d] = <<>> THEN 0 ELSE CHOOSE t \in ToSet(rows[d]) : \A u \in ToSet(rows[d]) : u <= t

(* README "to avoid duplicates": however often a fix is fetched, repeated  *)
(* after a reconnect or delivered as retained, it is one row.              *)
OneRowPerFix == \A d \in Devices : IsInjective(rows[d])

(* Older fixes that arrive after newer ones never move a tracker back.     *)
ShownNeverGoesBack == [][\A d \in Devices : Shown(d)' >= Shown(d)]_vars

(* "QoS 1 + retain so a late dashboard still gets the last known position":*)
(* the last message of a topic reaches the table, polled again or not,     *)
(* unless its own upsert fails.                                            *)
RetainedArrives ==
  \A m \in Fixes : retained[m.device] = m ~> (Stored(m) \/ m \in missed \/ retained[m.device] # m)

AnsweredFor(d) == Poll /\ \E i \in DOMAIN batch' : Head(batch'[i]).device = d

(* Every new position is stored in the end, failed upserts included, as    *)
(* long as Google answers again and again and no newer one replaces it.    *)
LatestArrives ==
  (\A d \in Devices : SF_vars(AnsweredFor(d)))
    => \A m \in Fixes : now[m.device] = m.time ~> (Stored(m) \/ now[m.device] # m.time)
=============================================================================
