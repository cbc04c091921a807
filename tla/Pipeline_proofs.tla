-------------------------- MODULE Pipeline_proofs ---------------------------
(***************************************************************************)
(* Proofs about Pipeline, for any trackers, numbers of fixes, of messages  *)
(* and of faults: repeated messages make no second row, the position shown *)
(* never goes back, and a subscriber that is subscribed has the retained   *)
(* message of every topic, or has been sent it.                            *)
(***************************************************************************)
EXTENDS Pipeline, SequenceTheorems, FiniteSetTheorems, TLAPS

(* Fixes that Google has reported: all that is ever published or stored.   *)
Past == {m \in Fixes : m.time <= now[m.device]}

Held ==
  /\ now \in [Devices -> 0..MaxTime]
  /\ batch \in Seq(Seq(Past) \ {<<>>})
  /\ outbox \in Seq(Past) /\ inbox \in Seq(Past)
  /\ sent \in 0..Len(outbox)
  /\ retained \in [Devices -> Past \cup {None}]
  /\ session \in {"down", "connected", "subscribed"}
  /\ session # "subscribed" => inbox = <<>>
  /\ missed \subseteq Past
  /\ faults \in 0..MaxFaults

RowsHeld ==
  /\ rows \in [Devices -> Seq(Times)]
  /\ \A d \in Devices : \A i \in 1..Len(rows[d]) : rows[d][i] <= now[d]

(* A tracker with rows has a newest one, which the view can choose.        *)
HasNewest ==
  \A d \in Devices :
    rows[d] # <<>> => \E t \in ToSet(rows[d]) : \A u \in ToSet(rows[d]) : u <= t

(* While it is subscribed, what the broker retains has reached the         *)
(* subscriber or is on its way.                                            *)
RetainedOnItsWay ==
  session = "subscribed" =>
    \A d \in Devices : \/ retained[d] \in ToSet(inbox) \cup missed \cup {None}
                       \/ Stored(retained[d])

NothingInvented == \A d \in Devices : Shown(d) <= now[d]

IInv == Held /\ RowsHeld /\ OneRowPerFix /\ HasNewest /\ RetainedOnItsWay

-----------------------------------------------------------------------------
(* Sequences                                                               *)
LEMMA MoreSeqs == ASSUME NEW S, NEW T, S \subseteq T PROVE Seq(S) \subseteq Seq(T)
  BY SeqMonotonic

LEMMA ToSetSeq == ASSUME NEW S, NEW s \in Seq(S)
                  PROVE  /\ ToSet(s) = {s[i] : i \in 1..Len(s)} /\ ToSet(s) \subseteq S
                         /\ s = <<>> <=> ToSet(s) = {}
  BY LenProperties, ElementOfSeq, EmptySeq DEF ToSet

LEMMA ToSetEmpty == ToSet(<<>>) = {}
  BY DEF ToSet

LEMMA ToSetAppend == ASSUME NEW S, NEW s \in Seq(S), NEW e \in S
                     PROVE  ToSet(Append(s, e)) = ToSet(s) \cup {e}
<1>1. ToSet(Append(s, e)) = {Append(s, e)[i] : i \in 1..(Len(s) + 1)}
  <2>1. Append(s, e) \in Seq(S) /\ Len(Append(s, e)) = Len(s) + 1
    BY AppendProperties
  <2>2. ToSet(Append(s, e)) = {Append(s, e)[i] : i \in 1..Len(Append(s, e))}
    BY <2>1, ToSetSeq
  <2> QED
    BY <2>1, <2>2
<1>2. /\ Len(s) \in Nat /\ ToSet(s) = {s[i] : i \in 1..Len(s)}
      /\ \A i \in 1..Len(s) : Append(s, e)[i] = s[i]
      /\ Append(s, e)[Len(s) + 1] = e
  BY AppendProperties, ToSetSeq, LenProperties
<1> QED
  BY <1>1, <1>2

LEMMA ToSetTail == ASSUME NEW S, NEW s \in Seq(S), s # <<>>
                   PROVE  ToSet(s) \subseteq ToSet(Tail(s)) \cup {Head(s)}
<1>1. /\ Len(s) \in Nat \ {0} /\ ToSet(s) = {s[i] : i \in 1..Len(s)} /\ Head(s) = s[1]
  BY ToSetSeq, EmptySeq
<1>2. /\ Tail(s) \in Seq(S) /\ Len(Tail(s)) = Len(s) - 1
      /\ \A i \in 1..Len(Tail(s)) : Tail(s)[i] = s[i + 1]
  BY HeadTailProperties
<1>3. ToSet(Tail(s)) = {Tail(s)[i] : i \in 1..Len(Tail(s))}
  BY <1>2, ToSetSeq
<1>4. ASSUME NEW i \in 1..Len(s), i # 1 PROVE s[i] \in ToSet(Tail(s))
  <2>1. i - 1 \in 1..Len(Tail(s)) /\ (i - 1) + 1 = i
    BY <1>1, <1>2, <1>4
  <2> QED
    BY <2>1, <1>2, <1>3
<1> QED
  BY <1>1, <1>4

LEMMA ToSetConcat == ASSUME NEW S, NEW s \in Seq(S), NEW r \in Seq(S)
                     PROVE  ToSet(s) \cup ToSet(r) \subseteq ToSet(s \o r)
<1>1. /\ s \o r \in Seq(S) /\ Len(s \o r) = Len(s) + Len(r)
      /\ \A i \in 1..(Len(s) + Len(r)) :
           (s \o r)[i] = IF i <= Len(s) THEN s[i] ELSE r[i - Len(s)]
  BY ConcatProperties
<1>2. /\ ToSet(s \o r) = {(s \o r)[i] : i \in 1..(Len(s) + Len(r))}
      /\ ToSet(s) = {s[i] : i \in 1..Len(s)} /\ ToSet(r) = {r[i] : i \in 1..Len(r)}
      /\ Len(s) \in Nat /\ Len(r) \in Nat
  <2>1. ToSet(s \o r) = {(s \o r)[i] : i \in 1..Len(s \o r)}
    BY <1>1, ToSetSeq
  <2>2. ToSet(s) = {s[i] : i \in 1..Len(s)} /\ ToSet(r) = {r[i] : i \in 1..Len(r)}
    BY ToSetSeq
  <2> QED
    BY <1>1, <2>1, <2>2, LenProperties
<1>3. ASSUME NEW i \in 1..Len(s) PROVE s[i] \in ToSet(s \o r)
  BY <1>1, <1>2
<1>4. ASSUME NEW i \in 1..Len(r) PROVE r[i] \in ToSet(s \o r)
  <2>1. /\ i + Len(s) \in 1..(Len(s) + Len(r)) /\ ~(i + Len(s) <= Len(s))
        /\ (i + Len(s)) - Len(s) = i
    BY <1>2
  <2> QED
    BY <2>1, <1>1, <1>2
<1> QED
  BY <1>2, <1>3, <1>4

(* An order of a finite set has all of its members.                        *)
LEMMA SetToSeqsOrder == ASSUME NEW S, IsFiniteSet(S), NEW s \in SetToSeqs(S)
                        PROVE  s \in Seq(S) /\ ToSet(s) = S
<1>1. /\ Cardinality(S) \in Nat /\ IsFiniteSet(1..Cardinality(S))
      /\ Cardinality(1..Cardinality(S)) = Cardinality(S)
  BY FS_CardinalityType, FS_Interval
<1>2. s \in [1..Cardinality(S) -> S] /\ s \in Injection(1..Cardinality(S), S)
  BY DEF SetToSeqs, Injection, IsInjective
<1>3. s \in Surjection(1..Cardinality(S), S)
  BY <1>1, <1>2, FS_Injection
<1>4. s \in Seq(S)
  BY <1>1, <1>2, SeqDef
<1>5. ToSet(s) = S
  BY <1>2, <1>3 DEF ToSet, Surjection
<1> QED
  BY <1>4, <1>5

-----------------------------------------------------------------------------
LEMMA PastGrows ==
  ASSUME Held, now' \in [Devices -> 0..MaxTime], \A d \in Devices : now[d] <= now'[d]
  PROVE  /\ Past \subseteq Past' /\ Past' \subseteq Fixes
         /\ Seq(Past) \subseteq Seq(Past')
         /\ Seq(Seq(Past) \ {<<>>}) \subseteq Seq(Seq(Past') \ {<<>>})
<1>1. \A m \in Fixes : m.device \in Devices /\ m.time \in Nat
  BY PipelineAssumption DEF Fixes, Times
<1>2. \A d \in Devices : now[d] \in Nat /\ now'[d] \in Nat
  BY PipelineAssumption DEF Held
<1>3. Past \subseteq Past' /\ Past' \subseteq Fixes
  BY <1>1, <1>2 DEF Past, Fixes
<1> QED
  BY <1>3, MoreSeqs

LEMMA PastFixes == /\ Past \subseteq Fixes /\ Seq(Past) \subseteq Seq(Fixes)
                   /\ Seq(Seq(Past) \ {<<>>}) \subseteq Seq(Seq(Fixes) \ {<<>>})
<1>1. Past \subseteq Fixes
  BY DEF Past
<1>2. Seq(Past) \subseteq Seq(Fixes)
  BY <1>1, MoreSeqs
<1> QED
  BY <1>1, <1>2, MoreSeqs

LEMMA TypesAreType == IInv => TypeOK
  BY PastFixes DEF IInv, Held, RowsHeld, TypeOK

LEMMA InitIInv == Init => IInv
<1> SUFFICES ASSUME Init PROVE IInv
  OBVIOUS
<1>1. <<>> \in Seq(Past) /\ <<>> \in Seq(Seq(Past) \ {<<>>}) /\ <<>> \in Seq(Times)
      /\ Len(<<>>) = 0
  BY EmptySeq
<1>2. 0 \in 0..MaxTime /\ 0 \in 0..MaxFaults /\ 0 \in 0..0
  BY PipelineAssumption
<1>3. Held
  <2>1. now \in [Devices -> 0..MaxTime] /\ retained \in [Devices -> Past \cup {None}]
    BY <1>2 DEF Init
  <2> QED
    BY <1>1, <1>2, <2>1 DEF Init, Held
<1>4. RowsHeld
  <2>1. rows \in [Devices -> Seq(Times)] /\ \A d \in Devices : rows[d] = <<>>
    BY <1>1 DEF Init
  <2> QED
    BY <1>1, <2>1 DEF RowsHeld
<1>5. OneRowPerFix
  BY DEF Init, OneRowPerFix, IsInjective
<1>6. HasNewest /\ RetainedOnItsWay
  BY DEF Init, HasNewest, RetainedOnItsWay
<1> QED
  BY <1>3, <1>4, <1>5, <1>6 DEF IInv

(* Steps that leave the table alone.                                       *)
LEMMA RowsKept ==
  ASSUME IInv, UNCHANGED rows, now' \in [Devices -> 0..MaxTime],
         \A d \in Devices : now[d] <= now'[d]
  PROVE  RowsHeld' /\ OneRowPerFix' /\ HasNewest'
<1>1. RowsHeld'
  <2>1. \A d \in Devices : now[d] \in Nat /\ now'[d] \in Nat
    BY PipelineAssumption DEF IInv, Held
  <2>2. ASSUME NEW d \in Devices, NEW i \in 1..Len(rows[d]) PROVE rows[d][i] \in Nat
    <3>1. rows[d] \in Seq(Times)
      BY DEF IInv, RowsHeld
    <3>2. rows[d][i] \in Times
      BY <3>1, ElementOfSeq
    <3> QED
      BY <3>2 DEF Times
  <2> QED
    BY <2>1, <2>2 DEF IInv, RowsHeld
<1> QED
  BY <1>1 DEF IInv, OneRowPerFix, HasNewest

LEMMA NowKept == ASSUME IInv, UNCHANGED now
                 PROVE  /\ Past' = Past /\ now' \in [Devices -> 0..MaxTime]
                        /\ \A d \in Devices : now[d] <= now'[d]
<1>1. Past' = Past
  BY DEF Past
<1>2. \A d \in Devices : now[d] \in Nat
  BY PipelineAssumption DEF IInv, Held
<1> QED
  BY <1>1, <1>2 DEF IInv, Held

LEMMA ReportedIInv == ASSUME IInv, NEW d \in Devices, Reported(d) PROVE IInv'
<1>1. now' \in [Devices -> 0..MaxTime] /\ \A e \in Devices : now[e] <= now'[e]
  <2>1. \A e \in Devices : now[e] \in 0..MaxTime
    BY DEF IInv, Held
  <2>2. now[d] + 1 \in 0..MaxTime /\ now[d] <= now[d] + 1
    BY <2>1, PipelineAssumption DEF Reported
  <2>3. now' = [now EXCEPT ![d] = now[d] + 1]
    BY DEF Reported
  <2> QED
    BY <2>1, <2>2, <2>3, PipelineAssumption DEF IInv, Held
<1>2. UNCHANGED <<batch, outbox, sent, retained, session, inbox, rows, missed, faults>>
  BY DEF Reported, middleware, subscriber, store
<1>3. Held'
  <2>1. /\ Past \subseteq Past' /\ Seq(Past) \subseteq Seq(Past')
        /\ Seq(Seq(Past) \ {<<>>}) \subseteq Seq(Seq(Past') \ {<<>>})
    BY <1>1, PastGrows DEF IInv
  <2> QED
    BY <1>1, <1>2, <2>1 DEF IInv, Held
<1>4. RowsHeld' /\ OneRowPerFix' /\ HasNewest'
  BY <1>1, <1>2, RowsKept
<1>5. RetainedOnItsWay'
  BY <1>2 DEF IInv, RetainedOnItsWay, Stored
<1> QED
  BY <1>3, <1>4, <1>5 DEF IInv

-----------------------------------------------------------------------------
(* The middleware: its steps change only what it holds.                    *)
LEMMA MiddlewareStep ==
  ASSUME IInv, UNCHANGED <<now, retained, subscriber, store>>,
         batch' \in Seq(Seq(Past) \ {<<>>}), outbox' \in Seq(Past), sent' \in 0..Len(outbox'),
         faults' \in 0..MaxFaults
  PROVE  IInv'
<1>1. UNCHANGED <<now, retained, session, inbox, rows, missed>>
  BY DEF subscriber, store
<1>2. Held'
  BY <1>1, NowKept DEF IInv, Held
<1>3. RowsHeld' /\ OneRowPerFix' /\ HasNewest'
  BY <1>1, NowKept, RowsKept
<1>4. RetainedOnItsWay'
  BY <1>1 DEF IInv, RetainedOnItsWay, Stored
<1> QED
  BY <1>2, <1>3, <1>4 DEF IInv

LEMMA FaultType == ASSUME IInv, Fault PROVE faults' \in 0..MaxFaults
  BY PipelineAssumption DEF IInv, Held, Fault

LEMMA ShortSeqs == ASSUME NEW S, NEW x \in S
                   PROVE  /\ <<x>> \in Seq(S) /\ <<x>> # <<>>
                          /\ \A y \in S : <<y, x>> \in Seq(S) /\ <<y, x>> # <<>>
  OBVIOUS

(* An answer is of fixes there have been.                                  *)
LEMMA AnswersPast == ASSUME IInv, NEW d \in Devices, now[d] > 0
                     PROVE  Answers(d) \subseteq Seq(Past) \ {<<>>}
<1>1. now[d] \in 1..MaxTime /\ \A t \in 1..(now[d] - 1) : t \in 1..MaxTime /\ t <= now[d]
  BY PipelineAssumption DEF IInv, Held
<1>2. /\ Fix(d, now[d]) \in Past
      /\ \A t \in 1..(now[d] - 1) : Fix(d, t) \in Past
  BY <1>1 DEF Fix, Past, Fixes, Times
<1> QED
  BY <1>2, ShortSeqs DEF Answers

LEMMA PollIInv == ASSUME IInv, Poll PROVE IInv'
<1>1. PICK answered \in SUBSET {d \in Devices : now[d] > 0} :
        \E order \in SetToSeqs(answered),
           answer \in [answered -> UNION {Answers(d) : d \in answered}] :
             /\ \A d \in answered : answer[d] \in Answers(d)
             /\ batch' = [i \in 1..Len(order) |-> answer[order[i]]]
  BY DEF Poll
<1>2. PICK order \in SetToSeqs(answered),
           answer \in [answered -> UNION {Answers(d) : d \in answered}] :
             /\ \A d \in answered : answer[d] \in Answers(d)
             /\ batch' = [i \in 1..Len(order) |-> answer[order[i]]]
  BY <1>1
<1>3. IsFiniteSet(answered)
  BY FS_Subset, PipelineAssumption
<1>4. order \in Seq(answered)
  BY <1>3, SetToSeqsOrder
<1>5. Len(order) \in Nat /\ \A i \in 1..Len(order) : order[i] \in answered
  BY <1>4, LenProperties, ElementOfSeq
<1>6. \A d \in answered : answer[d] \in Seq(Past) \ {<<>>}
  BY <1>2, AnswersPast
<1>7. batch' \in [1..Len(order) -> Seq(Past) \ {<<>>}]
  BY <1>2, <1>5, <1>6
<1>8. batch' \in Seq(Seq(Past) \ {<<>>})
  BY <1>5, <1>7, SeqDef
<1>9. UNCHANGED <<now, outbox, sent, retained, subscriber, store, faults>>
  BY DEF Poll
<1> QED
  BY <1>8, <1>9, MiddlewareStep DEF IInv, Held

LEMMA PublishIInv == ASSUME IInv, Publish PROVE IInv'
<1> DEFINE answer == Head(batch)
<1>1. /\ batch \in Seq(Seq(Past) \ {<<>>}) /\ batch # <<>> /\ outbox \in Seq(Past)
      /\ sent \in 0..Len(outbox)
      /\ outbox' = Append(outbox, Head(answer))
      /\ batch' = IF Len(answer) = 1 THEN Tail(batch) ELSE <<Tail(answer)>> \o Tail(batch)
  BY DEF Publish, IInv, Held
<1>2. answer \in Seq(Past) /\ answer # <<>> /\ Tail(batch) \in Seq(Seq(Past) \ {<<>>})
  BY <1>1, HeadTailProperties
<1> HIDE DEF answer
<1>3. /\ Head(answer) \in Past /\ Tail(answer) \in Seq(Past)
      /\ Len(Tail(answer)) = Len(answer) - 1 /\ Len(answer) \in Nat \ {0}
  BY <1>2, HeadTailProperties, EmptySeq
<1>4. outbox' \in Seq(Past) /\ Len(outbox') = Len(outbox) + 1 /\ Len(outbox) \in Nat
  BY <1>1, <1>3, AppendProperties, LenProperties
<1>5. batch' \in Seq(Seq(Past) \ {<<>>})
  <2>1. CASE Len(answer) = 1
    BY <2>1, <1>1, <1>2
  <2>2. CASE Len(answer) # 1
    <3>1. Tail(answer) # <<>>
      <4>1. Len(Tail(answer)) # 0 /\ Len(<<>>) = 0
        BY <2>2, <1>3, EmptySeq
      <4> QED
        BY <4>1
    <3>2. <<Tail(answer)>> \in Seq(Seq(Past) \ {<<>>})
      BY <3>1, <1>3, ShortSeqs
    <3>3. <<Tail(answer)>> \o Tail(batch) \in Seq(Seq(Past) \ {<<>>})
      BY <3>2, <1>2, ConcatProperties
    <3> QED
      BY <2>2, <3>3, <1>1
  <2> QED
    BY <2>1, <2>2
<1>6. sent' \in 0..Len(outbox')
  BY <1>1, <1>4 DEF Publish
<1> QED
  BY <1>4, <1>5, <1>6, MiddlewareStep DEF Publish, IInv, Held

LEMMA MiddlewareRestartsIInv == ASSUME IInv, MiddlewareRestarts PROVE IInv'
<1>1. /\ <<>> \in Seq(Past) /\ <<>> \in Seq(Seq(Past) \ {<<>>}) /\ 0 \in 0..Len(<<>>)
  BY EmptySeq
<1> QED
  BY <1>1, FaultType, MiddlewareStep DEF MiddlewareRestarts

LEMMA PublisherReconnectsIInv == ASSUME IInv, PublisherReconnects PROVE IInv'
<1>1. 0 \in 0..Len(outbox)
  BY LenProperties DEF IInv, Held
<1> QED
  BY <1>1, FaultType, MiddlewareStep DEF PublisherReconnects, IInv, Held

LEMMA AcknowledgedIInv == ASSUME IInv, Acknowledged PROVE IInv'
<1>1. outbox \in Seq(Past) /\ sent \in 1..Len(outbox) /\ Len(outbox) \in Nat
  BY LenProperties DEF Acknowledged, IInv, Held
<1>2. outbox # <<>>
  BY <1>1, EmptySeq
<1>3. Tail(outbox) \in Seq(Past) /\ Len(Tail(outbox)) = Len(outbox) - 1
  BY <1>1, <1>2, HeadTailProperties
<1>4. sent - 1 \in 0..Len(Tail(outbox))
  BY <1>1, <1>3
<1> QED
  BY <1>3, <1>4, MiddlewareStep DEF Acknowledged, IInv, Held

-----------------------------------------------------------------------------
(* The broker and the subscriber                                           *)
LEMMA BrokerReceivesIInv == ASSUME IInv, BrokerReceives PROVE IInv'
<1> DEFINE m == outbox[sent + 1]
<1>1. m \in Past /\ sent + 1 \in 0..Len(outbox)
  <2>1. sent + 1 \in 1..Len(outbox) /\ outbox \in Seq(Past)
    BY LenProperties DEF BrokerReceives, IInv, Held
  <2> QED
    BY <2>1, ElementOfSeq
<1>2. /\ UNCHANGED <<now, batch, outbox, session, rows, missed, faults>> /\ sent' = sent + 1
      /\ retained' = [retained EXCEPT ![m.device] = m]
      /\ inbox' = IF session = "subscribed" THEN Append(inbox, m) ELSE inbox
  BY DEF BrokerReceives, Forward, store
<1> HIDE DEF m
<1>3. m.device \in Devices
  BY <1>1 DEF Past, Fixes
<1>4. /\ inbox' \in Seq(Past)
      /\ session # "subscribed" => inbox' = <<>>
      /\ session = "subscribed" => ToSet(inbox') = ToSet(inbox) \cup {m}
  BY <1>1, <1>2, AppendProperties, ToSetAppend DEF IInv, Held
<1>5. retained' \in [Devices -> Past \cup {None}]
  BY <1>1, <1>2, <1>3 DEF IInv, Held
<1>6. Held'
  BY <1>1, <1>2, <1>4, <1>5, NowKept DEF IInv, Held
<1>7. RowsHeld' /\ OneRowPerFix' /\ HasNewest'
  BY <1>2, NowKept, RowsKept
<1>8. RetainedOnItsWay'
  <2> SUFFICES ASSUME session = "subscribed", NEW d \in Devices
               PROVE  \/ retained'[d] \in ToSet(inbox') \cup missed \cup {None}
                      \/ Stored(retained'[d])
    BY <1>2 DEF RetainedOnItsWay, Stored
  <2>1. retained'[d] \in {retained[d], m}
    BY <1>2 DEF IInv, Held
  <2> QED
    BY <2>1, <1>4 DEF IInv, RetainedOnItsWay
<1> QED
  BY <1>6, <1>7, <1>8 DEF IInv

(* Steps of the subscriber's session                                       *)
LEMMA SessionStep ==
  ASSUME IInv, UNCHANGED <<now, middleware, retained, store>>, faults' \in 0..MaxFaults,
         session' \in {"down", "connected", "subscribed"}, inbox' \in Seq(Past),
         session' # "subscribed" => inbox' = <<>>,
         session' = "subscribed" => \A d \in Devices : retained[d] \in ToSet(inbox') \cup {None}
  PROVE  IInv'
<1>1. UNCHANGED <<now, batch, outbox, sent, retained, rows, missed>>
  BY DEF middleware, store
<1>2. Held'
  BY <1>1, NowKept DEF IInv, Held
<1>3. RowsHeld' /\ OneRowPerFix' /\ HasNewest'
  BY <1>1, NowKept, RowsKept
<1>4. RetainedOnItsWay'
  BY <1>1 DEF RetainedOnItsWay
<1> QED
  BY <1>2, <1>3, <1>4 DEF IInv

LEMMA ComesAndGoesIInv == ASSUME IInv, SubscriberConnects \/ SubscriberDrops PROVE IInv'
<1>1. CASE SubscriberConnects
  BY <1>1, SessionStep DEF SubscriberConnects, IInv, Held
<1>2. CASE SubscriberDrops
  BY <1>2, SessionStep, FaultType, EmptySeq DEF SubscriberDrops
<1> QED
  BY <1>1, <1>2

LEMMA OnConnectIInv == ASSUME IInv, OnConnect PROVE IInv'
<1> DEFINE messages == {retained[d] : d \in Devices} \ {None}
<1>1. messages \subseteq Past
  BY DEF IInv, Held
<1>2. IsFiniteSet(messages)
  <2>1. retained \in Surjection(Devices, {retained[d] : d \in Devices})
    BY DEF IInv, Held, Surjection
  <2>2. IsFiniteSet({retained[d] : d \in Devices})
    BY <2>1, FS_Surjection, PipelineAssumption
  <2> QED
    BY <2>2, FS_Subset
<1>3. PICK kept \in SetToSeqs(messages) : inbox' = inbox \o kept
  BY DEF OnConnect
<1> HIDE DEF messages
<1>4. kept \in Seq(messages) /\ ToSet(kept) = messages
  BY <1>2, <1>3, SetToSeqsOrder
<1>5. kept \in Seq(Past) /\ inbox \in Seq(Past)
  BY <1>1, <1>4, SeqMonotonic DEF IInv, Held
<1>6. inbox' \in Seq(Past) /\ messages \subseteq ToSet(inbox')
  BY <1>3, <1>4, <1>5, ConcatProperties, ToSetConcat
<1>7. \A d \in Devices : retained[d] \in ToSet(inbox') \cup {None}
  BY <1>6 DEF messages
<1> QED
  BY <1>6, <1>7, SessionStep DEF OnConnect, IInv, Held

-----------------------------------------------------------------------------
(* The table                                                               *)
LEMMA NoRowTwice ==
  ASSUME NEW S, NEW s \in Seq(S), NEW e \in S, IsInjective(s), e \notin ToSet(s)
  PROVE  IsInjective(Append(s, e))
<1>1. /\ Len(s) \in Nat /\ DOMAIN s = 1..Len(s) /\ ToSet(s) = {s[i] : i \in 1..Len(s)}
      /\ Append(s, e) \in Seq(S) /\ Len(Append(s, e)) = Len(s) + 1
      /\ \A i \in 1..Len(s) : Append(s, e)[i] = s[i]
      /\ Append(s, e)[Len(s) + 1] = e
  BY LenProperties, ToSetSeq, AppendProperties
<1>2. DOMAIN Append(s, e) = 1..(Len(s) + 1)
  BY <1>1, LenProperties
<1> QED
  BY <1>1, <1>2 DEF IsInjective

LEMMA UpsertRows ==
  ASSUME IInv, NEW m \in Past, Upsert(m), UNCHANGED now
  PROVE  /\ RowsHeld' /\ OneRowPerFix' /\ HasNewest'
         /\ \A d \in Devices : ToSet(rows[d]) \subseteq ToSet(rows'[d])
         /\ Stored(m)'
<1> DEFINE old == rows[m.device]
<1>1. /\ m.device \in Devices /\ m.time \in Times /\ m.time <= now[m.device]
      /\ old \in Seq(Times) /\ Len(old) \in Nat /\ rows \in [Devices -> Seq(Times)]
  BY LenProperties DEF Past, Fixes, IInv, RowsHeld
<1>2. CASE m.time \in ToSet(old)
  <2>1. rows' = rows
    BY <1>2 DEF Upsert
  <2>2. RowsHeld' /\ OneRowPerFix' /\ HasNewest'
    BY <2>1, NowKept, RowsKept
  <2> QED
    BY <1>2, <2>1, <2>2 DEF Stored
<1>3. CASE m.time \notin ToSet(old)
  <2> DEFINE new == Append(old, m.time)
  <2>1. /\ new \in Seq(Times) /\ Len(new) = Len(old) + 1
        /\ \A i \in 1..Len(old) : new[i] = old[i]
        /\ new[Len(old) + 1] = m.time
    BY <1>1, AppendProperties
  <2>2. ToSet(new) = ToSet(old) \cup {m.time}
    BY <1>1, ToSetAppend
  <2>3. IsInjective(old) => IsInjective(new)
    BY <1>1, <1>3, NoRowTwice
  <2>4. rows' = [rows EXCEPT ![m.device] = new]
    BY <1>3 DEF Upsert
  <2> HIDE DEF new
  <2>5. rows' \in [Devices -> Seq(Times)] /\ rows'[m.device] = new
        /\ \A d \in Devices \ {m.device} : rows'[d] = rows[d]
    BY <2>1, <2>4, <1>1
  <2>6. RowsHeld'
    <3>1. \A i \in 1..Len(new) : new[i] <= now[m.device]
      <4>1. \A i \in 1..Len(old) : old[i] <= now[m.device]
        BY <1>1 DEF IInv, RowsHeld
      <4>2. \A i \in 1..Len(new) : i \in 1..Len(old) \/ i = Len(old) + 1
        BY <2>1, <1>1
      <4> QED
        BY <4>1, <4>2, <2>1, <1>1
    <3>2. ASSUME NEW d \in Devices, NEW i \in 1..Len(rows'[d]) PROVE rows'[d][i] <= now[d]
      BY <3>1, <2>5 DEF IInv, RowsHeld
    <3> QED
      BY <3>2, <2>5 DEF RowsHeld
  <2>7. OneRowPerFix'
    BY <2>3, <2>5, <1>1 DEF IInv, OneRowPerFix
  <2>8. HasNewest'
    <3> SUFFICES \E t \in ToSet(new) : \A u \in ToSet(new) : u <= t
      BY <2>5 DEF IInv, HasNewest
    <3>1. ToSet(old) \subseteq Times /\ (old = <<>> <=> ToSet(old) = {})
      BY <1>1, ToSetSeq
    <3>2. \A t \in Times : t \in Nat
      BY PipelineAssumption DEF Times
    <3>3. CASE old = <<>>
      <4>1. ToSet(new) = {m.time} /\ m.time <= m.time
        BY <3>1, <3>2, <3>3, <2>2, <1>1
      <4> QED
        BY <4>1
    <3>4. CASE old # <<>>
      <4>1. PICK t \in ToSet(old) : \A u \in ToSet(old) : u <= t
        BY <3>4, <1>1 DEF IInv, HasNewest
      <4>2. CASE m.time <= t
        BY <4>1, <4>2, <2>2
      <4>3. CASE ~(m.time <= t)
        <5>1. \A u \in ToSet(new) : u <= m.time
          BY <4>1, <4>3, <3>1, <3>2, <2>2, <1>1
        <5> QED
          BY <5>1, <2>2
      <4> QED
        BY <4>2, <4>3
    <3> QED
      BY <3>3, <3>4
  <2>9. Stored(m)' /\ \A d \in Devices : ToSet(rows[d]) \subseteq ToSet(rows'[d])
    BY <2>2, <2>5, <1>1 DEF Stored
  <2> QED
    BY <2>6, <2>7, <2>8, <2>9
<1> QED
  BY <1>2, <1>3

(* A message taken from the inbox is stored or noted as missed.            *)
LEMMA MessageIInv == ASSUME IInv, OnMessage \/ OnMessageFails PROVE IInv'
<1> DEFINE m == Head(inbox)
<1>1. /\ inbox # <<>> /\ inbox' = Tail(inbox) /\ inbox \in Seq(Past)
      /\ session = "subscribed"
      /\ UNCHANGED <<now, batch, outbox, sent, retained, session>>
  BY DEF OnMessage, OnMessageFails, middleware, IInv, Held
<1>2. m \in Past /\ inbox' \in Seq(Past) /\ ToSet(inbox) \subseteq ToSet(inbox') \cup {m}
  BY <1>1, HeadTailProperties, ToSetTail
<1>3. \/ Upsert(m) /\ UNCHANGED <<missed, faults>>
      \/ missed' = missed \cup {m} /\ Fault /\ UNCHANGED rows
  BY DEF OnMessage, OnMessageFails
<1> HIDE DEF m
<1>4. missed \subseteq missed' /\ missed' \subseteq Past /\ faults' \in 0..MaxFaults
  <2>1. CASE UNCHANGED <<missed, faults>>
    BY <2>1 DEF IInv, Held
  <2>2. CASE missed' = missed \cup {m} /\ Fault
    BY <2>2, <1>2, FaultType DEF IInv, Held
  <2> QED
    BY <2>1, <2>2, <1>3
<1>5. Held'
  BY <1>1, <1>2, <1>4, NowKept DEF IInv, Held
<1>6. RowsHeld' /\ OneRowPerFix' /\ HasNewest'
  BY <1>1, <1>2, <1>3, UpsertRows, NowKept, RowsKept
<1>7. /\ \A d \in Devices : ToSet(rows[d]) \subseteq ToSet(rows'[d])
      /\ m.time \in ToSet(rows'[m.device]) \/ m \in missed'
  <2>1. CASE Upsert(m)
    BY <2>1, <1>1, <1>2, UpsertRows DEF Stored
  <2>2. CASE UNCHANGED rows /\ m \in missed'
    BY <2>2
  <2> QED
    BY <2>1, <2>2, <1>3
<1>8. RetainedOnItsWay'
  <2> SUFFICES ASSUME NEW d \in Devices
               PROVE  \/ retained[d] \in ToSet(inbox') \cup missed' \cup {None}
                      \/ retained[d].time \in ToSet(rows'[retained[d].device])
    BY <1>1 DEF RetainedOnItsWay, Stored
  <2>1. retained[d] \in Past \cup {None}
    BY DEF IInv, Held
  <2>2. CASE retained[d] \in missed \cup {None}
    BY <2>2, <1>4
  <2>3. CASE retained[d] \in ToSet(inbox)
    BY <2>3, <1>2, <1>7
  <2>4. CASE Stored(retained[d]) /\ retained[d] \in Past
    BY <2>4, <1>7 DEF Stored, Past, Fixes
  <2> QED
    BY <2>1, <2>2, <2>3, <2>4, <1>1 DEF IInv, RetainedOnItsWay
<1> QED
  BY <1>5, <1>6, <1>8 DEF IInv

-----------------------------------------------------------------------------
LEMMA NextIInv == ASSUME IInv, [Next]_vars PROVE IInv'
<1>1. CASE UNCHANGED vars
  BY <1>1, MiddlewareStep DEF vars, middleware, IInv, Held
<1> QED
  BY <1>1, ReportedIInv, PollIInv, PublishIInv, MiddlewareRestartsIInv,
     PublisherReconnectsIInv, BrokerReceivesIInv, AcknowledgedIInv, ComesAndGoesIInv,
     OnConnectIInv, MessageIInv DEF Next

(* Rows are only added.                                                    *)
LEMMA RowsGrow == ASSUME IInv, [Next]_vars
                  PROVE  \A d \in Devices : ToSet(rows[d]) \subseteq ToSet(rows'[d])
<1>1. CASE OnMessage
  <2>1. Head(inbox) \in Past
    BY <1>1, HeadTailProperties DEF OnMessage, IInv, Held
  <2> QED
    BY <1>1, <2>1, UpsertRows DEF OnMessage
<1>2. CASE ~OnMessage
  <2>1. UNCHANGED rows
    BY <1>2
    DEF Next, Reported, Poll, Publish, MiddlewareRestarts, PublisherReconnects,
        BrokerReceives, Acknowledged, SubscriberConnects, OnConnect, SubscriberDrops,
        OnMessageFails, store, vars
  <2> QED
    BY <2>1
<1> QED
  BY <1>1, <1>2

(* The view's choice is defined.                                           *)
LEMMA ShownIsNewest ==
  ASSUME IInv, NEW d \in Devices
  PROVE  /\ Shown(d) \in Nat /\ Shown(d) <= now[d]
         /\ \A t \in ToSet(rows[d]) : t <= Shown(d)
         /\ rows[d] = <<>> => Shown(d) = 0
<1>1. /\ rows[d] \in Seq(Times) /\ ToSet(rows[d]) = {rows[d][i] : i \in 1..Len(rows[d])}
      /\ ToSet(rows[d]) \subseteq Times /\ (rows[d] = <<>> <=> ToSet(rows[d]) = {})
  BY ToSetSeq DEF IInv, RowsHeld
<1>2. CASE rows[d] = <<>>
  BY <1>1, <1>2, PipelineAssumption DEF Shown, IInv, Held
<1>3. CASE rows[d] # <<>>
  <2>1. Shown(d) \in ToSet(rows[d]) /\ \A u \in ToSet(rows[d]) : u <= Shown(d)
    BY <1>3 DEF Shown, IInv, HasNewest
  <2>2. Shown(d) <= now[d]
    BY <2>1, <1>1 DEF IInv, RowsHeld
  <2>3. Shown(d) \in Nat
    BY <2>1, <1>1 DEF Times
  <2> QED
    BY <2>1, <2>2, <2>3, <1>3
<1> QED
  BY <1>2, <1>3

(* Every variable keeps its type, and nothing is on its way to a           *)
(* subscriber that is not subscribed.                                      *)
THEOREM TypeCorrect == Spec => []TypeOK
BY InitIInv, NextIInv, TypesAreType, PTL DEF Spec

(* However often a fix is fetched, repeated or delivered as retained, it   *)
(* is one row of device_locations (subscriber.py:35-49).                   *)
THEOREM OneRow == Spec => []OneRowPerFix
<1>1. IInv => OneRowPerFix
  BY DEF IInv
<1> QED
  BY <1>1, InitIInv, NextIInv, PTL DEF Spec

(* Older fixes that arrive after newer ones, polled so or repeated, never  *)
(* move the position the view shows back (schema.sql:100-107).             *)
THEOREM NeverBack == Spec => ShownNeverGoesBack
<1>1. ASSUME IInv, [Next]_vars, NEW d \in Devices PROVE Shown(d)' >= Shown(d)
  <2>1. IInv' /\ ToSet(rows[d]) \subseteq ToSet(rows'[d])
    BY <1>1, NextIInv, RowsGrow
  <2>2. CASE rows[d] = <<>>
    <3>1. Shown(d) = 0
      BY <2>2 DEF Shown
    <3>2. rows'[d] # <<>> => Shown(d)' \in ToSet(rows'[d])
      BY <2>1 DEF Shown, IInv, HasNewest
    <3>3. ToSet(rows'[d]) \subseteq Times
      BY <2>1, ToSetSeq DEF IInv, RowsHeld
    <3>4. Shown(d)' \in Nat
      BY <3>2, <3>3 DEF Shown, Times
    <3> QED
      BY <3>1, <3>4
  <2>3. CASE rows[d] # <<>>
    <3>1. Shown(d) \in ToSet(rows[d]) /\ Shown(d) \in Nat
      BY <2>3, <1>1, ShownIsNewest DEF Shown, IInv, HasNewest
    <3>2. ToSet(rows'[d]) \subseteq Times /\ rows'[d] # <<>>
      BY <3>1, <2>1, ToSetEmpty, ToSetSeq DEF IInv, RowsHeld
    <3>3. Shown(d)' \in ToSet(rows'[d]) /\ \A u \in ToSet(rows'[d]) : u <= Shown(d)'
      BY <3>2, <2>1 DEF Shown, IInv, HasNewest
    <3> QED
      BY <3>1, <3>2, <3>3, <2>1 DEF Times
  <2> QED
    BY <2>2, <2>3
<1>2. ASSUME IInv, [Next]_vars PROVE [\A d \in Devices : Shown(d)' >= Shown(d)]_vars
  BY <1>1, <1>2
<1> QED
  BY <1>2, InitIInv, NextIInv, PTL DEF Spec, ShownNeverGoesBack

(* No position is shown that is newer than the last one reported: none is  *)
(* invented by a repeat or a repair (middleware.py, subscriber.py).        *)
THEOREM OnlyReportedShown == Spec => []NothingInvented
<1>1. IInv => NothingInvented
  BY ShownIsNewest DEF NothingInvented
<1> QED
  BY <1>1, InitIInv, NextIInv, PTL DEF Spec

(* A late or reconnected subscriber that is subscribed has stored the      *)
(* last message of every topic, failed to, or has it before it, whatever   *)
(* was lost with its earlier sessions (subscriber.py:52-58): the safety    *)
(* part of RetainedArrives.                                                *)
THEOREM RetainedReaches == Spec => []RetainedOnItsWay
<1>1. IInv => RetainedOnItsWay
  BY DEF IInv
<1> QED
  BY <1>1, InitIInv, NextIInv, PTL DEF Spec

=============================================================================
