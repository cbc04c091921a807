--------------------------- MODULE Polling_proofs ---------------------------
(***************************************************************************)
(* Proofs about Polling, for any ranges, texts and number of trackers:     *)
(* what is stored can be used by both services and means the same to them, *)
(* the thread dies of its environment only, and a cycle that stores a result    *)
(* has requested every tracker.                                            *)
(***************************************************************************)
EXTENDS Polling, SequenceTheorems, TLAPS

(* What is stored is in the range of its key, or nan.                      *)
StoredInRange ==
  \A k \in Keys : \/ stored[k] = Absent
                  \/ Number(k, stored[k]) \in Low[k]..High[k]
                  \/ Kind[k] = "float" /\ Number(k, stored[k]) = NaN

(* A cycle that has begun has a batch size, ...                            *)
CycleSized == at \notin {"load", "dead"} => cfg.location_batch_size \in Int

(* ... and an interval to sleep for.                                       *)
CycleSleeps == EnvSleeps /\ at \notin {"load", "dead"} => Sleeps(cfg.poll_interval)

(* The thread lives, whatever is saved and whatever fails, unless its      *)
(* environment has an interval it cannot sleep for or malformed keys of    *)
(* the database.                                                           *)
ThreadLives == EnvUsable => at # "dead"

(* The batches up to start are requested, each tracker once and in order.  *)
RequestedSoFar ==
  /\ at \in {"load", "list", "sleep", "dead"} => start = 0 /\ requested = <<>>
  /\ at \in {"batch", "pause"} =>
        start < listed /\ requested = SubSeq(Devices, 1, start)
  /\ at = "store" /\ cfg.location_batch_size > 0 => requested = Devices

(* The portal shows what the middleware loads.                             *)
SettingsAgree == \A k \in Keys : stored[k] # Absent => Loaded(k) = Shown(k)

IInv == /\ TypeOK /\ StoredInRange /\ CycleSized /\ CycleSleeps
        /\ ThreadLives /\ RequestedSoFar

-----------------------------------------------------------------------------
LEMMA KeysAre == Keys = {"poll_interval", "location_batch_size", "location_batch_delay"}
  BY DEF Keys, Kind

LEMMA NumberType == ASSUME NEW k \in Keys, NEW text \in Texts
                    PROVE  Number(k, text) \in Int \cup {NaN, NoNumber}
  BY PollingAssumption DEF Number, Texts, Absent

LEMMA IntNumber == ASSUME NEW k \in Keys, Kind[k] = "int", NEW text \in Texts
                   PROVE  Number(k, text) \in Int \cup {NoNumber}
  BY PollingAssumption DEF Number, Texts, Absent

(* What is written back is read as the value it was cast to.               *)
LEMMA StrOfCast == ASSUME NEW k \in Keys, NEW text \in Texts, Cast(k, text) # NoNumber
                   PROVE  /\ Str(k, Cast(k, text)) \in Texts
                          /\ Number(k, Str(k, Cast(k, text))) = Cast(k, text)
                          /\ \/ Cast(k, text) \in Low[k]..High[k]
                             \/ Kind[k] = "float" /\ Cast(k, text) = NaN
<1> DEFINE v == Number(k, text)
<1>1. v \in Int \cup {NaN, NoNumber}
  BY NumberType
<1>2. /\ Cast(k, text) = v /\ v # NoNumber
      /\ v \in Int => ~(v < Low[k]) /\ ~(v > High[k])
  BY DEF Cast
<1>3. Kind[k] \in {"int", "float"}
  BY KeysAre DEF Kind
<1>4. CASE v = NaN
  <2>1. Kind[k] = "float"
    BY <1>2, <1>3, <1>4, IntNumber, PollingAssumption
  <2>2. Str(k, v) = <<"nan", 0>>
    BY <1>4 DEF Str
  <2> QED
    BY <1>2, <1>4, <2>1, <2>2 DEF Number, Texts
<1>5. CASE v \in Int
  <2>1. Str(k, v) = <<Kind[k], v>>
    BY <1>5, PollingAssumption DEF Str
  <2>2. v \in Low[k]..High[k]
    BY <1>2, <1>5, PollingAssumption
  <2> QED
    BY <1>2, <1>3, <1>5, <2>1, <2>2 DEF Number, Texts
<1> QED
  BY <1>1, <1>2, <1>4, <1>5

LEMMA EnvDefaultType == ASSUME TypeOK, NEW k \in Keys
                        PROVE  EnvDefault(k) \in Int \cup {NaN}
  BY NumberType, PollingAssumption DEF TypeOK, EnvDefault, Or

LEMMA LoadedType == ASSUME TypeOK, NEW k \in Keys
                    PROVE  Loaded(k) \in Int \cup {NaN}
  BY NumberType, EnvDefaultType DEF TypeOK, Loaded, Or

LEMMA LoadedInt == ASSUME TypeOK, NEW k \in Keys, Kind[k] = "int"
                   PROVE  Loaded(k) \in Int /\ EnvDefault(k) \in Int
<1>1. EnvDefault(k) \in Int
  BY IntNumber, PollingAssumption DEF TypeOK, EnvDefault, Or
<1> QED
  BY <1>1, IntNumber DEF TypeOK, Loaded, Or

-----------------------------------------------------------------------------
(* The slices of the list.                                                 *)

LEMMA DevicesSeq == ASSUME TypeOK
                    PROVE  /\ Devices \in Seq(1..MaxDevices)
                           /\ Len(Devices) = listed
                           /\ \A i \in 1..listed : Devices[i] = i
<1>1. listed \in Nat /\ 1..listed \subseteq 1..MaxDevices
  BY PollingAssumption DEF TypeOK
<1> QED
  BY <1>1 DEF Devices

LEMMA Whole == ASSUME TypeOK PROVE SubSeq(Devices, 1, listed) = Devices
<1>1. listed \in Nat
  BY PollingAssumption DEF TypeOK
<1>2. Devices \in Seq(1..MaxDevices) /\ Len(Devices) = listed
  BY DevicesSeq
<1>3. \A i \in 1..listed : Devices[i] \in 1..MaxDevices
  BY <1>1, <1>2, ElementOfSeq
<1> DEFINE whole == SubSeq(Devices, 1, listed)
<1>4. /\ whole \in Seq(1..MaxDevices) /\ Len(whole) = listed
      /\ \A i \in 1..listed : whole[i] = Devices[i]
  BY <1>1, <1>3, SubSeqProperties
<1> HIDE DEF whole
<1>5. whole = Devices
  BY <1>2, <1>4, SeqEqual
<1> QED
  BY <1>5 DEF whole

(* A batch is what follows of the list, and joins what was requested.      *)
LEMMA BatchJoins ==
  ASSUME TypeOK, start < listed, requested = SubSeq(Devices, 1, start),
         NEW size \in Nat \ {0}
  PROVE  /\ requested \o Batch(size) \in Seq(1..MaxDevices)
         /\ start + size < listed => requested \o Batch(size) = SubSeq(Devices, 1, start + size)
         /\ start + size >= listed => requested \o Batch(size) = Devices
<1> DEFINE D   == 1..MaxDevices
           end == IF start + size < listed THEN start + size ELSE listed
           all == requested \o Batch(size)
<1>1. start \in Nat /\ listed \in Nat /\ end \in Nat /\ start < end /\ end <= listed
  BY PollingAssumption DEF TypeOK
<1>2. Devices \in Seq(D) /\ Len(Devices) = listed /\ \A i \in 1..listed : Devices[i] \in D
  BY <1>1, DevicesSeq, ElementOfSeq
<1>3. Batch(size) = SubSeq(Devices, start + 1, end)
  BY DEF Batch, Until
<1>4. /\ Batch(size) \in Seq(D) /\ Len(Batch(size)) = end - start
      /\ \A i \in 1..(end - start) : Batch(size)[i] = Devices[start + i]
  <2>1. \A i \in (start + 1)..end : Devices[i] \in D
    BY <1>1, <1>2
  <2> HIDE DEF end
  <2>2. /\ SubSeq(Devices, start + 1, end) \in Seq(D)
        /\ Len(SubSeq(Devices, start + 1, end)) = end - (start + 1) + 1
        /\ \A i \in 1..(end - (start + 1) + 1) :
             SubSeq(Devices, start + 1, end)[i] = Devices[start + 1 + i - 1]
    BY <1>1, <2>1, SubSeqProperties
  <2> QED
    BY <1>1, <1>3, <2>2
<1>5. /\ requested \in Seq(D) /\ Len(requested) = start
      /\ \A i \in 1..start : requested[i] = Devices[i]
  <2>1. \A i \in 1..start : Devices[i] \in D
    BY <1>1, <1>2
  <2> QED
    BY <1>1, <2>1, SubSeqProperties
<1>6. /\ SubSeq(Devices, 1, end) \in Seq(D) /\ Len(SubSeq(Devices, 1, end)) = end
      /\ \A i \in 1..end : SubSeq(Devices, 1, end)[i] = Devices[i]
  <2>1. \A i \in 1..end : Devices[i] \in D
    BY <1>1, <1>2
  <2> HIDE DEF end
  <2> QED
    BY <1>1, <2>1, SubSeqProperties
<1> HIDE DEF end
<1>7. all \in Seq(D) /\ Len(all) = end
      /\ \A i \in 1..end : all[i] = Devices[i]
  <2>1. /\ all \in Seq(D) /\ Len(all) = start + (end - start)
        /\ \A i \in 1..(start + (end - start)) :
             all[i] = IF i <= start THEN requested[i] ELSE Batch(size)[i - start]
    BY <1>4, <1>5, ConcatProperties
  <2>2. start + (end - start) = end
    BY <1>1
  <2>3. ASSUME NEW i \in 1..end PROVE all[i] = Devices[i]
    <3>1. CASE i <= start
      BY <1>1, <1>5, <2>1, <2>2, <3>1
    <3>2. CASE ~(i <= start)
      <4>1. i - start \in 1..(end - start) /\ start + (i - start) = i
        BY <1>1, <3>2
      <4> QED
        BY <1>4, <2>1, <2>2, <3>2, <4>1
    <3> QED
      BY <3>1, <3>2
  <2> QED
    BY <2>1, <2>2, <2>3
<1>8. all = SubSeq(Devices, 1, end)
  BY <1>6, <1>7, SeqEqual
<1>9. CASE start + size < listed
  BY <1>1, <1>7, <1>8, <1>9 DEF end
<1>10. CASE ~(start + size < listed)
  <2>1. all = Devices
    BY <1>8, <1>10, Whole DEF end
  <2> QED
    BY <1>7, <1>10, <2>1
<1> QED
  BY <1>9, <1>10

-----------------------------------------------------------------------------
(* Both services read a saved text as the same value.                      *)
LEMMA SavedAgrees == ASSUME TypeOK, StoredInRange PROVE SettingsAgree
<1> SUFFICES ASSUME NEW k \in Keys, stored[k] # Absent
             PROVE  Loaded(k) = Shown(k)
  BY DEF SettingsAgree
<1> DEFINE v == Number(k, stored[k])
<1>1. v # NoNumber /\ Loaded(k) = v
  BY DEF TypeOK, Loaded, Or
<1>2. v = NaN \/ v \in Low[k]..High[k]
  BY DEF StoredInRange
<1>3. Cast(k, stored[k]) = v
  BY <1>2, PollingAssumption DEF Cast
<1> QED
  BY <1>1, <1>3 DEF Shown, Or

(* An interval the thread loads is one it can sleep for.                   *)
LEMMA LoadedSleeps == ASSUME TypeOK, StoredInRange, EnvSleeps
                      PROVE  Sleeps(Loaded("poll_interval"))
<1> DEFINE k == "poll_interval"
<1>1. k \in Keys /\ Kind[k] = "int"
  BY KeysAre DEF Kind
<1>2. CASE stored[k] = Absent
  <2>1. Number(k, stored[k]) = NoNumber
    BY <1>2 DEF Number, Absent
  <2> QED
    BY <2>1 DEF Loaded, Or, EnvSleeps
<1>3. CASE stored[k] # Absent
  <2>1. Number(k, stored[k]) \in Low[k]..High[k]
    BY <1>1, <1>3 DEF StoredInRange
  <2>2. Low[k] \in Nat /\ High[k] \in Nat /\ MaxSleep \in Nat /\ High[k] <= MaxSleep
    BY <1>1, PollingAssumption
  <2>3. Number(k, stored[k]) \in 0..MaxSleep /\ Number(k, stored[k]) \in Int
    BY <2>1, <2>2
  <2>4. Loaded(k) = Number(k, stored[k])
    BY <2>3, PollingAssumption DEF Loaded, Or
  <2> QED
    BY <2>3, <2>4 DEF Sleeps
<1> QED
  BY <1>2, <1>3

(* The part of TypeOK about the portal and the environment.                *)
PortalTypeOK ==
  /\ stored \in [Keys -> Texts]
  /\ \A k \in Keys : stored[k] = Absent \/ Number(k, stored[k]) # NoNumber
  /\ env \in [Keys -> Texts] /\ supabase \in Clients
  /\ saves \in 0..MaxSaves

LEMMA InitIInv == Init => IInv
<1> SUFFICES ASSUME Init PROVE IInv
  OBVIOUS
<1> USE PollingAssumption DEF Init
<1>1. TypeOK
  <2>1. env \in [Keys -> Texts]
    OBVIOUS
  <2>2. Absent \in Texts
    BY DEF Texts
  <2>3. <<>> \in Seq(1..MaxDevices)
    BY EmptySeq
  <2> QED
    BY <2>1, <2>2, <2>3 DEF TypeOK
<1>2. StoredInRange /\ CycleSized /\ CycleSleeps /\ ThreadLives /\ RequestedSoFar
  BY DEF StoredInRange, CycleSized, CycleSleeps, ThreadLives, RequestedSoFar
<1> QED
  BY <1>1, <1>2 DEF IInv

LEMMA SaveSettingsIInv == ASSUME IInv, NEW form \in Forms, SaveSettings(form)
                          PROVE  IInv'
<1> USE DEF IInv, SaveSettings
<1>1. \A k \in Keys : form[k] \in Texts
  BY PollingAssumption
<1>2. \A k \in Keys :
        /\ stored'[k] \in Texts
        /\ Number(k, stored'[k]) = Cast(k, form[k])
        /\ \/ Cast(k, form[k]) \in Low[k]..High[k]
           \/ Kind[k] = "float" /\ Cast(k, form[k]) = NaN
  BY <1>1, StrOfCast
<1>3. TypeOK'
  BY <1>2, PollingAssumption DEF TypeOK, locals
<1>4. StoredInRange'
  BY <1>2 DEF StoredInRange
<1>5. CycleSized' /\ CycleSleeps' /\ ThreadLives' /\ RequestedSoFar'
  BY DEF CycleSized, CycleSleeps, ThreadLives, RequestedSoFar, EnvSleeps, EnvUsable, EnvDefault, Devices, locals
<1> QED
  BY <1>3, <1>4, <1>5

(* What a step of the thread or of its fetching leaves alone.              *)
LEMMA Untouched == ASSUME IInv, UNCHANGED portal
                   PROVE  /\ PortalTypeOK' /\ StoredInRange'
                          /\ EnvSleeps' = EnvSleeps /\ EnvUsable' = EnvUsable
  BY DEF IInv, portal, PortalTypeOK, StoredInRange, EnvSleeps, EnvUsable, EnvDefault, TypeOK

LEMMA LoadIInv == ASSUME IInv, LoadSettings \/ LoadDefaults PROVE IInv'
<1> USE DEF LoadSettings, LoadDefaults, Go, locals
<1>1. TypeOK /\ StoredInRange /\ RequestedSoFar
  BY DEF IInv
<1>2. cfg' \in [Keys -> Int \cup {NaN, NoNumber}]
  BY <1>1, LoadedType, EnvDefaultType
<1>3. TypeOK'
  BY <1>1, <1>2, Untouched DEF PortalTypeOK, TypeOK
<1>4. CycleSleeps'
  <2> SUFFICES ASSUME EnvSleeps PROVE Sleeps(cfg'.poll_interval)
    BY Untouched DEF CycleSleeps
  <2>1. "poll_interval" \in Keys
    BY KeysAre
  <2>2. CASE LoadSettings
    BY <1>1, <2>1, <2>2, LoadedSleeps
  <2>3. CASE LoadDefaults
    BY <2>1, <2>3 DEF EnvSleeps
  <2> QED
    BY <2>2, <2>3
<1>5. CycleSized'
  <2>1. "location_batch_size" \in Keys /\ Kind["location_batch_size"] = "int"
    BY KeysAre DEF Kind
  <2> QED
    BY <1>1, <2>1, LoadedInt DEF CycleSized
<1>6. ThreadLives' /\ RequestedSoFar'
  BY <1>1 DEF ThreadLives, RequestedSoFar
<1> QED
  BY <1>3, <1>4, <1>5, <1>6, Untouched DEF IInv

LEMMA ListIInv == ASSUME IInv, (\E n \in 0..MaxDevices : ListDevices(n)) \/ ListFails
                  PROVE  IInv'
<1>1. CASE \E n \in 0..MaxDevices : ListDevices(n)
  <2> PICK n \in 0..MaxDevices : ListDevices(n)
    BY <1>1
  <2> USE DEF ListDevices, Go
  <2>1. TypeOK'
    BY Untouched DEF IInv, PortalTypeOK, TypeOK
  <2>2. CycleSized' /\ CycleSleeps' /\ ThreadLives'
    BY Untouched DEF IInv, CycleSized, CycleSleeps, ThreadLives
  <2>3. RequestedSoFar'
    <3>1. TypeOK /\ start = 0 /\ requested = <<>> /\ n \in Nat
      BY PollingAssumption DEF IInv, RequestedSoFar
    <3>2. CASE n = 0
      <4>1. listed' = 0 /\ at' = "store" /\ requested' = <<>>
        BY <3>1, <3>2
      <4>2. Devices' = <<>>
        BY <4>1 DEF Devices
      <4> QED
        BY <4>1, <4>2 DEF RequestedSoFar
    <3>3. CASE n # 0
      <4>1. SubSeq(Devices', 1, 0) = <<>>
        BY SubSeqEmpty
      <4> QED
        BY <3>1, <3>3, <4>1 DEF RequestedSoFar
    <3> QED
      BY <3>2, <3>3
  <2> QED
    BY <2>1, <2>2, <2>3, Untouched DEF IInv
<1>2. CASE ListFails
  <2> USE <1>2 DEF ListFails, Go, locals
  <2>1. TypeOK'
    BY Untouched DEF IInv, PortalTypeOK, TypeOK
  <2>2. CycleSized' /\ CycleSleeps' /\ ThreadLives' /\ RequestedSoFar'
    BY Untouched DEF IInv, CycleSized, CycleSleeps, ThreadLives, RequestedSoFar
  <2> QED
    BY <2>1, <2>2, Untouched DEF IInv
<1> QED
  BY <1>1, <1>2

(* A cycle that ends early has nothing left to be stored.                  *)
LEMMA NoCycleIInv == ASSUME IInv, SizeRaises \/ PauseRaises \/ Publish
                     PROVE  IInv'
<1> USE DEF SizeRaises, PauseRaises, Publish, Go, NoCycle
<1>1. TypeOK'
  <2>1. <<>> \in Seq(1..MaxDevices) /\ 0 \in 0..MaxDevices
    BY EmptySeq, PollingAssumption
  <2>2. at' = "sleep" /\ UNCHANGED <<portal, cfg, cache, restarts>> /\ NoCycle
    OBVIOUS
  <2> HIDE DEF SizeRaises, PauseRaises, Publish
  <2> QED
    BY <2>1, <2>2, Untouched DEF IInv, PortalTypeOK, TypeOK
<1>2. CycleSized' /\ CycleSleeps' /\ ThreadLives' /\ RequestedSoFar'
  BY Untouched DEF IInv, CycleSized, CycleSleeps, ThreadLives, RequestedSoFar
<1> QED
  BY <1>1, <1>2, Untouched DEF IInv

LEMMA FetchBatchIInv == ASSUME IInv, FetchBatch PROVE IInv'
<1> DEFINE size == cfg.location_batch_size
<1> USE DEF FetchBatch, Go
<1>1. TypeOK /\ start < listed /\ requested = SubSeq(Devices, 1, start)
  BY DEF IInv, RequestedSoFar
<1>2. size \in Nat \ {0}
  BY DEF IInv, CycleSized
<1>3. /\ requested' \in Seq(1..MaxDevices)
      /\ start + size < listed => requested' = SubSeq(Devices, 1, start')
      /\ start + size >= listed => requested' = Devices
  BY <1>1, <1>2, BatchJoins
<1>4. TypeOK'
  <2>1. start' \in Nat
    BY <1>1, <1>2 DEF TypeOK
  <2>2. at' \in {"store", "batch", "pause"} /\ UNCHANGED <<portal, cfg, listed, cache, restarts>>
    OBVIOUS
  <2> HIDE DEF FetchBatch
  <2> QED
    BY <1>1, <1>3, <2>1, <2>2, Untouched DEF PortalTypeOK, TypeOK
<1>5. CycleSized' /\ CycleSleeps' /\ ThreadLives'
  BY Untouched DEF IInv, CycleSized, CycleSleeps, ThreadLives
<1>6. RequestedSoFar'
  <2>1. Devices' = Devices
    BY DEF Devices
  <2>2. start \in Nat /\ listed \in Nat
    BY <1>1, PollingAssumption DEF TypeOK
  <2> QED
    BY <1>2, <1>3, <2>1, <2>2 DEF RequestedSoFar
<1> QED
  BY <1>4, <1>5, <1>6, Untouched DEF IInv

(* Steps that move the thread on and leave the cycle as it is.             *)
LEMMA MovesIInv == ASSUME IInv, NoBatch \/ PauseEnds \/ StoreResult \/ SleepEnds
                   PROVE  IInv'
<1> USE DEF NoBatch, PauseEnds, StoreResult, SleepEnds, Go, locals
<1>1. TypeOK'
  BY Untouched DEF IInv, PortalTypeOK, TypeOK
<1>2. CycleSized' /\ CycleSleeps' /\ ThreadLives'
  BY Untouched DEF IInv, CycleSized, CycleSleeps, ThreadLives
<1>3. RequestedSoFar'
  <2>1. Devices' = Devices
    BY DEF Devices
  <2> QED
    BY <2>1 DEF IInv, CycleSized, RequestedSoFar
<1> QED
  BY <1>1, <1>2, <1>3, Untouched DEF IInv

LEMMA SleepRaisesIInv == ASSUME IInv, SleepRaises PROVE IInv'
<1> USE DEF SleepRaises, Go, locals
<1>1. TypeOK'
  BY Untouched DEF IInv, PortalTypeOK, TypeOK
<1>2. CycleSized' /\ CycleSleeps' /\ ThreadLives' /\ RequestedSoFar'
  BY Untouched DEF IInv, CycleSized, CycleSleeps, ThreadLives, RequestedSoFar, EnvUsable
<1> QED
  BY <1>1, <1>2, Untouched DEF IInv

LEMMA LoadRaisesIInv == ASSUME IInv, LoadRaises PROVE IInv'
<1> USE DEF LoadRaises, Go, locals
<1>1. TypeOK'
  BY Untouched DEF IInv, PortalTypeOK, TypeOK
<1>2. CycleSized'
  BY DEF CycleSized
<1>3. CycleSleeps' /\ ThreadLives' /\ RequestedSoFar'
  BY Untouched DEF IInv, CycleSleeps, ThreadLives, RequestedSoFar, EnvUsable
<1> QED
  BY <1>1, <1>2, <1>3, Untouched DEF IInv

LEMMA RestartIInv == ASSUME IInv, Restart PROVE IInv'
<1> USE DEF Restart, NoCycle
<1>1. TypeOK'
  <2>1. <<>> \in Seq(1..MaxDevices) /\ 0 \in 0..MaxDevices
    BY EmptySeq, PollingAssumption
  <2>2. restarts' \in 0..MaxRestarts
    BY PollingAssumption DEF IInv, TypeOK
  <2> QED
    BY <2>1, <2>2, Untouched DEF IInv, PortalTypeOK, TypeOK
<1>2. CycleSized' /\ CycleSleeps' /\ ThreadLives' /\ RequestedSoFar'
  BY Untouched DEF CycleSized, CycleSleeps, ThreadLives, RequestedSoFar
<1> QED
  BY <1>1, <1>2, Untouched DEF IInv

LEMMA StutterIInv == ASSUME IInv, UNCHANGED vars PROVE IInv'
<1> USE DEF vars, portal, locals
<1>1. TypeOK'
  BY DEF IInv, TypeOK
<1>2. StoredInRange' /\ CycleSized' /\ CycleSleeps' /\ ThreadLives' /\ RequestedSoFar'
  BY DEF IInv, StoredInRange, CycleSized, CycleSleeps, ThreadLives, RequestedSoFar, EnvSleeps, EnvUsable, EnvDefault, Devices
<1> QED
  BY <1>1, <1>2 DEF IInv

LEMMA NextIInv == IInv /\ [Next]_vars => IInv'
<1> SUFFICES ASSUME IInv, [Next]_vars PROVE IInv'
  OBVIOUS
<1>1. CASE UNCHANGED vars
  BY <1>1, StutterIInv
<1>2. CASE Restart
  BY <1>2, RestartIInv
<1>3. CASE \E form \in Forms : SaveSettings(form)
  BY <1>3, SaveSettingsIInv
<1>4. CASE Thread
  BY <1>4, LoadIInv, ListIInv, NoCycleIInv, FetchBatchIInv, MovesIInv, SleepRaisesIInv,
     LoadRaisesIInv DEF Thread
<1> QED
  BY <1>1, <1>2, <1>3, <1>4 DEF Next

-----------------------------------------------------------------------------
LEMMA Inductive == Spec => []IInv
  BY InitIInv, NextIInv, PTL DEF Spec

(* The settings and the cycle stay well typed; a saved text is always one  *)
(* the middleware can cast (settings_store.py:41-50, 77-92,                *)
(* settings.py:67-74).                                                     *)
THEOREM TypeCorrect == Spec => []TypeOK
<1>1. IInv => TypeOK
  BY DEF IInv
<1> QED
  BY <1>1, Inductive, PTL

(* A cycle that stores a result has requested every tracker of the list    *)
(* once and in order, for every number of trackers and every batch size,   *)
(* and whatever is saved meanwhile (location_fetcher.py:143-157).          *)
THEOREM EveryTrackerRequested == Spec => AllRequested
<1>1. ASSUME IInv, [Next]_vars
      PROVE  [Go("store", "publish") /\ cfg.location_batch_size > 0 => cache' = Devices]_vars
  <2> SUFFICES ASSUME at = "store", at' = "publish", cfg.location_batch_size > 0
               PROVE  cache' = Devices
    BY DEF Go
  <2>1. StoreResult
    BY <1>1 DEF Next, Thread, Restart, SaveSettings, LoadSettings, LoadDefaults, LoadRaises,
       ListDevices, ListFails, SizeRaises, NoBatch, FetchBatch, PauseEnds, PauseRaises, Publish, SleepEnds,
       SleepRaises, Go, vars
  <2> QED
    BY <1>1, <2>1 DEF IInv, RequestedSoFar, StoreResult
<1> QED
  BY <1>1, Inductive, PTL DEF Spec, AllRequested

(* "So the middleware keeps running either way": no saved setting and no   *)
(* failure of a cycle or of a query ends the polling thread, whose load    *)
(* and sleep stand outside the try (middleware.py:104-121); what does is   *)
(* an environment with an interval that cannot be slept for, or with keys  *)
(* no client can be made of (settings.py:33-57).                           *)
THEOREM NeverDies == Spec => []ThreadLives
<1>1. IInv => ThreadLives
  BY DEF IInv
<1> QED
  BY <1>1, Inductive, PTL

(* Although the ranges are checked by the portal only, a saved value is    *)
(* the same to both services (settings.py:6-7).                            *)
THEOREM ServicesAgree == Spec => []SettingsAgree
<1>1. IInv => SettingsAgree
  BY SavedAgrees DEF IInv
<1> QED
  BY <1>1, Inductive, PTL
=============================================================================
