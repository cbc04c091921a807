-------------------------- MODULE Trackers_proofs ---------------------------
(***************************************************************************)
(* Proofs about Trackers, for any names, serials, rows, webapp workers and *)
(* numbers of requests: however often a sync runs, dies half way and runs  *)
(* again, it gives a device one row, brings that row up to date and adopts *)
(* the legacy row it can tell from others.  And about TrackerList: for any *)
(* page size the pages of the list show every row.                         *)
(***************************************************************************)
EXTENDS TrackerList, FiniteSetTheorems, SequenceTheorems, TLAPS

Applying(w) == job[w].step = "apply"

(* A list has a device once, and a sync goes through its own list.         *)
Listed ==
  \A w \in Workers :
    /\ job[w].step \in {"fetched", "apply"} =>
         \A d, e \in job[w].list : d.serial = e.serial => d = e
    /\ Applying(w) => job[w].todo \subseteq job[w].list

(* OneRowPerSerial without counting.                                       *)
AtMostOne ==
  \A s \in Serials \ excused : \A i, k \in WithSerial(table, s) : i = k

HandledBy(j) == j.list \ j.todo

(* The dictionaries are those of the table that was read, but for the      *)
(* legacy rows used up.                                                    *)
Matched(j) ==
  /\ Present(j.seen) \subseteq used
  /\ \A s \in Serials : IF j.bySerial[s] = None THEN WithSerial(j.seen, s) = {}
                                                ELSE j.bySerial[s] \in WithSerial(j.seen, s)
  /\ \A n \in Names : j.byName[n] # None => j.byName[n] \in Legacy(j.seen, n)

(* A row is as it was read, or it has gone to a device that was handled,   *)
(* found by its serial or else with no legacy row left of its name.        *)
Written(j) ==
  \A i \in Ids :
    \/ table[i] = j.seen[i]
    \/ /\ table[i] \in HandledBy(j)
       /\ \/ i \in WithSerial(j.seen, table[i].serial)
          \/ /\ i \notin Present(j.seen) \/ i \in WithSerial(j.seen, None)
             /\ j.bySerial[table[i].serial] = None
             /\ j.byName[table[i].name] = None

Current(j) == \A d \in HandledBy(j) : \E i \in Ids : table[i] = d

(* A legacy row that can be found by its name is still one; a name that    *)
(* cannot be found had none, or it was given to a device.                  *)
Adopting(j) ==
  \A n \in Names :
    IF j.byName[n] = None
    THEN Legacy(j.seen, n) = {} \/ \E k \in Legacy(j.seen, n) : table[k] \in HandledBy(j)
    ELSE table[j.byName[n]] = j.seen[j.byName[n]]

(* What a sync relies on while it has the table to itself.                 *)
Undisturbed ==
  \A w \in Workers :
    Applying(w) /\ w \notin disturbed =>
      Matched(job[w]) /\ Written(job[w]) /\ Current(job[w]) /\ Adopting(job[w])

IInv == TypeOK /\ Listed /\ AtMostOne /\ Undisturbed

-----------------------------------------------------------------------------
LEMMA RowType == /\ \A d \in Devices : /\ d \in Rows /\ d # None /\ d.serial # None
                                       /\ d.name \in Names /\ d.serial \in Serials
                 /\ None \notin Rows
                 /\ \A n \in Names, s \in Serials \cup {None} :
                      Row(n, s) \in Rows /\ Row(n, s).name = n /\ Row(n, s).serial = s
  BY TrackersAssumption DEF Devices, Rows, Row

Applied == [step : {"apply"}, list : SUBSET Devices, todo : SUBSET Devices,
            seen : [Ids -> Rows \cup {None}],
            bySerial : [Serials -> Ids \cup {None}],
            byName : [Names -> Ids \cup {None}]]

LEMMA ApplyingJob ==
  ASSUME TypeOK, NEW w \in Workers, Applying(w)
  PROVE  /\ job[w].list \in SUBSET Devices /\ job[w].todo \in SUBSET Devices
         /\ job[w].seen \in [Ids -> Rows \cup {None}]
         /\ job[w].bySerial \in [Serials -> Ids \cup {None}]
         /\ job[w].byName \in [Names -> Ids \cup {None}]
         /\ job[w] \in Applied
<1>1. job[w] \in Jobs /\ job[w].step = "apply"
  BY DEF TypeOK, Applying
<1>2. job[w] \in Applied
  BY <1>1 DEF Jobs, Idle, Applied
<1> QED
  BY <1>2 DEF Applied

LEMMA HandledJob ==
  ASSUME TypeOK, NEW w \in Workers, Applying(w), NEW d \in Devices, Handled(w, d)
  PROVE  /\ job' \in [Workers -> Jobs]
         /\ \A v \in Workers \ {w} : job'[v] = job[v]
         /\ job'[w].step = "apply" /\ job'[w].list = job[w].list
         /\ job'[w].todo = job[w].todo \ {d}
         /\ job'[w].seen = job[w].seen /\ job'[w].bySerial = job[w].bySerial
         /\ job'[w].byName = IF job[w].bySerial[d.serial] = None
                             THEN [job[w].byName EXCEPT ![d.name] = None]
                             ELSE job[w].byName
<1> DEFINE j == job[w]
           names == [j.byName EXCEPT ![d.name] =
                       IF j.bySerial[d.serial] = None THEN None ELSE j.byName[d.name]]
           next == [j EXCEPT !.todo = j.todo \ {d}, !.byName = names]
<1>1. /\ j \in Applied /\ j.todo \in SUBSET Devices
      /\ j.byName \in [Names -> Ids \cup {None}]
  BY ApplyingJob
<1>2. names \in [Names -> Ids \cup {None}]
  BY <1>1, RowType
<1>3. names = IF j.bySerial[d.serial] = None THEN [j.byName EXCEPT ![d.name] = None]
                                             ELSE j.byName
  BY <1>1, RowType
<1>4. job' = [job EXCEPT ![w] = next]
  BY <1>1 DEF Handled, TypeOK
<1> HIDE DEF names
<1>5. /\ next \in Applied /\ next.step = "apply" /\ next.list = j.list
      /\ next.todo = j.todo \ {d} /\ next.seen = j.seen /\ next.bySerial = j.bySerial
      /\ next.byName = names
  <2>1. j.todo \ {d} \in SUBSET Devices
    BY <1>1
  <2> HIDE DEF j
  <2> QED
    BY <1>1, <1>2, <2>1 DEF Applied
<1> HIDE DEF next
<1>6. next \in Jobs
  BY <1>5 DEF Jobs, Applied
<1>7. /\ job' \in [Workers -> Jobs] /\ job'[w] = next
      /\ \A v \in Workers \ {w} : job'[v] = job[v]
  BY <1>4, <1>6 DEF TypeOK
<1> QED
  BY <1>3, <1>5, <1>7

-----------------------------------------------------------------------------
(* One device of a sync that has the table to itself                       *)

(* Its serial is only on rows that were read with it.                      *)
LEMMA TodoRows ==
  ASSUME IInv, NEW w \in Workers, Applying(w), w \notin disturbed,
         NEW d \in Devices, d \in job[w].todo
  PROVE  /\ \A k \in WithSerial(table, d.serial) : table[k] = job[w].seen[k]
         /\ \A k \in WithSerial(job[w].seen, d.serial) : table[k] = job[w].seen[k]
         /\ job[w].bySerial[d.serial] = None => WithSerial(table, d.serial) = {}
<1> DEFINE j == job[w]
<1>1. /\ j.list \subseteq Devices /\ d \in j.list /\ d \notin HandledBy(j)
      /\ \A e \in HandledBy(j) : e \in Devices /\ e.serial # d.serial
  BY ApplyingJob DEF IInv, Listed, HandledBy, Applying
<1>2. Written(j) /\ Matched(j)
  BY DEF IInv, Undisturbed
<1>3. d.serial \in Serials /\ d.serial # None
  BY RowType
<1> HIDE DEF j
<1>4. \A k \in WithSerial(table, d.serial) : table[k] = j.seen[k]
  BY <1>1, <1>2 DEF Written, WithSerial, Present
<1>5. ASSUME NEW k \in WithSerial(j.seen, d.serial) PROVE table[k] = j.seen[k]
  <2> SUFFICES ASSUME table[k] # j.seen[k] PROVE FALSE
    OBVIOUS
  <2>1. k \in Ids /\ j.seen[k] # None /\ j.seen[k].serial = d.serial
    BY DEF WithSerial, Present
  <2>2. /\ table[k] \in HandledBy(j)
        /\ k \in WithSerial(j.seen, table[k].serial) \/ k \in WithSerial(j.seen, None)
    BY <2>1, <1>2 DEF Written, Present
  <2> QED
    BY <2>1, <2>2, <1>1, <1>3 DEF WithSerial
<1>6. j.bySerial[d.serial] = None => WithSerial(table, d.serial) = {}
  BY <1>2, <1>3, <1>4 DEF Matched, WithSerial, Present
<1> QED
  BY <1>4, <1>5, <1>6 DEF j

(* The row it goes to is one of its serial, a legacy row, or a new one.    *)
LEMMA TodoTarget ==
  ASSUME IInv, NEW w \in Workers, Applying(w), w \notin disturbed,
         NEW d \in Devices, d \in job[w].todo, NEW i \in Ids,
         RowFor(job[w], d) = i \/ (RowFor(job[w], d) = None /\ i \notin used)
  PROVE  \/ i \in WithSerial(job[w].seen, d.serial) /\ job[w].bySerial[d.serial] # None
         \/ /\ job[w].bySerial[d.serial] = None /\ job[w].byName[d.name] = i
            /\ i \in Legacy(job[w].seen, d.name) /\ table[i] = job[w].seen[i]
         \/ /\ job[w].bySerial[d.serial] = None /\ job[w].byName[d.name] = None
            /\ i \notin Present(job[w].seen) /\ table[i] = None
<1>1. Matched(job[w]) /\ Adopting(job[w])
  BY DEF IInv, Undisturbed
<1>2. /\ d.serial \in Serials /\ d.name \in Names /\ i # None
  BY RowType, TrackersAssumption
<1>3. Present(table) \subseteq used
  BY DEF IInv, TypeOK
<1>4. CASE RowFor(job[w], d) = i /\ job[w].bySerial[d.serial] # None
  BY <1>1, <1>2, <1>4 DEF RowFor, Matched
<1>5. CASE RowFor(job[w], d) = i /\ job[w].bySerial[d.serial] = None
  BY <1>1, <1>2, <1>5 DEF RowFor, Matched, Adopting
<1>6. CASE RowFor(job[w], d) = None /\ i \notin used
  BY <1>1, <1>2, <1>3, <1>6 DEF RowFor, Matched, Present
<1> QED
  BY <1>4, <1>5, <1>6

(* Once the device is in its row, the sync can rely on the table again.    *)
LEMMA DeviceWritten ==
  ASSUME IInv, NEW w \in Workers, Applying(w), w \notin disturbed,
         NEW d \in Devices, d \in job[w].todo, NEW i \in Ids,
         RowFor(job[w], d) = i \/ (RowFor(job[w], d) = None /\ i \notin used),
         Handled(w, d), table' = [table EXCEPT ![i] = d], used \subseteq used'
  PROVE  Matched(job[w])' /\ Written(job[w])' /\ Current(job[w])' /\ Adopting(job[w])'
<1> DEFINE j == job[w]
           k == job'[w]
<1>1. /\ k.list = j.list /\ k.todo = j.todo \ {d} /\ k.seen = j.seen
      /\ k.bySerial = j.bySerial
      /\ k.byName = IF j.bySerial[d.serial] = None THEN [j.byName EXCEPT ![d.name] = None]
                                                   ELSE j.byName
  BY HandledJob DEF IInv
<1>2. /\ Matched(j) /\ Written(j) /\ Current(j) /\ Adopting(j)
  BY DEF IInv, Undisturbed
<1>3. \/ i \in WithSerial(j.seen, d.serial) /\ j.bySerial[d.serial] # None
      \/ /\ j.bySerial[d.serial] = None /\ j.byName[d.name] = i
         /\ i \in Legacy(j.seen, d.name) /\ table[i] = j.seen[i]
      \/ /\ j.bySerial[d.serial] = None /\ j.byName[d.name] = None
         /\ i \notin Present(j.seen) /\ table[i] = None
  BY TodoTarget
<1>4. /\ j.byName \in [Names -> Ids \cup {None}] /\ j.list \subseteq Devices
      /\ d \in j.list /\ j.todo \subseteq j.list
      /\ \A e \in HandledBy(j) : e \in Devices /\ e.serial # d.serial
  BY ApplyingJob DEF IInv, Listed, Applying, HandledBy
<1>5. /\ d.serial \in Serials /\ d.name \in Names /\ d # None /\ d.serial # None
      /\ \A e \in Devices : e # None /\ e.serial # None
  BY RowType
<1>6. table'[i] = d /\ \A r \in Ids \ {i} : table'[r] = table[r]
  BY DEF IInv, TypeOK
<1>7. \A r \in WithSerial(j.seen, d.serial) : table[r] = j.seen[r]
  BY TodoRows
<1>8. /\ \A n \in Names : k.byName[n] # None => k.byName[n] = j.byName[n]
      /\ \A n \in Names : j.byName[n] = None => k.byName[n] = None
      /\ j.bySerial[d.serial] = None => k.byName[d.name] = None
      /\ \A n \in Names : k.byName[n] = None /\ j.byName[n] # None =>
                            n = d.name /\ j.bySerial[d.serial] = None
  BY <1>1, <1>4, <1>5
<1>9. HandledBy(k) = HandledBy(j) \cup {d}
  BY <1>1, <1>4 DEF HandledBy
<1> HIDE DEF j, k
<1>10. /\ Matched(k) /\ Present(k.seen) \subseteq used'
  BY <1>1, <1>2, <1>8 DEF Matched
<1>11. ASSUME NEW r \in Ids
       PROVE  \/ table'[r] = k.seen[r]
              \/ /\ table'[r] \in HandledBy(k)
                 /\ \/ r \in WithSerial(k.seen, table'[r].serial)
                    \/ /\ r \notin Present(k.seen) \/ r \in WithSerial(k.seen, None)
                       /\ k.bySerial[table'[r].serial] = None
                       /\ k.byName[table'[r].name] = None
  <2>1. CASE r = i
    BY <2>1, <1>1, <1>3, <1>6, <1>8, <1>9 DEF Legacy
  <2>2. CASE r # i
    <3>1. \A e \in HandledBy(j) : e.name \in Names
      BY <1>4, RowType
    <3> QED
      BY <3>1, <2>2, <1>1, <1>2, <1>6, <1>8, <1>9 DEF Written
  <2> QED
    BY <2>1, <2>2
<1>12. ASSUME NEW e \in HandledBy(k) PROVE \E r \in Ids : table'[r] = e
  <2>1. CASE e = d
    BY <2>1, <1>6
  <2>2. CASE e \in HandledBy(j)
    <3>1. PICK r \in Ids : table[r] = e
      BY <2>2, <1>2 DEF Current
    <3>2. r # i
      BY <3>1, <2>2, <1>3, <1>4, <1>5, <1>7 DEF WithSerial, Legacy, Present
    <3> QED
      BY <3>1, <3>2, <1>6
  <2> QED
    BY <2>1, <2>2, <1>9
<1>13. ASSUME NEW n \in Names
       PROVE  IF k.byName[n] = None
              THEN \/ Legacy(k.seen, n) = {}
                   \/ \E r \in Legacy(k.seen, n) : table'[r] \in HandledBy(k)
              ELSE table'[k.byName[n]] = k.seen[k.byName[n]]
  <2>1. CASE k.byName[n] = None /\ j.byName[n] = None
    <3>1. \A r \in Legacy(j.seen, n) : r \in Ids
      BY DEF Legacy, WithSerial, Present
    <3> QED
      BY <3>1, <2>1, <1>1, <1>2, <1>6, <1>9 DEF Adopting
  <2>2. CASE k.byName[n] = None /\ j.byName[n] # None
    BY <2>2, <1>1, <1>3, <1>6, <1>8, <1>9 DEF WithSerial
  <2>3. CASE k.byName[n] # None
    <3>1. /\ k.byName[n] = j.byName[n] /\ j.byName[n] \in Legacy(j.seen, n)
          /\ table[j.byName[n]] = j.seen[j.byName[n]] /\ j.byName[n] \in Ids
      BY <2>3, <1>2, <1>4, <1>8 DEF Matched, Adopting
    <3>2. j.byName[n] # i
      BY <3>1, <2>3, <1>3, <1>5, <1>8 DEF WithSerial, Legacy, Present
    <3> QED
      BY <3>1, <3>2, <2>3, <1>1, <1>6
  <2> QED
    BY <2>1, <2>2, <2>3
<1> QED
  BY <1>10, <1>11, <1>12, <1>13
  DEF Matched, Written, Current, Adopting, k, Present, WithSerial, Legacy, HandledBy

-----------------------------------------------------------------------------
LEMMA InitIInv == Init => IInv
<1> SUFFICES ASSUME Init PROVE IInv
  OBVIOUS
<1> USE DEF Init
<1>1. PICK old \in SUBSET Ids : \E n \in [old -> Names] :
        /\ used = old
        /\ table = [i \in Ids |-> IF i \in old THEN Row(n[i], None) ELSE None]
  OBVIOUS
<1>2. PICK n \in [old -> Names] :
        /\ used = old
        /\ table = [i \in Ids |-> IF i \in old THEN Row(n[i], None) ELSE None]
  BY <1>1
<1>3. \A i \in old : n[i] \in Names /\ Row(n[i], None) \in Rows /\ Row(n[i], None).serial = None
  BY RowType
<1>4. /\ table \in [Ids -> Rows \cup {None}] /\ Present(table) \subseteq used
      /\ \A i \in Present(table) : table[i].serial = None
  BY <1>2, <1>3 DEF Present
<1>5. job \in [Workers -> Jobs] /\ \A w \in Workers : job[w].step = "idle"
  BY DEF Jobs, Idle
<1>6. posts \in 0..MaxPosts
  BY TrackersAssumption
<1> HIDE DEF Init
<1>7. /\ account \in [Serials -> Names \cup {None}] /\ used \subseteq Ids
      /\ disturbed = {} /\ excused = {}
  BY <1>2 DEF Init
<1>8. TypeOK
  BY <1>4, <1>5, <1>6, <1>7 DEF TypeOK
<1>9. AtMostOne
  BY <1>4, TrackersAssumption DEF AtMostOne, WithSerial
<1> QED
  BY <1>5, <1>8, <1>9 DEF IInv, Listed, Undisturbed, Applying

(* A row is written                                                        *)
LEMMA WriteTypes ==
  ASSUME TypeOK, NEW i \in Ids, NEW r \in Rows \cup {None}, table' = [table EXCEPT ![i] = r],
         used \subseteq used', used' \subseteq Ids, r # None => i \in used'
  PROVE  /\ table' \in [Ids -> Rows \cup {None}] /\ Present(table') \subseteq used'
  BY DEF TypeOK, Present

LEMMA WriteOnce ==
  ASSUME IInv, NEW i \in Ids, NEW r \in Rows \cup {None}, table' = [table EXCEPT ![i] = r],
         excused \subseteq excused',
         \/ r = None \/ r.serial \in excused'
         \/ i \in WithSerial(table, r.serial) \/ WithSerial(table, r.serial) = {}
  PROVE  AtMostOne'
<1>1. table'[i] = r /\ \A k \in Ids \ {i} : table'[k] = table[k]
  BY DEF IInv, TypeOK
<1> SUFFICES ASSUME NEW s \in Serials \ excused', NEW k \in WithSerial(table', s),
                    NEW l \in WithSerial(table', s)
             PROVE  k = l
  BY DEF AtMostOne
<1>2. \A m, o \in WithSerial(table, s) : m = o
  BY DEF IInv, AtMostOne
<1>3. CASE r # None /\ r.serial = s
  <2>1. k \in WithSerial(table, s) \cup {i} /\ l \in WithSerial(table, s) \cup {i}
    BY <1>1 DEF WithSerial, Present
  <2>2. r.serial \notin excused'
    BY <1>3
  <2> QED
    BY <1>2, <1>3, <2>1, <2>2
<1>4. CASE ~(r # None /\ r.serial = s)
  BY <1>1, <1>2, <1>4 DEF WithSerial, Present
<1> QED
  BY <1>3, <1>4

LEMMA OthersDisturbed ==
  ASSUME NEW w \in Workers, Disturbs(w), \A v \in Workers \ {w} : job'[v] = job[v],
         job'[w].step = "apply" /\ w \notin disturbed =>
           Matched(job[w])' /\ Written(job[w])' /\ Current(job[w])' /\ Adopting(job[w])'
  PROVE  Undisturbed'
<1> SUFFICES ASSUME NEW v \in Workers, job'[v].step = "apply", v \notin disturbed'
             PROVE  /\ Matched(job[v])' /\ Written(job[v])'
                    /\ Current(job[v])' /\ Adopting(job[v])'
  BY DEF Undisturbed, Applying
<1>1. CASE v = w
  BY <1>1 DEF Disturbs
<1>2. CASE v # w
  BY <1>2 DEF Disturbs
<1> QED
  BY <1>1, <1>2

LEMMA DisturbsType ==
  ASSUME TypeOK, NEW w \in Workers, Disturbs(w), \A v \in Workers : job'[v].step = job[v].step
  PROVE  disturbed' \subseteq {v \in Workers : job'[v].step = "apply"}
  BY DEF TypeOK, Disturbs

(* An admin changes a row by hand.                                         *)
LEMMA ByHandIInv == ASSUME IInv, NEW w \in Workers, ByHand(w) PROVE IInv'
<1>1. /\ Take(w) /\ Disturbs(w) /\ UNCHANGED <<account, job>>
      /\ excused \subseteq excused' /\ excused' \subseteq Serials \cup {None}
  BY DEF ByHand, NewTracker, EditTracker, DeleteTracker, IInv, TypeOK
<1>2. PICK i \in Ids, r \in Rows \cup {None} :
        /\ table' = [table EXCEPT ![i] = r]
        /\ used \subseteq used' /\ used' \subseteq Ids
        /\ r # None => i \in used' /\ r.serial \in excused'
  <2>1. ASSUME NEW i \in Ids, DeleteTracker(w, i)
        PROVE  table' = [table EXCEPT ![i] = None] /\ used' = used
    BY <2>1 DEF DeleteTracker
  <2>2. ASSUME NEW i \in Ids, NEW s \in Serials \cup {None}, EditTracker(w, i, s)
        PROVE  LET r == Row(table[i].name, s)
               IN  /\ table' = [table EXCEPT ![i] = r] /\ used' = used /\ i \in used
                   /\ r \in Rows /\ r.serial \in excused'
    <3>1. table[i] \in Rows /\ i \in used /\ table[i].name \in Names
      BY <2>2 DEF EditTracker, IInv, TypeOK, Present, Rows
    <3>2. Row(table[i].name, s) \in Rows /\ Row(table[i].name, s).serial = s
      BY <3>1, RowType
    <3> QED
      BY <2>2, <3>1, <3>2 DEF EditTracker, Update
  <2>3. ASSUME NEW i \in Ids, NEW s \in Serials \cup {None}, NEW n \in Names,
               NewTracker(w, i, n, s)
        PROVE  LET r == Row(n, s)
               IN  /\ table' = [table EXCEPT ![i] = r] /\ used' = used \cup {i}
                   /\ r \in Rows /\ r.serial \in excused'
    BY <2>3, RowType DEF NewTracker, Insert
  <2>4. used \subseteq Ids
    BY DEF IInv, TypeOK
  <2> QED
    BY <2>1, <2>2, <2>3, <2>4 DEF ByHand
<1>3. TypeOK'
  <2>1. posts' \in 0..MaxPosts
    BY <1>1, TrackersAssumption DEF Take, IInv, TypeOK
  <2>2. table' \in [Ids -> Rows \cup {None}] /\ Present(table') \subseteq used'
    BY <1>2, WriteTypes DEF IInv
  <2>3. disturbed' \subseteq {v \in Workers : job'[v].step = "apply"}
    BY <1>1, DisturbsType DEF IInv
  <2> QED
    BY <1>1, <1>2, <2>1, <2>2, <2>3 DEF IInv, TypeOK, Present
<1>4. AtMostOne'
  BY <1>1, <1>2, WriteOnce
<1>5. Listed'
  BY <1>1 DEF IInv, Listed, Applying
<1>6. Undisturbed'
  <2>1. job'[w].step = "idle"
    BY <1>1 DEF Take, Idle
  <2> QED
    BY <2>1, <1>1, OthersDisturbed
<1> QED
  BY <1>3, <1>4, <1>5, <1>6 DEF IInv

-----------------------------------------------------------------------------
(* A sync goes on                                                          *)
LEMMA ListedStep ==
  ASSUME IInv, NEW w \in Workers, NEW d \in Devices, Applying(w), Handled(w, d)
  PROVE  Listed' /\ \A v \in Workers : job'[v].step = job[v].step
<1>1. /\ \A v \in Workers \ {w} : job'[v] = job[v]
      /\ job'[w].step = "apply" /\ job'[w].list = job[w].list
      /\ job'[w].todo = job[w].todo \ {d}
  BY HandledJob DEF IInv
<1> QED
  BY <1>1 DEF IInv, Listed, Applying

LEMMA SyncWritesIInv ==
  ASSUME IInv, NEW w \in Workers, NEW d \in Devices,
         SyncUpdates(w, d) \/ \E i \in Ids : SyncAdds(w, d, i)
  PROVE  IInv'
<1>1. /\ Applying(w) /\ d \in job[w].todo /\ Handled(w, d) /\ Disturbs(w)
      /\ Excuses(w, d.serial) /\ UNCHANGED <<account, posts>>
  BY DEF SyncUpdates, SyncAdds, Applying, Handled
<1>2. d \in Rows /\ d # None /\ d.serial \in Serials /\ d.name \in Names
  BY RowType
<1>3. RowFor(job[w], d) \in Ids \cup {None}
  BY <1>1, <1>2, ApplyingJob DEF RowFor, IInv
<1>4. PICK i \in Ids : /\ RowFor(job[w], d) = i \/ (RowFor(job[w], d) = None /\ i \notin used)
                       /\ IF RowFor(job[w], d) = i THEN Update(i, d) ELSE Insert(i, d)
  <2>1. CASE SyncUpdates(w, d)
    <3>1. PICK i \in Ids : i = RowFor(job[w], d)
      BY <2>1, <1>3 DEF SyncUpdates
    <3>2. Update(i, d)
      BY <2>1, <3>1 DEF SyncUpdates
    <3> QED
      BY <3>1, <3>2
  <2>2. ASSUME NEW i \in Ids, SyncAdds(w, d, i)
        PROVE  /\ RowFor(job[w], d) = None /\ i \notin used /\ i # None /\ Insert(i, d)
    BY <2>2, TrackersAssumption DEF SyncAdds, Insert
  <2> QED
    BY <2>1, <2>2
<1>5. /\ used \subseteq used' /\ used' \subseteq Ids
      /\ \/ table' = table
         \/ table' = [table EXCEPT ![i] = d] /\ i \in used'
  BY <1>4 DEF Insert, Update, IInv, TypeOK, Present
<1>6. excused \subseteq excused' /\ excused' \subseteq Serials \cup {None}
  BY <1>1, <1>2 DEF Excuses, IInv, TypeOK
<1>7. ASSUME w \notin disturbed
      PROVE  /\ table' = [table EXCEPT ![i] = d]
             /\ i \in WithSerial(table, d.serial) \/ WithSerial(table, d.serial) = {}
  <2>1. \/ i \in WithSerial(job[w].seen, d.serial) /\ job[w].bySerial[d.serial] # None
        \/ /\ job[w].bySerial[d.serial] = None /\ job[w].byName[d.name] = i
           /\ i \in Legacy(job[w].seen, d.name) /\ table[i] = job[w].seen[i]
        \/ /\ job[w].bySerial[d.serial] = None /\ job[w].byName[d.name] = None
           /\ i \notin Present(job[w].seen) /\ table[i] = None
    BY <1>1, <1>4, <1>7, TodoTarget
  <2>2. /\ \A k \in WithSerial(job[w].seen, d.serial) : table[k] = job[w].seen[k]
        /\ job[w].bySerial[d.serial] = None => WithSerial(table, d.serial) = {}
    BY <1>1, <1>7, TodoRows
  <2>3. table' = [table EXCEPT ![i] = d]
    <3>1. CASE RowFor(job[w], d) # i
      BY <3>1, <1>4 DEF Insert
    <3>2. CASE RowFor(job[w], d) = i
      <4>1. i \in Present(job[w].seen) /\ table[i] = job[w].seen[i]
        BY <3>2, <2>1, <2>2, TrackersAssumption DEF RowFor, Legacy, WithSerial
      <4> QED
        BY <4>1, <3>2, <1>4 DEF Update, Present
    <3> QED
      BY <3>1, <3>2
  <2>4. i \in WithSerial(job[w].seen, d.serial) => i \in WithSerial(table, d.serial)
    BY <2>2 DEF WithSerial, Present
  <2> QED
    BY <2>1, <2>2, <2>3, <2>4
<1>8. Listed' /\ \A v \in Workers : job'[v].step = job[v].step
  BY <1>1, ListedStep
<1>9. /\ job' \in [Workers -> Jobs] /\ job'[w].step = "apply"
      /\ \A v \in Workers \ {w} : job'[v] = job[v]
  BY <1>1, HandledJob DEF IInv
<1>10. TypeOK'
  <2>1. table' \in [Ids -> Rows \cup {None}] /\ Present(table') \subseteq used'
    <3>1. CASE table' = table
      BY <3>1, <1>5 DEF IInv, TypeOK, Present
    <3>2. CASE table' = [table EXCEPT ![i] = d] /\ i \in used'
      BY <3>2, <1>2, <1>5, WriteTypes DEF IInv
    <3> QED
      BY <3>1, <3>2, <1>5
  <2>2. disturbed' \subseteq {v \in Workers : job'[v].step = "apply"}
    BY <1>1, <1>8, DisturbsType DEF IInv
  <2> QED
    BY <1>1, <1>5, <1>6, <1>9, <2>1, <2>2 DEF IInv, TypeOK, Present
<1>11. AtMostOne'
  <2>1. CASE table' = table
    BY <2>1, <1>6 DEF IInv, AtMostOne, WithSerial, Present
  <2>2. CASE table' = [table EXCEPT ![i] = d]
    <3>1. w \in disturbed => d.serial \in excused'
      BY <1>1 DEF Excuses
    <3> QED
      BY <2>2, <3>1, <1>2, <1>6, <1>7, WriteOnce
  <2> QED
    BY <2>1, <2>2, <1>5
<1>12. Undisturbed'
  <2>1. ASSUME w \notin disturbed
        PROVE  Matched(job[w])' /\ Written(job[w])' /\ Current(job[w])' /\ Adopting(job[w])'
    BY <2>1, <1>1, <1>4, <1>5, <1>7, DeviceWritten
  <2> QED
    BY <2>1, <1>1, <1>9, OthersDisturbed
<1> QED
  BY <1>8, <1>10, <1>11, <1>12 DEF IInv

(* Steps that write no row                                                 *)
LEMMA QuietStep ==
  ASSUME IInv, NEW w \in Workers, UNCHANGED <<table, used>>,
         \A v \in Workers \ {w} : job'[v] = job[v], disturbed \ {w} \subseteq disturbed',
         job'[w].step = "apply" /\ w \notin disturbed' =>
           Matched(job[w])' /\ Written(job[w])' /\ Current(job[w])' /\ Adopting(job[w])'
  PROVE  Undisturbed'
<1> SUFFICES ASSUME NEW v \in Workers, job'[v].step = "apply", v \notin disturbed', v # w
             PROVE  /\ Matched(job[v])' /\ Written(job[v])'
                    /\ Current(job[v])' /\ Adopting(job[v])'
  BY DEF Undisturbed, Applying
<1>1. /\ job'[v] = job[v] /\ Matched(job[v]) /\ Written(job[v])
      /\ Current(job[v]) /\ Adopting(job[v])
  BY DEF IInv, Undisturbed, Applying
<1>2. UNCHANGED <<table, used>> /\ job'[v] = job[v]
  BY <1>1
<1>3. Matched(job[v])' /\ Current(job[v])'
  BY <1>1, <1>2 DEF Matched, Current, HandledBy
<1>4. Written(job[v])' /\ Adopting(job[v])'
  BY <1>1, <1>2 DEF Written, Adopting, HandledBy
<1> QED
  BY <1>3, <1>4

LEMMA SyncSkipsIInv ==
  ASSUME IInv, NEW w \in Workers, NEW d \in Devices, SyncSkips(w, d)
  PROVE  IInv'
<1>1. /\ Applying(w) /\ d \in job[w].todo /\ Handled(w, d)
      /\ UNCHANGED <<account, table, used, posts, disturbed, excused>>
      /\ RowFor(job[w], d) # None /\ job[w].seen[RowFor(job[w], d)] = d
  BY DEF SyncSkips, Applying, Handled
<1>2. d.serial \in Serials /\ d.name \in Names /\ d.serial # None
  BY RowType
<1>3. RowFor(job[w], d) \in Ids
  BY <1>1, <1>2, ApplyingJob DEF RowFor, IInv
<1>4. Listed' /\ \A v \in Workers : job'[v].step = job[v].step
  BY <1>1, ListedStep
<1>5. /\ job' \in [Workers -> Jobs] /\ job'[w].step = "apply"
      /\ \A v \in Workers \ {w} : job'[v] = job[v]
  BY <1>1, HandledJob DEF IInv
<1>6. TypeOK'
  BY <1>1, <1>4, <1>5 DEF IInv, TypeOK, Present
<1>7. AtMostOne'
  BY <1>1 DEF IInv, AtMostOne
<1>8. ASSUME w \notin disturbed
      PROVE  Matched(job[w])' /\ Written(job[w])' /\ Current(job[w])' /\ Adopting(job[w])'
  <2>1. PICK i \in Ids : RowFor(job[w], d) = i \/ (RowFor(job[w], d) = None /\ i \notin used)
    BY <1>3
  <2>2. table[i] = d
    <3>1. \/ i \in WithSerial(job[w].seen, d.serial) \/ table[i] = job[w].seen[i]
          \/ i \notin Present(job[w].seen)
      BY <1>1, <2>1, <1>8, TodoTarget
    <3>2. \A k \in WithSerial(job[w].seen, d.serial) : table[k] = job[w].seen[k]
      BY <1>1, <1>8, TodoRows
    <3> QED
      BY <3>1, <3>2, <1>1, <2>1, RowType DEF Present
  <2>3. table' = [table EXCEPT ![i] = d]
    BY <2>2, <1>1 DEF IInv, TypeOK
  <2> QED
    BY <2>3, <2>1, <1>1, <1>8, DeviceWritten
<1>9. Undisturbed'
  BY <1>1, <1>5, <1>8, QuietStep
<1> QED
  BY <1>4, <1>6, <1>7, <1>9 DEF IInv

LEMMA SyncFetchesIInv == ASSUME IInv, NEW w \in Workers, SyncFetches(w) PROVE IInv'
<1> DEFINE list == {Row(account[s], s) : s \in {s \in Serials : account[s] # None}}
<1>1. /\ list \subseteq Devices /\ \A d, e \in list : d.serial = e.serial => d = e
  <2>1. \A s \in Serials : account[s] # None => account[s] \in Names
    BY DEF IInv, TypeOK
  <2> QED
    BY <2>1 DEF Row, Devices
<1>2. /\ job' = [job EXCEPT ![w] = [step |-> "fetched", list |-> list]]
      /\ disturbed' = disturbed \ {w} /\ posts' = posts + 1 /\ posts < MaxPosts
      /\ UNCHANGED <<account, table, used, excused>>
  BY DEF SyncFetches, Take
<1> HIDE DEF list
<1>3. /\ job' \in [Workers -> Jobs] /\ job'[w].step = "fetched" /\ job'[w].list = list
      /\ \A v \in Workers \ {w} : job'[v] = job[v]
  <2>1. [step |-> "fetched", list |-> list] \in Jobs
    BY <1>1 DEF Jobs
  <2> QED
    BY <2>1, <1>2 DEF IInv, TypeOK
<1>4. TypeOK'
  <2>1. posts' \in 0..MaxPosts
    BY <1>2, TrackersAssumption DEF IInv, TypeOK
  <2>2. disturbed' \subseteq {v \in Workers : job'[v].step = "apply"}
    BY <1>2, <1>3 DEF IInv, TypeOK
  <2> QED
    BY <1>2, <1>3, <2>1, <2>2 DEF IInv, TypeOK, Present
<1>5. Listed'
  BY <1>1, <1>3 DEF IInv, Listed, Applying
<1>6. AtMostOne'
  BY <1>2 DEF IInv, AtMostOne
<1>7. Undisturbed'
  BY <1>2, <1>3, QuietStep
<1> QED
  BY <1>4, <1>5, <1>6, <1>7 DEF IInv

LEMMA SyncReadsIInv == ASSUME IInv, NEW w \in Workers, SyncReads(w) PROVE IInv'
<1>1. PICK bySerial \in [Serials -> Ids \cup {None}], byName \in [Names -> Ids \cup {None}] :
        /\ \A s \in Serials : bySerial[s] \in OneOf(WithSerial(table, s))
        /\ \A n \in Names : byName[n] \in OneOf(Legacy(table, n))
        /\ job' = [job EXCEPT ![w] =
             [step |-> "apply", list |-> job[w].list, todo |-> job[w].list,
              seen |-> table, bySerial |-> bySerial, byName |-> byName]]
  BY DEF SyncReads
<1>2. /\ job[w].step = "fetched" /\ UNCHANGED <<account, table, used, posts, disturbed, excused>>
  BY DEF SyncReads
<1> DEFINE next == [step |-> "apply", list |-> job[w].list, todo |-> job[w].list,
                    seen |-> table, bySerial |-> bySerial, byName |-> byName]
<1>3. job[w].list \in SUBSET Devices
  BY <1>2 DEF IInv, TypeOK, Jobs, Idle
<1>4. next \in Jobs
  BY <1>3 DEF Jobs, IInv, TypeOK
<1>5. /\ next.step = "apply" /\ next.list = job[w].list /\ next.todo = job[w].list
      /\ next.seen = table /\ next.bySerial = bySerial /\ next.byName = byName
  OBVIOUS
<1> HIDE DEF next
<1>6. /\ job' \in [Workers -> Jobs] /\ job'[w] = next
      /\ \A v \in Workers \ {w} : job'[v] = job[v]
  BY <1>1, <1>4 DEF IInv, TypeOK, next
<1>7. TypeOK'
  BY <1>2, <1>5, <1>6 DEF IInv, TypeOK, Present
<1>8. Listed'
  BY <1>2, <1>5, <1>6 DEF IInv, Listed, Applying
<1>9. AtMostOne'
  BY <1>2 DEF IInv, AtMostOne
<1>10. Matched(next)
  <2>1. \A s \in Serials : WithSerial(table, s) \subseteq Ids
    BY DEF WithSerial, Present
  <2>2. \A n \in Names : Legacy(table, n) \subseteq Ids
    BY DEF Legacy, WithSerial, Present
  <2>3. \A s \in Serials : IF bySerial[s] = None THEN WithSerial(table, s) = {}
                                                 ELSE bySerial[s] \in WithSerial(table, s)
    BY <2>1, <1>1, TrackersAssumption DEF OneOf
  <2>4. \A n \in Names : byName[n] # None => byName[n] \in Legacy(table, n)
    BY <1>1 DEF OneOf
  <2> QED
    BY <2>3, <2>4, <1>5 DEF Matched, IInv, TypeOK
<1>11. Written(next) /\ Current(next)
  BY <1>5 DEF Written, Current, HandledBy
<1>12. Adopting(next)
  <2>1. \A n \in Names : byName[n] = None => Legacy(table, n) = {}
    <3>1. \A n \in Names : Legacy(table, n) \subseteq Ids
      BY DEF Legacy, WithSerial, Present
    <3> QED
      BY <3>1, <1>1, TrackersAssumption DEF OneOf
  <2> QED
    BY <2>1, <1>5 DEF Adopting
<1>13. Undisturbed'
  <2>1. Matched(job[w])' /\ Current(job[w])'
    BY <1>2, <1>6, <1>10, <1>11 DEF Matched, Current
  <2>2. Written(job[w])' /\ Adopting(job[w])'
    BY <1>2, <1>6, <1>11, <1>12 DEF Written, Adopting
  <2> QED
    BY <2>1, <2>2, <1>2, <1>6, QuietStep
<1> QED
  BY <1>7, <1>8, <1>9, <1>13 DEF IInv

LEMMA SyncEndsIInv == ASSUME IInv, NEW w \in Workers, SyncEnds(w) PROVE IInv'
<1>1. /\ job' = [job EXCEPT ![w] = Idle] /\ disturbed' = disturbed \ {w}
      /\ UNCHANGED <<account, table, used, posts, excused>>
  BY DEF SyncEnds
<1>2. /\ job' \in [Workers -> Jobs] /\ job'[w].step = "idle"
      /\ \A v \in Workers \ {w} : job'[v] = job[v]
  BY <1>1 DEF IInv, TypeOK, Jobs, Idle
<1>3. TypeOK'
  BY <1>1, <1>2 DEF IInv, TypeOK, Present
<1>4. Listed'
  BY <1>2 DEF IInv, Listed, Applying
<1>5. AtMostOne'
  BY <1>1 DEF IInv, AtMostOne
<1>6. Undisturbed'
  BY <1>1, <1>2, QuietStep
<1> QED
  BY <1>3, <1>4, <1>5, <1>6 DEF IInv

LEMMA AccountChangesIInv ==
  ASSUME IInv, NEW s \in Serials, NEW n \in Names \cup {None}, AccountChanges(s, n)
  PROVE  IInv'
<1>1. UNCHANGED <<table, used, job, disturbed, excused>>
  BY DEF AccountChanges
<1>2. TypeOK'
  <2>1. posts' \in 0..MaxPosts /\ account' \in [Serials -> Names \cup {None}]
    BY TrackersAssumption DEF AccountChanges, IInv, TypeOK
  <2> QED
    BY <1>1, <2>1 DEF IInv, TypeOK, Present
<1>3. Listed' /\ AtMostOne'
  BY <1>1 DEF IInv, Listed, AtMostOne, Applying
<1>4. Undisturbed'
  BY <1>1
  DEF IInv, Undisturbed, Applying, Matched, Written, Current, Adopting, HandledBy
<1> QED
  BY <1>2, <1>3, <1>4 DEF IInv

-----------------------------------------------------------------------------
LEMMA NextIInv == ASSUME IInv, [Next]_vars PROVE IInv'
<1>1. CASE UNCHANGED vars
  <2>1. UNCHANGED <<account, table, used, job, posts, disturbed, excused>>
    BY <1>1 DEF vars
  <2>2. TypeOK' /\ Listed' /\ AtMostOne'
    BY <2>1 DEF IInv, TypeOK, Listed, AtMostOne, Applying, Present
  <2>3. Undisturbed'
    BY <2>1
    DEF IInv, Undisturbed, Applying, Matched, Written, Current, Adopting, HandledBy
  <2> QED
    BY <2>2, <2>3 DEF IInv
<1>2. ASSUME NEW w \in Workers, Sync(w) PROVE IInv'
  BY <1>2, SyncFetchesIInv, SyncReadsIInv, SyncEndsIInv, SyncWritesIInv, SyncSkipsIInv DEF Sync
<1> QED
  BY <1>1, <1>2, ByHandIInv, AccountChangesIInv DEF Next

(* Every variable keeps its type.                                          *)
THEOREM TypeCorrect == Spec => []TypeOK
<1>1. IInv => TypeOK
  BY DEF IInv
<1> QED
  BY <1>1, InitIInv, NextIInv, PTL DEF Spec

(* However often a sync runs, dies half way and runs again, no two rows    *)
(* get the serial of one device, unless an admin typed it in or requests   *)
(* overlapped (trackers.py:231-252).                                       *)
THEOREM OneRow == Spec => []OneRowPerSerial
<1>1. ASSUME IInv, NEW s \in Serials \ excused PROVE Cardinality(WithSerial(table, s)) <= 1
  <2>1. \A i, k \in WithSerial(table, s) : i = k
    BY <1>1 DEF IInv, AtMostOne
  <2>2. CASE WithSerial(table, s) = {}
    BY <2>2, FS_EmptySet
  <2>3. CASE WithSerial(table, s) # {}
    <3>1. PICK i : WithSerial(table, s) = {i}
      BY <2>1, <2>3
    <3>2. Cardinality(WithSerial(table, s)) = 1
      BY <3>1, FS_Singleton
    <3> QED
      BY <3>2
  <2> QED
    BY <2>2, <2>3
<1>2. IInv => OneRowPerSerial
  BY <1>1 DEF OneRowPerSerial
<1> QED
  BY <1>2, InitIInv, NextIInv, PTL DEF Spec

(* A sync that had the table to itself leaves every device of its list in  *)
(* a row of its own, under its present name (trackers.py:231-254).         *)
THEOREM MakesCurrent == Spec => []SyncMakesCurrent
<1>1. IInv => SyncMakesCurrent
  BY DEF IInv, Undisturbed, Applying, Current, HandledBy, SyncMakesCurrent, Complete
<1> QED
  BY <1>1, InitIInv, NextIInv, PTL DEF Spec

(* It adds no row for a device while a legacy row of its name that it      *)
(* could tell from others stays behind (trackers.py:228-240).              *)
THEOREM Adopted == Spec => []LegacyAdopted
<1>1. ASSUME IInv, NEW w \in Workers, Complete(w), NEW d \in job[w].list, NEW i \in Ids,
             job[w].seen[i] = None, table[i] = d,
             NEW k \in Ids, Legacy(job[w].seen, d.name) = {k}
      PROVE  table[k].serial # None
  <2>1. /\ Applying(w) /\ w \notin disturbed /\ job[w].list \subseteq Devices
        /\ HandledBy(job[w]) = job[w].list
    BY <1>1, ApplyingJob DEF Complete, Applying, HandledBy, IInv
  <2>2. Written(job[w]) /\ Adopting(job[w])
    BY <1>1, <2>1 DEF IInv, Undisturbed
  <2>3. d # None /\ d.name \in Names /\ d.serial # None
    BY <2>1, RowType
  <2>4. job[w].byName[d.name] = None
    BY <1>1, <2>2, <2>3, RowType, TrackersAssumption DEF Written, WithSerial, Present
  <2>5. table[k] \in HandledBy(job[w])
    BY <1>1, <2>2, <2>3, <2>4 DEF Adopting
  <2> QED
    BY <2>1, <2>5, RowType
<1>2. IInv => LegacyAdopted
  BY <1>1 DEF LegacyAdopted
<1> QED
  BY <1>2, InitIInv, NextIInv, PTL DEF Spec

-----------------------------------------------------------------------------
(* TrackerList: arithmetic of rows counted by page and position.           *)
LEMMA Grid == ASSUME NEW z \in Nat \ {0}, NEW p \in Nat, NEW q \in Nat, p < q
              PROVE  p * z + z <= q * z /\ p * z \in Nat /\ q * z \in Nat
<1>1. PICK d \in Nat : q = p + 1 + d
  <2>1. q - p - 1 \in Nat
    OBVIOUS
  <2> QED
    BY <2>1
<1>2. q * z = p * z + z + d * z
  BY <1>1
<1>3. d * z \in Nat /\ p * z \in Nat /\ q * z \in Nat
  OBVIOUS
<1> QED
  BY <1>2, <1>3

(* Every number has a quotient and a remainder.                            *)
LEMMA Divided == ASSUME NEW n \in Nat, NEW z \in Nat \ {0}
                 PROVE  \E q \in 0..n, r \in 0..z - 1 : n = q * z + r
<1> DEFINE q == n \div z
           r == n % z
<1>1. n = q * z + r /\ r \in 0..z - 1 /\ q \in Int
  OBVIOUS
<1>2. q >= 0
  OBVIOUS
<1>3. q <= n
  OBVIOUS
<1> HIDE DEF q, r
<1> QED
  BY <1>1, <1>2, <1>3

(* The list has each row of the table once.                                *)
LEMMA SortedRows ==
  ASSUME NEW S, IsFiniteSet(S)
  PROVE  /\ SetToSeq(S) \in Seq(S)
         /\ \A k, l \in DOMAIN SetToSeq(S) : SetToSeq(S)[k] = SetToSeq(S)[l] => k = l
         /\ \A i \in S : \E k \in DOMAIN SetToSeq(S) : SetToSeq(S)[k] = i
<1> DEFINE n == Cardinality(S)
<1>1. n \in Nat /\ ExistsBijection(1..n, S)
  BY FS_CardinalityType
<1>2. \E f \in [1..n -> S] : IsInjective(f)
  BY <1>1 DEF ExistsBijection, Bijection, Injection
<1>3. SetToSeq(S) \in [1..n -> S] /\ IsInjective(SetToSeq(S))
  BY <1>2 DEF SetToSeq
<1>4. Cardinality(1..n) = n
  BY <1>1, FS_Interval
<1>5. SetToSeq(S) \in Injection(1..n, S)
  BY <1>3 DEF Injection
<1>6. SetToSeq(S) \in Surjection(1..n, S)
  BY <1>4, <1>5, FS_Injection
<1>7. SetToSeq(S) \in Seq(S)
  BY <1>1, <1>3
<1> QED
  BY <1>3, <1>6, <1>7 DEF Surjection, IsInjective

(* The community module's Min, of two numbers.                             *)
LEMMA LeastOfTwo == ASSUME NEW a \in Int, NEW b \in Int
                    PROVE  Min({a, b}) = IF a <= b THEN a ELSE b
<1>1. \E x \in {a, b} : \A y \in {a, b} : x <= y
  OBVIOUS
<1>2. Min({a, b}) \in {a, b} /\ \A y \in {a, b} : Min({a, b}) <= y
  BY <1>1 DEF Min
<1> QED
  BY <1>2

(* The rows of a page that begins within the list.                         *)
LEMMA RangedRows ==
  ASSUME NEW S, NEW sorted \in Seq(S), NEW z \in Nat \ {0}, NEW first \in 0..Len(sorted)
  PROVE  LET page == Ranged(sorted, [first |-> first, last |-> first + z - 1])
             here == IF Len(sorted) - first < z THEN Len(sorted) - first ELSE z
         IN  /\ Len(page) = here /\ DOMAIN page = 1..here
             /\ \A k \in 1..here : page[k] = sorted[first + k]
<1> DEFINE here == IF Len(sorted) - first < z THEN Len(sorted) - first ELSE z
           page == Ranged(sorted, [first |-> first, last |-> first + z - 1])
<1>1. Len(sorted) \in Nat /\ here \in 0..z /\ first + here \in first..Len(sorted)
  OBVIOUS
<1>2. Min({first + z - 1 + 1, Len(sorted)}) = first + here
  BY LeastOfTwo
<1> HIDE DEF here
<1>3. page = SubSeq(sorted, first + 1, first + here)
  BY <1>2 DEF Ranged
<1>4. PICK low \in Int, high \in Int : low = first + 1 /\ high = first + here
  BY <1>1
<1>5. /\ SubSeq(sorted, low, high) \in Seq(S)
      /\ Len(SubSeq(sorted, low, high)) = IF low <= high THEN high - low + 1 ELSE 0
      /\ \A i \in 1..high - low + 1 : SubSeq(sorted, low, high)[i] = sorted[low + i - 1]
  <2>1. \A i \in low..high : sorted[i] \in S
    BY <1>1, <1>4
  <2> HIDE DEF page
  <2> QED
    BY <2>1, SubSeqProperties
<1> HIDE DEF page
<1>6. Len(page) = here /\ DOMAIN page = 1..here
  BY <1>1, <1>3, <1>4, <1>5
<1>7. \A k \in 1..here : page[k] = sorted[first + k]
  BY <1>1, <1>3, <1>4, <1>5
<1> QED
  BY <1>6, <1>7 DEF page, here

(* What a page shows, and whether it offers Next.                          *)
LEMMA PageShown ==
  ASSUME NEW S, NEW sorted \in Seq(S), NEW args, ~args.filter,
         NEW p \in Nat, PageOf(args) = p, NEW z \in Nat \ {0}, SizeOf(args) = z,
         NEW first \in 0..Len(sorted), first = (p - 1) * z
  PROVE  LET list == ListTrackers(sorted, {}, args)
             here == IF Len(sorted) - first < z THEN Len(sorted) - first ELSE z
         IN  /\ DOMAIN list.shown = 1..here
             /\ \A k \in 1..here : list.shown[k] = sorted[first + k]
             /\ list.next = IF Len(sorted) - first < z THEN None ELSE p + 1
<1> DEFINE here == IF Len(sorted) - first < z THEN Len(sorted) - first ELSE z
           page == Ranged(sorted, ParsePage(args))
<1>1. page = Ranged(sorted, [first |-> first, last |-> first + z - 1])
  BY DEF ParsePage
<1>2. Len(page) = here /\ DOMAIN page = 1..here /\ \A k \in 1..here : page[k] = sorted[first + k]
  BY <1>1, RangedRows
<1> HIDE DEF page
<1>3. ListTrackers(sorted, {}, args) =
        [shown |-> page, next |-> NextPage(args, Len(page)), prev |-> PrevPage(args)]
  BY DEF ListTrackers, page
<1>4. NextPage(args, Len(page)) = IF here >= z THEN p + 1 ELSE None
  BY <1>2 DEF NextPage
<1>5. Len(sorted) \in Nat /\ (here >= z <=> ~(Len(sorted) - first < z))
  OBVIOUS
<1> QED
  BY <1>2, <1>3, <1>4, <1>5

(* The arguments of a walk: its page size is positive, its pages are asked *)
(* for by their numbers.                                                   *)
LEMMA WalkArgs ==
  ASSUME NEW size \in {None} \cup Nat, NEW p \in 1..MaxPage
  PROVE  LET args == [page |-> None, page_size |-> size, filter |-> FALSE]
         IN  /\ SizeOf(args) \in Nat \ {0}
             /\ SizeOf(Following(args, p)) = SizeOf(args)
             /\ PageOf(Following(args, p)) = p
             /\ ~Following(args, p).filter
  BY TrackerListAssumption DEF SizeOf, PageOf, Following, ParseInt

(* What it is to be in Places.                                             *)
LEMMA PlacesAre ==
  ASSUME NEW i, NEW pages, NEW place
  PROVE  place \in Places(i, pages) <=>
           \E p \in DOMAIN pages : \E k \in DOMAIN pages[p].shown :
             place = <<p, k>> /\ pages[p].shown[k] = i
  BY DEF Places

(* Next leads to the last page, and each row has one place on the way,     *)
(* which its number tells.                                                 *)
Paged(last, sorted, args) ==
  /\ Linked(Walk(last, sorted, args))
  /\ \A k \in DOMAIN sorted : \E place \in (1..last) \X Nat :
       /\ Places(sorted[k], Walk(last, sorted, args)) = {place}
       /\ k = (place[1] - 1) * SizeOf(args) + place[2]
       /\ place[2] \in 1..SizeOf(args)

(* Of a list that has each row once, the pages of a walk show each once.   *)
LEMMA PagesReach ==
  ASSUME NEW S, NEW sorted \in Seq(S), Len(sorted) < MaxPage, NEW size \in {None} \cup Nat,
         \A k, l \in DOMAIN sorted : sorted[k] = sorted[l] => k = l
  PROVE  LET args == [page |-> None, page_size |-> size, filter |-> FALSE]
         IN  \E last \in 1..MaxPage : Paged(last, sorted, args)
<1> DEFINE args == [page |-> None, page_size |-> size, filter |-> FALSE]
           z == SizeOf(args)
           n == Len(sorted)
<1>1. MaxPage \in Nat \ {0} /\ n \in Nat /\ DOMAIN sorted = 1..n
  BY TrackerListAssumption
<1>2. z \in Nat \ {0}
  BY <1>1, WalkArgs
<1>3. PICK q \in 0..n, r \in 0..z - 1 : n = q * z + r
  BY <1>1, <1>2, Divided
<1> HIDE DEF z, n
<1> DEFINE last == q + 1
           pages == Walk(last, sorted, args)
           first(p) == (p - 1) * z
           here(p) == IF n - first(p) < z THEN n - first(p) ELSE z
<1>4. last \in 1..MaxPage
  BY <1>1, <1>3
<1>5. ASSUME NEW p \in 1..last
      PROVE  /\ first(p) \in 0..n
             /\ p < last => first(p) + z <= q * z /\ ~(n - first(p) < z)
             /\ p = last => n - first(p) = r /\ n - first(p) < z
  <2>1. CASE p < last
    <3>1. first(p) + z <= q * z /\ first(p) \in Nat /\ q * z \in Nat
      BY <1>2, <1>3, <2>1, Grid, p - 1 \in Nat, q \in Nat, p - 1 < q
    <3> HIDE DEF first
    <3> QED
      BY <1>1, <1>2, <1>3, <2>1, <3>1
  <2>2. CASE p = last
    <3>1. first(p) = q * z /\ q * z \in Int
      BY <1>1, <1>2, <1>3, <2>2
    <3>2. q * z >= 0 /\ n = q * z + r
      BY <1>2, <1>3
    <3>3. PICK full \in Nat : full = q * z
      BY <3>1, <3>2
    <3>4. first(p) = full /\ n = full + r /\ last = p
      BY <2>2, <3>1, <3>2, <3>3
    <3>5. full \in 0..n /\ n - full = r /\ r < z
      BY <1>1, <1>2, <1>3, <3>3, <3>4
    <3> HIDE DEF first, last
    <3> QED
      BY <3>4, <3>5
  <2> QED
    BY <2>1, <2>2, <1>1, <1>3
<1>6. ASSUME NEW p \in 1..last
      PROVE  /\ DOMAIN pages[p].shown = 1..here(p)
             /\ \A k \in 1..here(p) : pages[p].shown[k] = sorted[first(p) + k]
             /\ pages[p].next = IF p = last THEN None ELSE p + 1
  <2>1. pages[p] = ListTrackers(sorted, {}, Following(args, p))
    BY DEF Walk
  <2>2. /\ PageOf(Following(args, p)) = p /\ SizeOf(Following(args, p)) = z
        /\ ~Following(args, p).filter /\ p \in Nat
    <3>1. p \in 1..MaxPage
      BY <1>1, <1>4
    <3> QED
      BY <3>1, WalkArgs DEF z
  <2>3. first(p) \in 0..Len(sorted) /\ (n - first(p) < z <=> p = last)
    <3>1. p < last \/ p = last
      BY <1>1, <1>4
    <3>2. n = Len(sorted)
      BY DEF n
    <3> HIDE DEF first, last
    <3> QED
      BY <1>5, <3>1, <3>2
  <2>4. PICK f \in 0..Len(sorted) : f = first(p) /\ f = (p - 1) * z
    BY <2>3
  <2> HIDE DEF pages, args, first, last
  <2>5. LET list == ListTrackers(sorted, {}, Following(args, p))
            shown == IF Len(sorted) - f < z THEN Len(sorted) - f ELSE z
        IN  /\ DOMAIN list.shown = 1..shown
            /\ \A k \in 1..shown : list.shown[k] = sorted[f + k]
            /\ list.next = IF Len(sorted) - f < z THEN None ELSE p + 1
    BY <1>2, <2>2, <2>4, PageShown
  <2> QED
    BY <2>1, <2>3, <2>4, <2>5 DEF n
<1>7. Linked(pages)
  <2>1. DOMAIN pages = 1..last /\ Len(pages) = last
    BY <1>4, <1>1 DEF Walk
  <2> HIDE DEF pages
  <2> QED
    BY <1>6, <2>1 DEF Linked
<1>8. ASSUME NEW k \in DOMAIN sorted
      PROVE  \E p \in 1..last : \E m \in 1..z :
               /\ m \in 1..here(p)
               /\ k = first(p) + m
  <2>1. k - 1 \in Nat /\ k \in 1..n
    BY <1>1
  <2>2. PICK c \in 0..k - 1, m \in 0..z - 1 : k - 1 = c * z + m
    BY <1>2, <2>1, Divided
  <2>3. c <= q
    <3>1. CASE q < c
      <4>1. q * z + z <= c * z /\ q * z \in Nat /\ c * z \in Nat
        BY <1>2, <1>3, <2>1, <2>2, <3>1, Grid
      <4> QED
        BY <1>1, <1>2, <1>3, <2>1, <2>2, <4>1
    <3> QED
      BY <1>1, <1>3, <2>1, <2>2, <3>1
  <2>4. c + 1 \in 1..last /\ m + 1 \in 1..z
    BY <1>1, <1>2, <1>3, <2>1, <2>2, <2>3
  <2>5. first(c + 1) = c * z
    BY <2>1, <2>2
  <2>6. k = first(c + 1) + (m + 1) /\ first(c + 1) \in 0..n
    <3>1. first(c + 1) \in 0..n
      BY <1>5, <2>4
    <3>2. k - 1 = first(c + 1) + m /\ m \in Nat /\ k \in Nat
      BY <1>1, <1>2, <2>1, <2>2, <2>5
    <3>3. PICK f \in Nat : f = first(c + 1)
      BY <1>1, <3>1
    <3>4. k = f + (m + 1)
      BY <3>2, <3>3
    <3> HIDE DEF first
    <3> QED
      BY <3>1, <3>3, <3>4
  <2>7. m + 1 \in 1..here(c + 1)
    <3> HIDE DEF first
    <3> QED
      BY <1>1, <1>2, <2>1, <2>4, <2>6
  <2> HIDE DEF first, last, here
  <2> QED
    BY <2>4, <2>6, <2>7
<1>9. ASSUME NEW p \in 1..last, NEW o \in 1..last, NEW m \in 1..z, NEW l \in 1..z,
             first(p) + m = first(o) + l
      PROVE  p = o /\ m = l
  <2>1. ASSUME NEW a \in 1..last, NEW b \in 1..last, a < b
        PROVE  first(a) + z <= first(b)
    BY <1>1, <1>2, <1>3, <2>1, Grid, a - 1 \in Nat, b - 1 \in Nat, a - 1 < b - 1
  <2>2. first(p) \in Int /\ first(o) \in Int /\ p \in Int /\ o \in Int
    BY <1>1, <1>3, <1>5
  <2> HIDE DEF first, last
  <2> QED
    BY <1>2, <1>9, <2>1, <2>2
<1> HIDE DEF pages, first, here, last, args
<1>10. ASSUME NEW k \in DOMAIN sorted
       PROVE  \E place \in (1..last) \X Nat :
                /\ Places(sorted[k], pages) = {place}
                /\ k = (place[1] - 1) * z + place[2]
                /\ place[2] \in 1..z
  <2>1. PICK p \in 1..last, m \in 1..z : m \in 1..here(p) /\ k = first(p) + m
    BY <1>8
  <2>2. DOMAIN pages = 1..last
    BY DEF pages, Walk
  <2>3. <<p, m>> \in Places(sorted[k], pages)
    <3>1. m \in DOMAIN pages[p].shown /\ pages[p].shown[m] = sorted[k]
      BY <1>6, <2>1
    <3> QED
      BY <2>2, <3>1, PlacesAre
  <2>4. ASSUME NEW place \in Places(sorted[k], pages) PROVE place = <<p, m>>
    <3> DEFINE Shows(o, l) == place = <<o, l>> /\ pages[o].shown[l] = sorted[k]
    <3>1. \E o \in 1..last : \E l \in DOMAIN pages[o].shown : Shows(o, l)
      <4>1. \E o \in DOMAIN pages : \E l \in DOMAIN pages[o].shown :
              place = <<o, l>> /\ pages[o].shown[l] = sorted[k]
        BY <2>4, PlacesAre
      <4> QED
        BY <2>2, <4>1
    <3>2. PICK o \in 1..last : \E l \in DOMAIN pages[o].shown : Shows(o, l)
      BY <3>1
    <3>3. PICK l \in DOMAIN pages[o].shown : Shows(o, l)
      BY <3>2
    <3>4. l \in 1..here(o) /\ sorted[first(o) + l] = sorted[k]
      BY <1>6, <3>3
    <3>5. l \in 1..z /\ first(o) + l \in 1..n
      <4>1. first(o) \in 0..n
        BY <1>5
      <4> QED
        BY <1>1, <1>2, <3>4, <4>1 DEF here
    <3>6. first(o) + l = first(p) + m
      BY <1>1, <2>1, <3>4, <3>5
    <3> QED
      BY <1>9, <2>1, <3>3, <3>5, <3>6
  <2>5. Places(sorted[k], pages) = {<<p, m>>}
    BY <2>3, <2>4
  <2>6. <<p, m>> \in (1..last) \X Nat /\ k = (p - 1) * z + m
    BY <1>2, <2>1 DEF first
  <2> QED
    BY <2>1, <2>5, <2>6
<1> QED
  BY <1>4, <1>7, <1>10 DEF Paged, pages, args, z

(* What comes later in the list comes later on the pages.                  *)
LEMMA InOrder ==
  ASSUME NEW z \in Nat \ {0}, NEW p \in Nat \ {0}, NEW q \in Nat \ {0},
         NEW m \in 1..z, NEW l \in 1..z, (p - 1) * z + m < (q - 1) * z + l
  PROVE  p < q \/ (p = q /\ m < l)
<1>1. PICK f \in Nat, g \in Nat : f = (p - 1) * z /\ g = (q - 1) * z
  OBVIOUS
<1>2. q < p => g + z <= f
  BY <1>1, Grid, p - 1 \in Nat, q - 1 \in Nat
<1>3. p = q => f = g
  BY <1>1
<1>4. f + m < g + l
  BY <1>1
<1>5. CASE p < q
  BY <1>5
<1>6. CASE p = q
  <2>1. m < l
    BY <1>3, <1>4, <1>6
  <2> QED
    BY <2>1, <1>6
<1>7. CASE q < p
  BY <1>1, <1>2, <1>4, <1>7
<1> QED
  BY <1>5, <1>6, <1>7

(* The two together, for the rows of the table.                            *)
LEMMA ListReaches == Present(table) \subseteq Ids => ListReachesAll
<1> DEFINE sorted == SetToSeq(Present(table))
           args(size) == [page |-> None, page_size |-> size, filter |-> FALSE]
           pages(last, size) == Walk(last, sorted, args(size))
           Reaches(last, size) ==
             /\ Linked(pages(last, size))
             /\ \A i \in Present(table) : Cardinality(Places(i, pages(last, size))) = 1
             /\ \A k, l \in DOMAIN sorted : k < l =>
                  \A place \in Places(sorted[k], pages(last, size)),
                     other \in Places(sorted[l], pages(last, size)) : Before(place, other)
<1> SUFFICES ASSUME Present(table) \subseteq Ids, Len(sorted) < MaxPage,
                    NEW size \in {None} \cup 0..MaxPageSize + 1
             PROVE  \E last \in 1..MaxPage : Reaches(last, size)
  BY DEF ListReachesAll
<1>1. size \in {None} \cup Nat /\ 1 \in 1..MaxPage
  BY TrackerListAssumption
<1>2. IsFiniteSet(Present(table))
  BY FS_Subset, TrackerListAssumption
<1>3. /\ sorted \in Seq(Present(table))
      /\ \A k, l \in DOMAIN sorted : sorted[k] = sorted[l] => k = l
      /\ \A i \in Present(table) : \E k \in DOMAIN sorted : sorted[k] = i
  BY <1>2, SortedRows
<1> DEFINE z == SizeOf(args(size))
<1>4. z \in Nat \ {0}
  BY <1>1, WalkArgs
<1> HIDE DEF sorted
<1>5. PICK last \in 1..MaxPage : Paged(last, sorted, args(size))
  BY <1>1, <1>3, PagesReach
<1> HIDE DEF z, pages
<1>6. ASSUME NEW i \in Present(table) PROVE Cardinality(Places(i, pages(last, size))) = 1
  <2>1. PICK k \in DOMAIN sorted : sorted[k] = i
    BY <1>3
  <2>2. PICK place : Places(sorted[k], pages(last, size)) = {place}
    BY <1>5 DEF Paged, pages, z
  <2> QED
    BY <2>1, <2>2, FS_Singleton
<1>7. ASSUME NEW k \in DOMAIN sorted, NEW l \in DOMAIN sorted, k < l,
             NEW place \in Places(sorted[k], pages(last, size)),
             NEW other \in Places(sorted[l], pages(last, size))
      PROVE  Before(place, other)
  <2>1. /\ place \in (1..last) \X Nat /\ k = (place[1] - 1) * z + place[2]
        /\ place[2] \in 1..z
    BY <1>5 DEF Paged, pages, z
  <2>2. /\ other \in (1..last) \X Nat /\ l = (other[1] - 1) * z + other[2]
        /\ other[2] \in 1..z
    BY <1>5 DEF Paged, pages, z
  <2>3. PICK p \in Nat \ {0}, m \in 1..z : p = place[1] /\ m = place[2]
    BY <2>1
  <2>4. PICK q \in Nat \ {0}, h \in 1..z : q = other[1] /\ h = other[2]
    BY <2>2
  <2>5. (p - 1) * z + m < (q - 1) * z + h
    BY <1>7, <2>1, <2>2, <2>3, <2>4
  <2>6. p < q \/ (p = q /\ m < h)
    BY <1>4, <2>5, InOrder
  <2> QED
    BY <2>3, <2>4, <2>6 DEF Before
<1> QED
  BY <1>5, <1>6, <1>7 DEF Paged, pages

(* Whatever the size of a page, Next leads through every tracker of the    *)
(* list, each once and in its order (pagination.py:25-57): shown for any   *)
(* table with fewer rows than MaxPage.                                     *)
THEOREM ListReached == Spec => []ListReachesAll
<1>1. Present(table) \subseteq Ids
  BY DEF Present
<1>2. ListReachesAll
  BY <1>1, ListReaches
<1> QED
  BY <1>2, PTL

=============================================================================
