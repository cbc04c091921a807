------------------------------ MODULE Trackers ------------------------------
(***************************************************************************)
(* The table of trackers (webapp/blueprints/trackers.py) and its sync with *)
(* the devices of the Google account: admins enter, edit and delete rows,  *)
(* and a sync fetches the device list, reads the table once and then adds  *)
(* or updates one row after the other, by what it read.  Calls of several  *)
(* requests interleave, and a request may die between two of them.         *)
(*                                                                         *)
(* A device is a name and a serial number, Google's canonic_id; the same   *)
(* pair in a row makes the row that device's.  Nothing in the database     *)
(* keeps serials or names unique.                                          *)
(***************************************************************************)
EXTENDS Naturals, FiniteSets

CONSTANTS
  Names, Serials,
  Ids,       \* bound: rows ever inserted
  Workers,   \* webapp workers
  MaxPosts,  \* bound: requests
  None       \* no serial, no name, no row

ASSUME TrackersAssumption ==
  /\ MaxPosts \in Nat
  /\ None \notin Names \cup Serials \cup Ids
  /\ None \notin [name : Names, serial : Serials \cup {None}]

VARIABLES
  account,    \* the name of each device of the account, or None
  table,      \* trackers: the row of each id, or None
  used,       \* ids taken so far
  job,        \* the sync each worker runs
  posts,      \* requests so far
  disturbed,  \* history: syncs that others changed the table under
  excused     \* history: serials entered by hand, or written by such a sync

vars == <<account, table, used, job, posts, disturbed, excused>>

Row(n, s) == [name |-> n, serial |-> s]
Rows      == [name : Names, serial : Serials \cup {None}]
Devices   == [name : Names, serial : Serials]

Idle == [step |-> "idle"]
Jobs == {Idle} \cup [step : {"fetched"}, list : SUBSET Devices]
          \cup [step : {"apply"}, list : SUBSET Devices, todo : SUBSET Devices,
                seen : [Ids -> Rows \cup {None}],
                bySerial : [Serials -> Ids \cup {None}],
                byName : [Names -> Ids \cup {None}]]

Present(t)         == {i \in Ids : t[i] # None}
WithSerial(t, s)   == {i \in Present(t) : t[i].serial = s}
Legacy(t, n)       == {i \in WithSerial(t, None) : t[i].name = n}

Init ==
  /\ account \in [Serials -> Names \cup {None}]
  /\ \E old \in SUBSET Ids : \E n \in [old -> Names] :
       /\ used = old
       /\ table = [i \in Ids |-> IF i \in old THEN Row(n[i], None) ELSE None]
  /\ job = [w \in Workers |-> Idle]
  /\ posts = 0 /\ disturbed = {} /\ excused = {}

-----------------------------------------------------------------------------
(* Devices are added to the account, renamed and removed.                  *)
AccountChanges(s, n) ==
  /\ posts < MaxPosts /\ posts' = posts + 1
  /\ account[s] # n
  /\ account' = [account EXCEPT ![s] = n]
  /\ UNCHANGED <<table, used, job, disturbed, excused>>

Take(w) == job[w] = Idle /\ posts < MaxPosts /\ posts' = posts + 1

(* A write disturbs the syncs of the other workers.                        *)
Disturbs(w) ==
  disturbed' = disturbed \cup {v \in Workers \ {w} : job[v].step = "apply"}

Insert(i, row) ==
  /\ i \in Ids \ used /\ used' = used \cup {i}
  /\ table' = [table EXCEPT ![i] = row]

(* An update of a row that is gone changes nothing.                        *)
Update(i, row) ==
  /\ table' = IF table[i] = None THEN table ELSE [table EXCEPT ![i] = row]
  /\ UNCHANGED used

NewTracker(w, i, n, s) ==
  /\ Take(w)
  /\ Insert(i, Row(n, s))
  /\ excused' = excused \cup {s}
  /\ Disturbs(w)
  /\ UNCHANGED <<account, job>>

(* Variant: an empty field is stored as it is, without "or None".          *)
EditTrackerVerbatim(w, i, s) ==
  /\ Take(w)
  /\ table[i] # None /\ s # table[i].serial
  /\ Update(i, Row(table[i].name, IF s = None THEN "" ELSE s))
  /\ excused' = excused \cup {s}
  /\ Disturbs(w)
  /\ UNCHANGED <<account, job>>

(* The name cannot be edited; an empty field is no serial.                 *)
EditTracker(w, i, s) ==
  /\ Take(w)
  /\ table[i] # None /\ s # table[i].serial
  /\ Update(i, Row(table[i].name, s))
  /\ excused' = excused \cup {s}
  /\ Disturbs(w)
  /\ UNCHANGED <<account, job>>

(* Of a tracker no order holds: the check of that is in Orders.            *)
DeleteTracker(w, i) ==
  /\ Take(w)
  /\ table[i] # None
  /\ table' = [table EXCEPT ![i] = None]
  /\ Disturbs(w)
  /\ UNCHANGED <<account, used, job, excused>>

-----------------------------------------------------------------------------
(* sync_trackers gets the list from the middleware, ...                    *)
SyncFetches(w) ==
  /\ Take(w)
  /\ job' = [job EXCEPT ![w] =
       [step |-> "fetched",
        list |-> {Row(account[s], s) : s \in {s \in Serials : account[s] # None}}]]
  /\ disturbed' = disturbed \ {w}
  /\ UNCHANGED <<account, table, used, excused>>

(* Of several rows with one key a dictionary keeps the last one.           *)
OneOf(ids) == IF ids = {} THEN {None} ELSE ids

(* ... reads the table, ...                                                *)
SyncReads(w) ==
  /\ job[w].step = "fetched"
  /\ \E bySerial \in [Serials -> Ids \cup {None}], byName \in [Names -> Ids \cup {None}] :
       /\ \A s \in Serials : bySerial[s] \in OneOf(WithSerial(table, s))
       /\ \A n \in Names : byName[n] \in OneOf(Legacy(table, n))
       /\ job' = [job EXCEPT ![w] =
            [step |-> "apply", list |-> job[w].list, todo |-> job[w].list,
             seen |-> table, bySerial |-> bySerial, byName |-> byName]]
  /\ UNCHANGED <<account, table, used, posts, disturbed, excused>>

(* Variants: rows are matched by name only, or by serial only.             *)
RowForNameOnly(j, d) == j.byName[d.name]

RowForSerialOnly(j, d) == j.bySerial[d.serial]

(* The row a device goes to: by its serial, else by its name if that row   *)
(* has no serial; the latter is taken once.                                *)
RowFor(j, d) == IF j.bySerial[d.serial] # None THEN j.bySerial[d.serial] ELSE j.byName[d.name]

(* Variant: a legacy row is not used up.                                   *)
HandledKeepingName(w, d) ==
  /\ job' = [job EXCEPT ![w].todo = @ \ {d}]
  /\ UNCHANGED <<account, posts>>

Handled(w, d) ==
  /\ job' = [job EXCEPT
       ![w].todo = @ \ {d},
       ![w].byName[d.name] = IF job[w].bySerial[d.serial] = None THEN None ELSE @]
  /\ UNCHANGED <<account, posts>>

Excuses(w, s) == excused' = IF w \in disturbed THEN excused \cup {s} ELSE excused

(* ... and adds or updates a row for a device, or finds it current.        *)
SyncAdds(w, d, i) ==
  /\ job[w].step = "apply" /\ d \in job[w].todo
  /\ RowFor(job[w], d) = None
  /\ Insert(i, d)
  /\ Handled(w, d)
  /\ Excuses(w, d.serial)
  /\ Disturbs(w)

SyncUpdates(w, d) ==
  /\ job[w].step = "apply" /\ d \in job[w].todo
  /\ RowFor(job[w], d) # None /\ job[w].seen[RowFor(job[w], d)] # d
  /\ Update(RowFor(job[w], d), d)
  /\ Handled(w, d)
  /\ Excuses(w, d.serial)
  /\ Disturbs(w)

SyncSkips(w, d) ==
  /\ job[w].step = "apply" /\ d \in job[w].todo
  /\ RowFor(job[w], d) # None /\ job[w].seen[RowFor(job[w], d)] = d
  /\ Handled(w, d)
  /\ UNCHANGED <<table, used, disturbed, excused>>

(* It is done, or it dies on the way.                                      *)
SyncEnds(w) ==
  /\ job[w] # Idle
  /\ job' = [job EXCEPT ![w] = Idle]
  /\ disturbed' = disturbed \ {w}
  /\ UNCHANGED <<account, table, used, posts, excused>>

Sync(w) ==
  \/ SyncFetches(w) \/ SyncReads(w) \/ SyncEnds(w)
  \/ \E d \in Devices : \/ SyncUpdates(w, d) \/ SyncSkips(w, d)
                        \/ \E i \in Ids : SyncAdds(w, d, i)

ByHand(w) ==
  \E i \in Ids :
    \/ DeleteTracker(w, i)
    \/ \E s \in Serials \cup {None} : \/ EditTracker(w, i, s)
                                      \/ \E n \in Names : NewTracker(w, i, n, s)

Next == \/ \E w \in Workers : Sync(w) \/ ByHand(w)
        \/ \E s \in Serials, n \in Names \cup {None} : AccountChanges(s, n)

Spec == Init /\ [][Next]_vars

-----------------------------------------------------------------------------
(* Rows, dictionaries and syncs are well formed; a row without a serial    *)
(* holds null, never an empty text (trackers.py:127, 144).                 *)
TypeOK ==
  /\ account \in [Serials -> Names \cup {None}]
  /\ table \in [Ids -> Rows \cup {None}]
  /\ Present(table) \subseteq used /\ used \subseteq Ids
  /\ job \in [Workers -> Jobs]
  /\ posts \in 0..MaxPosts
  /\ disturbed \subseteq {w \in Workers : job[w].step = "apply"}
  /\ excused \subseteq Serials \cup {None}

(* "upserts on this value" (schema.sql:53): no two rows get the serial of  *)
(* one device, however often a sync runs, dies half way and runs again;    *)
(* unless an admin typed it in or requests overlapped                      *)
(* (trackers.py:231-252).                                                  *)
OneRowPerSerial ==
  \A s \in Serials \ excused : Cardinality(WithSerial(table, s)) <= 1

(* The sync of w has gone through the list with the table to itself.       *)
Complete(w) == job[w].step = "apply" /\ job[w].todo = {} /\ w \notin disturbed

(* A sync that had the table to itself leaves every device of the list in  *)
(* a row of its own, under its present name (trackers.py:231-254).         *)
SyncMakesCurrent ==
  \A w \in Workers : Complete(w) =>
    \A d \in job[w].list : \E i \in Ids : table[i] = d

(* "so we adopt them in place instead of creating duplicates": no row is   *)
(* added for a device while a row of its name, without a serial, that the  *)
(* sync could tell from others stays behind (trackers.py:228-240).         *)
LegacyAdopted ==
  \A w \in Workers : Complete(w) =>
    \A d \in job[w].list :
      (\E i \in Ids : job[w].seen[i] = None /\ table[i] = d) =>
        \A i \in Ids : Legacy(job[w].seen, d.name) = {i} => table[i].serial # None
=============================================================================
