---------------------------- MODULE Orders_proofs ----------------------------
(***************************************************************************)
(* Proofs about Orders, for any number of orders, trackers, tabs, requests *)
(* and, but for the last theorem, worker processes.                        *)
(***************************************************************************)
EXTENDS Orders, TLAPS

Steps == {"write", "look", "release", "flip"}

PairsOf(o) == {o} \X HeldBy(o)

(* What a request has established by the time it makes its next call.      *)
JobKnows(j) ==
  /\ j.step = "write" => j.to \in Open
  /\ j.step \in {"look", "release", "flip"} =>
       j.to \in Terminal /\ (j.to = "completed" => j.order \in activated)
  /\ j.step = "flip" => PairsOf(j.order) \subseteq late
  /\ j.step = "delete" => Orders \X {j.tracker} \cap assigned \subseteq late

JobsKnow == \A w \in Workers : JobKnows(job[w])

ActiveNoted == \A o \in Orders : status[o] \in {"active", "completed"} => o \in activated

IInv == TypeOK /\ JobsKnow /\ ActiveNoted

-----------------------------------------------------------------------------
(* What the step of a job tells of its other fields.                       *)
LEMMA JobShape == ASSUME NEW j \in Jobs
                  PROVE  /\ j.step \in Steps => /\ j \in [step : Steps, order : Orders, to : Statuses]
                                                /\ j.order \in Orders /\ j.to \in Statuses
                         /\ j.step = "delete" => j.tracker \in Trackers
                         /\ j.step \in Steps \cup {"idle", "delete"}
<1>1. CASE j = Idle
  BY <1>1 DEF Idle, Steps
<1>2. CASE j \in [step : Steps, order : Orders, to : Statuses]
  BY <1>2 DEF Steps
<1>3. CASE j \in [step : {"delete"}, tracker : Trackers]
  BY <1>3 DEF Steps
<1> QED
  BY <1>1, <1>2, <1>3 DEF Jobs, Steps

LEMMA InitIInv == Init => IInv
<1> SUFFICES ASSUME Init PROVE IInv
  OBVIOUS
<1> USE DEF Init
<1>1. TypeOK
  BY DEF TypeOK, Jobs, Exists
<1>2. JobsKnow
  BY DEF JobsKnow, JobKnows, Idle
<1>3. ActiveNoted
  BY DEF ActiveNoted
<1> QED
  BY <1>1, <1>2, <1>3 DEF IInv

(* Taking a request that only goes on to make calls.                       *)
LEMMA StartsIInv == ASSUME IInv, NEW w \in Workers, NEW j \in Jobs, JobKnows(j),
                           Take(w), Starts(w, j),
                           page' \in [Tabs -> Pages \cup {NoPage}]
                    PROVE  IInv'
<1> USE DEF IInv, Take, Starts, db
<1>1. TypeOK'
  BY DEF TypeOK, Exists
<1>2. JobsKnow'
  <2> SUFFICES ASSUME NEW v \in Workers PROVE JobKnows(job[v])'
    BY DEF JobsKnow
  <2>1. job'[v] = IF v = w THEN j ELSE job[v]
    BY DEF TypeOK
  <2> QED
    BY <2>1 DEF JobsKnow, JobKnows, PairsOf, HeldBy
<1>3. ActiveNoted'
  BY DEF ActiveNoted
<1> QED
  BY <1>1, <1>2, <1>3

LEMMA PostedPage == ASSUME IInv, NEW w \in Workers, NEW b \in Tabs, NEW o \in Orders, PostFrom(w, b, o)
                    PROVE  page' \in [Tabs -> Pages \cup {NoPage}]
  BY DEF PostFrom, IInv, TypeOK

LEMMA PostIInv == ASSUME IInv, NEW w \in Workers, NEW b \in Tabs, NEW o \in Orders, NEW s \in Statuses,
                         EditOrder(w, b, o, s) \/ ConfirmRelease(w, b, o, s)
                  PROVE  IInv'
<1>1. page' \in [Tabs -> Pages \cup {NoPage}] /\ Take(w)
  BY PostedPage DEF EditOrder, ConfirmRelease, PostFrom
<1>2. CASE EditOrder(w, b, o, s)
  <2> DEFINE j == [step |-> "write", order |-> o, to |-> s]
  <2>1. j \in Jobs
    BY DEF Jobs
  <2>2. s \in Open
    BY <1>2 DEF EditOrder, PostFrom, Exists, Statuses, Transitions, Terminal, Open
  <2>3. JobKnows(j)
    BY <2>2 DEF JobKnows
  <2>4. Starts(w, j)
    BY <1>2 DEF EditOrder
  <2> QED
    BY <1>1, <2>1, <2>3, <2>4, StartsIInv
<1>3. CASE ConfirmRelease(w, b, o, s)
  <2> DEFINE j == [step |-> "look", order |-> o, to |-> s]
  <2>1. j \in Jobs
    BY DEF Jobs
  <2>2. s \in Terminal /\ (s = "completed" => status[o] = "active")
    BY <1>3 DEF ConfirmRelease, PostFrom, Exists, Statuses, Transitions, Terminal, Open
  <2>3. JobKnows(j)
    BY <2>2 DEF JobKnows, IInv, ActiveNoted
  <2>4. Starts(w, j)
    BY <1>3 DEF ConfirmRelease
  <2> QED
    BY <1>1, <2>1, <2>3, <2>4, StartsIInv
<1> QED
  BY <1>2, <1>3

LEMMA DeleteTrackerIInv == ASSUME IInv, NEW w \in Workers, NEW t \in Trackers, DeleteTracker(w, t)
                           PROVE  IInv'
<1> DEFINE j == [step |-> "delete", tracker |-> t]
<1>1. j \in Jobs
  BY DEF Jobs
<1>2. JobKnows(j)
  BY DEF JobKnows, DeleteTracker, Free
<1>3. page' \in [Tabs -> Pages \cup {NoPage}] /\ Take(w) /\ Starts(w, j)
  BY DEF DeleteTracker, IInv, TypeOK
<1> QED
  BY <1>1, <1>2, <1>3, StartsIInv

LEMMA OpenPageIInv == ASSUME IInv, NEW w \in Workers, NEW b \in Tabs, NEW o \in Orders, OpenPage(w, b, o)
                      PROVE  IInv'
<1> USE DEF IInv, OpenPage, db
<1>1. page' \in [Tabs -> Pages \cup {NoPage}]
  BY DEF TypeOK, Pages, Free
<1>2. TypeOK'
  BY <1>1 DEF TypeOK, Exists
<1>3. JobsKnow' /\ ActiveNoted'
  BY DEF JobsKnow, JobKnows, PairsOf, HeldBy, ActiveNoted
<1> QED
  BY <1>2, <1>3

(* Giving up between two calls keeps what is known of the others.          *)
LEMMA DoneKnows == ASSUME IInv, NEW w \in Workers, Done(w)
                   PROVE  /\ job' \in [Workers -> Jobs]
                          /\ \A v \in Workers : job'[v] = job[v] \/ job'[v] = Idle
  BY DEF Done, IInv, TypeOK, Jobs

LEMMA DiesIInv == ASSUME IInv, NEW w \in Workers, Dies(w) PROVE IInv'
<1> USE DEF IInv, Dies, db
<1>1. TypeOK'
  BY DoneKnows DEF TypeOK, Exists
<1>2. JobsKnow'
  BY DoneKnows DEF JobsKnow, JobKnows, PairsOf, HeldBy, Idle
<1>3. ActiveNoted'
  BY DEF ActiveNoted
<1> QED
  BY <1>1, <1>2, <1>3

(* Writing a status: EditWrite and Flip.                                   *)
LEMMA SetStatusIInv == ASSUME IInv, NEW w \in Workers, NEW o \in Orders, NEW s \in Statuses,
                              s = "completed" => o \in activated,
                              (SetStatus(o, s) /\ Exists(o)) \/ UNCHANGED <<status, activated>>,
                              Done(w), UNCHANGED <<assigned, trackers, page, posts, late>>
                       PROVE  IInv'
<1> USE DEF IInv, SetStatus
<1>1. /\ status' \in [Orders -> Statuses \cup {"none", "gone"}]
      /\ \A p \in Orders : Exists(p) <=> Exists(p)'
  BY DEF TypeOK, Exists, Statuses
<1>2. TypeOK'
  BY <1>1, DoneKnows DEF TypeOK
<1>3. activated \subseteq activated'
  OBVIOUS
<1>4. JobsKnow'
  BY <1>3, DoneKnows DEF JobsKnow, JobKnows, PairsOf, HeldBy, Idle
<1>5. \A p \in Orders : status'[p] = status[p] \/ (p = o /\ status'[p] = s)
  <2>1. status \in [Orders -> Statuses \cup {"none", "gone"}]
    BY DEF TypeOK
  <2>2. CASE status' = [status EXCEPT ![o] = s]
    BY <2>1, <2>2
  <2>3. CASE status' = status
    BY <2>3
  <2> QED
    BY <2>2, <2>3
<1>6. ActiveNoted'
  BY <1>5 DEF ActiveNoted, TypeOK
<1> QED
  BY <1>2, <1>4, <1>6

LEMMA WriteIInv == ASSUME IInv, NEW w \in Workers, EditWrite(w) \/ Flip(w) PROVE IInv'
<1> DEFINE o == job[w].order
           s == job[w].to
<1>1. job[w] \in Jobs /\ job[w].step \in Steps
  BY DEF IInv, TypeOK, EditWrite, Flip, Steps
<1>2. o \in Orders /\ s \in Statuses
  BY <1>1, JobShape
<1>3. s = "completed" => o \in activated
  BY DEF EditWrite, Flip, IInv, JobsKnow, JobKnows, Open, Terminal
<1>4. /\ (SetStatus(o, s) /\ Exists(o)) \/ UNCHANGED <<status, activated>>
      /\ Done(w) /\ UNCHANGED <<assigned, trackers, page, posts, late>>
  BY DEF EditWrite, Flip
<1> HIDE DEF o, s
<1> QED
  BY <1>2, <1>3, <1>4, SetStatusIInv

LEMMA LookIInv == ASSUME IInv, NEW w \in Workers, Look(w) PROVE IInv'
<1> USE DEF IInv, Look, db
<1>1. job[w] \in [step : Steps, order : Orders, to : Statuses]
  BY JobShape DEF TypeOK, Steps
<1> DEFINE k == [job[w] EXCEPT !.step = IF HeldBy(job[w].order) = {} THEN "flip" ELSE "release"]
<1>2. k \in Jobs /\ k.order = job[w].order /\ k.to = job[w].to
  BY <1>1 DEF Steps, Jobs
<1>2a. k.step \in {"flip", "release"} /\ (k.step = "flip" => HeldBy(job[w].order) = {})
  BY <1>1
<1>3. job' = [job EXCEPT ![w] = k]
  OBVIOUS
<1>4. JobKnows(k)
  BY <1>2, <1>2a DEF JobsKnow, JobKnows, PairsOf
<1> HIDE DEF k
<1>5. TypeOK'
  BY <1>2, <1>3 DEF TypeOK, Exists
<1>6. \A v \in Workers : job'[v] = IF v = w THEN k ELSE job[v]
  BY <1>3 DEF TypeOK
<1>7. JobsKnow'
  BY <1>4, <1>6 DEF JobsKnow, JobKnows, PairsOf, HeldBy
<1>8. ActiveNoted'
  BY DEF ActiveNoted
<1> QED
  BY <1>5, <1>7, <1>8

(* Taking assignments away leaves late what was late.                      *)
LEMMA RemovedKeeps == ASSUME IInv, NEW S, Removed(S)
                      PROVE  /\ late' \subseteq assigned' /\ assigned' \subseteq assigned
                             /\ assigned \cap late \cap assigned' \subseteq late'
                             /\ \A o \in Orders : PairsOf(o)' \subseteq PairsOf(o)
  BY DEF Removed, IInv, TypeOK, PairsOf, HeldBy

LEMMA RemovedInv == ASSUME IInv, NEW S, Removed(S), activated' = activated,
                           \A o \in Orders : status'[o] = status[o] \/ status'[o] = "gone",
                           \A v \in Workers : job'[v] = job[v] \/ job'[v] = Idle
                    PROVE  JobsKnow' /\ ActiveNoted'
<1> USE DEF IInv
<1>1. \A j \in Jobs : JobKnows(j) => JobKnows(j)'
  BY RemovedKeeps, JobShape DEF JobKnows, PairsOf, HeldBy, Steps, Removed
<1>2. JobsKnow'
  <2> SUFFICES ASSUME NEW v \in Workers PROVE JobKnows(job[v])'
    BY DEF JobsKnow
  <2>1. CASE job'[v] = job[v]
    <3>1. JobKnows(job[v]) /\ job[v] \in Jobs
      BY DEF JobsKnow, TypeOK
    <3> QED
      BY <1>1, <2>1, <3>1 DEF JobKnows, PairsOf, HeldBy
  <2>2. CASE job'[v] = Idle
    BY <2>2 DEF JobKnows, Idle
  <2> QED
    BY <2>1, <2>2
<1>3. ActiveNoted'
  BY DEF ActiveNoted
<1> QED
  BY <1>2, <1>3

LEMMA ReleaseIInv == ASSUME IInv, NEW w \in Workers, Release(w) PROVE IInv'
<1> USE DEF Release
<1>1. job[w] \in [step : Steps, order : Orders, to : Statuses]
  BY JobShape DEF IInv, TypeOK, Steps
<1>1a. PICK k : k = [job[w] EXCEPT !.step = "flip"]
  OBVIOUS
<1>2. k \in Jobs /\ k.order = job[w].order /\ k.to = job[w].to /\ k.step = "flip"
  BY <1>1, <1>1a DEF Steps, Jobs
<1>3. job' = [job EXCEPT ![w] = k]
  BY <1>1a
<1>4. job' \in [Workers -> Jobs]
  BY <1>2, <1>3 DEF IInv, TypeOK
<1>5. TypeOK'
  BY <1>4 DEF IInv, TypeOK, Exists, Removed
<1>6. \A v \in Workers : job'[v] = IF v = w THEN k ELSE job[v]
  BY <1>3 DEF IInv, TypeOK
<1>7. PairsOf(k.order)' = {}
  BY <1>1, <1>2 DEF Removed, PairsOf, HeldBy
<1>8. JobKnows(k)'
  BY <1>2, <1>7 DEF JobKnows, IInv, JobsKnow
<1>9. \A j \in Jobs : JobKnows(j) => JobKnows(j)'
  BY RemovedKeeps, JobShape DEF JobKnows, PairsOf, HeldBy, Steps, Removed
<1>10. JobsKnow'
  <2> SUFFICES ASSUME NEW v \in Workers PROVE JobKnows(job[v])'
    BY DEF JobsKnow
  <2>1. CASE v = w
    BY <1>6, <1>8, <2>1 DEF JobKnows, PairsOf, HeldBy
  <2>2. CASE v # w
    <3>1. JobKnows(job[v]) /\ job[v] \in Jobs /\ job'[v] = job[v]
      BY <1>6, <2>2 DEF JobsKnow, IInv, TypeOK
    <3> QED
      BY <1>9, <3>1 DEF JobKnows, PairsOf, HeldBy
  <2> QED
    BY <2>1, <2>2
<1>11. ActiveNoted'
  BY DEF IInv, ActiveNoted
<1> QED
  BY <1>5, <1>10, <1>11 DEF IInv

LEMMA RemoveTrackersIInv == ASSUME IInv, NEW w \in Workers, NEW b \in Tabs, NEW o \in Orders, NEW ts,
                                   RemoveTrackers(w, b, o, ts)
                            PROVE  IInv'
<1> USE DEF RemoveTrackers
<1>1. page' \in [Tabs -> Pages \cup {NoPage}] /\ posts' \in Nat
  BY PostedPage DEF PostFrom, Take, IInv, TypeOK
<1>2. TypeOK'
  BY <1>1 DEF IInv, TypeOK, Exists, Removed
<1> QED
  BY <1>2, RemovedInv DEF IInv

LEMMA DeleteRowIInv == ASSUME IInv, NEW w \in Workers, DeleteRow(w) PROVE IInv'
<1> USE DEF DeleteRow
<1>1. TypeOK'
  BY DoneKnows DEF IInv, TypeOK, Exists, Removed
<1> QED
  BY <1>1, DoneKnows, RemovedInv DEF IInv

LEMMA DeleteCustomerIInv == ASSUME IInv, NEW w \in Workers, NEW os \in SUBSET Orders, DeleteCustomer(w, os)
                            PROVE  IInv'
<1> USE DEF DeleteCustomer
<1>1. status' \in [Orders -> Statuses \cup {"none", "gone"}] /\ posts' \in Nat
  BY DEF IInv, TypeOK, Take
<1>2. assigned' \subseteq {o \in Orders : Exists(o)'} \X trackers
  BY DEF IInv, TypeOK, Exists, Removed
<1>3. TypeOK'
  BY <1>1, <1>2 DEF IInv, TypeOK, Removed
<1>4. \A o \in Orders : status'[o] = status[o] \/ status'[o] = "gone"
  OBVIOUS
<1> QED
  BY <1>3, <1>4, RemovedInv DEF IInv

LEMMA NewOrderIInv == ASSUME IInv, NEW w \in Workers, NEW o \in Orders, NEW s \in Statuses, NewOrder(w, o, s)
                      PROVE  IInv'
<1> USE DEF IInv, NewOrder
<1>1. TypeOK'
  BY DEF TypeOK, Exists, Take
<1>2. JobsKnow'
  BY DEF JobsKnow, JobKnows, PairsOf, HeldBy
<1>3. \A p \in Orders : status'[p] = IF p = o THEN s ELSE status[p]
  BY DEF TypeOK
<1>4. ActiveNoted'
  BY <1>3 DEF ActiveNoted
<1> QED
  BY <1>1, <1>2, <1>4

LEMMA AssignIInv == ASSUME IInv, NEW w \in Workers, NEW b \in Tabs, NEW o \in Orders,
                           NEW ts \in SUBSET Trackers, AssignTrackers(w, b, o, ts)
                    PROVE  IInv'
<1> USE DEF AssignTrackers
<1>0. /\ assigned' = assigned \cup ({o} \X ts)
      /\ late' = late \cup {p \in {o} \X ts : BehindABack(p[1], p[2])}
      /\ \A t \in ts : BehindABack(o, t) => <<o, t>> \in late'
  OBVIOUS
<1>1. page' \in [Tabs -> Pages \cup {NoPage}] /\ posts' \in Nat
  BY PostedPage DEF PostFrom, Take, IInv, TypeOK
<1>2. TypeOK'
  <2>1. o \in {p \in Orders : Exists(p)} /\ ts \subseteq trackers
    BY DEF PostFrom
  <2> QED
    BY <1>0, <1>1, <2>1 DEF IInv, TypeOK, Exists
<1>3. JobsKnow'
  <2> SUFFICES ASSUME NEW v \in Workers PROVE JobKnows(job[v])'
    BY DEF JobsKnow
  <2>1. JobKnows(job[v]) /\ job[v] \in Jobs /\ job' = job /\ activated' = activated
    BY DEF IInv, JobsKnow, TypeOK
  <2>2. ASSUME job[v].step = "flip" PROVE PairsOf(job[v].order)' \subseteq late'
    <3>1. \A t \in ts : job[v].order = o => BehindABack(o, t)
      BY <2>2 DEF BehindABack, On
    <3> QED
      BY <1>0, <2>1, <2>2, <3>1 DEF JobKnows, PairsOf, HeldBy
  <2>3. ASSUME job[v].step = "delete" PROVE Orders \X {job[v].tracker} \cap assigned' \subseteq late'
    <3>1. \A t \in ts : job[v].tracker = t => BehindABack(o, t)
      BY <2>3 DEF BehindABack
    <3> QED
      BY <1>0, <2>1, <2>3, <3>1 DEF JobKnows
  <2> QED
    BY <2>1, <2>2, <2>3 DEF JobKnows, PairsOf, HeldBy
<1>4. ActiveNoted'
  BY DEF IInv, ActiveNoted
<1> QED
  BY <1>2, <1>3, <1>4 DEF IInv

LEMMA StutterIInv == ASSUME IInv, UNCHANGED vars PROVE IInv'
<1> USE DEF IInv, vars, db
<1>1. TypeOK'
  BY DEF TypeOK, Exists
<1>2. JobsKnow' /\ ActiveNoted'
  BY DEF JobsKnow, JobKnows, PairsOf, HeldBy, ActiveNoted
<1> QED
  BY <1>1, <1>2

(* Every step preserves the inductive invariant.                           *)
LEMMA NextIInv == ASSUME IInv, [Next]_vars PROVE IInv'
<1>1. ASSUME NEW w \in Workers, Call(w) PROVE IInv'
  BY <1>1, WriteIInv, LookIInv, ReleaseIInv, DeleteRowIInv, DiesIInv DEF Call
<1>2. ASSUME NEW w \in Workers, NEW b \in Tabs, NEW o \in Orders, FromPage(w, b, o) PROVE IInv'
  BY <1>2, OpenPageIInv, PostIInv, AssignIInv, RemoveTrackersIInv DEF FromPage
<1>3. ASSUME NEW w \in Workers, NEW o \in Orders, NEW s \in Statuses, NewOrder(w, o, s) PROVE IInv'
  BY <1>3, NewOrderIInv
<1>4. ASSUME NEW w \in Workers, NEW t \in Trackers, DeleteTracker(w, t) PROVE IInv'
  BY <1>4, DeleteTrackerIInv
<1>5. ASSUME NEW w \in Workers, NEW os \in SUBSET Orders, DeleteCustomer(w, os) PROVE IInv'
  BY <1>5, DeleteCustomerIInv
<1>6. CASE UNCHANGED vars
  BY <1>6, StutterIInv
<1> QED
  BY <1>1, <1>2, <1>3, <1>4, <1>5, <1>6 DEF Next

(* The inductive invariant holds throughout.                               *)
THEOREM Invariance == Spec => []IInv
  BY InitIInv, NextIInv, PTL DEF Spec

-----------------------------------------------------------------------------
(* Rows stay well formed and every active assignment refers to an order    *)
(* and a tracker that exist.                                               *)
THEOREM TypeCorrect == Spec => []TypeOK
<1>1. IInv => TypeOK
  BY DEF IInv
<1> QED
  BY <1>1, Invariance, PTL

(* No order skips from pending to completed.                               *)
THEOREM CompletionFollowsActivity == Spec => []CompletedWasActive
<1>1. IInv => CompletedWasActive
  BY DEF IInv, ActiveNoted, CompletedWasActive
<1> QED
  BY <1>1, Invariance, PTL

-----------------------------------------------------------------------------
(* With one worker nothing changes an order under a request about it.      *)
OneWorker == \A v, w \in Workers : v = w

Undisturbed == \A w \in Workers : job[w].step \in Steps => status[job[w].order] \in Open

LEMMA NextUndisturbed == ASSUME OneWorker, IInv, Undisturbed, [Next]_vars
                         PROVE  Undisturbed'
<1> SUFFICES ASSUME NEW v \in Workers, job'[v].step \in Steps
             PROVE  status'[job'[v].order] \in Open
  BY DEF Undisturbed
<1>0. job \in [Workers -> Jobs] /\ status \in [Orders -> Statuses \cup {"none", "gone"}]
  BY DEF IInv, TypeOK
<1>1. CASE UNCHANGED vars
  BY <1>1 DEF vars, db, Undisturbed
<1>2. ASSUME Call(v) PROVE status'[job'[v].order] \in Open
  <2>1. CASE Done(v)
    BY <1>0, <2>1 DEF Done, Idle, Steps
  <2>2. CASE Look(v) \/ Release(v)
    <3>1. status' = status /\ \E x : job' = [job EXCEPT ![v].step = x]
      BY <2>2 DEF Look, Release, db
    <3>2. job[v].step \in Steps
      BY <2>2 DEF Look, Release, Steps
    <3>3. job[v] \in [step : Steps, order : Orders, to : Statuses]
      BY <1>0, <3>2, JobShape
    <3>4. job'[v].order = job[v].order
      BY <1>0, <3>1, <3>3
    <3> QED
      BY <3>1, <3>2, <3>4 DEF Undisturbed
  <2> QED
    BY <1>2, <2>1, <2>2 DEF Call, EditWrite, Flip, DeleteRow, Dies
<1>3. ASSUME NEW b \in Tabs, NEW o \in Orders, FromPage(v, b, o) PROVE status'[job'[v].order] \in Open
  <2>1. CASE \E s \in Statuses : EditOrder(v, b, o, s)
    <3>1. status[o] \in Open
      BY <1>0, <2>1 DEF EditOrder, PostFrom, Exists, Statuses
    <3>2. status' = status /\ job'[v].order = o
      BY <1>0, <2>1 DEF EditOrder, Starts, db
    <3> QED
      BY <3>1, <3>2
  <2>2. CASE \E s \in Statuses : ConfirmRelease(v, b, o, s)
    <3>1. status[o] \in Open
      BY <2>2 DEF ConfirmRelease, Transitions, Open
    <3>2. status' = status /\ job'[v].order = o
      BY <1>0, <2>2 DEF ConfirmRelease, Starts, db
    <3> QED
      BY <3>1, <3>2
  <2>3. CASE \/ OpenPage(v, b, o)
             \/ \E ts \in SUBSET Trackers : AssignTrackers(v, b, o, ts) \/ RemoveTrackers(v, b, o, ts)
    <3>1. job[v] = Idle /\ job' = job
      BY <2>3 DEF OpenPage, AssignTrackers, RemoveTrackers, PostFrom, Take
    <3> QED
      BY <3>1 DEF Idle, Steps
  <2> QED
    BY <1>3, <2>1, <2>2, <2>3 DEF FromPage
<1>4. ASSUME NEW o \in Orders, NEW s \in Statuses, NewOrder(v, o, s) PROVE FALSE
  BY <1>4 DEF NewOrder, Take, Idle, Steps
<1>5. ASSUME NEW t \in Trackers, DeleteTracker(v, t) PROVE FALSE
  BY <1>0, <1>5 DEF DeleteTracker, Starts, Steps
<1>6. ASSUME NEW os \in SUBSET Orders, DeleteCustomer(v, os) PROVE FALSE
  BY <1>6 DEF DeleteCustomer, Take, Idle, Steps
<1> QED
  BY <1>1, <1>2, <1>3, <1>4, <1>5, <1>6 DEF Next, OneWorker

LEMMA ClosedStep == ASSUME IInv, Undisturbed, [Next]_vars, NEW p \in Orders, status[p] \in Terminal
                    PROVE  status'[p] \in {status[p], "gone"}
<1>0. /\ status \in [Orders -> Statuses \cup {"none", "gone"}] /\ job \in [Workers -> Jobs]
      /\ "none" \notin Terminal /\ Open \cap Terminal = {}
  BY DEF IInv, TypeOK, Open, Terminal
<1>1. CASE UNCHANGED status
  BY <1>1
<1>2. ASSUME NEW w \in Workers, EditWrite(w) \/ Flip(w) PROVE status'[p] = status[p]
  <2>1. status[job[w].order] \in Open
    BY <1>2 DEF EditWrite, Flip, Undisturbed, Steps
  <2>2. p # job[w].order
    BY <1>0, <2>1
  <2> QED
    BY <1>0, <1>2, <2>2 DEF EditWrite, Flip, SetStatus
<1>3. ASSUME NEW w \in Workers, NEW o \in Orders, NEW s \in Statuses, NewOrder(w, o, s) PROVE status'[p] = status[p]
  BY <1>0, <1>3 DEF NewOrder
<1>4. ASSUME NEW w \in Workers, NEW os \in SUBSET Orders, DeleteCustomer(w, os)
      PROVE  status'[p] \in {status[p], "gone"}
  BY <1>4 DEF DeleteCustomer
<1>5. ASSUME NEW w \in Workers, NEW b \in Tabs, NEW o \in Orders, FromPage(w, b, o) PROVE UNCHANGED status
  BY <1>5 DEF FromPage, OpenPage, EditOrder, ConfirmRelease, Starts, AssignTrackers, RemoveTrackers, db
<1>6. ASSUME NEW w \in Workers, NEW t \in Trackers, DeleteTracker(w, t) PROVE UNCHANGED status
  BY <1>6 DEF DeleteTracker, Starts, db
<1>7. ASSUME NEW w \in Workers, Look(w) \/ Release(w) \/ DeleteRow(w) \/ Dies(w) PROVE UNCHANGED status
  BY <1>7 DEF Look, Release, DeleteRow, Dies, db
<1>8. UNCHANGED vars => UNCHANGED status
  BY DEF vars, db
<1> QED
  BY <1>1, <1>2, <1>3, <1>4, <1>5, <1>6, <1>7, <1>8 DEF Next, Call

(* Where one worker process serves all requests, a closed order stays      *)
(* closed: no stale page and no request that dies reopens it.              *)
THEOREM ClosedStaysClosed == ASSUME OneWorker PROVE Spec => TerminalIsFinal
<1>1. Init => Undisturbed
  BY DEF Init, Undisturbed, Idle, Steps
<1>2. IInv /\ Undisturbed /\ [Next]_vars => Undisturbed'
  BY NextUndisturbed
<1>3. IInv /\ Undisturbed /\ [Next]_vars =>
        [\A o \in Orders : status[o] \in Terminal => status'[o] \in {status[o], "gone"}]_vars
  BY ClosedStep
<1> QED
  BY <1>1, <1>2, <1>3, Invariance, PTL DEF Spec, TerminalIsFinal

(* Only a flip, or entering the order, makes an order closed.              *)
LEMMA ClosingStep == ASSUME IInv, [Next]_vars, NEW p \in Orders,
                            status[p] \notin Terminal, status'[p] \in Terminal
                     PROVE  /\ UNCHANGED <<assigned, late>>
                            /\ HeldBy(p) = {} \/ PairsOf(p) \subseteq late
<1>0. /\ status \in [Orders -> Statuses \cup {"none", "gone"}]
      /\ "none" \notin Statuses /\ "gone" \notin Terminal /\ Open \cap Terminal = {}
  BY DEF IInv, TypeOK, Statuses, Open, Terminal
<1>1. status' # status
  OBVIOUS
<1>2. ASSUME NEW w \in Workers, EditWrite(w) \/ Flip(w)
      PROVE  UNCHANGED <<assigned, late>> /\ PairsOf(p) \subseteq late
  <2>1. SetStatus(job[w].order, job[w].to) /\ UNCHANGED <<assigned, late>>
    BY <1>1, <1>2 DEF EditWrite, Flip
  <2>2. p = job[w].order /\ job[w].to \in Terminal
    BY <1>0, <2>1 DEF SetStatus
  <2>3. job[w].step = "flip"
    BY <1>0, <1>2, <2>2 DEF EditWrite, Flip, IInv, JobsKnow, JobKnows
  <2> QED
    BY <2>1, <2>2, <2>3 DEF IInv, JobsKnow, JobKnows
<1>3. ASSUME NEW w \in Workers, NEW o \in Orders, NEW s \in Statuses, NewOrder(w, o, s)
      PROVE  UNCHANGED <<assigned, late>> /\ HeldBy(p) = {}
  <2>1. p = o /\ ~Exists(o)
    BY <1>0, <1>3 DEF NewOrder, Exists
  <2> QED
    BY <1>3, <2>1 DEF NewOrder, HeldBy, IInv, TypeOK
<1>4. ASSUME NEW w \in Workers, NEW os \in SUBSET Orders, DeleteCustomer(w, os) PROVE FALSE
  BY <1>0, <1>4 DEF DeleteCustomer
<1>5. ASSUME NEW w \in Workers, NEW b \in Tabs, NEW o \in Orders, FromPage(w, b, o) PROVE FALSE
  BY <1>1, <1>5 DEF FromPage, OpenPage, EditOrder, ConfirmRelease, Starts, AssignTrackers, RemoveTrackers, db
<1>6. ASSUME NEW w \in Workers, NEW t \in Trackers, DeleteTracker(w, t) PROVE FALSE
  BY <1>1, <1>6 DEF DeleteTracker, Starts, db
<1>7. ASSUME NEW w \in Workers, Look(w) \/ Release(w) \/ DeleteRow(w) \/ Dies(w) PROVE FALSE
  BY <1>1, <1>7 DEF Look, Release, DeleteRow, Dies, db
<1>8. Next
  BY <1>1 DEF vars, db
<1> QED
  BY <1>2, <1>3, <1>4, <1>5, <1>6, <1>7, <1>8 DEF Next, Call

(* The step that closes an order leaves it only what was assigned while a  *)
(* request that had released was about to write the status, whatever       *)
(* requests overlap or die.                                                *)
THEOREM ClosingReleases == Spec => ClosingLeavesOnlyLate
<1>1. IInv /\ [Next]_vars =>
        [\A o \in Orders : status[o] \notin Terminal /\ status'[o] \in Terminal =>
           {o} \X HeldBy(o)' \subseteq late']_vars
  BY ClosingStep DEF PairsOf, HeldBy
<1> QED
  BY <1>1, Invariance, PTL DEF Spec, ClosingLeavesOnlyLate

(* No tab shows an order that was closed after its page was loaded.        *)
FreshPages == \A b \in Tabs : page[b] # NoPage => status[page[b].order] \in Open

(* What an order holds grows in assign_tracker only.                       *)
LEMMA GainStep == ASSUME IInv, FreshPages, [Next]_vars, NEW p \in Orders, status[p] \in Terminal
                  PROVE  HeldBy(p)' \subseteq HeldBy(p)
<1>1. ASSUME NEW w \in Workers, NEW b \in Tabs, NEW o \in Orders, NEW ts \in SUBSET Trackers,
             AssignTrackers(w, b, o, ts)
      PROVE  HeldBy(p)' \subseteq HeldBy(p)
  <2>1. status[o] \in Open
    BY <1>1 DEF AssignTrackers, PostFrom, FreshPages
  <2>2. p # o
    BY <2>1 DEF Open, Terminal
  <2> QED
    BY <1>1, <2>2 DEF AssignTrackers, HeldBy
<1>2. ASSUME assigned' \subseteq assigned PROVE HeldBy(p)' \subseteq HeldBy(p)
  BY <1>2 DEF HeldBy
<1>3. ASSUME NEW w \in Workers, Call(w) PROVE assigned' \subseteq assigned
  BY <1>3 DEF Call, EditWrite, Look, Release, Flip, DeleteRow, Dies, Removed, db
<1>4. ASSUME NEW w \in Workers, NEW b \in Tabs, NEW o \in Orders, FromPage(w, b, o),
             ~ \E ts \in SUBSET Trackers : AssignTrackers(w, b, o, ts)
      PROVE  assigned' \subseteq assigned
  BY <1>4 DEF FromPage, OpenPage, EditOrder, ConfirmRelease, Starts, RemoveTrackers, Removed, db
<1>5. ASSUME NEW w \in Workers, NEW o \in Orders, NEW s \in Statuses, NewOrder(w, o, s)
      PROVE  assigned' \subseteq assigned
  BY <1>5 DEF NewOrder
<1>6. ASSUME NEW w \in Workers, NEW t \in Trackers, DeleteTracker(w, t) PROVE assigned' \subseteq assigned
  BY <1>6 DEF DeleteTracker, Starts, db
<1>7. ASSUME NEW w \in Workers, NEW os \in SUBSET Orders, DeleteCustomer(w, os)
      PROVE  assigned' \subseteq assigned
  BY <1>7 DEF DeleteCustomer, Removed
<1>8. UNCHANGED vars => assigned' \subseteq assigned
  BY DEF vars, db
<1> QED
  BY <1>1, <1>2, <1>3, <1>4, <1>5, <1>6, <1>7, <1>8 DEF Next

(* "No further edits": a closed order gains trackers from nothing but a    *)
(* page that was loaded before the closing.                                *)
THEOREM OnlyStalePagesAdd == Spec /\ []FreshPages => ClosedGainsNothing
<1>1. IInv /\ FreshPages /\ [Next]_vars =>
        [\A o \in Orders : status[o] \in Terminal => HeldBy(o)' \subseteq HeldBy(o)]_vars
  BY GainStep
<1> QED
  BY <1>1, Invariance, PTL DEF Spec, ClosedGainsNothing

(* A deletion that goes ahead takes only assignments along that were made  *)
(* after it had checked.                                                   *)
THEOREM DeletionChecks == Spec => DeletedWasFree
<1>1. ASSUME IInv, [Next]_vars, NEW t \in trackers \ trackers'
      PROVE  Orders \X {t} \cap assigned \subseteq late
  <2>0. trackers' # trackers
    BY <1>1
  <2>1. PICK w \in Workers : DeleteRow(w)
    <3>1. \A w \in Workers : Call(w) => DeleteRow(w)
      BY <2>0 DEF Call, EditWrite, Look, Release, Flip, Dies, db
    <3>2. ASSUME NEW w \in Workers, NEW b \in Tabs, NEW o \in Orders, FromPage(w, b, o) PROVE FALSE
      <4>1. trackers' = trackers
        BY <3>2 DEF FromPage, OpenPage, EditOrder, ConfirmRelease, Starts, AssignTrackers, RemoveTrackers, db
      <4> QED
        BY <2>0, <4>1
    <3>3. \A w \in Workers, o \in Orders, s \in Statuses : ~NewOrder(w, o, s)
      BY <2>0 DEF NewOrder
    <3>4. \A w \in Workers, u \in Trackers : ~DeleteTracker(w, u)
      BY <2>0 DEF DeleteTracker, Starts, db
    <3>5. \A w \in Workers, os \in SUBSET Orders : ~DeleteCustomer(w, os)
      BY <2>0 DEF DeleteCustomer
    <3>6. Next
      BY <1>1, <2>0 DEF vars, db
    <3> QED
      BY <3>1, <3>2, <3>3, <3>4, <3>5, <3>6 DEF Next
  <2>2. JobKnows(job[w]) /\ t = job[w].tracker /\ job[w].step = "delete"
    BY <1>1, <2>1 DEF IInv, JobsKnow, DeleteRow
  <2> QED
    BY <2>2 DEF JobKnows
<1>2. IInv /\ [Next]_vars =>
        [\A t \in trackers \ trackers' : Orders \X {t} \cap assigned \subseteq late]_vars
  BY <1>1
<1> QED
  BY <1>2, Invariance, PTL DEF Spec, DeletedWasFree
=============================================================================
