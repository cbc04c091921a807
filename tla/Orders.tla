------------------------------- MODULE Orders -------------------------------
(***************************************************************************)
(* Orders (webapp/blueprints/orders.py, deletions of trackers.py and       *)
(* customers.py): admins post forms from pages they loaded earlier; a      *)
(* worker process runs one request at a time, and a request is a sequence  *)
(* of PostgREST calls, each one atomic in the database and nothing binding *)
(* them together.  A request may die between two calls.                    *)
(*                                                                         *)
(* A page is what it offers: the order it is about and the trackers that   *)
(* were free when it was loaded.  Quantity and notes are left out: the     *)
(* code only compares the quantity to word a warning.                      *)
(***************************************************************************)
EXTENDS Naturals

CONSTANTS
  Orders, Trackers,   \* ids of rows
  Workers,            \* webapp worker processes
  Tabs,               \* browser tabs of admins
  MaxPosts,           \* bound: requests that change something
  NoPage              \* a tab that shows no open order

VARIABLES
  status,     \* orders.status; "none" before the row exists, "gone" after
  assigned,   \* order_trackers rows with removed_at null, as <<order, tracker>>
  trackers,   \* rows of trackers
  page,       \* what each tab shows
  job,        \* the call each worker makes next
  posts,      \* requests so far
  activated,  \* history: orders that were active, or were entered as completed
  late        \* history: pairs assigned under a request that had looked, below

db   == <<status, assigned, trackers>>
vars == <<db, page, job, posts, activated, late>>

Open     == {"pending", "active"}
Terminal == {"completed", "cancelled"}
Statuses == Open \cup Terminal

(* VALID_TRANSITIONS                                                       *)
Transitions(s) ==
  CASE s = "pending" -> {"active", "cancelled"}
    [] s = "active"  -> {"completed", "cancelled"}
    [] OTHER         -> {}

Pages == [order : Orders, offered : SUBSET Trackers]
Idle  == [step |-> "idle"]
Jobs  == {Idle}
    \cup [step : {"write", "look", "release", "flip"}, order : Orders, to : Statuses]
    \cup [step : {"delete"}, tracker : Trackers]

Exists(o)       == status[o] \in Statuses
HeldBy(o)       == {t \in Trackers : <<o, t>> \in assigned}
Free            == {t \in trackers : \A o \in Orders : <<o, t>> \notin assigned}
On(w, step, o)  == job[w].step = step /\ job[w].order = o

Init ==
  /\ status \in [Orders -> Statuses \cup {"none"}]
  /\ assigned = {} /\ trackers = Trackers
  /\ page = [b \in Tabs |-> NoPage]
  /\ job = [w \in Workers |-> Idle]
  /\ posts = 0
  /\ activated = {o \in Orders : status[o] \in {"active", "completed"}}
  /\ late = {}

-----------------------------------------------------------------------------
(* A tab loads the page of an open order: order_detail.                    *)
OpenPage(w, b, o) ==
  /\ job[w] = Idle
  /\ status[o] \in Open
  /\ page' = [page EXCEPT ![b] = [order |-> o, offered |-> Free]]
  /\ UNCHANGED <<db, job, posts, activated, late>>

(* A worker takes a request, posted from the page of a tab or from none.   *)
Take(w) == job[w] = Idle /\ posts < MaxPosts /\ posts' = posts + 1

PostFrom(w, b, o) ==
  /\ Take(w)
  /\ page[b] # NoPage /\ page[b].order = o /\ Exists(o)
  /\ page' = [page EXCEPT ![b] = NoPage]

Starts(w, j) ==
  /\ job' = [job EXCEPT ![w] = j]
  /\ UNCHANGED <<db, activated, late>>

Done(w) == job' = [job EXCEPT ![w] = Idle]

SetStatus(o, s) ==
  /\ status' = [status EXCEPT ![o] = s]
  /\ activated' = IF s = "active" THEN activated \cup {o} ELSE activated

(* new_order: any status can be entered.                                   *)
NewOrder(w, o, s) ==
  /\ Take(w)
  /\ status[o] = "none"
  /\ status' = [status EXCEPT ![o] = s]
  /\ activated' = IF s \in {"active", "completed"} THEN activated \cup {o} ELSE activated
  /\ UNCHANGED <<assigned, trackers, page, job, late>>

(* edit_order reads the status and refuses a closed order or a transition  *)
(* that does not exist; a terminal one is left to confirm_release.         *)
EditOrder(w, b, o, s) ==
  /\ PostFrom(w, b, o)
  /\ status[o] \notin Terminal
  /\ s = status[o] \/ s \in Transitions(status[o]) \ Terminal
  /\ Starts(w, [step |-> "write", order |-> o, to |-> s])

(* It writes the status it decided on, whatever the row says by now.       *)
EditWrite(w) ==
  /\ job[w].step = "write"
  /\ IF Exists(job[w].order)
     THEN SetStatus(job[w].order, job[w].to)
     ELSE UNCHANGED <<status, activated>>
  /\ Done(w)
  /\ UNCHANGED <<assigned, trackers, page, posts, late>>

(* Variant: any terminal status is taken, from any open one.               *)
ConfirmReleaseUnchecked(w, b, o, s) ==
  /\ PostFrom(w, b, o)
  /\ status[o] \notin Terminal
  /\ s \in Terminal
  /\ Starts(w, [step |-> "look", order |-> o, to |-> s])

(* confirm_release reads the order, ...                                    *)
ConfirmRelease(w, b, o, s) ==
  /\ PostFrom(w, b, o)
  /\ s \in Transitions(status[o]) \cap Terminal
  /\ Starts(w, [step |-> "look", order |-> o, to |-> s])

(* Variant: the status is written before the trackers are released.        *)
LookAfterFlip(w) ==
  /\ job[w].step = "look"
  /\ Exists(job[w].order)
  /\ SetStatus(job[w].order, job[w].to)
  /\ job' = [job EXCEPT ![w].step = IF HeldBy(job[w].order) = {} THEN "flip" ELSE "release"]
  /\ UNCHANGED <<assigned, trackers, page, posts, late>>

(* ... then its active assignments, ...                                    *)
Look(w) ==
  /\ job[w].step = "look"
  /\ job' = [job EXCEPT ![w].step = IF HeldBy(job[w].order) = {} THEN "flip" ELSE "release"]
  /\ UNCHANGED <<db, page, posts, activated, late>>

Removed(pairs) ==
  /\ assigned' = assigned \ pairs
  /\ late' = late \ pairs

(* ... marks those of the moment removed, ...                              *)
Release(w) ==
  /\ job[w].step = "release"
  /\ Removed({job[w].order} \X Trackers)
  /\ job' = [job EXCEPT ![w].step = "flip"]
  /\ UNCHANGED <<status, trackers, page, posts, activated>>

(* ... and writes the status.                                              *)
Flip(w) ==
  /\ job[w].step = "flip"
  /\ IF Exists(job[w].order)
     THEN SetStatus(job[w].order, job[w].to)
     ELSE UNCHANGED <<status, activated>>
  /\ Done(w)
  /\ UNCHANGED <<assigned, trackers, page, posts, late>>

(* A request under way has looked already: one that is about to close the  *)
(* order has released what it held, one that is about to delete the        *)
(* tracker has found it free.                                              *)
BehindABack(o, t) == \E w \in Workers :
  \/ On(w, "flip", o)
  \/ job[w].step = "delete" /\ job[w].tracker = t

(* assign_tracker inserts what the page offered, whatever has become of    *)
(* the order and the trackers: it never reads the order's status.  The     *)
(* foreign keys must exist.                                                *)
AssignTrackers(w, b, o, ts) ==
  /\ PostFrom(w, b, o)
  /\ ts # {} /\ ts \subseteq page[b].offered \cap trackers
  /\ assigned' = assigned \cup ({o} \X ts)
  /\ late' = late \cup {p \in {o} \X ts : BehindABack(p[1], p[2])}
  /\ UNCHANGED <<status, trackers, job, activated>>

(* remove_tracker and remove_trackers_bulk: one update.                    *)
RemoveTrackers(w, b, o, ts) ==
  /\ PostFrom(w, b, o)
  /\ ts # {} /\ ts \subseteq HeldBy(o)
  /\ Removed({o} \X ts)
  /\ UNCHANGED <<status, trackers, job, activated>>

-----------------------------------------------------------------------------
(* Variant: the assignments of the tracker are not asked for.              *)
DeleteTrackerUnchecked(w, t) ==
  /\ Take(w)
  /\ t \in trackers
  /\ Starts(w, [step |-> "delete", tracker |-> t])
  /\ UNCHANGED page

(* delete_tracker asks for one active assignment of the tracker, ...       *)
DeleteTracker(w, t) ==
  /\ Take(w)
  /\ t \in Free
  /\ Starts(w, [step |-> "delete", tracker |-> t])
  /\ UNCHANGED page

(* Variant: order_trackers without "on delete cascade".                    *)
DeleteRowOnly(w) ==
  /\ job[w].step = "delete"
  /\ trackers' = trackers \ {job[w].tracker}
  /\ Done(w)
  /\ UNCHANGED <<status, assigned, page, posts, activated, late>>

(* ... and deletes it; its assignments go with it.                         *)
DeleteRow(w) ==
  /\ job[w].step = "delete"
  /\ trackers' = trackers \ {job[w].tracker}
  /\ Removed(Orders \X {job[w].tracker})
  /\ Done(w)
  /\ UNCHANGED <<status, page, posts, activated>>

(* delete_customer takes the customer's orders and their assignments along.*)
DeleteCustomer(w, os) ==
  /\ Take(w)
  /\ os # {} /\ \A o \in os : Exists(o)
  /\ status' = [o \in Orders |-> IF o \in os THEN "gone" ELSE status[o]]
  /\ Removed(os \X Trackers)
  /\ UNCHANGED <<trackers, page, job, activated>>

(* The worker is restarted, or a call fails and the request ends with 500. *)
Dies(w) ==
  /\ job[w] # Idle
  /\ Done(w)
  /\ UNCHANGED <<db, page, posts, activated, late>>

Call(w) == EditWrite(w) \/ Look(w) \/ Release(w) \/ Flip(w) \/ DeleteRow(w) \/ Dies(w)

FromPage(w, b, o) ==
  \/ OpenPage(w, b, o)
  \/ \E s \in Statuses : EditOrder(w, b, o, s) \/ ConfirmRelease(w, b, o, s)
  \/ \E ts \in SUBSET Trackers : AssignTrackers(w, b, o, ts) \/ RemoveTrackers(w, b, o, ts)

Next == \E w \in Workers :
  \/ Call(w)
  \/ \E b \in Tabs, o \in Orders : FromPage(w, b, o)
  \/ \E o \in Orders, s \in Statuses : NewOrder(w, o, s)
  \/ \E t \in Trackers : DeleteTracker(w, t)
  \/ \E os \in SUBSET Orders : DeleteCustomer(w, os)

Spec == Init /\ [][Next]_vars

-----------------------------------------------------------------------------
(* Rows and jobs are well formed, and an active assignment always refers   *)
(* to an order and a tracker that exist.                                   *)
TypeOK ==
  /\ status \in [Orders -> Statuses \cup {"none", "gone"}]
  /\ trackers \subseteq Trackers
  /\ assigned \subseteq {o \in Orders : Exists(o)} \X trackers
  /\ page \in [Tabs -> Pages \cup {NoPage}]
  /\ job \in [Workers -> Jobs]
  /\ posts \in Nat
  /\ activated \subseteq Orders
  /\ late \subseteq assigned

(* DEPLOYMENT.md "confirming automatically releases them": the step that   *)
(* closes an order leaves it nothing but what was assigned while a request *)
(* that had already released was about to write the status.  What that     *)
(* request saw is released first, even when another one died between its   *)
(* calls or interferes (orders.py:222-275).                                *)
ClosingLeavesOnlyLate ==
  [][\A o \in Orders :
       status[o] \notin Terminal /\ status'[o] \in Terminal =>
         {o} \X HeldBy(o)' \subseteq late']_vars

(* DEPLOYMENT.md "it is closed (no further edits)": no tracker is assigned *)
(* to an order that is closed (orders.py:278-310).  The code does not hold *)
(* it: assign_tracker takes a page that was loaded before the closing.     *)
ClosedGainsNothing ==
  [][\A o \in Orders : status[o] \in Terminal => HeldBy(o)' \subseteq HeldBy(o)]_vars

(* No order is completed without having been active, unless it was entered *)
(* as completed, whatever requests overlap (:26-31, :241).                 *)
CompletedWasActive ==
  \A o \in Orders : status[o] = "completed" => o \in activated

(* "Cannot delete a tracker that is assigned to an active order": a        *)
(* deletion takes only assignments along that were made after it had       *)
(* checked (trackers.py:190-208).                                          *)
DeletedWasFree ==
  [][\A t \in trackers \ trackers' : Orders \X {t} \cap assigned \subseteq late]_vars

(* "This order is closed and cannot be changed": a terminal status is      *)
(* final while one worker serves all requests (orders.py:191-194).         *)
TerminalIsFinal ==
  [][\A o \in Orders : status[o] \in Terminal => status'[o] \in {status[o], "gone"}]_vars
=============================================================================
