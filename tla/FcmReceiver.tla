---------------------------- MODULE FcmReceiver -----------------------------
(***************************************************************************)
(* FcmReceiver (libs/Auth/fcm_receiver.py): the one object through which   *)
(* every thread of the middleware listens for location pushes.  Threads    *)
(* that fetch a location register a callback, and first make sure that a   *)
(* push client listens; a client that terminated is replaced by a fresh    *)
(* one.  Threads that need the android id may start the listener as well,  *)
(* without the lock.                                                       *)
(*                                                                         *)
(* A push client is the PushClient of that module, which FcmClient         *)
(* implements.  Clients are numbered in the order they are built.          *)
(***************************************************************************)
EXTENDS Naturals

CONSTANTS
  Threads,     \* threads that use the receiver
  MaxClients,  \* bound: clients ever built; the last one never terminates
  Free         \* nobody holds _start_lock

ASSUME FcmReceiverAssumption ==
  /\ MaxClients \in Nat \ {0}
  /\ Free \notin Threads

VARIABLES
  cached,       \* history: secrets.json held fcm_credentials at __init__
  credentials,  \* self.credentials is not None
  listening,    \* self._listening
  lock,         \* who holds _start_lock
  pc,           \* self.pc, as its number
  phase,        \* run_state of every client, as PushClient sees it
  due,          \* start() calls scheduled on its loop and not yet run (at most 2)
  starts,       \* history: start() calls it ran (2: more than one)
  at,           \* where each thread is
  callbacks     \* threads whose callback is registered

creds == <<cached, credentials>>
vars  == <<creds, listening, lock, pc, phase, due, starts, at, callbacks>>

Clients == 1..MaxClients

Phases == {"created", "connecting", "serving", "terminated"}

(* Locations of a thread.  Those in LockedAt are inside "with _start_lock".*)
LockedAt == {"recheck", "teardown", "start", "registering", "schedule"}

Locations == LockedAt \cup
  {"idle", "checkListening", "checkClient", "wantLock", "append", "registered",
   "startUnlocked", "registeringUnlocked", "scheduleUnlocked"}

Terminated == phase[pc] = "terminated"

Init ==
  /\ credentials \in BOOLEAN /\ cached = credentials
  /\ listening = FALSE
  /\ lock = Free
  /\ pc = 1
  /\ phase = [c \in Clients |-> "created"]
  /\ due = [c \in Clients |-> 0]
  /\ starts = [c \in Clients |-> 0]
  /\ at = [t \in Threads |-> "idle"]
  /\ callbacks = {}

Go(t, from, to) == at[t] = from /\ at' = [at EXCEPT ![t] = to]

-----------------------------------------------------------------------------
(* register_for_location_updates: _ensure_listening, then the callback.    *)

Register(t) ==
  /\ Go(t, "idle", "checkListening")
  /\ UNCHANGED <<creds, listening, lock, pc, phase, due, starts, callbacks>>

(* Variants: the fast path forgets one of its two questions.               *)
CheckNotListening(t) ==
  /\ Go(t, "checkListening", "checkClient")
  /\ UNCHANGED <<creds, listening, lock, pc, phase, due, starts, callbacks>>

CheckNotClient(t) ==
  /\ Go(t, "checkClient", "append")
  /\ UNCHANGED <<creds, listening, lock, pc, phase, due, starts, callbacks>>

(* The fast path reads _listening and then the client's state, unlocked.   *)
CheckListening(t) ==
  /\ Go(t, "checkListening", IF listening THEN "checkClient" ELSE "wantLock")
  /\ UNCHANGED <<creds, listening, lock, pc, phase, due, starts, callbacks>>

CheckClient(t) ==
  /\ Go(t, "checkClient", IF Terminated THEN "wantLock" ELSE "append")
  /\ UNCHANGED <<creds, listening, lock, pc, phase, due, starts, callbacks>>

AcquireLock(t) ==
  /\ lock = Free /\ lock' = t
  /\ Go(t, "wantLock", "recheck")
  /\ UNCHANGED <<creds, listening, pc, phase, due, starts, callbacks>>

(* Variant: the early return leaves the lock held.                         *)
NothingToDoLocked(t) ==
  /\ listening /\ ~Terminated
  /\ Go(t, "recheck", "append")
  /\ UNCHANGED <<creds, listening, lock, pc, phase, due, starts, callbacks>>

(* With the lock held the same question is asked again.                    *)
NothingToDo(t) ==
  /\ listening /\ ~Terminated
  /\ Go(t, "recheck", "append")
  /\ lock' = Free
  /\ UNCHANGED <<creds, listening, pc, phase, due, starts, callbacks>>

(* Variants: no second check under the lock; every start builds a client.  *)
MustStartUnchecked(t) ==
  /\ Go(t, "recheck", IF Terminated THEN "teardown" ELSE "start")
  /\ UNCHANGED <<creds, listening, lock, pc, phase, due, starts, callbacks>>

MustStartRebuilding(t) ==
  /\ ~listening \/ Terminated
  /\ Go(t, "recheck", "teardown")
  /\ UNCHANGED <<creds, listening, lock, pc, phase, due, starts, callbacks>>

MustStart(t) ==
  /\ ~listening \/ Terminated
  /\ Go(t, "recheck", IF Terminated THEN "teardown" ELSE "start")
  /\ UNCHANGED <<creds, listening, lock, pc, phase, due, starts, callbacks>>

(* _teardown_dead_listener: the old loop is stopped, a client is built.    *)
Teardown(t) ==
  /\ Go(t, "teardown", "start")
  /\ listening' = FALSE
  /\ pc' = pc + 1
  /\ UNCHANGED <<creds, lock, phase, due, starts, callbacks>>

(* _start_listener_in_background asks whether there are credentials; when  *)
(* there are none, the client registers with FCM first.                    *)
Prepare(t, from, ready, register) ==
  /\ Go(t, from, IF credentials THEN ready ELSE register)
  /\ UNCHANGED <<creds, listening, lock, pc, phase, due, starts, callbacks>>

Registered(t, from, to) ==
  /\ Go(t, from, to)
  /\ credentials' = TRUE
  /\ UNCHANGED <<cached, listening, lock, pc, phase, due, starts, callbacks>>

(* It may fail before or after it stored credentials (then without a       *)
(* token).  The handler calls stop(), which on a client never started has  *)
(* no stopping_lock and raises: the exception leaves through the lock.     *)
Refused(t, from) ==
  /\ phase[pc] = "created"
  /\ Go(t, from, "idle")
  /\ credentials' \in BOOLEAN /\ (credentials => credentials')
  /\ lock' = IF lock = t THEN Free ELSE lock
  /\ UNCHANGED <<cached, listening, pc, phase, due, starts, callbacks>>

(* A client that a second thread started meanwhile is stopped, and the     *)
(* registration tried again; on a stopped one stop() returns at once.      *)
RefusedStopsOther(t, from) ==
  /\ phase[pc] \in {"connecting", "serving"} /\ pc < MaxClients
  /\ at[t] = from
  /\ phase' = [phase EXCEPT ![pc] = "terminated"]
  /\ credentials' \in BOOLEAN /\ (credentials => credentials')
  /\ UNCHANGED <<cached, listening, lock, pc, due, starts, at, callbacks>>

OneMore(n) == IF n = 2 THEN 2 ELSE n + 1

(* run_coroutine_threadsafe(self.pc.start(), self._loop), _listening = True*)
ScheduleStart ==
  /\ due' = [due EXCEPT ![pc] = OneMore(@)]
  /\ listening' = TRUE

Schedule(t) ==
  /\ Go(t, "schedule", "append")
  /\ ScheduleStart
  /\ lock' = Free
  /\ UNCHANGED <<creds, pc, phase, starts, callbacks>>

Append(t) ==
  /\ Go(t, "append", "registered")
  /\ callbacks' = callbacks \cup {t}
  /\ UNCHANGED <<creds, listening, lock, pc, phase, due, starts>>

Unregister(t) ==
  /\ Go(t, "registered", "idle")
  /\ callbacks' = callbacks \ {t}
  /\ UNCHANGED <<creds, listening, lock, pc, phase, due, starts>>

-----------------------------------------------------------------------------
(* get_android_id: without credentials it starts the listener, unlocked.   *)

GetAndroidId(t) ==
  /\ ~credentials
  /\ Go(t, "idle", "startUnlocked")
  /\ UNCHANGED <<creds, listening, lock, pc, phase, due, starts, callbacks>>

ScheduleUnlocked(t) ==
  /\ Go(t, "scheduleUnlocked", "idle")
  /\ ScheduleStart
  /\ UNCHANGED <<creds, lock, pc, phase, starts, callbacks>>

-----------------------------------------------------------------------------
(* The clients, on their event loops.                                      *)

ClientMoves(c, from, to) ==
  /\ phase[c] \in from
  /\ phase' = [phase EXCEPT ![c] = to]
  /\ UNCHANGED <<creds, listening, lock, pc, due, starts, at, callbacks>>

(* Variant: a client starts by itself.                                     *)
ClientStartsUnasked(c) ==
  /\ due' = [due EXCEPT ![c] = @ - 1]
  /\ starts' = [starts EXCEPT ![c] = OneMore(@)]
  /\ phase' = [phase EXCEPT ![c] = "connecting"]
  /\ UNCHANGED <<creds, listening, lock, pc, at, callbacks>>

(* start() asks nothing: it begins to connect whatever state it finds.     *)
ClientStarts(c) ==
  /\ due[c] > 0
  /\ due' = [due EXCEPT ![c] = @ - 1]
  /\ starts' = [starts EXCEPT ![c] = OneMore(@)]
  /\ phase' = [phase EXCEPT ![c] = "connecting"]
  /\ UNCHANGED <<creds, listening, lock, pc, at, callbacks>>

ClientServes(c) == ClientMoves(c, {"connecting"}, "serving")
ClientInterrupted(c) == ClientMoves(c, {"serving"}, "connecting")
ClientTerminates(c) ==
  c < MaxClients /\ ClientMoves(c, {"connecting", "serving"}, "terminated")

-----------------------------------------------------------------------------
Registering(t, from, to) ==
  Registered(t, from, to) \/ Refused(t, from) \/ RefusedStopsOther(t, from)

Starting(t) ==
  \/ Prepare(t, "start", "schedule", "registering")
  \/ Registering(t, "registering", "schedule")
  \/ Schedule(t)

StartingUnlocked(t) ==
  \/ Prepare(t, "startUnlocked", "scheduleUnlocked", "registeringUnlocked")
  \/ Registering(t, "registeringUnlocked", "scheduleUnlocked")
  \/ ScheduleUnlocked(t)

Ensure(t) ==
  \/ CheckListening(t) \/ CheckClient(t)
  \/ AcquireLock(t) \/ NothingToDo(t) \/ MustStart(t) \/ Teardown(t)
  \/ Starting(t) \/ StartingUnlocked(t)
  \/ Append(t)

ThreadStep(t) == Register(t) \/ Ensure(t) \/ Unregister(t) \/ GetAndroidId(t)

ClientStep(c) == \/ ClientStarts(c) \/ ClientServes(c)
                 \/ ClientInterrupted(c) \/ ClientTerminates(c)

Next == (\E t \in Threads : ThreadStep(t)) \/ (\E c \in Clients : ClientStep(c))

Spec == Init /\ [][Next]_vars

(* Threads in the middle of a call run on, requests come back (their wait  *)
(* has a timeout), the polling loop keeps asking, scheduled starts run.    *)
Fairness ==
  /\ \A t \in Threads : WF_vars(Ensure(t)) /\ WF_vars(Unregister(t)) /\ WF_vars(Register(t))
  /\ \A c \in Clients : WF_vars(ClientStarts(c))
                     /\ WF_vars(ClientServes(c) \/ (phase[c] = "connecting" /\ ClientTerminates(c)))

FairSpec == Spec /\ Fairness

-----------------------------------------------------------------------------
TypeOK ==
  /\ cached \in BOOLEAN /\ credentials \in BOOLEAN /\ listening \in BOOLEAN
  /\ lock \in Threads \cup {Free}
  /\ pc \in Clients
  /\ phase \in [Clients -> Phases]
  /\ due \in [Clients -> 0..2]
  /\ starts \in [Clients -> 0..2]
  /\ at \in [Threads -> Locations]
  /\ callbacks \subseteq Threads

(* Comment at :116-120: "Start it exactly once": no client is started      *)
(* twice, which would leave two readers on one connection; as long as the  *)
(* credentials are cached, so that get_android_id need not start one.      *)
NeverStartedTwice == cached => \A c \in Clients : due[c] + starts[c] <= 1

(* A client is only replaced once it is dead: no client is left behind     *)
(* that still holds a session and takes the pushes (:93-103, :127-132).    *)
OnlyDeadReplaced ==
  cached => \A c \in Clients : c < pc => phase[c] = "terminated"

(* A thread that got past _ensure_listening left a client behind that has  *)
(* been told to start: nobody waits for pushes on a client nobody started. *)
RegisteredOnStarted ==
  (\E t \in Threads : at[t] \in {"append", "registered"}) =>
     \/ due[pc] + starts[pc] > 0
     \/ \E t \in Threads : at[t] \in {"start", "schedule"}

(* No client is told to start and no thread counts as registered before    *)
(* there are credentials: _login and the callers read them (:112, :236).   *)
(* A registration with FCM that fails must leave by its exception.         *)
CredentialsFirst ==
  /\ \A c \in Clients : due[c] + starts[c] > 0 => credentials
  /\ callbacks # {} => credentials

(* Comment at :121-123: with cached credentials a terminated client does   *)
(* not stay the current one while threads go on registering.               *)
DeadClientReplaced == (cached /\ Terminated) ~> ~Terminated

(* With cached credentials every registration completes; no thread waits   *)
(* for _start_lock forever.                                                *)
RegistrationCompletes ==
  \A t \in Threads : (cached /\ at[t] = "checkListening") ~> at[t] = "registered"
=============================================================================
