----------------------------- MODULE FcmClient ------------------------------
(***************************************************************************)
(* FcmPushClient (libs/Auth/firebase_messaging/fcmpushclient.py): one      *)
(* connection to Google's push server, kept by two asyncio tasks of one    *)
(* event loop.  The "listen" task dials, logs in and reads; the "monitor"  *)
(* task sends heartbeats and resets a connection that went quiet.  Both    *)
(* may run _reset, which reset_lock serialises.                            *)
(*                                                                         *)
(* An action is what a task does between two suspension points (await), so *)
(* tasks interleave only where the event loop lets them.  A task that      *)
(* loops without ever suspending keeps the loop to itself: `spinning'.     *)
(*                                                                         *)
(* The peer is external: it answers logins, pushes, pings, closes, breaks  *)
(* or silently forgets the connection.  The callback returns: one that     *)
(* raises is logged and counted as NOTIFY (:479-481), a counter of its own *)
(* that with abort_on_sequential_error_count None, the value FcmReceiver   *)
(* sets, changes nothing; with a limit it would end the client.            *)
(***************************************************************************)
EXTENDS Naturals, Sequences, FiniteSets

CONSTANTS
  MsgIds,       \* data messages the server holds for this registration
  Poison,       \* those _handle_data_message cannot decode
  RetryCount,   \* config.connection_retry_count
  Abort,        \* config.abort_on_sequential_error_count, 0 for None
  StartOutage,  \* failed tries the network allows while start() dials
  ResetOutage,  \* failed tries the network allows while _reset dials
  SilentLogin,  \* may a connection go silent before the login is answered?
  MaxInbox      \* bound: messages received and not yet read

(* What else a message may be.                                             *)
Controls == {"login_ok", "login_error", "ping", "ack", "close"}

ASSUME FcmClientAssumption ==
  /\ Poison \subseteq MsgIds
  /\ MsgIds \cap Controls = {}
  /\ RetryCount \in Nat \ {0}
  /\ Abort \in Nat
  /\ StartOutage \in 0..RetryCount
  /\ ResetOutage \in 0..RetryCount
  /\ SilentLogin \in BOOLEAN
  /\ MaxInbox \in Nat \ {0}

VARIABLES
  runState,   \* run_state
  doListen,   \* do_listen
  lpc,        \* where the listen task is suspended
  mpc,        \* where the monitor task is suspended
  cancelled,  \* tasks that will see CancelledError when they next resume
  spinning,   \* the listen task runs and does not suspend
  dialer,     \* the task inside _connect_with_retry or _reset
  step,       \* where in there it is suspended
  tries,      \* trycount
  locked,     \* reset_lock.locked()
  reader,     \* the connection behind self.reader
  writer,     \* self.writer is not None
  inbox,      \* messages the reader has buffered
  session,    \* the login, as the server sees it
  sent,       \* data messages pushed on this connection
  pending,    \* data messages the server has not seen acknowledged
  ids,        \* persistent_ids
  handled,    \* history: how often each message reached the callback
  errors,     \* sequential_error_counters
  stale       \* last_message_time is older than the heartbeat interval

state == <<runState, doListen>>
tasks == <<lpc, mpc, cancelled, spinning>>
dial  == <<dialer, step, tries, locked>>
conn  == <<reader, writer, inbox, session, sent>>
msgs  == <<pending, ids, handled>>
vars  == <<state, tasks, dial, conn, msgs, errors, stale>>

Tasks == {"listen", "monitor"}

RunStates == {"CREATED", "STARTING_TASKS", "STARTING_CONNECTION",
              "STARTING_LOGIN", "STARTED", "RESETTING", "STOPPING", "STOPPED"}

Kinds == Controls \cup MsgIds

(* Shutting down, the answer FcmReceiver._client_terminated gives.         *)
Terminated == runState \in {"STOPPING", "STOPPED"}

Finished(t) == IF t = "listen" THEN lpc = "done" ELSE mpc \in {"done", "dead"}

CanRun(t) == t \notin cancelled /\ (spinning => t = "listen")

Init ==
  /\ runState = "CREATED" /\ doListen = FALSE
  /\ lpc = "none" /\ mpc = "none" /\ cancelled = {} /\ spinning = FALSE
  /\ dialer = "none" /\ step = "idle" /\ tries = 0 /\ locked = FALSE
  /\ reader = "none" /\ writer = FALSE /\ inbox = <<>>
  /\ session = "none" /\ sent = {}
  /\ pending = MsgIds /\ ids = {} /\ handled = [m \in MsgIds |-> 0]
  /\ errors = [e \in {"CONNECTION", "LOGIN"} |-> 0]
  /\ stale = FALSE

-----------------------------------------------------------------------------
(* Pieces the handlers share.                                              *)

(* Variant: the other task is not cancelled.                               *)
TerminateAlone(t) ==
  /\ runState' = "STOPPING"
  /\ doListen' = FALSE
  /\ UNCHANGED cancelled

(* _terminate, run by task t.                                              *)
TerminateBy(t) ==
  /\ runState' = "STOPPING"
  /\ doListen' = FALSE
  /\ cancelled' = cancelled \cup {u \in Tasks \ {t} : ~Finished(u)}

(* Task t leaves off at the given point of its own code.                   *)
Resume(t, listenAt, monitorAt) ==
  /\ lpc' = IF t = "listen" THEN listenAt ELSE lpc
  /\ mpc' = IF t = "monitor" THEN monitorAt ELSE mpc

(* The end of _connect_with_retry or _reset.                               *)
EndDial ==
  /\ dialer' = "none" /\ step' = "idle" /\ tries' = 0 /\ locked' = FALSE

(* Variant: run_state is not set to RESETTING.                             *)
EnterResetSilently(t) ==
  /\ dialer' = t /\ step' = "closing" /\ tries' = 0 /\ locked' = TRUE
  /\ writer' = FALSE
  /\ Resume(t, "dialing", "dialing")
  /\ UNCHANGED runState

(* _reset past its early returns, up to the wait for the old transport.    *)
EnterReset(t) ==
  /\ dialer' = t /\ step' = "closing" /\ tries' = 0 /\ locked' = TRUE
  /\ runState' = "RESETTING"
  /\ writer' = FALSE
  /\ Resume(t, "dialing", "dialing")

(* The counters are only compared with Abort, so None need not count.      *)
CountError(e) ==
  errors' = [errors EXCEPT ![e] = IF Abort = 0 THEN @ ELSE @ + 1]

AbortOn(e) == Abort # 0 /\ errors[e] + 1 >= Abort

(* What the while loop of _listen does next: sleep during a reset, or read.*)
LoopTop(rs) == IF rs = "RESETTING" THEN "napping" ELSE "reading"

(* if self._try_increment_error_count(e): await self._reset()              *)
FailAndReset(e) ==
  /\ CountError(e)
  /\ \/ /\ AbortOn(e)
        /\ TerminateBy("listen")
        /\ Resume("listen", "finally", mpc)
        /\ UNCHANGED <<dial, writer>>
     \/ /\ ~AbortOn(e) /\ ~locked /\ doListen
        /\ EnterReset("listen")
        /\ UNCHANGED <<doListen, cancelled>>
     \/ /\ ~AbortOn(e) /\ (locked \/ ~doListen)
        /\ Resume("listen", LoopTop(runState), mpc)
        /\ UNCHANGED <<state, cancelled, dial, writer>>

(* An exception _listen does not know: it shuts the client down.           *)
Crash ==
  /\ TerminateBy("listen")
  /\ Resume("listen", "finally", mpc)
  /\ UNCHANGED <<dial, writer, errors>>
-----------------------------------------------------------------------------
(* start() and stop(), called from other threads through the event loop.   *)
(* start() itself has no guard: that a client is told to start once is for *)
(* its caller to see to (FcmReceiver, NeverStartedTwice).                  *)

Start ==
  /\ runState = "CREATED"
  /\ runState' = "STARTING_TASKS" /\ doListen' = TRUE
  /\ lpc' = "new" /\ mpc' = "sleeping"
  /\ UNCHANGED <<cancelled, spinning, dial, conn, msgs, errors, stale>>

Stop ==
  /\ runState \notin {"CREATED", "STOPPING", "STOPPED"}
  /\ ~spinning
  /\ runState' = "STOPPED" /\ doListen' = FALSE
  /\ cancelled' = cancelled \cup {t \in Tasks : ~Finished(t)}
  /\ UNCHANGED <<lpc, mpc, spinning, dial, conn, msgs, errors, stale>>

-----------------------------------------------------------------------------
(* _connect_with_retry, run first by the listen task, later inside _reset. *)

ListenStarts ==
  /\ lpc = "new" /\ CanRun("listen")
  /\ lpc' = "dialing" /\ dialer' = "listen" /\ step' = "connecting" /\ tries' = 1
  /\ runState' = "STARTING_CONNECTION"
  /\ UNCHANGED <<doListen, mpc, cancelled, spinning, locked, conn, msgs, errors,
                 stale>>

(* _connect succeeds and _login sends its request, persistent_ids in it.   *)
ConnectAndLogin ==
  /\ step = "connecting" /\ CanRun(dialer)
  /\ reader' = "open" /\ writer' = TRUE /\ inbox' = <<>> /\ sent' = {}
  /\ session' = "asked"
  /\ runState' = "STARTING_LOGIN"
  /\ EndDial
  /\ Resume(dialer, "reading", "sleeping")
  /\ UNCHANGED <<doListen, cancelled, spinning, msgs, errors, stale>>

(* The connection breaks before _login can send: _login counts the error   *)
(* and calls _reset, which returns at once when this already is a reset.   *)
ConnectAndLoginFails ==
  /\ step = "connecting" /\ CanRun(dialer)
  /\ reader' = "eof" /\ inbox' = <<>> /\ sent' = {} /\ session' = "none"
  /\ CountError("LOGIN")
  /\ \/ /\ AbortOn("LOGIN")
        /\ writer' = TRUE
        /\ EndDial
        /\ TerminateBy(dialer)
        /\ Resume(dialer, "finally", "done")
     \/ /\ ~AbortOn("LOGIN") /\ locked
        /\ writer' = TRUE
        /\ EndDial
        /\ runState' = "STARTING_LOGIN"
        /\ Resume(dialer, "reading", "sleeping")
        /\ UNCHANGED <<doListen, cancelled>>
     \/ /\ ~AbortOn("LOGIN") /\ ~locked
        /\ EnterReset(dialer)
        /\ UNCHANGED <<doListen, cancelled>>
  /\ UNCHANGED <<spinning, msgs, stale>>

ConnectFails ==
  /\ step = "connecting" /\ CanRun(dialer)
  /\ tries <= (IF locked THEN ResetOutage ELSE StartOutage)
  /\ step' = "retrying"
  /\ UNCHANGED <<state, tasks, dialer, tries, locked, conn, msgs, errors, stale>>

(* Variant: one try too many.                                              *)
RetryOnceMore ==
  /\ step = "retrying" /\ CanRun(dialer)
  /\ tries <= RetryCount /\ doListen
  /\ step' = "connecting" /\ tries' = tries + 1
  /\ UNCHANGED <<state, tasks, dialer, locked, conn, msgs, errors, stale>>

Retry ==
  /\ step = "retrying" /\ CanRun(dialer)
  /\ tries < RetryCount /\ doListen
  /\ step' = "connecting" /\ tries' = tries + 1
  /\ UNCHANGED <<state, tasks, dialer, locked, conn, msgs, errors, stale>>

(* Out of tries: _reset terminates the client, _listen just returns.       *)
GiveUp ==
  /\ step = "retrying" /\ CanRun(dialer)
  /\ tries = RetryCount \/ ~doListen
  /\ EndDial
  /\ IF locked
     THEN /\ TerminateBy(dialer)
          /\ Resume(dialer, "finally", "done")
     ELSE /\ Resume(dialer, "done", mpc)
          /\ UNCHANGED <<state, cancelled>>
  /\ UNCHANGED <<spinning, conn, msgs, errors, stale>>

(* _reset: the old transport is closed, which ends the old stream; what it *)
(* had buffered may still be read.  Then the wait for reset_interval.      *)
OldConnectionClosed ==
  /\ step = "closing" /\ CanRun(dialer)
  /\ reader' = "eof" /\ inbox' \in {inbox, <<>>}
  /\ step' = "backoff"
  /\ UNCHANGED <<state, tasks, dialer, tries, locked, writer, session, sent, msgs,
                 errors, stale>>

Redial ==
  /\ step = "backoff" /\ CanRun(dialer)
  /\ step' = "connecting" /\ tries' = 1
  /\ runState' = "STARTING_CONNECTION"
  /\ UNCHANGED <<doListen, tasks, dialer, locked, conn, msgs, errors, stale>>

-----------------------------------------------------------------------------
(* The read loop of _listen.                                               *)

Reading == lpc = "reading" /\ CanRun("listen")

(* _receive_msg returns m and _handle_message takes note of the time.      *)
Receive(m) ==
  /\ Reading
  /\ inbox # <<>> /\ m = Head(inbox)
  /\ inbox' = Tail(inbox)
  /\ stale' = FALSE
  /\ UNCHANGED <<reader, session, sent, spinning>>

(* A reply can be written; self.writer.write raises when it is None.       *)
CanAnswer  == writer
AnswerLost == writer /\ reader = "eof"

ReadOn == /\ Resume("listen", LoopTop(runState), mpc)
          /\ UNCHANGED <<state, cancelled, dial, writer>>

HandleLoginOk ==
  /\ Receive("login_ok")
  /\ errors' = [errors EXCEPT !["LOGIN"] = 0]
  /\ runState' = "STARTED"
  /\ ids' = {}
  /\ Resume("listen", "reading", mpc)
  /\ UNCHANGED <<doListen, cancelled, dial, writer, pending, handled>>

(* Variant: a refused login is logged and nothing else.                    *)
HandleLoginErrorLogged ==
  /\ Receive("login_error")
  /\ ReadOn
  /\ UNCHANGED <<errors, msgs>>

HandleLoginError ==
  /\ Receive("login_error")
  /\ FailAndReset("LOGIN")
  /\ UNCHANGED msgs

HandleClose ==
  /\ Receive("close")
  /\ FailAndReset("CONNECTION")
  /\ UNCHANGED msgs

HandleHeartbeatAck ==
  /\ Receive("ack")
  /\ errors' = [errors EXCEPT !["CONNECTION"] = 0]
  /\ ReadOn
  /\ UNCHANGED msgs

HandlePing ==
  /\ Receive("ping")
  /\ \/ /\ CanAnswer
        /\ errors' = [errors EXCEPT !["CONNECTION"] = 0]
        /\ ReadOn
     \/ AnswerLost /\ FailAndReset("CONNECTION")
     \/ ~CanAnswer /\ Crash
  /\ UNCHANGED msgs

(* self.persistent_ids.append(msg.persistent_id), before the ack is sent.  *)
(* Variant: it comes after the ack, so not when sending that one raised.   *)
RememberOnAck(m) == ids' = IF AnswerLost THEN ids ELSE ids \cup {m}
Remember(m) == ids' = ids \cup {m}

(* The callback runs, the id is remembered, then the selective ack leaves; *)
(* on a dying connection it may not arrive.                                *)
HandleData(m) ==
  /\ m \in MsgIds \ Poison
  /\ Receive(m)
  /\ handled' = [handled EXCEPT ![m] = IF @ = 2 THEN 2 ELSE @ + 1]
  /\ Remember(m)
  /\ \/ /\ CanAnswer
        /\ pending' \in IF reader = "open" THEN {pending, pending \ {m}} ELSE {pending}
        /\ errors' = [errors EXCEPT !["CONNECTION"] = 0]
        /\ ReadOn
     \/ AnswerLost /\ FailAndReset("CONNECTION") /\ UNCHANGED pending
     \/ ~CanAnswer /\ Crash /\ UNCHANGED pending

(* _handle_data_message raises before the callback and before the ack.     *)
HandlePoison(m) ==
  /\ m \in Poison
  /\ Receive(m)
  /\ Crash
  /\ UNCHANGED msgs

(* The stream ended.  During RESETTING that is expected; otherwise it is a *)
(* connection error, and when _reset returns at once nothing suspends.     *)
ReadEnd ==
  /\ Reading
  /\ inbox = <<>> /\ reader = "eof"
  /\ IF runState = "RESETTING"
     THEN ReadOn /\ spinning' = FALSE /\ UNCHANGED errors
     ELSE /\ FailAndReset("CONNECTION")
          /\ spinning' = (locked /\ ~AbortOn("CONNECTION"))
  /\ UNCHANGED <<reader, inbox, session, sent, msgs, stale>>

(* sleep(1) is over and the reset has moved on.                            *)
NapEnds ==
  /\ lpc = "napping" /\ CanRun("listen") /\ runState # "RESETTING"
  /\ lpc' = "reading"
  /\ UNCHANGED <<state, mpc, cancelled, spinning, dial, conn, msgs, errors, stale>>

(* Variant: the socket is not closed.                                      *)
FinallyNothing ==
  /\ lpc = "finally"
  /\ lpc' = "done"
  /\ cancelled' = cancelled \ {"listen"}
  /\ UNCHANGED <<state, mpc, spinning, dial, conn, msgs, errors, stale>>

(* finally: await self._do_writer_close()                                  *)
Finally ==
  /\ lpc = "finally"
  /\ lpc' = "done"
  /\ writer' = FALSE
  /\ reader' = IF writer THEN "eof" ELSE reader
  /\ cancelled' = cancelled \ {"listen"}
  /\ UNCHANGED <<state, mpc, spinning, dial, inbox, session, sent, msgs, errors,
                 stale>>
-----------------------------------------------------------------------------
(* _do_monitor: it acts only on a started client that has gone quiet.      *)

(* Variant: sending counts as hearing from the peer.                       *)
SendHeartbeatAsMessage ==
  /\ mpc = "sleeping" /\ CanRun("monitor")
  /\ runState = "STARTED" /\ stale
  /\ \/ writer /\ mpc' = "ackWait"
     \/ (~writer \/ reader = "eof") /\ mpc' = "dead"
  /\ stale' = FALSE
  /\ UNCHANGED <<state, lpc, cancelled, spinning, dial, conn, msgs, errors>>

(* An exception of _send_heartbeat is not caught: it ends the task.        *)
SendHeartbeat ==
  /\ mpc = "sleeping" /\ CanRun("monitor")
  /\ runState = "STARTED" /\ stale
  /\ \/ writer /\ mpc' = "ackWait"
     \/ (~writer \/ reader = "eof") /\ mpc' = "dead"
  /\ UNCHANGED <<state, lpc, cancelled, spinning, dial, conn, msgs, errors, stale>>

AckTimeout ==
  /\ mpc = "ackWait" /\ CanRun("monitor")
  /\ IF stale /\ doListen /\ runState = "STARTED" /\ ~locked
     THEN EnterReset("monitor") /\ UNCHANGED doListen
     ELSE Resume("monitor", lpc, "sleeping") /\ UNCHANGED <<state, dial, writer>>
  /\ UNCHANGED <<cancelled, spinning, reader, inbox, session, sent, msgs, errors,
                 stale>>

-----------------------------------------------------------------------------
(* CancelledError: inside try, _listen still runs its finally; a task that *)
(* held reset_lock releases it.                                            *)

ReleaseDial(t) == IF dialer = t THEN EndDial ELSE UNCHANGED dial

CancelListen ==
  /\ "listen" \in cancelled /\ lpc \notin {"finally", "done"} /\ ~spinning
  /\ lpc' = IF lpc = "new" \/ (dialer = "listen" /\ ~locked) THEN "done" ELSE "finally"
  /\ cancelled' = cancelled \ {"listen"}
  /\ ReleaseDial("listen")
  /\ UNCHANGED <<state, mpc, spinning, conn, msgs, errors, stale>>

CancelMonitor ==
  /\ "monitor" \in cancelled /\ ~spinning
  /\ mpc' = "done"
  /\ cancelled' = cancelled \ {"monitor"}
  /\ ReleaseDial("monitor")
  /\ UNCHANGED <<state, lpc, spinning, conn, msgs, errors, stale>>

-----------------------------------------------------------------------------
(* The peer and the clock (external).  A received message needs the event  *)
(* loop to be read off the socket, so nothing arrives while a task spins.  *)

Deliver(k) == /\ reader = "open" /\ ~spinning /\ Len(inbox) < MaxInbox
              /\ inbox' = Append(inbox, k)
              /\ UNCHANGED <<state, tasks, dial, reader, writer, ids, handled, errors,
                             stale>>

(* The server takes the persistent_ids of the login as acknowledged.       *)
ServerAcceptsLogin ==
  /\ session = "asked" /\ session' = "open"
  /\ pending' = pending \ ids
  /\ Deliver("login_ok")
  /\ UNCHANGED sent

ServerRefusesLogin ==
  /\ session = "asked" /\ session' = "refused"
  /\ Deliver("login_error")
  /\ UNCHANGED <<sent, pending>>

ServerPushes(m) ==
  /\ session = "open" /\ m \in pending \ sent
  /\ sent' = sent \cup {m}
  /\ Deliver(m)
  /\ UNCHANGED <<session, pending>>

ServerBeats(k) ==
  /\ session = "open" /\ k \in {"ping", "ack", "close"}
  /\ Deliver(k)
  /\ UNCHANGED <<session, sent, pending>>

ConnectionBreaks ==
  /\ reader \in {"open", "silent"} /\ ~spinning
  /\ reader' = "eof" /\ inbox' \in {inbox, <<>>}
  /\ UNCHANGED <<state, tasks, dial, writer, session, sent, msgs, errors, stale>>

(* The peer is gone and no packet says so.                                 *)
ConnectionGoesSilent ==
  /\ reader = "open" /\ reader' = "silent"
  /\ session = "open" \/ SilentLogin
  /\ UNCHANGED <<state, tasks, dial, writer, inbox, session, sent, msgs, errors,
                 stale>>

TimePasses ==
  /\ doListen /\ ~stale
  /\ stale' = TRUE
  /\ UNCHANGED <<state, tasks, dial, conn, msgs, errors>>

-----------------------------------------------------------------------------
Dial == \/ ConnectAndLogin \/ ConnectAndLoginFails \/ ConnectFails \/ Retry \/ GiveUp
        \/ OldConnectionClosed \/ Redial

Listen == \/ ListenStarts
          \/ HandleLoginOk \/ HandleLoginError \/ HandleClose
          \/ HandleHeartbeatAck \/ HandlePing
          \/ \E m \in MsgIds : HandleData(m) \/ HandlePoison(m)
          \/ ReadEnd \/ NapEnds \/ Finally

Monitor == SendHeartbeat \/ AckTimeout

Peer == \/ ServerAcceptsLogin \/ ServerRefusesLogin
        \/ \E m \in MsgIds : ServerPushes(m)
        \/ \E k \in {"ping", "ack", "close"} : ServerBeats(k)
        \/ ConnectionBreaks \/ ConnectionGoesSilent

Next == Start \/ Stop \/ Dial \/ Listen \/ Monitor \/ CancelListen \/ CancelMonitor
        \/ Peer \/ TimePasses

Spec == Init /\ [][Next]_vars

(* The event loop runs every task that is ready, time passes, and the peer *)
(* answers a login it received on a connection that stays up.              *)
Fairness ==
  /\ WF_vars(Dial) /\ WF_vars(Listen) /\ WF_vars(Monitor)
  /\ WF_vars(CancelListen) /\ WF_vars(CancelMonitor)
  /\ WF_vars(TimePasses)
  /\ WF_vars(ServerAcceptsLogin \/ ServerRefusesLogin)

FairSpec == Spec /\ Fairness

-----------------------------------------------------------------------------
TypeOK ==
  /\ runState \in RunStates /\ doListen \in BOOLEAN
  /\ lpc \in {"none", "new", "dialing", "reading", "napping", "finally", "done"}
  /\ mpc \in {"none", "sleeping", "ackWait", "dialing", "done", "dead"}
  /\ cancelled \subseteq Tasks /\ spinning \in BOOLEAN
  /\ dialer \in Tasks \cup {"none"} /\ locked \in BOOLEAN
  /\ step \in {"idle", "closing", "backoff", "connecting", "retrying"}
  /\ tries \in 0..RetryCount
  /\ reader \in {"none", "open", "silent", "eof"} /\ writer \in BOOLEAN
  /\ inbox \in Seq(Kinds) /\ Len(inbox) <= MaxInbox
  /\ session \in {"none", "asked", "open", "refused"}
  /\ sent \subseteq MsgIds /\ pending \subseteq MsgIds /\ ids \subseteq MsgIds
  /\ handled \in [MsgIds -> 0..2]
  /\ errors \in [{"CONNECTION", "LOGIN"} -> 0..Abort]
  /\ stale \in BOOLEAN

(* STARTED is only ever claimed for a login the server accepted on the     *)
(* connection the client still writes to (_handle_message:613-623, _reset, *)
(* _login): heartbeats and acks of a started client reach that session.    *)
StartedOnLiveSession ==
  runState = "STARTED" => session = "open" /\ writer

(* A push is handed to the callback at most once in the life of a client,  *)
(* whatever connections break and acks get lost: persistent_ids are kept   *)
(* until a login that carried them has been answered (:380, :622, :627).   *)
HandledAtMostOnce == \A m \in MsgIds : handled[m] <= 1

(* STOPPING and STOPPED are final: no task that was mid-reset or mid-login *)
(* revives a client FcmReceiver has already replaced (_terminate:536-545). *)
TerminationIsFinal == [][Terminated => Terminated']_vars

(* When both tasks have ended no connection is left open behind them       *)
(* (_listen's finally:748-749), also when the other task was mid-dial.     *)
NoConnectionLeaked ==
  lpc = "done" /\ Finished("monitor") => ~writer /\ dialer = "none"

(* The client, seen through its run_state, is a PushClient.                *)
PhaseOf(rs) == CASE rs = "CREATED" -> "created"
                 [] rs = "STARTED" -> "serving"
                 [] rs \in {"STOPPING", "STOPPED"} -> "terminated"
                 [] OTHER -> "connecting"

Abstract == INSTANCE PushClient WITH phase <- PhaseOf(runState)

(* Implements PushClient, its promise to serve or to give up included.     *)
ServesOrGivesUp == Abstract!Spec

(* A started client whose peer has silently gone does not stay on that     *)
(* connection (_do_monitor:547-578), as long as the monitor has not ended  *)
(* with the exception of a heartbeat it could not send (:561).             *)
SilenceIsNoticed ==
  (runState = "STARTED" /\ reader = "silent" /\ mpc # "dead")
     ~> (reader # "silent" \/ Terminated)

(* fcm_receiver.py:83-84: "STOPPING/STOPPED via stop() or its own          *)
(* _terminate() after a terminal error": a client whose listen task has    *)
(* ended says so in its run_state.                                         *)
DeadClientSaysSo == lpc = "done" => Terminated

(* fcm_receiver.py:54-60: "None = keep resetting": a reset that began ends.*)
ResetsEnd == locked ~> ~locked
=============================================================================
