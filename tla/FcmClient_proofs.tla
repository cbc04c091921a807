-------------------------- MODULE FcmClient_proofs --------------------------
(***************************************************************************)
(* Proofs about FcmClient, for any messages, numbers of tries, abort limit *)
(* and outages: a started client has a live session, a push is handled at  *)
(* most once, nothing stays open behind a client that ended, termination   *)
(* is final, and the client implements the safety part of PushClient.      *)
(***************************************************************************)
EXTENDS FcmClient, SequenceTheorems, TLAPS

(* Before the first dial there is no connection and nobody dials.          *)
Created ==
  /\ runState = "CREATED" <=> lpc = "none"
  /\ mpc = "none" <=> lpc = "none"
  /\ lpc = "none" => dialer = "none" /\ ~writer
  /\ lpc = "new" => /\ dialer = "none" /\ ~writer
                    /\ runState = "STARTING_TASKS" \/ Terminated

(* The dialer is the one task suspended in there; only the first dial is   *)
(* done without the lock.  A client that dials writes to nothing.          *)
Dialing ==
  /\ dialer = "listen" <=> lpc = "dialing"
  /\ dialer = "monitor" <=> mpc = "dialing"
  /\ dialer = "none" <=> step = "idle"
  /\ locked => dialer # "none"
  /\ dialer = "monitor" \/ step \in {"closing", "backoff"} => locked
  /\ dialer # "none" =>
       /\ ~writer
       /\ runState \in {"STARTING_CONNECTION", "RESETTING"} \/ Terminated
  /\ dialer # "none" /\ ~locked => runState = "STARTING_CONNECTION" \/ Terminated

(* A task of a terminated client has ended, will be cancelled when it next *)
(* resumes, or runs its finally.                                           *)
Doomed ==
  /\ cancelled # {} \/ lpc = "finally" => Terminated
  /\ Terminated => \A t \in Tasks : \/ Finished(t) \/ t \in cancelled
                                    \/ t = "listen" /\ lpc = "finally"

(* A counter that reached the limit has terminated the client.             *)
Counted ==
  ~Terminated /\ Abort # 0 => \A e \in {"CONNECTION", "LOGIN"} : errors[e] < Abort

(* The listen task leaves no connection, and none is made after it.        *)
ListenEnded == lpc = "done" => ~writer /\ (dialer = "monitor" => Terminated)

AwaitsLogin == Terminated \/ (runState = "STARTING_LOGIN" /\ writer)

(* The answer to a login is the first message of its connection, and finds *)
(* the client as it was when it asked.                                     *)
LoginFirst ==
  /\ session = "asked" => inbox = <<>> /\ (reader = "open" => AwaitsLogin)
  /\ \A i \in DOMAIN inbox :
       inbox[i] = "login_ok" =>
         i = 1 /\ session = "open" /\ ids \cap pending = {} /\ AwaitsLogin

(* What waits to be read was pushed on this connection and not handled     *)
(* yet; what was handled is remembered or acknowledged, and what is        *)
(* remembered is not pushed again on a connection that knows of it.        *)
PushedOnce ==
  /\ \A i \in DOMAIN inbox :
       inbox[i] \in MsgIds => inbox[i] \in sent /\ handled[inbox[i]] = 0
  /\ \A i, j \in DOMAIN inbox : inbox[i] \in MsgIds /\ inbox[i] = inbox[j] => i = j
  /\ \A m \in MsgIds : handled[m] # 0 => m \in ids \/ m \notin pending
  /\ session = "open" => ids \cap pending \subseteq sent

(* TypeOK in two halves.                                                   *)
ControlTypes ==
  /\ runState \in RunStates /\ doListen \in BOOLEAN
  /\ lpc \in {"none", "new", "dialing", "reading", "napping", "finally", "done"}
  /\ mpc \in {"none", "sleeping", "ackWait", "dialing", "done", "dead"}
  /\ cancelled \subseteq Tasks /\ spinning \in BOOLEAN
  /\ dialer \in Tasks \cup {"none"} /\ locked \in BOOLEAN
  /\ step \in {"idle", "closing", "backoff", "connecting", "retrying"}
  /\ tries \in 0..RetryCount
  /\ writer \in BOOLEAN
  /\ errors \in [{"CONNECTION", "LOGIN"} -> 0..Abort]

MessageTypes ==
  /\ reader \in {"none", "open", "silent", "eof"}
  /\ inbox \in Seq(Kinds) /\ Len(inbox) <= MaxInbox
  /\ session \in {"none", "asked", "open", "refused"}
  /\ sent \subseteq MsgIds /\ pending \subseteq MsgIds /\ ids \subseteq MsgIds
  /\ handled \in [MsgIds -> 0..2]
  /\ stale \in BOOLEAN

Control == ControlTypes /\ Created /\ Dialing /\ Doomed /\ Counted /\ ListenEnded

Messages == /\ MessageTypes /\ StartedOnLiveSession
            /\ LoginFirst /\ PushedOnce /\ HandledAtMostOnce

IInv == Control /\ Messages

-----------------------------------------------------------------------------
(* What several steps need.                                                *)

LEMMA Zeros == 0 \in 0..RetryCount /\ 0 \in 0..Abort /\ 0 <= MaxInbox
  BY FcmClientAssumption

LEMMA TypesAreType == IInv => TypeOK
  BY DEF IInv, Control, Messages, ControlTypes, MessageTypes, TypeOK

(* A task that reads or dials and may go on was not told to end.           *)
LEMMA ReaderAlive == ASSUME IInv, Reading PROVE ~Terminated
  BY DEF IInv, Control, Doomed, Reading, CanRun, Tasks, Finished

LEMMA DialerAlive == ASSUME IInv, step # "idle", CanRun(dialer)
                     PROVE  ~Terminated /\ dialer \in Tasks
  BY DEF IInv, Control, ControlTypes, Dialing, Doomed, CanRun, Tasks, Finished

(* The peer and the clock disturb no task.                                 *)
LEMMA ControlFrame == ASSUME Control, UNCHANGED <<state, tasks, dial, writer, errors>>
                      PROVE  Control'
  BY DEF Control, ControlTypes, Created, Dialing, Doomed, Counted, ListenEnded,
         Terminated, Finished, state, tasks, dial

(* A step that leaves the connection alone disturbs no message, unless the *)
(* client forgets that it asked for a login.                               *)
LEMMA MessagesKept ==
  ASSUME Messages, UNCHANGED <<reader, inbox, session, sent, msgs>>, stale' \in BOOLEAN,
         AwaitsLogin => AwaitsLogin',
         runState' = "STARTED" => runState = "STARTED" /\ writer'
  PROVE  Messages'
  BY DEF Messages, MessageTypes, StartedOnLiveSession, LoginFirst, PushedOnce,
         HandledAtMostOnce, msgs

(* A step that ends the client, likewise.                                  *)
LEMMA EndKeepsMessages ==
  ASSUME Messages, UNCHANGED <<reader, inbox, session, sent, msgs>>, stale' \in BOOLEAN,
         Terminated'
  PROVE  Messages'
<1>1. AwaitsLogin' /\ runState' # "STARTED"
  BY DEF AwaitsLogin, Terminated
<1> QED
  BY <1>1, MessagesKept

(* While a task dials no login is awaited, unless the client is ending.    *)
LEMMA DialerAwaitsNothing == ASSUME IInv, dialer # "none", ~Terminated
                             PROVE  ~AwaitsLogin /\ runState # "STARTED"
  BY DEF IInv, Control, Dialing, AwaitsLogin

-----------------------------------------------------------------------------
LEMMA InitIInv == Init => IInv
<1> SUFFICES ASSUME Init PROVE IInv
  OBVIOUS
<1> USE FcmClientAssumption DEF Init
<1>1. ControlTypes
  <2>1. errors \in [{"CONNECTION", "LOGIN"} -> 0..Abort] /\ tries \in 0..RetryCount
    OBVIOUS
  <2> QED
    BY <2>1 DEF ControlTypes, RunStates, Tasks
<1>2. Created /\ Dialing /\ Doomed /\ Counted /\ ListenEnded
  BY DEF Created, Dialing, Doomed, Counted, ListenEnded, Terminated
<1>3. inbox \in Seq(Kinds) /\ Len(inbox) = 0 /\ DOMAIN inbox = {}
  BY EmptySeq
<1>4. MessageTypes
  <2>1. handled \in [MsgIds -> 0..2]
    OBVIOUS
  <2> QED
    BY <1>3, <2>1, Zeros DEF MessageTypes
<1>5. StartedOnLiveSession /\ LoginFirst /\ PushedOnce /\ HandledAtMostOnce
  BY <1>3 DEF StartedOnLiveSession, LoginFirst, PushedOnce, HandledAtMostOnce
<1> QED
  BY <1>1, <1>2, <1>4, <1>5 DEF IInv, Control, Messages

(* start() and stop()                                                      *)
LEMMA StartIInv == ASSUME IInv, Start PROVE IInv'
<1> USE DEF Start
<1>1. Control'
  BY DEF IInv, Control, ControlTypes, Created, Dialing, Doomed, Counted, ListenEnded,
         RunStates, Tasks, Terminated, Finished, dial, conn
<1>2. Messages'
  <2>1. ~AwaitsLogin /\ runState' # "STARTED"
    BY DEF AwaitsLogin, Terminated
  <2> QED
    BY <2>1, MessagesKept DEF IInv, Messages, MessageTypes, conn
<1> QED
  BY <1>1, <1>2 DEF IInv

LEMMA StopIInv == ASSUME IInv, Stop PROVE IInv'
<1> USE DEF Stop
<1>1. Terminated' /\ UNCHANGED conn
  BY DEF Terminated
<1>2. Control'
  <2>1. ControlTypes'
    BY DEF IInv, Control, ControlTypes, RunStates, Tasks, dial, conn
  <2>2. Created' /\ Dialing' /\ ListenEnded'
    BY <1>1 DEF IInv, Control, Created, Dialing, ListenEnded, Terminated, dial, conn
  <2>3. Doomed' /\ Counted'
    BY <1>1 DEF Doomed, Counted, Finished, Tasks
  <2> QED
    BY <2>1, <2>2, <2>3 DEF Control
<1>3. Messages'
  BY <1>1, EndKeepsMessages DEF IInv, Messages, MessageTypes, conn
<1> QED
  BY <1>2, <1>3 DEF IInv

-----------------------------------------------------------------------------
(* _connect_with_retry and _reset                                          *)

LEMMA ListenStartsIInv == ASSUME IInv, ListenStarts PROVE IInv'
<1> USE DEF ListenStarts
<1>1. ~Terminated /\ ~AwaitsLogin
  BY DEF IInv, Control, Created, Doomed, CanRun, Tasks, Finished, AwaitsLogin, Terminated
<1>2. Control'
  <2>1. ControlTypes'
    BY FcmClientAssumption DEF IInv, Control, ControlTypes, RunStates, Tasks, conn
  <2>2. Created' /\ Dialing' /\ ListenEnded'
    BY DEF IInv, Control, Created, Dialing, ListenEnded, Terminated, conn
  <2>3. Doomed' /\ Counted'
    BY <1>1 DEF IInv, Control, Doomed, Counted, Terminated
  <2> QED
    BY <2>1, <2>2, <2>3 DEF Control
<1>3. Messages'
  BY <1>1, MessagesKept DEF IInv, Messages, MessageTypes, conn
<1> QED
  BY <1>2, <1>3 DEF IInv

LEMMA ConnectAndLoginIInv == ASSUME IInv, ConnectAndLogin PROVE IInv'
<1> USE DEF ConnectAndLogin, EndDial, Resume
<1>1. ~Terminated /\ dialer \in Tasks
  BY DialerAlive
<1>2. Control'
  <2>1. ControlTypes'
    BY Zeros DEF IInv, Control, ControlTypes, RunStates, Tasks
  <2>2. Created' /\ Dialing' /\ ListenEnded'
    BY <1>1 DEF IInv, Control, Created, Dialing, ListenEnded, Terminated, Tasks
  <2>3. Doomed' /\ Counted'
    BY <1>1 DEF IInv, Control, Doomed, Counted, Dialing, Terminated, Tasks
  <2> QED
    BY <2>1, <2>2, <2>3 DEF Control
<1>3. inbox' \in Seq(Kinds) /\ Len(inbox') = 0 /\ DOMAIN inbox' = {}
  BY EmptySeq
<1>4. MessageTypes'
  BY <1>3, Zeros DEF IInv, Messages, MessageTypes, msgs
<1>5. StartedOnLiveSession' /\ LoginFirst' /\ PushedOnce' /\ HandledAtMostOnce'
  BY <1>3 DEF IInv, Messages, StartedOnLiveSession, LoginFirst, PushedOnce, AwaitsLogin,
              HandledAtMostOnce, msgs
<1> QED
  BY <1>2, <1>4, <1>5 DEF IInv, Messages

LEMMA ConnectAndLoginFailsIInv == ASSUME IInv, ConnectAndLoginFails PROVE IInv'
<1> USE DEF ConnectAndLoginFails, EndDial, EnterReset, Resume, TerminateBy, CountError, AbortOn
<1>1. ~Terminated /\ dialer \in Tasks
  BY DialerAlive
<1>2. ControlTypes'
  <2>1. errors' \in [{"CONNECTION", "LOGIN"} -> 0..Abort]
    BY <1>1, FcmClientAssumption DEF IInv, Control, ControlTypes, Counted
  <2> QED
    BY <2>1, Zeros DEF IInv, Control, ControlTypes, RunStates, Tasks
<1>3. Created' /\ Dialing' /\ ListenEnded'
  BY <1>1 DEF IInv, Control, ControlTypes, Created, Dialing, ListenEnded, Terminated, Tasks
<1>4. Doomed' /\ Counted'
  BY <1>1, FcmClientAssumption
     DEF IInv, Control, ControlTypes, Doomed, Counted, Dialing, Terminated, Finished, Tasks
<1>5. inbox' \in Seq(Kinds) /\ Len(inbox') = 0 /\ DOMAIN inbox' = {}
  BY EmptySeq
<1>6. MessageTypes'
  BY <1>5, Zeros DEF IInv, Messages, MessageTypes, msgs
<1>7. StartedOnLiveSession' /\ LoginFirst' /\ PushedOnce' /\ HandledAtMostOnce'
  BY <1>5 DEF IInv, Messages, StartedOnLiveSession, LoginFirst, PushedOnce,
              HandledAtMostOnce, msgs
<1> QED
  BY <1>2, <1>3, <1>4, <1>6, <1>7 DEF IInv, Control, Messages

LEMMA TryIInv == ASSUME IInv, ConnectFails \/ Retry \/ Redial PROVE IInv'
<1> USE DEF ConnectFails, Retry, Redial
<1>1. ~Terminated /\ dialer # "none"
  BY DialerAlive DEF Tasks
<1>2. Control'
  <2>1. ControlTypes'
    BY FcmClientAssumption DEF IInv, Control, ControlTypes, RunStates, state, tasks, conn
  <2>2. Created' /\ Dialing' /\ ListenEnded'
    BY <1>1 DEF IInv, Control, Created, Dialing, ListenEnded, Terminated, state, tasks, conn
  <2>3. Doomed' /\ Counted'
    BY <1>1 DEF IInv, Control, Doomed, Counted, Terminated, Finished, state, tasks
  <2> QED
    BY <2>1, <2>2, <2>3 DEF Control
<1>3. Messages'
  BY <1>1, DialerAwaitsNothing, MessagesKept DEF IInv, Messages, MessageTypes, conn, state
<1> QED
  BY <1>2, <1>3 DEF IInv

LEMMA GiveUpIInv == ASSUME IInv, GiveUp PROVE IInv'
<1> USE DEF GiveUp, EndDial, Resume, TerminateBy
<1>1. ~Terminated /\ dialer \in Tasks /\ dialer # "none"
  BY DialerAlive DEF Tasks
<1>2. Control'
  <2>1. ControlTypes'
    <3>1. runState' \in RunStates /\ doListen' \in BOOLEAN /\ cancelled' \subseteq Tasks
      BY DEF IInv, Control, ControlTypes, RunStates, state
    <3> QED
      BY <3>1, Zeros DEF IInv, Control, ControlTypes, Tasks, conn
  <2>2. Created' /\ Dialing' /\ ListenEnded'
    BY <1>1 DEF IInv, Control, ControlTypes, Created, Dialing, ListenEnded, Terminated,
                Tasks, state, conn
  <2>3. Doomed' /\ Counted'
    BY <1>1 DEF IInv, Control, ControlTypes, Doomed, Counted, Dialing, Terminated, Finished,
                Tasks, state
  <2> QED
    BY <2>1, <2>2, <2>3 DEF Control
<1>3. Messages'
  BY <1>1, DialerAwaitsNothing, MessagesKept DEF IInv, Messages, MessageTypes, conn, state
<1> QED
  BY <1>2, <1>3 DEF IInv

(* What was read off a connection that is gone may be left.                *)
LEMMA BufferKeptOrLost ==
  ASSUME Messages, UNCHANGED <<runState, writer, session, sent, msgs, stale>>,
         reader' = "eof", inbox' \in {inbox, <<>>}
  PROVE  Messages'
<1>1. <<>> \in Seq(Kinds) /\ Len(<<>>) = 0 /\ DOMAIN <<>> = {}
  BY EmptySeq
<1>2. MessageTypes'
  <2>1. inbox' \in Seq(Kinds) /\ Len(inbox') <= MaxInbox
    BY <1>1, Zeros DEF Messages, MessageTypes
  <2> QED
    BY <2>1 DEF Messages, MessageTypes, msgs
<1>3. StartedOnLiveSession' /\ LoginFirst' /\ PushedOnce' /\ HandledAtMostOnce'
  BY <1>1 DEF Messages, StartedOnLiveSession, LoginFirst, PushedOnce, HandledAtMostOnce,
              AwaitsLogin, Terminated, msgs
<1> QED
  BY <1>2, <1>3 DEF Messages

LEMMA OldConnectionClosedIInv == ASSUME IInv, OldConnectionClosed PROVE IInv'
<1> USE DEF OldConnectionClosed, state, tasks
<1>1. Control'
  <2>1. ControlTypes'
    BY DEF IInv, Control, ControlTypes
  <2>2. Created' /\ Dialing' /\ ListenEnded'
    BY DEF IInv, Control, Created, Dialing, ListenEnded, Terminated
  <2>3. Doomed' /\ Counted'
    BY DEF IInv, Control, Doomed, Counted, Terminated, Finished
  <2> QED
    BY <2>1, <2>2, <2>3 DEF Control
<1>2. Messages'
  BY BufferKeptOrLost DEF IInv
<1> QED
  BY <1>1, <1>2 DEF IInv

-----------------------------------------------------------------------------
(* The read loop of _listen                                                *)

(* What a reading task may set run_state to by itself.                     *)
StaysLive == runState' = "STARTED" => runState = "STARTED" /\ writer'

LEMMA FailAndResetControl ==
  ASSUME IInv, Reading, NEW e \in {"CONNECTION", "LOGIN"}, FailAndReset(e), spinning' \in BOOLEAN
  PROVE  Control' /\ StaysLive
<1> USE DEF FailAndReset, TerminateBy, Resume, EnterReset, LoopTop
<1>1. ~Terminated /\ lpc = "reading" /\ dialer # "listen"
  BY ReaderAlive DEF Reading, IInv, Control, Dialing
<1>2. errors' \in [{"CONNECTION", "LOGIN"} -> 0..Abort]
  BY <1>1, FcmClientAssumption DEF CountError, IInv, Control, ControlTypes, Counted
<1>3. ControlTypes'
  <2>1. runState' \in RunStates /\ doListen' \in BOOLEAN /\ cancelled' \subseteq Tasks
    BY DEF IInv, Control, ControlTypes, RunStates, Tasks, state
  <2>2. /\ dialer' \in Tasks \cup {"none"} /\ locked' \in BOOLEAN /\ writer' \in BOOLEAN
        /\ step' \in {"idle", "closing", "backoff", "connecting", "retrying"}
        /\ tries' \in 0..RetryCount
    BY Zeros DEF IInv, Control, ControlTypes, Tasks, dial
  <2>3. lpc' \in {"finally", "dialing", "napping", "reading"} /\ mpc' = mpc
    BY <1>1
  <2> QED
    BY <1>2, <2>1, <2>2, <2>3 DEF IInv, Control, ControlTypes
<1>4. Created' /\ Dialing' /\ ListenEnded'
  BY <1>1 DEF IInv, Control, ControlTypes, Created, Dialing, ListenEnded, Terminated, state,
              dial, Tasks
<1>5. Doomed'
  BY <1>1 DEF IInv, Control, Doomed, Terminated, Finished, Tasks, state
<1>6. Counted'
  BY <1>1, FcmClientAssumption
     DEF IInv, Control, ControlTypes, Counted, CountError, AbortOn, Terminated, state
<1>7. StaysLive
  BY DEF StaysLive, IInv, Messages, StartedOnLiveSession, state
<1> QED
  BY <1>3, <1>4, <1>5, <1>6, <1>7 DEF Control

LEMMA CrashControl == ASSUME IInv, Reading, Crash, spinning' = spinning
                      PROVE  Control' /\ StaysLive
<1> USE DEF Crash, TerminateBy, Resume
<1>1. ~Terminated /\ lpc = "reading" /\ dialer # "listen"
  BY ReaderAlive DEF Reading, IInv, Control, Dialing
<1>2. ControlTypes'
  BY DEF IInv, Control, ControlTypes, RunStates, Tasks, dial
<1>3. Created' /\ Dialing' /\ ListenEnded'
  BY <1>1 DEF IInv, Control, Created, Dialing, ListenEnded, Terminated, dial
<1>4. Doomed' /\ Counted'
  BY <1>1 DEF IInv, Control, ControlTypes, Doomed, Counted, Terminated, Finished, Tasks
<1> QED
  BY <1>2, <1>3, <1>4 DEF Control, StaysLive

(* A counter may be set back.                                              *)
LEMMA ReadOnControl ==
  ASSUME IInv, Reading, ReadOn, spinning' \in BOOLEAN,
         errors' \in [{"CONNECTION", "LOGIN"} -> 0..Abort],
         \A e \in {"CONNECTION", "LOGIN"} : errors'[e] <= errors[e]
  PROVE  Control' /\ StaysLive
<1> USE DEF ReadOn, Resume, LoopTop
<1>1. ~Terminated /\ lpc = "reading"
  BY ReaderAlive DEF Reading
<1>2. ControlTypes'
  BY DEF IInv, Control, ControlTypes, state, dial
<1>3. Created' /\ Dialing' /\ ListenEnded'
  BY <1>1 DEF IInv, Control, Created, Dialing, ListenEnded, Terminated, dial, state
<1>4. Doomed'
  BY <1>1 DEF IInv, Control, Doomed, Terminated, state
<1>5. Counted'
  BY <1>1, FcmClientAssumption DEF IInv, Control, ControlTypes, Counted, Terminated, state
<1>6. StaysLive
  BY DEF StaysLive, IInv, Messages, StartedOnLiveSession, state
<1> QED
  BY <1>2, <1>3, <1>4, <1>5, <1>6 DEF Control

LEMMA ErrorReset ==
  ASSUME IInv, NEW e \in {"CONNECTION", "LOGIN"}, errors' = [errors EXCEPT ![e] = 0]
  PROVE  /\ errors' \in [{"CONNECTION", "LOGIN"} -> 0..Abort]
         /\ \A f \in {"CONNECTION", "LOGIN"} : errors'[f] <= errors[f]
  BY FcmClientAssumption DEF IInv, Control, ControlTypes

LEMMA Taken ==
  ASSUME IInv, NEW m, Receive(m)
  PROVE  /\ m \in Kinds /\ 1 \in DOMAIN inbox /\ m = inbox[1]
         /\ inbox' \in Seq(Kinds) /\ Len(inbox') <= MaxInbox
         /\ \A i \in DOMAIN inbox' : /\ i \in Nat \ {0} /\ i + 1 \in DOMAIN inbox
                                     /\ inbox'[i] = inbox[i + 1]
         /\ session # "asked"
<1> USE DEF Receive
<1>1. inbox \in Seq(Kinds) /\ inbox # <<>> /\ Len(inbox) <= MaxInbox
  BY DEF IInv, Messages, MessageTypes
<1>2. /\ Len(inbox) \in Nat \ {0} /\ DOMAIN inbox = 1..Len(inbox)
      /\ Head(inbox) \in Kinds /\ Tail(inbox) \in Seq(Kinds)
      /\ Len(Tail(inbox)) = Len(inbox) - 1
      /\ \A i \in 1..Len(Tail(inbox)) : Tail(inbox)[i] = inbox[i + 1]
  BY <1>1, EmptySeq, LenProperties, HeadTailProperties
<1>3. DOMAIN Tail(inbox) = 1..Len(Tail(inbox)) /\ Head(inbox) = inbox[1]
  BY <1>1, <1>2, LenProperties
<1>4. session # "asked"
  BY <1>1 DEF IInv, Messages, LoginFirst
<1> QED
  BY <1>1, <1>2, <1>3, <1>4, FcmClientAssumption

(* Reading any message but the answer to a login.                          *)
LEMMA TakenMessages ==
  ASSUME IInv, NEW m, Receive(m), m # "login_ok", UNCHANGED msgs, StaysLive
  PROVE  Messages'
<1> USE Taken DEF IInv, Messages
<1>1. MessageTypes'
  BY DEF MessageTypes, Receive, msgs
<1>2. StartedOnLiveSession' /\ HandledAtMostOnce'
  BY DEF StartedOnLiveSession, StaysLive, HandledAtMostOnce, Receive, msgs
<1>3. LoginFirst'
  BY DEF LoginFirst, Receive
<1>4. PushedOnce'
  BY DEF PushedOnce, Receive, msgs
<1> QED
  BY <1>1, <1>2, <1>3, <1>4

LEMMA HandleLoginOkIInv == ASSUME IInv, HandleLoginOk PROVE IInv'
<1> USE DEF HandleLoginOk, Resume
<1>1. /\ ~Terminated /\ lpc = "reading" /\ Receive("login_ok")
      /\ session = "open" /\ ids \cap pending = {}
      /\ runState = "STARTING_LOGIN" /\ writer
  BY ReaderAlive, Taken DEF Receive, Reading, IInv, Messages, LoginFirst, AwaitsLogin
<1>2. Control'
  <2>1. errors' \in [{"CONNECTION", "LOGIN"} -> 0..Abort]
    BY ErrorReset
  <2>2. ControlTypes'
    BY <2>1 DEF IInv, Control, ControlTypes, RunStates, Receive, dial
  <2>3. Created' /\ Dialing' /\ ListenEnded'
    BY <1>1 DEF IInv, Control, Created, Dialing, ListenEnded, Terminated, dial
  <2>4. Doomed'
    BY <1>1 DEF IInv, Control, Doomed, Terminated
  <2>5. Counted'
    BY <1>1, FcmClientAssumption DEF IInv, Control, ControlTypes, Counted, Terminated
  <2> QED
    BY <2>2, <2>3, <2>4, <2>5 DEF Control
<1>3. Messages'
  <2>1. MessageTypes'
    BY <1>1, Taken DEF IInv, Messages, MessageTypes, Receive
  <2>2. StartedOnLiveSession' /\ HandledAtMostOnce'
    BY <1>1 DEF StartedOnLiveSession, IInv, Messages, HandledAtMostOnce, Receive
  <2>3. LoginFirst'
    BY <1>1, Taken DEF IInv, Messages, LoginFirst, Receive
  <2>4. PushedOnce'
    BY <1>1, Taken DEF IInv, Messages, PushedOnce, Receive
  <2> QED
    BY <2>1, <2>2, <2>3, <2>4 DEF Messages
<1> QED
  BY <1>2, <1>3 DEF IInv

LEMMA HandleErrorIInv == ASSUME IInv, HandleLoginError \/ HandleClose PROVE IInv'
<1>1. PICK m \in {"login_error", "close"}, e \in {"CONNECTION", "LOGIN"} :
        Receive(m) /\ FailAndReset(e) /\ UNCHANGED msgs
  BY DEF HandleLoginError, HandleClose
<1>2. Reading /\ spinning' = spinning
  BY <1>1 DEF Receive
<1>3. Control' /\ StaysLive
  BY <1>1, <1>2, FailAndResetControl DEF IInv, Control, ControlTypes
<1> QED
  BY <1>1, <1>3, TakenMessages DEF IInv

LEMMA HandleHeartbeatAckIInv == ASSUME IInv, HandleHeartbeatAck PROVE IInv'
<1> USE DEF HandleHeartbeatAck
<1>1. Reading /\ spinning' = spinning
  BY DEF Receive
<1>2. Control' /\ StaysLive
  BY <1>1, ErrorReset, ReadOnControl DEF IInv, Control, ControlTypes
<1> QED
  BY <1>2, TakenMessages DEF IInv

LEMMA HandlePingIInv == ASSUME IInv, HandlePing PROVE IInv'
<1> USE DEF HandlePing
<1>1. Reading /\ spinning' = spinning /\ spinning \in BOOLEAN
  BY DEF Receive, IInv, Control, ControlTypes
<1>2. Control' /\ StaysLive
  BY <1>1, ErrorReset, ReadOnControl, FailAndResetControl, CrashControl
<1> QED
  BY <1>2, TakenMessages DEF IInv

(* A message that is handled was not before, and will be remembered.       *)
LEMMA HandleDataIInv == ASSUME IInv, NEW m \in MsgIds, HandleData(m) PROVE IInv'
<1> USE DEF HandleData, Remember
<1>1. Reading /\ spinning' = spinning /\ spinning \in BOOLEAN /\ Receive(m)
  BY DEF Receive, IInv, Control, ControlTypes
<1>2. Control' /\ StaysLive
  BY <1>1, ErrorReset, ReadOnControl, FailAndResetControl, CrashControl
<1>3. m # "login_ok" /\ m \in Kinds
  BY FcmClientAssumption DEF Kinds, Controls
<1>4. pending' \subseteq pending /\ ids' = ids \cup {m}
  OBVIOUS
<1>5. handled[m] = 0 /\ m \in sent
  BY <1>1, Taken DEF IInv, Messages, PushedOnce
<1>6. handled' = [handled EXCEPT ![m] = 1]
  BY <1>5 DEF IInv, Messages, MessageTypes
<1> HIDE DEF HandleData
<1>7. Messages'
  <2>1. MessageTypes'
    <3>1. handled' \in [MsgIds -> 0..2]
      BY <1>6 DEF IInv, Messages, MessageTypes
    <3> QED
      BY <1>1, <1>4, <3>1, Taken DEF IInv, Messages, MessageTypes, Receive
  <2>2. StartedOnLiveSession'
    BY <1>1, <1>2 DEF StaysLive, StartedOnLiveSession, IInv, Messages, Receive
  <2>3. HandledAtMostOnce'
    BY <1>6 DEF HandledAtMostOnce, IInv, Messages, MessageTypes
  <2>4. LoginFirst'
    BY <1>1, <1>3, Taken DEF IInv, Messages, LoginFirst, Receive
  <2>5. PushedOnce'
    BY <1>1, <1>4, <1>5, <1>6, Taken DEF IInv, Messages, MessageTypes, PushedOnce, Receive
  <2> QED
    BY <2>1, <2>2, <2>3, <2>4, <2>5 DEF Messages
<1> QED
  BY <1>2, <1>7 DEF IInv

LEMMA HandlePoisonIInv == ASSUME IInv, NEW m \in MsgIds, HandlePoison(m) PROVE IInv'
<1> USE DEF HandlePoison
<1>1. Reading /\ spinning' = spinning /\ m # "login_ok"
  BY FcmClientAssumption DEF Receive, Controls
<1>2. Control' /\ StaysLive
  BY <1>1, CrashControl
<1> QED
  BY <1>1, <1>2, TakenMessages DEF IInv

LEMMA ReadEndIInv == ASSUME IInv, ReadEnd PROVE IInv'
<1> USE DEF ReadEnd
<1>1. Reading /\ spinning' \in BOOLEAN
  BY DEF IInv, Control, ControlTypes, AbortOn
<1>2. Control' /\ StaysLive
  <2>1. CASE runState = "RESETTING"
    BY <1>1, <2>1, ReadOnControl, FcmClientAssumption DEF IInv, Control, ControlTypes
  <2>2. CASE runState # "RESETTING"
    BY <1>1, <2>2, FailAndResetControl
  <2> QED
    BY <2>1, <2>2
<1>3. DOMAIN inbox = {} /\ inbox' = inbox
  BY EmptySeq
<1>4. Messages'
  BY <1>2, <1>3 DEF IInv, Messages, MessageTypes, StartedOnLiveSession, StaysLive, LoginFirst,
                    PushedOnce, HandledAtMostOnce, msgs
<1> QED
  BY <1>2, <1>4 DEF IInv

LEMMA NapEndsIInv == ASSUME IInv, NapEnds PROVE IInv'
<1> USE DEF NapEnds
<1>1. Control'
  <2>1. ControlTypes'
    BY DEF IInv, Control, ControlTypes, state, dial, conn
  <2>2. Created' /\ Dialing' /\ ListenEnded'
    BY DEF IInv, Control, Created, Dialing, ListenEnded, Terminated, state, dial, conn
  <2>3. Doomed' /\ Counted'
    BY DEF IInv, Control, Doomed, Counted, Terminated, Finished, Tasks, CanRun, state
  <2> QED
    BY <2>1, <2>2, <2>3 DEF Control
<1>2. Messages'
  BY MessagesKept DEF IInv, Messages, MessageTypes, StartedOnLiveSession, AwaitsLogin,
                      Terminated, state, conn
<1> QED
  BY <1>1, <1>2 DEF IInv

LEMMA FinallyIInv == ASSUME IInv, Finally PROVE IInv'
<1> USE DEF Finally
<1>1. Terminated /\ Terminated'
  BY DEF IInv, Control, Doomed, Terminated, state
<1>2. Control'
  <2>1. ControlTypes'
    BY DEF IInv, Control, ControlTypes, state, dial
  <2>2. Created' /\ Dialing' /\ ListenEnded'
    BY <1>1 DEF IInv, Control, Created, Dialing, ListenEnded, Terminated, state, dial
  <2>3. Doomed' /\ Counted'
    BY <1>1 DEF IInv, Control, Doomed, Counted, Finished, Tasks
  <2> QED
    BY <2>1, <2>2, <2>3 DEF Control
<1>3. Messages'
  BY <1>1 DEF IInv, Messages, MessageTypes, StartedOnLiveSession, LoginFirst, PushedOnce,
              HandledAtMostOnce, AwaitsLogin, Terminated, state, msgs
<1> QED
  BY <1>2, <1>3 DEF IInv

-----------------------------------------------------------------------------
(* The monitor, and tasks that are cancelled                               *)

LEMMA SendHeartbeatIInv == ASSUME IInv, SendHeartbeat PROVE IInv'
<1> USE DEF SendHeartbeat
<1>1. Control'
  <2>1. ControlTypes'
    BY DEF IInv, Control, ControlTypes, state, dial, conn
  <2>2. Created' /\ Dialing' /\ ListenEnded'
    BY DEF IInv, Control, Created, Dialing, ListenEnded, Terminated, state, dial, conn
  <2>3. Doomed' /\ Counted'
    BY DEF IInv, Control, Doomed, Counted, Terminated, Finished, Tasks, state
  <2> QED
    BY <2>1, <2>2, <2>3 DEF Control
<1>2. Messages'
  BY MessagesKept DEF IInv, Messages, MessageTypes, StartedOnLiveSession, AwaitsLogin,
                      Terminated, state, conn
<1> QED
  BY <1>1, <1>2 DEF IInv

(* Only a client with a session is reset, so the listen task has not ended *)
(* and the first dial is over.                                             *)
LEMMA AckTimeoutIInv == ASSUME IInv, AckTimeout PROVE IInv'
<1> USE DEF AckTimeout, Resume
<1>1. CASE stale /\ doListen /\ runState = "STARTED" /\ ~locked
  <2> USE <1>1 DEF EnterReset
  <2>1. ~Terminated /\ ~AwaitsLogin /\ writer /\ dialer = "none"
    BY DEF IInv, Control, ControlTypes, Messages, StartedOnLiveSession, Dialing, Terminated,
           AwaitsLogin
  <2>2. ControlTypes'
    BY Zeros DEF IInv, Control, ControlTypes, RunStates, Tasks
  <2>3. Created' /\ Dialing' /\ ListenEnded'
    BY <2>1 DEF IInv, Control, Created, Dialing, ListenEnded, Terminated
  <2>4. Doomed' /\ Counted'
    BY <2>1 DEF IInv, Control, Doomed, Counted, Terminated
  <2>5. Messages'
    BY <2>1, MessagesKept DEF IInv, Messages, MessageTypes
  <2> QED
    BY <2>2, <2>3, <2>4, <2>5 DEF IInv, Control
<1>2. CASE ~(stale /\ doListen /\ runState = "STARTED" /\ ~locked)
  <2> USE <1>2
  <2>1. UNCHANGED <<state, dial, writer>> /\ lpc' = lpc /\ mpc' = "sleeping" /\ mpc = "ackWait"
    OBVIOUS
  <2>2. ControlTypes'
    BY <2>1 DEF IInv, Control, ControlTypes, state, dial
  <2>3. Created' /\ Dialing' /\ ListenEnded'
    BY <2>1 DEF IInv, Control, Created, Dialing, ListenEnded, Terminated, state, dial
  <2>4. Doomed' /\ Counted'
    BY <2>1 DEF IInv, Control, Doomed, Counted, Terminated, Finished, Tasks, CanRun, state
  <2>5. Messages'
    BY <2>1, MessagesKept DEF IInv, Messages, MessageTypes, StartedOnLiveSession, AwaitsLogin,
                              Terminated, state
  <2> QED
    BY <2>2, <2>3, <2>4, <2>5 DEF IInv, Control
<1> QED
  BY <1>1, <1>2

LEMMA CancelIInv == ASSUME IInv, CancelListen \/ CancelMonitor PROVE IInv'
<1> USE DEF CancelListen, CancelMonitor, ReleaseDial, EndDial
<1>1. Terminated /\ UNCHANGED <<state, conn, msgs, errors, stale>>
  BY DEF IInv, Control, Doomed
<1>2. Terminated'
  BY <1>1 DEF Terminated, state
<1>3. Control'
  <2>1. ControlTypes'
    BY <1>1, Zeros DEF IInv, Control, ControlTypes, state, conn, dial
  <2>2. Created' /\ Dialing' /\ ListenEnded'
    BY <1>1, <1>2 DEF IInv, Control, ControlTypes, Created, Dialing, ListenEnded, Terminated,
                      state, conn, dial, Tasks
  <2>3. Doomed' /\ Counted'
    BY <1>2 DEF IInv, Control, Doomed, Counted, Terminated, Finished, Tasks, state
  <2> QED
    BY <2>1, <2>2, <2>3 DEF Control
<1>4. Messages'
  BY <1>1, <1>2, EndKeepsMessages DEF IInv, Messages, MessageTypes, conn
<1> QED
  BY <1>3, <1>4 DEF IInv

-----------------------------------------------------------------------------
(* The peer and the clock                                                  *)

LEMMA Delivered ==
  ASSUME IInv, NEW k \in Kinds, Deliver(k)
  PROVE  /\ Control'
         /\ inbox' \in Seq(Kinds) /\ Len(inbox') <= MaxInbox
         /\ DOMAIN inbox' = 1..Len(inbox) + 1 /\ Len(inbox) \in Nat
         /\ inbox'[Len(inbox) + 1] = k
         /\ DOMAIN inbox = 1..Len(inbox)
         /\ \A i \in DOMAIN inbox : inbox'[i] = inbox[i]
<1> USE DEF Deliver
<1>1. inbox \in Seq(Kinds)
  BY DEF IInv, Messages, MessageTypes
<1>2. /\ Len(inbox) \in Nat /\ DOMAIN inbox = 1..Len(inbox)
      /\ inbox' \in Seq(Kinds) /\ Len(inbox') = Len(inbox) + 1
      /\ inbox'[Len(inbox) + 1] = k
      /\ \A i \in 1..Len(inbox) : inbox'[i] = inbox[i]
  BY <1>1, LenProperties, AppendProperties
<1>3. DOMAIN inbox' = 1..Len(inbox) + 1
  BY <1>2, LenProperties
<1>4. Control'
  BY ControlFrame DEF IInv
<1> QED
  BY <1>2, <1>3, <1>4, FcmClientAssumption

LEMMA ServerAcceptsLoginIInv == ASSUME IInv, ServerAcceptsLogin PROVE IInv'
<1> USE DEF ServerAcceptsLogin, Deliver
<1>1. inbox = <<>> /\ Len(inbox) = 0 /\ AwaitsLogin /\ "login_ok" \in Kinds \ MsgIds
  BY EmptySeq, FcmClientAssumption DEF IInv, Messages, LoginFirst, Kinds, Controls
<1>2. Control' /\ inbox' \in Seq(Kinds) /\ Len(inbox') <= MaxInbox
      /\ DOMAIN inbox' = {1} /\ inbox'[1] = "login_ok"
  BY <1>1, Delivered
<1>3. MessageTypes'
  BY <1>2 DEF IInv, Messages, MessageTypes
<1>4. StartedOnLiveSession' /\ HandledAtMostOnce'
  BY DEF IInv, Messages, StartedOnLiveSession, HandledAtMostOnce, state
<1>5. LoginFirst'
  BY <1>1, <1>2 DEF LoginFirst, AwaitsLogin, Terminated, state
<1>6. PushedOnce'
  BY <1>1, <1>2 DEF IInv, Messages, PushedOnce
<1> QED
  BY <1>2, <1>3, <1>4, <1>5, <1>6 DEF IInv, Messages

LEMMA ServerSpeaksIInv ==
  ASSUME IInv, ServerRefusesLogin \/ \E k \in {"ping", "ack", "close"} : ServerBeats(k)
  PROVE  IInv'
<1> USE DEF ServerRefusesLogin, ServerBeats
<1>1. PICK c \in Controls \ {"login_ok"} : Deliver(c)
  BY DEF Controls
<1>2. c \in Kinds /\ c \notin MsgIds
  BY FcmClientAssumption DEF Kinds
<1>3. Control'
  BY <1>1, <1>2, Delivered
<1>4. /\ session' # "asked" /\ (session = "open" => session' = "open")
      /\ session' = "open" => session = "open"
      /\ session' \in {"open", "refused"}
      /\ UNCHANGED <<sent, pending, state, reader, writer, ids, handled, stale>>
  BY <1>1 DEF Deliver
<1> HIDE DEF ServerRefusesLogin, ServerBeats
<1>5. MessageTypes'
  BY <1>1, <1>2, <1>4, Delivered DEF IInv, Messages, MessageTypes
<1>6. StartedOnLiveSession' /\ HandledAtMostOnce'
  BY <1>4 DEF IInv, Messages, StartedOnLiveSession, HandledAtMostOnce, state
<1>7. LoginFirst'
  BY <1>1, <1>2, <1>4, Delivered DEF IInv, Messages, LoginFirst, AwaitsLogin, Terminated, state
<1>8. PushedOnce'
  BY <1>1, <1>2, <1>4, Delivered DEF IInv, Messages, PushedOnce
<1> QED
  BY <1>3, <1>5, <1>6, <1>7, <1>8 DEF IInv, Messages

(* What is pushed again was not handled: it would be remembered, or its    *)
(* acknowledgement was seen.                                               *)
LEMMA ServerPushesIInv == ASSUME IInv, NEW m \in MsgIds, ServerPushes(m) PROVE IInv'
<1> USE DEF ServerPushes, Deliver
<1>1. m \in Kinds /\ m # "login_ok"
  BY FcmClientAssumption DEF Kinds, Controls
<1>2. m \notin ids /\ handled[m] = 0
  BY DEF IInv, Messages, PushedOnce
<1>3. Control'
  BY <1>1, Delivered
<1>4. MessageTypes'
  BY <1>1, Delivered DEF IInv, Messages, MessageTypes
<1>5. StartedOnLiveSession' /\ HandledAtMostOnce'
  BY DEF IInv, Messages, StartedOnLiveSession, HandledAtMostOnce, state
<1>6. LoginFirst'
  BY <1>1, Delivered DEF IInv, Messages, LoginFirst, AwaitsLogin, Terminated, state
<1>7. PushedOnce'
  BY <1>1, <1>2, Delivered DEF IInv, Messages, PushedOnce
<1> QED
  BY <1>3, <1>4, <1>5, <1>6, <1>7 DEF IInv, Messages

LEMMA ConnectionIInv == ASSUME IInv, ConnectionBreaks \/ ConnectionGoesSilent \/ TimePasses
                        PROVE  IInv'
<1>1. Control'
  BY ControlFrame DEF ConnectionBreaks, ConnectionGoesSilent, TimePasses, IInv, conn
<1>2. CASE ConnectionBreaks
  BY <1>1, <1>2, BufferKeptOrLost DEF ConnectionBreaks, IInv, state
<1>3. CASE ConnectionGoesSilent
  BY <1>1, <1>3 DEF ConnectionGoesSilent, IInv, Messages, MessageTypes, StartedOnLiveSession,
                    LoginFirst, PushedOnce, HandledAtMostOnce, AwaitsLogin, Terminated, state, msgs
<1>4. CASE TimePasses
  BY <1>1, <1>4, MessagesKept
     DEF TimePasses, IInv, Messages, MessageTypes, StartedOnLiveSession, AwaitsLogin,
         Terminated, state, conn
<1> QED
  BY <1>2, <1>3, <1>4

-----------------------------------------------------------------------------
LEMMA NextIInv == IInv /\ [Next]_vars => IInv'
<1> SUFFICES ASSUME IInv, [Next]_vars PROVE IInv'
  OBVIOUS
<1>1. CASE Start \/ Stop
  BY <1>1, StartIInv, StopIInv
<1>2. CASE Dial
  BY <1>2, ConnectAndLoginIInv, ConnectAndLoginFailsIInv, TryIInv, GiveUpIInv,
     OldConnectionClosedIInv DEF Dial
<1>3. CASE Listen
  <2>1. CASE \E m \in MsgIds : HandleData(m) \/ HandlePoison(m)
    BY <2>1, HandleDataIInv, HandlePoisonIInv
  <2> QED
    BY <1>3, <2>1, ListenStartsIInv, HandleLoginOkIInv, HandleErrorIInv,
       HandleHeartbeatAckIInv, HandlePingIInv, ReadEndIInv, NapEndsIInv, FinallyIInv
       DEF Listen
<1>4. CASE Monitor \/ CancelListen \/ CancelMonitor
  BY <1>4, SendHeartbeatIInv, AckTimeoutIInv, CancelIInv DEF Monitor
<1>5. CASE Peer \/ TimePasses
  BY <1>5, ServerAcceptsLoginIInv, ServerSpeaksIInv, ServerPushesIInv, ConnectionIInv DEF Peer
<1>6. CASE UNCHANGED vars
  <2>1. UNCHANGED <<state, tasks, dial, writer, errors, reader, inbox, session, sent, msgs,
                    stale, runState>>
    BY <1>6 DEF vars, conn, state
  <2>2. Control'
    BY <2>1, ControlFrame DEF IInv
  <2>3. Messages'
    BY <2>1, MessagesKept DEF IInv, Messages, MessageTypes, StartedOnLiveSession, AwaitsLogin,
                              Terminated
  <2> QED
    BY <2>2, <2>3 DEF IInv
<1> QED
  BY <1>1, <1>2, <1>3, <1>4, <1>5, <1>6 DEF Next

LEMMA Invariance == Spec => []IInv
  BY InitIInv, NextIInv, PTL DEF Spec

(* The variables of the client stay in their types; counters of errors     *)
(* never pass the abort limit.                                             *)
THEOREM TypeCorrect == Spec => []TypeOK
  BY Invariance, TypesAreType, PTL

(* A client says STARTED only of a login the server accepted on the        *)
(* connection it writes to.                                                *)
THEOREM StartedIsLive == Spec => []StartedOnLiveSession
<1>1. IInv => StartedOnLiveSession
  BY DEF IInv, Messages
<1> QED
  BY <1>1, Invariance, PTL

(* However often a push is repeated, it reaches the callback once.         *)
THEOREM PushesHandledOnce == Spec => []HandledAtMostOnce
<1>1. IInv => HandledAtMostOnce
  BY DEF IInv, Messages
<1> QED
  BY <1>1, Invariance, PTL

(* When both tasks have ended there is no connection and nobody dials.     *)
THEOREM NothingLeaks == Spec => []NoConnectionLeaked
<1>1. IInv => NoConnectionLeaked
  BY DEF IInv, Control, ControlTypes, ListenEnded, Dialing, NoConnectionLeaked, Finished, Tasks
<1> QED
  BY <1>1, Invariance, PTL

-----------------------------------------------------------------------------
(* The client implements the safety part of PushClient.                    *)

LEMMA InitRefines == Init => Abstract!Init
  BY DEF Init, Abstract!Init, PhaseOf

(* run_state after a step that read, dialed or failed.                     *)
LEMMA LiveStep ==
  ASSUME runState \in RunStates \ {"CREATED", "STOPPING", "STOPPED"},
         \/ runState' \in {"STOPPING", "STOPPED", "RESETTING", runState}
         \/ /\ runState \in {"STARTING_CONNECTION", "RESETTING", "STARTING_TASKS"}
            /\ runState' \in {"STARTING_CONNECTION", "STARTING_LOGIN"}
  PROVE  [Abstract!Next]_(PhaseOf(runState))
  BY DEF RunStates, PhaseOf, Abstract!Next, Abstract!Interrupt, Abstract!Terminate

LEMMA NextRefines == IInv /\ [Next]_vars => [Abstract!Next]_(PhaseOf(runState))
<1> SUFFICES ASSUME IInv, [Next]_vars, runState' # runState
             PROVE  [Abstract!Next]_(PhaseOf(runState))
  BY DEF PhaseOf
<1>1. runState \in RunStates
  BY DEF IInv, Control, ControlTypes
<1>2. CASE Start
  BY <1>2 DEF Start, PhaseOf, Abstract!Next, Abstract!Start
<1>3. CASE Stop
  BY <1>1, <1>3, LiveStep DEF Stop
<1>4. CASE Dial
  <2>1. step # "idle" /\ CanRun(dialer)
    BY <1>4 DEF Dial, ConnectAndLogin, ConnectAndLoginFails, ConnectFails, Retry, GiveUp,
                OldConnectionClosed, Redial
  <2>2. runState \in {"STARTING_CONNECTION", "RESETTING"}
    BY <2>1, DialerAlive DEF IInv, Control, Dialing, Tasks
  <2>3. runState' \in {"STARTING_CONNECTION", "STARTING_LOGIN", "RESETTING", "STOPPING", runState}
    BY <1>4 DEF Dial, ConnectAndLogin, ConnectAndLoginFails, ConnectFails, Retry, GiveUp,
                OldConnectionClosed, Redial, TerminateBy, EnterReset, state
  <2> QED
    BY <1>1, <2>2, <2>3, LiveStep
<1>5. CASE ListenStarts
  <2>1. runState = "STARTING_TASKS" /\ runState' = "STARTING_CONNECTION"
    BY <1>5 DEF ListenStarts, IInv, Control, Created, Doomed, CanRun, Tasks, Finished
  <2> QED
    BY <1>1, <2>1, LiveStep
<1>6. CASE HandleLoginOk
  <2>1. runState = "STARTING_LOGIN" /\ runState' = "STARTED"
    BY <1>6, ReaderAlive, Taken
       DEF HandleLoginOk, Receive, IInv, Messages, LoginFirst, AwaitsLogin
  <2> QED
    BY <2>1 DEF PhaseOf, Abstract!Next, Abstract!Serve
<1>7. CASE \/ HandleLoginError \/ HandleClose \/ HandleHeartbeatAck \/ HandlePing \/ ReadEnd
           \/ \E m \in MsgIds : HandleData(m) \/ HandlePoison(m)
  <2>1. Reading /\ runState' \in {"STOPPING", "RESETTING"}
    BY <1>7 DEF HandleLoginError, HandleClose, HandleHeartbeatAck, HandlePing, HandleData,
                HandlePoison, ReadEnd, Receive, FailAndReset, Crash, ReadOn, TerminateBy,
                EnterReset, state
  <2>2. ~Terminated /\ runState # "CREATED"
    BY <2>1, ReaderAlive DEF Reading, IInv, Control, Created
  <2> QED
    BY <1>1, <2>1, <2>2, LiveStep DEF Terminated
<1>8. CASE Monitor
  <2>1. runState = "STARTED" /\ runState' = "RESETTING"
    BY <1>8 DEF Monitor, SendHeartbeat, AckTimeout, EnterReset, state
  <2> QED
    BY <1>1, <2>1, LiveStep
<1>9. /\ ~NapEnds /\ ~Finally /\ ~CancelListen /\ ~CancelMonitor
      /\ ~Peer /\ ~TimePasses /\ ~UNCHANGED vars
  BY DEF NapEnds, Finally, CancelListen, CancelMonitor, Peer, ServerAcceptsLogin,
         ServerRefusesLogin, ServerPushes, ServerBeats, Deliver, ConnectionBreaks,
         ConnectionGoesSilent, TimePasses, vars, state
<1> QED
  BY <1>2, <1>3, <1>4, <1>5, <1>6, <1>7, <1>8, <1>9 DEF Next, Listen

(* Seen through its run_state the client takes only steps of PushClient.   *)
THEOREM Refinement == Spec => Abstract!Init /\ [][Abstract!Next]_(PhaseOf(runState))
  BY InitRefines, NextRefines, Invariance, PTL DEF Spec

(* No step leaves STOPPING and STOPPED.                                    *)
THEOREM TerminationFinal == Spec => TerminationIsFinal
<1>1. IInv /\ [Next]_vars => [Terminated => Terminated']_vars
  <2> SUFFICES ASSUME IInv, [Next]_vars, Terminated PROVE Terminated'
    OBVIOUS
  <2>1. PhaseOf(runState) = "terminated"
    BY DEF Terminated, PhaseOf
  <2>2. PhaseOf(runState)' = "terminated"
    BY <2>1, NextRefines DEF Abstract!Next, Abstract!Start, Abstract!Serve,
                             Abstract!Interrupt, Abstract!Terminate
  <2> QED
    BY <2>2 DEF PhaseOf, Terminated
<1> QED
  BY <1>1, Invariance, PTL DEF Spec, TerminationIsFinal
=============================================================================
