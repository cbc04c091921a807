---------------------------- MODULE Credentials -----------------------------
(***************************************************************************)
(* How the middleware comes by its credentials and keeps them: threads     *)
(* that need a cached value generate and store it, and threads that find   *)
(* no FCM credentials register with Google (checkin_or_register of         *)
(* libs/Auth/firebase_messaging/fcmregister.py, run by FcmReceiver): a     *)
(* check-in, a GCM registration, an installation and an FCM registration,  *)
(* each with its own retries.  The result is kept in memory and, through   *)
(* TokenCache, in secrets.json, which a restart reads again.               *)
(*                                                                         *)
(* A listener that starts with credentials takes those in memory and       *)
(* stores nothing (fcm_receiver.py:226-233): that is in FcmReceiver.       *)
(*                                                                         *)
(* The FCM credentials are numbered by registration.  What generating      *)
(* another value takes (a login, a request) is one step here, and the name *)
(* stands for any of them.                                                 *)
(***************************************************************************)
EXTENDS TokenCache

CONSTANTS
  Fcm,      \* the name "fcm_credentials"
  Retries,  \* 100 tries of gcm_check_in and of gcm_register
  MaxCalls  \* bound: calls made, and restarts

ASSUME CredentialsAssumption ==
  /\ Fcm \in Names
  /\ Retries \in Nat \ {0}
  /\ MaxCalls \in Nat

FcmTries == 2

VARIABLES
  credentials,    \* FcmReceiver.credentials
  client,         \* credentials of its push client
  started,        \* a push client has been told to start
  known,          \* FcmRegister.credentials, of each thread that registers
  tries,          \* try_num, from 1
  registrations,  \* history: registrations completed
  tokenless,      \* those whose FCM registration failed
  calls           \* calls and restarts so far

memory  == <<credentials, client, started>>
attempt == <<known, tries>>
google  == <<registrations, tokenless>>
vars    == <<files, at, locals, overlapped, memory, attempt, google, calls>>

Init ==
  /\ secrets \in [Names -> {0, 1}] \cup {Absent} /\ tmp = Absent
  /\ at = [t \in Threads |-> "idle"]
  /\ entry = [t \in Threads |-> Nothing]
  /\ data = [t \in Threads |-> Empty]
  /\ open = [t \in Threads |-> "closed"]
  /\ overlapped = FALSE
  /\ credentials = Cached(Fcm) /\ client = Cached(Fcm) /\ started = FALSE
  /\ known = [t \in Threads |-> 0] /\ tries = [t \in Threads |-> 1]
  /\ registrations = Cached(Fcm)
  /\ tokenless \in SUBSET (1..registrations)
  /\ calls = 0

Called == calls < MaxCalls /\ calls' = calls + 1

-----------------------------------------------------------------------------
(* get_cached_value_or_set finds nothing.                                  *)
GetOrSet(t, n) ==
  /\ Called
  /\ n # Fcm /\ Cached(n) = 0
  /\ Go(t, "idle", "generate")
  /\ entry' = [entry EXCEPT ![t].name = n]
  /\ UNCHANGED <<files, data, open, overlapped, memory, attempt, google>>

Generate(t) ==
  /\ Call(t, "generate", entry[t].name, 1)
  /\ UNCHANGED <<memory, attempt, google, calls>>

GenerateRaises(t) ==
  /\ Go(t, "generate", "idle")
  /\ Forget(t)
  /\ UNCHANGED <<files, open, overlapped, memory, attempt, google, calls>>

-----------------------------------------------------------------------------
(* _start_listener_in_background finds no credentials.                     *)
StartRegistration(t) ==
  /\ Called
  /\ credentials = 0
  /\ Go(t, "idle", "begin")
  /\ UNCHANGED <<files, locals, overlapped, memory, attempt, google>>

Moves(t, from, to, tr) ==
  /\ Go(t, from, to)
  /\ tries' = [tries EXCEPT ![t] = tr]
  /\ UNCHANGED <<files, locals, overlapped, memory, google, calls>>

(* FcmRegister is built with the credentials the client has.               *)
BeginAttempt(t) ==
  /\ Moves(t, "begin", "checkin", 1)
  /\ known' = [known EXCEPT ![t] = client]

Retry(t, where, limit) ==
  /\ tries[t] < limit
  /\ Moves(t, where, where, tries[t] + 1)
  /\ UNCHANGED known

(* A check-in with known credentials is all that was needed.               *)
CheckinAccepted(t) ==
  /\ Moves(t, "checkin", IF known[t] = 0 THEN "gcm" ELSE "registered", 1)
  /\ UNCHANGED known

(* Variant: the full registration checks in with them again.               *)
CheckinRefusedAgain(t) ==
  /\ known[t] # 0
  /\ Moves(t, "checkin", "checkin", 1)
  /\ UNCHANGED known

(* Out of tries, or an empty answer: known credentials are given up for a  *)
(* full registration, which checks in itself.                              *)
CheckinRefused(t) ==
  /\ known[t] # 0
  /\ Moves(t, "checkin", "checkin", 1)
  /\ known' = [known EXCEPT ![t] = 0]

(* The same in a full registration, or an answer that cannot be parsed.    *)
CheckinFails(t) == Moves(t, "checkin", "failed", 1) /\ UNCHANGED known

GcmRegistered(t) == Moves(t, "gcm", "install", 1) /\ UNCHANGED known

GcmFails(t) ==
  /\ tries[t] \in {1, Retries}  \* a check-in without ids, or out of tries
  /\ Moves(t, "gcm", "failed", 1)
  /\ UNCHANGED known

Installed(t) == Moves(t, "install", "fcm", 1) /\ UNCHANGED known

InstallFails(t) == Moves(t, "install", "failed", 1) /\ UNCHANGED known

(* The registration is complete, with a token or, out of tries, without;   *)
(* _on_credentials_updated keeps it.                                       *)
Registered(t, token) ==
  /\ Go(t, "fcm", "store")
  /\ token \/ tries[t] = FcmTries
  /\ registrations' = registrations + 1
  /\ tokenless' = tokenless \cup (IF token THEN {} ELSE {registrations + 1})
  /\ known' = [known EXCEPT ![t] = registrations + 1]
  /\ credentials' = registrations + 1
  /\ tries' = [tries EXCEPT ![t] = 1]
  /\ UNCHANGED <<files, locals, overlapped, client, started, calls>>

(* Variant: the thread stores its own result.                              *)
StoreOwn(t) ==
  /\ Call(t, "store", Fcm, known[t])
  /\ UNCHANGED <<memory, attempt, google, calls>>

(* set_cached_value('fcm_credentials', self.credentials)                   *)
Store(t) ==
  /\ Call(t, "store", Fcm, credentials)
  /\ UNCHANGED <<memory, attempt, google, calls>>

(* Back in the push client: reading the token raises when there is none;   *)
(* otherwise the listener is started.                                      *)
Return(t) ==
  /\ Go(t, "registered", IF known[t] \in tokenless THEN "failed" ELSE "idle")
  /\ client' = known[t]
  /\ started' = (started \/ known[t] \notin tokenless)
  /\ known' = [known EXCEPT ![t] = 0]
  /\ UNCHANGED <<files, locals, overlapped, credentials, tries, google, calls>>

(* stop() raises on a client never started, and the exception goes on to   *)
(* the caller; one that a second thread has started it stops, to try again.*)
Leave(t) ==
  /\ Go(t, "failed", "idle")
  /\ known' = [known EXCEPT ![t] = 0]
  /\ UNCHANGED <<files, locals, overlapped, memory, tries, google, calls>>

TryAgain(t) ==
  /\ Called
  /\ started
  /\ Go(t, "failed", "begin")
  /\ known' = [known EXCEPT ![t] = 0]
  /\ UNCHANGED <<files, locals, overlapped, memory, tries, google>>

-----------------------------------------------------------------------------
(* The middleware ends at any point and starts again from the file.        *)
Restart ==
  /\ Called
  /\ AllStop
  /\ credentials' = Cached(Fcm) /\ client' = Cached(Fcm) /\ started' = FALSE
  /\ known' = [t \in Threads |-> 0] /\ tries' = [t \in Threads |-> 1]
  /\ UNCHANGED google

-----------------------------------------------------------------------------
Registering(t) ==
  \/ BeginAttempt(t)
  \/ Retry(t, "checkin", Retries) \/ CheckinAccepted(t)
  \/ CheckinRefused(t) \/ CheckinFails(t)
  \/ Retry(t, "gcm", Retries) \/ GcmRegistered(t) \/ GcmFails(t)
  \/ Installed(t) \/ InstallFails(t)
  \/ Retry(t, "fcm", FcmTries)
  \/ \E token \in BOOLEAN : Registered(t, token)
  \/ Store(t) \/ Return(t)

Storing(t) ==
  /\ IF entry[t].name = Fcm THEN SetCachedValue(t, "registered", "failed")
                            ELSE SetCachedValue(t, "idle", "idle")
  /\ UNCHANGED <<memory, attempt, google, calls>>

Work(t) == Generate(t) \/ GenerateRaises(t) \/ Registering(t) \/ Storing(t) \/ Leave(t)

Next ==
  \/ \E t \in Threads : Work(t) \/ StartRegistration(t) \/ TryAgain(t)
                        \/ \E n \in Names : GetOrSet(t, n)
  \/ Restart

Spec == Init /\ [][Next]_vars

(* Requests have a timeout, so every thread gets on with its call.         *)
FairSpec == Spec /\ \A t \in Threads : WF_vars(Work(t))

-----------------------------------------------------------------------------
Locations == Setting \cup
  {"idle", "generate", "begin", "checkin", "gcm", "install", "fcm", "store",
   "registered", "failed"}

TypeOK ==
  /\ secrets \in Contents \cup {Absent} /\ tmp \in Contents \cup {Absent}
  /\ at \in [Threads -> Locations]
  /\ entry \in [Threads -> [name : Names, value : Nat]]
  /\ data \in [Threads -> [Names -> Nat]]
  /\ open \in [Threads -> {"closed", "tmp", "secrets", "replaced"}]
  /\ \A t \in Threads : at[t] = "write" <=> open[t] # "closed"
  /\ overlapped \in BOOLEAN
  /\ credentials \in 0..registrations /\ client \in 0..registrations
  /\ started \in BOOLEAN
  /\ known \in [Threads -> 0..registrations]
  /\ tries \in [Threads -> 1..(IF Retries > FcmTries THEN Retries ELSE FcmTries)]
  /\ registrations \in Nat /\ tokenless \subseteq 1..registrations
  /\ calls \in 0..MaxCalls

(* "A crash mid-write leaves the previous valid secrets.json intact", as   *)
(* long as no two threads change it at once: storing one value loses no    *)
(* other, and no older registration comes back for a newer one, over       *)
(* crashes and failed calls (token_cache.py:38-59).  Four of the keys need *)
(* an interactive login to get again.                                      *)
NothingForgotten == [][~overlapped' => \A n \in Names : Cached(n)' >= Cached(n)]_vars

(* Unless a thread is about to store them, the credentials the receiver    *)
(* goes by are those a restart would find, whichever of two registrations  *)
(* came last (fcm_receiver.py:183-188).                                    *)
MemoryIsOnDisk ==
  \/ overlapped
  \/ \E t \in Threads : \/ at[t] = "store"
                        \/ at[t] \in Setting /\ entry[t].name = Fcm
  \/ Cached(Fcm) = credentials

(* Every step of a registration is retried a bounded number of times: an   *)
(* attempt ends, in credentials or in a failure (fcmregister.py:170-207,   *)
(* 251-295, 456-485).                                                      *)
AttemptsEnd ==
  \A t \in Threads : at[t] \in {"checkin", "gcm", "install", "fcm"}
                       ~> at[t] \in {"store", "registered", "failed", "idle"}

(* DEPLOYMENT.md "the writes are atomic ... so a mid-write crash leaves    *)
(* the previous file intact", two threads or one.                          *)
WritesAreAtomic == secrets # Damaged
=============================================================================
