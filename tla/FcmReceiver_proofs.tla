------------------------- MODULE FcmReceiver_proofs -------------------------
(***************************************************************************)
(* Proofs about FcmReceiver, for any number of threads and of clients: the *)
(* lock protects what it should, no client is told to start before there   *)
(* are credentials, and with cached credentials a client is started once   *)
(* and replaced only when dead.                                            *)
(***************************************************************************)
EXTENDS FcmReceiver, TLAPS

(* The lock is held exactly by the thread inside "with _start_lock".       *)
LockHeld == \A t \in Threads : at[t] \in LockedAt <=> lock = t

(* The bound: the last client lives, so there is always one to build.      *)
OneMoreClient ==
  /\ phase[MaxClients] # "terminated"
  /\ \A t \in Threads : at[t] = "teardown" => pc < MaxClients

(* Credentials precede whatever rests on them.                             *)
NeedCredentials ==
  /\ listening => credentials
  /\ \A t \in Threads :
       at[t] \in {"checkClient", "schedule", "scheduleUnlocked", "append", "registered"}
         => credentials

Told == due[pc] + starts[pc] > 0

(* _listening says that the current client was told to start; only the     *)
(* thread that replaces it may take that back.                             *)
ListeningMeansTold ==
  /\ listening => Told
  /\ (\E t \in Threads : at[t] \in {"checkClient", "append", "registered"}) =>
       listening \/ \E t \in Threads : at[t] \in {"start", "schedule"}

(* With cached credentials nobody starts a client outside the lock.        *)
NobodyUnlocked ==
  cached => /\ credentials
            /\ \A t \in Threads : at[t] \notin {"startUnlocked", "registering",
                                          "registeringUnlocked", "scheduleUnlocked"}

(* With cached credentials: clients past, present and to come.             *)
ClientShape ==
  cached => \A c \in Clients :
    /\ phase[c] = "created" <=> starts[c] = 0
    /\ c > pc => due[c] = 0 /\ starts[c] = 0
    /\ c = pc /\ ~listening => due[c] = 0 /\ starts[c] = 0

(* With cached credentials a thread in the lock still finds what it found. *)
LockedView ==
  cached => \A t \in Threads :
    /\ at[t] \in {"start", "schedule"} => ~listening
    /\ at[t] = "teardown" => Terminated

IInv == /\ TypeOK /\ LockHeld /\ OneMoreClient
        /\ NeedCredentials /\ CredentialsFirst /\ ListeningMeansTold
        /\ NobodyUnlocked /\ ClientShape /\ LockedView
        /\ NeverStartedTwice /\ OnlyDeadReplaced

USE FcmReceiverAssumption DEF Clients

-----------------------------------------------------------------------------
LEMMA OneMoreType == ASSUME NEW n \in 0..2
                     PROVE  OneMore(n) \in 1..2 /\ (n = 0 => OneMore(n) = 1)
  BY DEF OneMore

LEMMA InitIInv == Init => IInv
<1> SUFFICES ASSUME Init PROVE IInv
  OBVIOUS
<1> USE DEF Init
<1>1. TypeOK
  <2>1. pc \in Clients /\ phase \in [Clients -> Phases]
    BY DEF Phases
  <2>2. due \in [Clients -> 0..2] /\ starts \in [Clients -> 0..2]
    OBVIOUS
  <2>3. at \in [Threads -> Locations]
    BY DEF Locations
  <2> QED
    BY <2>1, <2>2, <2>3 DEF TypeOK
<1>1a. LockHeld /\ OneMoreClient
  BY DEF LockHeld, OneMoreClient, LockedAt
<1>2. NeedCredentials /\ CredentialsFirst /\ ListeningMeansTold
  BY DEF NeedCredentials, CredentialsFirst, ListeningMeansTold
<1>3. NobodyUnlocked /\ ClientShape /\ LockedView
  BY DEF NobodyUnlocked, ClientShape, LockedView
<1>4. NeverStartedTwice /\ OnlyDeadReplaced
  BY DEF NeverStartedTwice, OnlyDeadReplaced
<1> QED
  BY <1>1, <1>1a, <1>2, <1>3, <1>4 DEF IInv

LEMMA WalkIInv == ASSUME IInv, NEW t \in Threads,
                         Register(t) \/ CheckListening(t) \/ CheckClient(t) \/ AcquireLock(t)
                  PROVE  IInv'
<1> USE DEF IInv, creds, Register, CheckListening, CheckClient, AcquireLock, Terminated, Go
<1>1. TypeOK'
  BY DEF TypeOK, Locations, LockedAt, Phases, OneMoreClient
<1>2. LockHeld'
  BY DEF LockHeld, TypeOK, LockedAt
<1>3. OneMoreClient'
  BY DEF OneMoreClient, TypeOK, LockHeld, LockedAt, Terminated
<1>4. NeedCredentials'
  BY DEF NeedCredentials, TypeOK, CredentialsFirst
<1>5. CredentialsFirst'
  BY DEF CredentialsFirst, TypeOK, NeedCredentials
<1>6. ListeningMeansTold'
  BY DEF ListeningMeansTold, Told, TypeOK, LockHeld, LockedAt, NeedCredentials
<1>7. NobodyUnlocked'
  BY DEF NobodyUnlocked, TypeOK
<1>8. ClientShape'
  BY DEF ClientShape, TypeOK, NobodyUnlocked, LockedView, Terminated
<1>9. LockedView'
  BY DEF LockedView, Terminated, TypeOK, LockHeld, LockedAt, ClientShape, NeverStartedTwice, NobodyUnlocked
<1>10. NeverStartedTwice'
  BY DEF NeverStartedTwice, TypeOK, ClientShape, LockedView, NobodyUnlocked
<1>11. OnlyDeadReplaced'
  BY DEF OnlyDeadReplaced, TypeOK, LockedView, Terminated, ClientShape, NeverStartedTwice
<1> QED
  BY <1>1, <1>2, <1>3, <1>4, <1>5, <1>6, <1>7, <1>8, <1>9, <1>10, <1>11

LEMMA RecheckIInv == ASSUME IInv, NEW t \in Threads, NothingToDo(t) \/ MustStart(t)
                     PROVE  IInv'
<1> USE DEF IInv, creds, NothingToDo, MustStart, Terminated, Go
<1>1. TypeOK'
  BY DEF TypeOK, Locations, LockedAt, Phases, OneMoreClient
<1>2. LockHeld'
  BY DEF LockHeld, TypeOK, LockedAt
<1>3. OneMoreClient'
  BY DEF OneMoreClient, TypeOK, LockHeld, LockedAt, Terminated
<1>4. NeedCredentials'
  BY DEF NeedCredentials, TypeOK, CredentialsFirst
<1>5. CredentialsFirst'
  BY DEF CredentialsFirst, TypeOK, NeedCredentials
<1>6. ListeningMeansTold'
  BY DEF ListeningMeansTold, Told, TypeOK, LockHeld, LockedAt, NeedCredentials
<1>7. NobodyUnlocked'
  BY DEF NobodyUnlocked, TypeOK
<1>8. ClientShape'
  BY DEF ClientShape, TypeOK, NobodyUnlocked, LockedView, Terminated
<1>9. LockedView'
  BY DEF LockedView, Terminated, TypeOK, LockHeld, LockedAt, ClientShape, NeverStartedTwice, NobodyUnlocked
<1>10. NeverStartedTwice'
  BY DEF NeverStartedTwice, TypeOK, ClientShape, LockedView, NobodyUnlocked
<1>11. OnlyDeadReplaced'
  BY DEF OnlyDeadReplaced, TypeOK, LockedView, Terminated, ClientShape, NeverStartedTwice
<1> QED
  BY <1>1, <1>2, <1>3, <1>4, <1>5, <1>6, <1>7, <1>8, <1>9, <1>10, <1>11

LEMMA TeardownIInv == ASSUME IInv, NEW t \in Threads, Teardown(t)
                      PROVE  IInv'
<1> USE DEF IInv, creds, Teardown, Go
<1>1. TypeOK'
  <2>1. pc' \in Clients
    BY DEF TypeOK, OneMoreClient
  <2>2. at' \in [Threads -> Locations]
    BY DEF TypeOK, Locations, LockedAt
  <2> QED
    BY <2>1, <2>2 DEF TypeOK
<1>2. LockHeld'
  BY DEF LockHeld, TypeOK, LockedAt
<1>3. OneMoreClient'
  BY DEF OneMoreClient, TypeOK, LockHeld, LockedAt, Terminated
<1>4. NeedCredentials'
  BY DEF NeedCredentials, TypeOK, CredentialsFirst
<1>5. CredentialsFirst'
  BY DEF CredentialsFirst, TypeOK, NeedCredentials
<1>6. ListeningMeansTold'
  BY DEF ListeningMeansTold, Told, TypeOK, LockHeld, LockedAt, NeedCredentials
<1>7. NobodyUnlocked'
  BY DEF NobodyUnlocked, TypeOK
<1>8. ClientShape'
  BY DEF ClientShape, TypeOK, NobodyUnlocked, LockedView, Terminated
<1>9. LockedView'
  BY DEF LockedView, Terminated, TypeOK, LockHeld, LockedAt, ClientShape, NeverStartedTwice, NobodyUnlocked
<1>10. NeverStartedTwice'
  BY DEF NeverStartedTwice, TypeOK, ClientShape, LockedView, NobodyUnlocked
<1>11. OnlyDeadReplaced'
  BY DEF OnlyDeadReplaced, TypeOK, LockedView, Terminated, ClientShape, NeverStartedTwice
<1> QED
  BY <1>1, <1>2, <1>3, <1>4, <1>5, <1>6, <1>7, <1>8, <1>9, <1>10, <1>11

LEMMA PrepareIInv == ASSUME IInv, NEW t \in Threads,
                            \/ Prepare(t, "start", "schedule", "registering")
                            \/ Prepare(t, "startUnlocked", "scheduleUnlocked", "registeringUnlocked")
                     PROVE  IInv'
<1> USE DEF IInv, creds, Prepare, Go
<1>1. TypeOK'
  BY DEF TypeOK, Locations, LockedAt, Phases, OneMoreClient
<1>2. LockHeld'
  BY DEF LockHeld, TypeOK, LockedAt
<1>3. OneMoreClient'
  BY DEF OneMoreClient, TypeOK, LockHeld, LockedAt, Terminated
<1>4. NeedCredentials'
  BY DEF NeedCredentials, TypeOK, CredentialsFirst
<1>5. CredentialsFirst'
  BY DEF CredentialsFirst, TypeOK, NeedCredentials
<1>6. ListeningMeansTold'
  BY DEF ListeningMeansTold, Told, TypeOK, LockHeld, LockedAt, NeedCredentials
<1>7. NobodyUnlocked'
  BY DEF NobodyUnlocked, TypeOK
<1>8. ClientShape'
  BY DEF ClientShape, TypeOK, NobodyUnlocked, LockedView, Terminated
<1>9. LockedView'
  BY DEF LockedView, Terminated, TypeOK, LockHeld, LockedAt, ClientShape, NeverStartedTwice, NobodyUnlocked
<1>10. NeverStartedTwice'
  BY DEF NeverStartedTwice, TypeOK, ClientShape, LockedView, NobodyUnlocked
<1>11. OnlyDeadReplaced'
  BY DEF OnlyDeadReplaced, TypeOK, LockedView, Terminated, ClientShape, NeverStartedTwice
<1> QED
  BY <1>1, <1>2, <1>3, <1>4, <1>5, <1>6, <1>7, <1>8, <1>9, <1>10, <1>11

LEMMA RegisteredIInv == ASSUME IInv, NEW t \in Threads,
                               \/ Registered(t, "registering", "schedule")
                               \/ Registered(t, "registeringUnlocked", "scheduleUnlocked")
                        PROVE  IInv'
<1> USE DEF IInv, creds, Registered, Go
<1>1. TypeOK'
  BY DEF TypeOK, Locations, LockedAt, Phases, OneMoreClient
<1>2. LockHeld'
  BY DEF LockHeld, TypeOK, LockedAt
<1>3. OneMoreClient'
  BY DEF OneMoreClient, TypeOK, LockHeld, LockedAt, Terminated
<1>4. NeedCredentials'
  BY DEF NeedCredentials, TypeOK, CredentialsFirst
<1>5. CredentialsFirst'
  BY DEF CredentialsFirst, TypeOK, NeedCredentials
<1>6. ListeningMeansTold'
  BY DEF ListeningMeansTold, Told, TypeOK, LockHeld, LockedAt, NeedCredentials
<1>7. NobodyUnlocked'
  BY DEF NobodyUnlocked, TypeOK
<1>8. ClientShape'
  BY DEF ClientShape, TypeOK, NobodyUnlocked, LockedView, Terminated
<1>9. LockedView'
  BY DEF LockedView, Terminated, TypeOK, LockHeld, LockedAt, ClientShape, NeverStartedTwice, NobodyUnlocked
<1>10. NeverStartedTwice'
  BY DEF NeverStartedTwice, TypeOK, ClientShape, LockedView, NobodyUnlocked
<1>11. OnlyDeadReplaced'
  BY DEF OnlyDeadReplaced, TypeOK, LockedView, Terminated, ClientShape, NeverStartedTwice
<1> QED
  BY <1>1, <1>2, <1>3, <1>4, <1>5, <1>6, <1>7, <1>8, <1>9, <1>10, <1>11

LEMMA RefusedIInv == ASSUME IInv, NEW t \in Threads,
                            Refused(t, "registering") \/ Refused(t, "registeringUnlocked")
                     PROVE  IInv'
<1> USE DEF IInv, creds, Refused, Go
<1>1. TypeOK'
  BY DEF TypeOK, Locations, LockedAt, Phases, OneMoreClient
<1>2. LockHeld'
  BY DEF LockHeld, TypeOK, LockedAt
<1>3. OneMoreClient'
  BY DEF OneMoreClient, TypeOK, LockHeld, LockedAt, Terminated
<1>4. NeedCredentials'
  BY DEF NeedCredentials, TypeOK, CredentialsFirst
<1>5. CredentialsFirst'
  BY DEF CredentialsFirst, TypeOK, NeedCredentials
<1>6. ListeningMeansTold'
  BY DEF ListeningMeansTold, Told, TypeOK, LockHeld, LockedAt, NeedCredentials
<1>7. NobodyUnlocked'
  BY DEF NobodyUnlocked, TypeOK
<1>8. ClientShape'
  BY DEF ClientShape, TypeOK, NobodyUnlocked, LockedView, Terminated
<1>9. LockedView'
  BY DEF LockedView, Terminated, TypeOK, LockHeld, LockedAt, ClientShape, NeverStartedTwice, NobodyUnlocked
<1>10. NeverStartedTwice'
  BY DEF NeverStartedTwice, TypeOK, ClientShape, LockedView, NobodyUnlocked
<1>11. OnlyDeadReplaced'
  BY DEF OnlyDeadReplaced, TypeOK, LockedView, Terminated, ClientShape, NeverStartedTwice
<1> QED
  BY <1>1, <1>2, <1>3, <1>4, <1>5, <1>6, <1>7, <1>8, <1>9, <1>10, <1>11

LEMMA RefusedStopsIInv == ASSUME IInv, NEW t \in Threads,
                                 RefusedStopsOther(t, "registering") \/ RefusedStopsOther(t, "registeringUnlocked")
                          PROVE  IInv'
<1> USE DEF IInv, creds, RefusedStopsOther
<1>1. TypeOK'
  BY DEF TypeOK, Locations, LockedAt, Phases, OneMoreClient
<1>2. LockHeld'
  BY DEF LockHeld, TypeOK, LockedAt
<1>3. OneMoreClient'
  BY DEF OneMoreClient, TypeOK, LockHeld, LockedAt, Terminated
<1>4. NeedCredentials'
  BY DEF NeedCredentials, TypeOK, CredentialsFirst
<1>5. CredentialsFirst'
  BY DEF CredentialsFirst, TypeOK, NeedCredentials
<1>6. ListeningMeansTold'
  BY DEF ListeningMeansTold, Told, TypeOK, LockHeld, LockedAt, NeedCredentials
<1>7. NobodyUnlocked'
  BY DEF NobodyUnlocked, TypeOK
<1>8. ClientShape'
  BY DEF ClientShape, TypeOK, NobodyUnlocked, LockedView, Terminated
<1>9. LockedView'
  BY DEF LockedView, Terminated, TypeOK, LockHeld, LockedAt, ClientShape, NeverStartedTwice, NobodyUnlocked
<1>10. NeverStartedTwice'
  BY DEF NeverStartedTwice, TypeOK, ClientShape, LockedView, NobodyUnlocked
<1>11. OnlyDeadReplaced'
  BY DEF OnlyDeadReplaced, TypeOK, LockedView, Terminated, ClientShape, NeverStartedTwice
<1> QED
  BY <1>1, <1>2, <1>3, <1>4, <1>5, <1>6, <1>7, <1>8, <1>9, <1>10, <1>11

LEMMA ScheduleIInv == ASSUME IInv, NEW t \in Threads, Schedule(t) \/ ScheduleUnlocked(t)
                      PROVE  IInv'
<1> USE DEF IInv, creds, Schedule, ScheduleUnlocked, ScheduleStart, Go
<1>0. /\ due' = [due EXCEPT ![pc] = OneMore(due[pc])]
      /\ OneMore(due[pc]) \in 1..2 /\ (due[pc] = 0 => OneMore(due[pc]) = 1)
  BY OneMoreType DEF TypeOK
<1>1. TypeOK'
  <2>1. due' \in [Clients -> 0..2]
    BY <1>0 DEF TypeOK
  <2>2. at' \in [Threads -> Locations]
    BY DEF TypeOK, Locations, LockedAt
  <2> QED
    BY <2>1, <2>2 DEF TypeOK
<1>2. LockHeld'
  BY DEF LockHeld, TypeOK, LockedAt
<1>3. OneMoreClient'
  BY DEF OneMoreClient, TypeOK, LockHeld, LockedAt, Terminated
<1>4. NeedCredentials'
  BY DEF NeedCredentials, TypeOK, CredentialsFirst
<1>5. CredentialsFirst'
  BY DEF CredentialsFirst, TypeOK, NeedCredentials
<1>6. ListeningMeansTold'
  BY <1>0 DEF ListeningMeansTold, Told, TypeOK
<1>7. NobodyUnlocked'
  BY DEF NobodyUnlocked, TypeOK
<1>7a. cached => due[pc] = 0 /\ starts[pc] = 0
  BY DEF ClientShape, TypeOK, NobodyUnlocked, LockedView
<1>7b. \A b \in Clients : due'[b] = IF b = pc THEN OneMore(due[pc]) ELSE due[b]
  BY <1>0 DEF TypeOK
<1>7c. UNCHANGED <<cached, pc, phase, starts>> /\ listening' = TRUE
  OBVIOUS
<1>8. ClientShape'
  <2> SUFFICES ASSUME cached, NEW b \in Clients
               PROVE  /\ phase[b] = "created" <=> starts[b] = 0
                      /\ b > pc => due'[b] = 0 /\ starts[b] = 0
    BY <1>7c DEF ClientShape
  <2>1. b > pc => b # pc
    BY DEF TypeOK
  <2> QED
    BY <1>7b, <2>1 DEF ClientShape
<1>9. LockedView'
  BY DEF LockedView, Terminated, TypeOK, LockHeld, LockedAt, ClientShape, NeverStartedTwice, NobodyUnlocked
<1>10. NeverStartedTwice'
  <2> SUFFICES ASSUME cached, NEW b \in Clients
               PROVE  due'[b] + starts[b] <= 1
    BY <1>7c DEF NeverStartedTwice
  <2>1. CASE b = pc
    BY <1>0, <1>7a, <1>7b, <2>1
  <2>2. CASE b # pc
    BY <1>7b, <2>2 DEF NeverStartedTwice
  <2> QED
    BY <2>1, <2>2
<1>11. OnlyDeadReplaced'
  BY DEF OnlyDeadReplaced, TypeOK, LockedView, Terminated, ClientShape, NeverStartedTwice
<1> QED
  BY <1>1, <1>2, <1>3, <1>4, <1>5, <1>6, <1>7, <1>8, <1>9, <1>10, <1>11

LEMMA CallbackIInv == ASSUME IInv, NEW t \in Threads, Append(t) \/ Unregister(t) \/ GetAndroidId(t)
                      PROVE  IInv'
<1> USE DEF IInv, creds, Append, Unregister, GetAndroidId, Go
<1>1. TypeOK'
  BY DEF TypeOK, Locations, LockedAt, Phases, OneMoreClient
<1>2. LockHeld'
  BY DEF LockHeld, TypeOK, LockedAt
<1>3. OneMoreClient'
  BY DEF OneMoreClient, TypeOK, LockHeld, LockedAt, Terminated
<1>4. NeedCredentials'
  BY DEF NeedCredentials, TypeOK, CredentialsFirst
<1>5. CredentialsFirst'
  BY DEF CredentialsFirst, TypeOK, NeedCredentials
<1>6. ListeningMeansTold'
  BY DEF ListeningMeansTold, Told, TypeOK, LockHeld, LockedAt, NeedCredentials
<1>7. NobodyUnlocked'
  BY DEF NobodyUnlocked, TypeOK
<1>8. ClientShape'
  BY DEF ClientShape, TypeOK, NobodyUnlocked, LockedView, Terminated
<1>9. LockedView'
  BY DEF LockedView, Terminated, TypeOK, LockHeld, LockedAt, ClientShape, NeverStartedTwice, NobodyUnlocked
<1>10. NeverStartedTwice'
  BY DEF NeverStartedTwice, TypeOK, ClientShape, LockedView, NobodyUnlocked
<1>11. OnlyDeadReplaced'
  BY DEF OnlyDeadReplaced, TypeOK, LockedView, Terminated, ClientShape, NeverStartedTwice
<1> QED
  BY <1>1, <1>2, <1>3, <1>4, <1>5, <1>6, <1>7, <1>8, <1>9, <1>10, <1>11

LEMMA ClientStartsIInv == ASSUME IInv, NEW c \in Clients, ClientStarts(c)
                        PROVE  IInv'
<1> USE DEF IInv, creds, ClientStarts
<1>0. /\ starts' = [starts EXCEPT ![c] = OneMore(starts[c])]
      /\ OneMore(starts[c]) \in 1..2 /\ (starts[c] = 0 => OneMore(starts[c]) = 1)
  BY OneMoreType DEF TypeOK
<1>1. TypeOK'
  BY <1>0 DEF TypeOK, Phases
<1>2. LockHeld' /\ OneMoreClient' /\ NeedCredentials' /\ NobodyUnlocked'
  BY DEF LockHeld, OneMoreClient, NeedCredentials, NobodyUnlocked, TypeOK
<1>2a. /\ \A b \in Clients : due[b] \in 0..2 /\ starts[b] \in 0..2
       /\ due[c] \in 1..2
  BY DEF TypeOK
<1>2b. /\ \A b \in Clients \ {c} : due'[b] = due[b] /\ starts'[b] = starts[b]
       /\ due'[c] = due[c] - 1 /\ starts'[c] = OneMore(starts[c])
  BY <1>0 DEF TypeOK
<1>3. \A b \in Clients : due[b] + starts[b] > 0 <=> due'[b] + starts'[b] > 0
  BY <1>0, <1>2a, <1>2b
<1>4. CredentialsFirst' /\ ListeningMeansTold'
  BY <1>3 DEF CredentialsFirst, ListeningMeansTold, Told, TypeOK
<1>5. cached => \A b \in Clients : due[b] + starts[b] = due'[b] + starts'[b]
  <2> SUFFICES ASSUME cached, NEW b \in Clients
               PROVE  due[b] + starts[b] = due'[b] + starts'[b]
    OBVIOUS
  <2>1. CASE b = c
    <3>1. starts[c] = 0 /\ due[c] = 1
      BY <1>2a DEF NeverStartedTwice
    <3> QED
      BY <1>0, <1>2b, <2>1, <3>1
  <2>2. CASE b # c
    BY <1>2b, <2>2
  <2> QED
    BY <2>1, <2>2
<1>6. NeverStartedTwice'
  BY <1>5 DEF NeverStartedTwice
<1>7. cached => phase[c] = "created" /\ c <= pc
  <2> SUFFICES ASSUME cached PROVE phase[c] = "created" /\ c <= pc
    OBVIOUS
  <2>1. starts[c] = 0
    BY <1>2a DEF NeverStartedTwice
  <2>2. pc \in Nat /\ ~(c > pc)
    BY <1>2a DEF ClientShape, TypeOK
  <2> QED
    BY <2>1, <2>2 DEF ClientShape
<1>8. ClientShape'
  BY <1>0, <1>7 DEF ClientShape, TypeOK
<1>9. LockedView' /\ OnlyDeadReplaced'
  BY <1>7 DEF LockedView, OnlyDeadReplaced, Terminated, TypeOK
<1> QED
  BY <1>1, <1>2, <1>4, <1>6, <1>8, <1>9

LEMMA ClientMovesIInv == ASSUME IInv, NEW c \in Clients,
                                ClientServes(c) \/ ClientInterrupted(c) \/ ClientTerminates(c)
                         PROVE  IInv'
<1> USE DEF IInv, creds, ClientServes, ClientInterrupted, ClientTerminates, ClientMoves
<1>1. TypeOK'
  BY DEF TypeOK, Phases
<1>2. LockHeld' /\ OneMoreClient' /\ NeedCredentials' /\ NobodyUnlocked'
  BY DEF LockHeld, OneMoreClient, NeedCredentials, NobodyUnlocked, TypeOK
<1>3. CredentialsFirst' /\ ListeningMeansTold' /\ NeverStartedTwice'
  BY DEF CredentialsFirst, ListeningMeansTold, Told, NeverStartedTwice
<1>4. phase[c] \in {"connecting", "serving"} /\ phase'[c] # "created"
  BY DEF TypeOK
<1>5. ClientShape'
  BY <1>4 DEF ClientShape, TypeOK
<1>6. LockedView' /\ OnlyDeadReplaced'
  BY <1>4 DEF LockedView, OnlyDeadReplaced, Terminated, TypeOK
<1> QED
  BY <1>1, <1>2, <1>3, <1>5, <1>6

LEMMA StutterIInv == ASSUME IInv, UNCHANGED vars PROVE IInv'
<1> USE DEF IInv, vars, creds
<1>1. TypeOK' /\ LockHeld' /\ OneMoreClient' /\ NeedCredentials' /\ CredentialsFirst'
  BY DEF TypeOK, LockHeld, OneMoreClient, NeedCredentials, CredentialsFirst
<1>2. ListeningMeansTold' /\ NobodyUnlocked' /\ NeverStartedTwice' /\ OnlyDeadReplaced'
  BY DEF ListeningMeansTold, Told, NobodyUnlocked, NeverStartedTwice, OnlyDeadReplaced
<1>3. ClientShape' /\ LockedView'
  BY DEF ClientShape, LockedView, Terminated
<1> QED
  BY <1>1, <1>2, <1>3

(* Every step preserves the inductive invariant.                           *)
LEMMA NextIInv == ASSUME IInv, [Next]_vars PROVE IInv'
<1>1. ASSUME NEW t \in Threads, ThreadStep(t) PROVE IInv'
  <2>1. CASE Starting(t) \/ StartingUnlocked(t)
    BY <2>1, PrepareIInv, RegisteredIInv, RefusedIInv, RefusedStopsIInv, ScheduleIInv
       DEF Starting, StartingUnlocked, Registering
  <2>2. CASE Register(t) \/ CheckListening(t) \/ CheckClient(t) \/ AcquireLock(t)
    BY <2>2, WalkIInv
  <2>3. CASE NothingToDo(t) \/ MustStart(t)
    BY <2>3, RecheckIInv
  <2>4. CASE Teardown(t)
    BY <2>4, TeardownIInv
  <2>5. CASE Append(t) \/ Unregister(t) \/ GetAndroidId(t)
    BY <2>5, CallbackIInv
  <2> QED
    BY <1>1, <2>1, <2>2, <2>3, <2>4, <2>5 DEF ThreadStep, Ensure
<1>2. ASSUME NEW c \in Clients, ClientStep(c) PROVE IInv'
  BY <1>2, ClientStartsIInv, ClientMovesIInv DEF ClientStep
<1>3. CASE UNCHANGED vars
  BY <1>3, StutterIInv
<1> QED
  BY <1>1, <1>2, <1>3 DEF Next

(* The inductive invariant holds throughout.                               *)
THEOREM Invariance == Spec => []IInv
  BY InitIInv, NextIInv, PTL DEF Spec

-----------------------------------------------------------------------------
(* The receiver's fields, threads and clients are well typed; no client is *)
(* built beyond the last.                                                  *)
THEOREM TypeCorrect == Spec => []TypeOK
<1>1. IInv => TypeOK
  BY DEF IInv
<1> QED
  BY <1>1, Invariance, PTL

(* Only one thread at a time is inside _start_lock.                        *)
THEOREM MutualExclusion ==
  Spec => [](\A t, u \in Threads : at[t] \in LockedAt /\ at[u] \in LockedAt => t = u)
<1>1. IInv => \A t, u \in Threads : at[t] \in LockedAt /\ at[u] \in LockedAt => t = u
  BY DEF IInv, LockHeld
<1> QED
  BY <1>1, Invariance, PTL

(* With cached credentials no client is started twice, however many        *)
(* threads register at once.                                               *)
THEOREM StartedOnce == Spec => []NeverStartedTwice
<1>1. IInv => NeverStartedTwice
  BY DEF IInv
<1> QED
  BY <1>1, Invariance, PTL

(* With cached credentials no live client is ever replaced.                *)
THEOREM ReplacedWhenDead == Spec => []OnlyDeadReplaced
<1>1. IInv => OnlyDeadReplaced
  BY DEF IInv
<1> QED
  BY <1>1, Invariance, PTL

(* A registered thread relies on a client that was told to start, or that  *)
(* is just being started.                                                  *)
THEOREM RegisteredRelyOnStarted == Spec => []RegisteredOnStarted
<1>1. IInv => RegisteredOnStarted
  BY DEF IInv, ListeningMeansTold, Told, RegisteredOnStarted
<1> QED
  BY <1>1, Invariance, PTL

(* No client is told to start, and no thread gets a token, without         *)
(* credentials.                                                            *)
THEOREM CredentialsComeFirst == Spec => []CredentialsFirst
<1>1. IInv => CredentialsFirst
  BY DEF IInv
<1> QED
  BY <1>1, Invariance, PTL
=============================================================================
