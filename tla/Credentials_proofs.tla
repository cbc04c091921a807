------------------------- MODULE Credentials_proofs -------------------------
(***************************************************************************)
(* Proofs about Credentials, for any threads, names, numbers of tries and  *)
(* of calls: as long as no two threads change secrets.json at once, over   *)
(* crashes and failed calls, no value in it is lost and the receiver goes  *)
(* by what a restart would find.                                           *)
(***************************************************************************)
EXTENDS Credentials, TLAPS

(* No registration is in use, written or stored that did not happen.       *)
Issued ==
  /\ \A file \in {secrets, tmp} : file \notin {Damaged, Absent} => file[Fcm] <= registrations
  /\ \A t \in Threads : /\ data[t][Fcm] <= registrations
                        /\ entry[t].name = Fcm => entry[t].value <= registrations

(* Unless calls overlapped, one thread at a time is inside.                *)
Alone ==
  \A t, u \in Threads : at[t] \in Setting /\ at[u] \in Setting => overlapped \/ t = u

(* The FCM credentials are registered, never generated.                    *)
Generating == \A t \in Threads : at[t] = "generate" => entry[t].name # Fcm

(* What a thread inside knows of the files: nobody changed them meanwhile. *)
KnowsFiles(t) ==
  /\ open[t] \in {"closed", "tmp"}
  /\ at[t] \in {"truncate", "write", "replace"} =>
       data[t] = [n \in Names |-> IF n = entry[t].name THEN entry[t].value ELSE Cached(n)]
  /\ at[t] = "write" => tmp = Damaged
  /\ at[t] = "replace" => tmp = data[t]

(* What it is about to store is no older than what is there.               *)
Newer(t) ==
  at[t] \in Setting =>
    IF entry[t].name = Fcm
    THEN /\ Cached(Fcm) <= entry[t].value /\ entry[t].value <= credentials
         /\ entry[t].value = credentials \/ \E u \in Threads : at[u] = "store"
    ELSE entry[t].value = 1

Intact ==
  /\ secrets # Damaged
  /\ Cached(Fcm) <= credentials
  /\ \A n \in Names \ {Fcm} : Cached(n) <= 1

Kept == ~overlapped => Intact /\ \A t \in Threads : KnowsFiles(t) /\ Newer(t)

(* TypeOK in two halves.                                                   *)
FileTypes ==
  /\ secrets \in Contents \cup {Absent} /\ tmp \in Contents \cup {Absent}
  /\ at \in [Threads -> Locations]
  /\ entry \in [Threads -> [name : Names, value : Nat]]
  /\ data \in [Threads -> [Names -> Nat]]
  /\ open \in [Threads -> {"closed", "tmp", "secrets", "replaced"}]
  /\ \A t \in Threads : at[t] = "write" <=> open[t] # "closed"
  /\ overlapped \in BOOLEAN

AttemptTypes ==
  /\ credentials \in 0..registrations /\ client \in 0..registrations
  /\ started \in BOOLEAN
  /\ known \in [Threads -> 0..registrations]
  /\ tries \in [Threads -> 1..(IF Retries > FcmTries THEN Retries ELSE FcmTries)]
  /\ registrations \in Nat /\ tokenless \subseteq 1..registrations
  /\ calls \in 0..MaxCalls

IInv ==
  FileTypes /\ AttemptTypes /\ Issued /\ Generating /\ Alone /\ Kept /\ MemoryIsOnDisk

-----------------------------------------------------------------------------
LEMMA TypesAreType == IInv => TypeOK
  BY DEF IInv, FileTypes, AttemptTypes, TypeOK

LEMMA CachedType == ASSUME FileTypes, NEW n \in Names PROVE Cached(n) \in Nat
  BY TokenCacheAssumption DEF FileTypes, Cached, Readable, Contents

LEMMA NothingType == /\ Nothing \in [name : Names, value : Nat] /\ Nothing.value = 0
                     /\ Empty \in [Names -> Nat] /\ Empty[Fcm] = 0
  BY CredentialsAssumption DEF Nothing, Empty

LEMMA TriesType == ASSUME Init
                   PROVE  tries \in [Threads -> 1..(IF Retries > FcmTries THEN Retries ELSE FcmTries)]
<1>1. 1 \in 1..(IF Retries > FcmTries THEN Retries ELSE FcmTries)
  BY CredentialsAssumption DEF FcmTries
<1> QED
  BY <1>1 DEF Init

LEMMA InitIInv == Init => IInv
<1> SUFFICES ASSUME Init PROVE IInv
  OBVIOUS
<1> USE DEF Init
<1>1. FileTypes
  <2>1. secrets \in Contents \cup {Absent} /\ tmp \in Contents \cup {Absent}
    BY DEF Contents
  <2>2. entry \in [Threads -> [name : Names, value : Nat]]
    BY NothingType
  <2>3. data \in [Threads -> [Names -> Nat]]
    BY NothingType
  <2>4. at \in [Threads -> Locations]
    BY DEF Locations
  <2> QED
    BY <2>1, <2>2, <2>3, <2>4 DEF FileTypes
<1>2. /\ \A n \in Names : Cached(n) \in {0, 1}
      /\ secrets \notin {Damaged, Absent} => secrets[Fcm] = Cached(Fcm)
  BY TokenCacheAssumption, CredentialsAssumption DEF Cached, Readable
<1>3. AttemptTypes
  <2>1. registrations \in {0, 1} /\ 0 \in 0..MaxCalls /\ registrations \in 0..registrations
    BY <1>2, CredentialsAssumption
  <2>2. 0 \in 0..registrations
    BY <2>1
  <2>3. known \in [Threads -> 0..registrations]
    BY <2>2
  <2> HIDE DEF Init
  <2>4. /\ credentials = registrations /\ client = registrations /\ started = FALSE
        /\ calls = 0 /\ tokenless \subseteq 1..registrations
    BY DEF Init
  <2>5. registrations \in Nat /\ credentials \in 0..registrations /\ client \in 0..registrations
    BY <2>1, <2>4
  <2>6. tries \in [Threads -> 1..(IF Retries > FcmTries THEN Retries ELSE FcmTries)]
    BY TriesType
  <2> QED
    BY <2>1, <2>3, <2>4, <2>5, <2>6 DEF AttemptTypes
<1>4. Issued
  <2>1. registrations \in {0, 1} /\ registrations = Cached(Fcm)
    BY <1>2, CredentialsAssumption
  <2>2. \A file \in {secrets, tmp} :
          file \notin {Damaged, Absent} => file[Fcm] <= registrations
    BY <1>2, <2>1
  <2>3. \A t \in Threads : data[t][Fcm] = 0 /\ entry[t].value = 0
    BY NothingType
  <2> QED
    BY <2>1, <2>2, <2>3 DEF Issued
<1>5. Alone /\ Generating
  BY DEF Alone, Generating, Setting
<1>6. Intact
  <2>1. secrets # Damaged
    BY TokenCacheAssumption, <1>1
  <2>2. credentials = Cached(Fcm) /\ Cached(Fcm) <= Cached(Fcm)
    BY <1>2, CredentialsAssumption
  <2> QED
    BY <1>2, <2>1, <2>2 DEF Intact
<1>7. Kept
  BY <1>6 DEF Kept, KnowsFiles, Newer, Setting
<1>8. MemoryIsOnDisk
  BY DEF MemoryIsOnDisk
<1> QED
  BY <1>1, <1>3, <1>4, <1>5, <1>7, <1>8 DEF IInv

-----------------------------------------------------------------------------
LEMMA GoMoves ==
  ASSUME FileTypes, NEW t \in Threads, NEW from, NEW to \in Locations, Go(t, from, to)
  PROVE  /\ at' \in [Threads -> Locations]
         /\ at[t] = from /\ at'[t] = to
         /\ \A u \in Threads \ {t} : at'[u] = at[u]
  BY DEF FileTypes, Go

LEMMA Forgotten ==
  ASSUME FileTypes, NEW t \in Threads, Forget(t)
  PROVE  /\ entry' \in [Threads -> [name : Names, value : Nat]]
         /\ data' \in [Threads -> [Names -> Nat]]
         /\ entry'[t].value = 0 /\ data'[t][Fcm] = 0
         /\ \A u \in Threads \ {t} : entry'[u] = entry[u] /\ data'[u] = data[u]
<1> USE NothingType
<1>1. entry' \in [Threads -> [name : Names, value : Nat]] /\ entry'[t] = Nothing
  BY DEF FileTypes, Forget
<1>2. data' \in [Threads -> [Names -> Nat]] /\ data'[t] = Empty
  BY DEF FileTypes, Forget
<1>3. \A u \in Threads \ {t} : entry'[u] = entry[u] /\ data'[u] = data[u]
  BY DEF FileTypes, Forget
<1> QED
  BY <1>1, <1>2, <1>3

Outside == Locations \ (Setting \cup {"store"})

(* A step of a thread outside set_cached_value, before and after, that     *)
(* changes no file, registers nothing and leaves the others alone.         *)
LEMMA OutsideStep ==
  ASSUME IInv, NEW t \in Threads, NEW from \in Outside, NEW to \in Outside, Go(t, from, to),
         UNCHANGED <<files, open, overlapped, credentials, registrations>>,
         entry' \in [Threads -> [name : Names, value : Nat]],
         data' \in [Threads -> [Names -> Nat]],
         \A u \in Threads \ {t} : entry'[u] = entry[u] /\ data'[u] = data[u],
         data'[t][Fcm] <= registrations, to = "generate" => entry'[t].name # Fcm,
         entry'[t].value <= registrations \/ entry'[t].name # Fcm
  PROVE  FileTypes' /\ Issued' /\ Generating' /\ Alone' /\ Kept' /\ MemoryIsOnDisk'
<1>1. \A n : Cached(n)' = Cached(n)
  BY DEF Cached, Readable, files
<1>2. /\ at' \in [Threads -> Locations]
      /\ at[t] \notin Setting \cup {"store"} /\ at'[t] \notin Setting \cup {"store"}
      /\ \A u \in Threads \ {t} : at'[u] = at[u]
  BY GoMoves DEF IInv, Outside
<1>3. at'[t] = "generate" => entry'[t].name # Fcm
  BY GoMoves DEF IInv, Outside
<1> HIDE DEF Go
<1>4. FileTypes'
  <2>1. \A u \in Threads : at'[u] = "write" <=> open'[u] # "closed"
    BY <1>2 DEF IInv, FileTypes, Setting
  <2> QED
    BY <1>2, <2>1 DEF IInv, FileTypes, files
<1>5. Issued'
  BY DEF IInv, Issued, files
<1>6. Alone' /\ Generating'
  BY <1>2, <1>3 DEF IInv, Alone, Generating
<1>7. Intact => Intact'
  BY <1>1, CredentialsAssumption DEF Intact, files
<1>8. ASSUME NEW u \in Threads, KnowsFiles(u), Newer(u) PROVE KnowsFiles(u)' /\ Newer(u)'
  <2>1. CASE u = t
    BY <1>2, <2>1, <1>8 DEF KnowsFiles, Newer, Setting
  <2>2. CASE u # t
    <3>1. KnowsFiles(u)'
      BY <1>2, <2>2, <1>1, <1>8 DEF KnowsFiles, files
    <3>2. Newer(u)'
      <4>1. at[u] \in Setting =>
              \/ ~ \E v \in Threads : at[v] = "store"
              \/ \E v \in Threads : at'[v] = "store"
        BY <1>2
      <4> QED
        BY <1>2, <4>1, <2>2, <1>1, <1>8, CredentialsAssumption DEF Newer
    <3> QED
      BY <3>1, <3>2
  <2> QED
    BY <2>1, <2>2
<1>9. Kept'
  BY <1>7, <1>8 DEF IInv, Kept
<1>10. MemoryIsOnDisk'
  BY <1>1, <1>2, CredentialsAssumption DEF IInv, MemoryIsOnDisk
<1> QED
  BY <1>4, <1>5, <1>6, <1>9, <1>10

LEMMA RegistrationTypes ==
  ASSUME IInv, NEW t \in Threads, NEW try \in Nat \ {0}, try <= 2 \/ try <= Retries,
         tries' = [tries EXCEPT ![t] = try],
         UNCHANGED <<memory, google, calls>>, known' \in [Threads -> 0..registrations]
  PROVE  AttemptTypes'
<1>1. try \in 1..(IF Retries > FcmTries THEN Retries ELSE FcmTries)
  BY CredentialsAssumption DEF FcmTries
<1>2. tries' \in [Threads -> 1..(IF Retries > FcmTries THEN Retries ELSE FcmTries)]
  BY <1>1 DEF IInv, AttemptTypes
<1> QED
  BY <1>2 DEF IInv, AttemptTypes, memory, google

LEMMA DataType == ASSUME IInv, NEW t \in Threads
                  PROVE  /\ entry[t] \in [name : Names, value : Nat]
                         /\ data[t][Fcm] <= registrations
                         /\ entry[t].value <= registrations \/ entry[t].name # Fcm
  BY DEF IInv, FileTypes, Issued

(* The tries of a registration: on to the next, again, or to its failure.  *)
LEMMA MovesIInv ==
  ASSUME IInv, NEW t \in Threads, NEW from \in Outside, NEW to \in Outside,
         NEW try \in Nat \ {0}, try <= 2 \/ try <= Retries,
         Moves(t, from, to, try), to # "generate", known' \in [Threads -> 0..registrations]
  PROVE  IInv'
<1>1. Go(t, from, to) /\ UNCHANGED <<files, locals, overlapped, memory, google, calls>>
  BY DEF Moves
<1>2. AttemptTypes'
  BY <1>1, RegistrationTypes DEF Moves
<1>3. FileTypes' /\ Issued' /\ Generating' /\ Alone' /\ Kept' /\ MemoryIsOnDisk'
  <2>1. /\ UNCHANGED <<files, open, overlapped, credentials, registrations>>
        /\ entry' = entry /\ data' = data
    BY <1>1 DEF locals, memory, google
  <2>2. /\ entry' \in [Threads -> [name : Names, value : Nat]]
        /\ data' \in [Threads -> [Names -> Nat]]
    BY <2>1 DEF IInv, FileTypes
  <2> QED
    BY <1>1, <2>1, <2>2, DataType, OutsideStep
<1> QED
  BY <1>2, <1>3 DEF IInv

LEMMA KnownType == ASSUME IInv, NEW t \in Threads, NEW k \in 0..registrations
                   PROVE  /\ known \in [Threads -> 0..registrations]
                          /\ [known EXCEPT ![t] = k] \in [Threads -> 0..registrations]
                          /\ known[t] \in 0..registrations
                          /\ tries[t] \in Nat \ {0}
                          /\ client \in 0..registrations
                          /\ 0 \in 0..registrations /\ registrations \in Nat
<1>1. registrations \in Nat /\ 0 \in 0..registrations
  BY DEF IInv, AttemptTypes
<1>2. tries[t] \in 1..(IF Retries > FcmTries THEN Retries ELSE FcmTries)
  BY DEF IInv, AttemptTypes
<1>3. tries[t] \in Nat \ {0}
  BY <1>2, CredentialsAssumption DEF FcmTries
<1> QED
  BY <1>1, <1>3 DEF IInv, AttemptTypes

LEMMA OutsideLocations ==
  {"idle", "generate", "begin", "checkin", "gcm", "install", "fcm", "registered", "failed"}
    \subseteq Outside
  BY DEF Outside, Locations, Setting

LEMMA RetryIInv ==
  ASSUME IInv, NEW t \in Threads, NEW where \in {"checkin", "gcm", "fcm"},
         NEW limit \in {Retries, FcmTries}, Retry(t, where, limit)
  PROVE  IInv'
<1>1. Moves(t, where, where, tries[t] + 1) /\ known' = known /\ tries[t] < limit
  BY DEF Retry
<1>2. tries[t] \in Nat \ {0} /\ known \in [Threads -> 0..registrations]
  BY KnownType DEF IInv, AttemptTypes
<1>3. tries[t] + 1 \in Nat \ {0} /\ (tries[t] + 1 <= 2 \/ tries[t] + 1 <= Retries)
  BY <1>1, <1>2, CredentialsAssumption DEF FcmTries
<1> QED
  BY <1>1, <1>2, <1>3, MovesIInv, OutsideLocations

LEMMA AttemptIInv ==
  ASSUME IInv, NEW t \in Threads,
         \/ BeginAttempt(t) \/ CheckinAccepted(t) \/ CheckinRefused(t) \/ CheckinFails(t)
         \/ GcmRegistered(t) \/ GcmFails(t) \/ Installed(t) \/ InstallFails(t)
  PROVE  IInv'
<1>1. \E from, to \in Outside : Moves(t, from, to, 1) /\ to # "generate"
  BY OutsideLocations
  DEF BeginAttempt, CheckinAccepted, CheckinRefused, CheckinFails, GcmRegistered, GcmFails,
      Installed, InstallFails
<1>2. known' \in [Threads -> 0..registrations]
  BY KnownType
  DEF BeginAttempt, CheckinAccepted, CheckinRefused, CheckinFails, GcmRegistered, GcmFails,
      Installed, InstallFails, IInv, AttemptTypes
<1> QED
  BY <1>1, <1>2, MovesIInv

(* Threads that come and go                                                *)
LEMMA CalledType == ASSUME IInv, Called PROVE calls' \in 0..MaxCalls
  BY CredentialsAssumption DEF IInv, AttemptTypes, Called

LEMMA GetOrSetIInv == ASSUME IInv, NEW t \in Threads, NEW n \in Names, GetOrSet(t, n) PROVE IInv'
<1> USE DEF GetOrSet
<1>1. AttemptTypes'
  BY CalledType DEF IInv, AttemptTypes, memory, attempt, google
<1>2. FileTypes' /\ Issued' /\ Generating' /\ Alone' /\ Kept' /\ MemoryIsOnDisk'
  <2>1. /\ entry' \in [Threads -> [name : Names, value : Nat]] /\ entry'[t].name = n
        /\ \A u \in Threads \ {t} : entry'[u] = entry[u]
    BY DEF IInv, FileTypes
  <2>2. UNCHANGED <<files, open, overlapped, credentials, registrations>> /\ data' = data
    BY DEF memory, google
  <2>3. data' \in [Threads -> [Names -> Nat]] /\ data'[t][Fcm] <= registrations
    BY <2>2, DataType DEF IInv, FileTypes
  <2> QED
    BY <2>1, <2>2, <2>3, OutsideStep, OutsideLocations
<1> QED
  BY <1>1, <1>2 DEF IInv

LEMMA GenerateRaisesIInv == ASSUME IInv, NEW t \in Threads, GenerateRaises(t) PROVE IInv'
<1> USE DEF GenerateRaises
<1>1. AttemptTypes'
  BY DEF IInv, AttemptTypes, memory, attempt, google
<1>2. /\ UNCHANGED <<files, open, overlapped, credentials, registrations>>
      /\ Forget(t) /\ Go(t, "generate", "idle")
  BY DEF memory, google
<1>3. FileTypes' /\ Issued' /\ Generating' /\ Alone' /\ Kept' /\ MemoryIsOnDisk'
  <2>1. /\ entry' \in [Threads -> [name : Names, value : Nat]]
        /\ data' \in [Threads -> [Names -> Nat]]
        /\ entry'[t].value = 0 /\ data'[t][Fcm] = 0
        /\ \A u \in Threads \ {t} : entry'[u] = entry[u] /\ data'[u] = data[u]
    BY <1>2, Forgotten DEF IInv
  <2>2. registrations \in Nat
    BY DEF IInv, AttemptTypes
  <2>3. entry'[t].value <= registrations /\ data'[t][Fcm] <= registrations
    BY <2>1, <2>2
  <2> QED
    BY <1>2, <2>1, <2>3, OutsideStep, OutsideLocations
<1> QED
  BY <1>1, <1>3 DEF IInv

(* A thread about to register, or done with it.                            *)
LEMMA PassesIInv ==
  ASSUME IInv, NEW t \in Threads, NEW from \in Outside, NEW to \in Outside \ {"generate"},
         Go(t, from, to), UNCHANGED <<files, locals, overlapped, credentials, tries, google>>,
         calls' \in 0..MaxCalls, known' \in [Threads -> 0..registrations],
         client' \in 0..registrations, started' \in BOOLEAN
  PROVE  IInv'
<1>1. AttemptTypes'
  BY DEF IInv, AttemptTypes, google
<1>2. /\ UNCHANGED <<files, open, overlapped, credentials, registrations>>
      /\ entry' = entry /\ data' = data
  BY DEF locals, google
<1>3. /\ entry' \in [Threads -> [name : Names, value : Nat]]
      /\ data' \in [Threads -> [Names -> Nat]]
  BY <1>2 DEF IInv, FileTypes
<1>4. FileTypes' /\ Issued' /\ Generating' /\ Alone' /\ Kept' /\ MemoryIsOnDisk'
  BY <1>2, <1>3, DataType, OutsideStep
<1> QED
  BY <1>1, <1>4 DEF IInv

LEMMA ComesAndGoesIInv ==
  ASSUME IInv, NEW t \in Threads, StartRegistration(t) \/ Return(t) \/ Leave(t) \/ TryAgain(t)
  PROVE  IInv'
<1>1. calls' \in 0..MaxCalls
  BY CalledType DEF StartRegistration, Return, Leave, TryAgain, IInv, AttemptTypes
<1>2. /\ known' \in [Threads -> 0..registrations]
      /\ client' \in 0..registrations /\ started' \in BOOLEAN
  BY KnownType
  DEF StartRegistration, Return, Leave, TryAgain, memory, attempt, IInv, AttemptTypes
<1>3. /\ UNCHANGED <<files, locals, overlapped, credentials, tries, google>>
      /\ \E from \in Outside, to \in Outside \ {"generate"} : Go(t, from, to)
  BY OutsideLocations DEF StartRegistration, Return, Leave, TryAgain, memory, attempt
<1> QED
  BY <1>1, <1>2, <1>3, PassesIInv

(* The FCM registration numbers the credentials it makes.                  *)
LEMMA RegisteredIInv ==
  ASSUME IInv, NEW t \in Threads, NEW token \in BOOLEAN, Registered(t, token)
  PROVE  IInv'
<1>1. /\ registrations \in Nat /\ registrations' = registrations + 1
      /\ credentials' = registrations' /\ credentials \in 0..registrations
      /\ registrations <= registrations' /\ credentials <= credentials'
  BY DEF Registered, IInv, AttemptTypes
<1>2. /\ at' \in [Threads -> Locations] /\ at[t] = "fcm" /\ at'[t] = "store"
      /\ \A u \in Threads \ {t} : at'[u] = at[u]
  BY GoMoves DEF Registered, Locations, IInv
<1>3. \A n : Cached(n)' = Cached(n)
  BY DEF Registered, Cached, Readable, files
<1>4. UNCHANGED <<secrets, tmp, entry, data, open, overlapped, client, started, calls>>
  BY DEF Registered, files, locals
<1>5. /\ tokenless' \subseteq tokenless \cup {registrations + 1}
      /\ known' = [known EXCEPT ![t] = registrations + 1]
      /\ tries' = [tries EXCEPT ![t] = 1]
  BY DEF Registered
<1>6. AttemptTypes'
  <2>1. known' \in [Threads -> 0..registrations']
    BY <1>1, <1>5 DEF IInv, AttemptTypes
  <2>2. 1 \in 1..(IF Retries > FcmTries THEN Retries ELSE FcmTries)
    BY CredentialsAssumption DEF FcmTries
  <2>3. tries' \in [Threads -> 1..(IF Retries > FcmTries THEN Retries ELSE FcmTries)]
    BY <2>2, <1>5 DEF IInv, AttemptTypes
  <2>4. tokenless' \subseteq 1..registrations'
    BY <1>1, <1>5 DEF IInv, AttemptTypes
  <2>5. /\ registrations' \in Nat /\ credentials' \in 0..registrations'
        /\ client' \in 0..registrations' /\ started' \in BOOLEAN /\ calls' \in 0..MaxCalls
    BY <1>1, <1>4 DEF IInv, AttemptTypes
  <2> QED
    BY <2>1, <2>3, <2>4, <2>5 DEF AttemptTypes
<1>7. FileTypes'
  <2>1. \A u \in Threads : at'[u] = "write" <=> open'[u] # "closed"
    BY <1>2, <1>4 DEF IInv, FileTypes
  <2> QED
    BY <1>2, <1>4, <2>1 DEF IInv, FileTypes
<1>8. Issued'
  <2>1. \A file \in {secrets, tmp} :
          file \notin {Damaged, Absent} => file[Fcm] \in Nat /\ file[Fcm] <= registrations
    BY CredentialsAssumption DEF IInv, Issued, FileTypes, Contents
  <2>2. \A u \in Threads : /\ data[u][Fcm] \in Nat /\ data[u][Fcm] <= registrations
                           /\ entry[u].value \in Nat
                           /\ entry[u].name = Fcm => entry[u].value <= registrations
    BY CredentialsAssumption DEF IInv, Issued, FileTypes
  <2>3. \A file \in {secrets, tmp} :
          file \notin {Damaged, Absent} => file[Fcm] <= registrations'
    BY <2>1, <1>1
  <2>4. \A u \in Threads : /\ data[u][Fcm] <= registrations'
                           /\ entry[u].name = Fcm => entry[u].value <= registrations'
    BY <2>2, <1>1
  <2> QED
    BY <2>3, <2>4, <1>4 DEF Issued
<1>9. Alone' /\ Generating'
  BY <1>2, <1>4 DEF IInv, Alone, Generating, Setting
<1>10. Kept'
  <2> SUFFICES ASSUME ~overlapped PROVE Intact' /\ \A u \in Threads : KnowsFiles(u)' /\ Newer(u)'
    BY <1>4 DEF Kept
  <2>1. Intact /\ \A u \in Threads : KnowsFiles(u) /\ Newer(u)
    BY DEF IInv, Kept
  <2>2. Cached(Fcm) \in Nat
    BY CachedType, CredentialsAssumption DEF IInv
  <2>3. Intact'
    <3>1. Cached(Fcm) <= credentials'
      BY <2>1, <2>2, <1>1 DEF Intact
    <3> QED
      BY <2>1, <3>1, <1>3, <1>4 DEF Intact
  <2>4. ASSUME NEW u \in Threads PROVE KnowsFiles(u)' /\ Newer(u)'
    <3>1. CASE u = t
      BY <3>1, <2>1, <1>2, <1>4 DEF KnowsFiles, Newer, Setting
    <3>2. CASE u # t
      <4>1. KnowsFiles(u)'
        BY <3>2, <2>1, <1>2, <1>3, <1>4 DEF KnowsFiles
      <4>2. entry[u].value \in Nat
        BY DEF IInv, FileTypes
      <4>3. entry[u].value <= credentials => entry[u].value <= credentials'
        BY <4>2, <1>1
      <4>4. Newer(u)'
        BY <3>2, <4>3, <2>1, <1>2, <1>3, <1>4 DEF Newer
      <4> QED
        BY <4>1, <4>4
    <3> QED
      BY <3>1, <3>2
  <2> QED
    BY <2>3, <2>4
<1>11. MemoryIsOnDisk'
  BY <1>2 DEF MemoryIsOnDisk
<1> QED
  BY <1>6, <1>7, <1>8, <1>9, <1>10, <1>11 DEF IInv

-----------------------------------------------------------------------------
(* set_cached_value                                                        *)
LEMMA CallIInv ==
  ASSUME IInv, NEW t \in Threads, NEW from \in {"generate", "store"}, NEW n \in Names,
         NEW v \in Nat, Call(t, from, n, v), UNCHANGED <<memory, attempt, google, calls>>,
         IF from = "store" THEN n = Fcm /\ v = credentials ELSE n # Fcm /\ v = 1
  PROVE  IInv'
<1>1. /\ at' \in [Threads -> Locations] /\ at[t] = from /\ at'[t] = "load"
      /\ \A u \in Threads \ {t} : at'[u] = at[u]
  BY GoMoves DEF Call, Locations, Setting, IInv
<1>2. /\ UNCHANGED <<secrets, tmp, data, open, credentials, registrations>>
      /\ overlapped' = (overlapped \/ \E u \in Threads \ {t} : at[u] \in Setting)
  BY DEF Call, files, memory, google
<1>3. /\ entry' \in [Threads -> [name : Names, value : Nat]]
      /\ entry'[t].name = n /\ entry'[t].value = v
      /\ \A u \in Threads \ {t} : entry'[u] = entry[u]
  BY DEF Call, IInv, FileTypes
<1>4. \A m : Cached(m)' = Cached(m)
  BY <1>2 DEF Cached, Readable
<1>5. /\ AttemptTypes' /\ credentials \in Nat /\ credentials <= credentials
      /\ credentials <= registrations
  BY DEF IInv, AttemptTypes, memory, attempt, google
<1>6. FileTypes'
  <2>1. \A u \in Threads : at'[u] = "write" <=> open'[u] # "closed"
    BY <1>1, <1>2 DEF IInv, FileTypes
  <2>2. overlapped' \in BOOLEAN
    BY <1>2 DEF IInv, FileTypes
  <2> QED
    BY <1>1, <1>2, <1>3, <2>1, <2>2 DEF IInv, FileTypes
<1>7. Issued'
  BY <1>2, <1>3, <1>5 DEF IInv, Issued
<1>8. Alone'
  BY <1>1, <1>2 DEF IInv, Alone
<1>9. Generating'
  BY <1>1, <1>3 DEF IInv, Generating
<1>10. Kept'
  <2> SUFFICES ASSUME ~overlapped' PROVE Intact' /\ \A u \in Threads : KnowsFiles(u)' /\ Newer(u)'
    BY DEF Kept
  <2>1. /\ Intact /\ \A u \in Threads : KnowsFiles(u)
        /\ \A u \in Threads \ {t} : at'[u] \notin Setting
    BY <1>1, <1>2 DEF IInv, Kept
  <2>2. Intact'
    BY <2>1, <1>2, <1>4, CredentialsAssumption DEF Intact
  <2>3. ASSUME NEW u \in Threads PROVE KnowsFiles(u)'
    BY <2>1, <1>1, <1>2 DEF KnowsFiles, Setting
  <2>4. Newer(t)'
    BY <2>1, <1>1, <1>2, <1>3, <1>4, <1>5, CredentialsAssumption DEF Newer, Intact
  <2>5. \A u \in Threads \ {t} : Newer(u)'
    BY <2>1 DEF Newer
  <2> QED
    BY <2>2, <2>3, <2>4, <2>5
<1>11. MemoryIsOnDisk'
  <2>1. CASE from = "store"
    BY <2>1, <1>1, <1>3 DEF MemoryIsOnDisk, Setting
  <2>2. CASE from = "generate"
    <3>1. \A u \in Threads : at[u] = "store" \/ at[u] \in Setting => u # t
      BY <2>2, <1>1 DEF Setting
    <3> QED
      BY <3>1, <1>1, <1>2, <1>3, <1>4, CredentialsAssumption DEF IInv, MemoryIsOnDisk
  <2> QED
    BY <2>1, <2>2
<1> QED
  BY <1>5, <1>6, <1>7, <1>8, <1>9, <1>10, <1>11 DEF IInv

(* Unless calls overlapped, a thread inside has the files to itself.       *)
LEMMA Inside ==
  ASSUME IInv, NEW t \in Threads, at[t] \in Setting, ~overlapped
  PROVE  /\ \A u \in Threads \ {t} : at[u] \notin Setting /\ open[u] = "closed"
         /\ Intact /\ KnowsFiles(t) /\ Newer(t)
BY DEF IInv, Alone, Kept, FileTypes, Setting

(* What a step of that thread has to show for it.                          *)
LEMMA InsideStep ==
  ASSUME IInv, NEW t \in Threads, NEW to \in Locations \ {"generate"},
         at[t] \in Setting, Go(t, at[t], to),
         UNCHANGED <<memory, attempt, google, calls, overlapped>>, FileTypes', Issued',
         \A u \in Threads \ {t} : entry'[u] = entry[u] /\ open'[u] \in {open[u], Renamed(open[u])},
         ~overlapped => /\ Intact' /\ KnowsFiles(t)' /\ Newer(t)'
                        /\ \/ /\ at'[t] \in Setting /\ entry'[t] = entry[t]
                              /\ UNCHANGED secrets
                           \/ Cached(Fcm)' = IF entry[t].name = Fcm THEN entry[t].value
                                                                    ELSE Cached(Fcm)
  PROVE  IInv'
<1>1. /\ at'[t] = to /\ at' \in [Threads -> Locations]
      /\ \A u \in Threads \ {t} : at'[u] = at[u]
  BY GoMoves DEF IInv
<1>2. AttemptTypes' /\ credentials' = credentials
  BY DEF IInv, AttemptTypes, memory, attempt, google
<1>3. Alone'
  BY <1>1 DEF IInv, Alone
<1>4. Generating'
  BY <1>1 DEF IInv, Generating
<1>5. ASSUME ~overlapped
      PROVE  \A u \in Threads \ {t} : at'[u] \notin Setting /\ open'[u] = "closed"
  BY <1>1, <1>5, Inside DEF Renamed
<1>6. Kept'
  <2> SUFFICES ASSUME ~overlapped PROVE \A u \in Threads \ {t} : KnowsFiles(u)' /\ Newer(u)'
    BY DEF Kept
  <2> QED
    BY <1>5 DEF KnowsFiles, Newer, Setting
<1>7. MemoryIsOnDisk'
  <2> SUFFICES ASSUME ~overlapped PROVE MemoryIsOnDisk'
    BY DEF MemoryIsOnDisk
  <2>1. (\E u \in Threads : at[u] = "store") => \E u \in Threads : at'[u] = "store"
    BY <1>1 DEF Setting
  <2>2. \A u \in Threads \ {t} : at[u] \notin Setting
    BY Inside
  <2>3. CASE at'[t] \in Setting /\ entry'[t] = entry[t] /\ UNCHANGED secrets
    <3>1. Cached(Fcm)' = Cached(Fcm)
      BY <2>3 DEF Cached, Readable
    <3> QED
      BY <3>1, <2>1, <2>2, <2>3, <1>2 DEF IInv, MemoryIsOnDisk
  <2>4. CASE Cached(Fcm)' = IF entry[t].name = Fcm THEN entry[t].value ELSE Cached(Fcm)
    <3>1. CASE entry[t].name = Fcm
      BY <3>1, <2>1, <2>4, <1>2, Inside DEF Newer, MemoryIsOnDisk
    <3>2. CASE entry[t].name # Fcm
      BY <3>2, <2>1, <2>2, <2>4, <1>2 DEF IInv, MemoryIsOnDisk
    <3> QED
      BY <3>1, <3>2
  <2> QED
    BY <2>3, <2>4
<1> QED
  BY <1>2, <1>3, <1>4, <1>6, <1>7 DEF IInv

(* No file is more than a thread knows of.                                 *)
LEMMA CachedIssued == ASSUME IInv PROVE Cached(Fcm) <= registrations /\ 0 <= registrations
  BY DEF IInv, Issued, AttemptTypes, Cached, Readable

LEMMA LoadIInv ==
  ASSUME IInv, NEW t \in Threads, Load(t), UNCHANGED <<memory, attempt, google, calls>>
  PROVE  IInv'
<1>1. /\ at[t] = "load" /\ at'[t] = "truncate" /\ at' \in [Threads -> Locations]
      /\ \A u \in Threads \ {t} : at'[u] = at[u]
  BY GoMoves DEF Load, Locations, Setting, IInv
<1>2. /\ UNCHANGED <<secrets, tmp, entry, open, overlapped>>
      /\ registrations' = registrations /\ credentials' = credentials
  BY DEF Load, files, memory, google
<1>3. \A n : Cached(n)' = Cached(n)
  BY <1>2 DEF Cached, Readable
<1> DEFINE loaded == [n \in Names |-> IF n = entry[t].name THEN entry[t].value ELSE Cached(n)]
<1>4. loaded \in [Names -> Nat]
  <2>1. entry[t].value \in Nat
    BY DEF IInv, FileTypes
  <2>2. \A n \in Names : Cached(n) \in Nat
    BY CachedType DEF IInv
  <2> QED
    BY <2>1, <2>2
<1>5. loaded[Fcm] <= registrations
  BY CachedIssued, DataType, CredentialsAssumption
<1>6. /\ data' \in [Threads -> [Names -> Nat]] /\ data'[t] = loaded
      /\ \A u \in Threads \ {t} : data'[u] = data[u]
  <2> HIDE DEF loaded
  <2>1. data' = [data EXCEPT ![t] = loaded]
    BY DEF Load, loaded
  <2> QED
    BY <2>1, <1>4 DEF IInv, FileTypes
<1>7. FileTypes'
  <2>1. \A u \in Threads : at'[u] = "write" <=> open'[u] # "closed"
    BY <1>1, <1>2 DEF IInv, FileTypes
  <2> HIDE DEF loaded
  <2> QED
    BY <1>1, <1>2, <1>6, <2>1 DEF IInv, FileTypes
<1>8. Issued'
  <2> HIDE DEF loaded
  <2> QED
    BY <1>2, <1>5, <1>6 DEF IInv, Issued
<1>9. ~overlapped => Intact' /\ KnowsFiles(t)' /\ Newer(t)'
  <2> SUFFICES ASSUME ~overlapped PROVE Intact' /\ KnowsFiles(t)' /\ Newer(t)'
    OBVIOUS
  <2>1. Intact /\ KnowsFiles(t) /\ Newer(t)
    BY <1>1, Inside DEF Setting
  <2>2. Intact'
    BY <2>1, <1>2, <1>3, CredentialsAssumption DEF Intact
  <2>3. KnowsFiles(t)'
    BY <2>1, <1>1, <1>2, <1>3, <1>6 DEF KnowsFiles
  <2>4. (\E u \in Threads : at[u] = "store") => \E u \in Threads : at'[u] = "store"
    BY <1>1
  <2>5. Newer(t)'
    BY <2>1, <2>4, <1>1, <1>2, <1>3, CredentialsAssumption DEF Newer, Setting
  <2> QED
    BY <2>2, <2>3, <2>5
<1>10. Go(t, at[t], "truncate") /\ at'[t] \in Setting /\ at[t] \in Setting
  BY <1>1 DEF Load, Go, Setting
<1> QED
  BY <1>2, <1>7, <1>8, <1>9, <1>10, InsideStep DEF Locations, Setting

(* An exception: the file cannot be read, or is gone.                      *)
LEMMA RaisesIInv ==
  ASSUME IInv, NEW t \in Threads, NEW to \in {"idle", "failed"},
         LoadRaises(t, to) \/ ReplaceRaises(t, to),
         UNCHANGED <<memory, attempt, google, calls>>
  PROVE  IInv'
<1>1. /\ at[t] \in Setting \ {"write"} /\ Go(t, at[t], to) /\ Forget(t)
      /\ UNCHANGED <<secrets, tmp, open, overlapped>> /\ registrations' = registrations
  BY DEF LoadRaises, ReplaceRaises, Go, Setting, files, google
<1>2. overlapped
  <2> SUFFICES ASSUME ~overlapped PROVE FALSE
    OBVIOUS
  <2>1. Intact /\ KnowsFiles(t)
    BY <1>1, Inside
  <2>2. data[t] \in [Names -> Nat]
    BY DEF IInv, FileTypes
  <2> QED
    BY <2>1, <2>2, TokenCacheAssumption
    DEF Intact, KnowsFiles, LoadRaises, ReplaceRaises, Go
<1>3. /\ entry' \in [Threads -> [name : Names, value : Nat]]
      /\ data' \in [Threads -> [Names -> Nat]]
      /\ entry'[t].value = 0 /\ data'[t][Fcm] = 0
      /\ \A u \in Threads \ {t} : entry'[u] = entry[u] /\ data'[u] = data[u]
  BY <1>1, Forgotten DEF IInv
<1>4. to \in Locations \ {"generate"} /\ to \notin Setting
  BY DEF Locations, Setting
<1>5. /\ at' \in [Threads -> Locations] /\ at'[t] = to
      /\ \A u \in Threads \ {t} : at'[u] = at[u]
  BY <1>1, <1>4, GoMoves DEF IInv
<1>6. FileTypes'
  <2>1. \A u \in Threads : at'[u] = "write" <=> open'[u] # "closed"
    BY <1>1, <1>4, <1>5 DEF IInv, FileTypes, Setting
  <2> QED
    BY <1>1, <1>3, <1>5, <2>1 DEF IInv, FileTypes
<1>7. Issued'
  BY <1>1, <1>3, CachedIssued DEF IInv, Issued
<1> QED
  BY <1>1, <1>2, <1>3, <1>4, <1>6, <1>7, InsideStep

LEMMA TruncateIInv ==
  ASSUME IInv, NEW t \in Threads, Truncate(t), UNCHANGED <<memory, attempt, google, calls>>
  PROVE  IInv'
<1>1. /\ at[t] = "truncate" /\ at'[t] = "write" /\ at' \in [Threads -> Locations]
      /\ \A u \in Threads \ {t} : at'[u] = at[u]
  BY GoMoves DEF Truncate, Locations, Setting, IInv
<1>2. /\ UNCHANGED <<secrets, entry, data, overlapped>> /\ tmp' = Damaged
      /\ registrations' = registrations /\ credentials' = credentials
  BY DEF Truncate, memory, google
<1>3. /\ open' \in [Threads -> {"closed", "tmp", "secrets", "replaced"}] /\ open'[t] = "tmp"
      /\ \A u \in Threads \ {t} : open'[u] = open[u]
  BY DEF Truncate, IInv, FileTypes
<1>4. \A n : Cached(n)' = Cached(n)
  BY <1>2 DEF Cached, Readable
<1>5. FileTypes'
  <2>1. \A u \in Threads : at'[u] = "write" <=> open'[u] # "closed"
    BY <1>1, <1>3 DEF IInv, FileTypes
  <2>2. tmp' \in Contents
    BY <1>2 DEF Contents
  <2> QED
    BY <1>1, <1>2, <1>3, <2>1, <2>2 DEF IInv, FileTypes
<1>6. Issued'
  BY <1>2 DEF IInv, Issued
<1>7. ~overlapped => Intact' /\ KnowsFiles(t)' /\ Newer(t)'
  <2> SUFFICES ASSUME ~overlapped PROVE Intact' /\ KnowsFiles(t)' /\ Newer(t)'
    OBVIOUS
  <2>1. Intact /\ KnowsFiles(t) /\ Newer(t)
    BY <1>1, Inside DEF Setting
  <2>2. Intact'
    BY <2>1, <1>2, <1>4, CredentialsAssumption DEF Intact
  <2>3. KnowsFiles(t)'
    BY <2>1, <1>1, <1>2, <1>3, <1>4 DEF KnowsFiles
  <2>4. (\E u \in Threads : at[u] = "store") => \E u \in Threads : at'[u] = "store"
    BY <1>1
  <2>5. Newer(t)'
    BY <2>1, <2>4, <1>1, <1>2, <1>4, CredentialsAssumption DEF Newer, Setting
  <2> QED
    BY <2>2, <2>3, <2>5
<1>8. Go(t, at[t], "write") /\ at'[t] \in Setting /\ at[t] \in Setting
  BY <1>1 DEF Truncate, Go, Setting
<1> QED
  BY <1>2, <1>3, <1>5, <1>6, <1>7, <1>8, InsideStep DEF Locations, Setting

(* A thread by itself writes the temporary file, which it has truncated.   *)
LEMMA WriteIInv ==
  ASSUME IInv, NEW t \in Threads, Write(t), UNCHANGED <<memory, attempt, google, calls>>
  PROVE  IInv'
<1>1. /\ at[t] = "write" /\ at'[t] = "replace" /\ at' \in [Threads -> Locations]
      /\ \A u \in Threads \ {t} : at'[u] = at[u]
  BY GoMoves DEF Write, Locations, Setting, IInv
<1>2. /\ UNCHANGED <<entry, data, overlapped>>
      /\ tmp' \in {tmp, data[t], Damaged} /\ secrets' \in {secrets, data[t], Damaged}
      /\ registrations' = registrations /\ credentials' = credentials
  BY DEF Write, WrittenOver, memory, google
<1>3. /\ open' \in [Threads -> {"closed", "tmp", "secrets", "replaced"}] /\ open'[t] = "closed"
      /\ \A u \in Threads \ {t} : open'[u] = open[u]
  BY DEF Write, IInv, FileTypes
<1>4. FileTypes'
  <2>1. \A u \in Threads : at'[u] = "write" <=> open'[u] # "closed"
    BY <1>1, <1>3 DEF IInv, FileTypes
  <2>2. tmp' \in Contents \cup {Absent} /\ secrets' \in Contents \cup {Absent}
    BY <1>2 DEF Contents, IInv, FileTypes
  <2> QED
    BY <1>1, <1>2, <1>3, <2>1, <2>2 DEF IInv, FileTypes
<1>5. Issued'
  BY <1>2 DEF IInv, Issued
<1>6. ~overlapped => Intact' /\ KnowsFiles(t)' /\ Newer(t)' /\ UNCHANGED secrets
  <2> SUFFICES ASSUME ~overlapped
               PROVE  Intact' /\ KnowsFiles(t)' /\ Newer(t)' /\ UNCHANGED secrets
    OBVIOUS
  <2>1. Intact /\ KnowsFiles(t) /\ Newer(t)
    BY <1>1, Inside DEF Setting
  <2>2. open[t] = "tmp" /\ tmp = Damaged
    BY <2>1, <1>1 DEF KnowsFiles, IInv, FileTypes
  <2>3. secrets' = secrets /\ tmp' = data[t]
    BY <2>2 DEF Write, WrittenOver
  <2>4. \A n : Cached(n)' = Cached(n)
    BY <2>3 DEF Cached, Readable
  <2>5. Intact'
    BY <2>1, <2>3, <2>4, <1>2, CredentialsAssumption DEF Intact
  <2>6. KnowsFiles(t)'
    BY <2>1, <2>3, <2>4, <1>1, <1>2, <1>3 DEF KnowsFiles
  <2>7. (\E u \in Threads : at[u] = "store") => \E u \in Threads : at'[u] = "store"
    BY <1>1
  <2>8. Newer(t)'
    BY <2>1, <2>4, <2>7, <1>1, <1>2, CredentialsAssumption DEF Newer, Setting
  <2> QED
    BY <2>3, <2>5, <2>6, <2>8
<1>7. Go(t, at[t], "replace") /\ at'[t] \in Setting /\ at[t] \in Setting
  BY <1>1 DEF Write, Go, Setting
<1> QED
  BY <1>2, <1>3, <1>4, <1>5, <1>6, <1>7, InsideStep DEF Locations, Setting

(* What it renames into place is the old content, but for its own entry.   *)
LEMMA ReplacesOne ==
  ASSUME IInv, NEW t \in Threads, NEW to, Replace(t, to), ~overlapped
  PROVE  /\ secrets' \in [Names -> Nat]
         /\ \A n \in Names : Cached(n)' = IF n = entry[t].name THEN entry[t].value ELSE Cached(n)
         /\ Newer(t) /\ Intact /\ at[t] = "replace"
<1>1. at[t] = "replace" /\ Intact /\ KnowsFiles(t) /\ Newer(t)
  BY Inside DEF Replace, Go, Setting
<1>2. secrets' = data[t] /\ data[t] \in [Names -> Nat]
  BY <1>1 DEF Replace, KnowsFiles, IInv, FileTypes
<1>3. \A n : Cached(n)' = secrets'[n]
  BY <1>2, TokenCacheAssumption DEF Cached, Readable
<1> QED
  BY <1>1, <1>2, <1>3 DEF KnowsFiles

LEMMA ReplaceIInv ==
  ASSUME IInv, NEW t \in Threads, NEW to \in {"idle", "registered"}, Replace(t, to),
         UNCHANGED <<memory, attempt, google, calls>>
  PROVE  IInv'
<1>1. /\ to \in Locations \ {"generate"} /\ to \notin Setting
  BY DEF Locations, Setting
<1>2. /\ at[t] = "replace" /\ at'[t] = to /\ at' \in [Threads -> Locations]
      /\ \A u \in Threads \ {t} : at'[u] = at[u]
  BY <1>1, GoMoves DEF Replace, IInv
<1>3. /\ secrets' = tmp /\ tmp' = Absent /\ tmp # Absent /\ UNCHANGED overlapped /\ Forget(t)
      /\ open' = [u \in Threads |-> Renamed(open[u])]
      /\ registrations' = registrations /\ credentials' = credentials
  BY DEF Replace, memory, google
<1>4. /\ entry' \in [Threads -> [name : Names, value : Nat]]
      /\ data' \in [Threads -> [Names -> Nat]]
      /\ entry'[t].value = 0 /\ data'[t][Fcm] = 0
      /\ \A u \in Threads \ {t} : entry'[u] = entry[u] /\ data'[u] = data[u]
  BY <1>3, Forgotten DEF IInv
<1>5. \A u \in Threads : /\ Renamed(open[u]) \in {"closed", "tmp", "secrets", "replaced"}
                         /\ Renamed(open[u]) = "closed" <=> open[u] = "closed"
  BY DEF IInv, FileTypes, Renamed
<1>6. FileTypes'
  <2>1. \A u \in Threads : at'[u] = "write" <=> open'[u] # "closed"
    BY <1>1, <1>2, <1>3, <1>5 DEF IInv, FileTypes, Setting
  <2>2. open' \in [Threads -> {"closed", "tmp", "secrets", "replaced"}]
    BY <1>3, <1>5
  <2> QED
    BY <1>2, <1>3, <1>4, <2>1, <2>2 DEF IInv, FileTypes
<1>7. Issued'
  BY <1>3, <1>4, CachedIssued DEF IInv, Issued
<1>8. ASSUME ~overlapped
      PROVE  /\ Intact' /\ KnowsFiles(t)' /\ Newer(t)'
             /\ Cached(Fcm)' = IF entry[t].name = Fcm THEN entry[t].value ELSE Cached(Fcm)
  <2>1. /\ secrets' \in [Names -> Nat] /\ Newer(t) /\ Intact
        /\ \A n \in Names : Cached(n)' = IF n = entry[t].name THEN entry[t].value ELSE Cached(n)
    BY <1>8, ReplacesOne
  <2>2. Newer(t)' /\ KnowsFiles(t)'
    <3>1. open'[t] = "closed"
      BY <1>2, <1>3, <1>5 DEF IInv, FileTypes
    <3> QED
      BY <3>1, <1>1, <1>2 DEF KnowsFiles, Newer, Setting
  <2>3. secrets' # Damaged
    BY <2>1, TokenCacheAssumption
  <2>4. \A n \in Names \ {Fcm} : Cached(n)' <= 1
    BY <2>1, <1>2 DEF Intact, Newer, Setting
  <2>5. Cached(Fcm)' <= credentials
    BY <2>1, <1>2, CredentialsAssumption DEF Intact, Newer, Setting
  <2>6. Intact'
    BY <2>3, <2>4, <2>5, <1>3 DEF Intact
  <2> QED
    BY <2>1, <2>2, <2>6, CredentialsAssumption
<1>9. Go(t, at[t], to) /\ at[t] \in Setting
  BY <1>2 DEF Replace, Go, Setting
<1> QED
  BY <1>1, <1>3, <1>4, <1>6, <1>7, <1>8, <1>9, InsideStep

LEMMA StoringIInv == ASSUME IInv, NEW t \in Threads, Storing(t) PROVE IInv'
<1>1. /\ UNCHANGED <<memory, attempt, google, calls>>
      /\ \/ Load(t) \/ Truncate(t) \/ Write(t)
         \/ \E to \in {"idle", "failed"} : LoadRaises(t, to) \/ ReplaceRaises(t, to)
         \/ \E to \in {"idle", "registered"} : Replace(t, to)
  BY DEF Storing, SetCachedValue
<1> QED
  BY <1>1, LoadIInv, TruncateIInv, WriteIInv, RaisesIInv, ReplaceIInv

LEMMA CallsIInv == ASSUME IInv, NEW t \in Threads, Generate(t) \/ Store(t) PROVE IInv'
<1>1. CASE Generate(t)
  <2>1. entry[t].name \in Names /\ entry[t].name # Fcm
    BY <1>1 DEF Generate, Call, Go, IInv, Generating, FileTypes
  <2> QED
    BY <1>1, <2>1, CallIInv DEF Generate
<1>2. CASE Store(t)
  <2>1. credentials \in Nat
    BY DEF IInv, AttemptTypes
  <2> QED
    BY <1>2, <2>1, CallIInv, CredentialsAssumption DEF Store
<1> QED
  BY <1>1, <1>2

(* A restart: the file is all that is left, and what it says is used.      *)
LEMMA RestartIInv == ASSUME IInv, Restart PROVE IInv'
<1>1. /\ at' = [t \in Threads |-> "idle"] /\ entry' = [t \in Threads |-> Nothing]
      /\ data' = [t \in Threads |-> Empty] /\ open' = [t \in Threads |-> "closed"]
      /\ UNCHANGED <<secrets, tmp, overlapped, registrations, tokenless>>
  BY DEF Restart, AllStop, files, google
<1>2. /\ credentials' = Cached(Fcm) /\ client' = Cached(Fcm) /\ started' = FALSE
      /\ known' = [t \in Threads |-> 0] /\ tries' = [t \in Threads |-> 1]
      /\ \A n : Cached(n)' = Cached(n)
  BY <1>1 DEF Restart, Cached, Readable
<1>3. FileTypes'
  <2>1. entry' \in [Threads -> [name : Names, value : Nat]]
    BY <1>1, NothingType
  <2>2. data' \in [Threads -> [Names -> Nat]]
    BY <1>1, NothingType
  <2>3. at' \in [Threads -> Locations]
    BY <1>1 DEF Locations
  <2> QED
    BY <1>1, <2>1, <2>2, <2>3 DEF IInv, FileTypes
<1>4. Cached(Fcm) \in 0..registrations /\ Cached(Fcm) <= Cached(Fcm)
  BY CachedIssued, CachedType, CredentialsAssumption DEF IInv, AttemptTypes
<1>5. AttemptTypes'
  <2>1. known' \in [Threads -> 0..registrations]
    BY <1>2, KnownType DEF IInv, AttemptTypes
  <2>2. 1 \in 1..(IF Retries > FcmTries THEN Retries ELSE FcmTries)
    BY CredentialsAssumption DEF FcmTries
  <2>3. tries' \in [Threads -> 1..(IF Retries > FcmTries THEN Retries ELSE FcmTries)]
    BY <1>2, <2>2
  <2>4. calls' \in 0..MaxCalls
    BY CalledType DEF Restart
  <2> QED
    BY <1>1, <1>2, <1>4, <2>1, <2>3, <2>4 DEF IInv, AttemptTypes
<1>6. Issued'
  <2>1. \A t \in Threads : data'[t][Fcm] = 0 /\ entry'[t].value = 0
    BY <1>1, NothingType
  <2> QED
    BY <1>1, <2>1, CachedIssued DEF IInv, Issued
<1>7. Alone' /\ Generating'
  BY <1>1 DEF Alone, Generating, Setting
<1>8. Kept'
  <2>1. Intact => Intact'
    BY <1>1, <1>2, <1>4 DEF Intact
  <2>2. \A t \in Threads : KnowsFiles(t)' /\ Newer(t)'
    BY <1>1 DEF KnowsFiles, Newer, Setting
  <2> QED
    BY <2>1, <2>2, <1>1 DEF IInv, Kept
<1>9. MemoryIsOnDisk'
  BY <1>2 DEF MemoryIsOnDisk
<1> QED
  BY <1>3, <1>5, <1>6, <1>7, <1>8, <1>9 DEF IInv

-----------------------------------------------------------------------------
(* A step is one of the above, and only a rename by a thread that has the  *)
(* file to itself changes what it holds.                                   *)
LEMMA NextIInv == ASSUME IInv, [Next]_vars PROVE IInv'
<1>1. ASSUME NEW t \in Threads, Registering(t) PROVE IInv'
  <2>1. ASSUME NEW token \in BOOLEAN, Registered(t, token) PROVE IInv'
    BY <2>1, RegisteredIInv
  <2>2. ASSUME \/ Retry(t, "checkin", Retries) \/ Retry(t, "gcm", Retries)
               \/ Retry(t, "fcm", FcmTries) PROVE IInv'
    BY <2>2, RetryIInv
  <2> QED
    BY <1>1, <2>1, <2>2, AttemptIInv, CallsIInv, ComesAndGoesIInv DEF Registering
<1>2. ASSUME NEW t \in Threads, Work(t) PROVE IInv'
  BY <1>1, <1>2, CallsIInv, GenerateRaisesIInv, StoringIInv, ComesAndGoesIInv DEF Work
<1>3. CASE UNCHANGED vars
  <2>1. UNCHANGED <<secrets, tmp, at, entry, data, open, overlapped, credentials, client,
                    started, known, tries, registrations, tokenless, calls>>
    BY <1>3 DEF vars, files, locals, memory, attempt, google
  <2>2. FileTypes' /\ AttemptTypes'
    BY <2>1 DEF IInv, FileTypes, AttemptTypes
  <2>3. Issued' /\ Generating' /\ Alone'
    BY <2>1 DEF IInv, Issued, Generating, Alone
  <2>4. \A n : Cached(n)' = Cached(n)
    BY <2>1 DEF Cached, Readable
  <2>5. Kept'
    BY <2>1, <2>4, CredentialsAssumption DEF IInv, Kept, Intact, KnowsFiles, Newer
  <2>6. MemoryIsOnDisk'
    BY <2>1, <2>4 DEF IInv, MemoryIsOnDisk
  <2> QED
    BY <2>2, <2>3, <2>5, <2>6 DEF IInv
<1> QED
  BY <1>2, <1>3, ComesAndGoesIInv, GetOrSetIInv, RestartIInv DEF Next

LEMMA SecretsStep ==
  ASSUME IInv, Next
  PROVE  \/ UNCHANGED secrets
         \/ overlapped'
         \/ ~overlapped /\ \E t \in Threads, to \in {"idle", "registered"} : Replace(t, to)
<1>1. ASSUME NEW t \in Threads, Storing(t), ~overlapped'
      PROVE  \/ UNCHANGED secrets
             \/ ~overlapped /\ \E to \in {"idle", "registered"} : Replace(t, to)
  <2>1. CASE Write(t)
    <3>1. ~overlapped /\ at[t] = "write"
      BY <1>1, <2>1 DEF Write, Go
    <3>2. open[t] = "tmp"
      BY <3>1 DEF IInv, FileTypes, Kept, KnowsFiles
    <3> QED
      BY <2>1, <3>2 DEF Write
  <2> QED
    BY <1>1, <2>1
    DEF Storing, SetCachedValue, Load, LoadRaises, Truncate, Replace, ReplaceRaises, files
<1>2. ASSUME NEW t \in Threads, Registering(t) PROVE UNCHANGED secrets
  BY <1>2
  DEF Registering, BeginAttempt, Retry, CheckinAccepted, CheckinRefused, CheckinFails,
      GcmRegistered, GcmFails, Installed, InstallFails, Registered, Store, Return, Moves,
      Call, files
<1> QED
  BY <1>1, <1>2
  DEF Next, Work, Generate, GenerateRaises, StartRegistration, TryAgain, GetOrSet, Leave,
      Call, Restart, AllStop, files

(* Every variable keeps its type: no registration is in use that did not   *)
(* happen, and no try is beyond the limits of fcmregister.py.              *)
THEOREM TypeCorrect == Spec => []TypeOK
BY InitIInv, NextIInv, TypesAreType, PTL DEF Spec

(* As long as no two threads change secrets.json at once, whatever is      *)
(* stored stays stored, over failures and restarts, and no older           *)
(* registration replaces a newer one (token_cache.py:38-59).               *)
THEOREM NothingLost == Spec => NothingForgotten
<1>1. ASSUME IInv, [Next]_vars
      PROVE  [~overlapped' => \A n \in Names : Cached(n)' >= Cached(n)]_vars
  <2> SUFFICES ASSUME Next, ~overlapped', NEW n \in Names PROVE Cached(n)' >= Cached(n)
    BY <1>1
  <2>1. Cached(n) \in Nat
    BY CachedType, <1>1 DEF IInv
  <2>2. CASE UNCHANGED secrets
    BY <2>1, <2>2 DEF Cached, Readable
  <2>3. ASSUME NEW t \in Threads, NEW to, Replace(t, to), ~overlapped
        PROVE  Cached(n)' >= Cached(n)
    <3>1. /\ Newer(t) /\ Intact /\ at[t] = "replace" /\ entry[t].value \in Nat
          /\ Cached(n)' = IF n = entry[t].name THEN entry[t].value ELSE Cached(n)
      BY <1>1, <2>3, ReplacesOne DEF IInv, FileTypes
    <3>2. n = entry[t].name => entry[t].value >= Cached(n)
      BY <2>1, <3>1 DEF Newer, Intact, Setting
    <3> QED
      BY <2>1, <3>1, <3>2
  <2> QED
    BY <1>1, <2>2, <2>3, SecretsStep
<1> QED
  BY <1>1, InitIInv, NextIInv, PTL DEF Spec, NothingForgotten

(* Whichever of two registrations came last, once no thread is about to    *)
(* store it the receiver goes by what a restart would read back            *)
(* (fcm_receiver.py:183-188).                                              *)
THEOREM MemoryOnDisk == Spec => []MemoryIsOnDisk
<1>1. IInv => MemoryIsOnDisk
  BY DEF IInv
<1> QED
  BY <1>1, InitIInv, NextIInv, PTL DEF Spec

(* What DEPLOYMENT.md says of a crash in the middle of a write holds for   *)
(* one writer at a time: unless two threads were in set_cached_value at    *)
(* once, secrets.json can be read at any time, over crashes, restarts and  *)
(* requests that fail (token_cache.py:52-59).  A violation of              *)
(* WritesAreAtomic takes two writers.                                      *)
THEOREM OneWriterIsAtomic == Spec => [](WritesAreAtomic \/ overlapped)
<1>1. IInv => WritesAreAtomic \/ overlapped
  BY DEF IInv, Kept, Intact, WritesAreAtomic
<1> QED
  BY <1>1, InitIInv, NextIInv, PTL DEF Spec

=============================================================================
