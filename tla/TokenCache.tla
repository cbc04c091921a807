----------------------------- MODULE TokenCache -----------------------------
(***************************************************************************)
(* libs/Auth/token_cache.py: secrets.json, the file that keeps every       *)
(* Google credential, and the threads that read and change it.  A change   *)
(* reads the whole file, writes a temporary one and renames it into place; *)
(* the temporary file has the same name for every thread, and nothing      *)
(* keeps two threads apart.  An open file stays open over a rename: what   *)
(* is written to it then lands in secrets.json.  Of the system calls only  *)
(* the renaming may fail here: a disk that is full is left out.            *)
(*                                                                         *)
(* Values are version numbers, 0 for none.  The locations of a thread      *)
(* outside set_cached_value belong to the module that uses this one.       *)
(***************************************************************************)
EXTENDS Naturals

CONSTANTS
  Threads,
  Names,    \* keys of the file
  Damaged,  \* content that is no JSON: empty, cut off or written over
  Absent    \* no such file

ASSUME TokenCacheAssumption ==
  /\ Damaged # Absent
  /\ {Damaged, Absent} \cap [Names -> Nat] = {}

VARIABLES
  secrets,    \* secrets.json
  tmp,        \* secrets.json.tmp
  at,         \* where each thread is
  entry,      \* the name and value a thread stores
  data,       \* what it will write
  open,       \* the file it has open for writing, by its present name
  overlapped  \* history: two threads were inside set_cached_value at once

files  == <<secrets, tmp>>
locals == <<entry, data, open>>

Empty == [n \in Names |-> 0]

Nothing == [name |-> CHOOSE n \in Names : TRUE, value |-> 0]

Contents == [Names -> Nat] \cup {Damaged}

Readable == secrets \notin {Damaged, Absent}

(* get_cached_value: a file that cannot be read holds nothing.             *)
Cached(n) == IF Readable THEN secrets[n] ELSE 0

Setting == {"load", "truncate", "write", "replace"}

Go(t, from, to) == at[t] = from /\ at' = [at EXCEPT ![t] = to]

-----------------------------------------------------------------------------
(* set_cached_value(n, v): it is called, ...                               *)
Call(t, from, n, v) ==
  /\ Go(t, from, "load")
  /\ entry' = [entry EXCEPT ![t] = [name |-> n, value |-> v]]
  /\ overlapped' = (overlapped \/ \E u \in Threads \ {t} : at[u] \in Setting)
  /\ UNCHANGED <<files, data, open>>

Forget(t) ==
  /\ entry' = [entry EXCEPT ![t] = Nothing]
  /\ data' = [data EXCEPT ![t] = Empty]

(* ... reads the file, ...                                                 *)
Load(t) ==
  /\ secrets # Damaged
  /\ Go(t, "load", "truncate")
  /\ data' = [data EXCEPT ![t] =
                [n \in Names |-> IF n = entry[t].name THEN entry[t].value ELSE Cached(n)]]
  /\ UNCHANGED <<files, entry, open, overlapped>>

(* "Could not read secrets file. Aborting."                                *)
LoadRaises(t, to) ==
  /\ secrets = Damaged
  /\ Go(t, "load", to)
  /\ Forget(t)
  /\ UNCHANGED <<files, open, overlapped>>

(* Variant: the file itself is opened, as before the temporary file.       *)
TruncateInPlace(t) ==
  /\ Go(t, "truncate", "write")
  /\ secrets' = Damaged /\ tmp' = Absent
  /\ open' = [open EXCEPT ![t] = "secrets"]
  /\ UNCHANGED <<entry, data, overlapped>>

(* ... opens the temporary one, ...                                        *)
Truncate(t) ==
  /\ Go(t, "truncate", "write")
  /\ tmp' = Damaged
  /\ open' = [open EXCEPT ![t] = "tmp"]
  /\ UNCHANGED <<secrets, entry, data, overlapped>>

(* Written from the start of the file; a longer text may stick out.        *)
WrittenOver(old, new) == IF old = Damaged THEN {new} ELSE {new, Damaged}

(* Variant: the file is not closed before it is renamed.                   *)
WriteAndKeepOpen(t) ==
  /\ Go(t, "write", "replace")
  /\ tmp' \in IF open[t] = "tmp" THEN WrittenOver(tmp, data[t]) ELSE {tmp}
  /\ secrets' \in IF open[t] = "secrets" THEN WrittenOver(secrets, data[t]) ELSE {secrets}
  /\ UNCHANGED <<entry, data, open, overlapped>>

(* ... writes and closes it, ...                                           *)
Write(t) ==
  /\ Go(t, "write", "replace")
  /\ tmp' \in IF open[t] = "tmp" THEN WrittenOver(tmp, data[t]) ELSE {tmp}
  /\ secrets' \in IF open[t] = "secrets" THEN WrittenOver(secrets, data[t]) ELSE {secrets}
  /\ open' = [open EXCEPT ![t] = "closed"]
  /\ UNCHANGED <<entry, data, overlapped>>

Renamed(file) == CASE file = "tmp" -> "secrets"
                   [] file = "secrets" -> "replaced"
                   [] OTHER -> file

(* ... and puts it in place.                                               *)
Replace(t, to) ==
  /\ tmp # Absent
  /\ Go(t, "replace", to)
  /\ secrets' = tmp /\ tmp' = Absent
  /\ open' = [u \in Threads |-> Renamed(open[u])]
  /\ Forget(t)
  /\ UNCHANGED overlapped

(* Another thread has renamed the file already.                            *)
ReplaceRaises(t, to) ==
  /\ tmp = Absent
  /\ Go(t, "replace", to)
  /\ Forget(t)
  /\ UNCHANGED <<files, open, overlapped>>

SetCachedValue(t, done, raised) ==
  \/ Load(t) \/ LoadRaises(t, raised)
  \/ Truncate(t) \/ Write(t)
  \/ Replace(t, done) \/ ReplaceRaises(t, raised)

(* The process ends; a file half written stays as it is.                   *)
AllStop ==
  /\ at' = [t \in Threads |-> "idle"]
  /\ entry' = [t \in Threads |-> Nothing]
  /\ data' = [t \in Threads |-> Empty]
  /\ open' = [t \in Threads |-> "closed"]
  /\ UNCHANGED <<files, overlapped>>
=============================================================================
