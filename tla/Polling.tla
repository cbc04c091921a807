------------------------------- MODULE Polling -------------------------------
(***************************************************************************)
(* The settings of the portal (webapp/settings_store.py) and the polling   *)
(* thread of the middleware (runtime/middleware.py) that uses them by code *)
(* of its own (runtime/settings.py): an admin saves a form, the thread     *)
(* reads the table at the start of each cycle, lists the trackers of the   *)
(* account, requests them a batch at a time, stores the result for         *)
(* /devices, publishes it and sleeps.  What happens inside a batch is in   *)
(* LocationFetch, what becomes of a published fix in Pipeline.             *)
(*                                                                         *)
(* A text, in a form, in the table or in the environment, is a pair of the *)
(* form it is written in and a number; seconds have whole steps.  The key  *)
(* location_timeout is treated as poll_interval is and left out.           *)
(***************************************************************************)
EXTENDS Integers, Sequences

CONSTANTS
  Low, High, Default,  \* by key: range and hard-coded default
  MaxSleep,            \* time.sleep takes no longer time
  EnvTexts,            \* by key: what the environment may hold
  Forms,               \* forms that are posted
  MaxDevices,          \* bound: trackers on the account
  MaxSaves,            \* bound: forms that are saved
  MaxRestarts,         \* bound: restarts of the middleware
  NaN,                 \* the float that is not a number
  NoNumber             \* a cast that raises

Kind == [poll_interval |-> "int", location_batch_size |-> "int",
         location_batch_delay |-> "float"]
Keys == DOMAIN Kind

Absent == <<"absent", 0>>
Texts  == ({"int", "float"} \X Int) \cup {<<"nan", 0>>, <<"junk", 0>>, Absent}

ASSUME PollingAssumption ==
  /\ Low \in [Keys -> Nat] /\ High \in [Keys -> Nat] /\ Default \in [Keys -> Nat]
  /\ \A k \in Keys : Low[k] <= Default[k] /\ Default[k] <= High[k]
  /\ MaxSleep \in Nat /\ High.poll_interval <= MaxSleep
  /\ \A k \in Keys : EnvTexts[k] \subseteq Texts
  /\ Forms \subseteq [Keys -> Texts]
  /\ {MaxDevices, MaxSaves, MaxRestarts} \subseteq Nat
  /\ NaN \notin Int /\ NoNumber \notin Int \cup {NaN}

VARIABLES
  stored,     \* app_settings: the text of each key
  env,        \* the environment of the middleware; the portal's has no key
  supabase,   \* what its SUPABASE_URL and SUPABASE_KEY are: see Clients
  at,         \* where the polling thread is
  cfg,        \* its local: the settings of this cycle
  listed,     \* number of trackers Google listed in this cycle
  start,      \* index of the next batch
  requested,  \* trackers requested in this cycle, in order
  cache,      \* those of the result /devices returns
  saves, restarts

portal == <<stored, env, supabase, saves>>
locals == <<listed, start, requested>>
vars   == <<portal, at, cfg, locals, cache, restarts>>

(* _get_supabase: none of the two is set; they make a client; or they are  *)
(* malformed, or the package is missing, and making it raises.             *)
Clients == {"unset", "works", "raises"}

(* int(text) takes whole numbers only, float(text) also fractions and nan. *)
Number(k, text) ==
  IF text[1] = "int" \/ (text[1] = "float" /\ Kind[k] = "float") THEN text[2]
  ELSE IF text[1] = "nan" /\ Kind[k] = "float" THEN NaN
  ELSE NoNumber

Or(v, default) == IF v = NoNumber THEN default ELSE v

(* _env_defaults                                                           *)
EnvDefault(k) == Or(Number(k, env[k]), Default[k])

-----------------------------------------------------------------------------
(* The portal.                                                             *)

(* _cast: nan is neither below nor above.                                  *)
Cast(k, text) ==
  LET v == Number(k, text)
  IN  IF v \in Int /\ (v < Low[k] \/ v > High[k]) THEN NoNumber ELSE v

(* get_settings: what the page shows.                                      *)
Shown(k) == Or(Cast(k, stored[k]), Default[k])

(* Variant: every number is written as a float.                            *)
StrFloat(k, v) == IF v = NaN THEN <<"nan", 0>> ELSE <<"float", v>>

(* str(value) of what was cast.                                            *)
Str(k, v) == IF v = NaN THEN <<"nan", 0>> ELSE <<Kind[k], v>>

(* save_settings: everything is written or, if one field is refused,       *)
(* nothing.                                                                *)
SaveSettings(form) ==
  /\ saves < MaxSaves /\ saves' = saves + 1
  /\ \A k \in Keys : Cast(k, form[k]) # NoNumber
  /\ stored' = [k \in Keys |-> Str(k, Cast(k, form[k]))]
  /\ UNCHANGED <<env, supabase, at, cfg, locals, cache, restarts>>

-----------------------------------------------------------------------------
(* polling_loop.                                                           *)

Go(from, to) == at = from /\ at' = to

NoCycle == listed' = 0 /\ start' = 0 /\ requested' = <<>>

(* Variant: a value of the table is read as a whole number.                *)
LoadedWhole(k) == IF stored[k][1] = "int" THEN stored[k][2] ELSE EnvDefault(k)

(* load_runtime_settings casts, but has no ranges; ...                     *)
Loaded(k) == Or(Number(k, stored[k]), EnvDefault(k))

LoadSettings ==
  /\ Go("load", "list")
  /\ supabase = "works"
  /\ cfg' = [k \in Keys |-> Loaded(k)]
  /\ UNCHANGED <<portal, locals, cache, restarts>>

(* ... without a database, or if it does not answer, it is the             *)
(* environment; ...                                                        *)
LoadDefaults ==
  /\ Go("load", "list")
  /\ supabase # "raises"
  /\ cfg' = [k \in Keys |-> EnvDefault(k)]
  /\ UNCHANGED <<portal, locals, cache, restarts>>

(* ... but the client is made outside the try of the query, and the call   *)
(* stands outside the try of the loop.                                     *)
LoadRaises ==
  /\ Go("load", "dead")
  /\ supabase = "raises"
  /\ UNCHANGED <<portal, cfg, locals, cache, restarts>>

(* fetch_device_list, of Google: perhaps none.                             *)
ListDevices(n) ==
  /\ Go("list", IF n = 0 THEN "store" ELSE "batch")
  /\ listed' = n
  /\ UNCHANGED <<portal, cfg, start, requested, cache, restarts>>

(* Variant: the exception is not caught.                                   *)
ListFailsUncaught ==
  /\ Go("list", "dead")
  /\ UNCHANGED <<portal, cfg, locals, cache, restarts>>

ListFails ==
  /\ Go("list", "sleep")
  /\ UNCHANGED <<portal, cfg, locals, cache, restarts>>

(* range(0, n, batch_size) raises for 0 and is empty for a negative size.  *)
SizeRaises ==
  /\ Go("batch", "sleep")
  /\ cfg.location_batch_size = 0
  /\ NoCycle
  /\ UNCHANGED <<portal, cfg, cache, restarts>>

NoBatch ==
  /\ Go("batch", "store")
  /\ cfg.location_batch_size < 0
  /\ UNCHANGED <<portal, cfg, locals, cache, restarts>>

(* The list Google returned.                                               *)
Devices == [i \in 1..listed |-> i]

Until(end) == SubSeq(Devices, start + 1, IF end < listed THEN end ELSE listed)

(* Variant: the end of the slice belongs to it.                            *)
BatchInclusive(size) == Until(start + size + 1)

(* devices[start:start + batch_size]                                       *)
Batch(size) == Until(start + size)

(* A batch is requested; the pause after it is skipped when it is 0 or     *)
(* nothing is left.                                                        *)
FetchBatch ==
  LET size == cfg.location_batch_size
      next == start + size
  IN  /\ Go("batch", IF next >= listed THEN "store"
                     ELSE IF cfg.location_batch_delay = 0 THEN "batch" ELSE "pause")
      /\ size > 0
      /\ requested' = requested \o Batch(size)
      /\ start' = next
      /\ UNCHANGED <<portal, cfg, listed, cache, restarts>>

(* time.sleep raises for a negative number, a very large one and nan.      *)
Sleeps(v) == v \in 0..MaxSleep

PauseEnds ==
  /\ Sleeps(cfg.location_batch_delay)
  /\ Go("pause", "batch")
  /\ UNCHANGED <<portal, cfg, locals, cache, restarts>>

PauseRaises ==
  /\ ~Sleeps(cfg.location_batch_delay)
  /\ Go("pause", "sleep")
  /\ NoCycle
  /\ UNCHANGED <<portal, cfg, cache, restarts>>

(* The result replaces the one /devices returns, under _cache_lock.        *)
StoreResult ==
  /\ Go("store", "publish")
  /\ cache' = requested
  /\ UNCHANGED <<portal, cfg, locals, restarts>>

(* Whether _publish_locations reaches the end of the result or raises.     *)
Publish ==
  /\ Go("publish", "sleep")
  /\ NoCycle
  /\ UNCHANGED <<portal, cfg, cache, restarts>>

(* The sleep between two cycles stands outside the try.                    *)
SleepEnds ==
  /\ Sleeps(cfg.poll_interval)
  /\ Go("sleep", "load")
  /\ UNCHANGED <<portal, cfg, locals, cache, restarts>>

SleepRaises ==
  /\ ~Sleeps(cfg.poll_interval)
  /\ Go("sleep", "dead")
  /\ UNCHANGED <<portal, cfg, locals, cache, restarts>>

(* The process is restarted: _start_background_workers starts a new thread.*)
Restart ==
  /\ restarts < MaxRestarts /\ restarts' = restarts + 1
  /\ at' = "load"
  /\ cfg' = [k \in Keys |-> NoNumber]
  /\ NoCycle
  /\ cache' = <<>>
  /\ UNCHANGED portal

Thread ==
  \/ LoadSettings \/ LoadDefaults \/ LoadRaises
  \/ (\E n \in 0..MaxDevices : ListDevices(n)) \/ ListFails
  \/ SizeRaises \/ NoBatch \/ FetchBatch \/ PauseEnds \/ PauseRaises
  \/ StoreResult \/ Publish \/ SleepEnds \/ SleepRaises

Init ==
  /\ stored = [k \in Keys |-> Absent]
  /\ env \in {e \in [Keys -> UNION {EnvTexts[k] : k \in Keys}] :
                \A k \in Keys : /\ e[k] \in EnvTexts[k]
                                /\ e[k] = Absent \/ Number(k, e[k]) # NoNumber}
  /\ supabase \in Clients
  /\ at = "load"
  /\ cfg = [k \in Keys |-> NoNumber]
  /\ listed = 0 /\ start = 0 /\ requested = <<>> /\ cache = <<>>
  /\ saves = 0 /\ restarts = 0

Next == Thread \/ Restart \/ \E form \in Forms : SaveSettings(form)

Spec == Init /\ [][Next]_vars

(* The thread runs; the database answers again and again.                  *)
FairSpec == Spec /\ WF_vars(Thread) /\ SF_vars(LoadSettings)

-----------------------------------------------------------------------------
(* A saved text is one the middleware can cast.                            *)
TypeOK ==
  /\ stored \in [Keys -> Texts]
  /\ \A k \in Keys : stored[k] = Absent \/ Number(k, stored[k]) # NoNumber
  /\ env \in [Keys -> Texts] /\ supabase \in Clients
  /\ at \in {"load", "list", "batch", "pause", "store", "publish", "sleep", "dead"}
  /\ cfg \in [Keys -> Int \cup {NaN, NoNumber}]
  /\ listed \in 0..MaxDevices /\ start \in Nat
  /\ requested \in Seq(1..MaxDevices) /\ cache \in Seq(1..MaxDevices)
  /\ saves \in 0..MaxSaves /\ restarts \in 0..MaxRestarts

(* A cycle that stores a result has requested every tracker of the list    *)
(* once, whatever batch size an admin has chosen meanwhile                 *)
(* (location_fetcher.py:143-157).                                          *)
AllRequested ==
  [][Go("store", "publish") /\ cfg.location_batch_size > 0
       => cache' = Devices]_vars

(* The environment's interval is one the thread can sleep for, and its     *)
(* keys of the database are not malformed.                                 *)
EnvSleeps == Sleeps(EnvDefault("poll_interval"))
EnvUsable == EnvSleeps /\ supabase # "raises"

(* "Falls back to env/hardcoded defaults when a key is absent or Supabase  *)
(* is unconfigured/unreachable, so the middleware keeps running either     *)
(* way" (settings.py:3-4): nothing that is saved in the portal and nothing *)
(* that fails in a cycle ends polling (middleware.py:100-121).             *)
KeepsPolling == EnvUsable => []<>(at = "load")

(* "Middleware knobs are re-read at the start of every poll cycle": once   *)
(* saved, cycles run with the values the page shows, though "the two       *)
(* services don't share code" (settings.py:6-7) and the database may be    *)
(* away in between.                                                        *)
SavedIsUsed ==
  EnvSleeps /\ supabase = "works" =>
    []<>(\A k \in Keys : stored[k] # Absent => cfg[k] = Shown(k))
=============================================================================
