# Formal models of the GoogleFindMyTools integration

TLA+ models of the program in `src/`: a middleware that polls Google's Find Hub for the
positions of trackers, the MQTT pipeline that stores them, and the portal that manages trackers
and orders. TLC checks each model on a small instance; TLAPS proves the safety of all of them
for every value of their constants.

Check a module with `tlc -config <M>.cfg <module>`, prove one with `tlapm <M>_proofs.tla`.
`PROJECT.json` lists the runs, the properties with a mutation of the code's behaviour that each
one catches, the source lines of every definition, the findings, the hazards and the theorems.

## The system

```
 Google Nova  <--requests--  location_fetcher  <--  polling thread (middleware.py)
      |                          ^     threads of a pool, a batch at a time
      v                          | callbacks                      | publish, QoS 1, retained
 FCM push server --MCS/TLS--> FcmPushClient (asyncio)          MQTT broker
                                 ^ start/replace                  |
                              FcmReceiver (singleton)             v
                                 ^ credentials                subscriber.py --upsert--> Postgres
                              token_cache, fcmregister                            (PostgREST)
                              secrets.json                                            ^
                                                     portal (webapp/): orders, trackers, settings
```

The middleware is one gunicorn process with four threads and one polling thread. The portal is a
Flask application, one synchronous worker in the deployment of `Dockerfile.webapp`, threaded with
`app.run`. `/devicelist` of the middleware asks Google live; `/devices` returns the last poll.

| component (source) | state | operations | what is hard | correct when |
|---|---|---|---|---|
| FCM push client (`libs/Auth/firebase_messaging/fcmpushclient.py`) | run state, two asyncio tasks, a TLS connection, persistent ids, error counters | start, stop, dial with retries, log in, read, acknowledge, heartbeat, reset | both tasks reset the connection; cancellation in the middle of a dial; lost acks | a push is handled once; STARTED means a live session; it serves or gives up; termination is final; no socket is left |
| FCM receiver (`libs/Auth/fcm_receiver.py`) | the one client, `_listening`, credentials, callback list, `_start_lock` | register, unregister, start, replace, dispatch a push | double-checked locking over a client that dies by itself; an unlocked path without credentials | a client is started once, replaced only when dead, and replaced when dead |
| Location fetching (`runtime/location_fetcher.py`) | one request per tracker and cycle, batches, callbacks | request, wait with a timeout, decrypt, sleep | one push channel for all threads; late, repeated, foreign answers; exceptions on pool threads | a tracker gets its own fresh answer or none; the cap holds; polling goes on |
| MQTT pipeline (`runtime/middleware.py`, `runtime/subscriber.py`, `db/schema.sql`) | client queues, retained messages, table `device_locations` | poll, publish, forward, upsert, view | lost connections at each hop, repeats, old fixes after new ones | one row per fix; the shown position never goes back; the newest arrives |
| Token cache (`libs/Auth/token_cache.py`) | `secrets.json`, its temporary file | get, get or set, set | read-modify-replace by several threads, crashes | the file can always be read; no key is lost |
| FCM registration (`libs/Auth/firebase_messaging/fcmregister.py`) | credentials, tries | check in, GCM registration, installation, FCM registration | four requests with retries of their own, failing half way | an attempt ends; what is in use is what is stored |
| Google tokens, owner key, username (`libs/Auth/*_retrieval.py`, `get_owner_key.py`) | a cached value each | get or generate | concurrent generation | as the token cache |
| Orders (`webapp/blueprints/orders.py`) | orders, assignments | new, edit, release, assign, remove | several database calls without a transaction, stale pages | closing releases the trackers; statuses follow `VALID_TRANSITIONS` |
| Trackers (`webapp/blueprints/trackers.py`, `webapp/pagination.py`) | rows | new, edit, delete, sync with Google, list by pages | rows matched by serial or by name; a sync that dies half way and runs again; pages without a count | one row per device, current after a sync; the pages reach every row |
| Customers, sessions, dashboard, Grafana proxy (`webapp/blueprints/`) | rows; a signed cookie | forms, queries, forwarding | `login_id` is checked, then written | the unique index decides |
| Settings and polling (`webapp/settings_store.py`, `runtime/settings.py`, `runtime/middleware.py`) | table `app_settings`; the loop, its cache | save, cast, range check, default; list, request, store, publish, sleep | two services with specs of their own; values that make the polling thread raise; a database that is away | polling goes on; a saved value is used; a result covers every tracker |
| Decryption, key backup, protocol buffers, browser logins, firmware (`libs/`, `esp/`) | none kept | pure functions, interactive flows | cryptography; `exit` in a library | out of reach, see below |

## Modules

| module | stands for | uses |
|---|---|---|
| `PushClient` | what a push client promises: it serves or terminates, and stays terminated | |
| `FcmClient` | `FcmPushClient` | shown to implement `PushClient` |
| `FcmReceiver` | `FcmReceiver`, its threads and the clients it builds; clients follow the steps of `PushClient` | |
| `LocationRequests` | what fetching promises: each request is made once and returns once, with its own answer or none | |
| `LocationFetch` | `fetch_all_locations`, `fetch_locations_for_device`, `_on_notification` | shown to implement `LocationRequests` |
| `Orders`, `MCOrders` | the handlers that change orders and assignments | |
| `Pipeline` | from a poll to `latest_device_locations` | |
| `TokenCache` | `set_cached_value` and `get_cached_value`, step by step | |
| `Credentials` | values that are generated and cached, FCM registration, restarts | extends `TokenCache` |
| `Trackers` | the tracker table and its sync | |
| `TrackerList`, `MCTrackers` | the pages of the list | extends `Trackers` |
| `Polling`, `MCPolling` | the settings of the portal and the polling thread that uses them | what happens inside a batch is `LocationFetch`, what becomes of a published fix `Pipeline` |
| `FcmClient_proofs`, `FcmReceiver_proofs`, `LocationFetch_proofs`, `Orders_proofs`, `Pipeline_proofs`, `Credentials_proofs`, `Trackers_proofs`, `Polling_proofs` | theorems | extend the module they are about (`Trackers_proofs`: `Trackers` and `TrackerList`) |

### How they follow the code

**FcmClient.** `lpc` and `mpc` say at which `await` the listen and the monitor task are suspended;
an action is the code from one suspension to the next. Dialing is shared by both tasks
(`_connect_with_retry`, reached from `_listen` and from `_reset`), so `dialer` says which of the
two is inside and `step` where. `reset_lock` is `locked`. The peer's side (`session`, `sent`,
`pending`) is external: it answers logins, pushes until acknowledged, pings, closes, breaks the
connection or silently forgets it. `spinning` marks a task that runs on without suspending, which
in asyncio keeps every other task from running; `CancelledError` is delivered at the next await.
`last_message_time` is abstracted to whether it is older than the heartbeat interval (`stale`).
`Start` happens once: `start()` has no guard of its own, that its caller runs it once per client is
`NeverStartedTwice` of `FcmReceiver`. The callback returns; one that raises is logged and counted as
NOTIFY (`fcmpushclient.py:479-481`), which without an abort limit, as `FcmReceiver` sets it, has no effect.

**FcmReceiver.** Each thread's `at` walks through `register_for_location_updates` and
`_ensure_listening`; reads of `_listening` and of the client's `run_state` are steps of their own
because no lock protects them. `get_android_id` starts the listener without the lock when there
are no credentials. `start()` is scheduled on another thread's loop (`due`) and runs later
(`starts`). Clients terminate by themselves at any moment.

**LocationFetch.** A request is a device and a poll cycle (`Req`); a push carries the request it
answers. `current` and `left` are the snapshot of the callback list `_on_notification` walks
through, so a callback may be unregistered between the snapshot and its call. A request may raise after
Google accepted it (`SendRaises`, a lost reply) and be answered later. With `token` FALSE the stored
registration holds no token and reading it raises (`fcm_receiver.py:112`).

**Orders.** A request is a list of PostgREST calls; other workers' calls come between them, and a
request may die after any. Opening a page is one step (the reads of a page change nothing); what
it offers may be stale when its form is posted. The confirm page of a release is taken together
with the redirect that leads to it. `late` is the set of assignments
made while a request that has read what it acts on was still to write: a release before its status, a
deletion after its check. An assignment to an order that is already closed is not late.

**Pipeline.** A fix is a device and its time; coordinates and the rest follow. `batch` is what a poll
has still to publish: for each device that was answered the sequence of its fixes. `sent` splits the
publisher's queue into messages that are on the connection and those that are not yet; a
reconnect repeats every unacknowledged one. The subscriber has a clean session. Of Google it is assumed
that an answer has the newest fix, and has it last: the code publishes the list in the order it came.
Trackers have different names, for a name is the topic.

**TokenCache, Credentials.** Values are version numbers: a registration that follows another has
the next one. The temporary file has one name, a thread keeps writing to the file it opened under
whatever name that has by then (`open`), and a file written by two is either one text or damaged
(`WrittenOver`). A write that fails with an `OSError`, on a full disk say, is left out; a listener that
starts with cached credentials (`fcm_receiver.py:226-233`) stores nothing and is in `FcmReceiver`.
What generating another value takes is one step, nested generators (`aas_token`
stores the username, `owner_key` needs `shared_key`) included.

**Trackers.** A device is a name and a serial number. A sync takes its list, reads the table once
(`seen`, with the two dictionaries it builds) and then writes row by row; devices are taken in any
order. That a tracker an order holds is not deleted is part of `Orders`.

**TrackerList.** A page is cut out of the sorted table by its number and size, both clamped as
`parse_page` does, and `build_pagination` offers Next when the page came back full. `Walk` is the pages
up to one, `Linked` that Next leads through them and ends there, `Places` where on them a row is shown.
Other lists use the same two functions.

**Polling.** A text (in a form, in `app_settings`, in the environment) is a pair of the way it is
written and its number, because `int("2.0")` raises where `float("2.0")` does not, and `str` writes
what the other service will cast. `Cast` is the portal's, with ranges, `Loaded` the middleware's,
without. The thread's `cfg` is its local of that name: a save in the middle of a cycle changes the
next one. `supabase` is what `_get_supabase` makes of the two keys of the database: no client because they
are not set, one that works, or an exception, of the import or of `create_client` for a malformed key.
The thread can die in two steps, both outside the `try` of the loop: `LoadRaises`, when making the client
raises (`settings.py:34`, called at `:57` before the `try` there, from `middleware.py:104`), and
`SleepRaises`, when the interval is negative, nan or more than `time.sleep` takes (`MaxSleep`,
`middleware.py:121`). `PauseRaises` is the same inside the `try`. In the deployment the portal's
environment has none of the keys (`docker-compose.yml`, `fly.webapp.toml`), so what the page shows
for a key that was never saved is the hard-coded default.

## Runs

| run | properties | what it shows |
|---|---|---|
| `client` | `TypeOK`, `StartedOnLiveSession`, `HandledAtMostOnce`, `NoConnectionLeaked`, `TerminationIsFinal`, `ServesOrGivesUp`, `SilenceIsNoticed` | the push client over connections that break, refuse and go silent, with a message it cannot decode, at the library's default abort limit: safety, and it implements `PushClient` with its liveness |
| `receiver` | `TypeOK`, `NeverStartedTwice`, `OnlyDeadReplaced`, `RegisteredOnStarted`, `DeadClientReplaced`, `RegistrationCompletes` | three threads register while clients die, with and without cached credentials; no deadlock |
| `fetch` | `TypeOK`, `OwnAnswerOnly`, `NoDeadCallbacks`, `RateLimited`, `RequestsResolve` | two poll cycles over changing device lists, answers late, repeated or missing; it implements `LocationRequests` |
| `orders` | `TypeOK`, `CompletedWasActive`, `ClosingLeavesOnlyLate`, `DeletedWasFree` | four requests from two tabs over two workers, dying anywhere |
| `pipeline` | `TypeOK`, `OneRowPerFix`, `ShownNeverGoesBack`, `RetainedArrives`, `LatestArrives` | three fixes, two faults of any kind |
| `credentials` | `TypeOK`, `NothingForgotten`, `MemoryIsOnDisk`, `AttemptsEnd` | two threads register and store values over failures and restarts |
| `trackers` | `TypeOK`, `OneRowPerSerial`, `SyncMakesCurrent`, `LegacyAdopted`, `ListReachesAll` | syncs of two workers, edits by hand, a changing account; the pages of every table on the way |
| `polling` | `TypeOK`, `AllRequested`, `KeepsPolling`, `SavedIsUsed` | forms of every kind saved or refused while the thread runs over failing cycles, a restart, a database that is away or has no client, and an environment with odd values |
| `client_start_outage` | `DeadClientSaysSo` (violated) | finding 1 |
| `client_no_abort` | `ResetsEnd` (violated) | finding 2 |
| `fetch_exit` | `PollsOnALoop` (violated) | finding 3 |
| `cache_two_writers` | `WritesAreAtomic` (violated) | finding 4 |

Some properties have a premise, each for a reason in the code:

* The receiver's single start and replacement are stated for *cached credentials*. Without them
  `get_android_id` (`fcm_receiver.py:152-157`) starts the listener outside `_start_lock`, and a
  client can be started twice. On a first boot the polling thread and a `/devicelist` request can meet
  there.
* `NoDeadCallbacks` is stated for credentials *with a token*. `fcm_register` returns `None` when it
  is out of tries, and the result is stored all the same (`Credentials` has it: `tokenless`); each
  request then leaves a callback behind, because reading the token comes after the append and before
  the `try` (`fcm_receiver.py:112`).
* `NothingForgotten` and `MemoryIsOnDisk` are stated for writes that do not *overlap*; finding 4 is
  what happens when they do.
* `SilenceIsNoticed` excludes a monitor that has ended with an exception of `_send_heartbeat`
  (`fcmpushclient.py:561`); after that nothing notices silence.
* `SilentLogin = FALSE`: a login has no timeout, and the monitor acts only in STARTED. A peer
  that goes silent between the login request and its answer leaves the client waiting for ever.
* `ClosingLeavesOnlyLate`, `DeletedWasFree`, and the properties of `Trackers` except requests that
  found the database changed under them: nothing in the code or in the schema joins the calls of a
  request. What is assigned between the check of a deletion and the deletion disappears with it.
* `KeepsPolling` is stated for an environment whose `POLL_INTERVAL` can be slept for and whose
  `SUPABASE_URL` and key, if set, make a client (`EnvUsable`), `SavedIsUsed` for one with a client that works,
  and both for trackers that can be decrypted (finding 3). Without the premise "so the middleware keeps
  running either way" (`settings.py:3-4`) is false of the code: a malformed key ends the thread in its
  first load. `SavedIsUsed` is about saved keys.
* `ListReachesAll` is about the list without `?filter=stale`, in one order for the whole walk, and with
  fewer rows than `MaxPage` (10**6): page numbers are cut there, and the last Next would lead to its own page.

### Bounds

| bound | value | why it is enough |
|---|---|---|
| `RetryCount`, outages | 2 tries, outages of 1 and 2 | a dial that succeeds at once, after a failure, and one that runs out |
| `MsgIds` | a good and a bad message | a repeat needs one message; its neighbour ends the client |
| `Abort` | 3 (library default), 0 for `None` | the counter at its limit; the value `FcmReceiver` sets |
| receiver: threads, `MaxClients` | 3, 2 | two threads race while a third is registered or unlocked; one replacement. The theorems cover every number |
| fetch: devices, `BatchSize`, `MaxCycles` | 3, 2, 2 | a full batch followed by a rest, and answers of the cycle before. The theorems cover every number |
| orders: `MaxPosts`, tabs, workers | 4, 2, 2 | open, close, assign and delete each from a stale page while the other worker is half way. The theorems cover every number |
| pipeline: `MaxTime`, `MaxFaults`, queues | 3, 2, 2 | an old fix between two new ones; a fault during the repair of another. Devices have topics and rows of their own, so one is enough |
| credentials: threads, names, `Retries`, `MaxCalls` | 2, 2, 2, 4 | a write between the steps of another, a restart and a retry after both, a key to lose |
| trackers: names, serials, rows, `MaxPosts` | 2, 2, 3, 4 | two devices of one name, a row without a serial beside them; a sync that dies and runs again after a change |
| list: page sizes up to 2, pages up to 9 | sizes asked for 0 to 3 and none | three rows in pages of one and of two: a full and a short last page |
| polling: `MaxSleep` | 3 | an interval below, inside and above what can be slept for |
| polling: trackers, saves, restarts | 3, 2, 1 | a full batch and a rest, or three; a save during a cycle and one after it |
| polling: ranges | two values each, texts from below to above, fractions, nan, junk | each key at, inside and outside both ends. The theorems cover every range and number |

`CHECK_DEADLOCK FALSE` stands where the model stops for good: a client that has terminated, a
last poll cycle, a bound on requests or faults reached. The receiver's run checks for deadlock.

### Fairness

* Client: the event loop runs every task that is ready, time passes, and a peer answers a login on
  a connection that stays up. A connection may break at any time.
* Receiver: a thread in the middle of a call goes on, requests come back because their wait has a
  timeout, the polling loop asks again, and a scheduled `start()` runs.
* Fetching: the polling thread and the pool run. Nothing is assumed of Google or of the push
  channel: `answer_event.wait` has a timeout.
* Pipeline: each hop goes on while it can; paho's loops reconnect by themselves. `LatestArrives`
  further assumes that Google answers again and again for the tracker.
* Credentials: a thread goes on with its call. The requests of a registration have a timeout
  (`fcmregister.py:97`); those of `gpsoauth` and of `nova_request.py:29` have none, and are assumed to
  return or raise, here and in Fetching and Polling. No outcome is assumed.
* Polling: the thread runs. `SavedIsUsed` needs the database to answer again and again (the strong
  fairness of `LoadSettings`); `KeepsPolling` does not.

No fairness is assumed of the portal: orders and trackers have safety properties only.

## Findings

1. *A client that never connects looks alive.* After the last try of the first connect `_listen`
   returns without terminating (`fcmpushclient.py:698`); `run_state` stays
   `STARTING_CONNECTION`, and `_client_terminated`, which trusts STOPPING/STOPPED
   (`fcm_receiver.py:83-84`), never replaces it. (`client_start_outage`)
2. *"None = keep resetting" stops resetting.* While the monitor holds `reset_lock` in `_reset` and
   redials, the end of the old stream sends `_listen` round a loop without a suspension
   (`fcmpushclient.py:711-740`), which starves the event loop, the redial included. With an abort limit the loop ends by it. (`client_no_abort`)
3. *An undecryptable tracker ends polling.* `exit(1)` on a pool thread
   (`decrypt_locations.py:62,65`) is re-raised by `result()` and passes every `except Exception`.
   (`fetch_exit`)
4. *Two writers damage `secrets.json`.* One temporary name for every thread
   (`token_cache.py:54-59`): what one is about to rename into place the other has just emptied.
   (`cache_two_writers`)

One more disagreement is not a run of `PROJECT.json`, but has a configuration of its own:

* *A closed order can be given trackers.* "Once an order reaches **completed** or **cancelled** it is
  *closed* (no further edits)" (`DEPLOYMENT.md:420-421`), and its page says that it "can no longer be
  modified" (`templates/orders/detail.html:57`). Only the page keeps to that: `assign_tracker`
  (`orders.py:278-310`) never reads the status. A tab opens the order, another closes it, the first assigns:
  one worker is enough, nothing overlaps, and the page of the closed order offers no way to release the tracker.
  `tlc -config OrdersStalePage.cfg Orders.tla` finds `ClosedGainsNothing` violated that way;
  `OnlyStalePagesAdd` proves that without a page from before the closing it holds.

Further known limits:

* Two pages that offer the same free tracker can both assign it; the schema has no constraint.
* With more than one worker `edit_order` reopens a closed order (`orders.py:214`), as it writes a status it
  decided on before, against the same sentence of `DEPLOYMENT.md`; with the one worker of its deployment
  it cannot (`ClosedStaysClosed`).
* With `?filter=stale` the rows are filtered before `build_pagination` counts them
  (`trackers.py:107-116`): a page with fresh trackers in it offers no Next.
* A `location_batch_delay` of nan passes the range check (`settings_store.py:47`): polling survives it,
  but every cycle of more than one batch fails in its first pause and stores nothing.
* For a key that was never saved, the page shows the portal's default and the middleware uses that of
  its own environment; the comment at `settings_store.py:6-9` takes the two for the same.
* The list is sorted by name only (`trackers.py:60,71`): rows of one name may change places between two
  pages.

## Proofs

For every value of the constants, from the named assumptions of the modules (`...Assumption`) and
nothing else:

* **FcmReceiver_proofs.** `TypeCorrect`, `MutualExclusion`, `StartedOnce`, `ReplacedWhenDead`,
  `RegisteredRelyOnStarted`, `CredentialsComeFirst`. The properties are not inductive: that a
  client is not started twice rests on what a thread inside the lock still knows of its check. `IInv`
  adds who holds the lock (`LockHeld`), that `_listening` implies a scheduled start unless the
  thread in the lock is about to take it back (`ListeningMeansTold`), that nobody is on the
  unlocked path with cached credentials (`NobodyUnlocked`), which clients exist (`ClientShape`) and
  that a thread in the lock still finds what it found (`LockedView`).
* **LocationFetch_proofs.** `TypeCorrect`, `AnswersAreOwn`, `WaitersListen`, `CallbacksAreLive`,
  `RateIsLimited`, `Refinement`. That a waiting thread has its callback in the list
  (`WaitersListen`) follows from `Registered`. `IInv` adds that `result` holds only one's own answer (`OwnResult`), the shape
  of a batch (`BatchShape`, `BatchBounded`), that a callback is in the list from registering to
  unregistering (`Registered`), that requests to come are idle (`Fresh`), and that the open requests
  are those of the batch (`OpenInBatch`); the cap follows by the cardinality of an image. `Refinement`
  maps each step to a step of `LocationRequests` or a stutter.
* **Orders_proofs.** `TypeCorrect`, `ClosingReleases`, `CompletionFollowsActivity`,
  `DeletionChecks`, `ClosedStaysClosed`, `OnlyStalePagesAdd`. `IInv` adds what each request has established by its next
  call (`JobsKnow`: before `Flip` what the order holds is late, before `DeleteRow` what the tracker
  is assigned by is) and that activity was noted (`ActiveNoted`). `ClosedStaysClosed` has one worker
  as its assumption and adds that nothing changed an order under a request (`Undisturbed`); with two it is
  false. `OnlyStalePagesAdd` assumes that no tab shows an order that was closed since (`FreshPages`).
* **Polling_proofs.** `TypeCorrect`, `EveryTrackerRequested`, `NeverDies`, `ServicesAgree`, for any
  ranges, texts, number of trackers and of saves. `IInv` adds that what is stored is in the range of its key or
  nan (`StoredInRange`, from `StrOfCast`: what is written is read as what was cast), that a cycle that
  has begun has a batch size and an interval to sleep for (`CycleSized`, `CycleSleeps`), and that
  what was requested so far is the list up to `start` (`RequestedSoFar`, with `BatchJoins` about the
  slices). `NeverDies`, with the premise `EnvUsable`, is the
  safety core of `KeepsPolling`, `ServicesAgree` that of `SavedIsUsed`.

* **FcmClient_proofs.** `TypeCorrect`, `StartedIsLive`, `PushesHandledOnce`, `NothingLeaks`,
  `Refinement`, `TerminationFinal`, for any retries, outages, abort limit and messages. None of the
  properties is inductive. `IInv` adds where the tasks can be together (who is dialing, where it is
  suspended and what the other may be doing meanwhile, when `reset_lock` is held), which connection
  the reader and the writer belong to at each of these places, and which of a message's stages
  (pending, pushed on this connection, in the buffer, in `persistent_ids`) exclude one another: a
  message that was handled is not pushed again before a login that carried its id was answered.
  `Refinement` maps each step to a step of `PushClient` or a stutter. It assumes that no message id
  is the name of a control message (`MsgIds \cap Controls = {}`), which only keeps the two apart in the model.
* **Pipeline_proofs.** `TypeCorrect`, `OneRow`, `NeverBack`, `OnlyReportedShown`, `RetainedReaches`,
  for any devices, times, queues and number of faults. `IInv` adds that whatever is on its way
  anywhere (in a batch, a queue, retained, in the subscriber's inbox, in a row) is a fix that was reported
  (`Held`, `RowsHeld`), that the rows of a device have a newest (`HasNewest`), and that what the broker
  retains has reached a subscribed subscriber or is before it (`RetainedOnItsWay`). `NeverBack` is that
  rows only get more. It assumes finitely many devices.
* **Credentials_proofs.** `TypeCorrect`, `NothingLost`, `MemoryOnDisk`, `OneWriterIsAtomic`, for any
  threads, names and tries. `IInv` adds that, as long as calls do not overlap, one thread is inside
  (`Alone`), knows what is in both files (`KnowsFiles`) and stores nothing older than what is there
  (`Newer`), and that the file is whole and not ahead of the receiver (`Intact`); whatever overlaps, a
  registration in a file or in use was made (`Issued`) and the FCM entry is never generated
  (`Generating`). `OneWriterIsAtomic` gives the exact condition of finding 4: the file is damaged only
  after two threads were inside `set_cached_value` at once, however often the process died.
* **Trackers_proofs.** `TypeCorrect`, `OneRow`, `MakesCurrent`, `Adopted`, for any names, serials,
  rows, workers and requests. `IInv` adds that a list has a device once and a sync works through its own
  list (`Listed`), and, for a sync with the table to itself (`Undisturbed`), that its dictionaries are
  those of the table it read but for the legacy rows used up (`Matched`), that a row is as it was read or
  belongs to a device that was handled (`Written`), that every device that was handled has its row (`Current`),
  and which legacy rows are left (`Adopting`). `ListReached` needs no invariant: a row's number, divided
  by the page size, is its page and position (`Divided`, `Grid`), a page shows the rows of its range
  (`PageShown`), so Next leads to the last page and every row has one place on the way (`PagesReach`). It
  assumes that the table is finite.

Every safety invariant of the runs, and every action property, is proved. Only model-checked: the
liveness properties (`ServesOrGivesUp`, `SilenceIsNoticed`, `DeadClientReplaced`,
`RegistrationCompletes`, `RequestsResolve`, `RetainedArrives`, `LatestArrives`, `AttemptsEnd`,
`KeepsPolling`, `SavedIsUsed`), the fairness part of the two refinements among them, which are outside the
prover's reach; their safety cores are theorems (`Refinement`, `WaitersListen`, `RetainedReaches`,
`NeverDies`, `ServicesAgree`). Recursion over data was avoided where something is proved: the pages
of a list are a function of their number, and `Places` stands for their concatenation.

## Plan

In order of importance; the modules are written.

1. `PushClient`, `FcmClient`: the connection everything depends on. *Done, proved.*
2. `FcmReceiver`: who starts and replaces it. *Done, proved.*
3. `LocationRequests`, `LocationFetch`: requests over one push channel. *Done, proved.*
4. `Orders`: handlers of several calls. *Done, proved.*
5. `Pipeline`: from a fix to the screen. *Done, proved.*
6. `TokenCache`, `Credentials`: what a restart finds. *Done, proved.*
7. `Trackers`, `TrackerList`: the sync and the list. *Done, proved.*
8. `Polling`: the loop and its settings. *Done, proved.*
9. Still to prove: safety cores of the other liveness properties, as far as they have one: what a
   thread of the receiver waits for is scheduled or there (`RegistrationCompletes`), a dead client is
   noticed by the next registration (`DeadClientReplaced`), a registration is out of tries in
   finitely many steps (`AttemptsEnd`).

## Not modelled

* Cryptography (`FMDNCrypto`, `KeyBackup`, `http_ece`), the browser logins, the generated protocol
  buffers and the firmware: without state of their own, interactive, or generated.
* Sessions, the dashboard, the Grafana proxy, tracker notes: they read, forward or insert one row.
* Customers: each handler writes one row once. `login_id` is checked and then written
  (`customers.py:90,105`), but whatever the check saw, the unique index of `schema.sql:32` decides, so
  the only effect of the race is a 500 instead of a message. The cascade of a deletion is in `Orders`.
* The first construction of the receiver: the pool threads come after `fetch_device_list` has built it,
  but a `/devicelist` request and the first poll after a start can meet in `__new__`
  (`fcm_receiver.py:24-32`). `FcmReceiver` begins with the object built.
* The settings `location_timeout`, handled as `poll_interval` is, and `tracker_stale_hours`, which only
  colours the list.
* The MCS packet format; the contents of the requests of a registration; wording and logging.
* `stop_listening` and `fcm_refresh_install_token`: nothing calls them.
* Two trackers of one name in `Pipeline`: they share a topic, and the broker retains the last message of
  either. Tracker names with `/`, `+` or `#`, which are part of an MQTT topic: `publish` raises for a
  wildcard and ends the loop over its batch, so the fixes behind it are not published in any cycle.
* The retry loop of `_register_for_fcm` in `FcmReceiver` matters only without cached credentials;
  its details are in `Credentials`.
* Quantity and notes of an order; several rows for one pair of order and tracker count as one.
