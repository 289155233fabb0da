# Kuyara: formal models

Kuyara is an app that suggests what to wear: an Expo app that keeps everything
on the phone, a Cloudflare Worker without a database of its own that answers
weather, place and AI requests, and, for people who sign in, a Supabase
database that keeps a copy of their records so that a second phone can show
them. The parts below are the ones in which several actors touch the same
state: phones and the account, transactions in the account database, calls of
one controller interleaved at every `await`, a sweep beside a save, an alarm
beside requests.

This directory holds TLA+ modules of those parts, configurations that check them
with TLC on small instances, and proofs that TLAPS checks for every instance.
Paths below are relative to the repository; `mobile/` is `apps/mobile/src/`.

## 1. The system

| Part | State it keeps | Operations | Talks to |
|---|---|---|---|
| Account pull (`mobile/features/account/data/supabase-account-remote.ts`, `domain/sync-rules.ts`) | one cursor per table: the latest `server_updated_at` seen | page through a table from the overlap on, advance the cursor | account database |
| Account record sync (`application/account-sync.ts`, `data/sqlite-account-rows-source.ts`, `domain/account-link.ts`, `account-merge.ts`, `sync-rules.ts`, `first-upload.ts`) | rows with a pending flag, `device_account_link` | ongoing pass, first link, joining again after a withdrawal, clearing flags | the feature repositories that write the same rows; the account database |
| Account database (`supabase/migrations/20261004120000_accounts.sql`, `20261005090000_account_hardening.sql`, `20261006120000_account_cap_locks.sql`, later migrations) | stored copies, consent records, advisory locks | upload under consent and caps, record consent, withdraw | every phone of the account |
| Session manager (`application/account-session.ts`, `account-session-sync.ts`, `account-lifecycle.ts`, `data/live-account-session.ts`) | identity, the open question, the pass in flight and the trailing one, unfinished deletion | sign-in, restore, foreground, sign-out, consent, deletion | auth client, Apple, sync, Worker |
| Wardrobe controller (`mobile/features/wardrobe/application/wardrobe-application-controller.ts`, its repository, its photo files, `mobile/domain/coalesced-run.ts`) | the shown list, the repository, the running save, refresh, reload and sweep | load, refresh, reload, save, photo clean-up, sweep | SQLite, file system, sync pulls |
| Recommendation controller, trigger coalescer, re-ask budget (`mobile/features/recommendation/`) | requests by context, the latest key, the daily budget file | refresh, skip the wait, ask again | Worker, SQLite |
| Weather controller and repository (`mobile/features/weather/`) | the active location, refreshes by location, a device lookup | select, refresh, reacquire, revalidate | Worker, device location |
| Weather alerts and briefing (`mobile/features/notifications/`) | the ledger of scheduled alerts, the queued input | reschedule, cancel, record, rewrite | the system's pending notifications, the background task's own scheduler |
| Profile controller, walkthrough, feedback, analytics | one row; a step; an episode | write, next/back, report | SQLite, Worker |
| Worker: daily counter and AI walk (`apps/worker/src/daily-counter.ts`, `ai/ai-handler.ts`) | one count per day and name (Durable Object) with its alarm | count, sweep, walk the providers | AI providers |
| Worker: account deletion (`account/account-delete-handler.ts`) | none between requests | verify, exchange Apple's code, revoke, delete | the phone, Supabase's auth server, Apple |
| Worker: token verifier (`account/supabase-token-verifier.ts`) | the key set of one isolate and the read in flight | verify, read the keys | Supabase |
| Worker: weather chain, places, feedback, app config | caches of answers | one request, one answer | providers |
| Recommendation rules, catalogue, garment art, theme, localization, contracts | none | pure functions and constant data | |

The hard behaviours, and what correctness means for each of the parts where
they live:

* *Pulls by time stamp.* A row is stamped when its transaction starts and is
  visible when it commits. Between two pages, and between two pulls, others
  commit. Correct: nothing the account holds falls behind the cursor.
* *Edits between any two requests.* A pass reads rows, asks the network and
  writes rows; the person edits the same rows meanwhile. Correct: no edit stops
  waiting before the account has it, and two settled copies agree.
* *Consent.* Three kinds of transaction from several phones race. Correct: no
  copy outlives a withdrawal; a phone notices that its copies were deleted;
  a cap is not passed by two uploads together; and nobody waits for a lock
  forever, although a withdrawal holds two.
* *Awaits in one thread.* A sign-out, a deletion, a launch and a sign-in each
  suspend and resume over state the others changed. Correct: no old session
  comes back, no pass runs during a deletion, no question waits unseen, nobody
  waits forever.
* *Files beside rows.* A photo is copied before a row names it and deleted after
  no row does; a sweep deletes what no row names. Correct: the photo of a piece
  is never taken away, leftovers go, and the list shows what is stored.
* *Requests that replace each other.* Today's refreshes are joined, superseded,
  skipped and queued behind one another while the settings change. Correct: when
  all is quiet, the outfit shown is stored and fits the settings in force.
* *The place in use.* Taps, Settings, the foreground's own lookup, refreshes and a
  background task race for one location and its weather. Correct: the last tap
  wins, weather never goes back, and no place is left blank.
* *Two schedulers, one list.* The app and the background task each cancel and plan
  again over the same pending notifications and the same ledger. Correct: the
  newest request is taken up, an opt-out stays silent, nothing announced comes
  again, and a run that gets through alone repairs what failures left.
* *Limits counted before use.* Requests count first and act afterwards, across
  midnight, beside the alarm that sweeps. Correct: no limit is passed, no count
  is lost early, none is kept for good.
* *A deletion across four parties.* Each call can fail, or succeed and lose its
  answer, and the request runs again beside its first copy. Correct: what the
  phone says of it is so.
* *Cached trust.* Requests share a read of the signing keys, and reads settle
  late. Correct: trust in a revoked key ends, a served key is recognised.

`PROJECT.json` lists the hazards of the code at the line where each bites, with
the properties that would catch it.

## 2. Modules

| Module | Models | Checked by | Proved in |
|---|---|---|---|
| `PullCursor` | one table of one account as one phone pulls it | `pull_cursor` | `AccountServiceProofs` |
| `AccountSync` | phones, accounts and the passes between them | `account_sync_pair`, `account_switch` | `AccountSyncProofs` |
| `AccountSwitch` | phones that change accounts (extends `AccountSync` with the rows its split writes tear) | `account_switch` | model-checked only |
| `AccountGate` | the account database's transactions of one account | `account_gate` | `AccountServiceProofs` |
| `ConsentLedger` | what that database promises: every operation one step | `account_gate` (`IsALedger`) | `AccountServiceProofs` |
| `AccountSession` | the session manager of one phone | `account_session` | `AccountSessionProofs` |
| `AccountErasure` | a deletion: phone, Worker, auth server, Apple | `account_erasure` | `AccountServiceProofs` |
| `Closet` | the wardrobe controller, its rows and its photo files | `closet` | `ClosetProofs` |
| `Recommendation` | Today's controller, its trigger coalescer, the re-ask budget | `recommendation` | `RecommendationProofs` |
| `Weather` | the weather controller, the stored snapshots, the background task | `weather` | `WeatherProofs` |
| `AlertSchedule` | the schedulers of the app and of the background task, the ledger, the pending notifications | `alert_schedule` | `AlertScheduleProofs` |
| `TokenKeys` | the key set of one Worker isolate | `token_keys` | `WorkerProofs` |
| `DailyCounter` | the counter objects with their alarms | `ai_requests` | `WorkerProofs` |
| `AiRequests` | the AI route's requests over those counters (extends `DailyCounter`) | `ai_requests` | `WorkerProofs` |

The modules split one system at the interfaces the code has. `AccountSync`
keeps "the rows that arrived past the cursor" and relies on what `PullCursor`
proves about the cursor; it keeps the consent records as atomic facts and relies
on what `AccountGate` proves about the transactions that write them; and it lets
a session end during a pass exactly when `AccountSession` does. `Closet` takes
the sync pulls as writes by somebody else. `AccountSession` has a deletion
answered in any of the ways `AccountErasure` produces, and `AccountErasure`
takes the manager's side of it step by step. A `MC…` module only names model
values, symmetry sets and sequences a configuration cannot write.

Two proof modules are about several components at once: `AccountServiceProofs`
about the parts that speak to Supabase (`AccountGate`, `PullCursor`,
`AccountErasure`), `WorkerProofs` about the Worker's (`AiRequests`, `TokenKeys`).
So that one module can extend them together, `PullCursor`, `TokenKeys` and
`AccountErasure` carry their component's name in what every module has
(`PullInit`, `PullNext`, `PullSpec`, `TokenTypeOK`, `ErasureFairSpec`), and the
other component of each proof module keeps the plain names.

### PullCursor

`stamp` is `server_updated_at`, `writer[w]` the start of an open transaction,
`cursor` the saved cursor (its order within one stamp is dropped, as
`pullCursorAt` drops it), `after` the key of the last row of a full page, `got`
the rows read. `BeginTxn`, `CommitTxn`, `AbortTxn` and `Tick` are the server's;
`Tick` stops at the statement limit (`MaxTxn`) and at the longest pull
(`MaxPull`). `StartPull`, `ReadPage`, `FinishPull` and `FailPull` follow
`pullFrom` and `readTable`. `ReaderChanged` is an app update with another
`pullReader`: rows that the earlier build read and could not keep count as unread
again, and the cursor reads as none; a build that kept the cursor would leave them
behind it. `unread` and `before` are history.

### AccountSync

A row is named by its identity (an id, or a day for choices and departures) and
its content is the number of its last local write. `Edit`, `Delete` and `Age`
happen between any two steps of a pass. `pass[p].step` says which request comes
next: `bare` (the link of an account without consent), `upload` and `confirm` (a
batch the account stores, and the flags cleared afterwards), `pull` and `land`,
`snapshot` and `apply` (a first link). `EndPass` ends a pass at any request, and
`StoreBatch` may store a batch whose answer never comes: what the account did is
kept. `SplitWrites` lets the phone's
writes of a pass be several transactions, as `clearPending…`, `writePulled` and
the first link are; `SplitSignOut` splits a sign-out's read of the link from its
save, as `live-account-session.ts:110-117` does. Both runs set both to TRUE; the
theorems hold for either value. Content conversion (`account-rows.ts`, `account-remote-mappers.ts`) is
abstracted: a version is carried unchanged, and its field-by-field mapping is
not modelled.

### AccountSwitch

`AccountSync` with one history variable, which no guard reads. `torn[p]` holds the
rows that a write of the phone settled for another account than the one its link
names: the rows of a first link until the link is saved with the last of them, and
every row when a sign-out saves the link it had read over one that a pass saved
meanwhile. A row leaves it when it waits to upload or is settled again, and all do
when a first link is complete. `MaxEvents` bounds writes and consent answers
together.

### AccountGate

`step[t]` is how far transaction `t` has come. An upload reads the consent on the
phone, begins, waits for the account's lock (shared), checks the consent again,
inserts, takes the cap lock, counts what it can see (read committed) and commits
or is refused. A withdrawal waits for the account's lock alone and inserts its
answer; an answer given is inserted with no lock held. The trigger of either insert
then takes the answers' lock (`kuyara.consent_records`, `LockAnswers`) and judges
the answer by its cap (`enforce_consent_record_cap`, `MayAnswer`): past the cap only
the withdrawal of a consent that is given lands. The withdrawal then deletes the
copies and commits. Each lock is held to the end of its transaction, so a withdrawal
holds two. The account's lock is granted in the order it was asked for.

`ConsentLedger` is the abstract specification: a stored set and a consent, an
upload, an answer or a withdrawal in one step each, an upload only under consent
and only within the cap. `IsALedger` maps `copies` to the committed rows and
`consent` to `has_sync_consent`: an upload takes effect when it commits, and so
do answers and withdrawals; locking, checking, deleting inside a transaction and
rolling back are stutters. What it says of two uploads at the cap and of an
upload beside a withdrawal is what a client may rely on.

### AccountSession

`call[c]` is a call of the manager that has not returned and where it waits.
What runs between two awaits is one action; `Resumes(c)` (a promise that
settled) goes before everything else, as the microtask queue does. `mgr` is the
closure's variables, `ui` the snapshot, `pass` the run of `runSync` with its
trailing one, `disk` what survives the process. Every call may begin and every
answer may come whenever the code lets it: the Account screen asks or withdraws
while a consent check is under way, writes are made during a deletion, and the
foreground's refresh may throw. Three constants say which of the world's behaviours
are allowed (answers out of turn, a stored session the launch cannot read, a mark
that outlives its session); the run leaves them FALSE (section 6 says what happens
otherwise).

`hist` is history. `writes` says of the local writes made signed in and online
whether one is still to be read (`due`), none is (`read`), or one was put off to the
next trigger (`late`): by a deletion in flight after it, or by a foreground that had
forgotten the waiting pass when its refresh failed (`PutOff`). `covered` says that an
answer or a withdrawal of the Account screen took the sign-in's question off the
sheet.

### Closet

`row` and `file` are the table and the photo directory, `ui` the controller's
state, `load`, `refresh`, `reload` and `save` where each of its operations
waits, `tidy[c]` the removal of pending photos that the load, the reload or a
deletion waits for. A list read is asked for, answered by the database and
landed in three steps; `initialize` and `refreshOnce` have the code's guards only,
and `Patient` says when the screens ask for them; `same` is "the mutation epoch has not moved", `older` and
`beaten` are the two tickets of `lands`. A write of a row commits and asks for a
reload in one step, because the commit notifies before anything else runs.
Update reads the piece twice, in the controller and in the repository; only
saves change the photo of a live piece and one save runs at a time, so the two
reads are one.

### AccountErasure

`req[q]` is one request at the Worker's delete route: `Verify` (the token, and
whether its session lives), the two reads, `Exchange` (Apple's code, spent once,
foreign when it belongs to another Apple ID), `Revoke`, `deleteAccount`, the
answer. `Decide` is what the route makes of the two reads. `phone` is the
session manager's deletion: re-authentication, the request, its one repetition
after a lost answer, the finishing request when Apple's revocation ended the
session. The Worker keeps nothing between requests, so the same attempt may run
twice at once. `trouble` bounds failures and losses; `past` is history.

### Recommendation

`req[r]` is a `PendingRefresh` and where it waits, `latest` the request of
`latestRequestKey`, `flight` and `trailing` the coalescer's evaluation and the
input queued behind it, `tracked` the re-ask whose answer others wait for (a number
until its request is prepared, then the request), `db`
the queue of statements SQLite answers in order. An evaluation waits for the re-ask
that was tracked when it began and for no other. An evaluation that can go on
does so before anything else. An outfit is a number and the signal it was chosen
for; `Answer…` may fail, and the file of the budget may fail to be written. Any
request in flight may be joined, and any setting may change and change back.

`missed` is history: an outfit that was not stored (`save`: the save failed, or a
request was joined that another's save came behind, or one skipped while another's
outfit was stored), something that was not asked for (`ask`: a refresh prepared
nothing, a skipped request for other settings was joined, or an evaluation found
nothing to ask for while a request beside it was for other settings), and whether the
latest request was joined behind another's save (`late`). An evaluation that asks, a
save that is shown and a launch clear what they make good.

### Weather

`call[c]` is a selection, a return from Settings or the foreground's own lookup
and where it waits, `trip` the tap `endSettingsTrip` ends, `check` a
revalidation between its read and its use, `refreshes` the places whose refresh
is in flight (one each), `disk` the stored location and the fetch time of each
place's snapshot. `call[c].behind` holds the calls whose lookups were asked for
before and wait as well: without `Overtakes` a lookup is answered when that set is
empty, however many wait. `Stores` is `replaceSnapshot` with its pruning, for the
controller and the background task alike.

### AlertSchedule

`run[s]` is a run of the app's scheduler or of the background task's and where it
waits, with the clock it read at its start (`now`), what it has yet to cancel
(`left`) or to hand over (`todo`) and what the system accepted (`scheduled`);
`queued` is `queuedInput`. `system` is what the operating system holds and
`ledger` the table of deliveries. `List`, `Cancel`, `Delete`, `Plan`, `Schedule`
and `Save` follow `run`; `Pending` and `Rewrite` follow `rewritePending`; `End`
is the loop of `runQueued`, which takes the queued input whether the run failed
or not. `Ask` is the observer's decision what to ask, part of every action that
re-renders it (`Switch`, `Activate`, `Refresh`, `ShowStored`). The task reads the
profile, waits, and plans from a snapshot that is stored or fetched
(`TaskProfile`, `TaskPlans`, `TaskFails`). `Tick` announces what is due. A
forecast is a function from identities to instants (`Comes`): quiet hours and the
swing rule only move such an instant. A notification is its identity and its
instant: its text is left out, so a run that may only write texts again does or
does not. `asked`, `heard`, `silent` and `calm` are history; `calm` says that the
last run got through with no other beside it.

### TokenKeys

`keys` with `loadedAt` is the cached set, dated at the *start* of its read;
`attemptedAt` paces reads; `inflight` names the read new callers share, `reads`
all reads that have not settled, dropped ones included; `life` and `moved` say
what Supabase serves and since when. `Publish` and `Revoke` are Supabase's.

### DailyCounter and AiRequests

`count[n][d]` is what counter object `n` stores for day `d`. `Increment` is one
step because the object's input gate makes it one, and its `setAlarm` may fail and
be caught; the alarm's handler is several, with requests between them. `unset[n]` is
history: a `setAlarm` of `n` failed after an increment and none has succeeded since. A request of `AiRequests` takes its day's
key, counts, and learns the answer, a failure, or a failure after counting;
`WalksOn` goes to the next provider of the walk and leaves all Workers AI models
out once their pool is spent. Midnight waits for no request longer than the walk
may last: a key is at most a day old.

## 3. What the runs check

Every property has a mutant: a definition changed the way a plausible bug would
change the code, under which TLC finds the property violated. The mutants stand
in the modules, before the definition they change. `Consistent` collects a
module's type invariant and the facts that relate its parts; its parts have
mutants of their own.

| Run | Bounds | What it shows |
|---|---|---|
| `pull_cursor` | two rows, two writers, one row a page, clock to 5, `MaxTxn` 2, `MaxPull` 1, `Overlap` 3 | `NothingMissed`, `PullComplete`, `EventuallyRead`, app updates with another reader between pulls included. Two pages of one row each are enough for a row to move between pages and for a stamp to be shared by two rows; two writers for a late commit behind an early one; the clock passes the overlap |
| `account_sync_pair` | two phones, one account, one row of each identity, two writes, one consent, all write splits on | `TypeOK`, `SettledAgrees`, `EditsReachAccount`. Two versions are enough for an edit to race its own upload and for each phone to write the same day |
| `account_switch` | one phone, two accounts, one row named by an id, two versions, three consent answers, four of both together, all write splits and split sign-outs | `OnlyTornApart` when a phone moves from one account to another and back, in the middle of a pass, of a first link's writes and of a sign-out too; `SwitchConverges`, over joining again after a consent given, withdrawn and given again. Two versions tell an account's copy from the phone's, the third answer is the one given again |
| `account_gate` | three uploads, two withdrawals, one answer, caps of 1 row and 1 answer | `JoinedCopiesKept`, `EveryoneEnds` and `IsALedger`, the refinement of `ConsentLedger`. Three uploads are two that hold the lock and one that waits behind a withdrawal; with cap 1 two uploads race for the last place; with one answer the withdrawals are judged past the answers' cap, where one may be refused while it holds the account's lock. Two of each, with two answers to the cap, hold as well |
| `account_session` | two calls, two users, the pass, the process's end | `Consistent` (`DeletionAlone`, `StoredIsIdentity`), `QuestionVisible`, `WritesServed`, `NoStandstill`, `StepsInOrder`, with the exceptions `hist` records. Every hazard listed needs two calls, the third actor being the pass |
| `account_erasure` | two requests at the Worker at once, two attempts, three failures or losses | `ToldWhatIsSo`, `OnlyLiveSessionDeletes`, `DeletionEnds`, `Consistent` (`OtherGrantKept`, `NotLeftBehind`). Two requests are a lost one and its repetition; three troubles a lost answer, a failed call and something done elsewhere |
| `closet` | one piece, two writes of its row, one photo copy, any number of failures and process ends | `PhotosMatch` (`PhotosKept`, `NothingLeftBehind`), `ShowsWhatIsStored`, `NoStandstill`, `Consistent` (`BusyShown`). A save acts on one piece; two writes are a save and a pull, or a creation and what replaces or deletes it; the one photo is the one a sweep, an undo, a drop or a clean-up may take |
| `recommendation` | two signals, two requests in flight, one re-ask a day, three outfits, two changes | `RestsRight` (`FitsTheSettings`, `ShowsWhatIsStored`), `AllowanceHeld`, `Consistent` (`BusyShown`, `NobodyLeftWaiting`). Two changes are a change and its return, or a change and a re-ask; a request is superseded or joined by the other. What `missed` records is excepted |
| `weather` | two places the device finds, one picked by name, two calls, clock to 2, `Window` 0 | `NeverBack`, `LastTapWins`, `Consistent` (`OneSelection`, `FreshIsOwn`, `RefreshShown`, `NeverLeftBlank`, `TripEnds`). Two calls are a tap and the return or the foreground that races it; with `Window` 0 weather is stale one tick later |
| `alert_schedule` | one alert and the briefing, two forecasts, clock to 3, two changes, one background task, one failure | `Consistent`, `Heeded`, `OptOutHolds`, `AnnouncedOnce`. Two changes are an opt-out behind a running plan, or a new forecast after one that was announced; the task runs beside the app's run at every await; the lead of 2 and the task's of 1 let the same crossing be planned by one and not by the other; with two tasks and two failures, or three changes and two failures, the properties hold as well (over 13 and 15 million states) |
| `token_keys` | two callers, two keys, `Timeout` 2, `MaxAge` 4, `Cooldown` 3, clock to 7 | `TrustEnds`, `KeysRecognised`, `KeyKept`. The clock lets a set expire and be read again; the durations are the least the assumption allows |
| `ai_requests` | two requests, three days, retention 2, every limit 1, providers paid, two Workers AI models and one without a counter | `LimitsHeld`, `AlarmArmed`, `CountsKept`. With limit 1 two requests race for each counter's last place; three days let an alarm fire on a count with a newer one beside it. Any `setAlarm` after an increment may fail; `AlarmArmed` excepts that object until its alarm is set again |

Counters without a bound in the code are bounded in the guards: `MaxNow`,
`MaxVersion`, `MaxConsent`, `MaxEvents`, `MaxWrites`, `MaxCopies`, `MaxOutfits`, `MaxChanges`,
`MaxAttempts`, `MaxTrouble`, `MaxDay`, `MaxRequests`, `MaxTime`, `MaxTasks`,
`MaxFailures`. When one is reached the
actions it bounds stop and everything else goes on, so runs set
`CHECK_DEADLOCK FALSE`: a finished instance has nothing left to do. (`token_keys`
keeps the check on: requests come to the last tick.)

What the runs leave outside, by a constant that is FALSE (or a bound):

* `AccountSession`: `LateAnswers`, `Outlived`, `Unreadable` (the launch's read of
  the stored session only);
* `AccountErasure`: `StaleTokens`; `Closet`: `DoubleRetry`, `EarlyPulls`,
  `Revived`; `Weather`: `Overtakes`; `TokenKeys`: `LateAnswers`.

Each of these names a behaviour the program can show, and section 6 says what it
does then. The passing results are conditional on their absence.

Other behaviours under which a property would fail are steps of the model, and a
history variable records the state they leave, which the property excepts: `torn`
(`AccountSwitch`), `hist` (`AccountSession`), `missed` (`Recommendation`, `Closet`)
and `unset` (`DailyCounter`). No guard reads any of them. Section 6 names each such
exception with the line of the code that makes it.

### Fairness

* `PullCursor`: passes start again and again (foreground, a local write, the
  network's return: `account-session-sync.ts`) and a pass under way goes on:
  weak fairness of `StartPull`, `ReadPage`, `FinishPull`. `EventuallyRead`
  assumes in its premise that other phones come to rest, pulls stop failing and the
  app is no longer updated (`SameReader`: each update makes rows unread again).
* `AccountSwitch`: weak fairness of each phone's pass, of starting one, and of the
  end of a pass whose account is not signed in any more (`Outlived`: its token is
  refused, or its request answered, within the client's time limit), together
  `SyncGoesOn`; the premise of `SwitchConverges` is that everything except passes
  comes to rest.
* `AccountGate`: the database goes on with every transaction that has begun. No
  fairness is assumed of clients.
* `AccountErasure`: the Worker goes on with a request it runs, a request that
  died is given up by the phone, and the phone's own calls are answered: weak
  fairness of `WorkerGoesOn`, `Unheard`, `DeletionGoesOn`.
* `AccountSession` and `Closet` state none. Their `NoStandstill` says that in
  every state with something under way somebody can go on, or waits for the
  network, the person or the disk, who answer: no cycle of calls that wait for
  each other.

## 4. What is proved

Of `PullCursor` (in `AccountServiceProofs`), for every set of rows, every set of
writers, page size and clock:

* `PullTypeCorrect`: `PullSpec => []PullTypeOK`, from the assumption on the constants.
* `NeverMissed` and `AlwaysComplete`: `NothingMissed` and `PullComplete` under
  `Margin`, `MaxTxn + MaxPull <= Overlap`. Neither is inductive. The invariant
  `PullInv` adds: a pull has not lasted longer than `MaxPull` nor an open
  transaction longer than `MaxTxn` (`PullClock`); every row not yet read has a stamp;
  what the pull has gone past without reading was committed after the pull began,
  so it was stamped at most `MaxTxn` before that (`PastIsRecent`), which with
  `PullClock` and `Margin` is what saving the newest stamp as cursor needs; and each
  row committed before the pull and not yet read lies ahead of its key (`Ahead`), so a page loses none (`PageLosesNothing`: a page
  followed by what lies strictly after its last key is all that was wanted). The
  clock part is a lemma of its own because every action but `Tick` leaves it
  alone. `Margin` is necessary (section 6).

Of `AccountGate` (in `AccountServiceProofs`), for any finite set of uploads and any
withdrawals, answers and cap:

* `TypeCorrect`.
* `NoCopySurvives` and `NoSilentLoss`: `NoCopyWithoutConsent` and
  `JoinedCopiesKept`. The invariant `ConsentInv` says what the locks achieve:
  shared and exclusive holders exclude each other (`Exclusion`); an upload past
  its check acts under a consent that stands (`StillGiven`); what a withdrawal
  has deleted is all there is until it commits (`AllDoomed`); the instants of
  answers, transactions and what phones read are in the order the server's clock
  gives them (`Instants`, `Order`, the latter because locks are granted in
  turn); and a stored row is still there, or a withdrawal recorded after the
  answer its phone read explains its absence (`Accounted`).
* `CapKept`: `CapHeld`, from an invariant on the single holder of the cap lock
  and what it counted.
* `GateIsALedger`: `Spec => IsALedger`, the refinement. `LedgerStep` maps each
  action to a step of `ConsentLedger` or to a stutter: a commit stores because
  `StillGiven` holds of an upload past its check and `CapInv` of one that
  counted; a withdrawal's commit empties the account because `AllDoomed` says
  that what it deleted is all there is.

Of `TokenKeys` (in `WorkerProofs`), for any callers, any keys and any durations with
`0 < Timeout < Cooldown` and `2 * Timeout <= MaxAge`, which the code's defaults
meet (`TokenAssumption`):

* `TokenTypeCorrect`.
* `TrustEndsHolds`, `KeysRecognisedHolds`, `InflightSharedHolds`. The invariant
  dates every set, cached or on its way, at the start of its read: `TrueSince`
  says that what it holds was served, and what it lacks was not, unless Supabase
  moved the key since. `Clock`, `Waits` and `Asked` bound how old a read can be
  when a caller acts on it; `Apart` makes the start time name the read, which is
  how `Closes` tells its own read from a newer one.
* `ReadsPacedHolds`: two reads start at least a cooldown apart.
* `KeyKeptHolds`, under `~LateAnswers`: a served key is not forgotten. It needs
  that what a set says is no older than its read's deadline (`Dated`) and that
  reads are a cooldown apart (`Spaced`).

Of `AiRequests` and its counters (in `WorkerProofs`), for any limits, list of
providers, number of requests, days and retention of at least two days:

* `TypeCorrect`.
* `LimitsHold`: `LimitsHeld`, from `CountCovers` (today's stored count is never
  below what today's limit let through), which holds because an increment sweeps
  only days before its own (`IncrementFacts`) and the alarm drops only days whose
  retention is over (`DropsOld`), none of them today.
* `CountsAreKept`: `CountsKept`, from the same invariant.
* `AlarmStaysArmed`: `AlarmArmed`, whatever `setAlarm` fails, from the stronger
  `Armed`, which says of a running handler that it either sets the alarm again or
  is to drop all that is stored, unless `unset` records that it could not be set.

Of `AlertSchedule` (in `AlertScheduleProofs`), for any alerts, forecasts, leads, freshness and bounds:

* `TypeCorrect`.
* `HeededAlways`: `Heeded`, from `QueueInv`: an input waits only behind a run, and
  it is the last one given. It depends on `End` being the end of every run, the
  failed ones included.
* `AnnouncedOnceAlways`: `AnnouncedOnce`, from `RecordInv`: what was announced on
  record keeps its row, at a time no run's clock is before, and neither the system
  nor a run at work holds it any more. `RunStepFacts` says what one step can do to
  a run (it goes on with less, begins, or ends), and `RecordKept` that a run which
  begins plans only what has no fired row.
* `OptOutHoldsAlways`: `OptOutHolds`, from `OptInv`, which needs `QueueInv`: a run
  hands over only kinds it was asked for; a silent kind is on in no run, not in
  the queued input, not in the profile; and an app's run with no other beside it
  has taken back what is off (`TakenBack`: while it cancels, all but what is left;
  from then on, everything). `RunStepOpt` follows one run step by step.

* `ConsistentAlways`: `Consistent`, from `CalmInv`. In a calm state nobody is at
  work and the system holds exactly the rows still to come (`Mirrored`). That is
  not inductive while a run is under way, so `RunAt` says of a run alone how far
  it has brought the two together: `CancelsAt` before its deletion (what it leaves
  alone was left in agreement, what it cancelled is gone), `PlansAt` up to its save
  (no row is left to come, and the system holds what it accepted of the plan),
  `RewritesAt` while texts are written again. `Continues` and `Stops` name the two
  things a step can do to a run. `MirrorsTick` is the passing of time.

Of `AccountErasure` (in `AccountServiceProofs`), for any requests, attempts and failures, from
`NoRequest \notin Requests` and numbers for the bounds (`ErasureAssumption`):

* `ErasureTypeCorrect`, and `LiveSessionDeletes`: `OnlyLiveSessionDeletes`. The invariant
  `ErasureInv` ties the phone's flags together (`PhoneInv`) and grounds each request in
  what it read (`Grounded`). What a request read may be old when it acts;
  `AccountFades` is why it still counts: an account is never made again, its
  session never comes back, its identities stay.
* `ConsistentAlways`: `Consistent`, with `LeftInv`: while a session lasts, a code
  that was sent is being worked with, or its deletion is marked unfinished, or the
  finishing request was sent.
* `ToldWhatIsSoHolds`, under `~StaleTokens`: `ToldWhatIsSo`, from `ToldInv`: a
  request that will tell the waiting phone "deleted" has seen to Apple's grant.
  `GrantStep` says who may give one: a confirmation, and the phone asks only then.

Of `AccountSync` (in `AccountSyncProofs`), for any phones, accounts, rows, writes and answers:

* `TypeCorrect`, with `Known`: nothing anywhere carries a version that nobody wrote.
* `EditsReachAlways`: `EditsReachAccount`, from `BatchReceived`: what a pass is
  about to confirm, the account has stored.
* `SettledAgreesAlways`: `SettledAgrees`, the hardest of these. A settled row must
  agree with an account it is compared with again only at the next pass, while
  edits, other phones, sign-outs and consent go on between any two requests. The
  invariant follows a pass: the instants of consents and joinings are in order
  (`Dates`), a pass is of the account the link names (`Linking`), a row is the one
  that was read or waits to upload (`ReadsHold`), each write of a first link leaves
  its rows as it should before the next (`ApplyHolds`), what it was told stands
  under the consent it read or is among what arrived since (`GotHolds`), and
  `LinkHolds` puts these together for each link a phone holds, the one a sign-out
  is about to save included. The hypothesis `Whole` is one account, or writes and
  sign-outs that are not split: the first covers `account_sync_pair`, where all are
  split. With several accounts and split writes `SettledAgrees` is false (section 6);
  what holds then is `OnlyTornApart`, which `account_switch` checks and no theorem
  states.
* `PhonesAgreeAlways`: under the same hypothesis, two phones of one account agree on
  every row that waits on neither and has no newer arrival ahead of either
  (`PhonesAgree`). It follows from `SettledAgrees` and from `OneContent`: wherever a
  version is kept, by a phone, a pass or an account, it is the same content, so
  agreeing with the account on a version is agreeing with each other.

Of `Weather` (in `WeatherProofs`), for any places, freshness window and number of calls under way:

* `TypeCorrect`; beside the active place only one other keeps its weather.
* `ConsistentAlways`: `Consistent`. `BaseInv` is about the calls: at most one
  selects (`OneInv`), a trip to Settings waits and is not the one a selection
  finishes (`TripInv`), what is to be stored or shown is a place, and the active
  one from there on (`PlaceInv`), nothing is under way unless the app is ready
  (`RestInv`), a location is read again only with access (`RefixInv`), and a
  revalidation is of a place (`CheckInv`). `ShownInv` adds what the screen says;
  it needs that a place without weather is asked for, has failed or has its cached
  weather read (`BlankInv`).
* `NeverBackHolds`: `NeverBack`, from the same invariant.
* `LastTapWinsHolds`, under `~Overtakes`: `LastTapWins`, from `TapInv`. A lookup
  that only corrects a device location may be overtaken by a tap; `OutdoneInv` says
  that it then finds another place in use, because every lookup that could select a
  device place was asked for after it.

Of `Recommendation` (in `RecommendationProofs`), for any number of requests, any
signals, allowance, outfits and changes of the profile:

* `TypeCorrect`, the statements waiting for SQLite included.
* `AlwaysConsistent`: `Consistent` (`BusyShown`, `NobodyLeftWaiting`). The invariant
  `Steady` says where each request may stand: no two statements in SQLite's queue are
  of one request (`Alone`), a request waits for a statement exactly while its own is
  queued (`Served`), whom the coalescer, a tracked re-ask and the latest key wait for
  is under way (`Waiting`), and nothing is before the stored outfit has been read
  (`Asleep`).
* `AllowanceAlwaysHeld`: `AllowanceHeld`, from `Reserved`: what was sent and what is
  held by a request that has not been answered is never more than the count in the
  file, because a slot is written before it is used and given back by one request
  once.
* `AlwaysShowsWhatIsStored`: one half of `RestsRight`. `Stored` says that of the
  statements that may still change the stored outfit the latest request's comes last,
  unless it was joined too late for that (`InOrder`, `missed.late`), and that what is
  shown differs from what is stored only while that request can still end it, or an
  outfit was not stored (`Settles`).
* `RestsRightAlways`: `RestsRight`, whose other half is `FitsTheSettings`. `Fitting` adds
  to `Steady` what the evaluation reads and waits for (`Linked`), and that the settings,
  once rendered, are what the last evaluation under way or behind it is for
  (`Follows`). Unless something was not asked for (`missed.ask`), what a skip saved is
  what its request was for (`Skipped`); and once the evaluation of what is rendered has
  decided, the newest that is asked for, or else what is shown, is for the settings
  (`Settled`, `Astray`). Neither theorem has a hypothesis: which requests are joined, and
  which settings come back, is up to the model's steps.

Of `Closet` (in `ClosetProofs`), for any pieces, launches, writes and copies, from
`ClosetAssumption`. Each theorem has as hypotheses the constants that the run sets
to FALSE, and only those it needs:

* `TypeCorrect`, with none.
* `AlwaysConsistent` under `~DoubleRetry`, through `Patient`: `Consistent`. `Steady` says what runs beside
  what: one load, and nothing else before the Closet shows its first list (`Loads`);
  a save waits for the sweep it found and for no other (`Apart`); who waits for a
  removal of photos (`Tidying`). With two loads `Apart` is what fails (section 6).
* `PhotosAlwaysMatch` under `~DoubleRetry` and `~Revived`: `PhotosMatch`. `Cared` is about
  the files: a photo has one owner, a row or the save that copied it (`Owned`, from
  what a save of each kind carries, `Carried`); what a removal is to take is of a
  deleted piece and nobody else's (`Doomed`); what a sweep is to take no row names,
  and what it leaves a row does (`Swept`, which needs `Apart`: no save copies a photo
  beside it); and a file nobody names has somebody who is to remove it
  (`Accounted`). `Due` says that a pending removal is on somebody's list, or the
  reload that will list it is still to come.
* `AlwaysShowsWhatIsStored` under `~DoubleRetry` and `~EarlyPulls`: `ShowsWhatIsStored`,
  from `Reread`. A list that was read is the stored one or the reload reads again
  (`Fresh`); of a refresh and a reload that both read, the two tickets of `lands` say
  which began later, and that one is right (`Ordered`); what is shown is right, or a
  read is still to land over it, or one failed (`Shown`).

Of `AccountSession` (in `AccountSessionProofs`), for any number of calls under way and any
users. `Orderly`, under which all but the first are proved, is `~LateAnswers /\ ~Unreadable`:
the auth client answers in the order it was asked, and the launch can read the stored
session. Section 6 says what fails without each hypothesis. No hypothesis is about
what the person does or when.

* `TypeCorrect`, with no hypothesis: `TypeOK`.
* `AlwaysConsistent`: `Consistent`. `Placed` says where the calls may stand: an
  exchange or the end of a forgetting has no session beside it (`OnScreen`), nothing
  runs beside the launch (`Launched`), a foreground that still sees its identity sees
  the one signed in (`Watched`), and a call that erases found no pass in flight
  (`Erased`).
* `WritesServedAlways`: `WritesServed`. `Read` names who will read a write that is due:
  a pass that has not read its token, the one that trails, a check for an open
  question, the end of the session, or a foreground on its way (`Reader`,
  `Returning`). It needs that a check and a token are the signed-in account's
  (`CheckedOwn`, `PassOwn`), and that none is due while a deletion is in flight
  (`Settled`): `PutOff` made it late.
* `StepsInOrderAlways`, also under `~Outlived`: `StepsInOrder`. `Asked` says that a mark is
  known to a session or being looked for (`MarkKnown`), that a sign-in about to ask is
  the only one that does (`AsksOnce`), and that no pass reads its token ahead of the
  answer (`AnswerFirst`).
* `QuestionVisibleAlways`, also under `~Outlived`: `QuestionVisible`, from `Seen`. The answers under
  way are the signed-in account's, and only a session waits for one (`AnswersOwn`);
  screens without a session show no question (`Blank`); and a question shown as being
  saved has a call that saves its answer (`Saving`). Of the states in between, the one
  whose answer fails beside a foreground's question and a sign-out's request needs
  three calls, one more than the run has. What took a question off the sheet otherwise
  is recorded in `hist.covered`.

Proved and not run: the types of these modules (but `AccountSync`'s),
`NoCopyWithoutConsent`, `CapHeld` (both of which `IsALedger` implies on the run's
instance), `InflightShared`, `ReadsPaced`, `PhonesAgree` (which holds at the
bounds of `account_sync_pair`) and `ShowsWhatIsStored` of `Recommendation` by itself.

Model-checked only:

* Every liveness property, and `NoStandstill`: fairness and `ENABLED` are outside the
  prover's reach (`EventuallyRead`, `SwitchConverges`, `EveryoneEnds`, `DeletionEnds`
  and the two `NoStandstill`).
* `OnlyTornApart`: with several accounts and split writes.

Every other safety property of the runs is proved, under the hypotheses named above.
The proofs trust no statement: every leaf is checked by an SMT solver, Zenon or the
temporal back-end.

## 5. What is not modelled

* Of the account: the profile row, refused and unreadable rows, a commit that
  reaches the account after the phone gave the request up, two edits in the same
  millisecond (`updated_at` is taken to differ), the size guard and fair share,
  the field conversion, adding a second provider, the notices shown.
* Of the Closet: the staged photo before a save, a photo manager that is
  unavailable, the order of the list, the fields of a piece and their
  validation, rows this build cannot read.
* Of Recommendation: the pool of further options, the phases shown, the day
  question, the second pass of a foreground's evaluation, the weather an evaluation
  waits for, a member's larger allowance.
* Of Weather: the permission shown, names and accuracy, the fields of a snapshot,
  a clock that moves back, and `selectManualLocation`, which no screen calls.
* Of the Worker: the checks of one token alone, the shared AI cache and the
  validation of an answer, the weather chain and its cap (the walk of
  `AiRequests` without a pool), places, feedback and app config.
* Of the alerts: the text of a notification and its key, quiet hours and the swing
  rule beyond when they let an announcement come, a change of place, the pruning
  of rows older than three days, the permission prompt of the Settings screen.
* Profile, walkthrough, analytics: a queue of writes of one row, a synchronous
  state machine, reporting.
* Pure rules (outfit composition, weather to clothing), presentation, catalogue,
  theme, localization, garment art, contracts, migrations, native modules: data,
  layout or total functions with table tests, without state of their own.

## 6. Where the code and what is said of it disagree

Each of these was met while modelling; none is a run of its own, because a run shows
what does hold. Those of the first list are steps of the models: a history variable
records the state they leave, and the property of the run excepts it.

* A sign-out saves the whole link it read before an await
  (`live-account-session.ts:115`), where the comment at `:109` says that it clears only
  the linked user; a first link that a pass saved meanwhile is undone. Sign-out waits
  for a pass only online, and a session that the server ended waits for none. And the
  first link of another account is several transactions
  (`sqlite-account-rows-source.ts:531`); a pass or a process that ends between them
  leaves rows settled against an account that lacks them. Both leave rows `torn`: with
  several accounts `SettledAgrees` of `AccountSync` is false, and `OnlyTornApart` is
  what holds.
* `askConsentAgain` sets `awaitingConsent` after an await without looking again
  (`account-session.ts:415`), and the Account screen's answer and withdrawal
  (`:616`, `:658`) look at no question. One that lands while the sign-in waits for
  its question, as at `:641-643`, takes it off the sheet, and nothing shows it again
  before the next launch or sign-in (`hist.covered`; without it `QuestionVisible` fails).
* A write made while a deletion is in flight asks for no pass, and a deletion that
  failed asks for none after it. A foreground forgets the pass that waited for its
  token (`account-session.ts:761`) before a refresh that may throw (`:764-767`).
  Either way the write waits for the next trigger (`hist.writes` is `"late"`).
* A setting that goes back while a request made beside the evaluation runs, so that
  the evaluation finds nothing to ask for, and a refresh that joins a request already
  being saved or skipped (the controller joins any pending request of the key,
  `:421-427`), leave an outfit shown that the settings in force do not ask for, or
  one that is not the stored one (`missed`; without it `RestsRight` fails). A refresh
  failure is hidden when an older request then succeeds.
* `daily-counter.ts:101-107` says that a `setAlarm` that fails only delays the
  cleanup. If nobody counts under that name again, nothing sets it (`unset`; without
  it `AlarmArmed` fails). A late request under yesterday's key
  between the handler's list and its end can move the alarm a day later; and
  requests that carry yesterday's key past midnight restart a swept count, so
  the day that is over can be spent beyond its limit: `LimitsHeld` speaks of the
  requests counted on their own day.

These are outside a run, by the constant in brackets or by a bound:

* `MaxPull` larger in `PullCursor.cfg`: `NothingMissed` fails.
  `supabase-account-remote.ts:45` argues that 10 seconds of overlap cover an
  8-second transaction with margin. A pull of several pages saves the newest
  stamp of its last page, so the overlap has to cover the transaction and the
  pull together.
* The answers' cap (`accounts.sql:203-204`, `account_hardening.sql:33`,
  `account_cap_locks.sql:60-61`): past 400 answers only one withdrawal of a
  consent that is still given lands, so that the table stays bounded. Which consent
  is given goes by the answers' dates, not by when they commit: withdrawals begun
  before a consent that is already stored are dated before it, leave it given, and
  land past the cap one after the other. With two answers given and two withdrawals
  in `account_gate` and a cap of 2, the table comes to hold 4.
* `account_cap_locks.sql:15` says that no transaction holds two of its locks. A
  withdrawal holds the account's lock when its insert asks for the answers' lock.
  The two are of different kinds and always taken in this order, so no cycle
  arises (`EveryoneEnds`).
* An exchange abandoned for a newer sign-in and answered after that one was
  adopted stores its session over the adopted one (`LateAnswers`,
  `account-session.ts:563`; `Consistent` fails in `StoredIsIdentity`).
* A launch that could not read the session reads it again at a foreground
  through `start`, which restores it without the check that the rest of
  `foreground` makes after Apple answered (`Unreadable`,
  `account-session.ts:753`; `StepsInOrder` fails in `BringsNoneBack`, and
  `Consistent`, `QuestionVisible` and `WritesServed` can fail after it).
* A mark of an open question left by an earlier session makes the launch ask
  while a pass of the new one may already run (`Outlived`,
  `account-session.ts:314`; `StepsInOrder` fails).
* The error state of the Closet stays while a retry opens the repository, so a
  second tap starts a second load; each load starts a sweep, the first to end
  clears `sweepPromise` for both, and a save then runs beside a sweep, which
  `wardrobe-photo-sweep.ts:3` says never happens (`DoubleRetry`).
* A pull that lands after the first list was read and before it is shown asks for
  a reload that does nothing, and the list shows without it (`EarlyPulls`,
  `wardrobe-application-controller.ts:136` says "that load reads the phone").
* A pull that brings a deleted piece back while its photo is being removed leaves
  a live row that names a missing file (`Revived`).
* A token older than the Apple identity it lacks: the delete route trusts its
  claims and reports the account deleted with Apple's grant still there
  (`StaleTokens`; `ToldWhatIsSo` fails, against ADR 0041).
* A read of the keys answered after its deadline, because its fetch ignored the
  abort, may be older than a key the cache holds: `KeyKept` fails, the other
  properties of `TokenKeys` hold (`LateAnswers`).
* The comment at `weather-application-controller.ts:347` takes lookups as
  answered in the order they were asked (`Overtakes`; `LastTapWins` fails).
  `NeverBack` leaves out weather whose row was pruned, which is dropped.
* ADR 0032:98 says that each identity fires at most once. A notification that
  fires while a run is under way, after the run read its clock, loses its row (or
  never gets one) and is planned again if the crossing still lies ahead:
  `AnnouncedOnce` speaks of what was announced with no run under way and its row
  in the ledger, and `heard` keeps the others apart as "off record".
* ADR 0032:152 says that turning both kinds off cancels every pending notification.
  A background task that read the profile before the opt-out schedules after the
  cancellation; the next run takes it back. `OptOutHolds` leaves out the kinds
  such a task still has on.
* A cancellation that fails half way, or a process that ends in the middle of it,
  leaves rows of notifications that are not pending any more, and once their time
  has passed they count as announced (`weather-alert-scheduler.ts:263`). The next
  run that gets through alone before that time repairs them (`calm`).

## 7. Plan

Next: an abstract replica (each identity holds the last version any member wrote
and the account received) that `AccountSync` implements, as a refinement.
