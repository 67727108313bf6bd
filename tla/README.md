# Android Stream Deck: verification project

TLA+ models of the Android Stream Deck server (`server/app`), the TLC runs that
check them on small instances, and TLAPS proofs of the properties that matter
most for instances of any size. Paths below are relative to the repository.

- [The system](#the-system): components, state, operations, what is hard
- [The modules](#the-modules): what each models and how it corresponds to the code
- [The runs](#the-runs): questions, bounds, fairness
- [The findings](#the-findings): where the code and its comments disagree
- [The proofs](#the-proofs): theorems, invariants, what stays with TLC
- [What is left out, and the plan](#what-is-left-out-and-the-plan)

## The system

A FastAPI server on a PC keeps *profiles* (pages of buttons) in SQLite. An
Android device pairs with it once, obtains a token, and opens a WebSocket over
which it presses buttons and hears of profile changes. It edits profiles over
HTTP. A server process is one event loop, worker threads for the database and the
actions, and one SQLite file. On Windows a tray starts and stops the server, and
several server processes may meet on one data directory.

| Component | State | Operations | Hard because |
|---|---|---|---|
| Live channel, `websocket.py` | per connection: program counter, `ClientSession` (credential generation, answer cache, `send_lock`, `ready`, `invalidated`, pending messages); manager: registry, last broadcast revision per profile, `_broadcast_lock` | handshake, press, ping, timeout, disconnect; broadcast; invalidate | every `await` lets every other coroutine run; three locks; peers that stop reading |
| Routes, `api.py` | none of their own | commit in a thread, then announce or invalidate | the commit and what follows it are separate steps; deletion is four steps |
| Profile repository, `repositories/profiles.py`, `db.py` | `profiles` (revision, `is_active`), `profile_revisions` (snapshots) | create, save, rename, duplicate, activate, delete, page operations, import | optimistic concurrency; one selected profile; revisions start over after a deletion |
| Builtin profile, `builtin_profiles.py` | `builtin_profile_installations` | install, upgrade, leave alone | runs at every start, against whatever the user did |
| Credential store, `pairing.py` | `paired_clients` (generation, revocation mark) | issue, revoke, look up | looked up in a thread, used afterwards |
| Pairing session, `pairing_session.py` | one session in memory, deadline, timer, 32 retired ids | create, bootstrap, claim, expire | once only; timer against claim against rotation |
| Rate limiter, `rate_limit.py` | times of attempts per origin | allow, reset | clock read outside the lock; bounded number of origins |
| TLS material, `tls.py` | four files, a lock file | ensure | files are replaced one by one |
| Server start, `runner.py`, `main.py` | what the process loaded, the port | prepare files, migrate, load, bind, serve | files are read again after the lock is released; any process may end anywhere |
| Process control, `service_control.py`, `tray.py`, `pairing_window.py` | the child process, the window's wait | start, stop, kill, quit, open a window | two callers of one controller; timeouts of `wait`; a server that never answers |
| Migrations, `migrations.py` | `user_version`, the schema | migrate | version read before `BEGIN` |
| Actions, `actions.py`, `catalog.py`, `gpu_telemetry.py` | the PC's keyboard; slots and locks for system information | execute | every session's thread types on one keyboard; a process may be ended between a press and its release |
| Transfer format, schemas | none | convert, validate | conversions |
| Android client (`StreamDeckShell.kt`, `PairingClient.kt`, drafts) | snapshot, draft, pending presses, one socket | connect, press, edit, switch page | callbacks of an old socket; optimistic updates |

How they interact:

- A profile route commits in a worker thread (`run_in_threadpool`), then calls
  `broadcast_profile_changed` on the event loop. Between the two, other routes
  commit and announce; announcements reach the channel in any order.
- A claim replaces the device's token in a thread and then invalidates the
  device's sessions; a revocation commits on the event loop itself.
- A session compares a press with the profile's revision as read in a thread
  and executes the action in another one.
- A claim consumes the pairing session in one thread and issues the token in
  another; what fails in between costs the session and gives nothing.
- `create_app` migrates the database and installs the builtin profile before
  the first request. Before that, `runner.main` has prepared the TLS files under
  a file lock; uvicorn reads them afterwards, without it.
- The tray's menu and the pairing window share one controller, whose lock is
  held during a stop; both act on servers that may be replaced, killed or beaten
  to the port at any moment.

What makes each part correct:

- Channel: a press whose credential died before it was read is not executed; a
  request is executed at most once while the server remembers it, and an answer
  is remembered until enough others came after it; sessions of a revoked device
  leave; a change reaches the sessions that were there; revisions are announced
  in ascending order; no connection that can still be written to holds up a
  broadcast; the connection limit holds.
- Repository: exactly one profile is selected; every revision has its snapshot;
  no update is lost; page operations yield valid, gap-free orders.
- Builtin profile: the user's choice survives every restart and upgrade.
- Pairing: a session is claimed once, before its deadline, and gives at most one
  token; its secrets leave memory; who asks again is told what happened; the
  limiter bounds the claims of an origin, and its own memory.
- Server start: the authority that phones trust is never replaced; only a
  failure leaves unusable files; what is served verifies and is fresh; no
  migration touches a credential, and the schema is what its version says; every
  start ends.
- Process control: while the tray is there, a child that runs can still be
  stopped; a window comes back.
- Actions: no key stays down that nobody will release; hotkeys arrive whole;
  slots and locks are returned.

`PROJECT.json` lists every component, and under `hazards` each place of the code
where something of this can go wrong, with the properties that would show it.

## The modules

### RevisionStore, CredentialStore: what the two stores promise

`RevisionStore` is the abstract specification of the repository: a revision per
profile (0: no row) and the selected profile. An operation is one step because
each repository method is one `BEGIN IMMEDIATE` transaction. `CredentialStore`
is the `paired_clients` table: the generation of a device's token and its
revocation mark. A token stands for the generation it was issued with. `StoreSpec` and
`CredentialSpec` are their specifications, which the modules that use them are
proved to implement.

### WebSocketChannel: the live channel

Extends both stores: their actions are the commits of the routes.

| Code | Model |
|---|---|
| one `_serve_websocket` coroutine | `pc[c]`: `handshake`, `loading`, `registering`, `greeting`, `idle`, `checking`, `reading`, `executing`, `replying`, `sending`, `closed` |
| `ClientSession` | `session[c]`; `responses` is the cache, oldest first |
| `send_lock` | `SendLockHeld(c)`: the coroutine is greeting or sending (`OwnSend(c)`, which has no timeout), or a request is closing the session |
| the press in hand | `press[c]`; its field `late` says that the credential was dead when it was read |
| `_sessions`, `_last_broadcast_revision`, `_broadcast_lock` | `registered`, `lastBroadcast`, `casting` |
| an announcement between its commit and the channel | a member of `outbox` |
| a delete request before and after its commit | `deleting`, `activeReads` |
| a claim or revocation past its commit | a member of `claims` |

A step reaches from one point where the coroutine suspends to the next:
`run_in_threadpool`, a receive, a send, or a lock that is taken. So registering
is one step with taking the send lock (nothing suspends between the count and
the insertion), while loading the profile and registering are two. The
handshake, the loop, the device routes, the profile routes and the broadcasts
are one action per step; every way out of the coroutine goes through `Close`,
its `finally`. `announced`, `owed`, `deleted`, `doomed` and `newer` are
history: no action reads them. `newer[c][r]` counts the answers session `c` gave
to other presses since its last one to `r`, up to the size of the cache. `owed[c]` is the revision of the last change of
its profile that was committed while `c` was registered, `announced[c]` the
revision `c` heard of last, and `deleted` the profiles that were deleted at some
time, whose revisions started over.

### ProfileStore: the profile repository

Refines `RevisionStore`. It adds what the promise rests on: `is_active` of every
row (the model does not assume that only one is set), the snapshots of
`profile_revisions` through which every read goes (the model can miss one or
collide with one), the pages of a profile, the builtin profile's installation,
and editors that hold what they last read and send it back. An answer may be
lost: `Answer` lets the editor keep its old reading. `Start` may happen at any
time, for a crash loses nothing but open transactions.

The page operations are pure operators over the orders of pages (`Inserted`,
`Moved`, `Removed`): the index of a page in the list sorted by order is the
number of pages with a smaller order, so no sorting is needed. A page keeps the
identifiers of its buttons, because `Valid` (the validation every write ends
with) wants them unique across the profile, which `create_page` does not look at
itself: a creation that brings a button of another page passes its own checks and
is refused by the validation of its result. `PageOperationsSound` says that this
is the only such case. `chosen` and `lost` are ghosts.

`Store == INSTANCE RevisionStore WITH active <- Selected` is the refinement
mapping.

### PairingSession, RateLimiter, PairingRoutes: pairing

| Code | Model |
|---|---|
| `PairingSessionManager._session`, its id | `session`; sessions are numbered in the order their passwords are drawn |
| password, salt and key in memory | `secrets`: the sessions whose secrets exist |
| `deadline_monotonic`; the `threading.Timer` | `remaining` and `timer`: ticks left, `Never` when no timer runs |
| `_expiry_timer`; timers whose thread waits for `_lock` | `expiryTimer`; `firing` |
| `_retired` | `retired`, at most `RetiredLimit` entries, the oldest first |
| `AttemptRateLimiter._attempts` | `attempts[limiter][origin]`: the ages of the times, in the order they were decided |
| a request under way | `calls[c]`: its kind, the step it does next, what it carries, and how long ago it read the clock |

Each operation of the manager is one section under `_lock`, hence one operator:
`Install`, `LookUp` (which ends an overdue session whichever was asked for),
`Consume`, `TimerCallback`. `create_session` draws its secrets before it takes
the lock, so `Draw` is a step of its own and two creations may cross. A timer
may fire up to `Early` ticks before the manager's clock reaches the deadline,
and a cancelled one may already be in `firing`; the callback compares sessions
and time, and starts a new timer when some remains.

`allow` reads the clock before it takes its lock. For the synchronous routes,
which run in threads, the reading may be `lag` ticks old when it is decided; the
claim route calls `allow` on the event loop, so its lag is 0. That is why
`ClaimsBounded` is about claims only: with times out of order, only the last
stored one decides whether an origin is forgotten.

`PairingRoutes` composes manager, limiters and `CredentialStore`: one action per
step of each route between two points where another call can run. A claim with
the static code (`kind = "code"`) skips the session. `tokens` and `endings` are
history. `OneTimePairing` is the abstract specification: a password is offered,
one at a time; it leaves that stage once; only a used one gives a token, one.
`Promise` is the refinement mapping, with `Stage` read off the manager's state.

### TlsMaterial, SchemaMigration, ServerStart, ServerControl: servers

`TlsMaterial` is `TlsMaterialStore.ensure`. A key pair is a number drawn once; a
certificate is its key, its issuer's key, its addresses and its validity; two
files match when the numbers do. The clock is read first (`now`), then the lock
is taken and the files are judged: created, renewed, kept or refused. Files are
written one by one, a key's permissions may fail to be set after it was put in
place, and a process may die between any two writes (`torn` remembers that).

`SchemaMigration` is `migrate`: five functions on an abstract database, one per
version, composed as one transaction for the version that was *read*, which may
not be the version that is *there*. The statements that say `IF NOT EXISTS` may
be repeated; version 3 may not, since it drops a table that audit rows refer to,
and its failure is what protects the credentials. Rows older than version 3 have
no generation and count as generation 1.

`ServerStart` is `runner.main`, in the stages of `Stages`: prepare, read the CA
for the pairing routes, read the version, migrate, load chain and key, bind. The
port is bound before the certificates are loaded when there are two addresses to
bind and after when there is one; the model allows both orders. A server that
answers pairs and revokes devices, which is what a late migration could destroy.

`ServerControl` adds the tray. `menu` says how far a stop has come: it holds the
controller's lock, so nothing else of the controller runs until the child has
ended or two waits have timed out. A stop first runs `taskkill`, without a
timeout and before the `try`: in `asking` it may never return, and it may fail
(`AskFails`), which leaves the child with the controller. `window` is the stage
of `fetch_session`; each of its waits may end by its deadline. Nothing keeps a
window that was opened before *Sair* from starting a child after the stop, and
*Sair* goes on when `taskkill` fails: `Leave` ends the tray with its controller,
and such a child runs on without one. Which of pystray's callbacks may overlap is
not said in the repository; the model lets any two. Servers started by hand run
beside the tray's child on the same files and port.

### ActionExecution: the threads that execute actions

| Code | Model |
|---|---|
| a thread inside `ActionRegistry.execute` | `stage[w]`, and `chord[w]`: the keys of its hotkey, key or media action |
| `pressed_modifiers`, `primary_pressed` | `held[w]`: what it has pressed, in that order |
| what `keybd_event` has told Windows | `down`: a key is down or up, whoever pressed it |
| `_execution_slots`, `_NVIDIA_LOCK`, `_AMD_LOCK`, NVML's initialisation | `slots`, `locks`, `nvml` |

One action per key that goes down or up, since another session's thread may run
in between; a press that raises leads to the `finally` clause, a release that
raises is swallowed. `Restart` ends the process anywhere (the tray stops it with
`taskkill /F`): its threads are gone and its keys stay down. `stuck`, `met` and
`leaks` are history. Two hotkeys with a common modifier do disturb each other:
the first release brings the modifier up beneath the other's primary key.
`ChordsAreWhole` says that this is the only way a hotkey is torn.

### The MC modules and the proof modules

The MC modules define symmetry and the drafts, fixtures and budgets that
configurations choose from. `CredentialProofs`, `WebSocketChannelProofs`,
`AnnouncementProofs` (which extends it), `ProfileStoreProofs`, `PairingProofs`,
`LimiterProofs` (which extends that), `ServerProofs` and `ActionProofs` hold the
theorems.

## The runs

| Run | Question | Bounds, and why they are enough |
|---|---|---|
| `ws_press` | Is a remembered request ever executed again? How long is an answer remembered? Does a revocation stop presses? | 3 requests and a cache of 2, so the cache fills, evicts, and evicted requests come back; 2 profiles and 2 revisions, so presses are refused for each reason; 2 generations: the device is revoked and paired again while a press is under way |
| `ws_lifecycle` | Does a session hear of every change it is owed, and of revisions in ascending order, deletion and replacement included? | one session (announcements to different sessions have nothing in common but the guard; `AnnouncementProofs` is about any number), 2 profiles of 2 revisions, one deletion with its two announcements, a creation of the deleted profile, 2 announcements under way: reordering, duplicates, sends that fail |
| `ws_revocation` | Do revoked sessions leave, and broadcasts end? Does the limit hold? | 2 connections of one device for 1 slot, 2 generations, so that a session is closed while another registers; one profile whose activation is announced again and again; no symmetry |
| `store_revisions` | Is the repository what its callers rely on? | 2 profiles, 2 editors, 3 revisions (two changes on top of each other, and a deletion and recreation), 2 versions of the builtin profile, and a text neither ships |
| `store_pages` | Are the page operations sound? | every profile of up to 3 pages with orders up to 3, hence every gap, whose pages share 3 buttons in every way |
| `pairing_sessions` | Is a session used once, ended for the reason given, and forgotten? Do the routes implement `OneTimePairing`? | 2 calls at once, so that two claims, a claim and a rotation, or two creations race; 2 sessions, so that one replaces the other; a deadline of 2 ticks with timers 1 tick early, so that a timer starts again; 1 remembered session, so that the second displaces the first; 2 generations |
| `pairing_limits` | Are claims and the limiter's memory bounded? | 2 origins for a table of 1, 2 attempts in a window of 2 ticks, readings 1 tick late; both the claim limiter and the administration's, no sessions |
| `server_start` | Are files, schema and credentials safe, do starts end, are children owned, and does a window return? | 2 processes; databases of every version and of one too new; what may happen to each is a budget (below); leaves live 4 ticks with a margin of 2, the authority 3, so that renewals, expiry and refusals happen |
| `actions_keyboard` | Are keys, slots and locks given back, and do hotkeys arrive whole? | 3 threads for 2 slots, so that one is refused; hotkeys of 2 and 3 keys that share a modifier and the primary key, and a key of its own; 1 failed shutdown of NVML (`MaxLeaks`); releases and presses fail and the process ends at will |
| `ws_recreation`, `ws_replacement`, `ws_slow_peer` | the findings below | the smallest instances that show them: 2 profiles; 3 (the deleted, its replacement, and the one activated next); one session under `FairSpec` |

Bounds are the constants named `Max...`; each is a conjunct of the guard of the
actions it stops (`MaxLag` bounds how long the clock runs on while a call waits
for a lock). The budgets of `server_start` (`MCServerControl`) bound how many
launches by hand, crashes, ticks, changes of address, pairings or revocations,
menu commands and windows a behaviour has; for the latest version each of five budgets stands for
one story (a race for the first start with a crash, renewals, a renewal that
dies, the menu, the menu and a window beside a rival), for an older one two
processes migrate while the first to finish already pairs devices.

Deadlock is checked in every run but `server_start`: whatever was closed,
revoked or deleted, the server still has a step to take (a connection to accept,
a session to receive from, a profile to read, a store to restart, a tick). In
`server_start` the system really may stop: every process down, the tray gone,
the budget spent.

Each property has a mutant in `PROJECT.json`: a definition replaced by what a
plausible bug would make of it (named "Mutation" in the modules), under which
the run must fail.

**Fairness** (`FairSpec`). In `ws_revocation` and `ws_slow_peer`: weak fairness
of steps the event loop has ready (`PickTargets`, `EndBroadcast`) and of the end
of a closing request's sends (`EndClose`, bounded by `send_timeout`): the loop
runs ready callbacks in turn. Strong fairness of the steps that wait for a
session's lock, `SendBroadcast` (bounded by `send_timeout` too) and `BeginClose`:
`asyncio.Lock` wakes its waiters in order, so one that waits while the lock is
released again and again gets it. Nothing makes a session's *own* send end: it
has no timeout, and nothing under `src/` bounds it (a keep-alive of the WebSocket
library might). So the liveness properties say what does not depend on it:
`RevokedSessionsLeave`, that a session to be closed leaves unless its own send
never ends, whatever other sessions do; `OnlyHungTargetsBlock`, that a broadcast
ends unless the own send of one of its targets never does. Without the exception
`BroadcastsEnd` fails, which is the finding of `ws_slow_peer`. Neither worker
threads nor devices need to make progress.

In `pairing_sessions`: weak fairness of every call's next step (a thread that was
started runs on), of timers that are due, and of time. Nothing makes a request
come, so `SecretsAreCleared` is the timer's doing.

In `server_start`: weak fairness of a start that goes on, of a controller in a
stop (each of its waits has a timeout) and of a window (each of its waits has a
deadline). Giving up on the file lock is not fair: the POSIX lock waits without
limit, only the Windows one gives up after ten attempts. Nor is `Ask`, the run of
`taskkill`, which has no timeout: `WindowsReturn` is about behaviours in which the
controller is not left waiting for one. Nothing makes a signalled process end, and
time need not pass.

## The findings

- **A recreation is dropped as outdated** (`ws_recreation`). A late announcement
  of a deleted profile sets the revision guard that the deletion had cleared
  (`websocket.py:171`, the comment at `:173`).
- **A replacement's revision goes unannounced** (`ws_replacement`). Deleting the
  selected profile writes a new revision of its replacement, and the route then
  announces whichever profile is selected by that time (`api.py:533`). When a
  third profile is activated in between, nobody announces the replacement's
  revision, although changes made over HTTP generate `profile_changed`
  (`server/README.md:334`). `OnlyReplacementsGoUnannounced` proves that, for a
  profile that was never deleted, this is the only way: when no selected profile
  is deleted, the last revision announced is the present one once all
  announcements are made.
- **A peer that stops reading holds up every broadcast** (`ws_slow_peer`). A
  session's own send has no timeout and holds its `send_lock`
  (`websocket.py:63`); a broadcast waits for that lock outside its own timeout
  (`:215`), while it holds the lock of all broadcasts. `server/README.md:343` says
  that slow connections are removed without blocking the others. `close_session`
  waits for the same lock (`:133`), so the session is not closed at once either,
  as `server/README.md:225-226` says of revocations; `RevokedSessionsLeave`
  excepts it.

`ChangesReachSessions` draws a line that a reader should know of: a session hears
of the changes that are committed after it was registered. A change committed and
announced between loading the profile (`websocket.py:546`) and registering the
session (`:576`) is in neither the snapshot nor the session's queue. For the same
reason as the second finding, the revision a deletion gives to a replacement
counts as owed to nobody there.

## The proofs

Checked by TLAPS for every value of the constants that satisfies the named
assumptions (the `ASSUME`s of the modules, such as `StoreAssumption`, `ChannelAssumption`,
`PairingAssumption`, `TlsAssumption` and `MigrationAssumption`), in particular
for any number of connections, devices, requests, profiles, pages, editors,
pairing sessions, calls, server processes, threads and keys.

| Theorem | States | Argument |
|---|---|---|
| `TypeCorrect` | `ChannelTypeOK` | with `PressGiven`, that a handled press has a request: what `Remember` puts into the cache is a request |
| `LimitHolds` | `ConnectionLimit` | the registry is finite and grows in `Register` alone |
| `RevokedPressesStop` | `RevokedPressNeverRuns` | a session's generation never exceeds the device's, and a late press's generation is dead for good, since a new token has a greater one |
| `OncePerWindow`, `AnswersStayRemembered` | `RememberedNeverRuns`, `AnswersAreRemembered` | `CacheInv`: what is handled is not cached, and an answer with `k` younger ones stands at most `k` places from the end of a cache that is never longer than its limit, so an eviction, which takes the first place of a full cache, takes an answer with enough younger ones |
| `RevocationCloses` | `RevokedSessionsClosed` | a doomed, registered session always has a request that will still pick it, is to close it, or is closing it |
| `AnnouncementsKeepOrder` | `AnnouncementsAscend` | `OrderInv`: a session has heard of nothing newer than the guard, or, while it waits for the broadcast under way, than that broadcast; no announcement is queued for a session that is being greeted, since its lock is held from the registration on |
| `ChangesAreHeard` | `ChangesReachSessions` | `ReachInv`: for a profile never deleted, neither guard nor announcements are ahead of the revision; a revision that is owed is in `outbox` or behind the guard; and once it is behind the guard, the session was told or is a target of the broadcast under way |
| `OnlyReplacementsGoUnannounced` | `ChangesAreAnnounced`, for behaviours in which no selected profile is deleted | `NewsInv`: the present revision of a changed profile is the guard's or in `outbox` |
| `ChannelUsesStore`, `ChannelUsesCredentials`, `PairingUsesCredentials` | the channel implements `RevisionStore` and `CredentialStore`, the pairing routes `CredentialStore` | step by step: every step is an operation of the store or leaves its variables alone (`ServingCommitsNothing`: sessions and broadcasts commit nothing) |
| `DeadGenerationsStayDead` | no step of `CredentialStore` revives a generation that was replaced or revoked, whoever takes it | generations only grow, and a revocation mark is cleared with a new generation alone |
| `StoreTypeCorrect`, `ExactlyOneSelected`, `HistoryIsComplete` | `ProfileTypeOK`, `OneSelected`, `HistoryComplete` | one inductive invariant, `RowInv`: types, selection and history need each other, as a read goes through the history and a replacement is written to it; `CurrentValid` adds that current contents are valid profiles |
| `PageOperationsAreSound` | `PageOperationsSound` | from `CurrentValid` (the pages of a profile share no button) and lemmas on page numbering: the number of pages before a page is strictly increasing in its order, hence takes each value below the number of pages exactly once |
| `NoUpdateIsLost` | `NoLostUpdate` | `ReadingsTrue`: while a profile lives, what an editor read is the snapshot of that revision, and snapshots of past revisions never change |
| `UserChoiceHolds` | `UserChoiceSurvives` | strengthened with `marker = 0 => chosen # NoContent`: a store that never installed the builtin profile has not seen it deleted, so an installation may insert it |
| `RepositoryRefinesStore` | `StoreRefined` | under `RowInv` the flag of every row is the abstract selection (`SelectedKnown`); insertions are `Create`, commits and upgrades `Change`, and the rest map to their namesakes or to a stutter |
| `RoutesTypeCorrect`, `EndingsAreHonest`, `SecretsAreHeld`, `ExactlyOneTimer`, `UsedSessionsAreRemembered` | `RoutesTypeOK`, `HonestEndings`, `SecretsHeld`, `OneTimer`, `UsedIsRemembered` | one inductive invariant: what the manager keeps about its session, its timers and the ends so far, and what every call holds (`CallsInv`: a session that waits to be installed is drawn, not ended, and nobody else's); `retired` is the tail of `endings` |
| `OneTokenIsIssued` | `OneTokenPerSession` | strengthened with: a call about to issue for a session is the only one, that session was used and has no token yet |
| `PairingRefinesPromise` | `PairingIsOneTime` | under those invariants a step maps to `Offer`, `Leave` or `Issue` of `OneTimePairing`, or to a stutter |
| `LimitersStayBounded` | `TablesBounded` | an attempt is stored only when fewer than the limit are left and its origin is there or has room; sweeping and filtering only shorten; bootstraps and creations alone are decided late (`Decides`) |
| `ClaimsStayBounded` | `ClaimsBounded` | `Matches`: with the present clock the table of an origin is in the order of its times, and holds as many of every age below the window as the history of admitted attempts does; so filtering it counts what the history counts |
| `ControlTypeCorrect` | `ControlTypeOK` | with types for what a process holds at each stage |
| `OnlyFailuresTear`, `CaIsNeverReplaced` | `TornOnlyByFailure`, `AuthorityIsKept` | `LockInv`: whoever writes holds the lock, alone, and `DiskInv`: which files are there, and what they are, at each stage of a process inside the lock and after it |
| `ServersVerify` | `ServedChainVerifies` | what a process loaded was signed by the authority it loaded, and that never changes; a key that matches the leaf is that leaf's |
| `LeavesAreFresh` | `ServedLeafIsFresh` | `FreshInv`: a process past the lock has found or written a leaf that is fresh for its own time, and whoever replaces it writes one that is fresher than the lag allows a time to be old (`LeafValidity > Margin + MaxLag`) |
| `SchemaStaysWhole`, `CredentialsSurviveMigrations` | `SchemaIsWhole`, `MigrationsKeepCredentials` | `DbInv`: below version 3 every device is at generation 1 and none is revoked, so version 3 changes no credential; a version that was read is never above the present one; and from version 3 on the audit table makes version 3 fail, and the transaction is undone |
| `ChildrenStayOwned` | `ChildrenAreOwned` | while the tray is there, the controller forgets a child only when it is down or was killed (`KilledInv`: in `killed`, what it holds was sent a kill) |
| `NoKeyIsForgotten`, `ChordsStayWhole` | `KeysAreOwed`, `ChordsAreWhole` | `KeyInv`: what a thread holds is a prefix of its chord, each key of which is down or belongs to a chord executed at the same time; two threads that type have each other's keys in `met` |
| `SlotsComeBack` | `SlotsAreReturned` | counted by the set of threads that read; a lock's holders are the threads inside it |

`LimiterProofs` reasons about `Recent`, which is defined by recursion over the
attempts of an origin. The induction it needs is its first lemma, stated for sets
of numbers and derived from the well-foundedness of `<`; `RecentFilters` and
`RecentKeeps` then say what the recursion returns (a subsequence of the attempts
in the window, the order kept, and as many below every age as there were).

Every safety invariant and action property that a passing run checks is stated by
a theorem. Only model-checked are the liveness properties (`RevokedSessionsLeave`,
`OnlyHungTargetsBlock`, `SecretsAreCleared`, `StartsEnd`, `WindowsReturn`):
fairness is out of the prover's reach.

## What is left out, and the plan

### Not modelled

Left out of the models above: the contents of frames and error bodies, HTTP
authorisation headers, the limits of routes other than pairing, servers without
authentication, the `pages`, `buttons` and `actions` tables (written beside the
snapshot, read by no one), audit rows but for their existence, and
`last_seen_at`. Certificates are abstracted to what `tls.py` compares; ACLs and
file modes to whether setting them failed. `schema_migrations` rows, messages
and menu texts are wording.

Components without a module:

- *Action execution* beyond `ActionExecution`: url and application actions, one
  call of Windows each; text, which is typed on the same keyboard as hotkeys but
  in one `SendInput`, not key by key (a modifier another thread holds may colour
  it); the arithmetic and labels of the telemetry, the choice among graphics
  cards.
- *Transfer format*: a stateless conversion; the write of an import is
  `SaveProfile` or `CreateProfile` of `ProfileStore`.
- *LAN discovery*: one mDNS record while the server runs, which nothing reads.
- *Packaging and scripts*: build and smoke-test tooling.
- *Android client*: Compose state on one thread, cryptography and platform
  storage. Its side of a conversation is the environment of these models: the
  editors of `ProfileStore`, the devices of `WebSocketChannel`, the claims of
  `PairingRoutes`.

Hazards without a property are listed with their reason in `PROJECT.json`: a
change announced while a handshake is between its load and its registration, a
session dropped by a slow broadcast that goes on serving presses, invalidation by
device rather than by generation, hotkeys that disturb each other and keys an
ended process leaves down (both happen, and the properties except them), and the
client's callbacks.

### Built so far, and next

In this order: `RevisionStore`, `CredentialStore`, `WebSocketChannel`,
`ProfileStore` with their proofs; `RateLimiter`, `PairingSession`,
`OneTimePairing`, `PairingRoutes` with `PairingProofs` and `LimiterProofs`; `TlsMaterial`,
`SchemaMigration`, `ServerStart`, `ServerControl` with `ServerProofs`;
`ActionExecution` with `ActionProofs`.

Next:

1. The safety part of the liveness properties: that a session that is to leave
   has a step that takes it out, and a start its next step, as invariants.
2. Lemmas on the functions of `SchemaMigration`: that a migration in two starts
   is the migration in one.
3. `AndroidClient`: socket callbacks of a replaced connection, pending presses,
   optimistic saves and page switches against a server that is `RevisionStore`.
4. The keyboard under a server that releases what an ended process left down.
