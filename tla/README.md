# RouteSync in TLA+

RouteSync (`src/packages/core`, `cli`, `vscode`) lets a user keep several
ChatGPT accounts and API providers for Codex, switch between them, refresh
their tokens and watch their quota. It shares one directory, `CODEX_HOME`, with
Codex itself, with every other editor window and with the command line, and it
changes several files per operation. Nothing but file-system calls orders those
programs. This directory models that part of the program in TLA+, checks it with
TLC and proves much of it with TLAPS.

Read in this order: the inventory, the plan, then one section per model.

## 1. The system

### Components, their state and their operations

| component (source) | state it keeps | operations | what makes it correct |
|---|---|---|---|
| live-switch lock (`core/liveSwitch.ts` 163-311) | directory `.switchbridge-live-switch.lock` with `owner.json`; nesting depth in memory | acquire, recover a stale lock, release, nest | one switch at a time; a dead holder's lock is recovered; nobody removes another's lock |
| live-switch transaction (`core/liveSwitch.ts` 312-711) | `auth.json`, `config.toml`, shared-history route file and its old name, backups with manifest | select account, select provider (shared or separate history), leave provider, roll back, write `auth.json` under a guard | all files change or none; outgoing credentials are saved first; the user's base URL survives |
| config.toml (`core/config.ts`) | the text of `config.toml` | read and set the active provider, route through OpenAI's base URL, restore it, remove a provider | what the user wrote is kept; a restored URL is the original one |
| API providers (`core/providers.ts`) | one saved profile per provider | switch, write back, delete, add, list | a profile holds its own key; deletion touches nothing else |
| auth.json and identity (`core/auth.ts`) | none of its own | read, atomic write, identity, write-back of the current account | tokens go back to the account they belong to |
| accounts (`core/accounts.ts`) | saved accounts; one lock file per account; requests under way | use, add, rename, remove, refresh, query quota | one refresh per account; new tokens reach every copy; nothing is saved twice |
| token refresh (`core/refresh.ts`), quota (`core/quota.ts`), transport (`core/httpTransport.ts`) | none | one HTTP request each | - |
| saved-entry encryption (`core/savedStorage.ts`) | passphrase in memory, encrypted saved files | encrypt, decrypt, change the passphrase | every file can be read with one passphrase |
| saved entries of VS Code (`vscode/savedEntries.ts`) | synced entries with versions and tombstones, protected backups, selection marker | add, update, delete, move between local and synced, refresh, resolve conflicts | no device overwrites a newer version; a rotated token is not lost to a conflict |
| quota store, quota cache, refresh coordinator (`vscode/quotaStore.ts`, `quotaCache.ts`, `refreshCoordinator.ts`) | results per account with a generation; a cache file shared by windows; a queue, a cursor and timers | refresh, rotate over accounts, drop late results, share results | a late result never replaces a newer one; one fetch per account; every account is reached |
| token usage index (`vscode/tokenUsage.ts`) | an index of sessions shared by windows under a leased lock | index, remap, retire, persist and merge | merging loses no session and does not depend on the order |
| history repair (`vscode/historyReconciliation.ts`, `scripts/migrate-history-provider.py`) | rollout files, SQLite state, a backup | migrate, roll back, reconcile | both stores change together; a file that Codex appends to is left alone |
| automatic switch, rate-limit reset, login wait (`vscode/autoSwitch.ts`, `rateLimitReset.ts`, `loginAuthWait.ts`) | a cooldown; one conversation with the app server; a watch on `auth.json` | choose, reset, wait | no oscillation; a reset is not consumed twice; no lost login |
| dashboard, trees, status bar, commands (`vscode/*.ts`, `webview/`) | the last snapshot shown | show, send, execute | the view shows the latest snapshot |
| command line (`cli/`) | none | a shell over the core | - |

### How they interact

* *Shared files.* Every operation above reads and writes files under
  `CODEX_HOME`. `auth.json` and `config.toml` are also written by Codex, which
  takes no lock of RouteSync's.
* *Two kinds of locks.* Switches (`useAccount`, `switchMode`) and the guarded
  write at the end of a refresh take the live-switch lock, a directory made with
  `mkdir`. Refreshes and quota lookups take an account lock, a file created with
  `wx`, and hold it during an HTTP request. A refresh takes the live-switch lock
  while it has the account lock, never the other way round, so the two locks
  cannot wait on each other.
* *Unlocked writers.* Deleting a provider rewrites `config.toml`; reading the
  selection migrates an old route file; adding, renaming and removing accounts
  write saved files. None of them takes the live-switch lock.
* *Calls across an `await`.* A refresh resolves its account, waits for the lock,
  resolves it again, captures `auth.json` if it is that account's, waits for the
  service, then writes the saved file and, if `auth.json` is as captured, that one.

### What is hard

* *Interleavings* of windows, CLI, Codex and the history repair between any two
  file writes, and of two commands of one window between any two updates of VS
  Code's global state.
* *Crashes* between two writes; *locks* judged stale and removed while somebody
  takes them, of three kinds: a directory with an owner (switches), a file
  (accounts), a directory with a file per owner (the quota cache).
* *A refresh token can be used once.* Its answer may be lost, or come after the
  entry it belongs to was renamed, removed or logged in again.
* *State read before a request and used after it*: which account is selected,
  what `auth.json` held, which version an entry had, which request is the newest.
* *Merging without a common order*: Settings Sync carries one key at a time, and
  two windows merge timelines they have both changed.
* *Progress*: pending refreshes are drained by timers and by waiting commands,
  and a rotation must reach every account.

`PROJECT.json` lists 40 such places with their lines. Properties below cover 35 of them. The
other five are a rotation by Codex during a switch (`liveSwitch.ts:660`), which the model has and
the code does not survive, and four that are not modelled: the unlink in the account lock
(`accounts.ts:263`), a partly done re-encryption (`savedStorage.ts:428`), the history
migration (`migrate-history-provider.py:629`) and a repeated rate-limit reset
(`rateLimitReset.ts:255`). Where only a part is covered the entry says which part is not.

## 2. The plan

Order of importance: what may lose a login first, presentation last.

| # | module | models | state |
|---|---|---|---|
| 1 | `SwitchLock` | the live-switch lock, call by call | checked, proved (`SwitchLockProofs`) |
| 2 | `AtomicSwitch`, `LiveSwitch` | what a switch promises, and the transaction write by write | checked, proved (`LiveSwitchProofs`) |
| 3 | `TokenRefresh` | refresh and quota lookup beside switches, Codex and account commands | checked, proved (`TokenRefreshProofs`) |
| 4 | `CloudEntries` | synced accounts: versions, tombstones, copies, markers, Settings Sync | checked, proved (`CloudEntriesProofs`) |
| 5 | `QuotaStore`, `RefreshCoordinator` | results and generations; requests, loops, rotation and automatic switch over them | checked, safety proved (`RefreshCoordinatorProofs`) |
| 6 | `QuotaCache` | both locks of the shared cache and its file | checked, proved (`QuotaCacheProofs`) |
| 7 | `SessionScan`, `UsageTimeline` | reading a session file; whose the tokens are | checked, safety proved (`SessionScanProofs`, `UsageTimelineProofs`) |
| 8 | `AccountLock` | the lock that `TokenRefresh` takes in one step | open; its protocol is that of the account lock in `QuotaCache` |
| 9 | `HistoryMigration`, `PassphraseChange` | rollout files with SQLite; partly rewritten saved files | open |
| 10 | `ConfigToml`, `RateLimitReset`, backup retention, dashboard delivery | pure algorithms and smaller protocols | open |
| 11 | additions to `CloudEntries` | synced providers, moves between local and synced, migration of old storage | open |

`LiveSwitch` implements `AtomicSwitch`. `TokenRefresh` uses a switch in one
step, which that refinement justifies. `RefreshCoordinator` extends `QuotaStore` and
performs its operations, so what is proved of the store holds under the
coordinator (every step of the one is a step of the other, or a stutter). The
remaining models stand alone: they share files with the others only through
operations that are one step there.

Each model has one `MC` module with the symmetry and the sequences a
configuration cannot write, and one `.cfg` per run.

## 3. The live-switch lock: `SwitchLock`

| model | code (`core/liveSwitch.ts`) |
|---|---|
| `present`, `owner`, `age` | the lock directory, the process in its `owner.json`, its age as compared with the grace period and the five minutes |
| `pc[p]` | the call `p` makes next in `acquireSwitchLock`, `recoverStaleSwitchLock` or `release` |
| `depth`, `waited`, `seen` | `heldSwitchLocks`, attempts before the ten-second deadline, the owner read while judging |
| `holder`, `seized` | history: who made the present directory, whose directory was removed by another |
| `Mkdir` `Chmod` `WriteOwner` `OwnFails` | one file-system call each; chmod and the owner write may fail and then remove the directory |
| `ReadOwner` `Judge` `Quarantine` | reading the owner, comparing the age, renaming the directory that is there *then* |
| `Retry` `TimeOut` | another attempt, the deadline |
| `Enter` `Leave` `Finish` `ReadToken` `Remove` `RemoveFails` | nesting, end of the callback, comparing the token, removing |
| `Die` `Tick` | a process is killed anywhere; the directory ages |

Time: `Tick` moves the age over the two limits the code compares. The callbacks
are synchronous, so a live holder reaches five minutes only with `LongHolds` (a
suspended machine). After a recovery the code tries again without comparing its
deadline, and so does the model.

Run `lock_faulty`: two processes of one host, one may be killed at any call,
holds may last five minutes, removal may fail. Plain exclusion is false here
(section 10), so `ExclusiveUnlessSeized` says what is left: two are inside only
when one of them was robbed. `AbandonedLockIsRecovered` and `AcquireSettles` are
liveness properties. Bounds: one dead and one recovering process make every
judgement happen; two retries give a wait that fails before one that succeeds; depth
two is the first nesting. The grace and stale ages are exact, not bounded.

Fairness (`FairSpec`): `WF` of `Tick`, because clocks advance; of the acquisition
loop and of `Release \/ Leave`, because that code is synchronous and runs on; of
`Begin`, because a window takes the lock again from its refresh timers. `Die`,
`OwnFails`, `RemoveFails`, `Enter` are not fair: nothing need ever fail.

Proved (`SwitchLockProofs`), for any set of processes, placement, number of retries and
depth: `TypeCorrect`; `Exclusive` (`[]ExclusiveUnlessSeized`, all faults);
`Exclusion` and `OwnLockReleased` under `Calm` (nobody dies, no long holds, no
failing removals). `MutualExclusion` alone is not inductive: it says nothing of
a process between `mkdir` and `owner.json`. `Possession` does: who has made a
directory and was not robbed has it still. `CalmInv` adds that in a calm run
nobody is robbed, no lock looks abandoned, and the token in `owner.json` is that of
the process inside.

## 4. The transaction: `LiveSwitch` and `AtomicSwitch`

| model | code |
|---|---|
| `live.auth` `live.config` `live.route` `live.legacy` | `auth.json`; `model_provider` and `openai_base_url` of `config.toml`; the shared-history route file; its old name |
| `saved`, `latest` | saved accounts and provider profiles; how often each entry's credentials were rotated |
| `pc`, `job`, `cred`, `backup`, `prior`, `original` | the next write of the switch, what it is for, the target as read, `createBackup`'s snapshots, the route state read at the start, the URL it records |
| `Start` `SyncProvider` `SyncAccount` `ReadTarget` | `useAccount` (`accounts.ts` 755), `switchMode` (`providers.ts`) up to the transaction |
| `TakeBackup` `ReadRoute` ... `Complete` | `runLiveSwitchTransaction` and the three transactions, one write per action |
| `Fail` `Restore*` | a write throws; `restoreSnapshots` file by file |
| `RestoreFails` `Crash` | a restore throws; the process is killed |
| `Rotate` | Codex refreshes `auth.json`, or the user replaces the key in it |
| `DeleteProvider` `RemoveProviderConfig` | `deleteProviderProfile`: reads, then rewrites `config.toml`, no lock |
| `ReadOldRoute` `MigrateOldRoute` | another window migrates the old route file, no lock |

`Faults` names what may happen beside orderly switches: `crash`, `restore` (a
rollback fails), `rotate` (during a switch, between switches it always may),
`delete`, `migrate`. A failing write is no fault: it may always happen.

`Start` takes a target that is saved; one that is not ends the command before it
changes anything. The initial states are those left by completed switches of
this or an older version, with any set of entries saved.

`AtomicSwitch` is what a switch promises: mode, credentials and base URL change
in one step, to a saved entry, and only when the outgoing credentials are
saved. The refinement maps to the snapshots while a transaction runs and to the
live files otherwise, so a transaction commits at `Complete` and a rollback is a
stutter.

Runs:

* `switch_atomic` (two accounts, two providers, no faults): the refinement
  `Atomic`; `SelectionCoherent` (the files agree between switches and in every
  snapshot); `SavedAreOwn`; `ProviderKeysKept` (the newest key of a saved
  provider is in `auth.json` or in its profile at every moment);
  `AccountSwitchRestoresUrl`.
* `switch_hard` (two accounts, one provider; crashes, failing rollbacks,
  deletions, migrations): `AccountTokensKept`.

Bounds: two providers, because switching from one shared provider to another
must keep the first URL; two accounts for source and target; one rotation per entry
(`MaxVer = 2`) tells the newest from an older copy.

Proved (`LiveSwitchProofs`), for all accounts, providers and bounds: `TypeCorrect` with all
faults, from `ControlInv` (what each step knows: a snapshot inside the
transaction, a target once it was read). `TokensKept` for all faults but
`rotate`, from `KeptInv`: `auth.json`, the target and the snapshot each hold the
newest version of whatever account they belong to, and after the write-back so
does every saved account. Without faults `Coherence`, `OwnCredentials`,
`UrlRestored` and the `Refinement`, from `OrderlyInv`, whose part `Progress`
says step by step which files still equal the snapshot and which already equal the
target; and `KeysKept`, the counterpart of `KeptInv` for the keys of providers,
which needs `OrderlyInv` as well, because the write-back of a key trusts
`config.toml` to say whose key it is.

## 5. Refreshing tokens: `TokenRefresh`

| model | code |
|---|---|
| `current`, `saved` | `auth.json` (Nobody while a provider is selected); the saved accounts |
| `server` | the one version of each account's refresh token the service accepts (external) |
| `lock` | the account's lock file |
| `Begin` `Acquire` `TimeOut` `Resolve` `Unresolved` | `refreshAccount` and `queryQuota` (`accounts.ts` 367-551, 817-967): first resolution, `withAccountLock`, second resolution |
| `Capture` | `captureCurrentAuthWriteGuard` (`liveSwitch.ts`) |
| `Exchange` `Refuse` | `refreshAccessToken`: new tokens, a lost answer, a refusal |
| `Save` `SaveFails` `WriteCurrent` `WriteFails` | `persistUpdatedAuth`, `writeCurrentAuthIfUnchanged` |
| `Release` `Crash` `Expire` | release, a killed process, a lock older than five minutes |
| `Switch` `SwitchToProvider` | `useAccount`, `switchMode`, in one step each |
| `CodexRefresh` | Codex renews `auth.json` |
| `AddAccount` `RenameAccount` `RemoveAccount` | the account commands |

Each resolution writes `auth.json` back to the saved account of the same
identity (`syncCurrentAuthToSavedAccount`), in a quota lookup too.

Runs (two tasks, two identities, two names):

* `refresh_calm`: requests by name or for the current account; the selection
  and the entries change only between refreshes. `TokensKept` (the tokens the
  service accepts are in some file or in the hands of the refresh that received
  them), `SavedOnce`, `OneRefresh`, `SavesIntoOwnEntry`. `MaxVer = 3`, because
  a refresh must meet a rotation by Codex.
* `refresh_wild`: switches, renames, removals, expiring locks, crashes, lost
  answers and failing writes. `SelectionSurvivesRefresh`: a refresh, however
  late, replaces the tokens in `auth.json` by newer ones of the same account or
  leaves them alone.

Bounds: two tasks race for one account; two identities and names give a switch
away and back; one or two rotations let a copy be one and two versions behind.

Proved (`TokenRefreshProofs`), for any number of tasks, accounts, names and versions:

* `TypeCorrect` and `SelectionSurvives` under all faults, from `Versions`: no
  copy is ahead of the service, and a captured guard is older than the tokens
  received after it.
* `NoDuplicates` and `OwnEntry` while no entry is renamed or removed during a
  refresh, from `Entries`: the entry a refresh has resolved is there and its
  account's.
* `OneAtATime` under `Undisturbed` (no renames, no expiring locks, and either no
  switch during a refresh or requests by name only), from `Possession`: a task past
  `Acquire` has the lock of the account whose entry its request names, and works
  on that account.
* `TokensSurvive` without faults, from all of these and `Freshness`: `auth.json`
  is behind the service only while a refresh holds the newest tokens with that
  very file as its guard, and a saved account that is not selected only while a
  refresh is about to save it.

## 6. Synced accounts: `CloudEntries`

| model | code (`vscode/savedEntries.ts`, `commands.ts`) |
|---|---|
| `entry`, `index` | per device: the synced payloads and the list of names in VS Code's global state; `None` is no payload, an entry of nobody is a tombstone |
| `backup` | the protected copies on the device |
| `live`, `marker` | `auth.json`, and the account it was taken from with version and token |
| `shared`, `dirty` | what Settings Sync holds, and what a device has still to upload (external) |
| `clock`, `spent`, `consumed`, `abandoned`, `saved` | history: the last token handed out, tokens exchanged, those of them exchanged by a refresh, the exceptions named in `SpentNotOffered`, what was saved on a device |
| `at`, `job` | a command: where it waits, and what it has read |
| `BeginAdd` `BeginRelogin` `LoginAnswers` `LoginCancelled` `AfterLogin` | `addAccount`, `reloginAccount`, `saveAuthAsAccount` |
| `BeginUse` `AfterWriteBack` `Activate` | `syncCurrentAuthToSavedSelection`, `useSavedAccountEntry` |
| `BeginRefresh` `RefreshAnswers` `RefreshFails` `AfterRefresh` | `refreshCloudSavedAccountEntry`, `retryPersistRotatedCloudAuthAfterConflict`, the guarded write of `auth.json` |
| `BeginChange` `ConfirmRemove` `AfterRemove` `ConfirmRename` `WriteRenamed` `AfterRename` | the confirmation, `removeSavedAccountEntry`, `renameSavedAccountEntry` |
| `Restore` `AfterRestore` | `restoreCloudAccountPayloadFromProtectedBackup` |
| `WriteIndex` | `writeSyncedCloudStateIndex`, after every write of an entry |
| `CodexRotates` `Upload` `Download` | Codex renews `auth.json`; Settings Sync moves one key |

An update of the global state is visible at once and waited for afterwards, so a
command is cut at every such wait, and the index it writes is the one it read before.
`Refusal` holds the checks of `writeCloudAccountWithExpectedVersion`, `Older`
those of `shouldSkipOlderCloudAccountAuthWrite`. A write of a login or of a refresh that nothing
refuses may fail all the same (`writeCloudAccountWithExpectedVersion`: the protected copy
cannot be written, or there is no passphrase); the command then ends without a change.

Runs:

* `cloud_device` (one device, two commands at a time, two names, two people,
  beside Codex; log in again, use, refresh, remove, rename): `SpentNotOffered`
  (an account does not offer a token a refresh has exchanged, unless its name
  stood for nothing or for another account when an answer came, or the answer could not be
  written), `KeepsIdentity`
  (no credentials of one person reach another's entry, unless a refresh was
  `Mistaken`), `FreshnessKept` (no command replaces tokens by older ones).
* `cloud_sync` (two devices, one command at a time; add, log in again, remove,
  restore): `ListedUntilRemoved`, `KeepsIdentity`, `StaysRemoved`.
* `cloud_lost` (violation): section 10.

Bounds: two commands are enough for one that is late; two names for a rename and
for a duplicate of a person; four tokens and versions let a login, a refresh and
a rotation of Codex follow each other. Two renamings that deceive a refresh need
three names; that case was found with three, and the theorem below has any
number. The commands are split over the two runs because a restore beside a
renaming breaks `ListedUntilRemoved` (section 10).

Proved (`CloudEntriesProofs`), for any devices, tasks, names, people and commands:
`TypeCorrect`, with what each command carries at each of its steps (`Stage`);
`RemovedStaysRemoved`, `IdentityKept` and `TokensGrow`. All three rest on
`WhoWrites`: credentials come into an entry by a login, by a refresh or by a write-back of
`auth.json`, each with the guard that let it through. A command that carries a
version is refused by a tombstone; a login and a write-back compare the person;
a refresh compares the version or the token it exchanged. For `TokensGrow` the
invariant `DatedInv` adds that no copy anywhere, and nothing a command carries,
is newer than the last token handed out, so a login and a refresh always bring a newer one.

Two theorems have a hypothesis on the commands, and each holds of the run that
checks its property. `StaysListed` (`ListedUntilRemoved`) is proved when the commands
are `Unhurried`: one at a time, or none that drops a protected copy. Section 10 has the
commands that overlap and lose a name. Its invariant `CopyInv` says that every saved account
has a protected copy, and that the copy is in the index or a command is about to write it there.
`ExchangedNotOffered` (`SpentNotOffered`) is proved when they are `Local`: one device
without Settings Sync, and no command that makes a second copy of an account (add,
restore). The history `abandoned` names the tokens it excepts: those whose answer came when the
name stood for nothing, or could not be written, and all tokens of a person whose name stood for
somebody else. Which of these an answer adds is `Forsaken`. With `"add"` or `"restore"` in `Ops` TLC finds a copy of the exchanged token
on one device already. Its `OfferInv` says that the current tokens of a person are
in one place (`Sole`), and which commands still carry them (`Prudent`).

## 7. Quota of a window: `QuotaStore` and `RefreshCoordinator`

| model | code |
|---|---|
| `states`, `generations`, `disposed` | the maps of `QuotaStore` (`quotaStore.ts`) |
| `queries` | the requests of its workers, each with the generation it began with |
| `cache`, `ready` | cached numbers and usable entries, as the store sees them |
| `ReconcileAccounts` `RefreshQuota` `MarkReloginRequired` `Ask` `Answer` `Dispose` | the methods, and what the cache answers: new numbers, cached ones, an error |
| `pending`, `scheduled`, `running` | the requests collected, the timer, `runningRefresh` (`refreshCoordinator.ts`) |
| `pc`, `job` | per loop of `flushScheduledRefresh`: between two awaits |
| `cursor`, `turns` | `lastAutoRefreshAccountId`; history: rotations since an account's turn |
| `auto` | `maybeAutoSwitchExhaustedAccount` (`commands.ts`), between its awaits |
| `owed` | history: accounts somebody asked to refresh and nobody has yet |
| `Tick` `Activate` `RefreshAll` `SwitchTo` `SwitchToProvider` `RefreshDashboard` | the requests: `enqueueQuotaRefresh` in its kinds |
| `CommandRefresh` `CommandMarks` `EntryChanges` | commands that use the store directly; saved entries change |
| `Loop` `TokenAnswer` `QuotaDone` `UsageDone` | one pass of a loop, the token refresh before a turn, the end of a refresh |
| `StartThrows` `QuotaThrows` | `flushQuotaRefresh` throws before or after its first `await`, with the queue drained; the loop and those that wait for it end in the error |
| `AutoOwnQuota` `AutoDecide` `AutoSwitch` | the automatic switch |

Run `quota` (two accounts, two loops, one command, one request per call at a
time, two events, one answer with new numbers, one automatic switch):
`LateAnswerDropped`, `ReloginMarkStays`, `LoadingIsPending` of the store, and
`OneRefreshRuns`, `RotationReachesAll`, `AutoSwitchLeavesExhausted`,
`OwedIsServed`. Two loops are the timer's and a command's that waits; two events are a request
and one that comes while it runs. `MaxGen = 9` is never
reached by two events, so generations are not bounded in effect.

Fairness: `WF` of `Progress`. Timers fire, loops are JavaScript that runs on, and
every request to the service ends in an answer or an error, because the client
gives up after fifteen seconds of silence (`core/quota.ts:140`, `refresh.ts:161`). Nothing the user does is fair. `OwedIsServed` is the liveness
property: what was asked for by name, or by asking for everything, is refreshed,
goes away, or was taken up by a refresh that throws; no later request replaces it and no
loop drops it. A switch to a provider asks for the current account, which is nobody then
(`fullRefresh: false`, `commands.ts:983`), and so owes nothing.

Proved (`RefreshCoordinatorProofs`): for the store alone, with any accounts, callers
and overlapping requests, `StoreTypeCorrect`, `StoreNoneSpins`, `StoreLateAnswers` and
`StoreMarkStays`, from `GenerationInv`: a request is never newer than its account's
generation, two requests of an account have different generations, and the one that is
current has a state to answer into. Every step of the coordinator is a store operation or
leaves the store alone, which carries the three properties over (`NoneSpins`,
`LateAnswersDropped`, `MarksStay`). `TypeCorrect`, `OneAtATime` and `LeavesExhausted` have
invariants of their own (`LoopInv`, `AutoInv`).

`EveryAccountHasItsTurn` is the rotation. The next turn is that of the next usable account
in the list, round its end (`NextAfter`). `RotationInv` bounds the rotations since an account's
turn by the usable accounts that the cursor has passed since (`Passed`); a turn adds the next account to
them, and it is that account itself only when all others are in. An account that
comes or goes starts the count afresh.

## 8. The cache all windows share: `QuotaCache`

| model | code (`vscode/quotaCache.ts`) |
|---|---|
| `file` | the cache file: per account when its numbers were measured |
| `lock`, `dir` | an account's lock file; the lock directory of the cache file with its owner files |
| `at`, `my` | a query or a maintenance: its next file-system call, and what it has read |
| `taken` | history: which kind of lock was taken from a holder that lives |
| `Begin` `JudgeLock` `UnlinkStale` `OpenLock` `WaitForOther` `Fetch` `Release` | `queryQuotaWithCache`, `tryAcquireLock`, `maybeRemoveStaleLock`, `releaseLock` |
| `Mkdir` `WriteOwner` `ReadFile` `RenameFile` `Unlock` `RemoveDir` | `acquireCacheFileLock`, `writeCachedQuotaSnapshot`, `releaseCacheFileLock` |
| `Observe` `Confirm` `Quarantine` `Inspect` | `maybeRecoverStaleCacheFileLock`, `quarantineStaleCacheFileLock` |
| `Maintain` | the maintenance at startup |
| `Die` `DirAges` `LockAges` | a window is killed; thirty seconds pass |

Run `cache` (three tasks, two accounts, one death, one retry): `WritersExclude`,
`NoUpdateLost`, `OneFetch`. Three tasks are a dead holder, one that recovers its
lock and one that comes in between; two accounts make an update that could be
lost. The properties say *unless a lock was taken from a living holder*: the
code has such cases (section 10), and `taken` records every one of them. A
cache file that cannot be read counts as an empty one (`readCacheFile`), which the writer then
enters its answer into; `blank` says that this has happened, and `NoUpdateLost` lets such a
writer drop the others' entries, but not replace them by anything older, and nobody else.

Proved (`QuotaCacheProofs`), for any number of windows, accounts and deaths: `TypeCorrect`,
`WritersAlone`, `UpdatesKept`, `FetchesAlone`. `DirHeld` (whoever made the
directory has it until it removes it) gives exclusion of the writers; `SnapKept` (what a
writer has read is still in the file when it replaces it) gives the updates; `LockHeld` with `Unlocked` does the same
for an account's lock. Each holds until its kind of lock is in `taken`.

## 9. Token usage: `SessionScan` and `UsageTimeline`

`SessionScan` reads one rollout file of Codex (`tokenUsage.ts` 1313-2100).

| model | code |
|---|---|
| `file`, `tail`, `moved` | the complete lines, a line half written, how often a repair has moved the bytes |
| `record`, `size`, `attempt`, `checkpoint` | `SessionUsageRecord`; a scan's fingerprint, attempts and the record it continues |
| `Forward` `ReadOn` `Backward` `Bootstrap` | `forwardScanSession`, `appendSessionUsage`, `reverseScanHistoricalSession`, `bootstrapSessionUsage`, as recursive functions over the lines |
| `Discover` `Scan` `ScanFails` | `discoverSessionFiles`, `scanSessionFile` and its three attempts |
| `Request` `Repeat` `Reset` `Fork` `EndLine` `Rewrite` `Tick` | Codex and the history repair write the file (external) |

Run `scan` (five lines, two units of use, two times with the index built at the
second, one rewrite; Codex repeats counts, forks sessions, and may be a version
that names no request): `AsReadAtOnce` (a file read piece by piece counts as if
read at once), `Conserved` (what is attributed adds up to the total),
`EveryRequestOnce`. Five lines hold a session's head, a fork, and two counts after an
offset; two times put a session before or after the index.

`UsageTimeline` says whose the tokens are (`tokenUsage.ts` 300-1260).

| model | code |
|---|---|
| `mem`, `known` | per window: intervals, remap decisions and retirements; `knownSubjects` |
| `job`, `lock`, `store` | the persists under way, the process lock, the state in VS Code's memento |
| `id`, `had` | what an entry is called; history: who had a name |
| `owner`, `extended` | history: whom an interval was begun for; who extended which interval when |
| `Record` `Rename` `Retire` `Restart` `Add` | `recordSelection` after `selectionTail`, `remapSubject`, `retireSubject`, `readPersistedState`; an entry is added |
| `Merge` `Replay` `Resolve` `Compact` | `mergePersistedStates`, the replay of retirements, `resolveMappedId`, `compactUnknownIntervals` |
| `Acquire` `Write` `Adopt` | `persist`: merge under the lock, write, replace the memory |

The selection is read first and recorded later (`refreshCoordinator.ts:527-541`), so `Record`
takes any name that an entry has or has had, of one that was removed since too. A name that
the window itself has renamed and forgotten is such a late one only with `"forget"` in
`Ops`: recording it undoes the rename (section 10, 20).

Run `usage` (two windows, two people, three names, two ids of removed entries,
two persists per window; an entry is renamed or removed, not both; names are
not used twice): `NothingLost` (a recorded selection is in the store or in a
persist under way), `Attributed`, `RetiredStays` (what belongs to a removed entry
stays its own). `Attributed` has two parts. What was used when an interval was begun goes
to the entry it was begun for, whatever that is called now. A recording that extends
an interval extends one of its own entry, and until another selection is recorded the usage goes to
that entry or to nobody; the window may not have heard of another's newer interval, and then
the usage since is that other's (section 10, 19). Nine milliseconds with two per
operation give four operations, enough for each window to have heard of one and not of the other;
an interval lasts four (`Gap`), so that a window extends one after another window has stored a newer one.
The run has 2153066 distinct states.

Proved for the index (`UsageTimelineProofs`), with any windows, names and persists:
`TypeCorrect`, `NothingRecordedIsLost` (`NothingLost`), `UsageIsAttributed` (`Attributed`)
and `RemovedUsageStays` (`RetiredStays`). `UsageInv` keeps, per
persist and step, what its merged state covers: while a window holds the lock nobody
else replaces the store, a merge covers both of its sides (`Covers`), and a state that is
written has every selection of the store before it.

The last two need more: each window, each persist and the store has heard of some
renamings and removals and not of others, and no single state says what an entry was
called. `Explained` says that there is *one* history `h` of renamings, removals and
recorded owners that explains all of them at once:

* `Past(h)`: renamings lead on in time and stay within one entry; a removed
  entry had one name and was not selected under it after its removal;
* `Fits(s, h)`: the state `s` tells part of `h`. Its decisions are renamings of `h`, its
  intervals belong to who was selected under their names, and a state that knows of a
  removal has nothing left under the removed name;
* `Told`: every renaming and removal of `h` is in the store or in a persist under way.

A merge of two states that fit fits, and tells what either side told (`MergeFits`,
`ReplayFits`); every action keeps `h` or adds its own event (one lemma per action,
`ExplainedStep`). `WalkEnds` shows that `resolveMappedId` stops within the bound the model
gives it: times grow along the walk. A second invariant (`Extensions`) says that every
extension is of an interval that was begun for the same entry (`ExtensionsStep`).

Hypothesis `Once` of these two: names are not used twice (`~Reuse`), no entry is both
renamed and removed (`"both" \notin Ops`), and no window undoes its own rename by a late
record (`"forget" \notin Ops`). TLC shows that each part is needed: without the first or the second,
both properties fail with two windows (section 10, 17 and 18), without the third `Attributed`
does (20). The run `usage` satisfies it.

Proved for the readings (`SessionScanProofs`), with files of any length and any
amounts and times: `TypeCorrect`, `AllAttributed` (`Conserved`), `PiecesAddUp`
(`AsReadAtOnce`) and `RequestsCountOnce` (`EveryRequestOnce`). A reading is a recursive
function over the number of lines read, so its properties are proved by induction on that
number (`Least`, `Inductive`). `Known` says what a reading from the beginning knows after some
lines. `Like` compares two sessions in everything that counts, and
`Reaches(s, w, k)` says that `s` is like that reading after `k` lines of `w`. Each way to read
reaches the line where it stops: from the end (`BackwardLike`), the choice between the two
(`BootstrapLike`), and on from where another one stopped, or from one line before (`ReadOnLike`,
`AppendAgain`), for the line without its newline may have been read already.
`OrderInv` says which files Codex writes, and `RecordInv` that every record and checkpoint reaches the line of its
offset or the one after it; the two are inductive with the types.

Their hypotheses are on what Codex writes, and TLC shows that each is needed:

| hypothesis | means | without it |
|---|---|---|
| `Steady`, of `AllAttributed` | not `bare`, `fork` and `reset` together | with all three `Conserved` fails: a forked session read from its end starts afresh below what it inherited |
| `Regular`, of the other two | no `reset`; a forked file is from before the index | with `reset` both fail (section 10); with `fork` and `InitializedAt = 1`, `EveryRequestOnce` fails (section 10) |
| `Dated`, of `PiecesAddUp` | not `undated` | with `undated` `AsReadAtOnce` fails: a file whose last count carries no time is taken for one from before the index |

The run `scan` satisfies all three. `RequestsCountOnce` does not need `Dated`.

## 10. Where code and documentation part

A run shows the first; the others were met while modelling, and the models
contain them. The runs above state their properties where they hold.

*Synced accounts.*

1. *The healed marker* (`cloud_lost`, `savedEntries.ts:2231`). After a new login
   of the account in use its marker is behind the entry. The next switch sets
   the marker right and skips the write-back, although Codex may have rotated
   `auth.json` since: the newest tokens are lost, against
   `docs/synced-cloud-state.md:33-35`.
2. A refresh compares versions only (`savedEntries.ts:2786`). Two renamings while
   the service is asked can give its name to another account of the same version,
   and the refresh writes one person's credentials into the other's entry
   (`Mistaken`). A renaming alone makes it lose the rotated token.
3. Renaming and restoring one account, or restoring and removing two at once,
   lose a name of the index: each writes back the list it read before
   its wait. A restore does not look for a duplicate of the person, the
   second half of a renaming overwrites an entry added in its gap, and a tombstone can be renamed.
4. A rotation by Codex between the write-back and the activation is lost.
5. A cancelled addition sets the marker back to the account that was selected
   before, under the name it had then. If that was renamed meanwhile the next
   switch writes `auth.json` back under the old name, and the payload is there
   again (against the row "Do not auto-heal" of `synced-cloud-state.md:59`).

*Locks and switches.*

6. *The recovery race* (`liveSwitch.ts:203`). Two processes judge the lock of a
   dead one; the second renames away what the first has just made. Both run their
   switch, against `README.md:41`. `quotaCache.ts:407` looks again at the
   directory it moved, but puts it back over a directory another window has just
   made, if that is still empty; its release removes an empty directory whoever made it.
7. *A killed provider switch* (`liveSwitch.ts:635`). Between `config.toml` and the
   route state the base URL points to the provider and nothing records the
   original; the next switch to an account keeps it, against `README.md:145`.
8. *Deleting a provider* (`providers.ts:298`) and migrating an old route file
   (`liveSwitch.ts:415`) rewrite files of a switch without its lock, against
   `README.md:213`.
9. A rotation by Codex between the write-back and the replacement of `auth.json`
   is lost (`liveSwitch.ts:660`; `Faults = {"rotate"}`).
10. *Selecting an account during its refresh* (`auth.ts:385`). No guard was
    captured, because it was not current; `auth.json` keeps the used tokens, and
    the next write-back copies those over the new ones, against `README.md:213`.
11. *A quota lookup by the CLI writes* (`accounts.ts:139`) the tokens of
    `auth.json` into the saved account, against `README.md:215`.

*Quota.*

12. `commands.ts:1378` passes an id where an account is expected, so that refresh
    is for nobody. A request for "the current selection" is replaced by a later
    tick of the timer or an explicit request.
13. A switch the user makes while an automatic switch writes credentials back is
    overridden (`auto.late`).
14. Cached numbers are returned although `allowCachedFallback` is false, while
    another window holds the account's lock (`quotaCache.ts:711`, against
    `docs/superpowers/specs/2026-08-12-sidebar-dashboard-design.md:64`; its line 51 names the coordinator as
    the only unit that starts quota refreshes, but commands do too).
15. A fallback shows numbers read before the request with the measuring time of
    the cache as it is now, and a slow older answer replaces a newer cache entry.

*Usage.*

16. A session from before the index whose running total starts afresh, with named
    requests, loses what came before (`tokenUsage.ts:2057`, against
    `test/tokenUsage.test.js:269`); one that was forked reads 0 when its total falls below the inherited one.
    `Habits` has `reset` for these; `AsReadAtOnce` fails with it. A file whose last
    count carries no time is read from its end as an old one, which gives the counts before
    it to the time before the index whatever their time (`undated`, `tokenUsage.ts:1525`).
    A reading of a new forked file that stops right after the metadata of its own session
    takes the next request for a repetition if its total equals the inherited one
    (`tokenUsage.ts:1711`); a reading from the beginning counts it.
17. An entry that is renamed and then removed by one window can get its old usage
    back from another that has not heard of it (`tokenUsage.ts:985-1000`, against
    the tests at 1104 and 1182). `Ops = {"rename", "remove", "both"}` shows it. One
    window suffices when its persists overlap, which nothing prevents: the memory
    an earlier one adopts does not have the renaming that a later one carries.
18. A name that is used again can inherit usage of the entry that had it before,
    from a window that has not heard of the change (`Reuse`). One window with one persist
    is enough for the reverse: entry `b` is removed, `a` is renamed to `b`, and the
    next merge replays the removal of `b` on the old intervals of `a`, which are
    now called `b` (`tokenUsage.ts:979`): they go to the removed entry.
19. A window that has not heard of another's selection goes on extending its own interval. The
    merge keeps both, and what was used since belongs to the newer interval
    (`tokenUsage.ts:331-343`, `2074-2100`): to the other entry, or to nobody when that one has
    ended. An extension is also lost when another window persists its older copy of the
    interval, because the local copy wins (`tokenUsage.ts:967`).
20. A window that has renamed an entry and records a selection read before it undoes the rename:
    the old name is an alias it does not know any more, and `rememberSubject` makes it a
    name of its own again (`tokenUsage.ts:769-772`). `"forget"` in `Ops` shows it.

*When something fails.*

21. A quota refresh drains the queue before it reads the saved entries
    (`refreshCoordinator.ts:333`). If that throws, or the status bar with nobody to query, nobody
    asks for what was drained again, and the commands that wait for the refresh end in its error.
22. A window that cannot read or parse the cache file takes it for empty and replaces it by its
    own entry alone (`quotaCache.ts:351-358`, `653-663`).
23. When the protected copy of a synced account cannot be written after the service has
    exchanged the token, or the passphrase has gone meanwhile, the new tokens are dropped, and
    the entry offers the one that is used up (`savedEntries.ts:1781`, `1830-1841`,
    `2848-2871`). Nothing tries again: only a conflict is followed by a second write.

## 11. Proved, checked, left out

*Proved* for every value of the constants: the theorems named above, from the
assumptions of the modules (`...Assumption`: the null values are no members of
the sets, numbers are natural, the operations and faults are those the module
knows) and, where a theorem says so, from `Calm`, `Undisturbed`, `Unhurried`, `Local`, `Steady`,
`Regular`, `Dated`, `Once` or the faults it excludes.
Each safety theorem is Init, step and PTL: an inductive invariant that contains
the property, one lemma per group of actions.

What a recursive function gives for every input is proved by hand, by induction over
the lines read, from the well-founded order of the naturals; the library's induction
theorems, which take an operator, cannot be instantiated by the installed provers.

*Only model-checked*: the liveness properties `AbandonedLockIsRecovered`,
`AcquireSettles` and `OwedIsServed`, which are out of the prover's reach, as is `ENABLED`. Every
invariant and action property of a passing run is stated by a theorem.

*Seeded faults.* Definitions marked "Seeded fault" are no part of a
specification. Each is a plausible mistake in the operator that follows it
(a dropped guard, a missing reset, a swapped order), and with it in place TLC
finds the property violated that it belongs to.

*Abstracted.* Credentials are owner and version; a URL is the user's or that of a
provider; `config.toml` is its two routing keys; quota numbers are the time they
were measured; the five token counters are one. A copy (`copyFileSync`) and an
atomic write are one step each. In `TokenRefresh` and `CloudEntries` reading and
writing one file is one step, a switch is one step (justified by the refinement
while rollbacks succeed and nobody is killed), and the account lock is one step.
The clocks of two devices agree. Process ids are not reused. A successful
refresh always rotates the token.

### Not modelled

* *Pure I/O and pure functions*: the HTTP transport, the quota request and its
  parser, paths, token decoding, expiry arithmetic, provider tables in
  `config.toml`, quota proxy and provider forms, logging. Nothing of theirs
  outlives a call.
* *A shell over modelled operations*: the command line.
* *Presentation of snapshots*: status bar, trees, dashboard.
* *Another program's side of a protocol*: the rate-limit reset speaks with
  Codex's app server. A login is one step, answered or cancelled.
* *Sequential and unfinished here*: re-encryption after a change of the storage
  password, the history migration with SQLite (its effect on a file being
  indexed is `Rewrite`).
* *Failures beside those the models name*: an update of VS Code's global state that is
  rejected after it was visible; what `QuotaStore` shows of a cache file it cannot read.
* *Parts of modelled components*: retention of old backups and the manifest's
  contents; synced providers, moving entries between local and synced storage,
  migration of old storage; in-flight queries shared within a window, expiry and
  normalisation of cache entries; failing persists, the lease of the usage lock
  and attribution of usage from before the index.

`PROJECT.json` lists every component with its status.
