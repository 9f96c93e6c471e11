----------------------------- MODULE LiveSwitch -----------------------------
(***************************************************************************)
(* The live-switch transaction: useAccount (accounts.ts), switchMode       *)
(* (providers.ts) and the file writes they make under the live-switch lock *)
(* (liveSwitch.ts, config.ts, auth.ts).                                    *)
(*                                                                         *)
(* Four files make up the live state: auth.json, config.toml, the          *)
(* shared-history route and its predecessor under the old file name.  Each *)
(* action writes at most one of them, so that a failed write, a killed     *)
(* process, Codex and the code that does not take the lock can come in     *)
(* between any two.                                                        *)
(*                                                                         *)
(* SwitchLock shows when the lock excludes a second switch; here one       *)
(* switch runs at a time.                                                  *)
(*                                                                         *)
(* Credentials are [of, ver]: whose they are and how often they have been  *)
(* rotated.  A base URL is the user's own value (or its absence) or the    *)
(* provider it points to.  config.toml is reduced to the two top-level     *)
(* keys that route requests.                                               *)
(***************************************************************************)
EXTENDS Naturals

CONSTANTS
    Accounts,     \* saved ChatGPT accounts
    Providers,    \* saved API providers
    UserUrl,      \* openai_base_url as the user configured it, or its absence
    Nobody,       \* no provider, no saved entry, no route, nothing captured
    MaxVer,       \* bound on rotations of one entry's credentials
    Faults        \* what else may happen, see below

ASSUME ConstantsAssumption ==
    /\ Accounts \cap Providers = {}
    /\ UserUrl \notin Providers
    /\ Nobody \notin Accounts \cup Providers
    /\ MaxVer \in Nat
    /\ Faults \subseteq {"crash",    \* the switching process is killed
                         "restore",  \* restoring a snapshot throws
                         "rotate",   \* auth.json is rotated during a switch
                         "delete",   \* a provider is deleted during a switch
                         "migrate"}  \* another window migrates the old route

VARIABLES
    live,         \* the live files: [auth, config, route, legacy]
    saved,        \* per entry: its saved credentials, or Nobody
    latest,       \* history: the newest version of each entry's credentials
    pc,           \* the next step of the switch
    job,          \* [kind, target] of the switch
    cred,         \* target credentials as read from the saved store
    backup,       \* the snapshots of the live files
    prior,        \* route state read at the start of the transaction
    original,     \* originalOpenAIBaseUrl a shared switch will record
    deletion,     \* [name, config]: config.toml text a deletion has read
    reader        \* old route state another window has read

switch == <<pc, job, cred, backup, prior, original>>
vars == <<live, saved, latest, switch, deletion, reader>>

Entries == Accounts \cup Providers
Kinds == {"account", "shared", "separate", "leave"}
Urls == {UserUrl} \cup Providers
Credentials == [of : Entries, ver : Nat]
Configs == [model : Providers \cup {Nobody}, url : Urls]
RouteStates == [active : Providers, original : Urls]
Routes == RouteStates \cup {Nobody}
LiveFiles == [auth : Credentials, config : Configs, route : Routes, legacy : Routes]

\* null is no object.
ASSUME NullAssumption == Nobody \notin Credentials \cup RouteStates

Before == {"syncProvider", "syncAccount", "readTarget", "backup"}
Mutating == {"readRoute", "writeAuth", "clearProvider", "throughOpenAI",
             "activate", "restoreUrl", "writeRoute", "removeRoute",
             "removeLegacy", "complete"}
Restoring == {"restoreAuth", "restoreConfig", "restoreRoute", "restoreLegacy"}

TypeOK ==
    /\ live \in LiveFiles
    /\ saved \in [Entries -> Credentials \cup {Nobody}]
    /\ latest \in [Entries -> Nat]
    /\ pc \in {"idle"} \cup Before \cup Mutating \cup Restoring
    /\ job \in [kind : Kinds, target : Entries \cup {Nobody}]
    /\ cred \in Credentials \cup {Nobody}
    /\ backup \in LiveFiles \cup {Nobody}
    /\ prior \in Routes
    /\ original \in Urls
    /\ deletion \in [name : Providers, config : Configs] \cup {Nobody}
    /\ reader \in Routes

-----------------------------------------------------------------------------
(* Reading the live state *)

\* getSharedHistoryRouteState: the current file wins over the old one.
RouteOf(files) == IF files.route # Nobody THEN files.route ELSE files.legacy

\* ... and a route found under the old name is moved to the current one.
Migrated(files) ==
    [files EXCEPT !.route = RouteOf(files),
                  !.legacy = IF files.route = Nobody THEN Nobody ELSE @]

\* getEffectiveActiveProvider: config.toml, then the shared-history route.
Active(files) ==
    CASE files.config.model # Nobody -> files.config.model
      [] files.config.model = Nobody /\ RouteOf(files) # Nobody -> RouteOf(files).active
      [] OTHER -> Nobody

\* Looking for the active provider migrates the old route file as well.
AfterLookup(files) ==
    IF files.config.model # Nobody THEN files ELSE Migrated(files)

AccountConfig == [model |-> Nobody, url |-> UserUrl]

\* Live states left by completed switches of this or an older version; the
\* current account may be an unsaved login, and the current provider one that
\* has no local file.
SettledFiles ==
    {[auth |-> [of |-> e, ver |-> 1], config |-> AccountConfig,
      route |-> Nobody, legacy |-> Nobody] : e \in Entries}
    \cup
    {[auth |-> [of |-> p, ver |-> 1], config |-> [model |-> p, url |-> UserUrl],
      route |-> Nobody, legacy |-> Nobody] : p \in Providers}
    \cup
    {[auth |-> [of |-> p, ver |-> 1], config |-> [model |-> Nobody, url |-> p],
      route |-> [active |-> p, original |-> UserUrl], legacy |-> Nobody] : p \in Providers}
    \cup
    {[auth |-> [of |-> p, ver |-> 1], config |-> [model |-> Nobody, url |-> p],
      route |-> Nobody, legacy |-> [active |-> p, original |-> UserUrl]] : p \in Providers}

NoJob == [kind |-> "leave", target |-> Nobody]

Init ==
    /\ live \in SettledFiles
    /\ \E known \in SUBSET Entries :
         saved = [e \in Entries |->
                    IF e \in known THEN [of |-> e, ver |-> 1] ELSE Nobody]
    /\ latest = [e \in Entries |-> 1]
    /\ pc = "idle"
    /\ job = NoJob
    /\ cred = Nobody
    /\ backup = Nobody
    /\ prior = Nobody
    /\ original = UserUrl
    /\ deletion = Nobody
    /\ reader = Nobody

Others == UNCHANGED <<latest, deletion, reader>>

\* What a switch has read lives no longer than the switch.
Over ==
    /\ pc' = "idle"
    /\ job' = NoJob
    /\ cred' = Nobody
    /\ backup' = Nobody
    /\ prior' = Nobody
    /\ original' = UserUrl

-----------------------------------------------------------------------------
(* Before the transaction: write the outgoing credentials back, read the    *)
(* incoming ones, take the snapshots.                                       *)

\* useAccount, or switchMode for a provider or for "account".
Start(kind, target) ==
    /\ pc = "idle"
    /\ deletion # Nobody => "delete" \in Faults
    /\ CASE kind = "account" -> target \in Accounts
         [] kind = "leave"   -> target = Nobody
         [] OTHER            -> target \in Providers
    /\ target # Nobody => saved[target] # Nobody
    /\ job' = [kind |-> kind, target |-> target]
    /\ pc' = "syncProvider"
    /\ UNCHANGED <<live, saved, cred, backup, prior, original>>
    /\ Others

\* Seeded fault: only a provider selected in config.toml is written back.
SyncSelectedProvider ==
    /\ pc = "syncProvider"
    /\ live' = AfterLookup(live)
    /\ LET p == live.config.model
       IN  saved' = IF p # Nobody /\ saved[p] # Nobody /\ live.auth.of \in Providers
                      THEN [saved EXCEPT ![p] = live.auth]
                      ELSE saved
    /\ pc' = IF job.kind = "leave" THEN "backup" ELSE "syncAccount"
    /\ UNCHANGED <<job, cred, backup, prior, original>>
    /\ Others

\* syncCurrentAuthToSavedProvider: an API key in auth.json is merged into the
\* profile of the active provider, whoever it was issued to; account tokens
\* are not, and a provider without a saved file is skipped.
SyncProvider ==
    /\ pc = "syncProvider"
    /\ live' = AfterLookup(live)
    /\ LET p == Active(live)
       IN  saved' = IF p # Nobody /\ saved[p] # Nobody /\ live.auth.of \in Providers
                      THEN [saved EXCEPT ![p] = live.auth]
                      ELSE saved
    /\ pc' = IF job.kind = "leave" THEN "backup" ELSE "syncAccount"
    /\ UNCHANGED <<job, cred, backup, prior, original>>
    /\ Others

\* Seeded fault: switchMode forgets to write account tokens back.
SyncAccountOnUse ==
    /\ pc = "syncAccount"
    /\ saved' = IF job.kind = "account" /\ live.auth.of \in Accounts
                       /\ saved[live.auth.of] # Nobody
                  THEN [saved EXCEPT ![live.auth.of] = live.auth]
                  ELSE saved
    /\ pc' = "readTarget"
    /\ UNCHANGED <<live, job, cred, backup, prior, original>>
    /\ Others

\* Seeded fault: the tokens are written back to the account that was chosen.
SyncToTarget ==
    /\ pc = "syncAccount"
    /\ saved' = IF job.kind = "account" /\ live.auth.of \in Accounts
                  THEN [saved EXCEPT ![job.target] = live.auth]
                  ELSE saved
    /\ pc' = "readTarget"
    /\ UNCHANGED <<live, job, cred, backup, prior, original>>
    /\ Others

\* syncCurrentAuthToSavedAccount: account tokens go to the saved account of
\* the same identity.
SyncAccount ==
    /\ pc = "syncAccount"
    /\ saved' = IF live.auth.of \in Accounts /\ saved[live.auth.of] # Nobody
                  THEN [saved EXCEPT ![live.auth.of] = live.auth]
                  ELSE saved
    /\ pc' = "readTarget"
    /\ UNCHANGED <<live, job, cred, backup, prior, original>>
    /\ Others

\* The target is read after the write-back, which may have changed it; it may
\* have disappeared.
ReadTarget ==
    /\ pc = "readTarget"
    /\ \/ /\ saved[job.target] # Nobody
          /\ cred' = saved[job.target]
          /\ pc' = "backup"
          /\ UNCHANGED <<job, backup, prior, original>>
       \/ /\ saved[job.target] = Nobody
          /\ Over
    /\ UNCHANGED <<live, saved>>
    /\ Others

\* createBackup
TakeBackup ==
    /\ pc = "backup"
    /\ backup' = live
    /\ pc' = "readRoute"
    /\ UNCHANGED <<live, saved, job, cred, prior, original>>
    /\ Others

\* An error before the snapshots are complete ends the switch.
GiveUp ==
    /\ pc \in Before
    /\ Over
    /\ UNCHANGED <<live, saved>>
    /\ Others

-----------------------------------------------------------------------------
(* The transaction: activateAccountAuth, activateProviderProfile,           *)
(* deactivateProviderRoute                                                  *)

\* One file write of the transaction, and the step after it.
Write(step, files, next) ==
    /\ pc = step
    /\ live' = files
    /\ pc' = next
    /\ UNCHANGED <<saved, job, cred, backup>>
    /\ Others

KeepRead == UNCHANGED <<prior, original>>

\* The last step of a switch, one way or another.
Finish(step, files) ==
    /\ pc = step
    /\ live' = files
    /\ Over
    /\ UNCHANGED saved
    /\ Others

\* The step after the route has been read or cleared: the separate-history
\* switch still has everything to write.
AfterRoute == IF job.kind = "separate" THEN "writeAuth" ELSE "complete"

\* Seeded fault: the URL of the previous shared provider is recorded.
ReadRouteAfresh ==
    /\ Write("readRoute", Migrated(live),
          CASE job.kind = "leave" -> "clearProvider"
            [] job.kind = "separate" /\ RouteOf(live) # Nobody -> "restoreUrl"
            [] OTHER -> "writeAuth")
    /\ prior' = RouteOf(live)
    /\ original' = live.config.url

ReadRoute ==
    LET found == RouteOf(live)
    IN  /\ Write("readRoute", Migrated(live),
              CASE job.kind = "leave" -> "clearProvider"
                [] job.kind = "separate" /\ found # Nobody -> "restoreUrl"
                [] OTHER -> "writeAuth")
        /\ prior' = found
        /\ original' = IF found # Nobody THEN found.original ELSE live.config.url

WriteAuth ==
    /\ Write("writeAuth", [live EXCEPT !.auth = cred],
          CASE job.kind = "account" -> "clearProvider"
            [] job.kind = "shared" -> "throughOpenAI"
            [] OTHER -> "activate")
    /\ KeepRead

\* Seeded fault: leaving a provider does not restore the base URL.
ClearProviderOnly ==
    /\ Write("clearProvider", [live EXCEPT !.config.model = Nobody],
          IF prior # Nobody /\ job.kind = "account" THEN "restoreUrl" ELSE "complete")
    /\ KeepRead

\* clearActiveModelProvider
ClearProvider ==
    /\ Write("clearProvider", [live EXCEPT !.config.model = Nobody],
          IF prior # Nobody THEN "restoreUrl" ELSE "complete")
    /\ KeepRead

\* restoreOpenAIBaseUrl
RestoreUrl ==
    /\ Write("restoreUrl", [live EXCEPT !.config.url = prior.original], "removeRoute")
    /\ KeepRead

\* clearSharedHistoryRouteState removes the two files in this order.
RemoveRoute ==
    /\ Write("removeRoute", [live EXCEPT !.route = Nobody], "removeLegacy")
    /\ KeepRead

RemoveLegacy ==
    /\ Write("removeLegacy", [live EXCEPT !.legacy = Nobody], AfterRoute)
    /\ KeepRead

\* activateProviderThroughOpenAI: one write of config.toml.
ThroughOpenAI ==
    /\ Write("throughOpenAI",
          [live EXCEPT !.config = [model |-> Nobody, url |-> job.target]], "writeRoute")
    /\ KeepRead

\* writeSharedHistoryRouteState
WriteRoute ==
    /\ Write("writeRoute",
          [live EXCEPT !.route = [active |-> job.target, original |-> original]],
          "removeLegacy")
    /\ KeepRead

\* activateProviderConfig
Activate ==
    /\ Write("activate", [live EXCEPT !.config.model = job.target], "complete")
    /\ KeepRead

\* The manifest is marked complete: the switch has succeeded.
Complete == Finish("complete", live)

\* Any write, or the manifest update, throws: rollbackFailedSwitch.
Fail ==
    /\ pc \in Mutating
    /\ Write(pc, live, "restoreAuth")
    /\ KeepRead

\* restoreSnapshots, file by file.
RestoreAuth ==
    /\ Write("restoreAuth", [live EXCEPT !.auth = backup.auth], "restoreConfig")
    /\ KeepRead
RestoreConfig ==
    /\ Write("restoreConfig", [live EXCEPT !.config = backup.config], "restoreRoute")
    /\ KeepRead
\* Seeded fault: the route state has no snapshot.
RestoreNoRoute ==
    /\ Write("restoreRoute", live, "restoreLegacy")
    /\ KeepRead

RestoreRoute ==
    /\ Write("restoreRoute", [live EXCEPT !.route = backup.route], "restoreLegacy")
    /\ KeepRead
RestoreLegacy == Finish("restoreLegacy", [live EXCEPT !.legacy = backup.legacy])

\* A restore throws: the snapshots are kept and the rest is not restored.
RestoreFails ==
    /\ "restore" \in Faults
    /\ pc \in Restoring
    /\ Finish(pc, live)

\* The process is killed.  Nothing restores a "prepared" backup later.
Crash ==
    /\ "crash" \in Faults
    /\ pc # "idle"
    /\ Finish(pc, live)

-----------------------------------------------------------------------------
(* What runs without the live-switch lock *)

\* Codex refreshes the account in auth.json, or the user replaces the key of
\* the active provider.
Rotate ==
    LET e == live.auth.of
    IN  /\ pc = "idle" \/ "rotate" \in Faults
        /\ e \in Accounts \/ e = Active(live)
        /\ latest[e] < MaxVer
        /\ latest' = [latest EXCEPT ![e] = @ + 1]
        /\ live' = [live EXCEPT !.auth.ver = latest[e] + 1]
        /\ UNCHANGED <<saved, switch, deletion, reader>>

\* deleteProviderProfile: an inactive provider's file goes, then config.toml
\* is read for removeProviderConfig ...
DeleteProvider(p) ==
    /\ pc = "idle" \/ "delete" \in Faults
    /\ deletion = Nobody
    /\ saved[p] # Nobody
    /\ Active(live) # p
    /\ live' = AfterLookup(live)
    /\ saved' = [saved EXCEPT ![p] = Nobody]
    /\ deletion' = [name |-> p, config |-> live.config]
    /\ UNCHANGED <<latest, switch, reader>>

\* ... and written back without the provider.
RemoveProviderConfig ==
    /\ deletion # Nobody
    /\ live' = [live EXCEPT !.config =
                 IF live.config.model = deletion.name
                   THEN [deletion.config EXCEPT !.model = Nobody]
                   ELSE deletion.config]
    /\ deletion' = Nobody
    /\ UNCHANGED <<saved, latest, switch, reader>>

\* Any window that shows the selection migrates the old route file; here it
\* has read it ...
ReadOldRoute ==
    /\ "migrate" \in Faults
    /\ reader = Nobody
    /\ live.route = Nobody /\ live.legacy # Nobody
    /\ reader' = live.legacy
    /\ UNCHANGED <<live, saved, latest, switch, deletion>>

\* ... and writes it under the new name.
MigrateOldRoute ==
    /\ reader # Nobody
    /\ live' = [live EXCEPT !.route = reader, !.legacy = Nobody]
    /\ reader' = Nobody
    /\ UNCHANGED <<saved, latest, switch, deletion>>

Sync == SyncProvider \/ SyncAccount
Mutate ==
    \/ ReadRoute \/ WriteAuth \/ ClearProvider \/ RestoreUrl \/ RemoveRoute
    \/ RemoveLegacy \/ ThroughOpenAI \/ WriteRoute \/ Activate \/ Complete
Rollback ==
    \/ Fail \/ RestoreAuth \/ RestoreConfig \/ RestoreRoute \/ RestoreLegacy
Environment ==
    \/ RestoreFails \/ Crash \/ Rotate
    \/ RemoveProviderConfig \/ ReadOldRoute \/ MigrateOldRoute
    \/ \E p \in Providers : DeleteProvider(p)

Next ==
    \/ \E kind \in Kinds, target \in Entries \cup {Nobody} : Start(kind, target)
    \/ Sync \/ ReadTarget \/ TakeBackup \/ GiveUp
    \/ Mutate \/ Rollback \/ Environment

Spec == Init /\ [][Next]_vars

-----------------------------------------------------------------------------
(* Properties *)

\* The route the files give requests, read as a mode of AtomicSwitch.
ModeOf(files) ==
    [via |-> CASE files.config.model # Nobody -> "separate"
               [] files.config.model = Nobody /\ RouteOf(files) # Nobody -> "shared"
               [] OTHER -> "account",
     provider |-> Active(files)]

\* Until a switch is marked complete, what counts is the state its snapshots
\* hold; the rest of the time it is the live files.
Committed == IF pc \in Mutating \cup Restoring THEN backup ELSE live

Abstract == INSTANCE AtomicSwitch WITH
    mode <- ModeOf(Committed), auth <- Committed.auth, url <- Committed.config.url

\* A switch without a crash and with rollbacks that succeed is atomic: it
\* implements AtomicSwitch (runLiveSwitchTransaction, rollbackFailedSwitch).
Atomic == Abstract!Spec

\* A file system state in which the three files agree: requests go where the
\* selection says, with the credentials of the selection, and the route state
\* remembers the user's own base URL.
Coherent(files) ==
    /\ RouteOf(files) # Nobody =>
         /\ files.config = [model |-> Nobody, url |-> RouteOf(files).active]
         /\ RouteOf(files).original = UserUrl
    /\ RouteOf(files) = Nobody => files.config.url = UserUrl
    /\ Active(files) \in {Nobody, files.auth.of}

\* Between switches the live files are coherent; during one, its snapshots
\* are, so that a rollback leads back to a coherent state
\* (createBackup, restoreSnapshots).
SelectionCoherent ==
    /\ pc = "idle" => Coherent(live)
    /\ pc \in Mutating \cup Restoring => Coherent(backup)

\* A saved provider or account never holds somebody else's credentials
\* (mergeCurrentAuthIntoProviderProfile, syncCurrentAuthToSavedAccount).
SavedAreOwn == \A e \in Entries : saved[e] # Nobody => saved[e].of = e

\* The newest tokens of every saved account are in auth.json or in its saved
\* file, at every moment and whatever crashes: account refresh tokens are
\* replaced on use, so a lost version means a new login
\* (syncCurrentAuthToSavedAccount before writeCurrentAuth).
AccountTokensKept ==
    \A a \in Accounts :
        saved[a] # Nobody =>
            [of |-> a, ver |-> latest[a]] \in {live.auth, saved[a]}

\* The same for the API keys of providers, as long as switches end orderly
\* (syncCurrentAuthToSavedProvider).
ProviderKeysKept ==
    \A p \in Providers :
        saved[p] # Nobody =>
            [of |-> p, ver |-> latest[p]] \in {live.auth, saved[p]}

\* A completed switch to account mode leaves the user's own base URL
\* (activateAccountAuth, deactivateProviderRoute, restoreOpenAIBaseUrl).
AccountSwitchRestoresUrl ==
    [][Complete /\ job.kind \in {"account", "leave"}
         => live.config.url = UserUrl]_vars
=============================================================================
