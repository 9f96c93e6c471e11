-------------------------- MODULE LiveSwitchProofs --------------------------
(***************************************************************************)
(* Proofs about LiveSwitch for any accounts, providers and version bound.  *)
(***************************************************************************)
EXTENDS LiveSwitch, TLAPS

-----------------------------------------------------------------------------
(* Type correctness and control *)

InTransaction == pc \in Mutating \cup Restoring

\* What each step relies on has been read before.
ControlInv ==
    /\ InTransaction => backup \in LiveFiles
    /\ job.kind # "leave" /\ (pc = "backup" \/ InTransaction) => cred # Nobody
    /\ pc = "restoreUrl" => prior # Nobody
    /\ pc \in {"syncAccount", "readTarget", "writeAuth"} => job.kind # "leave"
    /\ job.kind = "account" => job.target \in Accounts
    /\ job.kind \in {"shared", "separate"} => job.target \in Providers
    /\ pc \in {"throughOpenAI", "writeRoute"} => job.kind = "shared"
    /\ pc = "activate" => job.kind = "separate"

LEMMA TypeInit == ASSUME Init PROVE TypeOK /\ ControlInv
  <1> USE ConstantsAssumption
  <1>1. live \in LiveFiles
    BY DEF Init, SettledFiles, LiveFiles, Credentials, Configs, Routes, RouteStates, Urls,
           Entries, AccountConfig
  <1>2. saved \in [Entries -> Credentials \cup {Nobody}] /\ latest \in [Entries -> Nat]
    BY DEF Init, Credentials
  <1>3. ControlInv
    BY DEF Init, ControlInv, NoJob, InTransaction, Mutating, Restoring
  <1> QED
    BY <1>1, <1>2, <1>3 DEF Init, TypeOK, NoJob, Kinds, Urls, Routes, RouteStates

\* Reading the route state yields a route, and migrating it a set of files.
LEMMA RouteType ==
    ASSUME NEW files \in LiveFiles
    PROVE  /\ RouteOf(files) \in Routes
           /\ Migrated(files) \in LiveFiles
           /\ AfterLookup(files) \in LiveFiles
           /\ Active(files) \in Providers \cup {Nobody}
  <1>1. RouteOf(files) \in Routes /\ Migrated(files) \in LiveFiles
    BY DEF LiveFiles, RouteOf, Migrated, Routes, RouteStates
  <1> QED
    BY <1>1 DEF LiveFiles, AfterLookup, Active, Configs, Routes, RouteStates

LEMMA TypeStep ==
    ASSUME TypeOK, ControlInv, [Next]_vars
    PROVE  TypeOK'
  <1> USE ConstantsAssumption, RouteType
      DEF TypeOK, ControlInv, InTransaction, Before, Mutating, Restoring,
          Write, Finish, Over, Others, KeepRead, switch, NoJob, Kinds, Entries,
          LiveFiles, Credentials, Configs, Routes, RouteStates, Urls
  <1>1. ASSUME NEW kind \in Kinds, NEW target \in Entries \cup {Nobody},
               Start(kind, target)
        PROVE  TypeOK'
    BY <1>1 DEF Start
  <1>2. CASE Sync
    <2>1. CASE SyncProvider
      BY <2>1 DEF SyncProvider
    <2>2. CASE SyncAccount
      BY <2>2 DEF SyncAccount
    <2> QED BY <1>2, <2>1, <2>2 DEF Sync
  <1>3. CASE ReadTarget
    BY <1>3 DEF ReadTarget
  <1>4. CASE TakeBackup
    BY <1>4 DEF TakeBackup
  <1>5. CASE GiveUp
    BY <1>5 DEF GiveUp
  <1>6. CASE Mutate
    <2>1. CASE ReadRoute
      BY <2>1 DEF ReadRoute
    <2>2. CASE WriteAuth
      BY <2>2 DEF WriteAuth
    <2>3. CASE ClearProvider
      BY <2>3 DEF ClearProvider
    <2>4. CASE RestoreUrl
      BY <2>4 DEF RestoreUrl
    <2>5. CASE RemoveRoute
      BY <2>5 DEF RemoveRoute
    <2>6. CASE RemoveLegacy
      BY <2>6 DEF RemoveLegacy, AfterRoute
    <2>7. CASE ThroughOpenAI
      BY <2>7 DEF ThroughOpenAI
    <2>8. CASE WriteRoute
      BY <2>8 DEF WriteRoute
    <2>9. CASE Activate
      BY <2>9 DEF Activate
    <2>10. CASE Complete
      BY <2>10 DEF Complete
    <2> QED
      BY <1>6, <2>1, <2>2, <2>3, <2>4, <2>5, <2>6, <2>7, <2>8, <2>9, <2>10 DEF Mutate
  <1>7. CASE Rollback
    <2>1. CASE Fail
      BY <2>1 DEF Fail
    <2>2. CASE RestoreAuth
      BY <2>2 DEF RestoreAuth
    <2>3. CASE RestoreConfig
      BY <2>3 DEF RestoreConfig
    <2>4. CASE RestoreRoute
      BY <2>4 DEF RestoreRoute
    <2>5. CASE RestoreLegacy
      BY <2>5 DEF RestoreLegacy
    <2> QED
      BY <1>7, <2>1, <2>2, <2>3, <2>4, <2>5 DEF Rollback
  <1>8. CASE Environment
    <2>1. CASE RestoreFails
      BY <2>1 DEF RestoreFails
    <2>2. CASE Crash
      BY <2>2 DEF Crash
    <2>3. CASE Rotate
      BY <2>3 DEF Rotate
    <2>4. CASE RemoveProviderConfig
      BY <2>4 DEF RemoveProviderConfig
    <2>5. CASE ReadOldRoute
      BY <2>5 DEF ReadOldRoute
    <2>6. CASE MigrateOldRoute
      <3>1. live' \in LiveFiles
        BY <2>6 DEF MigrateOldRoute
      <3>2. reader' \in Routes
        BY <2>6 DEF MigrateOldRoute
      <3> QED BY <2>6, <3>1, <3>2 DEF MigrateOldRoute
    <2>7. ASSUME NEW p \in Providers, DeleteProvider(p) PROVE TypeOK'
      <3>1. live' \in LiveFiles
        BY <2>7, RouteType DEF TypeOK, DeleteProvider
      <3>2. deletion' \in [name : Providers, config : Configs]
        BY <2>7 DEF DeleteProvider
      <3> QED BY <2>7, <3>1, <3>2 DEF DeleteProvider
    <2> QED
      BY <1>8, <2>1, <2>2, <2>3, <2>4, <2>5, <2>6, <2>7 DEF Environment
  <1>9. CASE UNCHANGED vars
    BY <1>9 DEF vars
  <1> QED
    BY <1>1, <1>2, <1>3, <1>4, <1>5, <1>6, <1>7, <1>8, <1>9 DEF Next

LEMMA ControlStep ==
    ASSUME TypeOK, ControlInv, [Next]_vars
    PROVE  ControlInv'
  <1> USE ConstantsAssumption
      DEF TypeOK, ControlInv, InTransaction, Before, Mutating, Restoring,
          Write, Finish, Over, Others, KeepRead, switch, NoJob, Kinds, Entries
  <1>1. ASSUME NEW kind \in Kinds, NEW target \in Entries \cup {Nobody},
               Start(kind, target)
        PROVE  ControlInv'
    BY <1>1 DEF Start
  <1>2. CASE Sync
    <2>1. CASE SyncProvider
      BY <2>1 DEF SyncProvider
    <2>2. CASE SyncAccount
      BY <2>2 DEF SyncAccount
    <2> QED BY <1>2, <2>1, <2>2 DEF Sync
  <1>3. CASE ReadTarget
    BY <1>3 DEF ReadTarget
  <1>4. CASE TakeBackup
    BY <1>4 DEF TakeBackup
  <1>5. CASE GiveUp
    BY <1>5 DEF GiveUp
  <1>6. CASE Mutate
    <2>1. CASE ReadRoute
      BY <2>1 DEF ReadRoute
    <2>2. CASE WriteAuth
      BY <2>2 DEF WriteAuth
    <2>3. CASE ClearProvider
      BY <2>3 DEF ClearProvider
    <2>4. CASE RestoreUrl
      BY <2>4 DEF RestoreUrl
    <2>5. CASE RemoveRoute
      BY <2>5 DEF RemoveRoute
    <2>6. CASE RemoveLegacy
      BY <2>6 DEF RemoveLegacy, AfterRoute
    <2>7. CASE ThroughOpenAI
      BY <2>7 DEF ThroughOpenAI
    <2>8. CASE WriteRoute
      BY <2>8 DEF WriteRoute
    <2>9. CASE Activate
      BY <2>9 DEF Activate
    <2>10. CASE Complete
      BY <2>10 DEF Complete
    <2> QED
      BY <1>6, <2>1, <2>2, <2>3, <2>4, <2>5, <2>6, <2>7, <2>8, <2>9, <2>10 DEF Mutate
  <1>7. CASE Rollback
    <2>1. CASE Fail
      BY <2>1 DEF Fail
    <2>2. CASE RestoreAuth
      BY <2>2 DEF RestoreAuth
    <2>3. CASE RestoreConfig
      BY <2>3 DEF RestoreConfig
    <2>4. CASE RestoreRoute
      BY <2>4 DEF RestoreRoute
    <2>5. CASE RestoreLegacy
      BY <2>5 DEF RestoreLegacy
    <2> QED
      BY <1>7, <2>1, <2>2, <2>3, <2>4, <2>5 DEF Rollback
  <1>8. CASE Environment
    <2>1. CASE RestoreFails
      BY <2>1 DEF RestoreFails
    <2>2. CASE Crash
      BY <2>2 DEF Crash
    <2>3. CASE Rotate
      BY <2>3 DEF Rotate
    <2>4. CASE RemoveProviderConfig
      BY <2>4 DEF RemoveProviderConfig
    <2>5. CASE ReadOldRoute
      BY <2>5 DEF ReadOldRoute
    <2>6. CASE MigrateOldRoute
      BY <2>6 DEF MigrateOldRoute
    <2>7. ASSUME NEW p \in Providers, DeleteProvider(p) PROVE ControlInv'
      BY <2>7 DEF DeleteProvider
    <2> QED
      BY <1>8, <2>1, <2>2, <2>3, <2>4, <2>5, <2>6, <2>7 DEF Environment
  <1>9. CASE UNCHANGED vars
    BY <1>9 DEF vars
  <1> QED
    BY <1>1, <1>2, <1>3, <1>4, <1>5, <1>6, <1>7, <1>8, <1>9 DEF Next

\* The variables of the transaction keep their types, and no step uses
\* something that has not been read (accounts.ts, useAccount; providers.ts,
\* switchMode; liveSwitch.ts, runLiveSwitchTransaction).
THEOREM TypeCorrect == Spec => [](TypeOK /\ ControlInv)
  BY TypeInit, TypeStep, ControlStep, PTL DEF Spec

-----------------------------------------------------------------------------
(* The newest tokens of every saved account survive                        *)

\* The credentials c, if they are an account's, are its newest.
Newest(c) == c.of \in Accounts => c.ver = latest[c.of]

\* The target credentials have been read.
Loaded == job.kind # "leave" /\ (pc = "backup" \/ InTransaction)

\* Whoever overwrites auth.json has written its tokens back before, and no
\* copy that is written there, target or snapshot, is older than the newest.
KeptInv ==
    /\ \A a \in Accounts : saved[a] # Nobody => saved[a].of = a
    /\ \A p \in Providers : saved[p] # Nobody => saved[p].of \in Providers
    /\ Newest(live.auth)
    /\ Loaded => Newest(cred)
    /\ InTransaction => Newest(backup.auth)
    /\ InTransaction /\ job.kind = "leave" => backup.auth = live.auth
    /\ pc = "readTarget" \/ Loaded =>
         \A a \in Accounts : saved[a] # Nobody => saved[a].ver = latest[a]
    /\ AccountTokensKept

LEMMA KeptInit == ASSUME Init PROVE KeptInv
  BY ConstantsAssumption
     DEF Init, KeptInv, Newest, Loaded, InTransaction, Mutating, Restoring,
         AccountTokensKept, SettledFiles, Entries

LEMMA KeptStep ==
    ASSUME "rotate" \notin Faults, TypeOK, ControlInv, KeptInv, [Next]_vars
    PROVE  KeptInv'
  <1> USE ConstantsAssumption
      DEF TypeOK, ControlInv, KeptInv, Newest, Loaded, AccountTokensKept,
          InTransaction, Before, Mutating, Restoring, LiveFiles, Credentials,
          Write, Finish, Over, Others, KeepRead, switch, Entries
  <1>1. ASSUME NEW kind \in Kinds, NEW target \in Entries \cup {Nobody},
               Start(kind, target)
        PROVE  KeptInv'
    BY <1>1 DEF Start
  <1>2. CASE Sync
    <2>1. CASE SyncProvider
      <3>1. Active(live) \in Providers \cup {Nobody}
        BY RouteType DEF TypeOK
      <3>2. live'.auth = live.auth
        BY <2>1 DEF SyncProvider, AfterLookup, Migrated
      <3>3. /\ \A a \in Accounts : saved'[a] = saved[a]
            /\ \A p \in Providers : saved'[p] # Nobody => saved'[p].of \in Providers
        BY <2>1, <3>1 DEF SyncProvider
      <3>4. pc' \in {"backup", "syncAccount"} /\ (pc' = "backup" => job.kind = "leave")
        BY <2>1 DEF SyncProvider
      <3> QED BY <2>1, <3>2, <3>3, <3>4 DEF SyncProvider
    <2>2. CASE SyncAccount
      BY <2>2 DEF SyncAccount
    <2> QED BY <1>2, <2>1, <2>2 DEF Sync
  <1>3. CASE ReadTarget
    <2>1. CASE saved[job.target] # Nobody
      <3>1. job.target \in Entries
        BY <1>3 DEF ReadTarget, Kinds
      <3>2. cred' = saved[job.target] /\ pc' = "backup"
        BY <1>3, <2>1 DEF ReadTarget
      <3>3. Newest(cred)'
        BY <1>3, <2>1, <3>1, <3>2 DEF ReadTarget
      <3> QED BY <1>3, <2>1, <3>3 DEF ReadTarget
    <2>2. CASE saved[job.target] = Nobody
      BY <1>3, <2>2 DEF ReadTarget
    <2> QED BY <2>1, <2>2
  <1>4. CASE TakeBackup
    BY <1>4 DEF TakeBackup
  <1>5. CASE GiveUp
    BY <1>5 DEF GiveUp
  <1>6. CASE Mutate
    <2>1. CASE ReadRoute
      BY <2>1 DEF ReadRoute, Migrated
    <2>2. CASE WriteAuth
      BY <2>2 DEF WriteAuth
    <2>3. CASE ClearProvider
      BY <2>3 DEF ClearProvider
    <2>4. CASE RestoreUrl
      BY <2>4 DEF RestoreUrl
    <2>5. CASE RemoveRoute
      BY <2>5 DEF RemoveRoute
    <2>6. CASE RemoveLegacy
      BY <2>6 DEF RemoveLegacy, AfterRoute
    <2>7. CASE ThroughOpenAI
      BY <2>7 DEF ThroughOpenAI
    <2>8. CASE WriteRoute
      BY <2>8 DEF WriteRoute
    <2>9. CASE Activate
      BY <2>9 DEF Activate
    <2>10. CASE Complete
      BY <2>10 DEF Complete
    <2> QED
      BY <1>6, <2>1, <2>2, <2>3, <2>4, <2>5, <2>6, <2>7, <2>8, <2>9, <2>10 DEF Mutate
  <1>7. CASE Rollback
    <2>1. CASE Fail
      BY <2>1 DEF Fail
    <2>2. CASE RestoreAuth
      BY <2>2 DEF RestoreAuth
    <2>3. CASE RestoreConfig
      BY <2>3 DEF RestoreConfig
    <2>4. CASE RestoreRoute
      BY <2>4 DEF RestoreRoute
    <2>5. CASE RestoreLegacy
      BY <2>5 DEF RestoreLegacy
    <2> QED
      BY <1>7, <2>1, <2>2, <2>3, <2>4, <2>5 DEF Rollback
  <1>8. CASE Environment
    <2>1. CASE RestoreFails
      BY <2>1 DEF RestoreFails
    <2>2. CASE Crash
      BY <2>2 DEF Crash
    <2>3. CASE Rotate
      BY <2>3 DEF Rotate
    <2>4. CASE RemoveProviderConfig
      BY <2>4 DEF RemoveProviderConfig
    <2>5. CASE ReadOldRoute
      BY <2>5 DEF ReadOldRoute
    <2>6. CASE MigrateOldRoute
      BY <2>6 DEF MigrateOldRoute
    <2>7. ASSUME NEW p \in Providers, DeleteProvider(p) PROVE KeptInv'
      BY <2>7 DEF DeleteProvider, AfterLookup, Migrated
    <2> QED
      BY <1>8, <2>1, <2>2, <2>3, <2>4, <2>5, <2>6, <2>7 DEF Environment
  <1>9. CASE UNCHANGED vars
    BY <1>9 DEF vars
  <1> QED
    BY <1>1, <1>2, <1>3, <1>4, <1>5, <1>6, <1>7, <1>8, <1>9 DEF Next

\* While Codex does not rotate auth.json in the middle of a switch, the newest
\* tokens of every saved account are in auth.json or in its saved file,
\* whatever crashes, fails or writes without the lock (auth.ts,
\* syncCurrentAuthToSavedAccount; liveSwitch.ts, activateAccountAuth).
THEOREM TokensKept ==
    ASSUME "rotate" \notin Faults
    PROVE  Spec => []AccountTokensKept
  <1>1. TypeOK /\ ControlInv /\ KeptInv /\ [Next]_vars => KeptInv'
    BY KeptStep
  <1>2. KeptInv => AccountTokensKept
    BY DEF KeptInv
  <1>3. QED
    BY KeptInit, <1>1, <1>2, TypeCorrect, PTL DEF Spec

-----------------------------------------------------------------------------
(* Orderly switches: every write may fail, but nobody is killed, restores   *)
(* succeed and nothing else writes while a switch runs                      *)

\* The saved entry of the credentials c, if there is one, holds just them.
Synced(c) == saved[c.of] \in {c, Nobody}

\* The credentials a switch replaces.
Outgoing == IF InTransaction THEN backup.auth ELSE live.auth

NoRouteLeft == live.route = Nobody /\ live.legacy = Nobody

\* What the files hold when a switch of the job's kind is done.
RouteDone ==
    /\ job.kind \in {"account", "leave"} =>
         live.config = AccountConfig /\ NoRouteLeft
    /\ job.kind = "shared" =>
         /\ live.config = [model |-> Nobody, url |-> job.target]
         /\ live.route = [active |-> job.target, original |-> UserUrl]
    /\ job.kind = "separate" =>
         live.config = [model |-> job.target, url |-> UserUrl] /\ NoRouteLeft

\* How far the files have come before each step.
Progress ==
    /\ pc = "readRoute" => live = backup
    /\ pc = "writeAuth" /\ job.kind \in {"account", "shared"}
         => live.config = backup.config /\ RouteOf(live) = prior
    /\ pc = "writeAuth" /\ job.kind = "separate"
         => live.config.url = UserUrl /\ NoRouteLeft
    /\ pc = "clearProvider"
         => /\ job.kind \in {"account", "leave"}
            /\ live.config = backup.config /\ RouteOf(live) = prior
    /\ pc = "activate" => live.config.url = UserUrl /\ NoRouteLeft
    /\ pc \in {"restoreUrl", "removeRoute"} => job.kind # "shared"
    /\ pc = "restoreUrl" => live.config.model = Nobody /\ prior.original = UserUrl
    /\ pc = "removeRoute" => live.config = AccountConfig
    /\ pc = "writeRoute" => live.config = [model |-> Nobody, url |-> job.target]
    /\ pc = "removeLegacy" /\ job.kind # "shared"
         => live.config = AccountConfig /\ live.route = Nobody
    /\ pc = "removeLegacy" /\ job.kind = "shared" => RouteDone
    /\ pc = "complete" => RouteDone
    /\ pc \in {"throughOpenAI", "writeRoute", "activate"} => live.auth = cred
    /\ pc = "removeLegacy" /\ job.kind = "shared" => live.auth = cred
    /\ job.kind = "account" /\ pc \in {"clearProvider", "restoreUrl",
                                       "removeRoute", "removeLegacy"}
         => live.auth = cred
    /\ pc = "complete" /\ job.kind # "leave" => live.auth = cred
    /\ pc \in Mutating /\ job.kind = "leave" => live.auth = backup.auth
    /\ pc \in {"restoreConfig", "restoreRoute", "restoreLegacy"}
         => live.auth = backup.auth
    /\ pc \in {"restoreRoute", "restoreLegacy"} => live.config = backup.config
    /\ pc = "restoreLegacy" => live.route = backup.route

OrderlyInv ==
    /\ reader = Nobody
    /\ deletion # Nobody => pc = "idle" /\ deletion.config = live.config
                                        /\ deletion.name # live.config.model
    /\ SavedAreOwn
    /\ ~InTransaction => Coherent(live)
    /\ InTransaction => Coherent(backup)
    /\ Loaded => cred = saved[job.target]
    /\ pc \in Mutating \ {"readRoute"} => prior = RouteOf(backup) /\ original = UserUrl
    /\ Progress
    /\ live.auth.of \in Providers /\ Active(live) = Nobody
          /\ pc \in {"idle", "syncProvider"} => Synced(live.auth)
    /\ Outgoing.of \in Providers /\ pc \notin {"idle", "syncProvider"}
         => Synced(Outgoing)
    /\ pc = "readTarget" \/ Loaded => Synced(Outgoing)

LEMMA OrderlyInit == ASSUME Init PROVE OrderlyInv
  <1> USE ConstantsAssumption, NullAssumption
  <1>1. /\ pc = "idle" /\ job.kind = "leave"
        /\ reader = Nobody /\ deletion = Nobody
        /\ ~InTransaction /\ ~Loaded
    BY DEF Init, NoJob, InTransaction, Loaded, Mutating, Restoring
  <1>2. SavedAreOwn
    BY DEF Init, SavedAreOwn
  <1>3. \A e \in Entries : live.auth = [of |-> e, ver |-> 1] => Synced(live.auth)
    BY DEF Init, Synced
  <1>4. PICK e \in Entries : live.auth = [of |-> e, ver |-> 1]
    BY DEF Init, SettledFiles, Entries
  <1>5. Coherent(live)
    BY DEF Init, SettledFiles, Coherent, RouteOf, Active, AccountConfig,
           RouteStates, Urls, Entries
  <1>6. Progress
    BY <1>1 DEF Progress, Mutating
  <1> QED
    BY <1>1, <1>2, <1>3, <1>4, <1>5, <1>6 DEF OrderlyInv, Mutating, Outgoing

LEMMA OrderlyStep ==
    ASSUME Faults = {}, TypeOK, ControlInv, OrderlyInv, [Next]_vars
    PROVE  OrderlyInv'
  <1> USE ConstantsAssumption, NullAssumption
      DEF TypeOK, ControlInv, OrderlyInv, SavedAreOwn, Coherent, Loaded, Progress,
          RouteDone, NoRouteLeft, InTransaction, Before, Mutating, Restoring,
          RouteOf, Active, AccountConfig, Synced, Outgoing,
          LiveFiles, Credentials, Configs, Routes, RouteStates, Urls,
          Write, Finish, Over, Others, KeepRead, switch, Entries, Kinds, NoJob
  <1>1. ASSUME NEW kind \in Kinds, NEW target \in Entries \cup {Nobody},
               Start(kind, target)
        PROVE  OrderlyInv'
    BY <1>1 DEF Start
  <1>2. CASE Sync
    <2>1. CASE SyncProvider
      BY <2>1 DEF SyncProvider, AfterLookup, Migrated
    <2>2. CASE SyncAccount
      BY <2>2 DEF SyncAccount
    <2> QED BY <1>2, <2>1, <2>2 DEF Sync
  <1>3. CASE ReadTarget
    BY <1>3 DEF ReadTarget
  <1>4. CASE TakeBackup
    BY <1>4 DEF TakeBackup
  <1>5. CASE GiveUp
    BY <1>5 DEF GiveUp
  <1>6. CASE Mutate
    <2>1. CASE ReadRoute
      BY <2>1 DEF ReadRoute, Migrated
    <2>2. CASE WriteAuth
      BY <2>2 DEF WriteAuth
    <2>3. CASE ClearProvider
      BY <2>3 DEF ClearProvider
    <2>4. CASE RestoreUrl
      BY <2>4 DEF RestoreUrl
    <2>5. CASE RemoveRoute
      BY <2>5 DEF RemoveRoute
    <2>6. CASE RemoveLegacy
      BY <2>6 DEF RemoveLegacy, AfterRoute
    <2>7. CASE ThroughOpenAI
      BY <2>7 DEF ThroughOpenAI
    <2>8. CASE WriteRoute
      BY <2>8 DEF WriteRoute
    <2>9. CASE Activate
      BY <2>9 DEF Activate
    <2>10. CASE Complete
      BY <2>10 DEF Complete
    <2> QED
      BY <1>6, <2>1, <2>2, <2>3, <2>4, <2>5, <2>6, <2>7, <2>8, <2>9, <2>10 DEF Mutate
  <1>7. CASE Rollback
    <2>1. CASE Fail
      BY <2>1 DEF Fail
    <2>2. CASE RestoreAuth
      BY <2>2 DEF RestoreAuth
    <2>3. CASE RestoreConfig
      BY <2>3 DEF RestoreConfig
    <2>4. CASE RestoreRoute
      BY <2>4 DEF RestoreRoute
    <2>5. CASE RestoreLegacy
      BY <2>5 DEF RestoreLegacy
    <2> QED
      BY <1>7, <2>1, <2>2, <2>3, <2>4, <2>5 DEF Rollback
  <1>8. CASE Environment
    <2>1. CASE RestoreFails
      BY <2>1 DEF RestoreFails
    <2>2. CASE Crash
      BY <2>2 DEF Crash
    <2>3. CASE Rotate
      BY <2>3 DEF Rotate
    <2>4. CASE RemoveProviderConfig
      BY <2>4 DEF RemoveProviderConfig
    <2>5. CASE ReadOldRoute
      BY <2>5 DEF ReadOldRoute
    <2>6. CASE MigrateOldRoute
      BY <2>6 DEF MigrateOldRoute
    <2>7. ASSUME NEW p \in Providers, DeleteProvider(p) PROVE OrderlyInv'
      BY <2>7 DEF DeleteProvider, AfterLookup, Migrated
    <2> QED
      BY <1>8, <2>1, <2>2, <2>3, <2>4, <2>5, <2>6, <2>7 DEF Environment
  <1>9. CASE UNCHANGED vars
    BY <1>9 DEF vars
  <1> HIDE DEF OrderlyInv, TypeOK, ControlInv
  <1> QED
    BY <1>1, <1>2, <1>3, <1>4, <1>5, <1>6, <1>7, <1>8, <1>9 DEF Next

\* The inductive invariant of orderly switches (runLiveSwitchTransaction,
\* activateAccountAuth, activateProviderProfile, deactivateProviderRoute).
THEOREM OrderlyHolds ==
    ASSUME Faults = {}
    PROVE  Spec => [](TypeOK /\ ControlInv /\ OrderlyInv)
  <1>1. TypeOK /\ ControlInv /\ OrderlyInv /\ [Next]_vars => OrderlyInv'
    BY OrderlyStep
  <1>2. QED
    BY OrderlyInit, <1>1, TypeCorrect, PTL DEF Spec

\* Between orderly switches authentication, provider routing and route state
\* agree, and the snapshots of a running switch are such a state
\* (liveSwitch.ts, createBackup, rollbackFailedSwitch).
THEOREM Coherence ==
    ASSUME Faults = {}
    PROVE  Spec => []SelectionCoherent
  <1>1. OrderlyInv => SelectionCoherent
    BY DEF OrderlyInv, SelectionCoherent, InTransaction, Mutating, Restoring
  <1>2. QED
    BY <1>1, OrderlyHolds, PTL

\* No orderly switch writes one provider's key into another one's profile
\* (providers.ts, syncCurrentAuthToSavedProvider).
THEOREM OwnCredentials ==
    ASSUME Faults = {}
    PROVE  Spec => []SavedAreOwn
  <1>1. OrderlyInv => SavedAreOwn
    BY DEF OrderlyInv
  <1>2. QED
    BY <1>1, OrderlyHolds, PTL

\* An orderly switch to account mode gives the user's own base URL back
\* (liveSwitch.ts, activateAccountAuth, deactivateProviderRoute).
THEOREM UrlRestored ==
    ASSUME Faults = {}
    PROVE  Spec => AccountSwitchRestoresUrl
  <1>1. OrderlyInv =>
          [Complete /\ job.kind \in {"account", "leave"}
             => live.config.url = UserUrl]_vars
    BY DEF OrderlyInv, Progress, RouteDone, AccountConfig, Complete, Finish
  <1>2. QED
    BY <1>1, OrderlyHolds, PTL DEF AccountSwitchRestoresUrl

-----------------------------------------------------------------------------
(* The newest keys of every saved provider survive orderly switches         *)

NewestKey(c) == c.of \in Providers => c.ver = latest[c.of]

\* As KeptInv; the profile of the outgoing provider is written back first.
KeysInv ==
    /\ NewestKey(live.auth)
    /\ Loaded => NewestKey(cred)
    /\ InTransaction => NewestKey(backup.auth)
    /\ pc \notin {"idle", "syncProvider"} =>
         \A p \in Providers : saved[p] # Nobody => saved[p].ver = latest[p]
    /\ ProviderKeysKept

LEMMA KeysInit == ASSUME Init PROVE KeysInv
  BY ConstantsAssumption
     DEF Init, KeysInv, NewestKey, Loaded, InTransaction, Mutating, Restoring,
         ProviderKeysKept, SettledFiles, Entries

LEMMA KeysStep ==
    ASSUME Faults = {}, TypeOK, ControlInv, OrderlyInv, KeysInv, [Next]_vars
    PROVE  KeysInv'
  <1> USE ConstantsAssumption
      DEF TypeOK, ControlInv, KeysInv, NewestKey, Loaded, ProviderKeysKept,
          InTransaction, Before, Mutating, Restoring, LiveFiles, Credentials,
          Write, Finish, Over, Others, KeepRead, switch, Entries
  <1>1. ASSUME NEW kind \in Kinds, NEW target \in Entries \cup {Nobody},
               Start(kind, target)
        PROVE  KeysInv'
    BY <1>1 DEF Start
  <1>2. SavedAreOwn
    BY DEF OrderlyInv
  <1>3. CASE Sync
    <2>1. CASE SyncProvider
      <3>1. Active(live) \in {Nobody, live.auth.of}
        BY <2>1 DEF SyncProvider, OrderlyInv, Coherent
      <3>2. live'.auth = live.auth /\ latest' = latest
        BY <2>1 DEF SyncProvider, AfterLookup, Migrated
      <3>3. live.auth.of \in Providers /\ Active(live) = Nobody => Synced(live.auth)
        BY <2>1 DEF SyncProvider, OrderlyInv
      <3>4. \A p \in Providers : saved'[p] # Nobody => saved'[p].ver = latest[p]
        BY <1>2, <2>1, <3>1, <3>3 DEF SyncProvider, SavedAreOwn, Synced
      <3>5. \A p \in Providers : saved'[p] # Nobody => saved'[p].of = p
        BY <1>2, <2>1, <3>1 DEF SyncProvider, SavedAreOwn
      <3>6. ~Loaded' \/ (pc' = "backup" /\ job'.kind = "leave")
        BY <2>1 DEF SyncProvider
      <3>7. ~InTransaction'
        BY <2>1 DEF SyncProvider
      <3>8. \A p \in Providers : saved'[p] # Nobody => saved'[p] = [of |-> p, ver |-> latest[p]]
        <4>1. saved' \in [Entries -> Credentials \cup {Nobody}]
          BY <2>1 DEF SyncProvider
        <4> QED BY <3>4, <3>5, <4>1
      <3> QED BY <3>2, <3>4, <3>6, <3>7, <3>8
    <2>2. CASE SyncAccount
      BY <2>2 DEF SyncAccount
    <2> QED BY <1>3, <2>1, <2>2 DEF Sync
  <1>4. CASE ReadTarget
    <2>1. CASE saved[job.target] # Nobody
      <3>1. job.target \in Entries
        BY <1>4 DEF ReadTarget, Kinds
      <3>2. cred' = saved[job.target] /\ pc' = "backup"
        BY <1>4, <2>1 DEF ReadTarget
      <3>3. NewestKey(cred)'
        BY <1>2, <1>4, <2>1, <3>1, <3>2 DEF ReadTarget, SavedAreOwn
      <3> QED BY <1>4, <2>1, <3>3 DEF ReadTarget
    <2>2. CASE saved[job.target] = Nobody
      BY <1>4, <2>2 DEF ReadTarget
    <2> QED BY <2>1, <2>2
  <1>5. CASE TakeBackup
    BY <1>5 DEF TakeBackup
  <1>6. CASE GiveUp
    BY <1>6 DEF GiveUp
  <1>7. CASE Mutate
    <2> USE <1>2 DEF SavedAreOwn
    <2>1. CASE ReadRoute
      BY <2>1 DEF ReadRoute, Migrated
    <2>2. CASE WriteAuth
      BY <2>2 DEF WriteAuth
    <2>3. CASE ClearProvider \/ RestoreUrl \/ RemoveRoute \/ ThroughOpenAI \/ WriteRoute
               \/ Activate
      BY <2>3 DEF ClearProvider, RestoreUrl, RemoveRoute, ThroughOpenAI, WriteRoute, Activate
    <2>4. CASE RemoveLegacy
      BY <2>4 DEF RemoveLegacy, AfterRoute
    <2>5. CASE Complete
      BY <2>5 DEF Complete
    <2> QED
      BY <1>7, <2>1, <2>2, <2>3, <2>4, <2>5 DEF Mutate
  <1>8. CASE Rollback
    <2> USE <1>2 DEF SavedAreOwn
    <2>1. CASE Fail
      BY <2>1 DEF Fail
    <2>2. CASE RestoreAuth
      BY <2>2 DEF RestoreAuth
    <2>3. CASE RestoreConfig \/ RestoreRoute
      BY <2>3 DEF RestoreConfig, RestoreRoute
    <2>4. CASE RestoreLegacy
      BY <2>4 DEF RestoreLegacy
    <2> QED
      BY <1>8, <2>1, <2>2, <2>3, <2>4 DEF Rollback
  <1>9. CASE Environment
    <2>1. CASE Rotate
      BY <1>2, <2>1 DEF Rotate, SavedAreOwn
    <2>2. CASE RemoveProviderConfig
      BY <2>2 DEF RemoveProviderConfig
    <2>3. CASE MigrateOldRoute
      BY <2>3 DEF MigrateOldRoute
    <2>4. ASSUME NEW p \in Providers, DeleteProvider(p) PROVE KeysInv'
      BY <2>4 DEF DeleteProvider, AfterLookup, Migrated
    <2> QED
      BY <1>9, <2>1, <2>2, <2>3, <2>4 DEF Environment, RestoreFails, Crash, ReadOldRoute
  <1>10. CASE UNCHANGED vars
    BY <1>10 DEF vars
  <1> QED
    BY <1>1, <1>3, <1>4, <1>5, <1>6, <1>7, <1>8, <1>9, <1>10 DEF Next

\* Orderly switches lose no key of a saved provider: its newest key is in
\* auth.json or in its profile (providers.ts, syncCurrentAuthToSavedProvider).
THEOREM KeysKept ==
    ASSUME Faults = {}
    PROVE  Spec => []ProviderKeysKept
  <1>1. TypeOK /\ ControlInv /\ OrderlyInv /\ KeysInv /\ [Next]_vars => KeysInv'
    BY KeysStep
  <1>2. KeysInv => ProviderKeysKept
    BY DEF KeysInv
  <1>3. Spec => [](TypeOK /\ ControlInv /\ OrderlyInv)
    BY OrderlyHolds
  <1>4. QED
    BY KeysInit, <1>1, <1>2, <1>3, PTL DEF Spec

-----------------------------------------------------------------------------
(* Orderly switches implement AtomicSwitch                                 *)

LEMMA AbstractInit == ASSUME Init PROVE Abstract!Init
  <1> USE ConstantsAssumption, NullAssumption
  <1>1. Committed = live
    BY DEF Init, Committed, Mutating, Restoring
  <1>2. PICK e \in Entries :
          /\ live.auth = [of |-> e, ver |-> 1]
          /\ ModeOf(live) # Abstract!AccountMode => e = ModeOf(live).provider
          /\ ModeOf(live) \in Abstract!Modes
          /\ live.config.url = Abstract!UrlIn(ModeOf(live))
    BY DEF Init, SettledFiles, Entries, ModeOf, Active, RouteOf, AccountConfig,
           RouteStates, Urls, Abstract!AccountMode, Abstract!Modes, Abstract!UrlIn
  <1> QED
    BY <1>1, <1>2 DEF Init, Abstract!Init, Abstract!Entries, Entries

\* While a switch runs its steps change nothing that counts.
LEMMA StutterInside ==
    ASSUME InTransaction, InTransaction', UNCHANGED <<backup, saved, latest>>
    PROVE  UNCHANGED Abstract!vars
  BY DEF InTransaction, Committed, Abstract!vars

\* Completing a switch is the one step that takes effect.
LEMMA CompleteCommits ==
    ASSUME Faults = {}, TypeOK, ControlInv, OrderlyInv, Complete
    PROVE  Abstract!Next
  <1> USE ConstantsAssumption, NullAssumption
  <1>1. /\ Committed = backup /\ Committed' = live
        /\ pc = "complete" /\ RouteDone
        /\ job.kind # "leave" =>
             live.auth = cred /\ cred = saved[job.target] /\ cred # Nobody
        /\ job.kind = "leave" => live.auth = backup.auth
        /\ saved[backup.auth.of] \in {backup.auth, Nobody}
             \/ job.kind = "leave"
        /\ UNCHANGED <<live, saved, latest>>
    BY DEF Complete, Finish, Over, Others, Committed, Mutating, Restoring,
           OrderlyInv, ControlInv, Progress, Loaded, InTransaction, Synced, Outgoing
  <1>2. CASE job.kind = "account"
    <2>1. ModeOf(live) = Abstract!AccountMode /\ live.config.url = UserUrl
      BY <1>1, <1>2 DEF RouteDone, NoRouteLeft, ModeOf, Active, RouteOf,
         AccountConfig, Abstract!AccountMode
    <2>2. job.target \in Accounts
      BY <1>2 DEF ControlInv
    <2>3. Abstract!SelectAccount(job.target)
      BY <1>1, <1>2, <2>1 DEF Abstract!SelectAccount, Abstract!OutgoingSaved,
         Abstract!Route, Abstract!UrlIn, Abstract!AccountMode
    <2> QED BY <2>2, <2>3 DEF Abstract!Next
  <1>3. CASE job.kind = "leave"
    <2>1. ModeOf(live) = Abstract!AccountMode /\ live.config.url = UserUrl
      BY <1>1, <1>3 DEF RouteDone, NoRouteLeft, ModeOf, Active, RouteOf,
         AccountConfig, Abstract!AccountMode
    <2>2. Abstract!LeaveProvider
      BY <1>1, <1>3, <2>1 DEF Abstract!LeaveProvider, Abstract!Route,
         Abstract!UrlIn, Abstract!AccountMode
    <2> QED BY <2>2 DEF Abstract!Next
  <1>4. CASE job.kind \in {"shared", "separate"}
    <2>1. job.target \in Providers
      BY <1>4 DEF ControlInv
    <2>2. /\ ModeOf(live) = [via |-> job.kind, provider |-> job.target]
          /\ live.config.url = Abstract!UrlIn(ModeOf(live))
      BY <1>1, <1>4, <2>1 DEF RouteDone, NoRouteLeft, ModeOf, Active, RouteOf,
         RouteStates, Urls, Abstract!UrlIn
    <2>3. Abstract!SelectProvider(job.target, job.kind)
      BY <1>1, <1>4, <2>2 DEF Abstract!SelectProvider, Abstract!OutgoingSaved,
         Abstract!Route
    <2> QED BY <1>4, <2>1, <2>3 DEF Abstract!Next
  <1> QED
    BY <1>2, <1>3, <1>4 DEF TypeOK, Kinds

\* Migrating the old route file changes nothing that counts.
LEMMA LookupKeepsMode ==
    ASSUME NEW files \in LiveFiles
    PROVE  /\ ModeOf(AfterLookup(files)) = ModeOf(files)
           /\ AfterLookup(files).auth = files.auth
           /\ AfterLookup(files).config = files.config
  BY DEF LiveFiles, AfterLookup, Migrated, ModeOf, Active, RouteOf

LEMMA AbstractStep ==
    ASSUME Faults = {}, TypeOK, ControlInv, OrderlyInv, [Next]_vars
    PROVE  [Abstract!Next]_(Abstract!vars)
  <1> DEFINE Goal == [Abstract!Next]_(Abstract!vars)
  <1> USE ConstantsAssumption, NullAssumption
  <1>0. ASSUME UNCHANGED <<live, saved, latest>>, ~InTransaction,
               InTransaction' => backup' = live
        PROVE  UNCHANGED Abstract!vars
    BY <1>0 DEF InTransaction, Committed, Abstract!vars
  <1>1. ASSUME NEW kind \in Kinds, NEW target \in Entries \cup {Nobody},
               Start(kind, target)
        PROVE  Goal
    BY <1>0, <1>1 DEF Start, InTransaction, Mutating, Restoring, Others
  <1>2. CASE Sync
    <2>1. CASE SyncProvider
      <3>1. /\ Committed = live /\ Committed' = AfterLookup(live)
            /\ UNCHANGED latest
        BY <2>1 DEF SyncProvider, Others, Committed, Mutating, Restoring
      <3>2. CASE UNCHANGED saved
        BY <3>1, <3>2, LookupKeepsMode DEF Abstract!vars, TypeOK
      <3>3. CASE ~(UNCHANGED saved)
        <4>1. /\ Active(live) # Nobody /\ saved[Active(live)] # Nobody
              /\ saved' = [saved EXCEPT ![Active(live)] = live.auth]
          BY <2>1, <3>3 DEF SyncProvider
        <4>2. Active(live) = live.auth.of
          BY <2>1, <4>1 DEF SyncProvider, OrderlyInv, Coherent, InTransaction,
             Mutating, Restoring
        <4>3. Abstract!Save
          BY <3>1, <4>1, <4>2, LookupKeepsMode DEF Abstract!Save, TypeOK
        <4> QED BY <4>3 DEF Abstract!Next
      <3> QED BY <3>2, <3>3
    <2>2. CASE SyncAccount
      <3>1. Committed = live /\ Committed' = live /\ UNCHANGED latest
        BY <2>2 DEF SyncAccount, Others, Committed, Mutating, Restoring
      <3>2. CASE UNCHANGED saved
        BY <3>1, <3>2 DEF Abstract!vars
      <3>3. CASE ~(UNCHANGED saved)
        <4>1. Abstract!Save
          BY <2>2, <3>1, <3>3 DEF SyncAccount, Abstract!Save
        <4> QED BY <4>1 DEF Abstract!Next
      <3> QED BY <3>2, <3>3
    <2> QED BY <1>2, <2>1, <2>2 DEF Sync
  <1>3. CASE ReadTarget
    BY <1>0, <1>3 DEF ReadTarget, InTransaction, Mutating, Restoring, Others, Over
  <1>4. CASE TakeBackup
    BY <1>0, <1>4 DEF TakeBackup, InTransaction, Mutating, Restoring, Others
  <1>5. CASE GiveUp
    BY <1>0, <1>5 DEF GiveUp, Before, InTransaction, Mutating, Restoring, Others, Over
  <1>6. CASE Mutate
    <2>1. CASE Complete
      BY <2>1, CompleteCommits
    <2>2. CASE ~Complete
      <3>1. /\ InTransaction /\ InTransaction'
            /\ UNCHANGED <<backup, saved, latest>>
        BY <1>6, <2>2 DEF Mutate, ReadRoute, WriteAuth, ClearProvider, RestoreUrl,
           RemoveRoute, RemoveLegacy, AfterRoute, ThroughOpenAI, WriteRoute,
           Activate, Write, Others, InTransaction, Mutating
      <3> QED BY <3>1, StutterInside
    <2> QED BY <2>1, <2>2
  <1>7. CASE Rollback
    <2>1. CASE RestoreLegacy
      <3>1. live' = backup /\ UNCHANGED <<saved, latest>>
        BY <2>1 DEF RestoreLegacy, Finish, Others, OrderlyInv, Progress, TypeOK,
           ControlInv, InTransaction, Restoring, LiveFiles
      <3>2. Committed = backup /\ Committed' = live'
        BY <2>1 DEF RestoreLegacy, Finish, Over, Committed, Mutating, Restoring
      <3> QED BY <3>1, <3>2 DEF Abstract!vars
    <2>2. CASE ~RestoreLegacy
      <3>1. /\ InTransaction /\ InTransaction'
            /\ UNCHANGED <<backup, saved, latest>>
        BY <1>7, <2>2 DEF Rollback, Fail, RestoreAuth, RestoreConfig, RestoreRoute,
           Write, Others, InTransaction, Mutating, Restoring
      <3> QED BY <3>1, StutterInside
    <2> QED BY <2>1, <2>2
  <1>8. CASE Environment
    <2>1. CASE RestoreFails \/ Crash \/ ReadOldRoute \/ MigrateOldRoute
      BY <2>1 DEF RestoreFails, Crash, ReadOldRoute, MigrateOldRoute, OrderlyInv
    <2>2. CASE Rotate
      <3>1. /\ pc = "idle" /\ pc' = "idle"
            /\ Committed = live /\ Committed' = live'
            /\ ModeOf(live') = ModeOf(live) /\ live'.config = live.config
        BY <2>2 DEF Rotate, switch, Committed, Mutating, Restoring, ModeOf, Active,
           RouteOf, TypeOK, LiveFiles
      <3>2. Abstract!Rotate
        BY <2>2, <3>1 DEF Rotate, Abstract!Rotate, TypeOK, LiveFiles
      <3> QED BY <3>2 DEF Abstract!Next
    <2>3. CASE RemoveProviderConfig
      <3>1. live' = live /\ ~InTransaction /\ UNCHANGED <<saved, latest, switch>>
        BY <2>3 DEF RemoveProviderConfig, OrderlyInv, InTransaction, Mutating,
           Restoring, TypeOK, LiveFiles
      <3> QED BY <1>0, <3>1 DEF switch, InTransaction
    <2>4. ASSUME NEW p \in Providers, DeleteProvider(p) PROVE Goal
      <3>1. /\ Committed = live /\ Committed' = AfterLookup(live)
            /\ UNCHANGED latest
        BY <2>4 DEF DeleteProvider, switch, Committed, Mutating, Restoring
      <3>2. Abstract!DeleteProvider(p)
        BY <2>4, <3>1, LookupKeepsMode
           DEF DeleteProvider, Abstract!DeleteProvider, ModeOf, TypeOK
      <3> QED BY <3>2 DEF Abstract!Next
    <2> QED
      BY <1>8, <2>1, <2>2, <2>3, <2>4 DEF Environment
  <1>9. CASE UNCHANGED vars
    BY <1>9 DEF vars, switch, Committed, Abstract!vars
  <1> QED
    BY <1>1, <1>2, <1>3, <1>4, <1>5, <1>6, <1>7, <1>8, <1>9 DEF Next

\* Orderly switches implement AtomicSwitch: a switch takes effect in the step
\* that marks its backup complete, and a failed one has no effect
\* (liveSwitch.ts, runLiveSwitchTransaction).
THEOREM Refinement ==
    ASSUME Faults = {}
    PROVE  Spec => Atomic
  <1>1. TypeOK /\ ControlInv /\ OrderlyInv /\ [Next]_vars
          => [Abstract!Next]_(Abstract!vars)
    BY AbstractStep
  <1>2. QED
    BY AbstractInit, <1>1, OrderlyHolds, PTL DEF Spec, Atomic, Abstract!Spec
=============================================================================
