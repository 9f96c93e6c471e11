---------------------------- MODULE CloudEntries ----------------------------
(***************************************************************************)
(* The accounts saved in synced storage (savedEntries.ts), and the         *)
(* commands that change them (commands.ts): adding, logging in again,      *)
(* using, refreshing, renaming, removing and restoring an account.         *)
(*                                                                         *)
(* A device keeps one entry per name and an index of names in VS Code's    *)
(* global state, a protected copy of every entry it has written, the       *)
(* credentials in use and a marker of the account they belong to.          *)
(* Settings Sync carries the index and the entries from device to device.  *)
(*                                                                         *)
(* A command runs in steps: it is interrupted wherever it waits for the    *)
(* user, the service, or an update of the global state.  Such an update is *)
(* visible at once and waited for afterwards.                              *)
(***************************************************************************)
EXTENDS Naturals, FiniteSets

CONSTANTS
    Devices,
    Tasks,       \* at most so many commands run at the same time
    Names,
    People,      \* identities of accounts
    None,        \* no entry, no account, nobody
    Ops,         \* the commands
    MaxClock,    \* bound on tokens handed out
    MaxVersion   \* bound on removals and renamings of one entry

ASSUME CloudAssumption ==
    /\ None \notin Names \cup People
    /\ Ops \subseteq {"add", "relogin", "use", "refresh", "remove", "rename",
                      "restore", "codex", "sync"}
    /\ MaxClock \in Nat /\ MaxVersion \in Nat

VARIABLES
    entry,       \* per device and name: the synced entry, a tombstone, or None
    index,       \* per device: the names it knows of
    backup,      \* per device and name: the protected copy, or None
    live,        \* per device: the credentials in auth.json, or None
    marker,      \* per device: the account they were taken from, or None
    shared,      \* what Settings Sync has
    dirty,       \* per device: what it has still to upload
    clock,       \* the last token handed out
    spent,       \* credentials whose token has been exchanged
    consumed,    \* those of them exchanged by a refresh of this extension
    abandoned,   \* those whose name had lost its account by the answer, or whose
                 \* answer could not be written, and all of a person whose name had
                 \* got another account
    saved,       \* per device: names saved there, and not removed or renamed since
    at, job      \* per task: its next step, and what it carries

store == <<entry, index, backup, shared, dirty>>
runtime == <<live, marker>>
service == <<clock, spent, consumed, abandoned>>
vars == <<store, runtime, service, saved, at, job>>

Credentials == [of : People, tok : Nat]
Entries == [ver : Nat \ {0}, of : People \cup {None}, tok : Nat] \* of None: a tombstone
Marks == [name : Names, ver : Nat, tok : Nat]                \* ver 0: unknown

ASSUME NullAssumption == None \notin Credentials \cup Entries \cup Marks

Keys == Names \cup {None}     \* of the global state; None is that of the index

Idle == [on |-> None, op |-> None, name |-> None, to |-> None,
         base |-> 0,          \* the version the command was given
         of |-> None,         \* whose account it is
         carry |-> None,      \* credentials on their way
         guard |-> None,      \* what auth.json held
         before |-> None,     \* the selection before
         healed |-> FALSE,
         names |-> {},        \* the index as it will be written
         ver |-> 0]           \* the version just written

Jobs == [on : Devices \cup {None}, op : Ops \cup {None}, name : Names \cup {None},
         to : Names \cup {None}, base : Nat, of : People \cup {None},
         carry : Credentials \cup Entries \cup {None}, guard : Credentials \cup {None},
         before : Names \cup {None}, healed : BOOLEAN, names : SUBSET Names, ver : Nat]

Steps == {"idle", "login", "confirm", "asked", "moved", "index", "after", "activate"}

-----------------------------------------------------------------------------
(* Reading. *)

\* readSyncedStorage: only names in the index have an entry.
Visible(d, n) == IF n \in index[d] THEN entry[d][n] ELSE None

Live(e) == e # None /\ e.of # None
Ready(d, n) == Live(Visible(d, n))

\* Seeded fault: the sync metadata goes along.
CredOfAll(e) == e

CredOf(e) == [of |-> e.of, tok |-> e.tok]

\* getCloudAccounts: tombstones are skipped, and a copy is enough to be listed.
Listed(d, n) ==
    LET e == Visible(d, n)
    IN  Live(e) \/ (e = None /\ (n \in index[d] \/ backup[d][n] # None))

\* getSavedCurrentSelection: the marked one of the accounts of that person, or
\* the only one.
Current(d) ==
    LET matches == IF live[d] = None THEN {}
                   ELSE {n \in Names : Ready(d, n) /\ entry[d][n].of = live[d].of}
    IN  IF marker[d] # None /\ marker[d].name \in matches THEN marker[d].name
        ELSE IF Cardinality(matches) = 1 THEN CHOOSE n \in matches : TRUE
        ELSE None

VersionOf(d, n) == IF Visible(d, n) = None THEN 0 ELSE Visible(d, n).ver

\* What a listed account shows: the metadata of its entry or of its copy.
Shown(d, n) == IF Visible(d, n) # None THEN Visible(d, n)
               ELSE IF backup[d][n] # None THEN backup[d][n]
               ELSE [ver |-> 0, of |-> None, tok |-> 0]

\* restoreSavedCurrentSelectionMarker: of an account that is not listed only the name.
Mark(d, n) == IF n = None THEN None
              ELSE IF ~Listed(d, n) THEN [name |-> n, ver |-> 0, tok |-> 0]
              ELSE [name |-> n, ver |-> Shown(d, n).ver, tok |-> Shown(d, n).tok]

-----------------------------------------------------------------------------
(* Writing. *)

Goto(t, step) == at' = [at EXCEPT ![t] = step]
Become(t, j) == job' = [job EXCEPT ![t] = j]
End(t) == Goto(t, "idle") /\ Become(t, Idle)

\* Seeded fault: a deleted entry and a newer version are not looked for.
RefusalUnversioned(d, n, base) ==
    LET e == Visible(d, n)
    IN  IF base = 0 THEN IF Live(e) THEN "conflict" ELSE "none"
        ELSE IF e = None THEN "missing" ELSE "none"

\* The checks of writeCloudAccountWithExpectedVersion; base 0 stands for null.
Refusal(d, n, base) ==
    LET e == Visible(d, n)
    IN  IF base = 0 THEN IF Live(e) THEN "conflict" ELSE "none"
        ELSE IF e = None THEN "missing"
        ELSE IF e.of = None \/ e.ver # base THEN "conflict"
        ELSE "none"

\* Seeded fault: what is older is written all the same.
OlderNever(d, n, c) == FALSE

\* shouldSkipOlderCloudAccountAuthWrite
Older(d, n, c) == Visible(d, n) # None /\ c.tok <= Visible(d, n).tok

SetEntry(d, n, e) ==
    /\ entry' = [entry EXCEPT ![d][n] = e]
    /\ dirty' = [dirty EXCEPT ![d] = @ \cup {n}]

\* writeProtectedCloudAccountBackup
Protect(d, n, e) == backup' = [backup EXCEPT ![d][n] = e]

\* Seeded fault: no protected copy is made.
WriteAccountBare(t, d, n, c, j) ==
    LET e == [ver |-> VersionOf(d, n) + 1, of |-> c.of, tok |-> c.tok]
    IN  /\ SetEntry(d, n, e)
        /\ Become(t, [j EXCEPT !.carry = c, !.ver = e.ver, !.names = index[d] \cup {n}])
        /\ Goto(t, "index")
        /\ UNCHANGED <<index, shared, backup>>

\* The protected copy first, then the entry; the index as it is now is written
\* after the wait.
WriteAccount(t, d, n, c, j) ==
    LET e == [ver |-> VersionOf(d, n) + 1, of |-> c.of, tok |-> c.tok]
    IN  /\ Protect(d, n, e)
        /\ SetEntry(d, n, e)
        /\ Become(t, [j EXCEPT !.carry = c, !.ver = e.ver, !.names = index[d] \cup {n}])
        /\ Goto(t, "index")
        /\ UNCHANGED <<index, shared>>

\* writeSyncedCloudStateIndex
WriteIndex(t) ==
    LET d == job[t].on
    IN  /\ at[t] = "index"
        /\ index' = [index EXCEPT ![d] = job[t].names]
        /\ dirty' = [dirty EXCEPT ![d] = @ \cup {None}]
        /\ Goto(t, "after")
        /\ UNCHANGED <<entry, backup, shared, runtime, service, saved, job>>

Begins(t, op) == op \in Ops /\ at[t] = "idle"

-----------------------------------------------------------------------------
(* addAccount, reloginAccount *)

\* A ready account is refreshed first; this is what follows when that fails.
BeginAdd(t, d, n) ==
    /\ Begins(t, "add")
    /\ Listed(d, n) => Ready(d, n)
    /\ Become(t, [Idle EXCEPT !.on = d, !.op = "add", !.name = n, !.before = Current(d),
                              !.base = IF Listed(d, n) THEN VersionOf(d, n) ELSE 0])
    /\ Goto(t, "login")
    /\ UNCHANGED <<store, runtime, service, saved>>

BeginRelogin(t, d, n) ==
    /\ Begins(t, "relogin")
    /\ Ready(d, n)
    /\ Become(t, [Idle EXCEPT !.on = d, !.op = "relogin", !.name = n,
                              !.of = entry[d][n].of, !.base = VersionOf(d, n)])
    /\ Goto(t, "login")
    /\ UNCHANGED <<store, runtime, service, saved>>

\* restoreSavedCurrentSelectionMarker: an added account is not selected.
RestoreMarker(j) ==
    marker' = IF j.op = "add" THEN [marker EXCEPT ![j.on] = Mark(j.on, j.before)]
              ELSE marker

LoginCancelled(t) ==
    /\ at[t] = "login"
    /\ RestoreMarker(job[t])
    /\ End(t)
    /\ UNCHANGED <<store, live, service, saved>>

\* Seeded fault: whoever signed in is accepted for an account that exists.
AcceptableAnyone(j, p) ==
    \A n \in Names \ {j.name} : Ready(j.on, n) => entry[j.on][n].of # p

\* The person who signed in must be the one the name stands for, and have no
\* other entry.
Acceptable(j, p) ==
    LET d == j.on
    IN  /\ j.op = "relogin" => p = j.of
        /\ Ready(d, j.name) => entry[d][j.name].of = p
        /\ \A n \in Names \ {j.name} : Ready(d, n) => entry[d][n].of # p

\* A login that is not acceptable, or refused, or cannot be written is given up.
LoginAnswers(t, p) ==
    LET j == job[t]
    IN  /\ at[t] = "login"
        /\ clock < MaxClock /\ clock' = clock + 1
        /\ \/ /\ Acceptable(j, p) /\ Refusal(j.on, j.name, j.base) = "none"
              /\ WriteAccount(t, j.on, j.name, [of |-> p, tok |-> clock + 1], j)
              /\ UNCHANGED marker
           \/ RestoreMarker(j) /\ End(t) /\ UNCHANGED store
        /\ UNCHANGED <<live, spent, consumed, abandoned, saved>>

\* verifyCloudAccountWrite
Verified(j) ==
    LET e == Visible(j.on, j.name)
    IN  Live(e) /\ e.of = j.carry.of /\ e.ver >= j.ver

\* activateSavedAccountAfterRelogin: an account that is in use gets its new login.
ActivateAfterRelogin(j) ==
    live' = IF j.op = "relogin" /\ Current(j.on) = j.name
            THEN [live EXCEPT ![j.on] = CredOf(Visible(j.on, j.name))] ELSE live

AfterLogin(t) ==
    LET j == job[t]
        d == j.on
    IN  /\ at[t] = "after" /\ j.op \in {"add", "relogin"}
        /\ IF Verified(j)
           THEN saved' = [saved EXCEPT ![d] = @ \cup {j.name}] /\ ActivateAfterRelogin(j)
           ELSE UNCHANGED <<saved, live>>
        /\ RestoreMarker(j)
        /\ End(t)
        /\ UNCHANGED <<store, service>>

-----------------------------------------------------------------------------
(* useSavedAccountEntry, with syncCurrentAuthToSavedSelection before it *)

\* reconcileCurrentCloudMarker
Stale(d) ==
    LET m == marker[d]
    IN  m # None /\ Visible(d, m.name) # None
        /\ <<Visible(d, m.name).ver, Visible(d, m.name).tok>> # <<m.ver, m.tok>>

SetMarker(d, m) == marker' = [marker EXCEPT ![d] = m]

\* updateMarkerSyncMetadata
Remark(d, n, ver, tok) ==
    marker' = IF marker[d] # None /\ marker[d].name = n
              THEN [marker EXCEPT ![d] = [name |-> n, ver |-> ver, tok |-> tok]]
              ELSE marker

\* A marker found behind its entry is set right, and nothing is written back.
\* Credentials of someone else only set the marker right.  Otherwise auth.json
\* goes back into the marked entry unless the entry is as new; if that is
\* refused or fails the command ends, and nothing has changed.
BeginUse(t, d, n) ==
    LET m == marker[d]
        j == [Idle EXCEPT !.on = d, !.op = "use", !.name = n]
        Continue(k) == Become(t, k) /\ Goto(t, "activate") /\ UNCHANGED store
        base == IF m.ver # 0 THEN m.ver ELSE Mark(d, m.name).ver
        found == [m EXCEPT !.ver = VersionOf(d, m.name), !.tok = Visible(d, m.name).tok]
    IN  /\ Begins(t, "use")
        /\ Ready(d, n)
        /\ \/ Stale(d) /\ SetMarker(d, found) /\ Continue([j EXCEPT !.healed = TRUE])
           \/ ~Stale(d) /\ (m = None \/ live[d] = None) /\ UNCHANGED marker /\ Continue(j)
           \/ /\ ~Stale(d) /\ m # None /\ live[d] # None
              /\ IF Ready(d, m.name) /\ entry[d][m.name].of # live[d].of
                 THEN SetMarker(d, Mark(d, Current(d))) /\ Continue(j)
                 ELSE /\ Refusal(d, m.name, base) = "none"
                      /\ IF Older(d, m.name, live[d])
                         THEN Remark(d, m.name, VersionOf(d, m.name),
                                     Visible(d, m.name).tok) /\ Continue(j)
                         ELSE WriteAccount(t, d, m.name, live[d], [j EXCEPT !.to = m.name])
                              /\ UNCHANGED marker
        /\ UNCHANGED <<live, service, saved>>

AfterWriteBack(t) ==
    LET j == job[t]
    IN  /\ at[t] = "after" /\ j.op = "use"
        /\ Remark(j.on, j.to, j.ver, j.carry.tok)
        /\ Goto(t, "activate")
        /\ UNCHANGED <<store, live, service, saved, job>>

\* The account is read again before it is activated.
Activate(t) ==
    LET j == job[t]
        d == j.on
    IN  /\ at[t] = "activate"
        /\ IF ~Ready(d, j.name) \/ (Current(d) = j.name /\ ~j.healed)
           THEN UNCHANGED runtime
           ELSE /\ live' = [live EXCEPT ![d] = CredOf(entry[d][j.name])]
                /\ SetMarker(d, Mark(d, j.name))
        /\ End(t)
        /\ UNCHANGED <<store, service, saved>>

-----------------------------------------------------------------------------
(* refreshSavedAccountEntry *)

Refreshing(d, p) ==
    \E t \in Tasks : job[t].op = "refresh" /\ job[t].on = d /\ job[t].of = p

\* Under the lock of the account; the guard is auth.json if it is of that person.
BeginRefresh(t, d, n) ==
    /\ Begins(t, "refresh")
    /\ Ready(d, n)
    /\ LET e == entry[d][n]
       IN  /\ ~Refreshing(d, e.of)
           /\ Become(t, [Idle EXCEPT !.on = d, !.op = "refresh", !.name = n,
                            !.of = e.of, !.base = e.ver, !.carry = CredOf(e),
                            !.guard = IF live[d] # None /\ live[d].of = e.of
                                      THEN live[d] ELSE None])
    /\ Goto(t, "asked")
    /\ UNCHANGED <<store, runtime, service, saved>>

RefreshFails(t) ==
    /\ at[t] = "asked"
    /\ End(t)
    /\ UNCHANGED <<store, runtime, service, saved>>

\* Seeded fault: after a conflict the new tokens are given up.
SameTokenNever(d, n, c) == FALSE

\* retryPersistRotatedCloudAuthAfterConflict: only over the token exchanged.
SameToken(d, n, c) == Ready(d, n) /\ CredOf(entry[d][n]) = c

\* What the answer leaves without its new tokens: nothing, if the name stands for
\* that person still.
Forsaken(d, j) ==
    IF ~Ready(d, j.name) THEN {j.carry}
    ELSE IF entry[d][j.name].of # j.of THEN [of : {j.of}, tok : 1..MaxClock]
    ELSE {}

\* The write may be refused, and it may fail: the protected copy cannot be written,
\* or the passphrase has gone.
RefreshAnswers(t) ==
    LET j == job[t]
        d == j.on
        new == [of |-> j.of, tok |-> clock + 1]
        refusal == Refusal(d, j.name, j.base)
        accepted == refusal = "none" \/ (refusal = "conflict" /\ SameToken(d, j.name, j.carry))
    IN  /\ at[t] = "asked"
        /\ j.carry \notin spent
        /\ clock < MaxClock /\ clock' = clock + 1
        /\ spent' = spent \cup {j.carry}
        /\ consumed' = consumed \cup {j.carry}
        /\ \/ /\ accepted /\ WriteAccount(t, d, j.name, new, j)
              /\ abandoned' = abandoned \cup Forsaken(d, j)
           \/ /\ End(t) /\ UNCHANGED store
              /\ abandoned' = abandoned \cup Forsaken(d, j)
                                 \cup (IF accepted THEN {j.carry} ELSE {})
        /\ UNCHANGED <<runtime, saved>>

\* writeCurrentAuthIfUnchanged
AfterRefresh(t) ==
    LET j == job[t]
        d == j.on
    IN  /\ at[t] = "after" /\ j.op = "refresh"
        /\ IF j.guard # None /\ live[d] = j.guard
           THEN /\ live' = [live EXCEPT ![d] = j.carry]
                /\ Remark(d, j.name, j.ver, j.carry.tok)
           ELSE UNCHANGED runtime
        /\ End(t)
        /\ UNCHANGED <<store, service, saved>>

-----------------------------------------------------------------------------
(* removeSavedAccountEntry, renameSavedAccountEntry,
   restoreCloudAccountPayloadFromProtectedBackup *)

\* What the list showed, while the user is asked.
BeginChange(t, op, d, n, m) ==
    /\ Begins(t, op)
    /\ Listed(d, n) /\ VersionOf(d, n) < MaxVersion
    /\ Become(t, [Idle EXCEPT !.on = d, !.op = op, !.name = n, !.to = m,
                              !.base = Shown(d, n).ver])
    /\ Goto(t, "confirm")
    /\ UNCHANGED <<store, runtime, service, saved>>

Unchanged(d, n, base) == base # 0 => VersionOf(d, n) = base

\* removeSavedAccountEntry: not the account in use.
MayRemove(d, n) == n \in index[d] /\ Current(d) # n

\* removeSyncedCloudAccount: a tombstone of the next version, still in the index.
Tombstone(d, n) == [ver |-> VersionOf(d, n) + 1, of |-> None, tok |-> 0]

ConfirmRemove(t) ==
    LET j == job[t]
        d == j.on
        n == j.name
        e == Visible(d, n)
    IN  /\ at[t] = "confirm" /\ j.op = "remove" /\ VersionOf(d, n) < MaxVersion
        /\ IF MayRemove(d, n) /\ (e # None => Live(e) /\ Unchanged(d, n, j.base))
           THEN /\ SetEntry(d, n, Tombstone(d, n))
                /\ Become(t, [j EXCEPT !.names = index[d]])
                /\ Goto(t, "index")
                /\ saved' = [saved EXCEPT ![d] = @ \ {n}]
                /\ UNCHANGED <<index, backup, shared>>
           ELSE End(t) /\ UNCHANGED <<store, saved>>
        /\ UNCHANGED <<runtime, service>>

AfterRemove(t) ==
    LET j == job[t]
    IN  /\ at[t] = "after" /\ j.op = "remove"
        /\ backup' = [backup EXCEPT ![j.on][j.name] = None]
        /\ End(t)
        /\ UNCHANGED <<entry, index, shared, dirty, runtime, service, saved>>

\* The old entry goes, the new one comes after the wait.
ConfirmRename(t) ==
    LET j == job[t]
        d == j.on
        e == Visible(d, j.name)
    IN  /\ at[t] = "confirm" /\ j.op = "rename" /\ VersionOf(d, j.name) < MaxVersion
        /\ IF e # None /\ Visible(d, j.to) = None /\ Unchanged(d, j.name, j.base)
           THEN /\ SetEntry(d, j.name, None)
                /\ Become(t, [j EXCEPT !.carry = [e EXCEPT !.ver = @ + 1],
                                       !.names = (index[d] \ {j.name}) \cup {j.to}])
                /\ Goto(t, "moved")
                /\ saved' = [saved EXCEPT ![d] = @ \ {j.name}]
                /\ UNCHANGED <<index, backup, shared>>
           ELSE End(t) /\ UNCHANGED <<store, saved>>
        /\ UNCHANGED <<runtime, service>>

WriteRenamed(t) ==
    LET j == job[t]
    IN  /\ at[t] = "moved"
        /\ SetEntry(j.on, j.to, j.carry)
        /\ Goto(t, "index")
        /\ UNCHANGED <<index, backup, shared, runtime, service, saved, job>>

\* renameProtectedCloudAccountBackup, and the marker.
AfterRename(t) ==
    LET j == job[t]
        d == j.on
    IN  /\ at[t] = "after" /\ j.op = "rename"
        /\ backup' = IF backup[d][j.name] = None THEN backup
                     ELSE [backup EXCEPT ![d][j.to] = backup[d][j.name],
                                         ![d][j.name] = None]
        /\ IF marker[d] # None /\ marker[d].name = j.name
           THEN SetMarker(d, [name |-> j.to, ver |-> j.carry.ver, tok |-> j.carry.tok])
           ELSE UNCHANGED marker
        /\ saved' = [saved EXCEPT ![d] = @ \ {j.name}]
        /\ End(t)
        /\ UNCHANGED <<entry, index, shared, dirty, live, service>>

\* Only where the payload is missing.
Restore(t, d, n) ==
    /\ Begins(t, "restore")
    /\ Visible(d, n) = None /\ backup[d][n] # None
    /\ SetEntry(d, n, [backup[d][n] EXCEPT !.ver = 1])
    /\ Become(t, [Idle EXCEPT !.on = d, !.op = "restore", !.name = n,
                              !.names = index[d] \cup {n}])
    /\ Goto(t, "index")
    /\ UNCHANGED <<index, backup, shared, runtime, service, saved>>

AfterRestore(t) ==
    LET j == job[t]
    IN  /\ at[t] = "after" /\ j.op = "restore"
        /\ saved' = IF Ready(j.on, j.name) THEN [saved EXCEPT ![j.on] = @ \cup {j.name}]
                    ELSE saved
        /\ End(t)
        /\ UNCHANGED <<store, runtime, service>>

-----------------------------------------------------------------------------
(* The surroundings. *)

\* Codex refreshes the tokens in auth.json.
CodexRotates(d) ==
    /\ "codex" \in Ops
    /\ live[d] # None /\ live[d] \notin spent
    /\ clock < MaxClock /\ clock' = clock + 1
    /\ spent' = spent \cup {live[d]}
    /\ live' = [live EXCEPT ![d].tok = clock + 1]
    /\ UNCHANGED <<store, marker, consumed, abandoned, saved, at, job>>

Registered(d, k) == k = None \/ k \in index[d]

\* Settings Sync carries one key at a time.
Upload(d, k) ==
    /\ "sync" \in Ops
    /\ k \in dirty[d] /\ Registered(d, k)
    /\ shared' = IF k = None THEN [shared EXCEPT !.index = index[d]]
                 ELSE [shared EXCEPT !.entry[k] = entry[d][k]]
    /\ dirty' = [dirty EXCEPT ![d] = @ \ {k}]
    /\ UNCHANGED <<entry, index, backup, runtime, service, saved, at, job>>

Download(d, k) ==
    /\ "sync" \in Ops
    /\ k \notin dirty[d] /\ Registered(d, k)
    /\ index' = IF k = None THEN [index EXCEPT ![d] = shared.index] ELSE index
    /\ entry' = IF k = None THEN entry ELSE [entry EXCEPT ![d][k] = shared.entry[k]]
    /\ UNCHANGED <<backup, shared, dirty, runtime, service, saved, at, job>>

-----------------------------------------------------------------------------

\* Accounts that were saved on some device and have reached every other one.
Init ==
    \E owner \in [Names -> People \cup {None}] :
        LET known == {n \in Names : owner[n] # None}
            first == [n \in Names |-> IF n \in known
                                      THEN [ver |-> 1, of |-> owner[n], tok |-> 1]
                                      ELSE None]
        IN  /\ \A m, n \in known : owner[m] = owner[n] => m = n
            /\ entry = [d \in Devices |-> first]
            /\ index = [d \in Devices |-> known]
            /\ shared = [index |-> known, entry |-> first]
            /\ \E saver \in Devices :
                  backup = [d \in Devices |-> IF d = saver THEN first
                                              ELSE [n \in Names |-> None]]
            /\ live = [d \in Devices |-> None]
            /\ marker = [d \in Devices |-> None]
            /\ dirty = [d \in Devices |-> {}]
            /\ saved = [d \in Devices |-> {n \in known : backup[d][n] # None}]
    /\ clock = 1
    /\ spent = {} /\ consumed = {} /\ abandoned = {}
    /\ at = [t \in Tasks |-> "idle"]
    /\ job = [t \in Tasks |-> Idle]

Command(t) ==
    \/ \E d \in Devices, n \in Names :
          \/ BeginAdd(t, d, n) \/ BeginRelogin(t, d, n) \/ BeginUse(t, d, n)
          \/ BeginRefresh(t, d, n) \/ BeginChange(t, "remove", d, n, n)
          \/ \E m \in Names \ {n} : BeginChange(t, "rename", d, n, m)
          \/ Restore(t, d, n)
    \/ \E p \in People : LoginAnswers(t, p)
    \/ LoginCancelled(t) \/ WriteIndex(t) \/ AfterLogin(t)
    \/ AfterWriteBack(t) \/ Activate(t)
    \/ RefreshAnswers(t) \/ RefreshFails(t) \/ AfterRefresh(t)
    \/ ConfirmRemove(t) \/ AfterRemove(t)
    \/ ConfirmRename(t) \/ WriteRenamed(t) \/ AfterRename(t) \/ AfterRestore(t)

Next ==
    \/ \E t \in Tasks : Command(t)
    \/ \E d \in Devices :
          CodexRotates(d) \/ \E k \in Keys : Upload(d, k) \/ Download(d, k)

Spec == Init /\ [][Next]_vars

-----------------------------------------------------------------------------

TypeOK ==
    /\ entry \in [Devices -> [Names -> Entries \cup {None}]]
    /\ backup \in [Devices -> [Names -> Entries \cup {None}]]
    /\ index \in [Devices -> SUBSET Names]
    /\ live \in [Devices -> Credentials \cup {None}]
    /\ marker \in [Devices -> Marks \cup {None}]
    /\ shared.index \subseteq Names /\ shared.entry \in [Names -> Entries \cup {None}]
    /\ dirty \in [Devices -> SUBSET Keys]
    /\ clock \in Nat
    /\ consumed \subseteq spent /\ spent \subseteq Credentials
    /\ saved \in [Devices -> SUBSET Names]
    /\ at \in [Tasks -> Steps]
    /\ job \in [Tasks -> Jobs]

\* A command writes an entry: not Settings Sync, not the second half of a
\* renaming.
Written(d, n) ==
    /\ entry'[d][n] # entry[d][n]
    /\ job' # job

\* While the service was asked, renamings gave the name of the account to another
\* one, of the same version.
Mistaken(d, n) ==
    \E t \in Tasks : /\ at[t] = "asked" /\ job[t].on = d /\ job[t].name = n
                     /\ job[t].of # entry[d][n].of /\ job[t].base = entry[d][n].ver

\* No command puts the credentials of one person into the account of another,
\* but for a refresh that takes another account for its own (saveAuthAsAccount,
\* syncCurrentAuthToSavedSelection, retryPersistRotatedCloudAuthAfterConflict).
KeepsIdentity ==
    [][\A d \in Devices, n \in Names :
          Written(d, n) /\ Ready(d, n) /\ Live(entry'[d][n]) /\ ~Mistaken(d, n)
              => entry'[d][n].of = entry[d][n].of]_vars

\* No command replaces tokens by older ones of the same person: neither the
\* auth.json that was in use elsewhere meanwhile nor a login that waited
\* (shouldSkipOlderCloudAccountAuthWrite, writeCloudAccountWithExpectedVersion).
FreshnessKept ==
    [][\A d \in Devices, n \in Names :
          Written(d, n) /\ Ready(d, n) /\ Live(entry'[d][n])
              => entry'[d][n].tok >= entry[d][n].tok]_vars

\* No command brings back an account that was removed, but one that adds it anew:
\* what was under way when it was removed does not (writeCloudAccountWithExpectedVersion).
StaysRemoved ==
    [][\A d \in Devices, n \in Names :
          Written(d, n) /\ Visible(d, n) # None /\ ~Ready(d, n) /\ Live(entry'[d][n])
              => \E t \in Tasks : at[t] = "login" /\ job[t].op = "add" /\ job[t].name = n
                                  /\ job[t].base = 0]_vars

\* An account saved on a device stays in the list there, ready or to be restored,
\* until it is removed or renamed, although commands and Settings Sync write back
\* an index that was read before (writeProtectedCloudAccountBackup, getCloudAccounts).
ListedUntilRemoved ==
    \A d \in Devices : \A n \in saved[d] :
        Listed(d, n) \/ (Visible(d, n) # None /\ ~Ready(d, n))

\* A saved account does not offer a token that a refresh has exchanged, unless its
\* name stood for nothing, or another, when an answer came, or the answer could not
\* be written (refreshCloudSavedAccountEntry).
SpentNotOffered ==
    \A d \in Devices, n \in Names :
        Ready(d, n) /\ CredOf(entry[d][n]) \in consumed
            => CredOf(entry[d][n]) \in abandoned

\* A switch that goes on without writing anything back takes nothing out of use
\* that is newer than what is saved for that person (syncCurrentAuthToSavedSelection).
SwitchKeepsNewest ==
    [][\A t \in Tasks :
          at[t] = "idle" /\ at'[t] = "activate" =>
              LET c == live[job'[t].on]
              IN  \A n \in Names :
                    c # None /\ c \notin spent /\ Ready(job'[t].on, n)
                        /\ entry[job'[t].on][n].of = c.of
                    => entry[job'[t].on][n].tok >= c.tok]_vars
=============================================================================
