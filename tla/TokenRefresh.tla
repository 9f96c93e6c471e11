---------------------------- MODULE TokenRefresh ----------------------------
(***************************************************************************)
(* Refreshing the tokens of an account: refreshAccount (accounts.ts) with  *)
(* refreshAccessToken (refresh.ts), the write-back of the current account  *)
(* (auth.ts) and the guarded write of auth.json (liveSwitch.ts), run by    *)
(* several windows and CLI processes beside quota lookups, which take the  *)
(* same lock (queryQuota), account switches, Codex itself and the commands *)
(* that add, rename and remove saved accounts.                             *)
(*                                                                         *)
(* A refresh token can be used once: the account service knows the newest  *)
(* version of each account's tokens and accepts no other.  A switch is one *)
(* step here (AtomicSwitch; LiveSwitch shows when that is so) and the lock *)
(* of an account is taken and released in one step each.                   *)
(***************************************************************************)
EXTENDS Naturals

CONSTANTS
    Tasks,        \* calls of refreshAccount or queryQuota under way
    Identities,   \* ChatGPT accounts, by getAccountIdentity
    Names,        \* names of saved accounts
    Live,         \* as a request: no name; as a file: auth.json itself
    Nobody,       \* no credentials, no holder
    Requests,     \* the names they are called with, or Live
    MaxVer,       \* bound on rotations of one account's tokens
    Faults        \* what else may happen, see below

ASSUME ConstantsAssumption ==
    /\ Live \notin Names
    /\ Nobody \notin Tasks \cup Identities
    /\ Requests \subseteq Names \cup {Live}
    /\ MaxVer \in Nat
    /\ Faults \subseteq {"switch",  \* the selection changes during a refresh
                         "rename",  \* a saved account is renamed or removed then
                         "crash",   \* a refreshing process is killed
                         "lost",    \* the answer of the service is lost
                         "disk",    \* the saved file cannot be written
                         "busy",    \* auth.json cannot be written
                         "expire"}  \* a lock held for five minutes is removed

VARIABLES
    current,      \* tokens in auth.json; Nobody while a provider is selected
    saved,        \* per name: the saved tokens, or Nobody
    server,       \* per account: the version the service accepts
    lock,         \* per account: the task whose lock file exists, or Nobody
    pc,           \* per task: what it does next
    op, request,  \* per task: what it was called for
    key,          \* per task: whose lock it takes
    file, auth,   \* per task: the resolved file and its tokens
    guard         \* per task: auth.json as captured, or Nobody

locals == <<op, request, key, file, auth, guard>>
vars == <<current, saved, server, lock, pc, locals>>

Credentials == [of : Identities, ver : Nat]

\* null is no object.
ASSUME NullAssumption == Nobody \notin Credentials

\* The task knows whose tokens it refreshes.
Resolved == {"capture", "request", "save", "write"}

TypeOK ==
    /\ current \in Credentials \cup {Nobody}
    /\ saved \in [Names -> Credentials \cup {Nobody}]
    /\ server \in [Identities -> Nat]
    /\ lock \in [Identities -> Tasks \cup {Nobody}]
    /\ pc \in [Tasks -> {"idle", "lock", "resolve", "release"} \cup Resolved]
    /\ op \in [Tasks -> {"refresh", "quota"}]
    /\ request \in [Tasks -> Names \cup {Live}]
    /\ key \in [Tasks -> Identities \cup {Nobody}]
    /\ file \in [Tasks -> Names \cup {Live}]
    /\ auth \in [Tasks -> Credentials \cup {Nobody}]
    /\ guard \in [Tasks -> Credentials \cup {Nobody}]
    /\ \A t \in Tasks :
        /\ pc[t] # "idle" => key[t] # Nobody
        /\ pc[t] \in Resolved => auth[t] # Nobody
        /\ pc[t] = "write" => guard[t] # Nobody

-----------------------------------------------------------------------------
(* The saved accounts and the current one *)

EntriesOf(i) == {n \in Names : saved[n] # Nobody /\ saved[n].of = i}

\* detectCurrentName, findMatchingNamedAuthName: the first saved account of
\* the same identity; Live when there is none.
CurrentName ==
    IF current # Nobody /\ EntriesOf(current.of) # {}
      THEN CHOOSE n \in EntriesOf(current.of) : TRUE
      ELSE Live

\* syncCurrentAuthToSavedAccount
Synced == [n \in Names |-> IF n = CurrentName THEN current ELSE saved[n]]

\* resolveRefreshTarget: what a request refers to now.
Resolvable(r) == IF r = Live THEN current # Nobody ELSE saved[r] # Nobody
Target(r) == IF r = Live THEN CurrentName ELSE r
TokensIn(f) == IF f = Live THEN current ELSE Synced[f]

Init ==
    /\ server = [i \in Identities |-> 1]
    /\ \E owner \in [Names -> Identities \cup {Nobody}] :
        /\ \A m, n \in Names : owner[m] = owner[n] /\ owner[m] # Nobody => m = n
        /\ saved = [n \in Names |-> IF owner[n] = Nobody THEN Nobody
                                      ELSE [of |-> owner[n], ver |-> 1]]
    /\ \/ current = Nobody
       \/ \E i \in Identities : current = [of |-> i, ver |-> 1]
    /\ lock = [i \in Identities |-> Nobody]
    /\ pc = [t \in Tasks |-> "idle"]
    /\ op = [t \in Tasks |-> "refresh"]
    /\ request = [t \in Tasks |-> Live]
    /\ key = [t \in Tasks |-> Nobody]
    /\ file = [t \in Tasks |-> Live]
    /\ auth = [t \in Tasks |-> Nobody]
    /\ guard = [t \in Tasks |-> Nobody]

Goto(t, l) == pc' = [pc EXCEPT ![t] = l]

\* What a call has read lives no longer than the call.
Over(t) ==
    /\ Goto(t, "idle")
    /\ op' = [op EXCEPT ![t] = "refresh"]
    /\ request' = [request EXCEPT ![t] = Live]
    /\ key' = [key EXCEPT ![t] = Nobody]
    /\ file' = [file EXCEPT ![t] = Live]
    /\ auth' = [auth EXCEPT ![t] = Nobody]
    /\ guard' = [guard EXCEPT ![t] = Nobody]

-----------------------------------------------------------------------------
(* refreshAccount, and queryQuota as far as it goes the same way *)

\* The target is resolved for the first time, to know whose lock to take; that
\* writes the current tokens back.
Begin(t, o, r) ==
    /\ pc[t] = "idle"
    /\ Resolvable(r)
    /\ saved' = Synced
    /\ op' = [op EXCEPT ![t] = o]
    /\ request' = [request EXCEPT ![t] = r]
    /\ key' = [key EXCEPT ![t] = TokensIn(Target(r)).of]
    /\ Goto(t, "lock")
    /\ UNCHANGED <<current, server, lock, file, auth, guard>>

Acquire(t) ==
    /\ pc[t] = "lock"
    /\ lock[key[t]] = Nobody
    /\ lock' = [lock EXCEPT ![key[t]] = t]
    /\ Goto(t, "resolve")
    /\ UNCHANGED <<current, saved, server, locals>>

\* Seeded fault: a call that waited too long goes on without the lock.
TimeOutAndGo(t) ==
    /\ pc[t] = "lock"
    /\ lock[key[t]] # Nobody
    /\ Goto(t, "resolve")
    /\ UNCHANGED <<current, saved, server, lock, locals>>

\* Thirty seconds have passed.
TimeOut(t) ==
    /\ pc[t] = "lock"
    /\ lock[key[t]] # Nobody
    /\ Over(t)
    /\ UNCHANGED <<current, saved, server, lock>>

\* Seeded fault: the file to write is that of the selected account.
ResolveSelected(t) ==
    LET f == Target(request[t])
    IN  /\ pc[t] = "resolve"
        /\ Resolvable(request[t])
        /\ saved' = Synced
        /\ file' = [file EXCEPT ![t] = CurrentName]
        /\ auth' = [auth EXCEPT ![t] = TokensIn(f)]
        /\ Goto(t, IF f = CurrentName THEN "capture" ELSE "request")
        /\ UNCHANGED <<current, server, lock, op, request, key, guard>>

\* The target is resolved again under the lock.  A quota lookup only sends its
\* access token after that.
Resolve(t) ==
    LET f == Target(request[t])
    IN  /\ pc[t] = "resolve"
        /\ Resolvable(request[t])
        /\ saved' = Synced
        /\ file' = [file EXCEPT ![t] = f]
        /\ auth' = [auth EXCEPT ![t] = TokensIn(f)]
        /\ Goto(t, CASE op[t] = "quota" -> "release"
                      [] op[t] # "quota" /\ f = CurrentName -> "capture"
                      [] OTHER -> "request")
        /\ UNCHANGED <<current, server, lock, op, request, key, guard>>

Unresolved(t) ==
    /\ pc[t] = "resolve"
    /\ ~Resolvable(request[t])
    /\ Goto(t, "release")
    /\ UNCHANGED <<current, saved, server, lock, locals>>

\* captureCurrentAuthWriteGuard remembers auth.json if it is still that
\* account's.
Capture(t) ==
    /\ pc[t] = "capture"
    /\ guard' = [guard EXCEPT ![t] =
                   IF current # Nobody /\ current.of = auth[t].of
                     THEN current ELSE Nobody]
    /\ Goto(t, "request")
    /\ UNCHANGED <<current, saved, server, lock, op, request, key, file, auth>>

\* The service accepts the token it issued last and answers with the next.
Exchange(t) ==
    LET i == auth[t].of
    IN  /\ pc[t] = "request"
        /\ auth[t].ver = server[i]
        /\ server[i] < MaxVer
        /\ server' = [server EXCEPT ![i] = @ + 1]
        /\ \/ /\ auth' = [auth EXCEPT ![t].ver = server[i] + 1]
              /\ Goto(t, "save")
           \/ /\ "lost" \in Faults
              /\ Goto(t, "release")
              /\ UNCHANGED auth
        /\ UNCHANGED <<current, saved, lock, op, request, key, file, guard>>

\* The service refuses the token, or cannot be reached.
Refuse(t) ==
    /\ pc[t] = "request"
    /\ Goto(t, "release")
    /\ UNCHANGED <<current, saved, server, lock, locals>>

\* Seeded fault: auth.json keeps the used token.
SaveOnly(t) ==
    /\ pc[t] = "save"
    /\ saved' = IF file[t] = Live THEN saved
                  ELSE [saved EXCEPT ![file[t]] = auth[t]]
    /\ Goto(t, "release")
    /\ UNCHANGED <<current, server, lock, locals>>

\* The saved file is written under the name that was resolved, whether it is
\* still there or not; the tokens of an unsaved login go to auth.json only.
Save(t) ==
    /\ pc[t] = "save"
    /\ saved' = IF file[t] = Live THEN saved
                  ELSE [saved EXCEPT ![file[t]] = auth[t]]
    /\ Goto(t, IF guard[t] # Nobody THEN "write" ELSE "release")
    /\ UNCHANGED <<current, server, lock, locals>>

SaveFails(t) ==
    /\ "disk" \in Faults
    /\ pc[t] = "save"
    /\ file[t] # Live
    /\ Goto(t, "release")
    /\ UNCHANGED <<current, saved, server, lock, locals>>

\* Seeded fault: auth.json may have changed since it was captured.
WriteAnyway(t) ==
    /\ pc[t] = "write"
    /\ current' = auth[t]
    /\ Goto(t, "release")
    /\ UNCHANGED <<saved, server, lock, locals>>

\* writeCurrentAuthIfUnchanged
WriteCurrent(t) ==
    /\ pc[t] = "write"
    /\ current' = IF current = guard[t] THEN auth[t] ELSE current
    /\ Goto(t, "release")
    /\ UNCHANGED <<saved, server, lock, locals>>

\* The live-switch lock times out, or the write throws.
WriteFails(t) ==
    /\ "busy" \in Faults
    /\ pc[t] = "write"
    /\ Goto(t, "release")
    /\ UNCHANGED <<current, saved, server, lock, locals>>

\* The lock file is removed, whoever created the one that is there now.
Release(t) ==
    /\ pc[t] = "release"
    /\ lock' = [lock EXCEPT ![key[t]] = Nobody]
    /\ Over(t)
    /\ UNCHANGED <<current, saved, server>>

\* The process is killed; the next one to wait finds its pid gone.
Crash(t) ==
    /\ "crash" \in Faults
    /\ pc[t] # "idle"
    /\ lock' = [i \in Identities |-> IF lock[i] = t THEN Nobody ELSE lock[i]]
    /\ Over(t)
    /\ UNCHANGED <<current, saved, server>>

\* tryRemoveStaleAccountLock: the lock ages out although its holder may live; a
\* request is given up after some silence only, and a machine may be suspended.
Expire(i) ==
    /\ "expire" \in Faults
    /\ lock[i] # Nobody
    /\ lock' = [lock EXCEPT ![i] = Nobody]
    /\ UNCHANGED <<current, saved, server, pc, locals>>

-----------------------------------------------------------------------------
(* What runs beside it *)

Quiet == \A t \in Tasks : pc[t] = "idle"
Refreshing == UNCHANGED <<server, lock, pc, locals>>

\* useAccount
Switch(n) ==
    /\ Quiet \/ "switch" \in Faults
    /\ saved[n] # Nobody
    /\ saved' = Synced
    /\ current' = Synced[n]
    /\ Refreshing

\* switchMode to a provider
SwitchToProvider ==
    /\ Quiet \/ "switch" \in Faults
    /\ saved' = Synced
    /\ current' = Nobody
    /\ Refreshing

\* Codex refreshes the account in auth.json by itself.
CodexRefresh ==
    /\ current # Nobody
    /\ current.ver = server[current.of]
    /\ server[current.of] < MaxVer
    /\ server' = [server EXCEPT ![current.of] = @ + 1]
    /\ current' = [current EXCEPT !.ver = @ + 1]
    /\ UNCHANGED <<saved, lock, pc, locals>>

\* Seeded fault: an identity may be saved under several names.
AddAnyAccount(n) ==
    /\ current # Nobody
    /\ saved[n] # Nobody => saved[n].of = current.of
    /\ saved' = [saved EXCEPT ![n] = current]
    /\ UNCHANGED current
    /\ Refreshing

\* addAccountFromAuth: an identity is saved under one name only, and a name
\* is not given to another identity.
AddAccount(n) ==
    /\ current # Nobody
    /\ saved[n] # Nobody => saved[n].of = current.of
    /\ EntriesOf(current.of) \subseteq {n}
    /\ saved' = [saved EXCEPT ![n] = current]
    /\ UNCHANGED current
    /\ Refreshing

RenameAccount(m, n) ==
    /\ Quiet \/ "rename" \in Faults
    /\ saved[m] # Nobody
    /\ saved[n] = Nobody
    /\ saved' = [saved EXCEPT ![m] = Nobody, ![n] = saved[m]]
    /\ UNCHANGED current
    /\ Refreshing

\* The current account cannot be removed.
RemoveAccount(n) ==
    /\ Quiet \/ "rename" \in Faults
    /\ saved[n] # Nobody
    /\ CurrentName # n
    /\ saved' = [saved EXCEPT ![n] = Nobody]
    /\ UNCHANGED current
    /\ Refreshing

Refresh(t) ==
    \/ \E o \in {"refresh", "quota"}, r \in Requests : Begin(t, o, r)
    \/ Acquire(t) \/ TimeOut(t) \/ Resolve(t) \/ Unresolved(t) \/ Capture(t)
    \/ Exchange(t) \/ Refuse(t) \/ Save(t) \/ SaveFails(t)
    \/ WriteCurrent(t) \/ WriteFails(t) \/ Release(t) \/ Crash(t)

Next ==
    \/ \E t \in Tasks : Refresh(t)
    \/ \E i \in Identities : Expire(i)
    \/ \E n \in Names : Switch(n) \/ AddAccount(n) \/ RemoveAccount(n)
    \/ \E m, n \in Names : RenameAccount(m, n)
    \/ SwitchToProvider \/ CodexRefresh

Spec == Init /\ [][Next]_vars

-----------------------------------------------------------------------------
(* Properties *)

\* The tokens the service accepts are somewhere: in auth.json, in a saved file
\* or in the hands of the refresh that received them.  What is lost costs the
\* user a new login (syncCurrentAuthToSavedAccount, persistUpdatedAuth,
\* writeCurrentAuthIfUnchanged).
Newest(i) == [of |-> i, ver |-> server[i]]
TokensKept ==
    \A i \in Identities : EntriesOf(i) # {} =>
        \/ current = Newest(i)
        \/ \E n \in Names : saved[n] = Newest(i)
        \/ \E t \in Tasks : pc[t] \in {"save", "write"} /\ auth[t] = Newest(i)

\* Two refreshes never work on the same account at once: none presents a token
\* that the other has used up (withAccountLock, the second resolution under
\* the lock).
OneRefresh ==
    \A t, u \in Tasks :
        pc[t] \in Resolved /\ pc[u] \in Resolved /\ auth[t].of = auth[u].of
            => t = u

\* No account is saved under two names (addAccountAuth, and a refresh that ends
\* after the entry it began with).
SavedOnce ==
    \A m, n \in Names :
        saved[m] # Nobody /\ saved[n] # Nobody /\ saved[m].of = saved[n].of
            => m = n

\* The tokens a refresh brings back go into an entry of the same account
\* (authPath in refreshAccount).
SavesIntoOwnEntry ==
    \A t \in Tasks :
        pc[t] = "save" /\ file[t] # Live =>
            saved[file[t]] # Nobody /\ saved[file[t]].of = auth[t].of

\* However late a refresh ends, it never changes the selection: it replaces the
\* tokens in auth.json by newer ones of the same account, or leaves them alone
\* (writeCurrentAuthIfUnchanged).
SelectionSurvivesRefresh ==
    [][\A t \in Tasks : pc[t] = "write" /\ pc'[t] = "release" =>
        \/ current' = current
        \/ /\ current # Nobody
           /\ current'.of = current.of
           /\ current'.ver > current.ver]_vars
=============================================================================
