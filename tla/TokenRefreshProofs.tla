------------------------- MODULE TokenRefreshProofs -------------------------
(***************************************************************************)
(* Proofs about TokenRefresh for every set of tasks, accounts and names,   *)
(* every number of rotations and every combination of faults, except where *)
(* a theorem says otherwise.                                               *)
(***************************************************************************)
EXTENDS TokenRefresh, TLAPS

\* The current account, when it is saved, is saved under CurrentName.
LEMMA CurrentEntry ==
    CurrentName # Live =>
        /\ CurrentName \in Names
        /\ current # Nobody
        /\ saved[CurrentName] # Nobody
        /\ saved[CurrentName].of = current.of
<1>1. EntriesOf(current.of) # {} =>
        (CHOOSE n \in EntriesOf(current.of) : TRUE) \in EntriesOf(current.of)
  OBVIOUS
<1> QED BY <1>1 DEF CurrentName, EntriesOf

\* Writing the current tokens back changes no entry's account and adds none.
LEMMA WriteBack ==
    ASSUME TypeOK
    PROVE  /\ Synced \in [Names -> Credentials \cup {Nobody}]
           /\ \A n \in Names :
                /\ Synced[n] # Nobody <=> saved[n] # Nobody
                /\ saved[n] # Nobody => Synced[n].of = saved[n].of
                /\ Synced[n] \in {current, saved[n]}
<1>1. ASSUME NEW n \in Names, n = CurrentName
      PROVE  /\ Synced[n] = current /\ current \in Credentials
             /\ saved[n] # Nobody /\ saved[n].of = current.of
  <2>1. n # Live
    BY <1>1, ConstantsAssumption
  <2> QED BY <1>1, <2>1, CurrentEntry DEF Synced, TypeOK
<1>2. ASSUME NEW n \in Names, n # CurrentName
      PROVE  Synced[n] = saved[n]
  BY <1>2 DEF Synced
<1>3. \A n \in Names : Synced[n] \in Credentials \cup {Nobody}
  BY <1>1, <1>2 DEF TypeOK
<1>4. Synced \in [Names -> Credentials \cup {Nobody}]
  BY <1>3 DEF Synced
<1>5. \A n \in Names :
                /\ Synced[n] # Nobody <=> saved[n] # Nobody
                /\ saved[n] # Nobody => Synced[n].of = saved[n].of
                /\ Synced[n] \in {current, saved[n]}
  BY <1>1, <1>2, NullAssumption DEF TypeOK
<1> QED BY <1>4, <1>5

\* What a request refers to: tokens of the named entry's account, or of the
\* current one.
LEMMA Resolution ==
    ASSUME TypeOK, NEW r \in Names \cup {Live}, Resolvable(r)
    PROVE  /\ Target(r) \in Names \cup {Live}
           /\ TokensIn(Target(r)) \in Credentials
           /\ TokensIn(Target(r)) # Nobody
           /\ r \in Names => /\ Target(r) = r
                             /\ TokensIn(Target(r)).of = saved[r].of
           /\ TokensIn(Target(r)) \in
                {current} \cup {saved[n] : n \in Names}
<1>1. CASE r = Live
  <2>1. current \in Credentials
    BY <1>1 DEF Resolvable, TypeOK
  <2>2. TokensIn(CurrentName) = current
    BY CurrentEntry DEF TokensIn, Synced
  <2> QED
    BY <1>1, <2>1, <2>2, CurrentEntry, ConstantsAssumption, NullAssumption DEF Target
<1>2. CASE r \in Names
  <2>1. r # Live /\ Target(r) = r /\ TokensIn(Target(r)) = Synced[r]
    BY <1>2, ConstantsAssumption DEF Target, TokensIn
  <2>2. saved[r] # Nobody
    BY <2>1 DEF Resolvable
  <2> QED BY <1>2, <2>1, <2>2, WriteBack, NullAssumption DEF TypeOK
<1> QED BY <1>1, <1>2

-----------------------------------------------------------------------------
(* Types *)

LEMMA TypeInit == Init => TypeOK
<1> SUFFICES ASSUME Init PROVE TypeOK
  OBVIOUS
<1>1. saved \in [Names -> Credentials \cup {Nobody}]
  <2>1. PICK owner \in [Names -> Identities \cup {Nobody}] :
          saved = [n \in Names |-> IF owner[n] = Nobody THEN Nobody
                                     ELSE [of |-> owner[n], ver |-> 1]]
    BY DEF Init
  <2>2. ASSUME NEW n \in Names, owner[n] # Nobody
        PROVE  [of |-> owner[n], ver |-> 1] \in Credentials
    BY <2>2 DEF Credentials
  <2> QED BY <2>1, <2>2
<1>2. current \in Credentials \cup {Nobody}
  BY DEF Init, Credentials
<1> QED BY <1>1, <1>2 DEF Init, TypeOK, Resolved

LEMMA TypeNext == TypeOK /\ [Next]_vars => TypeOK'
<1> SUFFICES ASSUME TypeOK, [Next]_vars PROVE TypeOK'
  OBVIOUS
<1> USE DEF TypeOK, Goto, Resolved
<1>1. ASSUME NEW t \in Tasks, NEW o \in {"refresh", "quota"}, NEW r \in Requests,
             Begin(t, o, r)
      PROVE  TypeOK'
  <2>1. r \in Names \cup {Live} /\ Resolvable(r)
    BY <1>1, ConstantsAssumption DEF Begin
  <2>2. TokensIn(Target(r)).of \in Identities /\ TokensIn(Target(r)).of # Nobody
    <3>1. TokensIn(Target(r)) \in Credentials
      BY <2>1, Resolution
    <3> QED BY <3>1, ConstantsAssumption DEF Credentials
  <2> QED BY <1>1, <2>1, <2>2, WriteBack DEF Begin
<1>2. ASSUME NEW t \in Tasks, Resolve(t) PROVE TypeOK'
  <2>1. request[t] \in Names \cup {Live} /\ Resolvable(request[t])
    BY <1>2 DEF Resolve
  <2>2. /\ Target(request[t]) \in Names \cup {Live}
        /\ TokensIn(Target(request[t])) \in Credentials
        /\ TokensIn(Target(request[t])) # Nobody
    BY <2>1, Resolution
  <2>3. /\ saved' \in [Names -> Credentials \cup {Nobody}]
        /\ UNCHANGED <<current, server, lock, op, request, key, guard>>
        /\ file' = [file EXCEPT ![t] = Target(request[t])]
        /\ auth' = [auth EXCEPT ![t] = TokensIn(Target(request[t]))]
        /\ pc[t] = "resolve"
        /\ \E l \in {"release", "capture", "request"} : pc' = [pc EXCEPT ![t] = l]
    BY <1>2, WriteBack DEF Resolve
  <2> QED BY <2>2, <2>3
<1>3. ASSUME NEW t \in Tasks, Exchange(t) PROVE TypeOK'
  <2>1. auth[t] \in Credentials /\ auth[t].of \in Identities
    BY <1>3, NullAssumption DEF Exchange, Credentials
  <2>2. [auth[t] EXCEPT !.ver = server[auth[t].of] + 1] \in Credentials
    BY <2>1 DEF Credentials
  <2>3. /\ server' \in [Identities -> Nat]
        /\ \/ auth' = [auth EXCEPT ![t] = [auth[t] EXCEPT !.ver = server[auth[t].of] + 1]]
           \/ auth' = auth
        /\ \E l \in {"save", "release"} : pc' = [pc EXCEPT ![t] = l]
        /\ pc[t] = "request"
        /\ UNCHANGED <<current, saved, lock, op, request, key, file, guard>>
    BY <1>3, <2>1 DEF Exchange
  <2> QED BY <2>1, <2>2, <2>3, NullAssumption
<1>4. ASSUME NEW t \in Tasks,
             Acquire(t) \/ TimeOut(t) \/ Unresolved(t) \/ Capture(t) \/ Refuse(t)
      PROVE  TypeOK'
  <2>1. CASE Acquire(t)
    BY <2>1 DEF Acquire, locals
  <2>2. CASE TimeOut(t)
    BY <2>2 DEF TimeOut, Over
  <2>3. CASE Unresolved(t)
    BY <2>3 DEF Unresolved, locals
  <2>4. CASE Capture(t)
    BY <2>4 DEF Capture
  <2>5. CASE Refuse(t)
    BY <2>5 DEF Refuse, locals
  <2> QED BY <1>4, <2>1, <2>2, <2>3, <2>4, <2>5
<1>5. ASSUME NEW t \in Tasks, Save(t) PROVE TypeOK'
  <2>1. auth[t] \in Credentials
    BY <1>5 DEF Save
  <2>2. saved' \in [Names -> Credentials \cup {Nobody}]
    BY <1>5, <2>1 DEF Save
  <2> QED BY <1>5, <2>2 DEF Save, locals
<1>6. ASSUME NEW t \in Tasks,
             SaveFails(t) \/ WriteCurrent(t) \/ WriteFails(t) \/ Release(t) \/ Crash(t)
      PROVE  TypeOK'
  <2>1. CASE SaveFails(t)
    BY <2>1 DEF SaveFails, locals
  <2>2. CASE WriteCurrent(t)
    BY <2>2 DEF WriteCurrent, locals
  <2>3. CASE WriteFails(t)
    BY <2>3 DEF WriteFails, locals
  <2>4. CASE Release(t)
    BY <2>4 DEF Release, Over
  <2>5. CASE Crash(t)
    BY <2>5 DEF Crash, Over
  <2> QED BY <1>6, <2>1, <2>2, <2>3, <2>4, <2>5
<1>7. ASSUME NEW i \in Identities, Expire(i) PROVE TypeOK'
  BY <1>7 DEF Expire, locals
<1>8. ASSUME NEW n \in Names, Switch(n) PROVE TypeOK'
  BY <1>8, WriteBack DEF Switch, Refreshing, locals
<1>9. CASE SwitchToProvider
  BY <1>9, WriteBack DEF SwitchToProvider, Refreshing, locals
<1>10. CASE CodexRefresh
  <2>1. current \in Credentials
    BY <1>10 DEF CodexRefresh
  <2>2. /\ current' \in Credentials
        /\ server' \in [Identities -> Nat]
    BY <1>10, <2>1 DEF CodexRefresh, Credentials
  <2> QED BY <1>10, <2>2 DEF CodexRefresh, locals
<1>11. ASSUME NEW n \in Names, AddAccount(n) PROVE TypeOK'
  BY <1>11 DEF AddAccount, Refreshing, locals
<1>12. ASSUME NEW m \in Names, NEW n \in Names, RenameAccount(m, n) PROVE TypeOK'
  BY <1>12 DEF RenameAccount, Refreshing, locals
<1>13. ASSUME NEW n \in Names, RemoveAccount(n) PROVE TypeOK'
  BY <1>13 DEF RemoveAccount, Refreshing, locals
<1>14. CASE UNCHANGED vars
  BY <1>14 DEF vars, locals
<1> QED
  BY <1>1, <1>2, <1>3, <1>4, <1>5, <1>6, <1>7, <1>8, <1>9, <1>10, <1>11, <1>12,
     <1>13, <1>14 DEF Next, Refresh

\* Every variable keeps its type, a task that knows its account holds tokens,
\* and one that writes auth.json has captured it.
THEOREM TypeCorrect == Spec => []TypeOK
BY TypeInit, TypeNext, PTL DEF Spec

-----------------------------------------------------------------------------
(* A refresh never changes the selection *)

\* The service knows the newest version.
Known(c) == c # Nobody => c.ver <= server[c.of]

\* A captured auth.json is of the refreshed account and older than what the
\* service answers.
GuardIsOlder(t) ==
    /\ pc[t] \in {"idle", "lock", "resolve", "capture"} => guard[t] = Nobody
    /\ pc[t] \in {"request", "save", "write"} /\ guard[t] # Nobody =>
        /\ guard[t].of = auth[t].of
        /\ Known(guard[t])
        /\ pc[t] # "request" => guard[t].ver < auth[t].ver

Versions ==
    /\ Known(current)
    /\ \A n \in Names : Known(saved[n])
    /\ \A t \in Tasks :
        /\ pc[t] \in Resolved => Known(auth[t])
        /\ GuardIsOlder(t)

\* Tokens are known to the service wherever they are copied to.
LEMMA KnownStays ==
    ASSUME TypeOK, TypeOK', NEW c \in Credentials, Known(c),
           \A i \in Identities : server[i] <= server'[i]
    PROVE  c.ver <= server'[c.of]
<1>1. c.of \in Identities /\ c.ver \in Nat /\ c # Nobody
  BY NullAssumption DEF Credentials
<1>2. server[c.of] \in Nat /\ server'[c.of] \in Nat /\ c.ver <= server[c.of]
  BY <1>1 DEF Known, TypeOK
<1> QED BY <1>1, <1>2

LEMMA VersionsInit == Init => Versions
<1> SUFFICES ASSUME Init PROVE Versions
  OBVIOUS
<1>1. Known(current)
  <2>1. ASSUME NEW i \in Identities, current = [of |-> i, ver |-> 1]
        PROVE  current.ver <= server[current.of]
    BY <2>1 DEF Init
  <2> QED BY <2>1 DEF Init, Known
<1>2. ASSUME NEW n \in Names PROVE Known(saved[n])
  <2>1. PICK owner \in [Names -> Identities \cup {Nobody}] :
          saved = [m \in Names |-> IF owner[m] = Nobody THEN Nobody
                                     ELSE [of |-> owner[m], ver |-> 1]]
    BY DEF Init
  <2>2. CASE owner[n] = Nobody
    BY <2>1, <2>2 DEF Known
  <2>3. CASE owner[n] # Nobody
    <3>1. owner[n] \in Identities /\ saved[n] = [of |-> owner[n], ver |-> 1]
      BY <2>1, <2>3
    <3>2. saved[n].ver = 1 /\ server[saved[n].of] = 1
      BY <3>1 DEF Init
    <3> QED BY <3>2 DEF Known
  <2> QED BY <2>2, <2>3
<1> QED BY <1>1, <1>2 DEF Init, Versions, GuardIsOlder, Resolved

LEMMA VersionsNext == TypeOK /\ TypeOK' /\ Versions /\ [Next]_vars => Versions'
<1> SUFFICES ASSUME TypeOK, TypeOK', Versions, [Next]_vars PROVE Versions'
  OBVIOUS
<1>a. server' = server /\ saved' = Synced => \A n \in Names : Known(saved[n])'
  BY WriteBack DEF Versions, Known
<1>1. ASSUME NEW t \in Tasks, NEW o \in {"refresh", "quota"}, NEW r \in Requests,
             Begin(t, o, r)
      PROVE  Versions'
  <2>1. pc' = [pc EXCEPT ![t] = "lock"] /\ pc[t] = "idle"
        /\ UNCHANGED <<current, server, auth, guard>>
    BY <1>1 DEF Begin, Goto
  <2>2. \A u \in Tasks : (pc[u] \in Resolved => Known(auth[u]))' /\ GuardIsOlder(u)'
    BY <2>1 DEF TypeOK, Versions, Known, GuardIsOlder, Resolved
  <2> QED BY <1>1, <1>a, <2>1, <2>2 DEF Begin, Versions, Known
<1>2. ASSUME NEW t \in Tasks, Resolve(t) PROVE Versions'
  <2>1. request[t] \in Names \cup {Live} /\ Resolvable(request[t])
    BY <1>2 DEF Resolve, TypeOK
  <2>2. Known(TokensIn(Target(request[t])))
    BY <2>1, Resolution DEF Versions
  <2>3. /\ auth' = [auth EXCEPT ![t] = TokensIn(Target(request[t]))]
        /\ UNCHANGED <<current, server, guard>>
        /\ pc[t] = "resolve"
        /\ \E l \in {"release", "capture", "request"} : pc' = [pc EXCEPT ![t] = l]
    BY <1>2 DEF Resolve, Goto
  <2>4. \A u \in Tasks : (pc[u] \in Resolved => Known(auth[u]))'
    BY <2>2, <2>3 DEF TypeOK, Versions, Known, Resolved
  <2>5. \A u \in Tasks : GuardIsOlder(u)'
    BY <2>3 DEF TypeOK, Versions, Known, GuardIsOlder
  <2> QED BY <1>2, <1>a, <2>3, <2>4, <2>5 DEF Resolve, Versions, Known
<1>3. ASSUME NEW t \in Tasks, Capture(t) PROVE Versions'
  <2>1. /\ guard' = [guard EXCEPT ![t] = IF current # Nobody /\ current.of = auth[t].of
                                            THEN current ELSE Nobody]
        /\ pc' = [pc EXCEPT ![t] = "request"]
        /\ pc[t] = "capture"
        /\ UNCHANGED <<current, saved, server, auth>>
    BY <1>3 DEF Capture, Goto
  <2> QED BY <2>1 DEF TypeOK, Versions, Known, GuardIsOlder, Resolved
<1>4. ASSUME NEW t \in Tasks, Exchange(t) PROVE Versions'
  <2> DEFINE i == auth[t].of
  <2>1. auth[t] \in Credentials /\ i \in Identities
    BY <1>4, NullAssumption DEF Exchange, TypeOK, Resolved, Credentials
  <2>2. /\ server' = [server EXCEPT ![i] = server[i] + 1]
        /\ pc[t] = "request" /\ auth[t].ver = server[i]
        /\ UNCHANGED <<current, saved, guard>>
    BY <1>4 DEF Exchange
  <2>3. \A j \in Identities : server[j] <= server'[j]
    BY <2>2 DEF TypeOK
  <2>4. \A c \in Credentials : Known(c) => c.ver <= server'[c.of]
    BY <2>3, KnownStays
  <2>5. Known(current)' /\ \A n \in Names : Known(saved[n])'
    BY <2>2, <2>4 DEF Versions, Known, TypeOK
  <2>6. CASE auth' = auth /\ pc' = [pc EXCEPT ![t] = "release"]
    <3>1. ASSUME NEW u \in Tasks PROVE (pc[u] \in Resolved => Known(auth[u]))'
      BY <2>4, <2>6 DEF Versions, Known, TypeOK, Resolved
    <3>2. ASSUME NEW u \in Tasks PROVE GuardIsOlder(u)'
      BY <2>2, <2>4, <2>6 DEF Versions, Known, TypeOK, GuardIsOlder
    <3> QED BY <2>5, <3>1, <3>2 DEF Versions
  <2>7. CASE /\ auth' = [auth EXCEPT ![t] = [auth[t] EXCEPT !.ver = server[i] + 1]]
             /\ pc' = [pc EXCEPT ![t] = "save"]
    <3>1. /\ auth'[t].of = i /\ auth'[t].ver = server[i] + 1
          /\ \A u \in Tasks \ {t} : auth'[u] = auth[u] /\ pc'[u] = pc[u]
          /\ pc'[t] = "save"
      BY <2>1, <2>7 DEF TypeOK, Credentials
    <3>2. server'[i] = server[i] + 1 /\ server[i] \in Nat
      BY <2>1, <2>2 DEF TypeOK
    <3>3. ASSUME NEW u \in Tasks PROVE (pc[u] \in Resolved => Known(auth[u]))'
      <4>1. CASE u = t
        BY <3>1, <3>2, <4>1 DEF Known
      <4>2. CASE u # t
        BY <2>4, <3>1, <4>2 DEF Versions, Known, TypeOK
      <4> QED BY <4>1, <4>2
    <3>4. ASSUME NEW u \in Tasks PROVE GuardIsOlder(u)'
      <4>1. CASE u = t
        <5>1. guard[t] # Nobody => /\ guard[t] \in Credentials
                                   /\ guard[t].of = i
                                   /\ guard[t].ver <= server[i]
          BY <2>2 DEF Versions, GuardIsOlder, Known, TypeOK
        <5>2. guard[t] # Nobody => guard[t].ver \in Nat
          BY <5>1 DEF Credentials
        <5> QED BY <2>2, <3>1, <3>2, <4>1, <5>1, <5>2 DEF GuardIsOlder, Known
      <4>2. CASE u # t
        BY <2>2, <2>4, <3>1, <4>2 DEF Versions, Known, TypeOK, GuardIsOlder
      <4> QED BY <4>1, <4>2
    <3> QED BY <2>5, <3>3, <3>4 DEF Versions
  <2> QED BY <1>4, <2>6, <2>7 DEF Exchange, Goto
<1>5. ASSUME NEW t \in Tasks, Save(t) PROVE Versions'
  <2>1. /\ pc[t] = "save"
        /\ \E l \in {"write", "release"} : pc' = [pc EXCEPT ![t] = l]
        /\ UNCHANGED <<current, server, auth, guard>>
    BY <1>5 DEF Save, Goto, locals
  <2>2. \A n \in Names : saved'[n] \in {saved[n], auth[t]}
    BY <1>5 DEF Save, TypeOK
  <2>3. \A n \in Names : Known(saved[n])'
    BY <2>1, <2>2 DEF Versions, Known, Resolved
  <2>4. \A u \in Tasks : (pc[u] \in Resolved => Known(auth[u]))' /\ GuardIsOlder(u)'
    BY <2>1 DEF TypeOK, Versions, Known, GuardIsOlder, Resolved
  <2> QED BY <2>1, <2>3, <2>4 DEF Versions, Known
<1>6. ASSUME NEW t \in Tasks, WriteCurrent(t) PROVE Versions'
  <2>1. /\ pc[t] = "write" /\ pc' = [pc EXCEPT ![t] = "release"]
        /\ current' \in {current, auth[t]}
        /\ UNCHANGED <<saved, server, auth, guard>>
    BY <1>6 DEF WriteCurrent, Goto, locals
  <2> QED BY <2>1 DEF TypeOK, Versions, Known, GuardIsOlder, Resolved
<1>7. ASSUME NEW t \in Tasks, NEW l \in {"resolve", "release"},
             pc' = [pc EXCEPT ![t] = l], l = "resolve" => pc[t] = "lock",
             UNCHANGED <<current, saved, server, auth, guard>>
      PROVE  Versions'
  BY <1>7 DEF TypeOK, Versions, Known, GuardIsOlder, Resolved
<1>8. ASSUME NEW t \in Tasks, Over(t), UNCHANGED <<current, saved, server>>
      PROVE  Versions'
  <2>1. /\ pc' = [pc EXCEPT ![t] = "idle"]
        /\ auth' = [auth EXCEPT ![t] = Nobody]
        /\ guard' = [guard EXCEPT ![t] = Nobody]
    BY <1>8 DEF Over, Goto
  <2> QED BY <1>8, <2>1 DEF TypeOK, Versions, Known, GuardIsOlder, Resolved
<1>9. ASSUME UNCHANGED <<server, auth, guard, pc>>,
             \A n \in Names : Known(saved[n])', Known(current)'
      PROVE  Versions'
  BY <1>9 DEF Versions, Known, GuardIsOlder
<1>10. ASSUME NEW t \in Tasks, Refresh(t) PROVE Versions'
  <2>1. CASE Acquire(t) \/ Unresolved(t) \/ Refuse(t) \/ SaveFails(t) \/ WriteFails(t)
    BY <1>7, <2>1
       DEF Acquire, Unresolved, Refuse, SaveFails, WriteFails, Goto, locals
  <2>2. CASE TimeOut(t) \/ Release(t) \/ Crash(t)
    BY <1>8, <2>2 DEF TimeOut, Release, Crash
  <2> QED BY <1>1, <1>2, <1>3, <1>4, <1>5, <1>6, <1>10, <2>1, <2>2 DEF Refresh
<1>11. ASSUME NEW i \in Identities, Expire(i) PROVE Versions'
  BY <1>9, <1>11 DEF Expire, locals, Versions, Known
<1>12. ASSUME NEW n \in Names, Switch(n) PROVE Versions'
  <2>1. Synced[n] \in {current, saved[n]}
    BY WriteBack
  <2> QED BY <1>9, <1>12, <1>a, <2>1 DEF Switch, Refreshing, locals, Versions, Known
<1>13. CASE SwitchToProvider
  BY <1>9, <1>13, <1>a DEF SwitchToProvider, Refreshing, locals, Known
<1>14. ASSUME NEW n \in Names, AddAccount(n) PROVE Versions'
  BY <1>9, <1>14 DEF AddAccount, Refreshing, locals, Versions, Known, TypeOK
<1>15. ASSUME NEW m \in Names, NEW n \in Names, RenameAccount(m, n) PROVE Versions'
  BY <1>9, <1>15 DEF RenameAccount, Refreshing, locals, Versions, Known, TypeOK
<1>16. ASSUME NEW n \in Names, RemoveAccount(n) PROVE Versions'
  BY <1>9, <1>16 DEF RemoveAccount, Refreshing, locals, Versions, Known, TypeOK
<1>17. CASE CodexRefresh
  <2>1. current \in Credentials /\ current.of \in Identities
    BY <1>17 DEF CodexRefresh, TypeOK, Credentials
  <2>2. /\ server' = [server EXCEPT ![current.of] = server[current.of] + 1]
        /\ current' = [current EXCEPT !.ver = current.ver + 1]
        /\ current.ver = server[current.of]
        /\ UNCHANGED <<saved, lock, pc, locals>>
    BY <1>17 DEF CodexRefresh
  <2>3. \A j \in Identities : server[j] <= server'[j]
    BY <2>1, <2>2 DEF TypeOK
  <2>4. \A c \in Credentials : Known(c) => c.ver <= server'[c.of]
    BY <2>3, KnownStays
  <2>5. current'.of = current.of /\ current'.ver = server'[current.of]
    BY <2>1, <2>2 DEF TypeOK, Credentials
  <2>6. current'.ver \in Nat /\ Known(current)'
    BY <2>1, <2>2, <2>5 DEF TypeOK, Credentials, Known
  <2>7. \A n \in Names : Known(saved[n])'
    BY <2>2, <2>4 DEF Versions, Known, TypeOK
  <2>8. \A u \in Tasks : (pc[u] \in Resolved => Known(auth[u]))' /\ GuardIsOlder(u)'
    BY <2>2, <2>4 DEF Versions, Known, TypeOK, GuardIsOlder, locals
  <2> QED BY <2>6, <2>7, <2>8 DEF Versions
<1>18. CASE UNCHANGED vars
  BY <1>9, <1>18 DEF vars, locals, Versions, Known
<1> QED
  BY <1>10, <1>11, <1>12, <1>13, <1>14, <1>15, <1>16, <1>17, <1>18 DEF Next

\* TypeOK is what makes the versions comparable.
LEMMA VersionsHold == Spec => [](TypeOK /\ Versions)
<1>1. Init => TypeOK /\ Versions
  BY TypeInit, VersionsInit
<1>2. TypeOK /\ Versions /\ [Next]_vars => (TypeOK /\ Versions)'
  BY TypeNext, VersionsNext
<1> QED BY <1>1, <1>2, PTL DEF Spec

\* Whatever happens meanwhile, a refresh that ends leaves auth.json alone or
\* replaces the tokens in it by newer ones of the same account.
THEOREM SelectionSurvives == Spec => SelectionSurvivesRefresh
<1> DEFINE Kept(t) == pc[t] = "write" /\ pc'[t] = "release" =>
             \/ current' = current
             \/ /\ current # Nobody
                /\ current'.of = current.of
                /\ current'.ver > current.ver
<1>1. TypeOK /\ Versions /\ [Next]_vars => [\A t \in Tasks : Kept(t)]_vars
  <2> SUFFICES ASSUME TypeOK, Versions, Next, NEW t \in Tasks,
                      pc[t] = "write", pc'[t] = "release"
               PROVE  \/ current' = current
                      \/ /\ current # Nobody
                         /\ current'.of = current.of
                         /\ current'.ver > current.ver
    BY DEF Kept
  <2>1. CASE WriteCurrent(t)
    <3>1. CASE current # guard[t]
      BY <2>1, <3>1 DEF WriteCurrent
    <3>2. CASE current = guard[t]
      <4>1. current' = auth[t] /\ current # Nobody
        BY <2>1, <3>2 DEF WriteCurrent, TypeOK
      <4>2. current.of = auth[t].of /\ current.ver < auth[t].ver
        BY <3>2, <4>1 DEF Versions, GuardIsOlder
      <4>3. current.ver \in Nat /\ auth[t].ver \in Nat
        BY <4>1 DEF TypeOK, Credentials, Resolved
      <4> QED BY <4>1, <4>2, <4>3
    <3> QED BY <3>1, <3>2
  <2>2. CASE current' = current
    BY <2>2
  <2>3. ASSUME NEW u \in Tasks, Refresh(u), u # t PROVE FALSE
    <3>1. pc' = [pc EXCEPT ![u] = pc'[u]]
      BY <2>3
         DEF Refresh, Begin, Acquire, TimeOut, Resolve, Unresolved, Capture,
             Exchange, Refuse, Save, SaveFails, WriteCurrent, WriteFails,
             Release, Crash, Over, Goto, TypeOK
    <3> QED BY <2>3, <3>1 DEF TypeOK
  <2>4. ASSUME Refresh(t), ~WriteCurrent(t) PROVE current' = current
    BY <2>4
       DEF Refresh, Begin, Acquire, TimeOut, Resolve, Unresolved, Capture,
           Exchange, Refuse, Save, SaveFails, WriteFails, Release, Crash
  <2>5. ASSUME ~\E u \in Tasks : Refresh(u) PROVE pc' = pc
    BY <2>5
       DEF Next, Expire, Switch, SwitchToProvider, CodexRefresh, AddAccount,
           RenameAccount, RemoveAccount, Refreshing
  <2> QED BY <2>1, <2>2, <2>3, <2>4, <2>5
<1>2. Spec => [][\A t \in Tasks : Kept(t)]_vars
  BY <1>1, VersionsHold, PTL DEF Spec
<1> QED BY <1>2 DEF SelectionSurvivesRefresh

-----------------------------------------------------------------------------
(* An account is saved once *)

\* The entry a refresh works for is there and is its account's.
Destination(t) ==
    pc[t] \in Resolved /\ file[t] # Live =>
        saved[file[t]] # Nobody /\ saved[file[t]].of = auth[t].of

Entries == SavedOnce /\ \A t \in Tasks : Destination(t)

\* A step that rewrites entries and leaves each to its account.
OwnersStay ==
    \A n \in Names :
        /\ saved'[n] # Nobody <=> saved[n] # Nobody
        /\ saved[n] # Nobody => saved'[n].of = saved[n].of

LEMMA OwnersWrittenBack ==
    ASSUME TypeOK, saved' = Synced \/ saved' = saved PROVE OwnersStay
BY WriteBack DEF OwnersStay

LEMMA OnceStays == ASSUME SavedOnce, OwnersStay PROVE SavedOnce'
BY DEF SavedOnce, OwnersStay

\* What a step of one refresh does to the entries.
LEMMA RefreshKeepsOwners ==
    ASSUME TypeOK, NEW t \in Tasks, Destination(t), Refresh(t)
    PROVE  OwnersStay
<1>1. CASE Save(t)
  <2>1. CASE file[t] = Live
    BY <1>1, <2>1 DEF Save, OwnersStay
  <2>2. CASE file[t] # Live
    <3>1. /\ file[t] \in Names /\ saved[file[t]] # Nobody
          /\ saved[file[t]].of = auth[t].of /\ auth[t] # Nobody
      BY <1>1, <2>2 DEF Save, Destination, Resolved, TypeOK
    <3>2. \A n \in Names : saved'[n] = IF n = file[t] THEN auth[t] ELSE saved[n]
      BY <1>1, <2>2, <3>1 DEF Save, TypeOK
    <3> QED BY <3>1, <3>2 DEF OwnersStay
  <2> QED BY <2>1, <2>2
<1>2. CASE saved' = Synced \/ saved' = saved
  BY <1>2, OwnersWrittenBack
<1> QED
  BY <1>1, <1>2
     DEF Refresh, Begin, Acquire, TimeOut, Resolve, Unresolved, Capture,
         Exchange, Refuse, SaveFails, WriteCurrent, WriteFails, Release, Crash

\* A step of one refresh leaves the others where they are.
LEMMA OthersStay ==
    ASSUME TypeOK, NEW t \in Tasks, Refresh(t), NEW u \in Tasks, u # t
    PROVE  /\ pc'[u] = pc[u] /\ op'[u] = op[u] /\ request'[u] = request[u]
           /\ key'[u] = key[u] /\ file'[u] = file[u]
           /\ auth'[u] = auth[u] /\ guard'[u] = guard[u]
BY DEF Refresh, Begin, Acquire, TimeOut, Resolve, Unresolved, Capture,
       Exchange, Refuse, Save, SaveFails, WriteCurrent, WriteFails,
       Release, Crash, Over, Goto, TypeOK, locals

LEMMA EntriesInit == Init => Entries
<1> SUFFICES ASSUME Init PROVE Entries
  OBVIOUS
<1>1. PICK owner \in [Names -> Identities \cup {Nobody}] :
        /\ \A m, n \in Names : owner[m] = owner[n] /\ owner[m] # Nobody => m = n
        /\ saved = [n \in Names |-> IF owner[n] = Nobody THEN Nobody
                                      ELSE [of |-> owner[n], ver |-> 1]]
  BY DEF Init
<1>2. ASSUME NEW n \in Names, saved[n] # Nobody
      PROVE  owner[n] # Nobody /\ saved[n].of = owner[n]
  BY <1>1, <1>2
<1>3. SavedOnce
  BY <1>1, <1>2 DEF SavedOnce
<1> QED BY <1>3 DEF Init, Entries, Destination, Resolved

LEMMA EntriesNext ==
    ASSUME "rename" \notin Faults, TypeOK, TypeOK', Entries, [Next]_vars
    PROVE  Entries'
<1>1. ASSUME NEW t \in Tasks, Refresh(t) PROVE Entries'
  <2>1. OwnersStay /\ SavedOnce'
    BY <1>1, RefreshKeepsOwners, OnceStays DEF Entries
  <2>2. ASSUME NEW u \in Tasks, u # t PROVE Destination(u)'
    BY <1>1, <2>1, <2>2, OthersStay DEF Entries, Destination, OwnersStay, TypeOK, Resolved
  <2>3. Destination(t)'
    <3>1. CASE Resolve(t)
      <4>1. file'[t] = Target(request[t]) /\ auth'[t] = TokensIn(Target(request[t]))
            /\ saved' = Synced /\ request[t] \in Names \cup {Live}
            /\ Resolvable(request[t])
        BY <3>1 DEF Resolve, TypeOK
      <4>2. file'[t] # Live => saved'[file'[t]] = auth'[t]
        BY <4>1 DEF TokensIn
      <4>3. auth'[t] # Nobody
        BY <4>1, Resolution
      <4> QED BY <4>2, <4>3 DEF Destination
    <3>2. CASE Exchange(t)
      <4>1. auth'[t].of = auth[t].of /\ pc[t] = "request"
            /\ UNCHANGED <<saved, file>>
        BY <3>2, NullAssumption DEF Exchange, TypeOK, Credentials, Resolved
      <4> QED BY <4>1 DEF Entries, Destination, Resolved
    <3>3. CASE pc'[t] \in Resolved =>
                 /\ pc[t] \in Resolved /\ file'[t] = file[t] /\ auth'[t] = auth[t]
      BY <2>1, <3>3 DEF Entries, Destination, OwnersStay, TypeOK, Resolved
    <3> QED
      BY <1>1, <3>1, <3>2, <3>3
         DEF Refresh, Begin, Acquire, TimeOut, Unresolved, Capture, Refuse, Save,
             SaveFails, WriteCurrent, WriteFails, Release, Crash, Over, Goto,
             TypeOK, locals, Resolved
  <2> QED BY <2>1, <2>2, <2>3 DEF Entries
<1>2. ASSUME UNCHANGED <<pc, file, auth>>, OwnersStay PROVE Entries'
  BY <1>2, OnceStays DEF Entries, Destination, OwnersStay, TypeOK, Resolved
<1>3. ASSUME NEW i \in Identities, Expire(i) PROVE Entries'
  BY <1>2, <1>3 DEF Expire, locals, OwnersStay
<1>4. ASSUME NEW n \in Names, Switch(n) PROVE Entries'
  BY <1>2, <1>4, OwnersWrittenBack DEF Switch, Refreshing, locals
<1>5. CASE SwitchToProvider
  BY <1>2, <1>5, OwnersWrittenBack DEF SwitchToProvider, Refreshing, locals
<1>6. CASE CodexRefresh
  BY <1>2, <1>6 DEF CodexRefresh, locals, OwnersStay
<1>7. ASSUME NEW n \in Names, AddAccount(n) PROVE Entries'
  <2>1. \A m \in Names : saved'[m] = IF m = n THEN current ELSE saved[m]
    BY <1>7 DEF AddAccount, TypeOK
  <2>2. \A m \in Names : saved[m] # Nobody /\ saved[m].of = current.of => m = n
    BY <1>7 DEF AddAccount, EntriesOf
  <2>3. SavedOnce'
    BY <1>7, <2>1, <2>2 DEF Entries, SavedOnce, AddAccount
  <2>4. \A m \in Names : saved[m] # Nobody =>
            saved'[m] # Nobody /\ saved'[m].of = saved[m].of
    BY <1>7, <2>1 DEF AddAccount
  <2>5. \A t \in Tasks : Destination(t)'
    BY <1>7, <2>4 DEF AddAccount, Refreshing, locals, Entries, Destination, TypeOK, Resolved
  <2> QED BY <2>3, <2>5 DEF Entries
<1>8. ASSUME Quiet, Refreshing, SavedOnce' PROVE Entries'
  BY <1>8 DEF Quiet, Refreshing, locals, Entries, Destination, Resolved
<1>9. ASSUME NEW m \in Names, NEW n \in Names, RenameAccount(m, n) PROVE Entries'
  <2>1. \A k \in Names : saved'[k] = IF k = n THEN saved[m]
                                      ELSE IF k = m THEN Nobody ELSE saved[k]
    BY <1>9 DEF RenameAccount, TypeOK
  <2>2. SavedOnce'
    BY <2>1 DEF Entries, SavedOnce
  <2> QED BY <1>8, <1>9, <2>2 DEF RenameAccount
<1>10. ASSUME NEW n \in Names, RemoveAccount(n) PROVE Entries'
  <2>1. \A k \in Names : saved'[k] = IF k = n THEN Nobody ELSE saved[k]
    BY <1>10 DEF RemoveAccount, TypeOK
  <2>2. SavedOnce'
    BY <2>1 DEF Entries, SavedOnce
  <2> QED BY <1>8, <1>10, <2>2 DEF RemoveAccount
<1>11. CASE UNCHANGED vars
  BY <1>2, <1>11 DEF vars, locals, OwnersStay
<1> QED
  BY <1>1, <1>3, <1>4, <1>5, <1>6, <1>7, <1>9, <1>10, <1>11 DEF Next

LEMMA EntriesHold ==
    ASSUME "rename" \notin Faults PROVE Spec => [](TypeOK /\ Entries)
<1>1. Init => TypeOK /\ Entries
  BY TypeInit, EntriesInit
<1>2. TypeOK /\ Entries /\ [Next]_vars => (TypeOK /\ Entries)'
  BY TypeNext, EntriesNext
<1> QED BY <1>1, <1>2, PTL DEF Spec

\* While no account is renamed or removed during a refresh, none is saved under
\* two names, whatever else goes wrong.
THEOREM NoDuplicates == ASSUME "rename" \notin Faults PROVE Spec => []SavedOnce
<1>1. TypeOK /\ Entries => SavedOnce
  BY DEF Entries
<1> QED BY <1>1, EntriesHold, PTL

\* Under the same condition the tokens a refresh brings back are saved in the
\* entry they belong to.
THEOREM OwnEntry == ASSUME "rename" \notin Faults PROVE Spec => []SavesIntoOwnEntry
<1>1. TypeOK /\ Entries => SavesIntoOwnEntry
  BY DEF Entries, Destination, SavesIntoOwnEntry, Resolved
<1> QED BY <1>1, EntriesHold, PTL

-----------------------------------------------------------------------------
(* One refresh per account *)

\* What a request refers to cannot change under it: no saved account is renamed
\* or removed, no lock expires, and the selection changes only between
\* refreshes unless all of them name their account.
Undisturbed ==
    /\ Faults \cap {"rename", "expire"} = {}
    /\ Requests \subseteq Names \/ "switch" \notin Faults

\* The account t has locked is the one its request refers to.
Refers(t) ==
    /\ request[t] \in Requests
    /\ request[t] = Live => current # Nobody /\ current.of = key[t]
    /\ request[t] # Live =>
        saved[request[t]] # Nobody /\ saved[request[t]].of = key[t]

Locked(t) ==
    /\ pc[t] # "idle" => Refers(t)
    /\ pc[t] \in Resolved \cup {"resolve", "release"} => lock[key[t]] = t
    /\ pc[t] \in Resolved => auth[t].of = key[t]

Possession == \A t \in Tasks : Locked(t)

\* auth.json still belongs to the account it belonged to.
OwnerStays == current # Nobody => current' # Nobody /\ current'.of = current.of

LEMMA PossessionInit == Init => Possession
BY DEF Init, Possession, Locked, Resolved

LEMMA LockedFrame ==
    ASSUME TypeOK, NEW t \in Tasks, Locked(t), OwnersStay,
           OwnerStays \/ Live \notin Requests,
           pc'[t] = pc[t], request'[t] = request[t], key'[t] = key[t],
           auth'[t].of = auth[t].of,
           pc[t] # "idle" /\ lock[key[t]] = t => lock'[key[t]] = t
    PROVE  Locked(t)'
<1>1. ASSUME pc[t] # "idle", Refers(t) PROVE Refers(t)'
  BY <1>1 DEF Refers, OwnersStay, OwnerStays, TypeOK
<1> QED BY <1>1 DEF Locked, Resolved

\* No refresh changes whose tokens auth.json holds.
LEMMA RefreshKeepsOwner ==
    ASSUME TypeOK, Versions, NEW t \in Tasks, Refresh(t) PROVE OwnerStays
<1>1. CASE WriteCurrent(t)
  <2>1. CASE current = guard[t]
    <3>1. guard[t].of = auth[t].of /\ current' = auth[t] /\ auth[t] # Nobody
      BY <1>1, <2>1 DEF WriteCurrent, Versions, GuardIsOlder, TypeOK, Resolved
    <3> QED BY <2>1, <3>1 DEF OwnerStays
  <2>2. CASE current # guard[t]
    BY <1>1, <2>2 DEF WriteCurrent, OwnerStays
  <2> QED BY <2>1, <2>2
<1> QED
  BY <1>1
     DEF Refresh, Begin, Acquire, TimeOut, Resolve, Unresolved, Capture, Exchange,
         Refuse, Save, SaveFails, WriteFails, Release, Crash, OwnerStays

\* A request resolves to tokens of the account it refers to.
LEMMA ResolvesToKey ==
    ASSUME TypeOK, NEW r \in Names \cup {Live}, Resolvable(r)
    PROVE  TokensIn(Target(r)).of = IF r = Live THEN current.of ELSE saved[r].of
<1>1. CASE r = Live
  BY <1>1, CurrentEntry DEF Target, TokensIn, Synced
<1>2. CASE r # Live
  BY <1>2, Resolution
<1> QED BY <1>1, <1>2

LEMMA PossessionNext ==
    ASSUME Undisturbed, TypeOK, TypeOK', Versions, Entries, Possession, [Next]_vars
    PROVE  Possession'
<1>1. ASSUME NEW t \in Tasks, Refresh(t) PROVE Possession'
  <2>1. OwnersStay /\ OwnerStays
    BY <1>1, RefreshKeepsOwners, RefreshKeepsOwner DEF Entries
  <2>2. ASSUME NEW u \in Tasks, u # t PROVE Locked(u)'
    <3>1. ASSUME pc[u] # "idle", lock[key[u]] = u PROVE lock'[key[u]] = u
      <4>a. key[u] \in Identities
        BY <3>1 DEF TypeOK
      <4>1. CASE Acquire(t)
        BY <3>1, <4>a, <4>1, <2>2, ConstantsAssumption DEF Acquire, TypeOK
      <4>2. CASE Release(t)
        <5>1. lock[key[t]] = t
          BY <4>2 DEF Release, Possession, Locked
        <5> QED BY <3>1, <4>a, <4>2, <5>1, <2>2 DEF Release, TypeOK
      <4>3. CASE Crash(t)
        BY <3>1, <4>a, <4>3, <2>2 DEF Crash
      <4>4. CASE lock' = lock
        BY <3>1, <4>4
      <4> QED
        BY <1>1, <4>1, <4>2, <4>3, <4>4
           DEF Refresh, Begin, TimeOut, Resolve, Unresolved, Capture, Exchange,
               Refuse, Save, SaveFails, WriteCurrent, WriteFails
    <3> QED BY <1>1, <2>1, <2>2, <3>1, OthersStay, LockedFrame DEF Possession
  <2>3. Locked(t)'
    <3>1. CASE \E o \in {"refresh", "quota"}, r \in Requests : Begin(t, o, r)
      <4>1. PICK o \in {"refresh", "quota"}, r \in Requests : Begin(t, o, r)
        BY <3>1
      <4>2. r \in Names \cup {Live} /\ Resolvable(r)
        BY <4>1, ConstantsAssumption DEF Begin
      <4>3. /\ pc'[t] = "lock" /\ request'[t] = r
            /\ key'[t] = IF r = Live THEN current.of ELSE saved[r].of
            /\ current' = current
        BY <4>1, <4>2, ResolvesToKey DEF Begin, Goto, TypeOK
      <4>4. Refers(t)'
        BY <2>1, <4>2, <4>3 DEF Refers, OwnersStay, Resolvable
      <4> QED BY <4>3, <4>4 DEF Locked, Resolved
    <3>2. CASE Acquire(t)
      <4>1. /\ pc'[t] = "resolve" /\ pc[t] = "lock" /\ key[t] \in Identities
            /\ lock' = [lock EXCEPT ![key[t]] = t]
            /\ UNCHANGED <<current, saved, locals>>
        BY <3>2 DEF Acquire, Goto, TypeOK
      <4>2. lock'[key[t]] = t
        BY <4>1 DEF TypeOK
      <4> QED BY <4>1, <4>2 DEF Possession, Locked, Refers, locals, Resolved
    <3>3. CASE Resolve(t)
      <4>1. /\ request[t] \in Names \cup {Live} /\ Resolvable(request[t])
            /\ Refers(t) /\ lock[key[t]] = t /\ pc[t] = "resolve"
        BY <3>3 DEF Resolve, Possession, Locked, TypeOK
      <4>2. TokensIn(Target(request[t])).of = key[t]
        BY <4>1, ResolvesToKey DEF Refers
      <4>3. /\ auth'[t].of = key[t]
            /\ UNCHANGED <<current, request, key, lock>>
        BY <3>3, <4>2 DEF Resolve, TypeOK
      <4>4. Refers(t)'
        BY <2>1, <4>1, <4>3 DEF Refers, OwnersStay, TypeOK
      <4> QED BY <4>1, <4>3, <4>4 DEF Locked
    <3>4. CASE Over(t)
      BY <3>4 DEF Over, Goto, TypeOK, Locked, Resolved
    <3>5. CASE Exchange(t)
      <4>1. auth'[t].of = auth[t].of /\ pc[t] = "request"
        BY <3>5, NullAssumption DEF Exchange, TypeOK, Credentials, Resolved
      <4>2. UNCHANGED <<current, saved, lock, request, key>>
        BY <3>5 DEF Exchange
      <4> QED BY <4>1, <4>2 DEF Possession, Locked, Refers, Resolved
    <3>6. CASE Unresolved(t) \/ Capture(t) \/ Refuse(t) \/ Save(t) \/ SaveFails(t)
               \/ WriteCurrent(t) \/ WriteFails(t)
      <4>1. /\ UNCHANGED <<lock, request, key, auth>>
            /\ pc[t] \in Resolved \cup {"resolve"}
            /\ pc'[t] \in Resolved => pc[t] \in Resolved
        BY <3>6
           DEF Unresolved, Capture, Refuse, Save, SaveFails, WriteCurrent,
               WriteFails, Goto, locals, TypeOK, Resolved
      <4>2. /\ Refers(t) /\ lock[key[t]] = t
            /\ pc[t] \in Resolved => auth[t].of = key[t]
        BY <4>1 DEF Possession, Locked, Resolved
      <4>3. Refers(t)'
        BY <2>1, <4>1, <4>2 DEF Refers, OwnersStay, OwnerStays, TypeOK
      <4> QED BY <4>1, <4>2, <4>3 DEF Locked
    <3> QED
      BY <1>1, <3>1, <3>2, <3>3, <3>4, <3>5, <3>6
         DEF Refresh, TimeOut, Release, Crash
  <2> QED BY <2>2, <2>3 DEF Possession
<1>2. ASSUME UNCHANGED <<pc, lock, locals>>, OwnersStay,
             OwnerStays \/ Live \notin Requests
      PROVE  Possession'
  BY <1>2, LockedFrame DEF Possession, locals
<1>3. ASSUME NEW i \in Identities, Expire(i) PROVE Possession'
  BY <1>3 DEF Expire, Undisturbed
<1>4. ASSUME Quiet, Refreshing PROVE Possession'
  BY <1>4 DEF Quiet, Refreshing, locals, Possession, Locked, Resolved
<1>5. ASSUME NEW n \in Names, Switch(n) PROVE Possession'
  BY <1>5, <1>2, <1>4, OwnersWrittenBack, ConstantsAssumption
     DEF Switch, Refreshing, Undisturbed
<1>6. CASE SwitchToProvider
  BY <1>6, <1>2, <1>4, OwnersWrittenBack, ConstantsAssumption
     DEF SwitchToProvider, Refreshing, Undisturbed
<1>7. CASE CodexRefresh
  <2>1. current' # Nobody /\ current'.of = current.of
    BY <1>7, NullAssumption DEF CodexRefresh, TypeOK, Credentials
  <2> QED BY <1>7, <1>2, <2>1 DEF CodexRefresh, OwnersStay, OwnerStays
<1>8. ASSUME NEW n \in Names, AddAccount(n) PROVE Possession'
  <2>1. \A m \in Names : saved[m] # Nobody =>
            saved'[m] # Nobody /\ saved'[m].of = saved[m].of
    BY <1>8 DEF AddAccount, TypeOK
  <2> QED
    BY <1>8, <2>1
       DEF AddAccount, Refreshing, locals, Possession, Locked, Refers, TypeOK
<1>9. ASSUME NEW m \in Names, NEW n \in Names, RenameAccount(m, n) PROVE Possession'
  BY <1>9, <1>4 DEF RenameAccount, Undisturbed
<1>10. ASSUME NEW n \in Names, RemoveAccount(n) PROVE Possession'
  BY <1>10, <1>4 DEF RemoveAccount, Undisturbed
<1>11. CASE UNCHANGED vars
  BY <1>11, <1>2 DEF vars, OwnersStay, OwnerStays
<1> QED
  BY <1>1, <1>3, <1>5, <1>6, <1>7, <1>8, <1>9, <1>10, <1>11 DEF Next

LEMMA PossessionHolds ==
    ASSUME Undisturbed PROVE Spec => [](TypeOK /\ Versions /\ Entries /\ Possession)
<1> DEFINE Inv == TypeOK /\ Versions /\ Entries /\ Possession
<1>1. Init => Inv
  BY TypeInit, VersionsInit, EntriesInit, PossessionInit
<1>2. Inv /\ [Next]_vars => Inv'
  BY TypeNext, VersionsNext, EntriesNext, PossessionNext DEF Undisturbed
<1> QED BY <1>1, <1>2, PTL DEF Spec

\* While requests keep their meaning, no two refreshes work on the same account.
LEMMA LockedAlone == TypeOK /\ Possession => OneRefresh
BY DEF Possession, Locked, OneRefresh, Resolved

THEOREM OneAtATime == ASSUME Undisturbed PROVE Spec => []OneRefresh
BY LockedAlone, PossessionHolds, PTL

-----------------------------------------------------------------------------
(* No tokens are lost *)

\* A refresh holds the tokens that the service answered with.
Bearer(t, i) == pc[t] \in {"save", "write"} /\ auth[t] = Newest(i)

\* auth.json is behind the service only for a refresh that is about to replace it.
CurrentFresh ==
    current # Nobody /\ current # Newest(current.of) =>
        \E t \in Tasks : Bearer(t, current.of) /\ guard[t] = current

\* A saved account that is not selected is behind the service only for a refresh
\* that is about to save it.
EntryFresh(n) ==
    saved[n] # Nobody =>
        \/ saved[n] = Newest(saved[n].of)
        \/ current # Nobody /\ current.of = saved[n].of
        \/ \E t \in Tasks :
             pc[t] = "save" /\ file[t] = n /\ auth[t] = Newest(saved[n].of)
SavedFresh == \A n \in Names : EntryFresh(n)

\* A refresh has captured auth.json exactly when that is its account's, it has
\* not changed since unless the exchange is bound to fail, and what the service
\* answered stays the newest until it is written.
Captured(t) ==
    /\ pc[t] = "capture" => current # Nobody /\ current.of = auth[t].of
    /\ pc[t] \in {"request", "save"} /\ guard[t] = Nobody =>
        /\ file[t] # Live
        /\ current # Nobody => current.of # auth[t].of
    /\ pc[t] \in {"save", "write"} => auth[t] = Newest(auth[t].of)
    /\ /\ pc[t] \in {"request", "save", "write"}
       /\ guard[t] # Nobody
       /\ auth[t] = Newest(auth[t].of)
       => current = guard[t]

Freshness ==
    /\ CurrentFresh
    /\ SavedFresh
    /\ \A t \in Tasks : Captured(t)

FreshInv == TypeOK /\ Versions /\ Entries /\ Possession /\ Freshness

LEMMA NewestFields ==
    ASSUME NEW i, NEW c \in Credentials
    PROVE  /\ Newest(i).of = i /\ Newest(i).ver = server[i]
           /\ c = Newest(i) <=> c.of = i /\ c.ver = server[i]
BY DEF Newest, Credentials

LEMMA FreshnessInit == Init => Freshness
<1> SUFFICES ASSUME Init PROVE Freshness
  OBVIOUS
<1>1. CurrentFresh
  <2>1. ASSUME NEW i \in Identities, current = [of |-> i, ver |-> 1]
        PROVE  current = Newest(current.of)
    BY <2>1 DEF Init, Newest
  <2> QED BY <2>1 DEF Init, CurrentFresh
<1>2. ASSUME NEW n \in Names, saved[n] # Nobody PROVE saved[n] = Newest(saved[n].of)
  <2>1. PICK owner \in [Names -> Identities \cup {Nobody}] :
          saved = [m \in Names |-> IF owner[m] = Nobody THEN Nobody
                                     ELSE [of |-> owner[m], ver |-> 1]]
    BY DEF Init
  <2>2. owner[n] \in Identities /\ saved[n] = [of |-> owner[n], ver |-> 1]
    BY <1>2, <2>1
  <2> QED BY <2>2 DEF Init, Newest
<1> QED BY <1>1, <1>2 DEF Init, Freshness, SavedFresh, EntryFresh, Captured

\* Only one entry holds tokens of the current account, and it is CurrentName.
LEMMA CurrentEntryIsIt ==
    ASSUME TypeOK, SavedOnce, NEW n \in Names, saved[n] # Nobody,
           current # Nobody, current.of = saved[n].of
    PROVE  n = CurrentName
<1>1. EntriesOf(current.of) # {}
  BY DEF EntriesOf
<1>2. CurrentName \in EntriesOf(current.of)
  BY <1>1 DEF CurrentName
<1> QED BY <1>2 DEF EntriesOf, SavedOnce

\* Writing back leaves every saved account fresh that was.
LEMMA SavedFreshStays ==
    ASSUME TypeOK, SavedFresh, saved' = Synced \/ saved' = saved,
           current' = current, server' = server,
           \A u \in Tasks : pc[u] = "save" =>
                pc'[u] = "save" /\ auth'[u] = auth[u] /\ file'[u] = file[u]
    PROVE  SavedFresh'
<1> SUFFICES ASSUME NEW n \in Names, saved'[n] # Nobody PROVE EntryFresh(n)'
  BY DEF SavedFresh, EntryFresh
<1>1. saved[n] # Nobody /\ saved'[n].of = saved[n].of
      /\ saved'[n] \in {current, saved[n]}
  BY WriteBack
<1>2. CASE saved'[n] = saved[n]
  BY <1>1, <1>2 DEF SavedFresh, EntryFresh, Newest
<1>3. CASE saved'[n] = current
  BY <1>1, <1>3 DEF EntryFresh
<1> QED BY <1>1, <1>2, <1>3

\* A task that holds new tokens.
Bearing(u) == pc[u] \in {"save", "write"}

UntouchedTask(u) ==
    pc'[u] = pc[u] /\ file'[u] = file[u] /\ auth'[u] = auth[u] /\ guard'[u] = guard[u]

\* A step that leaves auth.json and the service alone, and whoever holds tokens.
LEMMA FreshFrame ==
    ASSUME TypeOK, Freshness, saved' = Synced \/ saved' = saved,
           UNCHANGED <<current, server>>,
           \A u \in Tasks : Bearing(u) => UntouchedTask(u),
           \A u \in Tasks : Captured(u)'
    PROVE  Freshness'
<1>1. SavedFresh'
  BY SavedFreshStays DEF Freshness, Bearing, UntouchedTask
<1>2. CurrentFresh'
  BY DEF Freshness, CurrentFresh, Bearer, Newest, Bearing, UntouchedTask
<1> QED BY <1>1, <1>2 DEF Freshness

LEMMA CapturedFrame ==
    ASSUME NEW u \in Tasks, Captured(u), UntouchedTask(u), current' = current,
           pc[u] \in {"request", "save", "write"} =>
                server'[auth[u].of] = server[auth[u].of]
    PROVE  Captured(u)'
BY DEF Captured, UntouchedTask, Newest

\* Between refreshes the current tokens are the newest, and so are those of every
\* saved account that is not selected.
LEMMA QuietIsFresh ==
    ASSUME TypeOK, SavedOnce, Freshness, Quiet
    PROVE  /\ current # Nobody => current = Newest(current.of)
           /\ \A n \in Names : Synced[n] # Nobody => Synced[n] = Newest(Synced[n].of)
<1>1. current # Nobody => current = Newest(current.of)
  BY DEF Freshness, CurrentFresh, Bearer, Quiet
<1>2. ASSUME NEW n \in Names, Synced[n] # Nobody PROVE Synced[n] = Newest(Synced[n].of)
  <2>1. saved[n] # Nobody
    BY <1>2, WriteBack
  <2>2. CASE n = CurrentName
    BY <1>1, <1>2, <2>2 DEF Synced
  <2>3. CASE n # CurrentName
    <3>1. Synced[n] = saved[n]
      BY <2>3 DEF Synced
    <3>2. ~(current # Nobody /\ current.of = saved[n].of)
      BY <2>1, <2>3, CurrentEntryIsIt
    <3> QED BY <2>1, <3>1, <3>2 DEF Freshness, SavedFresh, EntryFresh, Quiet
  <2> QED BY <2>2, <2>3
<1> QED BY <1>1, <1>2

LEMMA CaptureResolved ==
    ASSUME FreshInv, NEW t \in Tasks, Resolve(t) PROVE Captured(t)'
<1> DEFINE f == Target(request[t])
<1>1. /\ pc[t] = "resolve" /\ request[t] \in Names \cup {Live}
      /\ Resolvable(request[t]) /\ guard'[t] = guard[t] /\ guard[t] = Nobody
      /\ file'[t] = f /\ auth'[t] = TokensIn(f)
      /\ UNCHANGED <<current, server>>
  BY DEF FreshInv, Versions, GuardIsOlder, TypeOK, Resolve
<1>2. /\ pc'[t] \in {"capture", "request", "release"}
      /\ pc'[t] = "capture" => f = CurrentName
      /\ pc'[t] = "request" => f # CurrentName
  BY DEF FreshInv, TypeOK, Resolve, Goto
<1>3. /\ f = Live => request[t] = Live /\ f = CurrentName
      /\ f \in Names \cup {Live}
  BY <1>1, ConstantsAssumption, Resolution DEF FreshInv, Target
<1>4. CASE pc'[t] = "capture"
  <2>1. f = CurrentName
    BY <1>2, <1>4
  <2>2. TokensIn(f) = current
    BY <2>1, CurrentEntry DEF TokensIn, Synced
  <2>3. current # Nobody
    BY <1>1, <1>3, <2>1, CurrentEntry DEF Resolvable
  <2> QED BY <1>1, <1>4, <2>2, <2>3 DEF Captured
<1>5. CASE pc'[t] = "request"
  <2>1. f # CurrentName /\ f # Live /\ f \in Names
    BY <1>2, <1>3, <1>5
  <2>2. TokensIn(f) = saved[f] /\ saved[f] # Nobody
    BY <1>1, <2>1, Resolution DEF FreshInv, TokensIn, Synced
  <2>3. current # Nobody => current.of # saved[f].of
    BY <2>1, <2>2, CurrentEntryIsIt DEF FreshInv, Entries
  <2> QED BY <1>1, <1>5, <2>1, <2>2, <2>3 DEF Captured
<1> QED BY <1>2, <1>4, <1>5 DEF Captured

\* The service answers: the tokens are in the hands of t, and auth.json is what
\* t captured if it is of that account.
LEMMA FreshExchange ==
    ASSUME Faults = {}, FreshInv, TypeOK', NEW t \in Tasks, Exchange(t)
    PROVE  Freshness'
<1> DEFINE i == auth[t].of
<1>1. auth[t] \in Credentials /\ i \in Identities /\ auth[t] = Newest(i)
      /\ auth[t] # Nobody
  BY NullAssumption DEF Exchange, FreshInv, TypeOK, Resolved, Credentials, Newest
<1>2. /\ pc[t] = "request" /\ pc'[t] = "save" /\ file'[t] = file[t]
      /\ guard'[t] = guard[t]
      /\ auth'[t] = [auth[t] EXCEPT !.ver = server[i] + 1]
      /\ server' = [server EXCEPT ![i] = server[i] + 1]
      /\ UNCHANGED <<current, saved>>
      /\ \A u \in Tasks : u # t => UntouchedTask(u)
  BY DEF Exchange, FreshInv, TypeOK, Goto, UntouchedTask
<1>3. /\ auth'[t] = [of |-> i, ver |-> server'[i]] /\ auth'[t].of = i
      /\ \A j \in Identities : j # i => server'[j] = server[j]
  BY <1>1, <1>2 DEF FreshInv, TypeOK, Credentials
<1>4. \A u \in Tasks : u # t /\ pc[u] \in Resolved => auth[u].of # i
  BY <1>2, LockedAlone DEF FreshInv, OneRefresh, Resolved
<1>5. CASE guard[t] # Nobody
  <2>1. current = guard[t] /\ current # Nobody
    BY <1>1, <1>2, <1>5 DEF FreshInv, Freshness, Captured
  <2>2. current.of = i
    BY <1>2, <2>1 DEF FreshInv, Versions, GuardIsOlder
  <2>3. CurrentFresh'
    BY <1>2, <1>3, <2>1, <2>2 DEF CurrentFresh, Bearer, Newest
  <2>4. SavedFresh'
    <3> SUFFICES ASSUME NEW n \in Names, saved[n] # Nobody, saved[n].of # i
                 PROVE  EntryFresh(n)'
      BY <1>2, <2>1, <2>2 DEF SavedFresh, EntryFresh
    <3>1. ~(current.of = saved[n].of)
      BY <2>2
    <3>2. server'[saved[n].of] = server[saved[n].of]
      BY <1>3 DEF FreshInv, TypeOK, Credentials
    <3> QED
      BY <1>2, <3>1, <3>2
         DEF FreshInv, Freshness, SavedFresh, EntryFresh, UntouchedTask, Newest
  <2>5. Captured(t)'
    BY <1>2, <1>3, <2>1 DEF Captured, Newest
  <2>6. ASSUME NEW u \in Tasks, u # t PROVE Captured(u)'
    <3>1. pc[u] \in {"request", "save", "write"} =>
            server'[auth[u].of] = server[auth[u].of]
      BY <1>3, <1>4, <2>6 DEF Resolved, FreshInv, TypeOK, Credentials
    <3>2. Captured(u) /\ UntouchedTask(u) /\ current' = current
      BY <1>2, <2>6 DEF FreshInv, Freshness
    <3> QED BY <3>1, <3>2, CapturedFrame
  <2> QED BY <2>3, <2>4, <2>5, <2>6 DEF Freshness
<1>6. CASE guard[t] = Nobody
  <2>1. file[t] \in Names /\ (current # Nobody => current.of # i)
    BY <1>2, <1>6 DEF FreshInv, Freshness, Captured, TypeOK
  <2>2. CurrentFresh'
    <3>1. current # Nobody => server'[current.of] = server[current.of]
      BY <1>3, <2>1 DEF FreshInv, TypeOK, Credentials
    <3> QED
      BY <1>2, <2>1, <3>1
         DEF FreshInv, Freshness, CurrentFresh, Bearer, UntouchedTask, Newest
  <2>3. SavedFresh'
    <3> SUFFICES ASSUME NEW n \in Names, saved[n] # Nobody PROVE EntryFresh(n)'
      BY <1>2 DEF SavedFresh, EntryFresh
    <3>1. CASE saved[n].of = i
      <4>1. saved[file[t]] # Nobody /\ saved[file[t]].of = i
        BY <1>2, <2>1, ConstantsAssumption
           DEF FreshInv, Entries, Destination, Resolved
      <4>2. n = file[t]
        BY <2>1, <3>1, <4>1 DEF FreshInv, Entries, SavedOnce
      <4> QED BY <1>2, <1>3, <3>1, <4>2 DEF EntryFresh, Newest
    <3>2. CASE saved[n].of # i
      <4>1. server'[saved[n].of] = server[saved[n].of]
        BY <1>3, <3>2 DEF FreshInv, TypeOK, Credentials
      <4> QED
        BY <1>2, <4>1
           DEF FreshInv, Freshness, SavedFresh, EntryFresh, UntouchedTask, Newest
    <3> QED BY <3>1, <3>2
  <2>4. Captured(t)'
    BY <1>2, <1>3, <1>6, <2>1, ConstantsAssumption DEF Captured, Newest
  <2>5. ASSUME NEW u \in Tasks, u # t PROVE Captured(u)'
    <3>1. pc[u] \in {"request", "save", "write"} =>
            server'[auth[u].of] = server[auth[u].of]
      BY <1>3, <1>4, <2>5 DEF Resolved, FreshInv, TypeOK, Credentials
    <3>2. Captured(u) /\ UntouchedTask(u) /\ current' = current
      BY <1>2, <2>5 DEF FreshInv, Freshness
    <3> QED BY <3>1, <3>2, CapturedFrame
  <2> QED BY <2>2, <2>3, <2>4, <2>5 DEF Freshness
<1> QED BY <1>5, <1>6

\* The saved file gets the new tokens.
LEMMA FreshSave ==
    ASSUME Faults = {}, FreshInv, TypeOK', NEW t \in Tasks, Save(t)
    PROVE  Freshness'
<1>1. /\ pc[t] = "save" /\ pc' = [pc EXCEPT ![t] = pc'[t]]
      /\ pc'[t] = IF guard[t] # Nobody THEN "write" ELSE "release"
      /\ UNCHANGED <<current, server, file, auth, guard>>
      /\ \A u \in Tasks : u # t => UntouchedTask(u)
  BY DEF Save, FreshInv, TypeOK, Goto, locals, UntouchedTask
<1>2. /\ \A n \in Names : n # file[t] => saved'[n] = saved[n]
      /\ file[t] \in Names => saved'[file[t]] = auth[t]
      /\ file[t] \in Names =>
            saved[file[t]] # Nobody /\ saved[file[t]].of = auth[t].of
  BY ConstantsAssumption
     DEF Save, FreshInv, TypeOK, Entries, Destination, Resolved
<1>3. CurrentFresh'
  BY <1>1 DEF FreshInv, Freshness, CurrentFresh, Bearer, Newest, UntouchedTask
<1>4. SavedFresh'
  <2> SUFFICES ASSUME NEW n \in Names, saved'[n] # Nobody PROVE EntryFresh(n)'
    BY DEF SavedFresh, EntryFresh
  <2>1. CASE n # file[t]
    <3>1. saved'[n] = saved[n] /\ EntryFresh(n)
      BY <1>2, <2>1 DEF FreshInv, Freshness, SavedFresh
    <3> QED BY <1>1, <2>1, <3>1 DEF EntryFresh, Newest, UntouchedTask
  <2>2. CASE n = file[t]
    <3>1. saved'[n] = auth[t] /\ saved[n] # Nobody /\ saved[n].of = auth[t].of
      BY <1>2, <2>2
    <3>2. auth[t] = Newest(auth[t].of)
      BY <1>1 DEF FreshInv, Freshness, Captured
    <3> QED BY <1>1, <3>1, <3>2 DEF EntryFresh, Newest
  <2> QED BY <2>1, <2>2
<1>5. ASSUME NEW u \in Tasks PROVE Captured(u)'
  <2>1. CASE u = t
    BY <1>1, <2>1 DEF Captured, FreshInv, Freshness, Newest
  <2>2. CASE u # t
    BY <1>1, <2>2, CapturedFrame DEF FreshInv, Freshness
  <2> QED BY <2>1, <2>2
<1> QED BY <1>3, <1>4, <1>5 DEF Freshness

\* auth.json gets the new tokens if it is as captured.
LEMMA FreshWrite ==
    ASSUME Faults = {}, FreshInv, TypeOK', NEW t \in Tasks, WriteCurrent(t)
    PROVE  Freshness'
<1>1. /\ pc[t] = "write" /\ pc'[t] = "release"
      /\ UNCHANGED <<saved, server, file, auth, guard>>
      /\ \A u \in Tasks : u # t => UntouchedTask(u)
  BY DEF WriteCurrent, FreshInv, TypeOK, Goto, locals, UntouchedTask
<1>2. Captured(t)'
  BY <1>1 DEF Captured
<1>3. /\ current = guard[t] /\ current' = auth[t]
      /\ current # Nobody /\ auth[t] # Nobody /\ current.of = auth[t].of
      /\ auth[t] = Newest(auth[t].of)
  <2>1. auth[t] = Newest(auth[t].of) /\ guard[t] # Nobody /\ auth[t] # Nobody
    BY <1>1 DEF FreshInv, Freshness, Captured, TypeOK, Resolved
  <2>2. current = guard[t] /\ guard[t].of = auth[t].of
    BY <1>1, <2>1 DEF FreshInv, Freshness, Captured, Versions, GuardIsOlder
  <2> QED BY <2>1, <2>2 DEF WriteCurrent
<1>4. CurrentFresh'
  BY <1>1, <1>3 DEF CurrentFresh, Newest
<1>5. ASSUME NEW n \in Names PROVE EntryFresh(n)'
  <2>1. EntryFresh(n)
    BY DEF FreshInv, Freshness, SavedFresh
  <2> QED BY <1>1, <1>3, <2>1 DEF EntryFresh, Newest, UntouchedTask
<1>6. ASSUME NEW u \in Tasks, u # t PROVE Captured(u)'
  <2>1. pc[u] \in Resolved => auth[u].of # current.of
    BY <1>1, <1>3, <1>6, LockedAlone DEF FreshInv, OneRefresh, Resolved
  <2>2. pc[u] \in {"request", "save", "write"} /\ guard[u] # Nobody =>
            guard[u].of = auth[u].of
    BY DEF FreshInv, Versions, GuardIsOlder
  <2>3. Captured(u) /\ UntouchedTask(u)
    BY <1>1, <1>6 DEF FreshInv, Freshness
  <2> QED
    BY <1>1, <1>3, <2>1, <2>2, <2>3
       DEF Captured, UntouchedTask, Newest, Resolved
<1> QED BY <1>2, <1>4, <1>5, <1>6 DEF Freshness, SavedFresh

\* Codex renews the tokens of auth.json, which no refresh holds then.
LEMMA FreshCodex ==
    ASSUME Faults = {}, FreshInv, TypeOK', CodexRefresh
    PROVE  Freshness'
<1> DEFINE i == current.of
<1>1. /\ current # Nobody /\ current \in Credentials /\ i \in Identities
      /\ current.ver = server[i] /\ server[i] \in Nat
      /\ server' = [server EXCEPT ![i] = server[i] + 1]
      /\ current' = [current EXCEPT !.ver = current.ver + 1]
      /\ saved' = saved
      /\ \A u \in Tasks : UntouchedTask(u)
  BY DEF CodexRefresh, FreshInv, TypeOK, Credentials, locals, UntouchedTask
<1>2. /\ current' = [of |-> i, ver |-> server'[i]]
      /\ current'.of = i
      /\ current' # Nobody
      /\ \A j \in Identities : j # i => server'[j] = server[j]
      /\ server'[i] = server[i] + 1
  BY <1>1, NullAssumption DEF FreshInv, TypeOK, Credentials
<1>3. CurrentFresh'
  BY <1>2 DEF CurrentFresh, Newest
<1>4. ASSUME NEW u \in Tasks, pc[u] \in {"request", "save", "write"},
             auth[u].of = i
      PROVE  pc[u] = "request" /\ guard[u] # Nobody
  <2>1. pc[u] \in {"request", "save"} => guard[u] # Nobody
    BY <1>1, <1>4 DEF FreshInv, Freshness, Captured
  <2>2. guard[u] # Nobody
    BY <1>4, <2>1 DEF FreshInv, TypeOK
  <2>3. ASSUME pc[u] \in {"save", "write"} PROVE FALSE
    <3>1. auth[u] = Newest(auth[u].of) /\ current = guard[u]
      BY <2>2, <2>3 DEF FreshInv, Freshness, Captured
    <3>2. guard[u].ver < auth[u].ver
      BY <2>2, <2>3 DEF FreshInv, Versions, GuardIsOlder
    <3> QED BY <1>1, <1>4, <3>1, <3>2 DEF Newest
  <2> QED BY <1>4, <2>2, <2>3
<1>5. ASSUME NEW n \in Names PROVE EntryFresh(n)'
  <2>1. CASE saved[n] # Nobody /\ saved[n].of # i
    <3>1. server'[saved[n].of] = server[saved[n].of]
      BY <1>2, <2>1 DEF FreshInv, TypeOK, Credentials
    <3>2. EntryFresh(n)
      BY DEF FreshInv, Freshness, SavedFresh
    <3> QED BY <1>1, <2>1, <3>1, <3>2 DEF EntryFresh, Newest, UntouchedTask
  <2>2. CASE saved[n] # Nobody /\ saved[n].of = i
    BY <1>1, <1>2, <2>2 DEF EntryFresh
  <2> QED BY <1>1, <2>1, <2>2 DEF EntryFresh
<1>6. ASSUME NEW u \in Tasks PROVE Captured(u)'
  <2>0. Captured(u) /\ UntouchedTask(u)
    BY <1>1 DEF FreshInv, Freshness
  <2>1. CASE pc[u] \in {"request", "save", "write"} /\ auth[u].of = i
    <3>1. pc[u] = "request" /\ guard[u] # Nobody
      BY <1>4, <2>1
    <3>2. auth[u] \in Credentials /\ auth[u].ver <= server[i]
      BY <2>1, <3>1 DEF FreshInv, TypeOK, Versions, Known, Resolved
    <3>3. auth[u].ver # server'[i]
      BY <1>1, <1>2, <3>2 DEF Credentials
    <3> QED BY <2>0, <2>1, <3>1, <3>3 DEF Captured, UntouchedTask, Newest
  <2>2. CASE pc[u] \in {"request", "save", "write"} /\ auth[u].of # i
    <3>1. server'[auth[u].of] = server[auth[u].of]
      BY <1>2, <2>2 DEF FreshInv, TypeOK, Credentials, Resolved
    <3>2. guard[u] # Nobody => guard[u].of = auth[u].of
      BY <2>2 DEF FreshInv, Versions, GuardIsOlder
    <3> QED
      BY <1>1, <1>2, <2>0, <2>2, <3>1, <3>2 DEF Captured, UntouchedTask, Newest
  <2>3. CASE pc[u] \notin {"request", "save", "write"}
    BY <1>1, <1>2, <2>0, <2>3 DEF Captured, UntouchedTask
  <2> QED BY <2>1, <2>2, <2>3
<1> QED BY <1>3, <1>5, <1>6 DEF Freshness, SavedFresh

LEMMA FreshnessNext ==
    ASSUME Faults = {}, FreshInv, TypeOK', [Next]_vars
    PROVE  Freshness'
<1>1. ASSUME NEW t \in Tasks, Refresh(t) PROVE Freshness'
  <2>1. ASSUME ~Bearing(t), Captured(t)', saved' = Synced \/ saved' = saved,
               UNCHANGED <<current, server>>
        PROVE  Freshness'
    <3>1. \A u \in Tasks : u # t => UntouchedTask(u)
      BY <1>1, OthersStay DEF FreshInv, UntouchedTask
    <3>2. \A u \in Tasks : u # t => Captured(u)'
      BY <2>1, <3>1, CapturedFrame DEF FreshInv, Freshness
    <3> QED BY <2>1, <3>1, <3>2, FreshFrame DEF FreshInv
  <2>2. CASE \E o \in {"refresh", "quota"}, r \in Requests : Begin(t, o, r)
    BY <2>1, <2>2 DEF Begin, Goto, FreshInv, TypeOK, Captured, Bearing
  <2>3. CASE Acquire(t) \/ Unresolved(t) \/ Refuse(t)
    BY <2>1, <2>3
       DEF Acquire, Unresolved, Refuse, Goto, locals, FreshInv, TypeOK, Captured,
           Bearing
  <2>4. CASE TimeOut(t) \/ Release(t)
    BY <2>1, <2>4
       DEF TimeOut, Release, Over, Goto, FreshInv, TypeOK, Captured, Bearing
  <2>5. CASE Resolve(t)
    <3>1. ~Bearing(t) /\ saved' = Synced /\ UNCHANGED <<current, server>>
      BY <2>5 DEF Resolve, Bearing
    <3> QED BY <2>1, <2>5, <3>1, CaptureResolved
  <2>6. CASE Capture(t)
    <3>1. /\ pc[t] = "capture" /\ pc'[t] = "request" /\ auth' = auth
          /\ guard'[t] = IF current # Nobody /\ current.of = auth[t].of
                           THEN current ELSE Nobody
          /\ UNCHANGED <<current, saved, server>>
      BY <2>6 DEF Capture, Goto, FreshInv, TypeOK
    <3>2. current # Nobody /\ current.of = auth[t].of
      BY <3>1 DEF FreshInv, Freshness, Captured
    <3>3. Captured(t)' /\ ~Bearing(t)
      BY <3>1, <3>2 DEF Captured, Bearing
    <3> QED BY <2>1, <3>1, <3>3
  <2>7. ~(SaveFails(t) \/ WriteFails(t) \/ Crash(t))
    BY DEF SaveFails, WriteFails, Crash
  <2> QED
    BY <1>1, <2>2, <2>3, <2>4, <2>5, <2>6, <2>7, FreshExchange, FreshSave, FreshWrite
       DEF Refresh
<1>2. ASSUME Quiet, UNCHANGED <<server, pc>>,
             current' # Nobody => current' = Newest(current'.of),
             \A n \in Names : saved'[n] # Nobody =>
                \/ saved'[n] = Newest(saved'[n].of)
                \/ current' # Nobody /\ current'.of = saved'[n].of
      PROVE  Freshness'
  BY <1>2
     DEF Quiet, Freshness, CurrentFresh, SavedFresh, EntryFresh, Captured, Newest
<1>3. ASSUME NEW n \in Names, Switch(n) PROVE Freshness'
  <2>1. /\ Quiet /\ UNCHANGED <<server, pc>> /\ saved' = Synced
        /\ current' = Synced[n]
    BY <1>3 DEF Switch, Refreshing
  <2> QED BY <1>2, <2>1, QuietIsFresh DEF FreshInv, Entries
<1>4. CASE SwitchToProvider
  <2>1. /\ Quiet /\ UNCHANGED <<server, pc>> /\ saved' = Synced
        /\ current' = Nobody
    BY <1>4 DEF SwitchToProvider, Refreshing
  <2> QED BY <1>2, <2>1, QuietIsFresh DEF FreshInv, Entries
<1>5. CASE CodexRefresh
  BY <1>5, FreshCodex
<1>6. ASSUME NEW n \in Names, AddAccount(n) PROVE Freshness'
  <2>1. /\ UNCHANGED <<current, server, pc, file, auth, guard>> /\ current # Nobody
        /\ \A m \in Names : saved'[m] = IF m = n THEN current ELSE saved[m]
    BY <1>6 DEF AddAccount, Refreshing, locals, FreshInv, TypeOK
  <2>2. ASSUME NEW m \in Names PROVE EntryFresh(m)'
    <3>1. EntryFresh(m)
      BY DEF FreshInv, Freshness, SavedFresh
    <3> QED BY <2>1, <3>1 DEF EntryFresh, Newest
  <2> QED
    BY <2>1, <2>2
       DEF FreshInv, Freshness, CurrentFresh, SavedFresh, Captured, Bearer, Newest
<1>7. ASSUME NEW m \in Names, NEW n \in Names, RenameAccount(m, n) PROVE Freshness'
  <2>1. /\ Quiet /\ UNCHANGED <<current, server, pc>>
        /\ \A k \in Names : saved'[k] = IF k = n THEN saved[m]
                                      ELSE IF k = m THEN Nobody ELSE saved[k]
    BY <1>7 DEF RenameAccount, Refreshing, FreshInv, TypeOK
  <2>2. \A k \in Names : saved[k] # Nobody =>
            \/ saved[k] = Newest(saved[k].of)
            \/ current # Nobody /\ current.of = saved[k].of
    BY <2>1 DEF Quiet, FreshInv, Freshness, SavedFresh, EntryFresh
  <2>3. current # Nobody => current = Newest(current.of)
    BY <2>1, QuietIsFresh DEF FreshInv, Entries
  <2> QED BY <1>2, <2>1, <2>2, <2>3
<1>8. ASSUME NEW n \in Names, RemoveAccount(n) PROVE Freshness'
  <2>1. /\ Quiet /\ UNCHANGED <<current, server, pc>>
        /\ \A k \in Names : saved'[k] = IF k = n THEN Nobody ELSE saved[k]
    BY <1>8 DEF RemoveAccount, Refreshing, FreshInv, TypeOK
  <2>2. \A k \in Names : saved[k] # Nobody =>
            \/ saved[k] = Newest(saved[k].of)
            \/ current # Nobody /\ current.of = saved[k].of
    BY <2>1 DEF Quiet, FreshInv, Freshness, SavedFresh, EntryFresh
  <2>3. current # Nobody => current = Newest(current.of)
    BY <2>1, QuietIsFresh DEF FreshInv, Entries
  <2> QED BY <1>2, <2>1, <2>2, <2>3
<1>9. CASE UNCHANGED vars
  <2>1. /\ \A u \in Tasks : UntouchedTask(u) /\ Captured(u)'
        /\ UNCHANGED <<current, saved, server>>
    BY <1>9, CapturedFrame
       DEF vars, locals, UntouchedTask, FreshInv, Freshness
  <2> QED BY <2>1, FreshFrame DEF FreshInv
<1>10. ASSUME NEW i \in Identities, Expire(i) PROVE FALSE
  BY <1>10 DEF Expire
<1> QED
  BY <1>1, <1>3, <1>4, <1>5, <1>6, <1>7, <1>8, <1>9, <1>10 DEF Next

\* Without faults no tokens the service accepts are lost: they are in auth.json, in
\* a saved account or with the refresh that has just received them.
THEOREM TokensSurvive == ASSUME Faults = {} PROVE Spec => []TokensKept
<1>1. Init => FreshInv
  BY TypeInit, VersionsInit, EntriesInit, PossessionInit, FreshnessInit
     DEF FreshInv
<1>2. FreshInv /\ [Next]_vars => FreshInv'
  <2> SUFFICES ASSUME FreshInv, [Next]_vars PROVE FreshInv'
    OBVIOUS
  <2>1. TypeOK /\ Versions /\ Entries /\ Possession
    BY DEF FreshInv
  <2>2. TypeOK'
    BY <2>1, TypeNext
  <2>3. Versions'
    BY <2>1, <2>2, VersionsNext
  <2>4. Entries'
    BY <2>1, <2>2, EntriesNext
  <2>5. Possession'
    BY <2>1, <2>2, PossessionNext DEF Undisturbed
  <2>6. Freshness'
    BY <2>2, FreshnessNext
  <2> QED BY <2>2, <2>3, <2>4, <2>5, <2>6 DEF FreshInv
<1>3. FreshInv => TokensKept
  <2> SUFFICES ASSUME FreshInv, NEW i \in Identities, NEW n \in EntriesOf(i)
               PROVE  \/ current = Newest(i)
                      \/ \E m \in Names : saved[m] = Newest(i)
                      \/ \E t \in Tasks :
                           pc[t] \in {"save", "write"} /\ auth[t] = Newest(i)
    BY DEF TokensKept
  <2>1. n \in Names /\ saved[n] # Nobody /\ saved[n].of = i
    BY DEF EntriesOf
  <2> QED
    BY <2>1
       DEF FreshInv, Freshness, CurrentFresh, SavedFresh, EntryFresh, Bearer
<1> QED BY <1>1, <1>2, <1>3, PTL DEF Spec
=============================================================================
