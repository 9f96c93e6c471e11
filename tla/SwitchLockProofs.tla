-------------------------- MODULE SwitchLockProofs --------------------------
(***************************************************************************)
(* Proofs about SwitchLock for every number of processes, every placement  *)
(* on hosts, every retry bound and every nesting depth.                    *)
(***************************************************************************)
EXTENDS SwitchLock, TLAPS

-----------------------------------------------------------------------------
(* Type correctness *)

LEMMA TypeInit == ASSUME Init PROVE TypeOK
  <1>1. /\ pc \in [Procs -> Locations]
        /\ seen \in [Procs -> Procs \cup {NoProc}]
        /\ seized \in SUBSET Procs
    BY DEF Init, Locations
  <1>2. depth \in [Procs -> 0..MaxDepth] /\ waited \in [Procs -> 0..MaxRetries]
    BY ConstantsAssumption DEF Init
  <1> QED BY <1>1, <1>2 DEF Init, TypeOK, Ages

LEMMA TypeStep == ASSUME TypeOK, [Next]_vars PROVE TypeOK'
  <1> USE ConstantsAssumption DEF TypeOK, Ages, Locations, KeepDirectory, KeepLocals, Goto
  <1>1. CASE Tick
    BY <1>1 DEF Tick
  <1>2. ASSUME NEW p \in Procs, Begin(p) PROVE TypeOK'
    BY <1>2 DEF Begin
  <1>3. ASSUME NEW p \in Procs, Acquire(p) PROVE TypeOK'
    <2>1. CASE Mkdir(p)      BY <2>1 DEF Mkdir
    <2>2. CASE Chmod(p)      BY <2>2 DEF Chmod
    <2>3. CASE WriteOwner(p) BY <2>3 DEF WriteOwner
    <2>4. CASE ReadOwner(p)  BY <2>4 DEF ReadOwner
    <2>5. CASE Judge(p)      BY <2>5 DEF Judge
    <2>6. CASE Quarantine(p) BY <2>6 DEF Quarantine, TakeAway
    <2>7. CASE Retry(p)      BY <2>7 DEF Retry
    <2>8. CASE TimeOut(p)    BY <2>8 DEF TimeOut
    <2> QED BY <1>3, <2>1, <2>2, <2>3, <2>4, <2>5, <2>6, <2>7, <2>8 DEF Acquire
  <1>4. ASSUME NEW p \in Procs, OwnFails(p) PROVE TypeOK'
    BY <1>4 DEF OwnFails, TakeAway
  <1>5. ASSUME NEW p \in Procs, Enter(p) PROVE TypeOK'
    BY <1>5 DEF Enter
  <1>6. ASSUME NEW p \in Procs, Leave(p) PROVE TypeOK'
    BY <1>6 DEF Leave
  <1>7. ASSUME NEW p \in Procs, Release(p) PROVE TypeOK'
    <2>1. CASE Finish(p)    BY <2>1 DEF Finish
    <2>2. CASE ReadToken(p) BY <2>2 DEF ReadToken
    <2>3. CASE Remove(p)    BY <2>3 DEF Remove, TakeAway
    <2> QED BY <1>7, <2>1, <2>2, <2>3 DEF Release
  <1>8. ASSUME NEW p \in Procs, RemoveFails(p) PROVE TypeOK'
    BY <1>8 DEF RemoveFails
  <1>9. ASSUME NEW p \in Procs, Die(p) PROVE TypeOK'
    BY <1>9 DEF Die
  <1>10. CASE UNCHANGED vars
    BY <1>10 DEF vars
  <1> QED
    BY <1>1, <1>2, <1>3, <1>4, <1>5, <1>6, <1>7, <1>8, <1>9, <1>10 DEF Next, Step

\* The variables of the lock protocol keep their types
\* (liveSwitch.ts, acquireSwitchLock and release).
THEOREM TypeCorrect == Spec => []TypeOK
  BY TypeInit, TypeStep, PTL DEF Spec

-----------------------------------------------------------------------------
(* Exclusion of the processes that have not been robbed *)

\* A process that created the directory and has not been robbed of it still
\* has it.
Possession ==
    \A p \in Procs : Busy(p) /\ p \notin seized => present /\ holder = p

LEMMA PossessionStep ==
    ASSUME TypeOK, Possession, [Next]_vars
    PROVE  Possession'
  <1> USE DEF TypeOK, Possession, Busy, KeepDirectory, KeepLocals, Goto
  <1>1. CASE Tick
    BY <1>1 DEF Tick
  <1>2. ASSUME NEW p \in Procs, Begin(p) PROVE Possession'
    BY <1>2 DEF Begin
  <1>3. ASSUME NEW p \in Procs, Acquire(p) PROVE Possession'
    <2>1. CASE Mkdir(p)      BY <2>1 DEF Mkdir
    <2>2. CASE Chmod(p)      BY <2>2 DEF Chmod
    <2>3. CASE WriteOwner(p) BY <2>3 DEF WriteOwner
    <2>4. CASE ReadOwner(p)  BY <2>4 DEF ReadOwner
    <2>5. CASE Judge(p)      BY <2>5 DEF Judge
    <2>6. CASE Quarantine(p) BY <2>6 DEF Quarantine, TakeAway
    <2>7. CASE Retry(p)      BY <2>7 DEF Retry
    <2>8. CASE TimeOut(p)    BY <2>8 DEF TimeOut
    <2> QED BY <1>3, <2>1, <2>2, <2>3, <2>4, <2>5, <2>6, <2>7, <2>8 DEF Acquire
  <1>4. ASSUME NEW p \in Procs, OwnFails(p) PROVE Possession'
    BY <1>4 DEF OwnFails, TakeAway
  <1>5. ASSUME NEW p \in Procs, Enter(p) PROVE Possession'
    BY <1>5 DEF Enter
  <1>6. ASSUME NEW p \in Procs, Leave(p) PROVE Possession'
    BY <1>6 DEF Leave
  <1>7. ASSUME NEW p \in Procs, Release(p) PROVE Possession'
    <2>1. CASE Finish(p)    BY <2>1 DEF Finish
    <2>2. CASE ReadToken(p) BY <2>2 DEF ReadToken
    <2>3. CASE Remove(p)    BY <2>3 DEF Remove, TakeAway
    <2> QED BY <1>7, <2>1, <2>2, <2>3 DEF Release
  <1>8. ASSUME NEW p \in Procs, RemoveFails(p) PROVE Possession'
    BY <1>8 DEF RemoveFails
  <1>9. ASSUME NEW p \in Procs, Die(p) PROVE Possession'
    BY <1>9 DEF Die
  <1>10. CASE UNCHANGED vars
    BY <1>10 DEF vars
  <1> QED
    BY <1>1, <1>2, <1>3, <1>4, <1>5, <1>6, <1>7, <1>8, <1>9, <1>10 DEF Next, Step

\* A process that created the directory keeps it until it removes it or is
\* robbed: the inductive invariant behind exclusion (acquireSwitchLock).
THEOREM PossessionHolds == Spec => [](TypeOK /\ Possession)
  <1>1. ASSUME Init PROVE Possession
    BY <1>1 DEF Init, Possession, Busy
  <1>2. QED
    BY <1>1, TypeInit, TypeStep, PossessionStep, PTL DEF Spec

\* Whatever dies, stalls or fails, two switch callbacks run at once only when
\* one of their processes was robbed of its directory (liveSwitch.ts,
\* withLiveSwitchLock, recoverStaleSwitchLock).
THEOREM Exclusive == Spec => []ExclusiveUnlessSeized
  <1>1. ASSUME Possession PROVE ExclusiveUnlessSeized
    BY <1>1 DEF Possession, ExclusiveUnlessSeized, InSwitch, Busy
  <1>2. QED
    BY <1>1, PossessionHolds, PTL

-----------------------------------------------------------------------------
(* Unconditional exclusion when nobody dies or stalls *)

\* No process is killed, a live process ends its switch within five minutes,
\* and the removal of the lock directory succeeds.
Calm == Mortal = {} /\ ~LongHolds /\ ~RemoveFaults

\* In a calm run nobody is robbed, no lock looks abandoned, and the token in
\* owner.json is the one of the process inside.
CalmInv ==
    /\ \A p \in Procs : pc[p] \notin {"dead", "rename"}
    /\ seized = {}
    /\ present => holder \in Procs /\ Busy(holder)
    /\ age # "stale"
    /\ \A p \in Procs : pc[p] \in {"held", "release", "remove"} => owner = p

LEMMA CalmStep ==
    ASSUME Calm, TypeOK, Possession, CalmInv, [Next]_vars
    PROVE  CalmInv'
  <1> USE DEF TypeOK, Possession, CalmInv, Calm, Busy, KeepDirectory, KeepLocals, Goto
  <1>1. CASE Tick
    BY <1>1 DEF Tick
  <1>2. ASSUME NEW p \in Procs, Begin(p) PROVE CalmInv'
    BY <1>2 DEF Begin
  <1>3. ASSUME NEW p \in Procs, Acquire(p) PROVE CalmInv'
    <2>1. CASE Mkdir(p)      BY <2>1 DEF Mkdir
    <2>2. CASE Chmod(p)      BY <2>2 DEF Chmod
    <2>3. CASE WriteOwner(p) BY <2>3 DEF WriteOwner
    <2>4. CASE ReadOwner(p)  BY <2>4 DEF ReadOwner
    <2>5. CASE Judge(p)
      <3>1. ~IsStale(p)
        BY DEF IsStale
      <3> QED BY <2>5, <3>1 DEF Judge
    <2>6. CASE Quarantine(p) BY <2>6 DEF Quarantine
    <2>7. CASE Retry(p)      BY <2>7 DEF Retry
    <2>8. CASE TimeOut(p)    BY <2>8 DEF TimeOut
    <2> QED BY <1>3, <2>1, <2>2, <2>3, <2>4, <2>5, <2>6, <2>7, <2>8 DEF Acquire
  <1>4. ASSUME NEW p \in Procs, OwnFails(p) PROVE CalmInv'
    BY <1>4 DEF OwnFails, TakeAway
  <1>5. ASSUME NEW p \in Procs, Enter(p) PROVE CalmInv'
    BY <1>5 DEF Enter
  <1>6. ASSUME NEW p \in Procs, Leave(p) PROVE CalmInv'
    BY <1>6 DEF Leave
  <1>7. ASSUME NEW p \in Procs, Release(p) PROVE CalmInv'
    <2>1. CASE Finish(p)    BY <2>1 DEF Finish
    <2>2. CASE ReadToken(p) BY <2>2 DEF ReadToken
    <2>3. CASE Remove(p)    BY <2>3 DEF Remove, TakeAway
    <2> QED BY <1>7, <2>1, <2>2, <2>3 DEF Release
  <1>8. ASSUME NEW p \in Procs, RemoveFails(p) PROVE CalmInv'
    BY <1>8 DEF RemoveFails
  <1>9. ASSUME NEW p \in Procs, Die(p) PROVE CalmInv'
    BY <1>9 DEF Die
  <1>10. CASE UNCHANGED vars
    BY <1>10 DEF vars
  <1> QED
    BY <1>1, <1>2, <1>3, <1>4, <1>5, <1>6, <1>7, <1>8, <1>9, <1>10 DEF Next, Step

\* The inductive invariant of a calm run (acquireSwitchLock, release).
THEOREM CalmHolds ==
    ASSUME Calm
    PROVE  Spec => [](TypeOK /\ Possession /\ CalmInv)
  <1>1. ASSUME Init PROVE CalmInv
    BY <1>1 DEF Init, CalmInv
  <1>2. TypeOK /\ Possession /\ CalmInv /\ [Next]_vars => CalmInv'
    BY CalmStep
  <1>3. QED
    BY <1>1, <1>2, PossessionHolds, PTL DEF Spec

\* While nobody dies or stalls, two switch callbacks never run at once
\* (liveSwitch.ts, withLiveSwitchLock).
THEOREM Exclusion == ASSUME Calm PROVE Spec => []MutualExclusion
  <1>1. ASSUME Possession, CalmInv PROVE MutualExclusion
    BY <1>1 DEF Possession, CalmInv, MutualExclusion, InSwitch, Busy
  <1>2. QED
    BY <1>1, CalmHolds, PTL

\* While nobody dies or stalls, a process that releases finds its own token in
\* owner.json and removes the directory (liveSwitch.ts, release).
THEOREM OwnLockReleased == ASSUME Calm PROVE Spec => ReleasesItsOwnLock
  <1>1. ASSUME TypeOK, Possession, CalmInv, [Next]_vars
        PROVE  [\A p \in Procs :
                  pc[p] = "release" /\ pc'[p] = "idle" => p \in seized]_vars
    <2> SUFFICES ASSUME NEW p \in Procs, pc[p] = "release", pc'[p] = "idle"
                 PROVE  FALSE
      BY <1>1
    <2> USE DEF TypeOK, Possession, CalmInv, Calm, Busy, KeepDirectory, KeepLocals, Goto
    <2>1. ~(UNCHANGED vars) /\ ~Tick
      BY <1>1 DEF vars, Tick
    <2>2. PICK q \in Procs : Step(q)
      BY <1>1, <2>1 DEF Next
    <2>3. q = p
      BY <1>1, <2>2 DEF Step, Begin, Acquire, Mkdir, Chmod, WriteOwner, ReadOwner,
         Judge, Quarantine, Retry, TimeOut, OwnFails, Enter, Leave, Release,
         Finish, ReadToken, Remove, RemoveFails, Die
    <2>4. ReadToken(p)
      BY <1>1, <2>2, <2>3 DEF Step, Begin, Acquire, Mkdir, Chmod, WriteOwner,
         ReadOwner, Judge, Quarantine, Retry, TimeOut, OwnFails, Enter, Leave,
         Release, Finish, Remove, RemoveFails, Die
    <2>5. present /\ owner = p
      BY <1>1
    <2> QED BY <1>1, <2>4, <2>5 DEF ReadToken
  <1>2. QED
    BY <1>1, CalmHolds, PTL DEF Spec, ReleasesItsOwnLock
=============================================================================
