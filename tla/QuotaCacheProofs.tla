--------------------------- MODULE QuotaCacheProofs ---------------------------
(***************************************************************************)
(* Proofs about QuotaCache for any tasks, accounts, deaths and attempts.   *)
(***************************************************************************)
EXTENDS QuotaCache, FiniteSetTheorems, TLAPS

-----------------------------------------------------------------------------
(* Type correctness *)

LEMMA FreshType == Fresh \in Knowledge
  BY DEF Fresh, Empty, Knowledge

LEMMA TypeInit == ASSUME Init PROVE TypeOK
  BY FreshType DEF Init, TypeOK, Steps, Empty

\* Who a lock directory belongs to is a task, or nobody.
LEMMA OwnerType == ASSUME NEW d \in Dirs PROVE OwnerOf(d) \in Tasks \cup {None}
  <1>1. CASE Cardinality(d.owners) = 1
    <2>1. d.owners # {}
      BY <1>1, FS_EmptySet
    <2>2. (CHOOSE t \in d.owners : TRUE) \in d.owners
      BY <2>1
    <2> QED
      BY <1>1, <2>2 DEF OwnerOf, Dirs
  <1> QED
    BY <1>1 DEF OwnerOf

LEMMA GotoType ==
    ASSUME TypeOK, NEW t \in Tasks, NEW step \in Steps, Goto(t, step)
    PROVE  at' \in [Tasks -> Steps]
  BY DEF TypeOK, Goto

LEMMA RetryType ==
    ASSUME TypeOK, NEW t \in Tasks, NEW task \in Knowledge, Retry(t, task)
    PROVE  at' \in [Tasks -> Steps] /\ my' \in [Tasks -> Knowledge]
  <1>1. [task EXCEPT !.tries = @ + 1] \in Knowledge
    BY DEF Knowledge
  <1> QED
    BY <1>1, GotoType DEF TypeOK, Retry, Steps

LEMMA TypeStep == ASSUME TypeOK, [Next]_vars PROVE TypeOK'
  <1>1. ASSUME NEW t \in Tasks, NEW a \in Accounts, Begin(t, a) PROVE TypeOK'
    <2>1. ASSUME NEW found \in Nat
          PROVE  [Fresh EXCEPT !.of = a, !.cached = found] \in Knowledge
      BY FreshType DEF Knowledge
    <2>2. my' \in [Tasks -> Knowledge]
      <3>1. PICK found \in {file[a], 0} :
                my' = [my EXCEPT ![t] = [Fresh EXCEPT !.of = a, !.cached = found]]
        BY <1>1 DEF Begin
      <3>2. found \in Nat
        BY DEF TypeOK
      <3> QED
        BY <2>1, <3>1, <3>2 DEF TypeOK
    <2>3. at' \in [Tasks -> Steps]
      BY <1>1, GotoType DEF Begin, Steps
    <2> QED
      BY <1>1, <2>2, <2>3 DEF Begin, TypeOK
  <1>2. ASSUME NEW t \in Tasks, JudgeLock(t) PROVE TypeOK'
    BY <1>2, GotoType DEF JudgeLock, TypeOK, Steps
  <1>3. ASSUME NEW t \in Tasks, UnlinkStale(t) PROVE TypeOK'
    <2>1. taken' \subseteq {"lock", "dir"}
      BY <1>3 DEF UnlinkStale, TakesLock, TypeOK
    <2> QED
      BY <1>3, <2>1, GotoType DEF UnlinkStale, TypeOK, Steps
  <1>4. ASSUME NEW t \in Tasks, OpenLock(t) PROVE TypeOK'
    <2>1. [by |-> t, old |-> FALSE] \in Locks
      BY DEF Locks
    <2>2. my' \in [Tasks -> Knowledge]
      <3>1. my[t] \in Knowledge
        BY DEF TypeOK
      <3>2. [my[t] EXCEPT !.held = TRUE] \in Knowledge
        BY <3>1 DEF Knowledge
      <3>3. my' = my \/ my' = [my EXCEPT ![t] = [my[t] EXCEPT !.held = TRUE]]
        BY <1>4 DEF OpenLock, Return
      <3> QED
        BY <3>2, <3>3 DEF TypeOK
    <2>3. lock' \in [Accounts -> Locks \cup {None}]
      BY <1>4, <2>1 DEF OpenLock, TypeOK
    <2>4. at' \in [Tasks -> Steps]
      BY <1>4, GotoType DEF OpenLock, Return, Steps
    <2> QED
      BY <1>4, <2>2, <2>3, <2>4 DEF OpenLock, TypeOK
  <1>5. ASSUME NEW t \in Tasks, WaitForOther(t) PROVE TypeOK'
    <2>1. my' \in [Tasks -> Knowledge]
      <3>1. my[t] \in Knowledge
        BY DEF TypeOK
      <3>2. [my[t] EXCEPT !.second = TRUE] \in Knowledge
        BY <3>1 DEF Knowledge
      <3>3. my' = my \/ my' = [my EXCEPT ![t] = [my[t] EXCEPT !.second = TRUE]]
        BY <1>5 DEF WaitForOther, Return
      <3> QED
        BY <3>2, <3>3 DEF TypeOK
    <2> QED
      BY <1>5, <2>1, GotoType DEF WaitForOther, Return, TypeOK, Steps
  <1>6. ASSUME NEW t \in Tasks, Fetch(t) PROVE TypeOK'
    <2>1. clock' \in Nat /\ my' \in [Tasks -> Knowledge]
      BY <1>6 DEF Fetch, Return, TypeOK, Knowledge
    <2> QED
      BY <1>6, <2>1, GotoType DEF Fetch, Return, TypeOK, Steps
  <1>7. ASSUME NEW t \in Tasks, Release(t) PROVE TypeOK'
    <2>1. taken' \subseteq {"lock", "dir"} /\ lock' \in [Accounts -> Locks \cup {None}]
      BY <1>7 DEF Release, TakesLock, TypeOK
    <2> QED
      BY <1>7, <2>1, GotoType, FreshType DEF Release, TypeOK, Steps
  <1>8. ASSUME NEW t \in Tasks, Maintain(t) PROVE TypeOK'
    BY <1>8, GotoType DEF Maintain, TypeOK, Steps
  <1>9. ASSUME NEW t \in Tasks, Mkdir(t) PROVE TypeOK'
    <2>1. [made |-> t, owners |-> {}, old |-> FALSE] \in Dirs
      BY DEF Dirs
    <2> QED
      BY <1>9, <2>1, GotoType DEF Mkdir, TypeOK, Steps, Recovery
  <1>10. ASSUME NEW t \in Tasks, Rmdir(t) PROVE dir' \in Dirs \cup {None} /\ taken' \subseteq {"lock", "dir"}
    BY <1>10 DEF Rmdir, TakesDir, TypeOK
  <1>11. ASSUME NEW t \in Tasks, WriteOwner(t) PROVE TypeOK'
    <2>1. CASE Rmdir(t) /\ Goto(t, "release")
      BY <1>10, <1>11, <2>1, GotoType DEF WriteOwner, TypeOK, Steps
    <2>2. CASE dir # None /\ dir' = [dir EXCEPT !.owners = @ \cup {t}, !.old = FALSE]
               /\ Goto(t, "read") /\ UNCHANGED taken
      <3>1. dir' \in Dirs
        BY <2>2 DEF TypeOK, Dirs
      <3> QED
        BY <1>11, <2>2, <3>1, GotoType DEF WriteOwner, TypeOK, Steps, Critical
    <2> QED
      BY <1>11, <2>1, <2>2 DEF WriteOwner
  <1>12. ASSUME NEW t \in Tasks, ReadFile(t) PROVE TypeOK'
    <2>1. my' \in [Tasks -> Knowledge]
      BY <1>12 DEF ReadFile, TypeOK, Knowledge, Empty
    <2> QED
      BY <1>12, <2>1, GotoType DEF ReadFile, TypeOK, Steps, Critical
  <1>13. ASSUME NEW t \in Tasks, RenameFile(t) PROVE TypeOK'
    <2>1. Entered(t) \in [Accounts -> Nat]
      BY DEF Entered, TypeOK, Knowledge
    <2> QED
      BY <1>13, <2>1, GotoType DEF RenameFile, TypeOK, Steps, Critical
  <1>14. ASSUME NEW t \in Tasks, Unlock(t) PROVE TypeOK'
    <2>1. dir' \in Dirs \cup {None}
      BY <1>14 DEF Unlock, TypeOK, Dirs
    <2> QED
      BY <1>14, <2>1, GotoType DEF Unlock, TypeOK, Steps
  <1>15. ASSUME NEW t \in Tasks, RemoveDir(t) PROVE TypeOK'
    BY <1>10, <1>15, GotoType DEF RemoveDir, TypeOK, Steps
  <1>16. ASSUME NEW t \in Tasks PROVE my[t] \in Knowledge
    BY DEF TypeOK
  <1>17. ASSUME NEW t \in Tasks, Observe(t) PROVE TypeOK'
    <2>1. CASE Stale
      <3>1. OwnerOf(dir) \in Tasks \cup {None}
        BY <2>1, OwnerType DEF Stale, TypeOK
      <3>2. my' \in [Tasks -> Knowledge]
        <4>1. my[t] \in Knowledge
          BY DEF TypeOK
        <4>2. [my[t] EXCEPT !.seen = OwnerOf(dir)] \in Knowledge
          BY <3>1, <4>1 DEF Knowledge
        <4>3. my' = [my EXCEPT ![t] = [my[t] EXCEPT !.seen = OwnerOf(dir)]]
          BY <1>17, <2>1 DEF Observe
        <4> QED
          BY <4>2, <4>3 DEF TypeOK
      <3> QED
        BY <1>17, <2>1, <3>2, GotoType DEF Observe, TypeOK, Steps, Recovery
    <2>2. CASE ~Stale
      BY <1>16, <1>17, <2>2, RetryType DEF Observe, TypeOK
    <2> QED
      BY <2>1, <2>2
  <1>18. ASSUME NEW t \in Tasks, Confirm(t) PROVE TypeOK'
    <2>1. at' \in [Tasks -> Steps] /\ my' \in [Tasks -> Knowledge]
      BY <1>16, <1>18, GotoType, RetryType DEF Confirm, TypeOK, Steps, Recovery
    <2> QED
      BY <1>18, <2>1 DEF Confirm, TypeOK
  <1>19. ASSUME NEW t \in Tasks, Quarantine(t) PROVE TypeOK'
    <2>1. CASE dir = None
      BY <1>16, <1>19, <2>1, RetryType DEF Quarantine, TypeOK
    <2>2. CASE dir # None
      <3>1. my' \in [Tasks -> Knowledge]
        <4>1. my[t] \in Knowledge /\ dir \in Dirs
          BY <2>2 DEF TypeOK
        <4>2. [my[t] EXCEPT !.aside = dir] \in Knowledge
          BY <4>1 DEF Knowledge
        <4>3. my' = [my EXCEPT ![t] = [my[t] EXCEPT !.aside = dir]]
          BY <1>19, <2>2 DEF Quarantine
        <4> QED
          BY <4>2, <4>3 DEF TypeOK
      <3> QED
        BY <1>19, <2>2, <3>1, GotoType DEF Quarantine, TypeOK, Steps, Recovery
    <2> QED
      BY <2>1, <2>2
  <1>20. ASSUME NEW t \in Tasks, Inspect(t) PROVE TypeOK'
    <2>1. [my[t] EXCEPT !.aside = None] \in Knowledge /\ my[t].aside \in Dirs \cup {None}
      BY <1>16 DEF Knowledge
    <2>2. dir' \in Dirs \cup {None} /\ taken' \subseteq {"lock", "dir"}
      BY <1>20, <2>1 DEF Inspect, TypeOK
    <2> QED
      BY <1>20, <2>1, <2>2, RetryType DEF Inspect, TypeOK
  <1>21. ASSUME NEW t \in Tasks, Die(t) PROVE TypeOK'
    BY <1>21, GotoType, FreshType DEF Die, TypeOK, Steps
  <1>22. CASE DirAges
    <2>1. dir' \in Dirs
      BY <1>22 DEF DirAges, TypeOK, Dirs
    <2> QED
      BY <1>22, <2>1 DEF DirAges, TypeOK
  <1>23. ASSUME NEW a \in Accounts, LockAges(a) PROVE TypeOK'
    <2>1. lock' \in [Accounts -> Locks \cup {None}]
      BY <1>23 DEF LockAges, TypeOK, Locks
    <2> QED
      BY <1>23, <2>1 DEF LockAges, TypeOK
  <1>24. CASE UNCHANGED vars
    BY <1>24 DEF vars, TypeOK
  <1> QED
    BY <1>1, <1>2, <1>3, <1>4, <1>5, <1>6, <1>7, <1>8, <1>9, <1>11, <1>12, <1>13, <1>14,
       <1>15, <1>17, <1>18, <1>19, <1>20, <1>21, <1>22, <1>23, <1>24 DEF Next, Step

\* The cache and its locks keep their types.
THEOREM TypeCorrect == Spec => []TypeOK
  <1> QED
    BY TypeInit, TypeStep, PTL DEF Spec

-----------------------------------------------------------------------------
(* The lock of the cache file *)

Holding == {"owner", "rmdir"} \cup Critical

\* Nobody was robbed of the directory, and whoever made it has it still.
DirHeld ==
    "dir" \in taken
    \/ \A t \in Tasks : at[t] \in Holding => dir # None /\ dir.made = t

\* What a task goes on with: what is in the file, or nothing if it could not read it.
Knows(task) == task.snap = IF task.blank THEN Empty ELSE file

\* It still knows that when it replaces the file.
SnapKept == "dir" \in taken \/ \A t \in Tasks : at[t] = "rename" => Knows(my[t])

LEMMA NotNone == \A d \in Dirs : d # None
  BY NullAssumption

\* A step that leaves the directory to its maker.
LEMMA DirStays ==
    ASSUME TypeOK, DirHeld, taken \subseteq taken',
           NEW t \in Tasks, NEW step, Goto(t, step),
           step \in Holding => at[t] \in Holding,
           dir # None => dir' # None /\ dir'.made = dir.made
    PROVE  DirHeld'
  BY DEF TypeOK, DirHeld, Goto

\* A step that takes the directory away: from a dead task, or noted as robbed.
LEMMA DirGoes ==
    ASSUME TypeOK, DirHeld, taken \subseteq taken',
           NEW t \in Tasks, NEW step, Goto(t, step), step \notin Holding,
           dir # None /\ dir.made # t /\ Alive(dir.made) => "dir" \in taken'
    PROVE  DirHeld'
  <1>1. CASE "dir" \in taken'
    BY <1>1 DEF DirHeld
  <1>2. CASE "dir" \notin taken'
    <2> SUFFICES ASSUME NEW u \in Tasks, at'[u] \in Holding
                 PROVE  FALSE
      BY DEF DirHeld
    <2>1. u # t /\ at[u] \in Holding
      BY DEF TypeOK, Goto
    <2>2. dir # None /\ dir.made = u
      BY <1>2, <2>1 DEF DirHeld
    <2>3. Alive(u)
      BY <2>1 DEF Alive, Holding, Critical
    <2> QED
      BY <1>2, <2>1, <2>2, <2>3
  <1> QED
    BY <1>1, <1>2

LEMMA RetryGoes ==
    ASSUME NEW t \in Tasks, NEW task, Retry(t, task)
    PROVE  \E step : step \notin Holding /\ Goto(t, step)
  BY DEF Retry, Holding, Critical

LEMMA DirStep == ASSUME TypeOK, DirHeld, [Next]_vars PROVE DirHeld'
  <1> USE DEF Holding, Critical
  <1>1. ASSUME NEW t \in Tasks, NEW a \in Accounts, Begin(t, a) PROVE DirHeld'
    BY <1>1, DirStays DEF Begin
  <1>2. ASSUME NEW t \in Tasks, JudgeLock(t) PROVE DirHeld'
    BY <1>2, DirStays DEF JudgeLock
  <1>3. ASSUME NEW t \in Tasks, UnlinkStale(t) PROVE DirHeld'
    BY <1>3, DirStays DEF UnlinkStale, TakesLock
  <1>4. ASSUME NEW t \in Tasks, OpenLock(t) PROVE DirHeld'
    BY <1>4, DirStays DEF OpenLock, Return
  <1>5. ASSUME NEW t \in Tasks, WaitForOther(t) PROVE DirHeld'
    BY <1>5, DirStays DEF WaitForOther, Return
  <1>6. ASSUME NEW t \in Tasks, Fetch(t) PROVE DirHeld'
    BY <1>6, DirStays DEF Fetch, Return
  <1>7. ASSUME NEW t \in Tasks, Release(t) PROVE DirHeld'
    BY <1>7, DirStays DEF Release, TakesLock
  <1>8. ASSUME NEW t \in Tasks, Maintain(t) PROVE DirHeld'
    BY <1>8, DirStays DEF Maintain
  <1>9. ASSUME NEW t \in Tasks, Mkdir(t) PROVE DirHeld'
    <2>1. CASE dir = None
      <3>1. dir' = [made |-> t, owners |-> {}, old |-> FALSE] /\ dir' \in Dirs
            /\ taken' = taken /\ at' = [at EXCEPT ![t] = "owner"]
        <4>1. [made |-> t, owners |-> {}, old |-> FALSE] \in Dirs
          BY DEF Dirs
        <4> QED
          BY <1>9, <2>1, <4>1 DEF Mkdir, Goto
      <3>2. dir' # None /\ dir'.made = t
        BY <3>1, NotNone
      <3>3. "dir" \in taken \/ \A u \in Tasks : at[u] \notin Holding
        BY <2>1 DEF DirHeld
      <3> QED
        BY <3>1, <3>2, <3>3 DEF DirHeld, TypeOK
    <2>2. CASE dir # None
      BY <1>9, <2>2, DirStays DEF Mkdir
    <2> QED
      BY <2>1, <2>2
  <1>10. ASSUME NEW t \in Tasks, Rmdir(t), Goto(t, "release") PROVE DirHeld'
    <2>1. CASE dir # None /\ dir.owners = {}
      BY <1>10, <2>1, DirGoes DEF Rmdir, TakesDir
    <2>2. CASE ~(dir # None /\ dir.owners = {})
      BY <1>10, <2>2, DirStays DEF Rmdir
    <2> QED
      BY <2>1, <2>2
  <1>11. ASSUME NEW t \in Tasks, WriteOwner(t) PROVE DirHeld'
    <2>1. CASE /\ dir # None
               /\ dir' = [dir EXCEPT !.owners = @ \cup {t}, !.old = FALSE]
               /\ Goto(t, "read") /\ UNCHANGED taken
      <3>1. dir' # None /\ dir'.made = dir.made
        <4>1. dir \in Dirs /\ dir' = [dir EXCEPT !.owners = @ \cup {t}, !.old = FALSE]
          BY <2>1 DEF TypeOK
        <4>2. dir' \in Dirs /\ dir'.made = dir.made
          BY <4>1 DEF Dirs
        <4> QED
          BY <4>2, NotNone
      <3>2. at[t] = "owner"
        BY <1>11 DEF WriteOwner
      <3> QED
        BY <2>1, <3>1, <3>2, DirStays
    <2> QED
      BY <1>10, <1>11, <2>1 DEF WriteOwner
  <1>12. ASSUME NEW t \in Tasks, ReadFile(t) PROVE DirHeld'
    BY <1>12, DirStays DEF ReadFile
  <1>13. ASSUME NEW t \in Tasks, RenameFile(t) PROVE DirHeld'
    BY <1>13, DirStays DEF RenameFile
  <1>14. ASSUME NEW t \in Tasks, Unlock(t) PROVE DirHeld'
    <2>1. dir # None => dir' # None /\ dir'.made = dir.made
      <3>1. CASE dir' = dir
        BY <3>1
      <3>2. CASE dir # None /\ dir' = [dir EXCEPT !.owners = {}, !.old = FALSE]
        <4>1. dir' \in Dirs /\ dir'.made = dir.made
          BY <3>2 DEF TypeOK, Dirs
        <4> QED
          BY <4>1, NotNone
      <3> QED
        BY <1>14, <3>1, <3>2 DEF Unlock
    <2> QED
      BY <1>14, <2>1, DirStays DEF Unlock
  <1>15. ASSUME NEW t \in Tasks, RemoveDir(t) PROVE DirHeld'
    BY <1>10, <1>15 DEF RemoveDir
  <1>16. ASSUME NEW t \in Tasks, Observe(t) PROVE DirHeld'
    BY <1>16, DirStays, RetryGoes DEF Observe
  <1>17. ASSUME NEW t \in Tasks, Confirm(t) PROVE DirHeld'
    BY <1>17, DirStays, RetryGoes DEF Confirm
  <1>18. ASSUME NEW t \in Tasks, Quarantine(t) PROVE DirHeld'
    <2>1. CASE dir = None
      BY <1>18, <2>1, DirStays, RetryGoes DEF Quarantine
    <2>2. CASE dir # None
      BY <1>18, <2>2, DirGoes DEF Quarantine
    <2> QED
      BY <2>1, <2>2
  <1>19. ASSUME NEW t \in Tasks, Inspect(t) PROVE DirHeld'
    <2>1. PICK step : step \notin Holding /\ Goto(t, step)
      BY <1>19, RetryGoes DEF Inspect
    <2>2. CASE dir' = dir
      BY <1>19, <2>1, <2>2, DirStays DEF Inspect
    <2>3. CASE dir' # dir
      BY <1>19, <2>1, <2>3, DirGoes DEF Inspect
    <2> QED
      BY <2>2, <2>3
  <1>20. ASSUME NEW t \in Tasks, Die(t) PROVE DirHeld'
    BY <1>20, DirStays DEF Die
  <1>21. CASE DirAges
    <2>1. dir' # None /\ dir'.made = dir.made
      BY <1>21, NullAssumption DEF DirAges, TypeOK, Dirs
    <2> QED
      BY <1>21, <2>1 DEF DirAges, DirHeld
  <1>22. ASSUME NEW a \in Accounts, LockAges(a) PROVE DirHeld'
    BY <1>22 DEF LockAges, DirHeld
  <1>23. CASE UNCHANGED vars
    BY <1>23 DEF vars, DirHeld
  <1> QED
    BY <1>1, <1>2, <1>3, <1>4, <1>5, <1>6, <1>7, <1>8, <1>9, <1>11, <1>12, <1>13, <1>14,
       <1>15, <1>16, <1>17, <1>18, <1>19, <1>20, <1>21, <1>22, <1>23 DEF Next, Step

LEMMA DirInvariant == Spec => [](TypeOK /\ DirHeld)
  <1>1. Init => DirHeld
    BY DEF Init, DirHeld, Holding, Critical
  <1> QED
    BY <1>1, TypeInit, TypeStep, DirStep, PTL DEF Spec

\* Two in the critical section are one.
LEMMA OneWriter ==
    ASSUME TypeOK, DirHeld, "dir" \notin taken,
           NEW t \in Tasks, NEW u \in Tasks, at[t] \in Critical, at[u] \in Critical
    PROVE  t = u
  BY DEF DirHeld, Holding

LEMMA AtMostOne ==
    ASSUME NEW S, \A x, y \in S : x = y
    PROVE  Cardinality(S) <= 1
  <1>1. CASE S = {}
    BY <1>1, FS_EmptySet
  <1>2. CASE S # {}
    <2>1. PICK x \in S : S = {x}
      BY <1>2
    <2> QED
      BY <2>1, FS_Singleton
  <1> QED
    BY <1>1, <1>2

\* Whatever dies and whatever is taken for stale, two windows replace the cache file
\* at once only after one was robbed of its directory.
THEOREM WritersAlone == Spec => []WritersExclude
  <1>1. ASSUME TypeOK, DirHeld PROVE WritersExclude
    <2> SUFFICES ASSUME "dir" \notin taken
                 PROVE  Cardinality({t \in Tasks : at[t] \in Critical}) <= 1
      BY DEF WritersExclude
    <2>1. \A t, u \in {v \in Tasks : at[v] \in Critical} : t = u
      BY <1>1, OneWriter
    <2> QED
      BY <2>1, AtMostOne
  <1> QED
    BY <1>1, DirInvariant, PTL

LEMMA TakenGrows == ASSUME [Next]_vars PROVE taken \subseteq taken'
  <1>1. ASSUME NEW t \in Tasks, UnlinkStale(t) \/ Release(t) PROVE taken \subseteq taken'
    BY <1>1 DEF UnlinkStale, Release, TakesLock
  <1>2. ASSUME NEW t \in Tasks, WriteOwner(t) \/ RemoveDir(t) PROVE taken \subseteq taken'
    BY <1>2 DEF WriteOwner, RemoveDir, Rmdir, TakesDir
  <1>3. ASSUME NEW t \in Tasks, Quarantine(t) \/ Inspect(t) PROVE taken \subseteq taken'
    BY <1>3 DEF Quarantine, Inspect
  <1>4. ASSUME NEW t \in Tasks,
               \/ JudgeLock(t) \/ OpenLock(t) \/ WaitForOther(t) \/ Fetch(t) \/ Maintain(t)
               \/ Mkdir(t) \/ ReadFile(t) \/ RenameFile(t) \/ Unlock(t)
               \/ Observe(t) \/ Confirm(t) \/ Die(t)
        PROVE  taken' = taken
    BY <1>4 DEF JudgeLock, OpenLock, WaitForOther, Fetch, Maintain, Mkdir, ReadFile,
       RenameFile, Unlock, Observe, Confirm, Die
  <1>5. ASSUME NEW t, NEW a, Begin(t, a) PROVE taken' = taken
    BY <1>5 DEF Begin
  <1>6. ASSUME NEW a, LockAges(a) PROVE taken' = taken
    BY <1>6 DEF LockAges
  <1> QED
    BY <1>1, <1>2, <1>3, <1>4, <1>5, <1>6 DEF Next, Step, DirAges, vars

\* Only the replacement changes the file, and only the reading what was read of it.
LEMMA FileEffect ==
    ASSUME TypeOK, [Next]_vars
    PROVE  \/ file' = file /\ \A t \in Tasks : at'[t] = "rename" =>
                 (at[t] = "rename" /\ my'[t] = my[t]) \/ Knows(my'[t])
           \/ \E t \in Tasks : RenameFile(t)
  <1> DEFINE Reads == file' = file /\ \A u \in Tasks : at'[u] = "rename" =>
                 (at[u] = "rename" /\ my'[u] = my[u]) \/ Knows(my'[u])
  <1>1. ASSUME file' = file,
               NEW t \in Tasks, NEW step, Goto(t, step), step # "rename",
               \A u \in Tasks \ {t} : my'[u] = my[u]
        PROVE  Reads
    BY <1>1 DEF TypeOK, Goto
  <1>2. ASSUME NEW t \in Tasks, NEW a \in Accounts, Begin(t, a) PROVE Reads
    BY <1>1, <1>2 DEF Begin, TypeOK
  <1>3. ASSUME NEW t \in Tasks,
               JudgeLock(t) \/ UnlinkStale(t) \/ OpenLock(t) \/ WaitForOther(t)
        PROVE  Reads
    BY <1>1, <1>3 DEF JudgeLock, UnlinkStale, OpenLock, WaitForOther, Return, TypeOK
  <1>4. ASSUME NEW t \in Tasks, Fetch(t) \/ Release(t) \/ Maintain(t) \/ Mkdir(t)
        PROVE  Reads
    BY <1>1, <1>4 DEF Fetch, Release, Maintain, Mkdir, Return, TypeOK
  <1>5. ASSUME NEW t \in Tasks, WriteOwner(t) \/ Unlock(t) \/ RemoveDir(t) \/ Die(t)
        PROVE  Reads
    BY <1>1, <1>5 DEF WriteOwner, Unlock, RemoveDir, Die, TypeOK
  <1>6. ASSUME NEW t \in Tasks, NEW task, Retry(t, task), file' = file
        PROVE  Reads
    BY <1>1, <1>6 DEF Retry, TypeOK
  <1>7. ASSUME NEW t \in Tasks, Observe(t) \/ Confirm(t) PROVE Reads
    BY <1>1, <1>6, <1>7 DEF Observe, Confirm, TypeOK
  <1>8. ASSUME NEW t \in Tasks, Quarantine(t) \/ Inspect(t) PROVE Reads
    BY <1>1, <1>6, <1>8 DEF Quarantine, Inspect, TypeOK
  <1>9. ASSUME NEW t \in Tasks, ReadFile(t) PROVE Reads
    <2>1. my[t] \in Knowledge
      BY DEF TypeOK
    <2>2. CASE Goto(t, "unlock") /\ UNCHANGED my
      BY <1>1, <1>9, <2>2 DEF ReadFile
    <2>3. ASSUME NEW snap, NEW blank, snap = IF blank THEN Empty ELSE file,
                 my' = [my EXCEPT ![t] = [my[t] EXCEPT !.snap = snap, !.blank = blank]],
                 Goto(t, "rename"), file' = file
          PROVE  Reads
      <3>1. [my[t] EXCEPT !.snap = snap, !.blank = blank].snap = snap
            /\ [my[t] EXCEPT !.snap = snap, !.blank = blank].blank = blank
        BY <2>1 DEF Knowledge
      <3>2. Knows(my'[t])
        BY <2>3, <3>1 DEF TypeOK, Knows
      <3> QED
        BY <2>3, <3>2 DEF TypeOK, Goto
    <2>4. CASE /\ my' = [my EXCEPT ![t].snap = file, ![t].blank = FALSE]
               /\ Goto(t, "rename")
      <3>1. my' = [my EXCEPT ![t] = [my[t] EXCEPT !.snap = file, !.blank = FALSE]]
        BY <2>4 DEF TypeOK
      <3> QED
        BY <1>9, <2>3, <2>4, <3>1 DEF ReadFile
    <2>5. CASE /\ my' = [my EXCEPT ![t].snap = Empty, ![t].blank = TRUE]
               /\ Goto(t, "rename")
      <3>1. my' = [my EXCEPT ![t] = [my[t] EXCEPT !.snap = Empty, !.blank = TRUE]]
        BY <2>5 DEF TypeOK
      <3> QED
        BY <1>9, <2>3, <2>5, <3>1 DEF ReadFile
    <2> QED
      BY <1>9, <2>2, <2>4, <2>5 DEF ReadFile
  <1>10. CASE UNCHANGED <<file, at, my>>
    BY <1>10
  <1>11. ASSUME NEW a, LockAges(a) PROVE UNCHANGED <<file, at, my>>
    BY <1>11 DEF LockAges
  <1> QED
    BY <1>2, <1>3, <1>4, <1>5, <1>7, <1>8, <1>9, <1>10, <1>11
       DEF Next, Step, DirAges, vars

LEMMA SnapStep == ASSUME TypeOK, DirHeld, SnapKept, [Next]_vars PROVE SnapKept'
  <1>1. CASE "dir" \in taken'
    BY <1>1 DEF SnapKept
  <1>2. CASE "dir" \notin taken'
    <2>1. "dir" \notin taken
      BY <1>2, TakenGrows
    <2>2. CASE \E t \in Tasks : RenameFile(t)
      <3>1. PICK t \in Tasks : RenameFile(t)
        BY <2>2
      <3>2. at[t] = "rename" /\ at' = [at EXCEPT ![t] = "unlock"]
        BY <3>1 DEF RenameFile, Goto
      <3>3. \A u \in Tasks : at'[u] # "rename"
        BY <2>1, <3>2, OneWriter DEF TypeOK, Critical
      <3> QED
        BY <3>3 DEF SnapKept
    <2>3. CASE file' = file /\ \A t \in Tasks : at'[t] = "rename" =>
                 (at[t] = "rename" /\ my'[t] = my[t]) \/ Knows(my'[t])
      BY <2>1, <2>3 DEF SnapKept, Knows
    <2> QED
      BY <2>2, <2>3, FileEffect
  <1> QED
    BY <1>1, <1>2

LEMMA CacheInvariant == Spec => [](TypeOK /\ DirHeld /\ SnapKept)
  <1>1. Init => DirHeld /\ SnapKept
    BY DEF Init, DirHeld, SnapKept, Holding, Critical
  <1> QED
    BY <1>1, TypeInit, TypeStep, DirStep, SnapStep, PTL DEF Spec

\* Whoever replaces the file changes the entry of its own account alone, and drops
\* others only if it could not read them, unless somebody was robbed of the directory.
THEOREM UpdatesKept == Spec => NoUpdateLost
  <1> DEFINE Kept == \A a \in Accounts : file'[a] # file[a] =>
                \/ "dir" \in taken
                \/ \E t \in Tasks : /\ at[t] = "rename"
                                    /\ my[t].of = a \/ (my[t].blank /\ file'[a] = 0)
  <1>1. ASSUME TypeOK, SnapKept, [Next]_vars PROVE Kept
    <2> SUFFICES ASSUME NEW a \in Accounts, file'[a] # file[a], "dir" \notin taken
                 PROVE  \E t \in Tasks : /\ at[t] = "rename"
                                         /\ my[t].of = a \/ (my[t].blank /\ file'[a] = 0)
      OBVIOUS
    <2>1. PICK t \in Tasks : RenameFile(t)
      BY <1>1, FileEffect
    <2>2. at[t] = "rename" /\ file' = Entered(t)
      BY <2>1 DEF RenameFile
    <2>3. my[t].snap = IF my[t].blank THEN Empty ELSE file
      BY <1>1, <2>2 DEF SnapKept, Knows
    <2>4. file'[a] = IF a = my[t].of THEN my[t].answer ELSE my[t].snap[a]
      BY <2>2 DEF Entered
    <2> QED
      BY <2>2, <2>3, <2>4 DEF Empty
  <1> QED
    BY <1>1, CacheInvariant, PTL DEF Spec, NoUpdateLost

-----------------------------------------------------------------------------
(* The lock of an account *)

Before == {"judge", "unlink", "open", "wait"}

\* Nobody was robbed of the lock of an account, and whoever has taken it has it.
LockHeld ==
    "lock" \in taken
    \/ \A t \in Tasks : Alive(t) /\ my[t].held =>
          my[t].of \in Accounts /\ lock[my[t].of] # None /\ lock[my[t].of].by = t

\* Who has not asked for the lock yet does not have it.
Unlocked ==
    \A t \in Tasks : /\ at[t] \in Before \cup {"idle"} => ~my[t].held
                     /\ at[t] \in Before => my[t].of \in Accounts

\* A step that leaves the lock of its account, if it has one, and the locks alone.
Leaves(t) ==
    /\ \A u \in Tasks \ {t} : my'[u] = my[u] /\ at'[u] = at[u]
    /\ my'[t].held => my[t].held /\ my'[t].of = my[t].of /\ at[t] # "dead"
    /\ at'[t] \in Before => at[t] \in Before /\ my'[t].of = my[t].of
    /\ at'[t] # "idle"

LEMMA LeavesUnlocked ==
    ASSUME Unlocked, NEW t \in Tasks, Leaves(t)
    PROVE  Unlocked'
  BY DEF Unlocked, Leaves, Before

LEMMA LeavesHeld ==
    ASSUME LockHeld, NEW t \in Tasks, Leaves(t), taken \subseteq taken',
           \A a \in Accounts : lock[a] # None =>
                 lock'[a] # None /\ lock'[a].by = lock[a].by
    PROVE  LockHeld'
  BY DEF LockHeld, Leaves, Alive

LEMMA TakesHeld ==
    ASSUME TypeOK, LockHeld, NEW t \in Tasks, Leaves(t), ~my'[t].held, NEW a \in Accounts,
           TakesLock(t, a), lock' = [lock EXCEPT ![a] = None]
    PROVE  LockHeld'
  <1>1. CASE "lock" \in taken'
    BY <1>1 DEF LockHeld
  <1>2. CASE "lock" \notin taken'
    <2> SUFFICES ASSUME NEW u \in Tasks, Alive(u)', my'[u].held
                 PROVE  /\ my'[u].of \in Accounts /\ lock'[my'[u].of] # None
                        /\ lock'[my'[u].of].by = u
      BY DEF LockHeld
    <2>1. u # t /\ my'[u] = my[u] /\ Alive(u)
      BY DEF Leaves, Alive
    <2>2. my[u].of \in Accounts /\ lock[my[u].of] # None /\ lock[my[u].of].by = u
      BY <1>2, <2>1 DEF LockHeld, TakesLock
    <2>3. my[u].of # a
      BY <1>2, <2>1, <2>2 DEF TakesLock
    <2> QED
      BY <2>1, <2>2, <2>3 DEF TypeOK
  <1> QED
    BY <1>1, <1>2

LEMMA MovesOn ==
    ASSUME TypeOK, NEW t \in Tasks, NEW step, Goto(t, step), step # "idle",
           at[t] # "dead", step \in Before => at[t] \in Before,
           \A u \in Tasks \ {t} : my'[u] = my[u],
           my'[t].held = my[t].held, my'[t].of = my[t].of
    PROVE  Leaves(t)
  BY DEF TypeOK, Goto, Leaves

LEMMA RetryLeaves ==
    ASSUME TypeOK, NEW t \in Tasks, NEW task \in Knowledge, Retry(t, task),
           at[t] # "dead", task.held = my[t].held, task.of = my[t].of
    PROVE  Leaves(t)
  <1>1. [task EXCEPT !.tries = @ + 1].held = task.held
        /\ [task EXCEPT !.tries = @ + 1].of = task.of
    BY DEF Knowledge
  <1>2. my' = [my EXCEPT ![t] = [task EXCEPT !.tries = @ + 1]] \/ my' = [my EXCEPT ![t] = task]
    BY DEF Retry
  <1>3. my'[t].held = my[t].held /\ my'[t].of = my[t].of /\ \A u \in Tasks \ {t} : my'[u] = my[u]
    BY <1>1, <1>2 DEF TypeOK
  <1>4. Goto(t, "mkdir") \/ Goto(t, "release")
    BY DEF Retry
  <1> QED
    BY <1>3, <1>4, MovesOn DEF Before

\* Of the steps of the protocols only taking the lock of an account is more.
LEMMA StepLeaves ==
    ASSUME TypeOK, Unlocked, NEW t \in Tasks, Step(t)
    PROVE  Leaves(t) \/ (OpenLock(t) /\ lock[my[t].of] = None)
  <1> USE DEF Before
  <1>1. my[t] \in Knowledge
    BY DEF TypeOK
  <1>2. CASE JudgeLock(t) \/ UnlinkStale(t)
    BY <1>2, MovesOn DEF JudgeLock, UnlinkStale
  <1>3. CASE OpenLock(t) /\ lock[my[t].of] # None
    BY <1>3, MovesOn DEF OpenLock, Return
  <1>4. CASE WaitForOther(t)
    <2>1. [my[t] EXCEPT !.second = TRUE].held = my[t].held
          /\ [my[t] EXCEPT !.second = TRUE].of = my[t].of
      BY <1>1 DEF Knowledge
    <2>2. my' = my \/ my' = [my EXCEPT ![t] = [my[t] EXCEPT !.second = TRUE]]
      BY <1>4 DEF WaitForOther, Return
    <2>3. my'[t].held = my[t].held /\ my'[t].of = my[t].of /\ \A u \in Tasks \ {t} : my'[u] = my[u]
      BY <2>1, <2>2 DEF TypeOK
    <2> QED
      BY <1>4, <2>3, MovesOn DEF WaitForOther, Return
  <1>5. CASE Fetch(t)
    <2>1. [my[t] EXCEPT !.answer = clock + 1].held = my[t].held
          /\ [my[t] EXCEPT !.answer = clock + 1].of = my[t].of
      BY <1>1 DEF Knowledge
    <2>2. my' = my \/ my' = [my EXCEPT ![t] = [my[t] EXCEPT !.answer = clock + 1]]
      BY <1>5 DEF Fetch, Return
    <2>3. my'[t].held = my[t].held /\ my'[t].of = my[t].of /\ \A u \in Tasks \ {t} : my'[u] = my[u]
      BY <2>1, <2>2 DEF TypeOK
    <2> QED
      BY <1>5, <2>3, MovesOn DEF Fetch, Return
  <1>6. CASE Release(t)
    <2>1. my' = [my EXCEPT ![t] = Fresh] /\ at' = [at EXCEPT ![t] = "done"]
      BY <1>6 DEF Release, Goto
    <2> QED
      BY <2>1 DEF TypeOK, Leaves, Fresh
  <1>7. CASE Mkdir(t) \/ WriteOwner(t) \/ RenameFile(t) \/ Unlock(t) \/ RemoveDir(t)
    BY <1>7, MovesOn DEF Mkdir, WriteOwner, RenameFile, Unlock, RemoveDir
  <1>8. CASE ReadFile(t)
    <2>1. my'[t].held = my[t].held /\ my'[t].of = my[t].of
          /\ \A u \in Tasks \ {t} : my'[u] = my[u]
      BY <1>1, <1>8 DEF ReadFile, TypeOK, Knowledge
    <2> QED
      BY <1>8, <2>1, MovesOn DEF ReadFile
  <1>9. CASE Observe(t)
    <2>1. [my[t] EXCEPT !.seen = OwnerOf(dir)].held = my[t].held
          /\ [my[t] EXCEPT !.seen = OwnerOf(dir)].of = my[t].of
      BY <1>1 DEF Knowledge
    <2>2. CASE my' = [my EXCEPT ![t] = [my[t] EXCEPT !.seen = OwnerOf(dir)]] /\ Goto(t, "confirm")
      BY <1>9, <2>1, <2>2, MovesOn DEF Observe, TypeOK
    <2> QED
      BY <1>1, <1>9, <2>2, RetryLeaves DEF Observe
  <1>10. CASE Confirm(t)
    BY <1>1, <1>10, MovesOn, RetryLeaves DEF Confirm
  <1>11. CASE Quarantine(t)
    <2>1. [my[t] EXCEPT !.aside = dir].held = my[t].held
          /\ [my[t] EXCEPT !.aside = dir].of = my[t].of
      BY <1>1 DEF Knowledge
    <2>2. CASE my' = [my EXCEPT ![t] = [my[t] EXCEPT !.aside = dir]] /\ Goto(t, "inspect")
      BY <1>11, <2>1, <2>2, MovesOn DEF Quarantine, TypeOK
    <2> QED
      BY <1>1, <1>11, <2>2, RetryLeaves DEF Quarantine
  <1>12. CASE Inspect(t)
    <2>1. [my[t] EXCEPT !.aside = None] \in Knowledge
          /\ [my[t] EXCEPT !.aside = None].held = my[t].held
          /\ [my[t] EXCEPT !.aside = None].of = my[t].of
      BY <1>1 DEF Knowledge
    <2> QED
      BY <1>12, <2>1, RetryLeaves DEF Inspect
  <1> QED
    BY <1>2, <1>3, <1>4, <1>5, <1>6, <1>7, <1>8, <1>9, <1>10, <1>11, <1>12 DEF Step

LEMMA LockStep ==
    ASSUME TypeOK, Unlocked, LockHeld, [Next]_vars
    PROVE  Unlocked' /\ LockHeld'
  <1>1. taken \subseteq taken'
    BY TakenGrows
  <1>2. ASSUME NEW t \in Tasks, NEW a \in Accounts, Begin(t, a)
        PROVE  Unlocked' /\ LockHeld'
    <2>1. \A found \in {file[a], 0} : /\ ~[Fresh EXCEPT !.of = a, !.cached = found].held
                                      /\ [Fresh EXCEPT !.of = a, !.cached = found].of = a
      BY DEF Fresh
    <2>2. \A u \in Tasks \ {t} : my'[u] = my[u] /\ at'[u] = at[u]
      BY <1>2 DEF Begin, Goto, TypeOK
    <2>3. ~my'[t].held /\ my'[t].of = a /\ lock' = lock /\ taken' = taken
      BY <1>2, <2>1 DEF Begin, TypeOK
    <2> QED
      BY <2>2, <2>3 DEF Unlocked, LockHeld, Alive
  <1>3. ASSUME NEW t \in Tasks, Maintain(t) \/ Die(t) PROVE Unlocked' /\ LockHeld'
    <2>1. Leaves(t)
      <3>1. CASE Maintain(t)
        BY <3>1, MovesOn DEF Maintain, Before
      <3>2. CASE Die(t)
        <4>1. my' = [my EXCEPT ![t] = Fresh] /\ at' = [at EXCEPT ![t] = "dead"]
          BY <3>2 DEF Die, Goto
        <4> QED
          BY <4>1 DEF TypeOK, Leaves, Fresh, Before
      <3> QED
        BY <1>3, <3>1, <3>2
    <2>2. lock' = lock
      BY <1>3 DEF Maintain, Die
    <2> QED
      BY <1>1, <2>1, <2>2, LeavesUnlocked, LeavesHeld
  <1>4. ASSUME NEW t \in Tasks, OpenLock(t), lock[my[t].of] = None
        PROVE  Unlocked' /\ LockHeld'
    <2>1. /\ lock' = [lock EXCEPT ![my[t].of] = [by |-> t, old |-> FALSE]]
          /\ my' = [my EXCEPT ![t].held = TRUE]
          /\ at' = [at EXCEPT ![t] = "fetch"]
          /\ at[t] = "open" /\ taken' = taken
      BY <1>4 DEF OpenLock, Goto
    <2>2. my[t].of \in Accounts
      BY <2>1 DEF Unlocked, Before
    <2>3. my'[t].of = my[t].of /\ \A u \in Tasks \ {t} : my'[u] = my[u] /\ at'[u] = at[u]
      BY <2>1 DEF TypeOK, Knowledge
    <2>4. Unlocked'
      BY <2>1, <2>3 DEF Unlocked, Before, TypeOK
    <2>5. [by |-> t, old |-> FALSE] # None
      <3>1. [by |-> t, old |-> FALSE] \in Locks
        BY DEF Locks
      <3> QED
        BY <3>1, NullAssumption
    <2>6. /\ lock'[my[t].of] = [by |-> t, old |-> FALSE]
          /\ \A a \in Accounts \ {my[t].of} : lock'[a] = lock[a]
      BY <2>1, <2>2 DEF TypeOK
    <2>7. \A u \in Tasks \ {t} : "lock" \in taken \/ (Alive(u) /\ my[u].held => my[u].of # my[t].of)
      BY <1>4 DEF LockHeld
    <2> QED
      BY <2>1, <2>2, <2>3, <2>4, <2>5, <2>6, <2>7 DEF LockHeld, Alive
  <1>5. ASSUME NEW t \in Tasks, Step(t), Leaves(t) PROVE Unlocked' /\ LockHeld'
    <2>1. Unlocked'
      BY <1>5, LeavesUnlocked
    <2>2. CASE UnlinkStale(t)
      <3>1. my[t].of \in Accounts /\ ~my'[t].held
        BY <2>2 DEF UnlinkStale, Unlocked, Before
      <3> QED
        BY <1>5, <2>1, <2>2, <3>1, TakesHeld DEF UnlinkStale
    <2>3. CASE Release(t)
      <3>1. ~my'[t].held
        BY <2>3 DEF Release, TypeOK, Fresh
      <3>2. CASE "lock" \in taken \/ ~my[t].held
        BY <1>1, <1>5, <2>1, <2>3, <3>2, LeavesHeld DEF Release, LockHeld
      <3>3. CASE "lock" \notin taken /\ my[t].held
        <4>1. my[t].of \in Accounts
          BY <2>3, <3>3 DEF LockHeld, Release, Alive
        <4> QED
          BY <1>5, <2>1, <2>3, <3>1, <3>3, <4>1, TakesHeld DEF Release
      <3> QED
        BY <3>2, <3>3
    <2>4. CASE lock' = lock
      BY <1>1, <1>5, <2>1, <2>4, LeavesHeld
    <2>5. CASE OpenLock(t) /\ lock[my[t].of] # None
      BY <2>4, <2>5 DEF OpenLock
    <2>6. CASE OpenLock(t) /\ lock[my[t].of] = None
      BY <1>4, <2>6
    <2> QED
      BY <1>5, <2>2, <2>3, <2>4, <2>5, <2>6 DEF Step, JudgeLock, WaitForOther, Fetch,
         Mkdir, WriteOwner, ReadFile, RenameFile, Unlock, RemoveDir, Observe, Confirm,
         Quarantine, Inspect
  <1>6. ASSUME NEW a \in Accounts, LockAges(a) PROVE Unlocked' /\ LockHeld'
    <2>1. lock[a] \in Locks /\ lock' = [lock EXCEPT ![a] = [lock[a] EXCEPT !.old = TRUE]]
      BY <1>6 DEF LockAges, TypeOK
    <2>2. [lock[a] EXCEPT !.old = TRUE] \in Locks /\ [lock[a] EXCEPT !.old = TRUE].by = lock[a].by
      BY <2>1 DEF Locks
    <2>3. \A b \in Accounts : lock[b] # None => lock'[b] # None /\ lock'[b].by = lock[b].by
      BY <2>1, <2>2, NullAssumption DEF TypeOK
    <2>4. UNCHANGED <<at, my, taken>>
      BY <1>6 DEF LockAges
    <2> QED
      BY <2>3, <2>4 DEF Unlocked, LockHeld, Alive
  <1>7. CASE UNCHANGED <<at, my, lock, taken>>
    BY <1>7 DEF Unlocked, LockHeld, Alive
  <1> QED
    BY <1>2, <1>3, <1>4, <1>5, <1>6, <1>7, StepLeaves DEF Next, DirAges, vars

\* Whatever expires and whatever dies, two windows with the lock of an account ask the
\* service at once only after one was robbed of it.
THEOREM FetchesAlone == Spec => []OneFetch
  <1>1. ASSUME TypeOK, LockHeld PROVE OneFetch
    <2> SUFFICES ASSUME NEW a \in Accounts, "lock" \notin taken
                 PROVE  Cardinality({t \in Tasks : at[t] = "fetch" /\ my[t].of = a
                                                   /\ my[t].held}) <= 1
      BY DEF OneFetch
    <2>1. \A t, u \in {v \in Tasks : at[v] = "fetch" /\ my[v].of = a /\ my[v].held} : t = u
      BY <1>1 DEF LockHeld, Alive
    <2> QED
      BY <2>1, AtMostOne
  <1>2. Init => LockHeld /\ Unlocked
    BY DEF Init, LockHeld, Unlocked, Fresh, Before
  <1> QED
    BY <1>1, <1>2, TypeInit, TypeStep, LockStep, PTL DEF Spec
=============================================================================
