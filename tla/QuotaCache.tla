----------------------------- MODULE QuotaCache -----------------------------
(***************************************************************************)
(* The quota cache all windows share (quotaCache.ts): a query looks into   *)
(* the cache file, takes the account's lock or uses what another window    *)
(* has found, asks the service, and enters the answer into the file under  *)
(* the lock of that file; maintenance at startup rewrites the file.        *)
(*                                                                         *)
(* Each task is a query or a maintenance of some window, one action per    *)
(* file-system call that others can see.  A lock directory counts as made  *)
(* by the task that made it; owner files appear in it one by one.  A cache *)
(* file that cannot be read or parsed counts as an empty one.              *)
(***************************************************************************)
EXTENDS Naturals, FiniteSets

CONSTANTS
    Tasks,
    Accounts,
    None,        \* no lock, no account
    MaxDeaths,   \* bound on windows that are killed
    MaxTries     \* bound on attempts before the deadline

ASSUME CacheAssumption ==
    /\ None \notin Tasks \cup Accounts
    /\ MaxDeaths \in Nat /\ MaxTries \in Nat

VARIABLES
    file,        \* per account: when its cached numbers were measured, or 0
    clock,       \* advances with every answer of the service
    lock,        \* per account: the lock file, or None
    dir,         \* the lock directory of the cache file, or None
    at, my,      \* per task: what it does next, what it knows
    taken        \* the kinds of lock taken away from a holder that lives

vars == <<file, clock, lock, dir, at, my, taken>>

Locks == [by : Tasks, old : BOOLEAN]
Dirs == [made : Tasks, owners : SUBSET Tasks, old : BOOLEAN]

ASSUME NullAssumption == None \notin Locks \cup Dirs

\* Waiting for the lock of the file, and holding it.
Recovery == {"observe", "confirm", "quarantine", "inspect"}
Critical == {"read", "rename", "unlock"}
Steps == {"idle", "judge", "unlink", "open", "wait", "fetch", "mkdir", "owner",
          "rmdir", "release", "done", "dead"} \cup Recovery \cup Critical

Empty == [a \in Accounts |-> 0]

Fresh == [of |-> None,            \* the account; None for maintenance
          cached |-> 0,           \* the numbers found first
          second |-> FALSE, held |-> FALSE,
          answer |-> 0,           \* of the service
          snap |-> Empty,         \* of the file
          blank |-> FALSE,        \* it could not be read
          tries |-> 0, seen |-> None, aside |-> None]

Alive(t) == at[t] # "dead"

Init ==
    /\ file = Empty
    /\ clock = 0
    /\ lock = [a \in Accounts |-> None]
    /\ dir = None
    /\ at = [t \in Tasks |-> "idle"]
    /\ my = [t \in Tasks |-> Fresh]
    /\ taken = {}

Goto(t, step) == at' = [at EXCEPT ![t] = step]

\* The query returns; its own lock file goes first if it has one.
Return(t) == Goto(t, "release") /\ UNCHANGED my

-----------------------------------------------------------------------------
(* queryQuotaWithCache and the lock of the account. *)

\* Numbers younger than the interval are used, unless the fetch is forced; none are
\* found if the file cannot be read.
Begin(t, a) ==
    /\ at[t] = "idle"
    /\ \E found \in {file[a], 0} :
          /\ Goto(t, "judge") \/ (found # 0 /\ Goto(t, "release"))
          /\ my' = [my EXCEPT ![t] = [Fresh EXCEPT !.of = a, !.cached = found]]
    /\ UNCHANGED <<file, clock, lock, dir, taken>>

JudgeLock(t) ==
    LET found == lock[my[t].of]
    IN  /\ at[t] = "judge"
        /\ Goto(t, IF found # None /\ found.old THEN "unlink" ELSE "open")
        /\ UNCHANGED <<file, clock, lock, dir, my, taken>>

TakesLock(t, a) ==
    taken' = IF lock[a] # None /\ lock[a].by # t /\ Alive(lock[a].by)
             THEN taken \cup {"lock"} ELSE taken

\* By its name: whichever lock is there now.
UnlinkStale(t) ==
    /\ at[t] = "unlink"
    /\ lock' = [lock EXCEPT ![my[t].of] = None]
    /\ TakesLock(t, my[t].of)
    /\ Goto(t, "open")
    /\ UNCHANGED <<file, clock, dir, my>>

\* Seeded fault: the lock file is opened without the flag that it must be new.
OpenAnyLock(t) ==
    /\ at[t] = "open"
    /\ lock' = [lock EXCEPT ![my[t].of] = [by |-> t, old |-> FALSE]]
    /\ my' = [my EXCEPT ![t].held = TRUE]
    /\ Goto(t, "fetch")
    /\ UNCHANGED <<file, clock, dir, taken>>

\* Whoever finds the lock taken uses older numbers, waits for the other window
\* once, and then asks without the lock.
OpenLock(t) ==
    /\ at[t] = "open"
    /\ \/ /\ lock[my[t].of] = None
          /\ lock' = [lock EXCEPT ![my[t].of] = [by |-> t, old |-> FALSE]]
          /\ my' = [my EXCEPT ![t].held = TRUE]
          /\ Goto(t, "fetch")
       \/ /\ lock[my[t].of] # None
          /\ UNCHANGED lock
          /\ \/ my[t].second /\ Goto(t, "fetch") /\ UNCHANGED my
             \/ ~my[t].second /\ my[t].cached # 0 /\ Return(t)
             \/ ~my[t].second /\ my[t].cached = 0 /\ Goto(t, "wait") /\ UNCHANGED my
    /\ UNCHANGED <<file, clock, dir, taken>>

\* It waits for numbers, for the lock to go, or for two seconds, and then has no
\* numbers if there are none or the file cannot be read.
WaitForOther(t) ==
    /\ at[t] = "wait"
    /\ \/ file[my[t].of] # 0 /\ Return(t)
       \/ /\ my' = [my EXCEPT ![t].second = TRUE]
          /\ Goto(t, "judge")
    /\ UNCHANGED <<file, clock, lock, dir, taken>>

\* Numbers go into the file; after a failure the query returns what was found
\* first, or the error.
Fetch(t) ==
    /\ at[t] = "fetch"
    /\ \/ /\ clock' = clock + 1
          /\ my' = [my EXCEPT ![t].answer = clock + 1]
          /\ Goto(t, "mkdir")
       \/ Return(t) /\ UNCHANGED clock
    /\ UNCHANGED <<file, lock, dir, taken>>

\* finally: the lock file is removed by its name.
Release(t) ==
    /\ at[t] = "release"
    /\ IF my[t].held
       THEN /\ lock' = [lock EXCEPT ![my[t].of] = None]
            /\ TakesLock(t, my[t].of)
       ELSE UNCHANGED <<lock, taken>>
    /\ Goto(t, "done")
    /\ my' = [my EXCEPT ![t] = Fresh]
    /\ UNCHANGED <<file, clock, dir>>

-----------------------------------------------------------------------------
(* The lock of the cache file. *)

Maintain(t) ==
    /\ at[t] = "idle"
    /\ Goto(t, "mkdir")
    /\ UNCHANGED <<file, clock, lock, dir, my, taken>>

\* The token of the only owner file.
OwnerOf(d) == IF Cardinality(d.owners) = 1 THEN CHOOSE t \in d.owners : TRUE
              ELSE None

\* Seeded fault: the directory may be there already (recursive).
MkdirAnyway(t) ==
    /\ at[t] = "mkdir"
    /\ dir' = IF dir = None THEN [made |-> t, owners |-> {}, old |-> FALSE] ELSE dir
    /\ Goto(t, "owner")
    /\ UNCHANGED <<file, clock, lock, my, taken>>

Mkdir(t) ==
    /\ at[t] = "mkdir"
    /\ IF dir = None
       THEN /\ dir' = [made |-> t, owners |-> {}, old |-> FALSE]
            /\ Goto(t, "owner")
       ELSE Goto(t, "observe") /\ UNCHANGED dir
    /\ UNCHANGED <<file, clock, lock, my, taken>>

TakesDir(t) ==
    taken' = IF dir # None /\ dir.made # t /\ Alive(dir.made)
             THEN taken \cup {"dir"} ELSE taken

\* rmdir removes whichever directory is there now, if it is empty.
Rmdir(t) ==
    IF dir # None /\ dir.owners = {} THEN dir' = None /\ TakesDir(t)
    ELSE UNCHANGED <<dir, taken>>

\* The answer is not cached if the write fails, or the directory has gone.
WriteOwner(t) ==
    /\ at[t] = "owner"
    /\ \/ /\ dir # None
          /\ dir' = [dir EXCEPT !.owners = @ \cup {t}, !.old = FALSE]
          /\ Goto(t, "read")
          /\ UNCHANGED taken
       \/ Rmdir(t) /\ Goto(t, "release")
    /\ UNCHANGED <<file, clock, lock, my>>

\* A query that cannot read the file goes on with an empty one; maintenance gives up.
ReadFile(t) ==
    /\ at[t] = "read"
    /\ \/ /\ my' = [my EXCEPT ![t].snap = file, ![t].blank = FALSE]
          /\ Goto(t, "rename")
       \/ /\ my[t].of # None
          /\ my' = [my EXCEPT ![t].snap = Empty, ![t].blank = TRUE]
          /\ Goto(t, "rename")
       \/ my[t].of = None /\ Goto(t, "unlock") /\ UNCHANGED my
    /\ UNCHANGED <<file, clock, lock, dir, taken>>

\* Seeded fault: the file is replaced by one with the new entry alone.
RenameAlone(t) ==
    /\ at[t] = "rename"
    /\ file' = [a \in {my[t].of} |-> my[t].answer]
    /\ Goto(t, "unlock")
    /\ UNCHANGED <<clock, lock, dir, my, taken>>

\* writeCachedQuotaSnapshot: what was read, with the answer entered.
Entered(t) == [a \in Accounts |-> IF a = my[t].of THEN my[t].answer ELSE my[t].snap[a]]

\* The whole file is replaced, or the write fails.
RenameFile(t) ==
    /\ at[t] = "rename"
    /\ file' \in {file, Entered(t)}
    /\ Goto(t, "unlock")
    /\ UNCHANGED <<clock, lock, dir, my, taken>>

\* Only a directory with its own token is removed, after its owner file.
Unlock(t) ==
    /\ at[t] = "unlock"
    /\ IF dir # None /\ OwnerOf(dir) = t
       THEN dir' = [dir EXCEPT !.owners = {}, !.old = FALSE] /\ Goto(t, "rmdir")
       ELSE Goto(t, "release") /\ UNCHANGED dir
    /\ UNCHANGED <<file, clock, lock, my, taken>>

RemoveDir(t) ==
    /\ at[t] = "rmdir"
    /\ Rmdir(t)
    /\ Goto(t, "release")
    /\ UNCHANGED <<file, clock, lock, my>>

\* Seeded fault: after the deadline the file is written without the lock.
RetryThenWrite(t, task) ==
    IF task.tries < MaxTries
    THEN Goto(t, "mkdir") /\ my' = [my EXCEPT ![t] = [task EXCEPT !.tries = @ + 1]]
    ELSE Goto(t, "read") /\ my' = [my EXCEPT ![t] = task]

\* Until the deadline; then the answer is not cached.
Retry(t, task) ==
    IF task.tries < MaxTries
    THEN Goto(t, "mkdir") /\ my' = [my EXCEPT ![t] = [task EXCEPT !.tries = @ + 1]]
    ELSE Goto(t, "release") /\ my' = [my EXCEPT ![t] = task]

Stale == dir # None /\ dir.old

\* maybeRecoverStaleCacheFileLock: twice, with a pause in between.
Observe(t) ==
    /\ at[t] = "observe"
    /\ IF Stale THEN /\ my' = [my EXCEPT ![t].seen = OwnerOf(dir)]
                     /\ Goto(t, "confirm")
       ELSE Retry(t, my[t])
    /\ UNCHANGED <<file, clock, lock, dir, taken>>

Confirm(t) ==
    /\ at[t] = "confirm"
    /\ IF Stale /\ OwnerOf(dir) = my[t].seen
       THEN Goto(t, "quarantine") /\ UNCHANGED my
       ELSE Retry(t, my[t])
    /\ UNCHANGED <<file, clock, lock, dir, taken>>

\* quarantineStaleCacheFileLock: renamed first, looked at again, put back if it
\* turns out to be another one.
Quarantine(t) ==
    /\ at[t] = "quarantine"
    /\ IF dir = None THEN Retry(t, my[t]) /\ UNCHANGED <<dir, taken>>
       ELSE /\ dir' = None
            /\ my' = [my EXCEPT ![t].aside = dir]
            /\ Goto(t, "inspect")
            /\ taken' = IF Alive(dir.made) THEN taken \cup {"dir"} ELSE taken
    /\ UNCHANGED <<file, clock, lock>>

\* rename replaces an empty directory, and fails over one with an owner.
Inspect(t) ==
    LET found == my[t].aside
    IN  /\ at[t] = "inspect"
        /\ dir' = IF found.old /\ OwnerOf(found) = my[t].seen THEN dir
                  ELSE IF dir = None \/ (dir # None /\ dir.owners = {}) THEN found
                  ELSE dir
        /\ Retry(t, [my[t] EXCEPT !.aside = None])
        /\ taken' = IF dir # None /\ dir' # dir /\ Alive(dir.made)
                    THEN taken \cup {"dir"} ELSE taken
        /\ UNCHANGED <<file, clock, lock>>

-----------------------------------------------------------------------------
(* The surroundings. *)

Die(t) ==
    /\ at[t] \notin {"idle", "done", "dead"}
    /\ Cardinality({u \in Tasks : at[u] = "dead"}) < MaxDeaths
    /\ Goto(t, "dead")
    /\ my' = [my EXCEPT ![t] = Fresh]
    /\ UNCHANGED <<file, clock, lock, dir, taken>>

\* Thirty seconds pass for a lock.  The directory is held without a pause, so its
\* maker does not live to see that; the lock of an account is held while the
\* service is asked, which may take longer.
DirAges ==
    /\ dir # None /\ ~Alive(dir.made)
    /\ dir' = [dir EXCEPT !.old = TRUE]
    /\ UNCHANGED <<file, clock, lock, at, my, taken>>

LockAges(a) ==
    /\ lock[a] # None
    /\ lock' = [lock EXCEPT ![a].old = TRUE]
    /\ UNCHANGED <<file, clock, dir, at, my, taken>>

Step(t) ==
    \/ JudgeLock(t) \/ UnlinkStale(t) \/ OpenLock(t) \/ WaitForOther(t)
    \/ Fetch(t) \/ Release(t)
    \/ Mkdir(t) \/ WriteOwner(t) \/ ReadFile(t) \/ RenameFile(t) \/ Unlock(t) \/ RemoveDir(t)
    \/ Observe(t) \/ Confirm(t) \/ Quarantine(t) \/ Inspect(t)

Next ==
    \/ \E t \in Tasks :
          \/ \E a \in Accounts : Begin(t, a)
          \/ Maintain(t) \/ Step(t) \/ Die(t)
    \/ DirAges
    \/ \E a \in Accounts : LockAges(a)

Spec == Init /\ [][Next]_vars

-----------------------------------------------------------------------------

Knowledge == [of : Accounts \cup {None}, cached : Nat,
              second : BOOLEAN, held : BOOLEAN, answer : Nat,
              snap : [Accounts -> Nat], blank : BOOLEAN, tries : Nat,
              seen : Tasks \cup {None}, aside : Dirs \cup {None}]

TypeOK ==
    /\ file \in [Accounts -> Nat]
    /\ clock \in Nat
    /\ lock \in [Accounts -> Locks \cup {None}]
    /\ dir \in Dirs \cup {None}
    /\ at \in [Tasks -> Steps]
    /\ my \in [Tasks -> Knowledge]
    /\ taken \subseteq {"lock", "dir"}

\* Two windows never both read and replace the file, unless one of them lost its
\* lock directory while it lived: to a window that meant the directory of a dead
\* one, or to one that put such a directory back (acquireCacheFileLock).
WritersExclude ==
    "dir" \in taken \/ Cardinality({t \in Tasks : at[t] \in Critical}) <= 1

\* A window replaces the entry of its own account and leaves the others as they
\* are in the file, or drops them because it could not read the file: no answer of
\* another window is replaced by an older one, and none is lost to a window that
\* read the file (writeCachedQuotaSnapshot, readCacheFile).
NoUpdateLost ==
    [][\A a \in Accounts :
          file'[a] # file[a] =>
             \/ "dir" \in taken
             \/ \E t \in Tasks : /\ at[t] = "rename"
                                 /\ my[t].of = a \/ (my[t].blank /\ file'[a] = 0)]_vars

\* Two windows with the lock of an account never both ask for its quota, unless
\* one of them lost its lock (tryAcquireLock, maybeRemoveStaleLock).
OneFetch ==
    \A a \in Accounts :
        "lock" \in taken \/ Cardinality({t \in Tasks : at[t] = "fetch" /\ my[t].of = a
                                            /\ my[t].held}) <= 1
=============================================================================
