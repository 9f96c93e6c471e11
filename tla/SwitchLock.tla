----------------------------- MODULE SwitchLock -----------------------------
(***************************************************************************)
(* The cross-process lock that serialises live switches                    *)
(* (packages/core/src/liveSwitch.ts, acquireSwitchLock, withLiveSwitchLock *)
(* and the stale-lock recovery).  The lock is a directory under CODEX_HOME *)
(* made with mkdir; owner.json inside it names the process that made it.   *)
(*                                                                         *)
(* One action is one file-system call, or a run of calls no other process  *)
(* can tell apart.  Wall-clock time is reduced to what the code compares:  *)
(* the age of the directory is "fresh" (below SWITCH_LOCK_OWNER_GRACE_MS), *)
(* "graced", or "stale" (at least SWITCH_LOCK_STALE_MS), and the ten       *)
(* second acquisition deadline is a number of retries.                     *)
(*                                                                         *)
(* holder and seized are history variables: no action's guard reads        *)
(* seized, and holder only bounds how long a hold may last (Tick).         *)
(***************************************************************************)
EXTENDS Naturals

CONSTANTS
    Procs,        \* processes: editor windows and CLI runs
    NoProc,       \* no owner.json, or an unreadable one
    HostOf,       \* the host name each process runs on
    MaxRetries,   \* failed attempts before the deadline passes
    MaxDepth,     \* nesting of withLiveSwitchLock in one process
    Mortal,       \* processes that may be killed
    LongHolds,    \* TRUE: a live process may keep the lock five minutes
    RemoveFaults  \* TRUE: rmSync of the lock directory may throw

ASSUME ConstantsAssumption ==
    /\ NoProc \notin Procs
    /\ MaxRetries \in Nat
    /\ MaxDepth \in Nat \ {0}
    /\ Mortal \subseteq Procs
    /\ LongHolds \in BOOLEAN
    /\ RemoveFaults \in BOOLEAN

VARIABLES
    present,      \* does the lock directory exist?
    owner,        \* the process its owner.json names, or NoProc
    age,          \* age of the directory
    pc,           \* per process: the call it makes next
    depth,        \* per process: heldSwitchLocks depth
    waited,       \* per process: attempts that failed so far
    seen,         \* per process: the owner it read while judging staleness
    holder,       \* history: who created the directory that is there now
    seized        \* history: processes whose directory another one removed

vars == <<present, owner, age, pc, depth, waited, seen, holder, seized>>

Ages == {"fresh", "graced", "stale"}
Locations == {"idle", "mkdir", "chmod", "write", "held", "release", "remove",
              "readOwner", "judge", "rename", "retry", "dead"}

TypeOK ==
    /\ present \in BOOLEAN
    /\ owner \in Procs \cup {NoProc}
    /\ age \in Ages
    /\ pc \in [Procs -> Locations]
    /\ depth \in [Procs -> 0..MaxDepth]
    /\ waited \in [Procs -> 0..MaxRetries]
    /\ seen \in [Procs -> Procs \cup {NoProc}]
    /\ holder \in Procs \cup {NoProc}
    /\ seized \in SUBSET Procs

\* The process is between creating the directory and removing it.
Busy(p) == pc[p] \in {"chmod", "write", "held", "release", "remove"}

\* The process runs the callback of withLiveSwitchLock.
InSwitch(p) == pc[p] = "held"

Goto(p, l) == pc' = [pc EXCEPT ![p] = l]

\* p removes whatever directory is at the lock path (rmSync with force, or
\* the rename to a quarantine name); a live holder other than p loses it.
TakeAway(p) ==
    /\ present' = FALSE
    /\ owner' = NoProc
    /\ seized' = (seized \ {p}) \cup
                  {q \in Procs \ {p} : present /\ holder = q /\ Busy(q)}
    /\ UNCHANGED <<age, holder>>

KeepDirectory == UNCHANGED <<present, owner, age, holder>>
KeepLocals == UNCHANGED <<depth, waited, seen>>

Init ==
    /\ present = FALSE
    /\ owner = NoProc
    /\ age = "fresh"
    /\ pc = [p \in Procs |-> "idle"]
    /\ depth = [p \in Procs |-> 0]
    /\ waited = [p \in Procs |-> 0]
    /\ seen = [p \in Procs |-> NoProc]
    /\ holder = NoProc
    /\ seized = {}

-----------------------------------------------------------------------------
(* Acquisition *)

\* An outermost withLiveSwitchLock starts to acquire.
Begin(p) ==
    /\ pc[p] = "idle"
    /\ Goto(p, "mkdir")
    /\ waited' = [waited EXCEPT ![p] = 0]
    /\ KeepDirectory
    /\ UNCHANGED <<depth, seen, seized>>

\* mkdirSync either creates the directory or fails with EEXIST.
Mkdir(p) ==
    /\ pc[p] = "mkdir"
    /\ \/ /\ ~present
          /\ present' = TRUE
          /\ owner' = NoProc
          /\ age' = "fresh"
          /\ holder' = p
          /\ Goto(p, "chmod")
       \/ /\ present
          /\ Goto(p, "readOwner")
          /\ KeepDirectory
    /\ KeepLocals
    /\ UNCHANGED seized

\* chmodSync throws ENOENT when the directory has been taken away; the error
\* is not EEXIST, so the whole acquisition throws.
Chmod(p) ==
    /\ pc[p] = "chmod"
    /\ \/ /\ present
          /\ Goto(p, "write")
          /\ UNCHANGED seized
       \/ /\ ~present
          /\ Goto(p, "idle")
          /\ seized' = seized \ {p}
    /\ KeepDirectory
    /\ KeepLocals

\* writeJsonAtomic makes the directory again if it has gone, and replaces
\* owner.json whoever wrote it.
WriteOwner(p) ==
    /\ pc[p] = "write"
    /\ present' = TRUE
    /\ owner' = p
    /\ age' = "fresh"
    /\ holder' = IF present THEN holder ELSE p
    /\ depth' = [depth EXCEPT ![p] = 1]
    /\ Goto(p, "held")
    /\ UNCHANGED <<waited, seen, seized>>

\* chmod or the owner write fails: the directory is removed and the error
\* propagates.
OwnFails(p) ==
    /\ pc[p] \in {"chmod", "write"}
    /\ TakeAway(p)
    /\ Goto(p, "idle")
    /\ KeepLocals

-----------------------------------------------------------------------------
(* Recovery of a lock whose holder is gone *)

ReadOwner(p) ==
    /\ pc[p] = "readOwner"
    /\ seen' = [seen EXCEPT ![p] = IF present THEN owner ELSE NoProc]
    /\ Goto(p, "judge")
    /\ KeepDirectory
    /\ UNCHANGED <<depth, waited, seized>>

\* Seeded fault: only a holder known to be dead makes a lock stale.
IsStaleByPid(p) ==
    /\ present
    /\ age # "fresh"
    /\ seen[p] # NoProc
    /\ HostOf[seen[p]] = HostOf[p]
    /\ pc[seen[p]] = "dead"

\* isStaleSwitchLock: below the grace period never; from five minutes on
\* always; in between when the owner read before ran on this host and is dead.
IsStale(p) ==
    /\ present
    /\ \/ age = "stale"
       \/ /\ age = "graced"
          /\ seen[p] # NoProc
          /\ HostOf[seen[p]] = HostOf[p]
          /\ pc[seen[p]] = "dead"

Judge(p) ==
    /\ pc[p] = "judge"
    /\ Goto(p, IF IsStale(p) THEN "rename" ELSE "retry")
    /\ KeepDirectory
    /\ KeepLocals
    /\ UNCHANGED seized

\* Seeded fault: a recovered lock counts as acquired, without another mkdir.
QuarantineAndOwn(p) ==
    /\ pc[p] = "rename"
    /\ TakeAway(p)
    /\ Goto(p, IF present THEN "chmod" ELSE "retry")
    /\ KeepLocals

\* renameSync to a quarantine name: it moves the directory that is there now,
\* whichever one was judged.  ENOENT counts as "not recovered".
Quarantine(p) ==
    /\ pc[p] = "rename"
    /\ TakeAway(p)
    /\ Goto(p, IF present THEN "mkdir" ELSE "retry")
    /\ KeepLocals

\* Seeded fault: the deadline starts again with every attempt.
RetryAfresh(p) ==
    /\ pc[p] = "retry"
    /\ Goto(p, "mkdir")
    /\ KeepDirectory
    /\ KeepLocals
    /\ UNCHANGED seized

Retry(p) ==
    /\ pc[p] = "retry"
    /\ waited[p] < MaxRetries
    /\ waited' = [waited EXCEPT ![p] = @ + 1]
    /\ Goto(p, "mkdir")
    /\ KeepDirectory
    /\ UNCHANGED <<depth, seen, seized>>

\* The deadline has passed: acquireSwitchLock throws.
TimeOut(p) ==
    /\ pc[p] = "retry"
    /\ waited[p] = MaxRetries
    /\ Goto(p, "idle")
    /\ KeepDirectory
    /\ KeepLocals
    /\ UNCHANGED seized

-----------------------------------------------------------------------------
(* The callback and the release *)

\* A nested withLiveSwitchLock finds the lock held by its own process.
Enter(p) ==
    /\ pc[p] = "held"
    /\ depth[p] < MaxDepth
    /\ depth' = [depth EXCEPT ![p] = @ + 1]
    /\ KeepDirectory
    /\ UNCHANGED <<pc, waited, seen, seized>>

\* A nested callback returns or throws.
Leave(p) ==
    /\ pc[p] = "held"
    /\ depth[p] > 1
    /\ depth' = [depth EXCEPT ![p] = @ - 1]
    /\ KeepDirectory
    /\ UNCHANGED <<pc, waited, seen, seized>>

\* The outermost callback returns or throws.
Finish(p) ==
    /\ pc[p] = "held"
    /\ depth[p] = 1
    /\ depth' = [depth EXCEPT ![p] = 0]
    /\ Goto(p, "release")
    /\ KeepDirectory
    /\ UNCHANGED <<waited, seen, seized>>

\* release() leaves the directory alone unless owner.json has its token.
ReadToken(p) ==
    /\ pc[p] = "release"
    /\ \/ /\ present /\ owner = p
          /\ Goto(p, "remove")
          /\ UNCHANGED seized
       \/ /\ ~(present /\ owner = p)
          /\ Goto(p, "idle")
          /\ seized' = seized \ {p}
    /\ KeepDirectory
    /\ KeepLocals

Remove(p) ==
    /\ pc[p] = "remove"
    /\ TakeAway(p)
    /\ Goto(p, "idle")
    /\ KeepLocals

RemoveFails(p) ==
    /\ RemoveFaults
    /\ pc[p] = "remove"
    /\ Goto(p, "idle")
    /\ seized' = seized \ {p}
    /\ KeepDirectory
    /\ KeepLocals

-----------------------------------------------------------------------------
(* The environment *)

\* A process is killed at any point of the protocol.
Die(p) ==
    /\ p \in Mortal
    /\ pc[p] \notin {"idle", "dead"}
    /\ Goto(p, "dead")
    /\ depth' = [depth EXCEPT ![p] = 0]
    /\ seized' = seized \ {p}
    /\ KeepDirectory
    /\ UNCHANGED <<waited, seen>>

\* Time passes.  The callbacks are synchronous file operations, so a live
\* process does not reach five minutes unless LongHolds (a suspended machine).
Tick ==
    /\ present
    /\ \/ age = "fresh" /\ age' = "graced"
       \/ /\ age = "graced" /\ age' = "stale"
          /\ LongHolds \/ ~(holder \in Procs /\ Busy(holder))
    /\ KeepLocals
    /\ UNCHANGED <<present, owner, pc, holder, seized>>

Acquire(p) ==
    \/ Mkdir(p) \/ Chmod(p) \/ WriteOwner(p) \/ ReadOwner(p) \/ Judge(p)
    \/ Quarantine(p) \/ Retry(p) \/ TimeOut(p)

Release(p) == Finish(p) \/ ReadToken(p) \/ Remove(p)

Step(p) ==
    \/ Begin(p) \/ Acquire(p) \/ OwnFails(p)
    \/ Enter(p) \/ Leave(p) \/ Release(p) \/ RemoveFails(p)
    \/ Die(p)

Next == Tick \/ \E p \in Procs : Step(p)

Spec == Init /\ [][Next]_vars

\* Every process keeps running its own code: the loops of acquireSwitchLock
\* and the callback are synchronous.  Begin is fair because the refresh timers
\* of a running window take the lock again and again.  Finish is strongly fair
\* because a callback nests a few times and then returns.
FairSpec ==
    /\ Spec
    /\ WF_vars(Tick)
    /\ \A p \in Procs :
        /\ WF_vars(Begin(p))
        /\ WF_vars(Acquire(p))
        /\ WF_vars(Release(p) \/ Leave(p))
        /\ SF_vars(Finish(p))

-----------------------------------------------------------------------------
(* Properties *)

\* Two processes never run a switch callback at once (withLiveSwitchLock).
MutualExclusion ==
    \A p, q \in Procs : InSwitch(p) /\ InSwitch(q) => p = q

\* Whatever dies, stalls or fails, a second process gets into a switch only
\* after some process removed the directory of a live holder: apart from the
\* processes robbed that way, at most one is inside (acquireSwitchLock,
\* recoverStaleSwitchLock, release).
ExclusiveUnlessSeized ==
    \A p, q \in Procs :
        InSwitch(p) /\ InSwitch(q) /\ p \notin seized /\ q \notin seized
            => p = q

\* A process that has not been robbed finds its own directory and its own
\* token when it releases: it never leaves its lock behind for the others to
\* wait five minutes for (release in acquireSwitchLock).
ReleasesItsOwnLock ==
    [][\A p \in Procs :
        pc[p] = "release" /\ pc'[p] = "idle" => p \in seized]_vars

\* The lock is not held by a process that can no longer release it.
Abandoned == present /\ holder \in Procs /\ pc[holder] = "dead"

\* A lock whose holder died is taken over in the end, also when it died
\* before it wrote owner.json, and also when it ran on another host
\* (recoverStaleSwitchLock, SWITCH_LOCK_STALE_MS).
AbandonedLockIsRecovered == Abandoned ~> ~Abandoned

\* acquireSwitchLock never spins on a lock that is held: the caller gets the
\* lock, an error or a stale lock to recover, unless it is killed.  (After a
\* recovery the code tries again without comparing its deadline.)
AcquireSettles ==
    \A p \in Procs :
        pc[p] = "mkdir" ~> pc[p] \in {"held", "idle", "dead", "rename"}
=============================================================================
