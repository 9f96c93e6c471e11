--------------------------- MODULE UsageTimeline ---------------------------
(***************************************************************************)
(* Whose the indexed tokens are (tokenUsage.ts): every window keeps a       *)
(* timeline of what was selected, follows renames and removals of the saved *)
(* entries, and merges all of it with what the other windows have stored.   *)
(*                                                                         *)
(* A window may record a name it read before another one renamed or removed *)
(* the entry.  Changing an entry and following the change are one step, and *)
(* no two operations fall into the same millisecond.  The store answers     *)
(* with what was written last, and no persist fails.                        *)
(***************************************************************************)
EXTENDS Integers, FiniteSets, FiniteSetsExt, SequencesExt

CONSTANTS
    None,
    Windows,     \* VS Code windows
    People,      \* saved entries, whatever they are called
    Names,       \* the subject ids of their names
    RetiredIds,  \* the ids given to removed entries: bounds how many are removed
    Persists,    \* numbers: the persists a window may have under way
    Gap,         \* inactiveGapMs
    MaxTime,     \* bound on the time
    Ops,         \* "rename", "remove", "both" to one entry, "restart", and "forget":
                 \* a window records a name it has itself renamed or has not seen since
    Reuse        \* whether a name may be taken again

ASSUME TimelineAssumption ==
    /\ Gap \in Nat /\ MaxTime \in Nat \ {0} /\ Persists \subseteq Nat
    /\ IsFiniteSet(Names) /\ IsFiniteSet(RetiredIds)
    /\ Names \cap RetiredIds = {} /\ None \notin Names \cup RetiredIds
    /\ None \notin People /\ None \notin Windows \X Persists /\ People \cap Names = {}
    /\ None \notin [to : Names, at : Nat]
    /\ None \notin [subject : Names \cup RetiredIds, until : Int]
    /\ Ops \subseteq {"rename", "remove", "both", "restart", "forget"} /\ Reuse \in BOOLEAN

VARIABLES
    mem,     \* mem[w]: the timeline, remap decisions and retirements of window w
    known,   \* knownSubjects of the windows
    job,     \* job[w][i]: a persist of the window
    lock,    \* the owner of the process lock, or None
    store,   \* the state in the memento
    now,
    id,      \* the subject id of every entry, None before it is added
    had,     \* history: the last entry that had a name
    owner,   \* history: for whom an interval was begun, a name if its entry was gone
    extended \* history: the recordings that extended the interval begun at `since`

entries == <<now, id, had, owner, extended>>
vars == <<mem, known, job, lock, store, entries>>

Ids == Names \cup RetiredIds
Times == 1..MaxTime
Jobs == Windows \X Persists
NoJob == [pc |-> "idle", local |-> <<>>, merged |-> None]
NoIntervals == [t \in {} |-> None]
Empty == [timeline |-> NoIntervals, decisions |-> [i \in Ids |-> None], retirements |-> {}]

Named == {p \in People : id[p] \in Names}
Taken == {id[p] : p \in Named}

-----------------------------------------------------------------------------
(* Remap decisions. *)

\* activeRemaps, and the walk of resolveMappedId, which ends at an id it has seen.
Remaps(s) == [i \in Ids |-> IF s.decisions[i] = None THEN None ELSE s.decisions[i].to]

Hop(remaps, walk) ==
    IF remaps[walk.at] = None \/ walk.at \in walk.seen THEN walk
    ELSE [at |-> remaps[walk.at], seen |-> walk.seen \cup {walk.at}]

resolveMappedId(i, remaps) ==
    LET walk[n \in 0..Cardinality(Ids) + 1] ==
          IF n = 0 THEN [at |-> i, seen |-> {}] ELSE Hop(remaps, walk[n - 1])
    IN  IF i = None THEN None ELSE walk[Cardinality(Ids) + 1].at

Resolve(s, i) == resolveMappedId(i, Remaps(s))
Resolved(s) == [t \in DOMAIN s.timeline |->
                   [s.timeline[t] EXCEPT !.subject = Resolve(s, @)]]

\* findSelectionInterval: the last one that began by then, unless it has ended;
\* the end of an unknown interval decides nothing.
IntervalAt(s, time) ==
    LET begun == {t \in DOMAIN s.timeline : t <= time}
        last == s.timeline[Max(begun)]
    IN  IF begun = {} \/ (last.subject # None /\ time > last.until) THEN None ELSE last

\* subjectAt: whose tokens used at a time are.
SubjectAt(s, time) ==
    LET interval == IntervalAt(s, time)
    IN  IF interval = None \/ interval.subject = None THEN None
        ELSE Resolve(s, interval.subject)

DecidedAt(s, i) == IF s.decisions[i] = None THEN 0 ELSE s.decisions[i].at
LastDecision(s) == Max({DecidedAt(s, i) : i \in Ids})

\* Seeded fault: a rename changes the window's timeline and is not remembered.
DecideNothing(s, from, to) == s

\* setRemapDecision
Decide(s, from, to) ==
    [s EXCEPT !.decisions[from] = [to |-> to, at |-> Max({now, LastDecision(s) + 1})]]

\* materializeActiveRemaps, and the release of an alias that is a subject again.
ReleaseAlias(s, i) ==
    IF Remaps(s)[i] = None THEN s
    ELSE Decide([s EXCEPT !.timeline = Resolved(s)], i, None)

\* The aliases of `to`, or all if that is None, are released one after the other: what
\* an alias stands for may change with every one that is released before it.
Release(s, i, to) ==
    IF Remaps(s)[i] # None /\ to \in {None, Resolve(s, i)} THEN Decide(s, i, None) ELSE s

Released(s, ids, to) ==
    LET order == SetToSeq(ids)
        upTo[n \in 0..Cardinality(ids)] ==
          IF n = 0 THEN s ELSE Release(upTo[n - 1], order[n], to)
    IN  upTo[Cardinality(ids)]

\* rememberSubject
Remember(w, s, i) == IF i \in known[w] THEN s ELSE ReleaseAlias(s, i)

-----------------------------------------------------------------------------
(* mergePersistedStates *)

preferRemapDecision(candidate, previous) ==
    previous = None \/ (candidate # None /\ candidate.at > previous.at)

\* Seeded fault: what was selected is not gone through again.
ReplayAliases(s, r) ==
    LET remaps == Remaps(s)
    IN  [s EXCEPT !.decisions = [i \in Ids |->
            IF remaps[i] # None /\ resolveMappedId(i, remaps) = r.from /\ @[i].at <= r.at
            THEN [to |-> None, at |-> r.at] ELSE @[i]]]

\* One retirement, on the timeline and on the aliases of what was retired.
Replay(s, r) ==
    LET remaps == Remaps(s)
        Was(i) == resolveMappedId(i, remaps) = r.from
    IN  [s EXCEPT
           !.timeline = [t \in DOMAIN @ |->
                            IF t <= r.at /\ Was(@[t].subject)
                            THEN [@[t] EXCEPT !.subject = r.to] ELSE @[t]],
           !.decisions = [i \in Ids |->
                            IF remaps[i] # None /\ Was(i) /\ @[i].at <= r.at
                            THEN [to |-> None, at |-> r.at] ELSE @[i]]]

\* All of them, in the order of time; no two are of one time.
Replayed(s) ==
    LET upTo[time \in 0..MaxTime] ==
          LET at == {r \in s.retirements : r.at = time}
          IN  IF time = 0 THEN s
              ELSE IF at = {} THEN upTo[time - 1]
              ELSE Replay(upTo[time - 1], CHOOSE r \in at : TRUE)
    IN  upTo[MaxTime]

\* compactUnknownIntervals; the end of an unknown interval decides nothing.
Compact(timeline) ==
    LET Before(t) == {u \in DOMAIN timeline : u < t}
        kept == {t \in DOMAIN timeline :
                    \/ timeline[t].subject # None
                    \/ Before(t) = {}
                    \/ timeline[Max(Before(t))].subject # None}
    IN  [t \in kept |-> timeline[t]]

Merge(remote, local) ==
    LET joined ==
          [timeline |-> [t \in DOMAIN remote.timeline \cup DOMAIN local.timeline |->
                            IF t \in DOMAIN local.timeline THEN local.timeline[t]
                            ELSE remote.timeline[t]],
           decisions |-> [i \in Ids |->
                            IF preferRemapDecision(local.decisions[i], remote.decisions[i])
                            THEN local.decisions[i] ELSE remote.decisions[i]],
           retirements |-> remote.retirements \cup local.retirements]
    IN  [Replayed([joined EXCEPT !.timeline = Resolved(joined)]) EXCEPT
            !.timeline = Compact(@)]

-----------------------------------------------------------------------------
(* persist *)

\* What a persist captured: the objects of the window, or what they were when
\* another persist of the window replaced them.
Local(w, i) == IF job[w][i].local = <<>> THEN mem[w] ELSE Head(job[w][i].local)

\* The operations change the memory at once, then persist it.
Persist(w, s) ==
    /\ LET free == {i \in Persists : job[w][i].pc = "idle"}
       IN  /\ free # {}
           /\ job' = [job EXCEPT ![w][Min(free)].pc = "wait"]
    /\ mem' = [mem EXCEPT ![w] = s]
    /\ UNCHANGED <<lock, store>>

\* Seeded fault: the lock of another persist is no obstacle.
AcquireAnyway(w, i) ==
    /\ job[w][i].pc = "wait"
    /\ lock' = <<w, i>>
    /\ job' = [job EXCEPT ![w][i].pc = "write", ![w][i].merged = Merge(store, Local(w, i))]
    /\ UNCHANGED <<mem, known, store, entries>>

Acquire(w, i) ==
    /\ job[w][i].pc = "wait" /\ lock = None
    /\ lock' = <<w, i>>
    /\ job' = [job EXCEPT ![w][i].pc = "write", ![w][i].merged = Merge(store, Local(w, i))]
    /\ UNCHANGED <<mem, known, store, entries>>

Write(w, i) ==
    /\ job[w][i].pc = "write"
    /\ store' = job[w][i].merged
    /\ job' = [job EXCEPT ![w][i].pc = "adopt"]
    /\ UNCHANGED <<mem, known, lock, entries>>

\* The lock is released, and the merged state takes the place of the window's
\* objects, which other persists may have captured.
Adopt(w, i) ==
    /\ job[w][i].pc = "adopt"
    /\ lock' = None
    /\ mem' = [mem EXCEPT ![w] = job[w][i].merged]
    /\ job' = [job EXCEPT ![w] = [j \in Persists |->
                  IF j = i THEN NoJob
                  ELSE IF @[j].pc = "wait" THEN [@[j] EXCEPT !.local = <<Local(w, j)>>]
                  ELSE @[j]]]
    /\ UNCHANGED <<known, store, entries>>

-----------------------------------------------------------------------------
(* The operations. *)

Later == now + 2 <= MaxTime /\ now' = now + 2

\* A name that no entry has, and that none has had before.
Free(n) == n \notin Taken /\ (Reuse \/ had[n] = None)

\* An entry is added; the index learns of it when it is selected.
Add(p) ==
    /\ id[p] = None
    /\ \E n \in Names :
          /\ Free(n)
          /\ id' = [id EXCEPT ![p] = n] /\ had' = [had EXCEPT ![n] = p]
    /\ UNCHANGED <<mem, known, job, lock, store, now, owner, extended>>

Put(f, time, value) ==
    [t \in DOMAIN f \cup {time} |-> IF t = time THEN value ELSE f[t]]

\* A selection that goes on extends its interval.
Extends(s, i) ==
    LET last == Max(DOMAIN s.timeline)
    IN  /\ s.timeline # NoIntervals
        /\ s.timeline[last].subject = i
        /\ i # None => now <= s.timeline[last].until

Recorded(s, i) ==
    LET until == IF i = None THEN None ELSE now + Gap
    IN  IF Extends(s, i)
        THEN [s EXCEPT !.timeline[Max(DOMAIN s.timeline)].until = until]
        ELSE [s EXCEPT !.timeline = Put(@, now, [subject |-> i, until |-> until])]

\* For whom a name is recorded: its entry, or the name alone when that is removed.
RecordedFor(i) == IF id[had[i]] \in RetiredIds THEN i ELSE had[i]

\* A name that is an alias in the window, and that it does not know any more, would be a
\* name of its own again: rememberSubject undoes the rename.
Readable(w) ==
    {n \in Names : had[n] # None /\ (n \in known[w] \/ Remaps(mem[w])[n] = None \/ "forget" \in Ops)}

\* recordSelection: the selection was read when its entry had the name, and is recorded
\* when those before it are (selectionTail).
Record(w) ==
    \E i \in Readable(w) \cup {None} :
       LET s == IF i = None THEN mem[w] ELSE Remember(w, mem[w], i)
           subject == Resolve(s, i)
       IN  /\ Persist(w, Recorded(s, subject))
           /\ known' = [known EXCEPT ![w] = @ \cup ({subject} \ {None})]
           /\ IF i = None THEN UNCHANGED <<owner, extended>>
              ELSE IF Extends(s, subject)
              THEN /\ extended' = Put(extended, now,
                                      [for |-> had[i], since |-> Max(DOMAIN s.timeline)])
                   /\ UNCHANGED owner
              ELSE owner' = Put(owner, now, RecordedFor(i)) /\ UNCHANGED extended
           /\ Later
           /\ UNCHANGED <<id, had>>

\* remapSubject
Remapped(w, s, old, new) ==
    LET from == Resolve(s, old)
        released == Remember(w, ReleaseAlias(s, new), new)
        to == Resolve(released, new)
        moved == [released EXCEPT !.timeline = [t \in DOMAIN @ |->
                     IF Resolve(released, @[t].subject) = from
                     THEN [@[t] EXCEPT !.subject = to] ELSE @[t]]]
    IN  IF from = to THEN released ELSE Decide(moved, from, to)

Rename(w, p) ==
    /\ "rename" \in Ops /\ p \in Named
    /\ \E n \in Names :
          /\ Free(n)
          /\ Persist(w, Remapped(w, mem[w], id[p], n))
          /\ known' = [known EXCEPT ![w] = (@ \ {Resolve(mem[w], id[p])}) \cup {n}]
          /\ id' = [id EXCEPT ![p] = n] /\ had' = [had EXCEPT ![n] = p]
    /\ Later
    /\ UNCHANGED <<owner, extended>>

\* retireSubject
Retired(s, from, to) ==
    LET moved == [s EXCEPT
                    !.timeline = [t \in DOMAIN @ |->
                       IF Resolve(s, @[t].subject) = from THEN [@[t] EXCEPT !.subject = to]
                       ELSE @[t]],
                    !.retirements = @ \cup {[from |-> from, to |-> to, at |-> now]}]
    IN  Released(moved, {i \in Ids : Remaps(s)[i] # None}, from)

Retire(w, p) ==
    /\ "remove" \in Ops /\ p \in Named
    /\ "both" \in Ops \/ Cardinality({n \in Names : had[n] = p}) = 1
    /\ LET from == Resolve(mem[w], id[p])
           fresh == {i \in RetiredIds : \A q \in People : id[q] # i}
           to == CHOOSE i \in fresh : TRUE
       IN  /\ fresh # {}
           /\ Persist(w, Retired(mem[w], from, to))
           /\ known' = [known EXCEPT ![w] = (@ \ {from}) \cup {to}]
           /\ id' = [id EXCEPT ![p] = to]
    /\ Later
    /\ UNCHANGED <<owner, extended, had>>

\* A window that has nothing to persist ends, and one starts: readPersistedState and
\* the release of the aliases that are names again.
Restart(w) ==
    /\ "restart" \in Ops /\ \A i \in Persists : job[w][i].pc = "idle"
    /\ LET loaded == [store EXCEPT !.timeline =
                          IF \E i \in Taken : Remaps(store)[i] # None THEN Resolved(store) ELSE @]
       IN  mem' = [mem EXCEPT ![w] = Released(loaded, Taken, None)]
    /\ known' = [known EXCEPT ![w] = Taken]
    /\ Later
    /\ UNCHANGED <<job, lock, store, id, had, owner, extended>>

-----------------------------------------------------------------------------

\* One entry is there from the start; every window has loaded the empty index.
Init ==
    /\ mem = [w \in Windows |-> Empty] /\ store = Empty
    /\ job = [w \in Windows |-> [i \in Persists |-> NoJob]] /\ lock = None
    /\ now = 1
    /\ \E p \in People, n \in Names :
          /\ id = [q \in People |-> IF q = p THEN n ELSE None]
          /\ had = [m \in Names |-> IF m = n THEN p ELSE None]
          /\ known = [w \in Windows |-> {n}]
    /\ owner = NoIntervals /\ extended = NoIntervals

Next ==
    \/ \E p \in People : Add(p)
    \/ \E w \in Windows :
          \/ Record(w) \/ Restart(w)
          \/ \E p \in People : Rename(w, p) \/ Retire(w, p)
          \/ \E i \in Persists :
                Acquire(w, i) \/ Write(w, i) \/ Adopt(w, i)

Spec == Init /\ [][Next]_vars

-----------------------------------------------------------------------------

States == {store} \cup Range(mem)
Waiting == {q \in Jobs : job[q[1]][q[2]].pc # "idle"}

TypeOK ==
    /\ \A s \in States : /\ DOMAIN s.timeline \subseteq Times
                          /\ \A t \in DOMAIN s.timeline : s.timeline[t].subject \in Ids \cup {None}
                          /\ \A i \in Ids : s.decisions[i] # None => s.decisions[i].to \in Ids \cup {None}
    /\ lock \in Jobs \cup {None} /\ now \in Times

\* Whoever else persists meanwhile, a selection that was recorded is in the store, or
\* a persist that is under way still holds it (persist, mergePersistedStates).
NothingLost ==
    \A t \in DOMAIN owner :
       \/ t \in DOMAIN store.timeline
       \/ \E q \in Waiting :
             LET j == job[q[1]][q[2]]
             IN  t \in DOMAIN (IF j.pc = "wait" THEN Local(q[1], q[2]) ELSE j.merged).timeline

Whose(o) == IF o \in Names THEN o ELSE id[o]
EntryOf(o) == IF o \in Names THEN had[o] ELSE o

\* When no persist is under way, the store gives what was used when an interval was
\* begun to the entry it was begun for, whatever that is called now, to what was removed
\* with it, or to its name when that was recorded after the removal; and what was used
\* later to no entry selected before or after.  A recording that extends an interval
\* extends one of its own entry, also when the window has not heard of the selections
\* since, and unless there are any what was used then goes to nobody else.
Attributed ==
    Waiting = {} =>
       /\ \A t \in DOMAIN owner, time \in Times :
             /\ SubjectAt(store, t) = Whose(owner[t])
             /\ t <= time /\ (\A u \in DOMAIN owner : u \in t..time => u = t)
                   => SubjectAt(store, time) \in {None, Whose(owner[t])}
       /\ \A time \in DOMAIN extended :
             LET since == extended[time].since
             IN  /\ since \in DOMAIN owner /\ EntryOf(owner[since]) = extended[time].for
                 /\ (\A u \in DOMAIN owner : u \in since..time => u = since)
                       => SubjectAt(store, time) \in {None, Whose(owner[since])}

\* What belongs to a removed entry stays its own, whatever a window that has not
\* heard of it stores (mergePersistedStates).
RetiredStays ==
    [][\A t \in DOMAIN store.timeline :
          store.timeline[t].subject \in RetiredIds =>
             /\ t \in DOMAIN store'.timeline
             /\ store'.timeline[t].subject = store.timeline[t].subject]_store
=============================================================================
