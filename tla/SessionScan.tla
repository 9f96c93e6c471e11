---------------------------- MODULE SessionScan ----------------------------
(***************************************************************************)
(* How the usage index reads one rollout file of Codex (tokenUsage.ts):     *)
(* the file grows while it is read, and is read further from where the      *)
(* last reading ended, from its beginning, or from its end.                 *)
(*                                                                         *)
(* A file is a sequence of lines: session metadata, and token counts with   *)
(* a running total and, from newer versions of Codex, the tokens of the     *)
(* request.  A line may be half written.  The five counters of a count are  *)
(* one number here: they are added and subtracted in the same places.       *)
(***************************************************************************)
EXTENDS Integers, Sequences, SequencesExt

CONSTANTS
    None,
    InitializedAt,   \* when the index was first built
    MaxTime,         \* bound on the time
    MaxUse,          \* bound on the tokens of one request
    MaxLines,        \* bound on the length of the file
    MaxRewrites,     \* bound on how often the history repair rewrites it
    Habits           \* what Codex does: see the writers

ASSUME ScanAssumption ==
    /\ MaxTime \in Nat /\ InitializedAt \in 1..MaxTime
    /\ None \notin Nat /\ None \notin [meta : {TRUE}, thread : {0, 1}, at : 1..MaxTime]
    /\ MaxUse \in Nat /\ MaxLines \in Nat /\ MaxRewrites \in Nat
    /\ Habits \subseteq {"bare", "repeat", "reset", "fork", "undated"}

VARIABLES
    file,      \* the complete lines
    tail,      \* the line being written, or None
    moved,     \* how often the bytes have been moved by a rewrite
    now,       \* the time
    names,     \* whether this Codex names the tokens of a request
    record,    \* the SessionUsageRecord, or None
    size,      \* of a scan: the fingerprint it reads up to, or None
    attempt,   \*   its attempts so far
    checkpoint \*   the record it continues, or None

disk == <<file, tail, moved, now, names>>
scan == <<size, attempt, checkpoint>>
vars == <<disk, record, scan>>

Times == 1..MaxTime
Moments == Times \cup {None}
Increments == [Moments -> Nat]        \* increments: tokens per moment
NoIncrements == [t \in Moments |-> 0]

\* thread 1 is the file's own session, 0 the one it was forked from.
Meta(thread, at) == [meta |-> TRUE, thread |-> thread, at |-> at]
Count(total, last, at) == [meta |-> FALSE, total |-> total, last |-> last, at |-> at]

\* A fingerprint: bytes moved, complete lines, a line begun.
Fingerprint == <<moved, Len(file), tail # None>>
Bytes(f) == 2 * f[2] + (IF f[3] THEN 1 ELSE 0) + f[1]

\* What a reading up to a fingerprint finds: the complete lines, and at the end
\* of the file perhaps a line without its newline.
Lines(f) == SubSeq(file, 1, f[2])
BegunLine(f) == IF f[3] THEN (IF f[2] = Len(file) THEN {None, tail}
                              ELSE {None, file[f[2] + 1]})
                ELSE {None}

-----------------------------------------------------------------------------
(* The readings. *)

HasTokens(n) == n > 0
subtractInherited(n, baseline) == IF n < baseline THEN n ELSE n - baseline

Blank == [thread |-> None, startedAt |-> None, observedAt |-> None,
          baseline |-> 0, lastCumulative |-> 0, historical |-> 0,
          increments |-> NoIncrements, tokens |-> 0, tracked |-> FALSE]

\* A new session starts counting where the inherited one ends.
StartSession(s, m) ==
    [thread |-> m.thread, startedAt |-> m.at, observedAt |-> m.at,
     baseline |-> s.lastCumulative, lastCumulative |-> s.lastCumulative, historical |-> 0,
     increments |-> NoIncrements, tokens |-> 0, tracked |-> m.at >= InitializedAt]

\* recordIncrement: before the index was built, usage has no owner in its timeline.
Attribute(s, delta, at) ==
    IF ~HasTokens(delta) THEN s
    ELSE IF (at # None /\ at < InitializedAt)
            \/ (at = None /\ s.startedAt < InitializedAt)
         THEN [s EXCEPT !.historical = @ + delta]
         ELSE [s EXCEPT !.increments[at] = @ + delta, !.tracked = TRUE]

Observe(s, at) == IF at = None THEN s ELSE [s EXCEPT !.observedAt = at]

\* A count with the tokens of its request.
CountRequest(s, c, duplicate) ==
    LET delta == IF duplicate THEN 0 ELSE c.last
    IN  Attribute(Observe([s EXCEPT !.lastCumulative = c.total, !.tokens = @ + delta],
                          c.at), delta, c.at)

\* Seeded fault: a total that starts afresh leaves the increments before it.
CountOnTop(s, c) ==
    LET restart == c.total < s.lastCumulative
    IN  Attribute(Observe([s EXCEPT !.lastCumulative = c.total,
                             !.baseline = IF restart THEN 0 ELSE @,
                             !.tokens = subtractInherited(c.total,
                                            IF restart THEN 0 ELSE s.baseline)],
                          c.at),
                  IF restart THEN c.total ELSE c.total - s.lastCumulative, c.at)

\* A count without: the total is compared with the one before, and a smaller one
\* starts afresh.
CountTotal(s, c) ==
    LET restart == c.total < s.lastCumulative
        delta == IF restart THEN c.total ELSE c.total - s.lastCumulative
        fresh == IF restart
                 THEN [s EXCEPT !.baseline = 0, !.historical = 0, !.increments = NoIncrements]
                 ELSE s
    IN  Attribute(Observe([fresh EXCEPT !.lastCumulative = c.total,
                             !.tokens = subtractInherited(c.total, fresh.baseline)],
                          c.at), delta, c.at)

\* forwardScanSession; request: the total of the last count that named its
\* request, or None.
ForwardLine(r, l) ==
    LET s == r.state
    IN  IF l.meta THEN [state |-> StartSession(s, l), request |-> None, saw |-> FALSE]
        ELSE IF s.thread = None
             THEN [r EXCEPT !.state.lastCumulative = l.total]
        ELSE IF l.last # None
             THEN [state |-> CountRequest(s, l, l.total = r.request),
                   request |-> l.total, saw |-> TRUE]
        ELSE [r EXCEPT !.state = CountTotal(s, l), !.saw = TRUE]

Forward(lines) ==
    LET upTo[n \in 0..Len(lines)] ==
          IF n = 0 THEN [state |-> Blank, request |-> None, saw |-> FALSE]
          ELSE ForwardLine(upTo[n - 1], lines[n])
        r == upTo[Len(lines)]
    IN  IF r.state.thread = None \/ (~r.saw /\ r.state.lastCumulative = 0) THEN None
        ELSE r.state

\* appendSessionUsage; force: the first request of a session is no repetition.
AppendLine(r, l) ==
    LET s == r.state
    IN  IF l.meta THEN [state |-> StartSession(s, l), force |-> TRUE]
        ELSE IF l.last # None
             THEN [state |-> CountRequest(s, l, ~r.force /\ l.total = s.lastCumulative),
                   force |-> FALSE]
        ELSE [r EXCEPT !.state = CountTotal(s, l)]

ReadOn(state, lines) ==
    LET upTo[n \in 0..Len(lines)] ==
          IF n = 0 THEN [state |-> state, force |-> FALSE]
          ELSE AppendLine(upTo[n - 1], lines[n])
    IN  upTo[Len(lines)].state

\* The places of the counts and of the metadata.
Counts(lines) == {i \in 1..Len(lines) : ~lines[i].meta}
Metas(lines) == {i \in 1..Len(lines) : lines[i].meta}

\* Seeded fault: the totals' difference, which leaves the first request out.
HistoricalDifference(first, final, baseline) ==
    IF first # None /\ final.total >= first.total THEN final.total - first.total
    ELSE subtractInherited(final.total, baseline)

\* historicalTokenTotal
HistoricalTotal(first, final, baseline) ==
    IF first # None /\ first.last # None /\ final.last # None
       /\ final.total >= first.total
    THEN final.total - first.total + first.last
    ELSE subtractInherited(final.total, baseline)

\* reverseScanHistoricalSession: a file of its own session needs its first and its
\* last count; one that was forked, its last session and the count before that.
Backward(lines, own) ==
    LET counts == Counts(lines)
        metas == Metas(lines)
        final == lines[Max(counts)]
        meta == lines[IF own THEN Min(metas) ELSE Max(metas)]
        before == {i \in counts : i < Max(metas)}
        baseline == IF own \/ before = {} THEN 0 ELSE lines[Max(before)].total
        first == IF own THEN lines[Min(counts)] ELSE None
        total == HistoricalTotal(first, final, baseline)
    IN  IF counts = {} \/ metas = {} THEN None
        ELSE IF own /\ first.last # None /\ final.last # None /\ final.total < first.total
             THEN Forward(lines)
        ELSE [thread |-> meta.thread, startedAt |-> meta.at,
              observedAt |-> IF final.at = None THEN meta.at ELSE final.at,
              baseline |-> baseline, lastCumulative |-> final.total, historical |-> total,
              increments |-> NoIncrements, tokens |-> total, tracked |-> FALSE]

\* readHeadSessionInfo
HeadMeta(lines) == IF Metas(lines) = {} THEN None ELSE lines[Min(Metas(lines))]

\* bootstrapSessionUsage; begun: a line without its newline that can be read, which
\* only the reading from the end looks at.
Bootstrap(lines, begun, tracked) ==
    LET all == IF begun = None THEN lines ELSE Append(lines, begun)
        head == HeadMeta(all)
        historical == Backward(all, head # None /\ head.thread = 1)
    IN  IF head # None /\ (head.at >= InitializedAt \/ tracked) THEN Forward(lines)
        ELSE IF historical # None /\ historical.observedAt >= InitializedAt
             THEN Forward(lines)
        ELSE historical

-----------------------------------------------------------------------------
(* scanSessionFile *)

Idle == size = None
Rest == size' = None /\ attempt' = 0 /\ checkpoint' = None

\* scanAndAggregate reads what is new or has another fingerprint.
Changed == record # None => record.size # Fingerprint

\* discoverSessionFiles
Discover ==
    /\ Idle /\ now >= InitializedAt
    /\ Changed
    /\ size' = Fingerprint /\ attempt' = 1 /\ checkpoint' = record
    /\ UNCHANGED <<disk, record>>

\* Seeded fault: the bytes before the offset are not compared; after a rewrite the
\* reading goes on inside the next line.
ResultUnguarded(lines, begun) ==
    LET c == checkpoint
    IN  IF c # None /\ Bytes(size) > Bytes(c.size)
        THEN ReadOn(c.state, SubSeq(lines, c.offset + (IF c.moved = moved THEN 1 ELSE 2),
                                    Len(lines)))
        ELSE Bootstrap(lines, begun, c # None /\ c.state.tracked)

\* appendGuardMatches: the bytes before the offset are still the same.
GuardMatches(c, lines) == c.moved = moved /\ c.offset <= Len(lines)

\* scanSessionVersion: the record is continued if the file has only grown.
Result(lines, begun) ==
    LET c == checkpoint
    IN  IF c # None /\ Bytes(size) > Bytes(c.size) /\ GuardMatches(c, lines)
        THEN ReadOn(c.state, SubSeq(lines, c.offset + 1, Len(lines)))
        ELSE Bootstrap(lines, begun, c # None /\ c.state.tracked)

\* Seeded fault: a file that keeps changing is read again and again.
SettledAtLast == Fingerprint = size

Settled == Fingerprint = size \/ attempt = 3

\* Only what the file held when its size was taken is read; a rewrite since then
\* has moved bytes across that end.  A file that changed is read again, three times
\* at most.
Scan ==
    /\ ~Idle
    /\ \E read \in {n \in {size[2], size[2] - 1} : n >= 0 /\ (size[1] = moved => n = size[2])},
          begun \in IF size[1] = moved THEN BegunLine(size) ELSE {None} :
          LET state == Result(SubSeq(file, 1, read), begun)
              result == IF state = None THEN None
                        ELSE [state |-> state, size |-> size, offset |-> read,
                              moved |-> moved]
          IN  IF Settled
              THEN record' = result /\ Rest
              ELSE /\ size' = Fingerprint /\ attempt' = attempt + 1
                   /\ checkpoint' = IF result = None THEN checkpoint ELSE result
                   /\ UNCHANGED record
    /\ UNCHANGED disk

\* The file cannot be read: the record stays.
ScanFails ==
    /\ ~Idle
    /\ Rest
    /\ UNCHANGED <<disk, record>>

-----------------------------------------------------------------------------
(* Codex and the history repair, which write the file. *)

Written == IF tail = None THEN file ELSE Append(file, tail)
Total == IF Counts(Written) = {} THEN 0 ELSE Written[Max(Counts(Written))].total
Stamp == IF "undated" \in Habits THEN {now, None} ELSE {now}

Begin(l) ==
    /\ tail = None /\ Len(file) < MaxLines
    /\ tail' = l
    /\ UNCHANGED <<file, moved, now, names, record, scan>>

Named(use) == IF names THEN use ELSE None

Request ==
    /\ file # <<>>
    /\ \E use \in 1..MaxUse, at \in Stamp : Begin(Count(Total + use, Named(use), at))

\* The last count once more.
Repeat ==
    /\ "repeat" \in Habits /\ file # <<>> /\ ~Last(file).meta
    /\ Begin([Last(file) EXCEPT !.at = now])

\* The running total starts afresh.
Reset ==
    /\ Total > 0
    /\ Head(file).at < InitializedAt /\ (names \/ Head(file).thread = 0)
          => "reset" \in Habits
    /\ \E use \in 1..MaxUse : Begin(Count(use, Named(use), now))

\* The history of another session ends and the file's own begins.
Fork ==
    /\ file # <<>> /\ Metas(file) = {1} /\ Head(file).thread = 0
    /\ Begin(Meta(1, now))

EndLine ==
    /\ tail # None
    /\ file' = Append(file, tail) /\ tail' = None
    /\ UNCHANGED <<moved, now, names, record, scan>>

Tick ==
    /\ now < MaxTime
    /\ now' = now + 1
    /\ UNCHANGED <<file, tail, moved, names, record, scan>>

\* The repair of the history changes the provider in the first line.
Rewrite ==
    /\ moved < MaxRewrites /\ file # <<>> /\ tail = None
    /\ moved' = moved + 1
    /\ UNCHANGED <<file, tail, now, names, record, scan>>

-----------------------------------------------------------------------------

Init ==
    /\ file = <<>> /\ moved = 0 /\ now = 1
    /\ tail \in {Meta(1, 1)} \cup (IF "fork" \in Habits THEN {Meta(0, 1)} ELSE {})
    /\ names \in IF "bare" \in Habits THEN BOOLEAN ELSE {TRUE}
    /\ record = None
    /\ size = None /\ attempt = 0 /\ checkpoint = None

Next ==
    \/ Discover \/ Scan \/ ScanFails
    \/ Request \/ Repeat \/ Reset \/ Fork \/ EndLine \/ Tick \/ Rewrite

Spec == Init /\ [][Next]_vars

-----------------------------------------------------------------------------

TypeOK ==
    /\ tail = None \/ tail.meta \/ tail.total \in Nat
    /\ moved \in 0..MaxRewrites /\ now \in Times /\ attempt \in 0..3
    /\ \A r \in {record, checkpoint} \ {None} :
          /\ DOMAIN r.state = DOMAIN Blank /\ r.state.thread \in {0, 1}
          /\ r.state.historical \in Nat /\ r.state.tokens \in Nat
          /\ \A t \in Moments : r.state.increments[t] \in Nat
          /\ r.offset \in 0..Len(file)

\* rebuildSnapshot: what is attributed of a session.
Allocated(s) ==
    LET upTo[t \in 0..MaxTime] ==
          IF t = 0 THEN s.increments[None] ELSE upTo[t - 1] + s.increments[t]
    IN  s.historical + upTo[MaxTime]

Covered == record # None /\ record.size = Fingerprint

Counted(s) == <<s.thread, s.historical, s.increments, s.tokens>>

\* A file that was read piece by piece, while it grew and after it was rewritten,
\* counts as if it were read at once (appendSessionUsage, bootstrapSessionUsage).
AsReadAtOnce ==
    Idle /\ Covered /\ tail = None => Counted(record.state) = Counted(Forward(file))

\* What is attributed adds up to the total that is shown: nothing of a session is
\* left over, or given out twice (rebuildSnapshot).
Conserved == record # None => Allocated(record.state) = record.state.tokens

\* The tokens of the requests since the last metadata: a count that repeats the total
\* of the one before it is the same request.
Requests ==
    LET upTo[n \in 0..Len(file)] ==
          IF n = 0 \/ file[n].meta THEN 0
          ELSE IF ~file[n - 1].meta /\ file[n - 1].total = file[n].total THEN upTo[n - 1]
          ELSE upTo[n - 1] + file[n].last
    IN  upTo[Len(file)]

\* Every request is counted once (meaningfulRequestTokens).
EveryRequestOnce ==
    Idle /\ Covered /\ tail = None /\ names =>
        record.state.tokens = Requests
=============================================================================
