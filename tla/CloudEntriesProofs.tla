-------------------------- MODULE CloudEntriesProofs --------------------------
(***************************************************************************)
(* Proofs about CloudEntries for any devices, tasks, names, people and     *)
(* commands.                                                               *)
(***************************************************************************)
EXTENDS CloudEntries, FiniteSetTheorems, TLAPS

-----------------------------------------------------------------------------
(* Type correctness *)

\* What a command carries at each of its steps.
Stage(step, j) ==
    /\ step # "idle" => j.on \in Devices /\ j.name \in Names
    /\ step = "login" => /\ j.op \in {"add", "relogin"}
                         /\ j.op = "relogin" => j.base > 0
    /\ step = "asked" => /\ j.op = "refresh" /\ j.of \in People
                         /\ j.carry \in Credentials /\ j.carry.of = j.of /\ j.base > 0
    /\ step = "confirm" => j.op \in {"remove", "rename"} /\ j.to \in Names
    /\ step = "moved" => j.op = "rename" /\ j.to \in Names /\ j.carry \in Entries
    /\ step \in {"index", "after"} =>
          /\ j.op \in {"add", "relogin", "use", "refresh"} => j.carry \in Credentials
          /\ j.op = "rename" => j.carry \in Entries
          /\ j.op \in {"use", "rename"} => j.to \in Names

Underway == \A t \in Tasks : Stage(at[t], job[t])

TypeInv == TypeOK /\ Underway

\* Everything but the tasks.
DataOK ==
    /\ entry \in [Devices -> [Names -> Entries \cup {None}]]
    /\ backup \in [Devices -> [Names -> Entries \cup {None}]]
    /\ index \in [Devices -> SUBSET Names]
    /\ live \in [Devices -> Credentials \cup {None}]
    /\ marker \in [Devices -> Marks \cup {None}]
    /\ shared.index \subseteq Names /\ shared.entry \in [Names -> Entries \cup {None}]
    /\ dirty \in [Devices -> SUBSET Keys]
    /\ clock \in Nat
    /\ consumed \subseteq spent /\ spent \subseteq Credentials
    /\ saved \in [Devices -> SUBSET Names]

LEMMA TypeParts ==
    TypeOK <=> DataOK /\ at \in [Tasks -> Steps] /\ job \in [Tasks -> Jobs]
  BY DEF TypeOK, DataOK

LEMMA IdleType == Idle \in Jobs /\ Stage("idle", Idle)
  BY DEF Idle, Jobs, Stage

LEMMA JobMoves ==
    ASSUME TypeInv, NEW t \in Tasks, NEW step \in Steps, NEW j \in Jobs, Stage(step, j),
           Goto(t, step), Become(t, j), DataOK'
    PROVE  TypeInv'
  <1>1. at \in [Tasks -> Steps] /\ job \in [Tasks -> Jobs]
    BY DEF TypeInv, TypeOK
  <1>2. at' \in [Tasks -> Steps] /\ job' \in [Tasks -> Jobs]
    BY <1>1 DEF Goto, Become
  <1>3. TypeOK'
    BY <1>2 DEF TypeOK, DataOK
  <1>4. \A u \in Tasks : at'[u] = (IF u = t THEN step ELSE at[u])
                         /\ job'[u] = (IF u = t THEN j ELSE job[u])
    BY <1>1 DEF Goto, Become
  <1>5. \A u \in Tasks : Stage(at'[u], job'[u])
    BY <1>4 DEF TypeInv, Underway
  <1> QED
    BY <1>3, <1>5 DEF TypeInv, Underway

LEMMA JobEnds ==
    ASSUME TypeInv, NEW t \in Tasks, End(t), DataOK'
    PROVE  TypeInv'
  BY JobMoves, IdleType DEF End, Steps

LEMMA JobGoesOn ==
    ASSUME TypeInv, NEW t \in Tasks, NEW step \in Steps, Stage(step, job[t]),
           Goto(t, step), job' = job, DataOK'
    PROVE  TypeInv'
  <1>1. job[t] \in Jobs /\ job = [job EXCEPT ![t] = job[t]]
    BY DEF TypeInv, TypeOK
  <1>2. Become(t, job[t])
    BY <1>1 DEF Become
  <1> QED
    BY <1>1, <1>2, JobMoves

LEMMA JobType ==
    ASSUME TypeInv, NEW t \in Tasks
    PROVE  job[t] \in Jobs /\ Stage(at[t], job[t])
  BY DEF TypeInv, TypeOK, Underway

LEMMA VisibleType ==
    ASSUME DataOK, NEW d \in Devices, NEW n \in Names
    PROVE  /\ Visible(d, n) \in Entries \cup {None}
           /\ VersionOf(d, n) \in Nat
           /\ Visible(d, n) # None => VersionOf(d, n) = Visible(d, n).ver /\ VersionOf(d, n) > 0
  <1>1. Visible(d, n) \in Entries \cup {None}
    BY DEF DataOK, Visible
  <1>2. Visible(d, n) # None => Visible(d, n).ver \in Nat \ {0}
    BY <1>1 DEF Entries
  <1> QED
    BY <1>1, <1>2 DEF VersionOf

LEMMA ReadyType ==
    ASSUME DataOK, NEW d \in Devices, NEW n \in Names, Ready(d, n)
    PROVE  /\ n \in index[d] /\ Visible(d, n) = entry[d][n]
           /\ entry[d][n] \in Entries /\ entry[d][n].of \in People
           /\ CredOf(entry[d][n]) \in Credentials
  <1>1. Visible(d, n) # None
    BY DEF Ready, Live
  <1>2. n \in index[d] /\ Visible(d, n) = entry[d][n]
    BY <1>1 DEF Visible
  <1>3. entry[d][n] \in Entries /\ entry[d][n].of # None
    BY <1>1, <1>2, VisibleType DEF Ready, Live
  <1> QED
    BY <1>2, <1>3 DEF Entries, CredOf, Credentials

LEMMA ShownType ==
    ASSUME DataOK, NEW d \in Devices, NEW n \in Names
    PROVE  /\ Shown(d, n).ver \in Nat /\ Shown(d, n).tok \in Nat
           /\ Visible(d, n) # None => Shown(d, n).ver > 0
  <1>1. CASE Visible(d, n) # None
    BY <1>1, VisibleType DEF Shown, Entries
  <1>2. CASE Visible(d, n) = None /\ backup[d][n] # None
    <2>1. backup[d][n] \in Entries
      BY <1>2 DEF DataOK
    <2> QED
      BY <1>2, <2>1 DEF Shown, Entries
  <1>3. CASE Visible(d, n) = None /\ backup[d][n] = None
    BY <1>3 DEF Shown
  <1> QED
    BY <1>1, <1>2, <1>3

LEMMA MarkType ==
    ASSUME DataOK, NEW d \in Devices, NEW n \in Names \cup {None}
    PROVE  Mark(d, n) \in Marks \cup {None}
  BY ShownType DEF Mark, Marks

LEMMA CurrentType ==
    ASSUME DataOK, NEW d \in Devices
    PROVE  Current(d) \in Names \cup {None}
  <1> DEFINE matches == IF live[d] = None THEN {}
                        ELSE {n \in Names : Ready(d, n) /\ entry[d][n].of = live[d].of}
  <1>1. matches \subseteq Names
    OBVIOUS
  <1>2. Cardinality(matches) = 1 => (CHOOSE n \in matches : TRUE) \in matches
    <2> SUFFICES ASSUME Cardinality(matches) = 1
                 PROVE  \E n \in matches : TRUE
      OBVIOUS
    <2> QED
      BY FS_EmptySet
  <1>3. Current(d) = IF marker[d] # None /\ marker[d].name \in matches THEN marker[d].name
                     ELSE IF Cardinality(matches) = 1 THEN CHOOSE n \in matches : TRUE
                     ELSE None
    BY DEF Current
  <1> HIDE DEF matches
  <1> QED
    BY <1>1, <1>2, <1>3

LEMMA SetEntryType ==
    ASSUME DataOK, NEW d \in Devices, NEW n \in Names, NEW e \in Entries \cup {None},
           SetEntry(d, n, e)
    PROVE  entry' \in [Devices -> [Names -> Entries \cup {None}]]
           /\ dirty' \in [Devices -> SUBSET Keys]
  BY DEF DataOK, SetEntry, Keys

\* What writing an account leaves.
LEMMA WriteAccountEffect ==
    ASSUME DataOK, NEW t \in Tasks, NEW d \in Devices, NEW n \in Names, NEW c \in Credentials,
           NEW j \in Jobs, WriteAccount(t, d, n, c, j)
    PROVE  /\ entry' \in [Devices -> [Names -> Entries \cup {None}]]
           /\ backup' \in [Devices -> [Names -> Entries \cup {None}]]
           /\ dirty' \in [Devices -> SUBSET Keys]
           /\ UNCHANGED <<index, shared>>
           /\ Goto(t, "index")
           /\ \E k \in Jobs : /\ k.op = j.op /\ k.on = j.on /\ k.name = j.name /\ k.to = j.to
                              /\ k.carry = c
                              /\ Become(t, k)
           /\ \A b \in Devices, m \in Names : entry'[b][m] # entry[b][m] => b = d /\ m = n
  <1> DEFINE e == [ver |-> VersionOf(d, n) + 1, of |-> c.of, tok |-> c.tok]
             k == [j EXCEPT !.carry = c, !.ver = e.ver, !.names = index[d] \cup {n}]
  <1>1. e \in Entries /\ e.ver \in Nat
    BY VisibleType DEF Entries, Credentials
  <1>2. k \in Jobs /\ k.op = j.op /\ k.on = j.on /\ k.name = j.name /\ k.to = j.to
        /\ k.carry = c
    <2>1. index[d] \cup {n} \in SUBSET Names
      BY DEF DataOK
    <2> QED
      BY <1>1, <2>1 DEF Jobs
  <1>3. SetEntry(d, n, e) /\ Protect(d, n, e) /\ Become(t, k) /\ Goto(t, "index")
        /\ UNCHANGED <<index, shared>>
    BY DEF WriteAccount
  <1> HIDE DEF e, k
  <1>4. backup' \in [Devices -> [Names -> Entries \cup {None}]]
    BY <1>1, <1>3 DEF Protect, DataOK
  <1>5. \A b \in Devices, m \in Names : entry'[b][m] # entry[b][m] => b = d /\ m = n
    BY <1>3 DEF SetEntry, DataOK
  <1> QED
    BY <1>1, <1>2, <1>3, <1>4, <1>5, SetEntryType

LEMMA AccountWritten ==
    ASSUME DataOK, NEW t \in Tasks, NEW d \in Devices, NEW n \in Names, NEW c \in Credentials,
           NEW j \in Jobs, WriteAccount(t, d, n, c, j)
    PROVE  /\ entry'[d][n].of = c.of /\ entry'[d][n].tok = c.tok
           /\ \A b \in Devices, m \in Names :
                 /\ entry'[b][m] = entry[b][m] \/ entry'[b][m].tok = c.tok
                 /\ backup'[b][m] = backup[b][m] \/ backup'[b][m].tok = c.tok
  BY DEF WriteAccount, SetEntry, Protect, DataOK

LEMMA RemarkType ==
    ASSUME DataOK, NEW d \in Devices, NEW n \in Names, NEW ver \in Nat, NEW tok \in Nat,
           Remark(d, n, ver, tok)
    PROVE  marker' \in [Devices -> Marks \cup {None}]
  <1>1. [name |-> n, ver |-> ver, tok |-> tok] \in Marks
    BY DEF Marks
  <1> QED
    BY <1>1 DEF DataOK, Remark

LEMMA SetMarkerType ==
    ASSUME DataOK, NEW d \in Devices, NEW m \in Marks \cup {None}, SetMarker(d, m)
    PROVE  marker' \in [Devices -> Marks \cup {None}]
  BY DEF DataOK, SetMarker

LEMMA RestoreMarkerType ==
    ASSUME DataOK, NEW j \in Jobs, j.on \in Devices, RestoreMarker(j)
    PROVE  marker' \in [Devices -> Marks \cup {None}]
  <1>1. j.before \in Names \cup {None}
    BY DEF Jobs
  <1>2. Mark(j.on, j.before) \in Marks \cup {None}
    BY <1>1, MarkType
  <1> QED
    BY <1>2 DEF DataOK, RestoreMarker

LEMMA DataStays == ASSUME DataOK, UNCHANGED <<store, runtime, service, saved>> PROVE DataOK'
  BY DEF DataOK, store, runtime, service

-----------------------------------------------------------------------------
(* Adding an account and logging in again *)

LEMMA BeginLoginType ==
    ASSUME TypeInv, NEW t \in Tasks, NEW d \in Devices, NEW n \in Names,
           BeginAdd(t, d, n) \/ BeginRelogin(t, d, n)
    PROVE  TypeInv'
  <1>1. DataOK /\ DataOK'
    BY TypeParts, DataStays DEF TypeInv, BeginAdd, BeginRelogin
  <1>2. VersionOf(d, n) \in Nat /\ Current(d) \in Names \cup {None}
    BY <1>1, VisibleType, CurrentType
  <1>3. CASE BeginAdd(t, d, n)
    <2> DEFINE base == IF Listed(d, n) THEN VersionOf(d, n) ELSE 0
               k == [Idle EXCEPT !.on = d, !.op = "add", !.name = n, !.before = Current(d),
                                 !.base = base]
    <2>1. base \in Nat /\ "add" \in Ops
      BY <1>2, <1>3 DEF BeginAdd, Begins
    <2>2. k \in Jobs /\ k.on = d /\ k.name = n /\ k.op = "add"
      <3> HIDE DEF base
      <3> QED
        BY <1>2, <2>1, IdleType DEF Jobs
    <2>3. Stage("login", k)
      BY <2>2 DEF Stage
    <2> QED
      BY <1>1, <1>3, <2>2, <2>3, JobMoves DEF BeginAdd, Steps
  <1>4. CASE BeginRelogin(t, d, n)
    <2> DEFINE k == [Idle EXCEPT !.on = d, !.op = "relogin", !.name = n,
                                 !.of = entry[d][n].of, !.base = VersionOf(d, n)]
    <2>1. Ready(d, n) /\ "relogin" \in Ops
      BY <1>4 DEF BeginRelogin, Begins
    <2>2. entry[d][n].of \in People /\ VersionOf(d, n) > 0
      BY <1>1, <2>1, ReadyType, VisibleType, NullAssumption
    <2>3. k \in Jobs /\ k.on = d /\ k.name = n /\ k.op = "relogin" /\ k.base > 0
      BY <1>2, <2>1, <2>2, IdleType DEF Jobs
    <2>4. Stage("login", k)
      BY <2>3 DEF Stage
    <2> QED
      BY <1>1, <1>4, <2>3, <2>4, JobMoves DEF BeginRelogin, Steps
  <1> QED
    BY <1>3, <1>4

LEMMA LoginCancelledType ==
    ASSUME TypeInv, NEW t \in Tasks, LoginCancelled(t) PROVE TypeInv'
  <1>1. DataOK /\ job[t] \in Jobs /\ job[t].on \in Devices
    BY TypeParts, JobType DEF TypeInv, LoginCancelled, Stage
  <1>2. marker' \in [Devices -> Marks \cup {None}]
    BY <1>1, RestoreMarkerType DEF LoginCancelled
  <1>3. DataOK'
    BY <1>1, <1>2 DEF LoginCancelled, DataOK, store, service
  <1> QED
    BY <1>3, JobEnds DEF LoginCancelled

LEMMA LoginAnswersType ==
    ASSUME TypeInv, NEW t \in Tasks, NEW p \in People, LoginAnswers(t, p) PROVE TypeInv'
  <1> DEFINE j == job[t]
             c == [of |-> p, tok |-> clock + 1]
  <1>1. DataOK /\ j \in Jobs /\ j.on \in Devices /\ j.name \in Names
        /\ j.op \in {"add", "relogin"} /\ clock \in Nat
    BY TypeParts, JobType DEF TypeInv, LoginAnswers, Stage, DataOK
  <1>2. c \in Credentials
    BY <1>1 DEF Credentials
  <1>3. clock' = clock + 1 /\ UNCHANGED <<live, spent, consumed, abandoned, saved>>
    BY DEF LoginAnswers
  <1>4. CASE WriteAccount(t, j.on, j.name, c, j) /\ UNCHANGED marker
    <2>1. DataOK'
      BY <1>1, <1>2, <1>3, <1>4, WriteAccountEffect DEF DataOK
    <2>2. PICK k \in Jobs : k.op = j.op /\ k.on = j.on /\ k.name = j.name /\ k.carry = c
                            /\ Become(t, k)
      BY <1>1, <1>2, <1>4, WriteAccountEffect
    <2>3. Stage("index", k) /\ Goto(t, "index")
      BY <1>1, <1>2, <1>4, <2>2, WriteAccountEffect DEF Stage
    <2> QED
      BY <2>1, <2>2, <2>3, JobMoves DEF Steps
  <1>5. CASE RestoreMarker(j) /\ End(t) /\ UNCHANGED store
    <2>1. marker' \in [Devices -> Marks \cup {None}]
      BY <1>1, <1>5, RestoreMarkerType
    <2>2. DataOK'
      BY <1>1, <1>3, <1>5, <2>1 DEF DataOK, store
    <2> QED
      BY <1>5, <2>2, JobEnds
  <1> QED
    BY <1>4, <1>5 DEF LoginAnswers

LEMMA WriteIndexType == ASSUME TypeInv, NEW t \in Tasks, WriteIndex(t) PROVE TypeInv'
  <1>1. DataOK /\ job[t] \in Jobs /\ Stage("index", job[t]) /\ job[t].on \in Devices
    BY TypeParts, JobType DEF TypeInv, WriteIndex, Stage
  <1>2. job[t].names \in SUBSET Names
    BY <1>1 DEF Jobs
  <1>3. index' \in [Devices -> SUBSET Names] /\ dirty' \in [Devices -> SUBSET Keys]
    BY <1>1, <1>2 DEF WriteIndex, DataOK, Keys
  <1>4. DataOK'
    BY <1>1, <1>3 DEF WriteIndex, DataOK, runtime, service
  <1>5. Stage("after", job[t])
    BY <1>1 DEF Stage
  <1> QED
    BY <1>4, <1>5, JobGoesOn DEF WriteIndex, Steps

LEMMA AfterLoginType == ASSUME TypeInv, NEW t \in Tasks, AfterLogin(t) PROVE TypeInv'
  <1> DEFINE j == job[t]
  <1>1. DataOK /\ j \in Jobs /\ j.on \in Devices /\ j.name \in Names
    BY TypeParts, JobType DEF TypeInv, AfterLogin, Stage
  <1>2. marker' \in [Devices -> Marks \cup {None}]
    BY <1>1, RestoreMarkerType DEF AfterLogin
  <1>3. live' \in [Devices -> Credentials \cup {None}]
    <2>1. CASE Verified(j) /\ ActivateAfterRelogin(j)
      <3>1. Ready(j.on, j.name) /\ Visible(j.on, j.name) = entry[j.on][j.name]
        BY <1>1, <2>1, ReadyType DEF Verified, Ready
      <3>2. CredOf(Visible(j.on, j.name)) \in Credentials
        BY <1>1, <3>1, ReadyType
      <3> QED
        BY <1>1, <2>1, <3>2 DEF ActivateAfterRelogin, DataOK
    <2> QED
      BY <1>1, <2>1 DEF AfterLogin, DataOK
  <1>4. saved' \in [Devices -> SUBSET Names]
    BY <1>1 DEF AfterLogin, DataOK
  <1>5. DataOK'
    BY <1>1, <1>2, <1>3, <1>4 DEF AfterLogin, DataOK, store, service
  <1> QED
    BY <1>5, JobEnds DEF AfterLogin

-----------------------------------------------------------------------------
(* Using and refreshing an account *)

LEMMA BeginUseType ==
    ASSUME TypeInv, NEW t \in Tasks, NEW d \in Devices, NEW n \in Names, BeginUse(t, d, n)
    PROVE  TypeInv'
  <1> DEFINE m == marker[d]
             j == [Idle EXCEPT !.on = d, !.op = "use", !.name = n]
  <1>1. DataOK /\ "use" \in Ops
    BY TypeParts DEF TypeInv, BeginUse, Begins
  <1>2. \A healed \in BOOLEAN :
           /\ [j EXCEPT !.healed = healed] \in Jobs
           /\ Stage("activate", [j EXCEPT !.healed = healed])
    BY <1>1, IdleType DEF Jobs, Stage
  <1>3. j \in Jobs /\ j.op = "use" /\ j.on = d /\ j.name = n /\ Stage("activate", j)
    BY <1>1, IdleType DEF Jobs, Stage
  <1>4. UNCHANGED <<live, service, saved>>
    BY DEF BeginUse
  <1>5. m # None => m.name \in Names
    BY <1>1 DEF DataOK, Marks
  <1>6. ASSUME NEW k \in Jobs, Stage("activate", k), Become(t, k), Goto(t, "activate"),
               UNCHANGED store, marker' \in [Devices -> Marks \cup {None}]
        PROVE  TypeInv'
    <2>1. DataOK'
      BY <1>1, <1>4, <1>6 DEF DataOK, store, service
    <2> QED
      BY <1>6, <2>1, JobMoves DEF Steps
  <1>7. CASE /\ Stale(d)
             /\ SetMarker(d, [m EXCEPT !.ver = VersionOf(d, m.name), !.tok = Visible(d, m.name).tok])
             /\ Become(t, [j EXCEPT !.healed = TRUE]) /\ Goto(t, "activate")
             /\ UNCHANGED store
    <2>1. m \in Marks /\ Visible(d, m.name) # None
      BY <1>1, <1>7 DEF Stale, DataOK
    <2>2. Visible(d, m.name) \in Entries /\ VersionOf(d, m.name) \in Nat
      BY <1>1, <1>5, <2>1, NullAssumption, VisibleType
    <2>3. [m EXCEPT !.ver = VersionOf(d, m.name), !.tok = Visible(d, m.name).tok] \in Marks
      BY <2>1, <2>2 DEF Marks, Entries
    <2>4. marker' \in [Devices -> Marks \cup {None}]
      BY <1>1, <1>7, <2>3, SetMarkerType
    <2> QED
      BY <1>2, <1>6, <1>7, <2>4
  <1>8. CASE /\ UNCHANGED marker
             /\ Become(t, j) /\ Goto(t, "activate") /\ UNCHANGED store
    BY <1>1, <1>3, <1>6, <1>8 DEF DataOK
  <1>9. CASE /\ SetMarker(d, Mark(d, Current(d)))
             /\ Become(t, j) /\ Goto(t, "activate") /\ UNCHANGED store
    <2>1. marker' \in [Devices -> Marks \cup {None}]
      BY <1>1, <1>9, CurrentType, MarkType, SetMarkerType
    <2> QED
      BY <1>3, <1>6, <1>9, <2>1
  <1>10. CASE /\ m # None /\ Older(d, m.name, live[d])
              /\ Remark(d, m.name, VersionOf(d, m.name), Visible(d, m.name).tok)
              /\ Become(t, j) /\ Goto(t, "activate") /\ UNCHANGED store
    <2>1. Visible(d, m.name) \in Entries
      BY <1>1, <1>5, <1>10, VisibleType DEF Older
    <2>2. Visible(d, m.name).tok \in Nat /\ VersionOf(d, m.name) \in Nat
      BY <1>1, <1>5, <1>10, <2>1, VisibleType DEF Entries
    <2>3. marker' \in [Devices -> Marks \cup {None}]
      BY <1>1, <1>5, <1>10, <2>2, RemarkType
    <2> QED
      BY <1>3, <1>6, <1>10, <2>3
  <1>11. CASE /\ m # None /\ live[d] # None
              /\ WriteAccount(t, d, m.name, live[d], [j EXCEPT !.to = m.name])
              /\ UNCHANGED marker
    <2> DEFINE i == [j EXCEPT !.to = m.name]
    <2>1. live[d] \in Credentials
      BY <1>1, <1>11 DEF DataOK
    <2>2. i \in Jobs /\ i.op = "use" /\ i.on = d /\ i.name = n /\ i.to = m.name
      BY <1>1, <1>5, <1>11, IdleType DEF Jobs
    <2>3. DataOK'
      BY <1>1, <1>4, <1>5, <1>11, <2>1, <2>2, WriteAccountEffect DEF DataOK, service
    <2>4. PICK k \in Jobs : /\ k.op = "use" /\ k.on = d /\ k.name = n /\ k.to = m.name
                            /\ k.carry = live[d]
                            /\ Become(t, k) /\ Goto(t, "index")
      <3>1. WriteAccount(t, d, m.name, live[d], i) /\ m.name \in Names
        BY <1>5, <1>11
      <3> HIDE DEF i, m
      <3>2. /\ \E k \in Jobs : /\ k.op = i.op /\ k.on = i.on /\ k.name = i.name /\ k.to = i.to
                              /\ k.carry = live[d] /\ Become(t, k)
            /\ Goto(t, "index")
        BY <1>1, <2>1, <2>2, <3>1, WriteAccountEffect
      <3> QED
        BY <2>2, <3>2
    <2>5. Stage("index", k) /\ Goto(t, "index")
      BY <1>5, <1>11, <2>1, <2>4 DEF Stage
    <2> QED
      BY <2>3, <2>4, <2>5, JobMoves DEF Steps
  <1> QED
    BY <1>7, <1>8, <1>9, <1>10, <1>11 DEF BeginUse

LEMMA AfterWriteBackType == ASSUME TypeInv, NEW t \in Tasks, AfterWriteBack(t) PROVE TypeInv'
  <1> DEFINE j == job[t]
  <1>1. DataOK /\ j \in Jobs /\ Stage("after", j) /\ j.on \in Devices /\ j.to \in Names
        /\ j.carry \in Credentials
    BY TypeParts, JobType DEF TypeInv, AfterWriteBack, Stage
  <1>2. j.ver \in Nat /\ j.carry.tok \in Nat
    BY <1>1 DEF Jobs, Credentials
  <1>3. marker' \in [Devices -> Marks \cup {None}]
    BY <1>1, <1>2, RemarkType DEF AfterWriteBack
  <1>4. DataOK'
    BY <1>1, <1>3 DEF AfterWriteBack, DataOK, store, service
  <1>5. Stage("activate", j)
    BY <1>1 DEF Stage
  <1> QED
    BY <1>4, <1>5, JobGoesOn DEF AfterWriteBack, Steps

LEMMA ActivateType == ASSUME TypeInv, NEW t \in Tasks, Activate(t) PROVE TypeInv'
  <1> DEFINE j == job[t]
             d == j.on
  <1>1. DataOK /\ d \in Devices /\ j.name \in Names
    BY TypeParts, JobType DEF TypeInv, Activate, Stage
  <1>2. live' \in [Devices -> Credentials \cup {None}]
        /\ marker' \in [Devices -> Marks \cup {None}]
    <2>1. CASE UNCHANGED runtime
      BY <1>1, <2>1 DEF DataOK, runtime
    <2>2. CASE /\ Ready(d, j.name)
               /\ live' = [live EXCEPT ![d] = CredOf(entry[d][j.name])]
               /\ SetMarker(d, Mark(d, j.name))
      <3>1. CredOf(entry[d][j.name]) \in Credentials
        BY <1>1, <2>2, ReadyType
      <3>2. marker' \in [Devices -> Marks \cup {None}]
        BY <1>1, <2>2, MarkType, SetMarkerType
      <3> QED
        BY <1>1, <2>2, <3>1, <3>2 DEF DataOK
    <2> QED
      BY <2>1, <2>2 DEF Activate
  <1>3. DataOK'
    BY <1>1, <1>2 DEF Activate, DataOK, store, service
  <1> QED
    BY <1>3, JobEnds DEF Activate

LEMMA BeginRefreshType ==
    ASSUME TypeInv, NEW t \in Tasks, NEW d \in Devices, NEW n \in Names, BeginRefresh(t, d, n)
    PROVE  TypeInv'
  <1> DEFINE e == entry[d][n]
             guard == IF live[d] # None /\ live[d].of = e.of THEN live[d] ELSE None
             k == [Idle EXCEPT !.on = d, !.op = "refresh", !.name = n, !.of = e.of,
                               !.base = e.ver, !.carry = CredOf(e), !.guard = guard]
  <1>1. DataOK /\ DataOK' /\ "refresh" \in Ops /\ Ready(d, n)
    BY TypeParts, DataStays DEF TypeInv, BeginRefresh, Begins
  <1>2. e \in Entries /\ e.of \in People /\ CredOf(e) \in Credentials
    BY <1>1, ReadyType
  <1>3. e.ver \in Nat /\ e.ver > 0
    BY <1>2 DEF Entries
  <1>4. guard \in Credentials \cup {None}
    BY <1>1 DEF DataOK
  <1>5. Become(t, k) /\ Goto(t, "asked")
    BY DEF BeginRefresh
  <1> HIDE DEF guard
  <1>6. k \in Jobs /\ k.on = d /\ k.name = n /\ k.op = "refresh" /\ k.of = e.of
        /\ k.base = e.ver /\ k.carry = CredOf(e)
    BY <1>1, <1>2, <1>3, <1>4, IdleType DEF Jobs
  <1>7. Stage("asked", k)
    BY <1>2, <1>3, <1>6 DEF Stage, CredOf
  <1> QED
    BY <1>1, <1>5, <1>6, <1>7, JobMoves DEF Steps

LEMMA RefreshAnswersType == ASSUME TypeInv, NEW t \in Tasks, RefreshAnswers(t) PROVE TypeInv'
  <1> DEFINE j == job[t]
             d == j.on
             new == [of |-> j.of, tok |-> clock + 1]
  <1>1. DataOK /\ j \in Jobs /\ d \in Devices /\ j.name \in Names /\ j.op = "refresh"
        /\ j.of \in People /\ j.carry \in Credentials /\ clock \in Nat
    BY TypeParts, JobType DEF TypeInv, RefreshAnswers, Stage, DataOK
  <1>2. new \in Credentials
    BY <1>1 DEF Credentials
  <1>3. /\ clock' = clock + 1
        /\ spent' = spent \cup {j.carry} /\ consumed' = consumed \cup {j.carry}
        /\ UNCHANGED <<runtime, saved>>
    BY DEF RefreshAnswers
  <1>4. clock' \in Nat /\ consumed' \subseteq spent' /\ spent' \subseteq Credentials
    BY <1>1, <1>3 DEF DataOK
  <1>5. CASE WriteAccount(t, d, j.name, new, j)
    <2>1. DataOK'
      BY <1>1, <1>2, <1>3, <1>4, <1>5, WriteAccountEffect DEF DataOK, runtime
    <2>2. PICK k \in Jobs : k.op = j.op /\ k.on = d /\ k.name = j.name /\ k.carry = new
                            /\ Become(t, k)
      BY <1>1, <1>2, <1>5, WriteAccountEffect
    <2>3. Stage("index", k) /\ Goto(t, "index")
      BY <1>1, <1>2, <1>5, <2>2, WriteAccountEffect DEF Stage
    <2> QED
      BY <2>1, <2>2, <2>3, JobMoves DEF Steps
  <1>6. CASE End(t) /\ UNCHANGED store
    <2>1. DataOK'
      BY <1>1, <1>3, <1>4, <1>6 DEF DataOK, store, runtime
    <2> QED
      BY <1>6, <2>1, JobEnds
  <1> QED
    BY <1>5, <1>6 DEF RefreshAnswers

LEMMA AfterRefreshType == ASSUME TypeInv, NEW t \in Tasks, AfterRefresh(t) PROVE TypeInv'
  <1> DEFINE j == job[t]
             d == j.on
  <1>1. DataOK /\ j \in Jobs /\ d \in Devices /\ j.name \in Names /\ j.carry \in Credentials
    BY TypeParts, JobType DEF TypeInv, AfterRefresh, Stage
  <1>2. j.ver \in Nat /\ j.carry.tok \in Nat
    BY <1>1 DEF Jobs, Credentials
  <1>3. live' \in [Devices -> Credentials \cup {None}]
        /\ marker' \in [Devices -> Marks \cup {None}]
    <2>1. CASE UNCHANGED runtime
      BY <1>1, <2>1 DEF DataOK, runtime
    <2>2. CASE live' = [live EXCEPT ![d] = j.carry] /\ Remark(d, j.name, j.ver, j.carry.tok)
      BY <1>1, <1>2, <2>2, RemarkType DEF DataOK
    <2> QED
      BY <2>1, <2>2 DEF AfterRefresh
  <1>4. DataOK'
    BY <1>1, <1>3 DEF AfterRefresh, DataOK, store, service
  <1> QED
    BY <1>4, JobEnds DEF AfterRefresh

-----------------------------------------------------------------------------
(* Removing, renaming and restoring an account *)

LEMMA BeginChangeType ==
    ASSUME TypeInv, NEW t \in Tasks, NEW op \in {"remove", "rename"}, NEW d \in Devices,
           NEW n \in Names, NEW m \in Names, BeginChange(t, op, d, n, m)
    PROVE  TypeInv'
  <1> DEFINE k == [Idle EXCEPT !.on = d, !.op = op, !.name = n, !.to = m,
                               !.base = Shown(d, n).ver]
  <1>1. DataOK /\ DataOK' /\ op \in Ops
    BY TypeParts, DataStays DEF TypeInv, BeginChange, Begins
  <1>2. Shown(d, n).ver \in Nat
    BY <1>1, ShownType
  <1>3. k \in Jobs /\ k.on = d /\ k.op = op /\ k.name = n /\ k.to = m
    BY <1>1, <1>2, IdleType DEF Jobs
  <1>4. Stage("confirm", k)
    BY <1>3 DEF Stage
  <1> QED
    BY <1>1, <1>3, <1>4, JobMoves DEF BeginChange, Steps

LEMMA ConfirmRemoveType == ASSUME TypeInv, NEW t \in Tasks, ConfirmRemove(t) PROVE TypeInv'
  <1> DEFINE j == job[t]
             d == j.on
             n == j.name
             k == [j EXCEPT !.names = index[d]]
  <1>1. DataOK /\ j \in Jobs /\ d \in Devices /\ n \in Names /\ j.op = "remove"
    BY TypeParts, JobType DEF TypeInv, ConfirmRemove, Stage
  <1>2. Tombstone(d, n) \in Entries
    BY <1>1, VisibleType DEF Tombstone, Entries
  <1>3. k \in Jobs /\ k.on = d /\ k.name = n /\ k.op = "remove"
    BY <1>1 DEF Jobs, DataOK
  <1>4. CASE /\ SetEntry(d, n, Tombstone(d, n)) /\ Become(t, k) /\ Goto(t, "index")
             /\ saved' = [saved EXCEPT ![d] = @ \ {n}]
             /\ UNCHANGED <<index, backup, shared>>
    <2>1. DataOK'
      <3>1. saved' \in [Devices -> SUBSET Names]
        BY <1>1, <1>4 DEF DataOK
      <3> QED
        BY <1>1, <1>2, <1>4, <3>1, SetEntryType DEF ConfirmRemove, DataOK, runtime, service
    <2>2. Stage("index", k)
      BY <1>1, <1>3 DEF Stage
    <2> QED
      BY <1>3, <1>4, <2>1, <2>2, JobMoves DEF Steps
  <1>5. CASE End(t) /\ UNCHANGED <<store, saved>>
    BY <1>1, <1>5, DataStays, JobEnds DEF ConfirmRemove
  <1> QED
    BY <1>4, <1>5 DEF ConfirmRemove

LEMMA AfterRemoveType == ASSUME TypeInv, NEW t \in Tasks, AfterRemove(t) PROVE TypeInv'
  <1>1. DataOK /\ job[t].on \in Devices /\ job[t].name \in Names
    BY TypeParts, JobType DEF TypeInv, AfterRemove, Stage
  <1>2. backup' \in [Devices -> [Names -> Entries \cup {None}]]
    BY <1>1 DEF AfterRemove, DataOK
  <1>3. DataOK'
    BY <1>1, <1>2 DEF AfterRemove, DataOK, runtime, service
  <1> QED
    BY <1>3, JobEnds DEF AfterRemove

LEMMA ConfirmRenameType == ASSUME TypeInv, NEW t \in Tasks, ConfirmRename(t) PROVE TypeInv'
  <1> DEFINE j == job[t]
             d == j.on
             e == Visible(d, j.name)
             carry == [e EXCEPT !.ver = @ + 1]
             names == (index[d] \ {j.name}) \cup {j.to}
             k == [j EXCEPT !.carry = carry, !.names = names]
  <1>1. DataOK /\ j \in Jobs /\ d \in Devices /\ j.name \in Names /\ j.to \in Names
        /\ j.op = "rename"
    BY TypeParts, JobType DEF TypeInv, ConfirmRename, Stage
  <1>2. CASE /\ e # None
             /\ SetEntry(d, j.name, None) /\ Become(t, k) /\ Goto(t, "moved")
             /\ saved' = [saved EXCEPT ![d] = @ \ {j.name}]
             /\ UNCHANGED <<index, backup, shared>>
    <2>1. e \in Entries
      BY <1>1, <1>2, VisibleType
    <2>2. carry \in Entries /\ names \in SUBSET Names
      <3>1. names \in SUBSET Names
        BY <1>1 DEF DataOK
      <3> HIDE DEF e, names
      <3>2. carry \in Entries
        BY <2>1 DEF Entries
      <3> QED
        BY <3>1, <3>2
    <2>3. k \in Jobs /\ k.on = d /\ k.name = j.name /\ k.op = "rename" /\ k.to = j.to
          /\ k.carry = carry
      <3> HIDE DEF carry, names
      <3> QED
        BY <1>1, <2>2 DEF Jobs
    <2>4. Stage("moved", k)
      BY <1>1, <2>2, <2>3 DEF Stage
    <2>5. DataOK'
      <3>1. saved' \in [Devices -> SUBSET Names]
        BY <1>1, <1>2 DEF DataOK
      <3> QED
        BY <1>1, <1>2, <3>1, SetEntryType DEF ConfirmRename, DataOK, runtime, service
    <2> QED
      BY <1>2, <2>3, <2>4, <2>5, JobMoves DEF Steps
  <1>3. CASE End(t) /\ UNCHANGED <<store, saved>>
    BY <1>1, <1>3, DataStays, JobEnds DEF ConfirmRename
  <1> QED
    BY <1>2, <1>3 DEF ConfirmRename

LEMMA WriteRenamedType == ASSUME TypeInv, NEW t \in Tasks, WriteRenamed(t) PROVE TypeInv'
  <1> DEFINE j == job[t]
  <1>1. DataOK /\ j.on \in Devices /\ j.name \in Names /\ j.to \in Names /\ j.op = "rename"
        /\ j.carry \in Entries
    BY TypeParts, JobType DEF TypeInv, WriteRenamed, Stage
  <1>2. DataOK'
    BY <1>1, SetEntryType DEF WriteRenamed, DataOK, runtime, service
  <1>3. Stage("index", j)
    BY <1>1 DEF Stage
  <1> QED
    BY <1>2, <1>3, JobGoesOn DEF WriteRenamed, Steps

LEMMA AfterRenameType == ASSUME TypeInv, NEW t \in Tasks, AfterRename(t) PROVE TypeInv'
  <1> DEFINE j == job[t]
             d == j.on
             mark == [name |-> j.to, ver |-> j.carry.ver, tok |-> j.carry.tok]
  <1>1. DataOK /\ d \in Devices /\ j.name \in Names /\ j.to \in Names /\ j.carry \in Entries
    BY TypeParts, JobType DEF TypeInv, AfterRename, Stage
  <1>2. mark \in Marks
    BY <1>1 DEF Marks, Entries
  <1>3. marker' \in [Devices -> Marks \cup {None}]
    <2>1. SetMarker(d, mark) \/ UNCHANGED marker
      BY DEF AfterRename
    <2> QED
      BY <1>1, <1>2, <2>1, SetMarkerType DEF DataOK
  <1>4. backup' \in [Devices -> [Names -> Entries \cup {None}]]
    <2> DEFINE once == [backup EXCEPT ![d][j.to] = backup[d][j.name]]
    <2>1. once \in [Devices -> [Names -> Entries \cup {None}]]
      BY <1>1 DEF DataOK
    <2>2. backup' = backup \/ backup' = [once EXCEPT ![d][j.name] = None]
      BY DEF AfterRename
    <2> HIDE DEF once
    <2>3. [once EXCEPT ![d][j.name] = None] \in [Devices -> [Names -> Entries \cup {None}]]
      BY <1>1, <2>1
    <2> QED
      BY <1>1, <2>2, <2>3 DEF DataOK
  <1>5. saved' \in [Devices -> SUBSET Names]
    BY <1>1 DEF AfterRename, DataOK
  <1>6. DataOK'
    BY <1>1, <1>3, <1>4, <1>5 DEF AfterRename, DataOK, service
  <1> QED
    BY <1>6, JobEnds DEF AfterRename

LEMMA RestoreType ==
    ASSUME TypeInv, NEW t \in Tasks, NEW d \in Devices, NEW n \in Names, Restore(t, d, n)
    PROVE  TypeInv'
  <1> DEFINE e == [backup[d][n] EXCEPT !.ver = 1]
             k == [Idle EXCEPT !.on = d, !.op = "restore", !.name = n,
                               !.names = index[d] \cup {n}]
  <1>1. DataOK /\ "restore" \in Ops
    BY TypeParts DEF TypeInv, Restore, Begins
  <1>2. e \in Entries
    <2>1. backup[d][n] \in Entries
      BY <1>1 DEF Restore, DataOK
    <2> QED
      BY <2>1 DEF Entries
  <1>3. index[d] \cup {n} \in SUBSET Names
    BY <1>1 DEF DataOK
  <1>4. k \in Jobs /\ k.on = d /\ k.name = n /\ k.op = "restore"
    BY <1>1, <1>3, IdleType DEF Jobs
  <1>5. Stage("index", k)
    BY <1>4 DEF Stage
  <1>6. SetEntry(d, n, e) /\ Become(t, k) /\ Goto(t, "index")
        /\ UNCHANGED <<index, backup, shared, runtime, service, saved>>
    BY DEF Restore
  <1>7. DataOK'
    BY <1>1, <1>2, <1>6, SetEntryType DEF DataOK, runtime, service
  <1> QED
    BY <1>4, <1>5, <1>6, <1>7, JobMoves DEF Steps

LEMMA AfterRestoreType == ASSUME TypeInv, NEW t \in Tasks, AfterRestore(t) PROVE TypeInv'
  <1>1. DataOK /\ job[t].on \in Devices /\ job[t].name \in Names
    BY TypeParts, JobType DEF TypeInv, AfterRestore, Stage
  <1>2. saved' \in [Devices -> SUBSET Names]
    BY <1>1 DEF AfterRestore, DataOK
  <1>3. DataOK'
    BY <1>1, <1>2 DEF AfterRestore, DataOK, store, runtime, service
  <1> QED
    BY <1>3, JobEnds DEF AfterRestore

-----------------------------------------------------------------------------
(* The surroundings *)

LEMMA SurroundingsType ==
    ASSUME TypeInv, NEW d \in Devices,
           CodexRotates(d) \/ \E k \in Keys : Upload(d, k) \/ Download(d, k)
    PROVE  TypeInv'
  <1>1. DataOK
    BY TypeParts DEF TypeInv
  <1>2. ASSUME DataOK', UNCHANGED <<at, job>> PROVE TypeInv'
    BY <1>2, TypeParts DEF TypeInv, TypeOK, DataOK, Underway
  <1>3. CASE CodexRotates(d)
    <2>1. live[d] \in Credentials /\ clock \in Nat
      BY <1>1, <1>3 DEF CodexRotates, DataOK
    <2>2. [live[d] EXCEPT !.tok = clock + 1] \in Credentials
      BY <2>1 DEF Credentials
    <2>3. live' = [live EXCEPT ![d] = [live[d] EXCEPT !.tok = clock + 1]]
          /\ spent' = spent \cup {live[d]} /\ clock' = clock + 1
          /\ UNCHANGED <<store, marker, consumed, saved, at, job>>
      BY <1>3 DEF CodexRotates
    <2>4. DataOK'
      BY <1>1, <2>1, <2>2, <2>3 DEF DataOK, store
    <2> QED
      BY <1>2, <2>3, <2>4
  <1>4. ASSUME NEW k \in Keys, Upload(d, k) PROVE TypeInv'
    <2>1. /\ UNCHANGED <<entry, index, backup, runtime, service, saved, at, job>>
          /\ dirty' = [dirty EXCEPT ![d] = @ \ {k}]
      BY <1>4 DEF Upload
    <2>2. shared'.index \subseteq Names /\ shared'.entry \in [Names -> Entries \cup {None}]
      <3>1. CASE k = None
        <4>1. shared' = [shared EXCEPT !.index = index[d]]
          BY <1>4, <3>1 DEF Upload
        <4> QED
          BY <1>1, <4>1 DEF DataOK
      <3>2. CASE k # None
        <4>1. shared' = [shared EXCEPT !.entry[k] = entry[d][k]] /\ k \in Names
          BY <1>4, <3>2 DEF Upload, Keys
        <4> QED
          BY <1>1, <4>1 DEF DataOK
      <3> QED
        BY <3>1, <3>2
    <2>3. DataOK'
      BY <1>1, <2>1, <2>2 DEF DataOK, runtime, service
    <2> QED
      BY <1>2, <2>1, <2>3
  <1>5. ASSUME NEW k \in Keys, Download(d, k) PROVE TypeInv'
    <2>1. UNCHANGED <<backup, shared, dirty, runtime, service, saved, at, job>>
      BY <1>5 DEF Download
    <2>2. index' \in [Devices -> SUBSET Names]
          /\ entry' \in [Devices -> [Names -> Entries \cup {None}]]
      BY <1>1, <1>5 DEF Download, Keys, DataOK
    <2>3. DataOK'
      BY <1>1, <2>1, <2>2 DEF DataOK, runtime, service
    <2> QED
      BY <1>2, <2>1, <2>3
  <1> QED
    BY <1>3, <1>4, <1>5

-----------------------------------------------------------------------------
(* The type invariant, and what was removed *)

LEMMA CommandType == ASSUME TypeInv, NEW t \in Tasks, Command(t) PROVE TypeInv'
  <1>1. ASSUME NEW d \in Devices, NEW n \in Names,
               \/ BeginAdd(t, d, n) \/ BeginRelogin(t, d, n) \/ BeginUse(t, d, n)
               \/ BeginRefresh(t, d, n) \/ BeginChange(t, "remove", d, n, n)
               \/ \E m \in Names \ {n} : BeginChange(t, "rename", d, n, m)
               \/ Restore(t, d, n)
        PROVE  TypeInv'
    BY <1>1, BeginLoginType, BeginUseType, BeginRefreshType, BeginChangeType, RestoreType
  <1>2. CASE RefreshFails(t)
    BY <1>2, TypeParts, DataStays, JobEnds DEF TypeInv, RefreshFails
  <1> QED
    BY <1>1, <1>2, LoginAnswersType, LoginCancelledType, WriteIndexType, AfterLoginType,
       AfterWriteBackType, ActivateType, RefreshAnswersType, AfterRefreshType,
       ConfirmRemoveType, AfterRemoveType, ConfirmRenameType, WriteRenamedType,
       AfterRenameType, AfterRestoreType
       DEF Command

LEMMA TypeStep == ASSUME TypeInv, [Next]_vars PROVE TypeInv'
  <1>1. CASE UNCHANGED vars
    <2>1. UNCHANGED <<store, runtime, service, saved>> /\ UNCHANGED <<at, job>>
      BY <1>1 DEF vars
    <2>2. DataOK'
      BY <2>1, TypeParts, DataStays DEF TypeInv
    <2> QED
      BY <2>1, <2>2 DEF TypeInv, TypeOK, DataOK, Underway
  <1>2. CASE Next
    BY <1>2, CommandType, SurroundingsType DEF Next
  <1> QED
    BY <1>1, <1>2

LEMMA InitType == ASSUME Init PROVE TypeInv
  <1> DEFINE Known(owner) == {n \in Names : owner[n] # None}
             First(owner) == [n \in Names |-> IF n \in Known(owner)
                                              THEN [ver |-> 1, of |-> owner[n], tok |-> 1]
                                              ELSE None]
  <1>0. PICK owner \in [Names -> People \cup {None}] :
           /\ entry = [d \in Devices |-> First(owner)]
           /\ index = [d \in Devices |-> Known(owner)]
           /\ shared = [index |-> Known(owner), entry |-> First(owner)]
           /\ \E saver \in Devices :
                 backup = [d \in Devices |-> IF d = saver THEN First(owner)
                                             ELSE [n \in Names |-> None]]
           /\ live = [d \in Devices |-> None]
           /\ marker = [d \in Devices |-> None]
           /\ dirty = [d \in Devices |-> {}]
           /\ saved = [d \in Devices |-> {n \in Known(owner) : backup[d][n] # None}]
    BY DEF Init
  <1> DEFINE known == Known(owner)
             first == First(owner)
  <1>1. PICK saver \in Devices :
           backup = [d \in Devices |-> IF d = saver THEN first ELSE [n \in Names |-> None]]
    BY <1>0
  <1>2. known \subseteq Names /\ first \in [Names -> Entries \cup {None}]
    BY DEF Entries
  <1>3. clock = 1 /\ spent = {} /\ consumed = {}
        /\ at = [t \in Tasks |-> "idle"] /\ job = [t \in Tasks |-> Idle]
    BY DEF Init
  <1> HIDE DEF known, first, Known, First
  <1>4. DataOK
    <2>1. /\ entry = [d \in Devices |-> first]
          /\ index = [d \in Devices |-> known]
          /\ shared = [index |-> known, entry |-> first]
          /\ backup = [d \in Devices |-> IF d = saver THEN first ELSE [n \in Names |-> None]]
          /\ live = [d \in Devices |-> None]
          /\ marker = [d \in Devices |-> None]
          /\ dirty = [d \in Devices |-> {}]
          /\ saved = [d \in Devices |-> {n \in known : backup[d][n] # None}]
      BY <1>0, <1>1 DEF known, first
    <2> QED
      BY <1>2, <1>3, <2>1 DEF DataOK
  <1>5. at \in [Tasks -> Steps] /\ job \in [Tasks -> Jobs] /\ Underway
    BY <1>3, IdleType DEF Steps, Underway
  <1> QED
    BY <1>4, <1>5, TypeParts DEF TypeInv

\* Every entry, copy, mark and command is well formed, and what a command carries
\* fits its step.
THEOREM TypeCorrect == Spec => []TypeOK
  <1>1. Init => TypeInv
    BY InitType
  <1>2. TypeInv /\ [Next]_vars => TypeInv'
    BY TypeStep
  <1>3. TypeInv => TypeOK
    BY DEF TypeInv
  <1> QED
    BY <1>1, <1>2, <1>3, PTL DEF Spec

\* A tombstone refuses a command that was given a version.
LEMMA TombstoneRefuses ==
    ASSUME NEW d, NEW n, NEW base, base # 0, Visible(d, n) # None, ~Ready(d, n)
    PROVE  Refusal(d, n, base) = "conflict" /\ ~SameToken(d, n, base)
  BY DEF Refusal, Ready, Live, SameToken

-----------------------------------------------------------------------------
(* Who writes an account *)

\* The three ways a command comes to write credentials into an entry.
ByLogin(t, d, n) ==
    /\ at[t] = "login" /\ job[t].on = d /\ job[t].name = n
    /\ job[t].op = "add" \/ job[t].base > 0
    /\ Refusal(d, n, job[t].base) = "none"
    /\ Ready(d, n) => entry'[d][n].of = entry[d][n].of
    /\ entry'[d][n].tok = clock + 1

ByRefresh(t, d, n) ==
    /\ at[t] = "asked" /\ job[t].on = d /\ job[t].name = n /\ job[t].base > 0
    /\ Refusal(d, n, job[t].base) = "none" \/ SameToken(d, n, job[t].carry)
    /\ job[t].carry.of = job[t].of
    /\ entry'[d][n].of = job[t].of /\ entry'[d][n].tok = clock + 1

ByWriteBack(d, n) ==
    /\ \E base \in Nat : Refusal(d, n, base) = "none" /\ (Visible(d, n) # None => base # 0)
    /\ Ready(d, n) => entry'[d][n].of = entry[d][n].of
    /\ Visible(d, n) # None => entry'[d][n].tok > Visible(d, n).tok

LEMMA WhoWrites ==
    ASSUME TypeInv, [Next]_vars, NEW b \in Devices, NEW m \in Names,
           Written(b, m), Live(entry'[b][m])
    PROVE  \/ \E t \in Tasks : ByLogin(t, b, m) \/ ByRefresh(t, b, m)
           \/ ByWriteBack(b, m)
           \/ Visible(b, m) = None
  <1>1. DataOK
    BY TypeParts DEF TypeInv
  <1>2. entry'[b][m] # entry[b][m] /\ job' # job
    BY DEF Written
  <1>3. PICK t \in Tasks : Command(t)
    <2>1. ~UNCHANGED vars
      BY <1>2 DEF vars
    <2>2. Next
      BY <2>1
    <2>3. ASSUME NEW d \in Devices,
                 CodexRotates(d) \/ \E k \in Keys : Upload(d, k) \/ Download(d, k)
          PROVE  FALSE
      BY <1>2, <2>3 DEF CodexRotates, Upload, Download
    <2> QED
      BY <2>2, <2>3 DEF Next
  <1> DEFINE j == job[t]
  <1>4. j \in Jobs /\ Stage(at[t], j)
    BY JobType
  <1>5. CASE \E p \in People : LoginAnswers(t, p)
    <2>1. PICK p \in People : LoginAnswers(t, p)
      BY <1>5
    <2> DEFINE c == [of |-> p, tok |-> clock + 1]
    <2>2. at[t] = "login" /\ j.on \in Devices /\ j.name \in Names
          /\ (j.op = "add" \/ j.base > 0) /\ clock \in Nat
      BY <1>1, <1>4, <2>1 DEF LoginAnswers, Stage, DataOK
    <2>3. Acceptable(j, p) /\ Refusal(j.on, j.name, j.base) = "none"
          /\ WriteAccount(t, j.on, j.name, c, j)
      BY <1>2, <2>1 DEF LoginAnswers, store
    <2>4. c \in Credentials
      BY <2>2 DEF Credentials
    <2>5. b = j.on /\ m = j.name
      BY <1>1, <1>2, <1>4, <2>2, <2>3, <2>4, WriteAccountEffect
    <2>6. entry'[b][m].of = p /\ entry'[b][m].tok = clock + 1
      <3>1. j \in Jobs /\ WriteAccount(t, j.on, j.name, c, j) /\ c.of = p /\ c.tok = clock + 1
        BY <1>4, <2>3
      <3> HIDE DEF c, j
      <3> QED
        BY <1>1, <2>2, <2>4, <2>5, <3>1, AccountWritten
    <2>7. Ready(b, m) => entry[b][m].of = p
      BY <2>3, <2>5 DEF Acceptable
    <2>8. ByLogin(t, b, m)
      BY <2>2, <2>3, <2>5, <2>6, <2>7 DEF ByLogin
    <2> QED
      BY <2>8
  <1>6. CASE RefreshAnswers(t)
    <2> DEFINE new == [of |-> j.of, tok |-> clock + 1]
    <2>1. at[t] = "asked" /\ j.on \in Devices /\ j.name \in Names /\ j.of \in People
          /\ j.base > 0 /\ j.carry.of = j.of /\ clock \in Nat
      BY <1>1, <1>4, <1>6 DEF RefreshAnswers, Stage, DataOK
    <2>2. new \in Credentials
      BY <2>1 DEF Credentials
    <2>3. WriteAccount(t, j.on, j.name, new, j)
          /\ (\/ Refusal(j.on, j.name, j.base) = "none"
              \/ SameToken(j.on, j.name, j.carry))
      BY <1>2, <1>6 DEF RefreshAnswers, store
    <2>4. b = j.on /\ m = j.name
      BY <1>1, <1>2, <1>4, <2>1, <2>2, <2>3, WriteAccountEffect
    <2>5. entry'[b][m].of = j.of /\ entry'[b][m].tok = clock + 1
      <3>1. j \in Jobs /\ WriteAccount(t, j.on, j.name, new, j) /\ new.of = j.of
            /\ new.tok = clock + 1
        BY <1>4, <2>3
      <3> HIDE DEF new, j
      <3> QED
        BY <1>1, <2>1, <2>2, <2>4, <3>1, AccountWritten
    <2>6. ByRefresh(t, b, m)
      BY <2>1, <2>3, <2>4, <2>5 DEF ByRefresh
    <2> QED
      BY <2>6
  <1>7. ASSUME NEW d \in Devices, NEW n \in Names, BeginUse(t, d, n) PROVE ByWriteBack(b, m)
    <2> DEFINE k == marker[d]
               i == [[Idle EXCEPT !.on = d, !.op = "use", !.name = n] EXCEPT !.to = k.name]
               base == IF k.ver # 0 THEN k.ver ELSE Mark(d, k.name).ver
    <2>1. /\ k # None /\ ~Stale(d) /\ live[d] # None /\ Refusal(d, k.name, base) = "none"
          /\ ~(Ready(d, k.name) /\ entry[d][k.name].of # live[d].of)
          /\ ~Older(d, k.name, live[d])
          /\ WriteAccount(t, d, k.name, live[d], i) /\ "use" \in Ops
      BY <1>2, <1>7 DEF BeginUse, store, Begins
    <2>2. k \in Marks /\ k.name \in Names /\ live[d] \in Credentials
      BY <1>1, <2>1 DEF DataOK, Marks
    <2>3. i \in Jobs
      BY <2>1, <2>2, IdleType DEF Jobs
    <2> HIDE DEF i
    <2>4. b = d /\ m = k.name
      BY <1>1, <1>2, <2>1, <2>2, <2>3, WriteAccountEffect
    <2>5. base \in Nat /\ (Visible(b, m) # None => base # 0)
      <3>1. Mark(d, k.name).ver \in Nat
        <4>1. Shown(d, k.name).ver \in Nat /\ k.name # None
          BY <1>1, <2>2, ShownType, CloudAssumption
        <4> HIDE DEF k
        <4> QED
          BY <4>1 DEF Mark
      <3>2. Visible(b, m) # None => k.ver = Visible(b, m).ver /\ Visible(b, m).ver # 0
        BY <1>1, <2>1, <2>2, <2>4, VisibleType DEF Stale
      <3> QED
        BY <2>2, <3>1, <3>2 DEF Marks
    <2>6. entry'[b][m].of = live[d].of /\ entry'[b][m].tok = live[d].tok
      <3> HIDE DEF k, base
      <3> QED
        BY <1>1, <2>1, <2>2, <2>3, <2>4, AccountWritten
    <2>7. Visible(b, m) # None => live[d].tok > Visible(b, m).tok
      <3>1. SUFFICES ASSUME Visible(b, m) # None
                     PROVE  live[d].tok > Visible(b, m).tok
        OBVIOUS
      <3>2. Visible(b, m).tok \in Nat /\ live[d].tok \in Nat
        BY <1>1, <2>2, <3>1, VisibleType DEF Entries, Credentials
      <3>3. ~(live[d].tok <= Visible(b, m).tok)
        BY <2>1, <2>4, <3>1 DEF Older
      <3> QED
        BY <3>2, <3>3
    <2> HIDE DEF base, k
    <2> QED
      BY <2>1, <2>4, <2>5, <2>6, <2>7 DEF ByWriteBack
  <1>8. ASSUME NEW d \in Devices, NEW n \in Names, Restore(t, d, n)
        PROVE  Visible(b, m) = None
    <2>1. Visible(d, n) = None /\ SetEntry(d, n, [backup[d][n] EXCEPT !.ver = 1])
      BY <1>8 DEF Restore
    <2>2. b = d /\ m = n
      BY <1>1, <1>2, <2>1 DEF SetEntry, DataOK
    <2> QED
      BY <2>1, <2>2
  <1>9. CASE ConfirmRemove(t)
    <2>1. SetEntry(j.on, j.name, Tombstone(j.on, j.name)) /\ j.on \in Devices /\ j.name \in Names
      BY <1>2, <1>4, <1>9 DEF ConfirmRemove, store, Stage
    <2>2. entry'[b][m] = Tombstone(j.on, j.name)
      BY <1>1, <1>2, <2>1 DEF SetEntry, DataOK
    <2> QED
      BY <2>2 DEF Tombstone, Live
  <1>10. CASE ConfirmRename(t)
    <2>1. SetEntry(j.on, j.name, None) /\ j.on \in Devices /\ j.name \in Names
      BY <1>2, <1>4, <1>10 DEF ConfirmRename, store, Stage
    <2>2. entry'[b][m] = None
      BY <1>1, <1>2, <2>1 DEF SetEntry, DataOK
    <2> QED
      BY <2>2 DEF Live
  <1>11. ASSUME \/ \E d \in Devices, n \in Names :
                      \/ BeginAdd(t, d, n) \/ BeginRelogin(t, d, n)
                      \/ BeginRefresh(t, d, n) \/ BeginChange(t, "remove", d, n, n)
                      \/ \E k \in Names \ {n} : BeginChange(t, "rename", d, n, k)
                \/ LoginCancelled(t) \/ WriteIndex(t) \/ AfterLogin(t)
                \/ AfterWriteBack(t) \/ Activate(t) \/ RefreshFails(t) \/ AfterRefresh(t)
                \/ AfterRemove(t) \/ WriteRenamed(t) \/ AfterRename(t) \/ AfterRestore(t)
         PROVE  FALSE
    BY <1>2, <1>11
       DEF BeginAdd, BeginRelogin, BeginRefresh, BeginChange, LoginCancelled, WriteIndex,
           AfterLogin, AfterWriteBack, Activate, RefreshFails, AfterRefresh, AfterRemove,
           WriteRenamed, AfterRename, AfterRestore, store
  <1> QED
    BY <1>3, <1>5, <1>6, <1>7, <1>8, <1>9, <1>10, <1>11 DEF Command

\* Only a login for a new account writes over a tombstone.
LEMMA RemovedStep ==
    ASSUME TypeInv, [Next]_vars, NEW b \in Devices, NEW m \in Names,
           Written(b, m), Visible(b, m) # None, ~Ready(b, m), Live(entry'[b][m])
    PROVE  \E t \in Tasks : at[t] = "login" /\ job[t].op = "add" /\ job[t].name = m
                             /\ job[t].base = 0
  <1>1. ~ByWriteBack(b, m)
    BY TombstoneRefuses DEF ByWriteBack
  <1>2. ASSUME NEW t \in Tasks, ByRefresh(t, b, m) PROVE FALSE
    <2>1. job[t].base # 0
      BY <1>2, JobType DEF ByRefresh, Jobs
    <2> QED
      BY <1>2, <2>1, TombstoneRefuses DEF ByRefresh, SameToken
  <1>3. ASSUME NEW t \in Tasks, ByLogin(t, b, m)
        PROVE  at[t] = "login" /\ job[t].op = "add" /\ job[t].name = m /\ job[t].base = 0
    BY <1>3, JobType, TombstoneRefuses DEF ByLogin, Jobs
  <1> QED
    BY <1>1, <1>2, <1>3, WhoWrites

\* A removed account comes back only when it is added anew
\* (writeCloudAccountWithExpectedVersion, retryPersistRotatedCloudAuthAfterConflict).
THEOREM RemovedStaysRemoved == Spec => StaysRemoved
  <1>1. Init => TypeInv
    BY InitType
  <1>2. TypeInv /\ [Next]_vars => TypeInv'
    BY TypeStep
  <1>3. TypeInv /\ [Next]_vars
        => [\A d \in Devices, n \in Names :
              Written(d, n) /\ Visible(d, n) # None /\ ~Ready(d, n) /\ Live(entry'[d][n])
                  => \E t \in Tasks : at[t] = "login" /\ job[t].op = "add"
                                      /\ job[t].name = n /\ job[t].base = 0]_vars
    BY RemovedStep
  <1> QED
    BY <1>1, <1>2, <1>3, PTL DEF Spec, StaysRemoved

-----------------------------------------------------------------------------
(* Whose credentials an account holds *)

\* An entry of another person has another version, or the refresh is mistaken.
LEMMA IdentityStep ==
    ASSUME TypeInv, [Next]_vars, NEW d \in Devices, NEW n \in Names,
           Written(d, n), Ready(d, n), Live(entry'[d][n]), ~Mistaken(d, n)
    PROVE  entry'[d][n].of = entry[d][n].of
  <1>1. Visible(d, n) # None /\ Visible(d, n) = entry[d][n]
    BY TypeParts, ReadyType DEF TypeInv, Ready, Live
  <1>2. ASSUME NEW t \in Tasks, ByLogin(t, d, n)
        PROVE  entry'[d][n].of = entry[d][n].of
    BY <1>2 DEF ByLogin
  <1>3. ASSUME NEW t \in Tasks, ByRefresh(t, d, n)
        PROVE  entry'[d][n].of = entry[d][n].of
    <2>1. CASE SameToken(d, n, job[t].carry)
      BY <1>3, <2>1 DEF ByRefresh, SameToken, CredOf
    <2>2. CASE Refusal(d, n, job[t].base) = "none"
      <3>1. job[t].base # 0
        BY <1>3, JobType DEF ByRefresh, Jobs
      <3>2. entry[d][n].ver = job[t].base
        BY <1>1, <2>2, <3>1 DEF Refusal
      <3>3. job[t].of = entry[d][n].of
        BY <1>3, <3>2 DEF ByRefresh, Mistaken
      <3> QED
        BY <1>3, <3>3 DEF ByRefresh
    <2> QED
      BY <1>3, <2>1, <2>2 DEF ByRefresh
  <1>4. CASE ByWriteBack(d, n)
    BY <1>4 DEF ByWriteBack
  <1> QED
    BY <1>1, <1>2, <1>3, <1>4, WhoWrites

\* No command puts one person's credentials into another's account, but for a
\* refresh that takes another account of the same version for its own.
THEOREM IdentityKept == Spec => KeepsIdentity
  <1>1. Init => TypeInv
    BY InitType
  <1>2. TypeInv /\ [Next]_vars => TypeInv'
    BY TypeStep
  <1>3. TypeInv /\ [Next]_vars
        => [\A d \in Devices, n \in Names :
              Written(d, n) /\ Ready(d, n) /\ Live(entry'[d][n]) /\ ~Mistaken(d, n)
                  => entry'[d][n].of = entry[d][n].of]_vars
    BY IdentityStep
  <1> QED
    BY <1>1, <1>2, <1>3, PTL DEF Spec, KeepsIdentity

-----------------------------------------------------------------------------
(* How new the tokens of an account are *)

Dated(c) == c # None => c.tok <= clock

DatedData ==
    /\ \A d \in Devices, n \in Names : Dated(entry[d][n]) /\ Dated(backup[d][n])
    /\ \A n \in Names : Dated(shared.entry[n])
    /\ \A d \in Devices : Dated(live[d])

\* No token is newer than the last one handed out.
DatedInv == DatedData /\ \A t \in Tasks : Dated(job[t].carry)

\* The clock only advances.
LEMMA ClockAdvances ==
    ASSUME TypeInv, [Next]_vars
    PROVE  clock \in Nat /\ clock' \in Nat /\ clock <= clock'
  <1>1. clock \in Nat /\ clock' \in Nat
    BY TypeStep DEF TypeInv, TypeOK
  <1>2. ASSUME NEW t \in Tasks, NEW d \in Devices, NEW n \in Names,
               \/ BeginAdd(t, d, n) \/ BeginRelogin(t, d, n) \/ BeginUse(t, d, n)
               \/ BeginRefresh(t, d, n) \/ Restore(t, d, n)
               \/ \E op, m : BeginChange(t, op, d, n, m)
        PROVE  clock' = clock
    BY <1>2 DEF BeginAdd, BeginRelogin, BeginUse, BeginRefresh, Restore, BeginChange, service
  <1>3. ASSUME NEW t \in Tasks, NEW p \in People, LoginAnswers(t, p) \/ RefreshAnswers(t)
        PROVE  clock' = clock + 1
    BY <1>3 DEF LoginAnswers, RefreshAnswers
  <1>4. ASSUME NEW t \in Tasks,
               \/ LoginCancelled(t) \/ WriteIndex(t) \/ AfterLogin(t) \/ AfterWriteBack(t)
               \/ Activate(t) \/ RefreshFails(t) \/ AfterRefresh(t) \/ ConfirmRemove(t)
               \/ AfterRemove(t) \/ ConfirmRename(t) \/ WriteRenamed(t) \/ AfterRename(t)
               \/ AfterRestore(t)
        PROVE  clock' = clock
    BY <1>4 DEF LoginCancelled, WriteIndex, AfterLogin, AfterWriteBack, Activate,
                RefreshFails, AfterRefresh, ConfirmRemove, AfterRemove, ConfirmRename,
                WriteRenamed, AfterRename, AfterRestore, service
  <1>5. ASSUME NEW t \in Tasks, RefreshAnswers(t) PROVE clock' = clock + 1
    BY <1>5 DEF RefreshAnswers
  <1>6. ASSUME NEW d \in Devices, CodexRotates(d) PROVE clock' = clock + 1
    BY <1>6 DEF CodexRotates
  <1>7. ASSUME NEW d \in Devices, NEW k \in Keys, Upload(d, k) \/ Download(d, k)
        PROVE  clock' = clock
    BY <1>7 DEF Upload, Download, service
  <1>8. CASE UNCHANGED vars
    BY <1>1, <1>8 DEF vars, service
  <1>9. ASSUME NEW t \in Tasks, Command(t) PROVE clock' = clock \/ clock' = clock + 1
    BY <1>2, <1>3, <1>4, <1>5, <1>9 DEF Command
  <1> QED
    BY <1>1, <1>6, <1>7, <1>8, <1>9 DEF Next

LEMMA TokenNat ==
    ASSUME NEW c \in Credentials \cup Entries
    PROVE  c # None /\ c.tok \in Nat
  BY NullAssumption DEF Credentials, Entries

\* What is dated stays dated.
LEMMA DatedStays ==
    ASSUME clock \in Nat, clock' \in Nat, clock <= clock',
           NEW c \in Credentials \cup Entries \cup {None}, Dated(c)
    PROVE  c # None => c.tok <= clock'
  BY TokenNat DEF Dated

LEMMA DataDated ==
    ASSUME TypeInv, [Next]_vars, DatedInv,
           \A d \in Devices, n \in Names :
              /\ entry'[d][n] = entry[d][n] \/ (entry'[d][n] # None => entry'[d][n].tok <= clock')
              /\ backup'[d][n] = backup[d][n] \/ (backup'[d][n] # None => backup'[d][n].tok <= clock'),
           \A n \in Names :
              shared'.entry[n] = shared.entry[n]
              \/ (shared'.entry[n] # None => shared'.entry[n].tok <= clock'),
           \A d \in Devices : live'[d] = live[d] \/ (live'[d] # None => live'[d].tok <= clock')
    PROVE  DatedData'
  <1>1. DataOK /\ clock \in Nat /\ clock' \in Nat /\ clock <= clock'
    BY TypeParts, ClockAdvances DEF TypeInv
  <1>2. \A d \in Devices, n \in Names :
           /\ entry[d][n] # None => entry[d][n].tok <= clock'
           /\ backup[d][n] # None => backup[d][n].tok <= clock'
    BY <1>1, DatedStays DEF DatedInv, DatedData, DataOK
  <1>3. \A n \in Names : shared.entry[n] # None => shared.entry[n].tok <= clock'
    BY <1>1, DatedStays DEF DatedInv, DatedData, DataOK
  <1>4. \A d \in Devices : live[d] # None => live[d].tok <= clock'
    BY <1>1, DatedStays DEF DatedInv, DatedData, DataOK
  <1>5. \A d \in Devices, n \in Names :
           /\ entry'[d][n] # None => entry'[d][n].tok <= clock'
           /\ backup'[d][n] # None => backup'[d][n].tok <= clock'
    BY <1>2
  <1>6. \A n \in Names : shared'.entry[n] # None => shared'.entry[n].tok <= clock'
    BY <1>3
  <1>7. \A d \in Devices : live'[d] # None => live'[d].tok <= clock'
    BY <1>4
  <1> QED
    BY <1>5, <1>6, <1>7 DEF DatedData, Dated

LEMMA JobsDated ==
    ASSUME TypeInv, [Next]_vars, DatedInv, NEW t \in Tasks,
           \A u \in Tasks \ {t} : job'[u] = job[u],
           \/ job'[t].carry = job[t].carry
           \/ job'[t].carry # None => job'[t].carry.tok <= clock'
    PROVE  (\A u \in Tasks : Dated(job[u].carry))'
  <1>1. \A u \in Tasks : job[u].carry \in Credentials \cup Entries \cup {None}
    BY JobType DEF Jobs
  <1>2. \A u \in Tasks : job[u].carry # None => job[u].carry.tok <= clock'
    BY <1>1, ClockAdvances, DatedStays DEF DatedInv
  <1>3. \A u \in Tasks : job'[u].carry # None => job'[u].carry.tok <= clock'
    BY <1>2
  <1> QED
    BY <1>3 DEF Dated

\* A command that writes an account with a token of its own or a new one.
LEMMA WriteDated ==
    ASSUME TypeInv, [Next]_vars, DatedInv, NEW t \in Tasks, NEW d \in Devices,
           NEW n \in Names, NEW c \in Credentials, NEW j \in Jobs,
           WriteAccount(t, d, n, c, j), c.tok <= clock', UNCHANGED live
    PROVE  DatedInv'
  <1>1. DataOK
    BY TypeParts DEF TypeInv
  <1>2. DatedData'
    BY <1>1, AccountWritten, DataDated, WriteAccountEffect
  <1>3. PICK k \in Jobs : k.carry = c /\ Become(t, k)
    BY <1>1, WriteAccountEffect
  <1>4. (\A u \in Tasks : Dated(job[u].carry))'
    BY <1>3, JobsDated DEF Become, TypeInv, TypeOK
  <1> QED
    BY <1>2, <1>4 DEF DatedInv

\* A command that only goes on, or begins, with what is dated.
LEMMA BecomeDated ==
    ASSUME TypeInv, [Next]_vars, DatedInv, NEW t \in Tasks, NEW k,
           Become(t, k) \/ (job' = job /\ k = job[t]),
           k.carry # None => k.carry.tok <= clock',
           DatedData'
    PROVE  DatedInv'
  <1>1. (\A u \in Tasks : Dated(job[u].carry))'
    BY JobsDated DEF Become, TypeInv, TypeOK
  <1> QED
    BY <1>1 DEF DatedInv

LEMMA EndDated ==
    ASSUME TypeInv, [Next]_vars, DatedInv, NEW t \in Tasks, End(t), DatedData'
    PROVE  DatedInv'
  BY BecomeDated DEF End, Idle

LEMMA FilesStay ==
    ASSUME TypeInv, [Next]_vars, DatedInv, UNCHANGED <<entry, backup, shared, live>>
    PROVE  DatedData'
  BY DataDated

LEMMA GoesOnDated ==
    ASSUME TypeInv, [Next]_vars, DatedInv, NEW t \in Tasks, job' = job, DatedData'
    PROVE  DatedInv'
  <1>1. job[t].carry = None \/ job[t].carry.tok <= clock'
    BY ClockAdvances, DatedStays, JobType DEF DatedInv, Jobs
  <1> QED
    BY <1>1, BecomeDated

LEMMA StillDated ==
    ASSUME TypeInv, [Next]_vars, DatedInv
    PROVE  /\ \A d \in Devices, n \in Names :
                 /\ entry[d][n] # None => entry[d][n].tok <= clock'
                 /\ backup[d][n] # None => backup[d][n].tok <= clock'
           /\ \A n \in Names : shared.entry[n] # None => shared.entry[n].tok <= clock'
           /\ \A d \in Devices : live[d] # None => live[d].tok <= clock'
           /\ \A t \in Tasks : job[t].carry # None => job[t].carry.tok <= clock'
  <1>1. DataOK
    BY TypeParts DEF TypeInv
  <1>2. clock \in Nat /\ clock' \in Nat /\ clock <= clock'
    BY ClockAdvances
  <1>3. \A t \in Tasks : job[t].carry \in Credentials \cup Entries \cup {None}
    BY JobType DEF Jobs
  <1> QED
    BY <1>1, <1>2, <1>3, DatedStays DEF DatedInv, DatedData, DataOK

\* One entry is written, and nothing else.
LEMMA EntryDated ==
    ASSUME TypeInv, [Next]_vars, DatedInv, NEW d \in Devices, NEW n \in Names, NEW e,
           SetEntry(d, n, e), e # None => e.tok <= clock', UNCHANGED <<backup, shared, live>>
    PROVE  DatedData'
  <1>1. \A b \in Devices, m \in Names : entry'[b][m] = entry[b][m] \/ entry'[b][m] = e
    BY TypeParts DEF TypeInv, DataOK, SetEntry
  <1> QED
    BY <1>1, DataDated

\* auth.json is written, and nothing else.
LEMMA LiveDated ==
    ASSUME TypeInv, [Next]_vars, DatedInv, NEW d \in Devices, NEW c, c.tok <= clock',
           live' = [live EXCEPT ![d] = c], UNCHANGED <<entry, backup, shared>>
    PROVE  DatedData'
  <1>1. \A b \in Devices : live'[b] = live[b] \/ live'[b] = c
    BY TypeParts DEF TypeInv, DataOK
  <1> QED
    BY <1>1, DataDated

LEMMA ReadyDated ==
    ASSUME TypeInv, [Next]_vars, DatedInv, NEW d \in Devices, NEW n \in Names, Ready(d, n)
    PROVE  /\ CredOf(entry[d][n]).tok <= clock' /\ CredOf(Visible(d, n)).tok <= clock'
  <1>1. Visible(d, n) = entry[d][n] /\ entry[d][n] # None
    BY TypeParts, ReadyType DEF TypeInv, Ready, Live
  <1> QED
    BY <1>1, StillDated DEF CredOf

LEMMA LoginsDated ==
    ASSUME TypeInv, [Next]_vars, DatedInv, NEW t \in Tasks,
           \/ LoginCancelled(t) \/ AfterLogin(t)
           \/ \E p \in People : LoginAnswers(t, p)
           \/ \E d \in Devices, n \in Names : BeginAdd(t, d, n) \/ BeginRelogin(t, d, n)
    PROVE  DatedInv'
  <1> DEFINE j == job[t]
  <1>1. DataOK /\ j \in Jobs /\ Stage(at[t], j)
    BY TypeParts, JobType DEF TypeInv
  <1>2. CASE LoginCancelled(t)
    <2>1. DatedData'
      BY <1>2, FilesStay DEF LoginCancelled, store
    <2> QED
      BY <1>2, <2>1, EndDated DEF LoginCancelled
  <1>3. CASE AfterLogin(t)
    <2>1. End(t) /\ UNCHANGED <<entry, backup, shared>>
          /\ (UNCHANGED live \/ (Verified(j) /\ ActivateAfterRelogin(j)))
          /\ j.on \in Devices /\ j.name \in Names
      BY <1>1, <1>3 DEF AfterLogin, store, Stage
    <2>2. CASE UNCHANGED live
      BY <2>1, <2>2, FilesStay, EndDated
    <2>3. CASE Verified(j) /\ live' = [live EXCEPT ![j.on] = CredOf(Visible(j.on, j.name))]
      <3>1. CredOf(Visible(j.on, j.name)).tok <= clock'
        BY <2>1, <2>3, ReadyDated DEF Verified, Ready
      <3>2. DatedData'
        BY <2>1, <2>3, <3>1, LiveDated
      <3> QED
        BY <2>1, <3>2, EndDated
    <2> QED
      BY <2>1, <2>2, <2>3 DEF ActivateAfterRelogin
  <1>4. ASSUME NEW p \in People, LoginAnswers(t, p) PROVE DatedInv'
    <2> DEFINE c == [of |-> p, tok |-> clock + 1]
    <2>1. /\ clock \in Nat /\ clock' = clock + 1 /\ UNCHANGED live
          /\ j.on \in Devices /\ j.name \in Names
      BY <1>1, <1>4 DEF LoginAnswers, DataOK, Stage
    <2>2. c \in Credentials /\ c.tok <= clock'
      BY <2>1 DEF Credentials
    <2>3. CASE WriteAccount(t, j.on, j.name, c, j)
      <3> HIDE DEF c, j
      <3> QED
        BY <1>1, <2>1, <2>2, <2>3, WriteDated
    <2>4. CASE End(t) /\ UNCHANGED store
      BY <2>1, <2>4, FilesStay, EndDated DEF store
    <2> QED
      BY <1>4, <2>3, <2>4 DEF LoginAnswers
  <1>5. ASSUME NEW d \in Devices, NEW n \in Names, BeginAdd(t, d, n) \/ BeginRelogin(t, d, n)
        PROVE  DatedInv'
    <2>1. DatedData'
      BY <1>5, FilesStay DEF BeginAdd, BeginRelogin, store, runtime
    <2> DEFINE base == IF Listed(d, n) THEN VersionOf(d, n) ELSE 0
               added == [Idle EXCEPT !.on = d, !.op = "add", !.name = n,
                                     !.before = Current(d), !.base = base]
               again == [Idle EXCEPT !.on = d, !.op = "relogin", !.name = n,
                                     !.of = entry[d][n].of, !.base = VersionOf(d, n)]
    <2>2. Become(t, added) \/ Become(t, again)
      BY <1>5 DEF BeginAdd, BeginRelogin
    <2>3. added.carry = None /\ again.carry = None
      BY DEF Idle
    <2> HIDE DEF added, again
    <2> QED
      BY <2>1, <2>2, <2>3, BecomeDated
  <1> QED
    BY <1>2, <1>3, <1>4, <1>5

LEMMA UsesDated ==
    ASSUME TypeInv, [Next]_vars, DatedInv, NEW t \in Tasks,
           \/ AfterWriteBack(t) \/ Activate(t)
           \/ \E d \in Devices, n \in Names : BeginUse(t, d, n)
    PROVE  DatedInv'
  <1> DEFINE j == job[t]
  <1>1. DataOK /\ j \in Jobs /\ Stage(at[t], j)
    BY TypeParts, JobType DEF TypeInv
  <1>2. CASE AfterWriteBack(t)
    BY <1>2, FilesStay, GoesOnDated DEF AfterWriteBack, store
  <1>3. CASE Activate(t)
    <2>1. End(t) /\ UNCHANGED <<entry, backup, shared>>
          /\ (UNCHANGED live
               \/ (Ready(j.on, j.name)
                   /\ live' = [live EXCEPT ![j.on] = CredOf(entry[j.on][j.name])]))
          /\ j.on \in Devices /\ j.name \in Names
      BY <1>1, <1>3 DEF Activate, store, runtime, Stage
    <2>2. CASE UNCHANGED live
      BY <2>1, <2>2, FilesStay, EndDated
    <2>3. CASE /\ Ready(j.on, j.name)
               /\ live' = [live EXCEPT ![j.on] = CredOf(entry[j.on][j.name])]
      BY <2>1, <2>3, ReadyDated, LiveDated, EndDated
    <2> QED
      BY <2>1, <2>2, <2>3
  <1>4. ASSUME NEW d \in Devices, NEW n \in Names, BeginUse(t, d, n) PROVE DatedInv'
    <2> DEFINE m == marker[d]
               i == [[Idle EXCEPT !.on = d, !.op = "use", !.name = n] EXCEPT !.to = m.name]
    <2>1. UNCHANGED live /\ "use" \in Ops
      BY <1>4 DEF BeginUse, Begins
    <2>2. CASE WriteAccount(t, d, m.name, live[d], i) /\ m # None /\ live[d] # None
      <3>1. m.name \in Names /\ live[d] \in Credentials
        BY <1>1, <2>2 DEF DataOK, Marks
      <3>2. i \in Jobs
        BY <2>1, <3>1, IdleType DEF Jobs
      <3>3. live[d].tok <= clock'
        BY <2>2, StillDated
      <3> HIDE DEF i, m
      <3> QED
        BY <2>1, <2>2, <3>1, <3>2, <3>3, WriteDated
    <2> DEFINE plain == [Idle EXCEPT !.on = d, !.op = "use", !.name = n]
               healed == [plain EXCEPT !.healed = TRUE]
    <2>3. plain.carry = None /\ healed.carry = None
      BY DEF Idle
    <2>4. \/ WriteAccount(t, d, m.name, live[d], i) /\ m # None /\ live[d] # None
          \/ UNCHANGED store /\ (Become(t, plain) \/ Become(t, healed))
      BY <1>4 DEF BeginUse
    <2>5. CASE UNCHANGED store /\ (Become(t, plain) \/ Become(t, healed))
      <3>1. DatedData'
        BY <2>1, <2>5, FilesStay DEF store
      <3> HIDE DEF plain, healed
      <3> QED
        BY <2>3, <2>5, <3>1, BecomeDated
    <2> QED
      BY <2>2, <2>4, <2>5
  <1> QED
    BY <1>2, <1>3, <1>4

LEMMA RefreshesDated ==
    ASSUME TypeInv, [Next]_vars, DatedInv, NEW t \in Tasks,
           \/ RefreshAnswers(t) \/ RefreshFails(t) \/ AfterRefresh(t)
           \/ \E d \in Devices, n \in Names : BeginRefresh(t, d, n)
    PROVE  DatedInv'
  <1> DEFINE j == job[t]
  <1>1. DataOK /\ j \in Jobs /\ Stage(at[t], j)
    BY TypeParts, JobType DEF TypeInv
  <1>2. CASE RefreshFails(t)
    BY <1>2, FilesStay, EndDated DEF RefreshFails, store, runtime
  <1>3. CASE AfterRefresh(t)
    <2>1. End(t) /\ UNCHANGED <<entry, backup, shared>>
          /\ (UNCHANGED live \/ live' = [live EXCEPT ![j.on] = j.carry])
          /\ j.on \in Devices /\ j.carry \in Credentials
      BY <1>1, <1>3 DEF AfterRefresh, store, runtime, Stage
    <2>2. j.carry.tok <= clock'
      BY <2>1, StillDated, NullAssumption
    <2>3. DatedData'
      BY <2>1, <2>2, FilesStay, LiveDated
    <2> QED
      BY <2>1, <2>3, EndDated
  <1>4. CASE RefreshAnswers(t)
    <2> DEFINE c == [of |-> j.of, tok |-> clock + 1]
    <2>1. /\ clock \in Nat /\ clock' = clock + 1 /\ UNCHANGED live
          /\ j.on \in Devices /\ j.name \in Names /\ j.of \in People
      BY <1>1, <1>4 DEF RefreshAnswers, runtime, DataOK, Stage
    <2>2. c \in Credentials /\ c.tok <= clock'
      BY <2>1 DEF Credentials
    <2>3. CASE WriteAccount(t, j.on, j.name, c, j)
      <3> HIDE DEF c, j
      <3> QED
        BY <1>1, <2>1, <2>2, <2>3, WriteDated
    <2>4. CASE End(t) /\ UNCHANGED store
      BY <2>1, <2>4, FilesStay, EndDated DEF store
    <2> QED
      BY <1>4, <2>3, <2>4 DEF RefreshAnswers
  <1>5. ASSUME NEW d \in Devices, NEW n \in Names, BeginRefresh(t, d, n) PROVE DatedInv'
    <2>1. DatedData' /\ Ready(d, n)
      BY <1>5, FilesStay DEF BeginRefresh, store, runtime
    <2> DEFINE e == entry[d][n]
               guard == IF live[d] # None /\ live[d].of = e.of THEN live[d] ELSE None
               k == [Idle EXCEPT !.on = d, !.op = "refresh", !.name = n, !.of = e.of,
                                 !.base = e.ver, !.carry = CredOf(e), !.guard = guard]
    <2>2. Become(t, k)
      BY <1>5 DEF BeginRefresh
    <2>3. k.carry = CredOf(entry[d][n])
      BY DEF Idle
    <2> HIDE DEF k
    <2> QED
      BY <2>1, <2>2, <2>3, ReadyDated, BecomeDated
  <1> QED
    BY <1>2, <1>3, <1>4, <1>5

LEMMA ChangesDated ==
    ASSUME TypeInv, [Next]_vars, DatedInv, NEW t \in Tasks,
           \/ WriteIndex(t) \/ ConfirmRemove(t) \/ AfterRemove(t) \/ ConfirmRename(t)
           \/ WriteRenamed(t) \/ AfterRename(t) \/ AfterRestore(t)
           \/ \E d \in Devices, n \in Names :
                 Restore(t, d, n) \/ \E op, m : BeginChange(t, op, d, n, m)
    PROVE  DatedInv'
  <1> DEFINE j == job[t]
  <1>1. DataOK /\ j \in Jobs /\ Stage(at[t], j) /\ clock' \in Nat
    BY TypeParts, JobType, ClockAdvances DEF TypeInv
  <1>2. CASE WriteIndex(t)
    BY <1>2, FilesStay, GoesOnDated DEF WriteIndex, runtime
  <1>3. CASE AfterRestore(t)
    BY <1>3, FilesStay, EndDated DEF AfterRestore, store, runtime
  <1>4. CASE ConfirmRemove(t)
    <2>1. UNCHANGED live /\ j.on \in Devices /\ j.name \in Names
      BY <1>1, <1>4 DEF ConfirmRemove, runtime, Stage
    <2>2. CASE End(t) /\ UNCHANGED store
      BY <2>1, <2>2, FilesStay, EndDated DEF store
    <2>3. CASE /\ SetEntry(j.on, j.name, Tombstone(j.on, j.name))
               /\ Become(t, [j EXCEPT !.names = index[j.on]])
               /\ UNCHANGED <<backup, shared>>
      <3>1. Tombstone(j.on, j.name).tok <= clock'
        BY <1>1 DEF Tombstone
      <3>2. DatedData'
        BY <2>1, <2>3, <3>1, EntryDated
      <3>3. \E k : Become(t, k) /\ k.carry = j.carry
        BY <1>1, <2>3 DEF Jobs
      <3> QED
        BY <3>2, <3>3, StillDated, BecomeDated
    <2> QED
      BY <1>4, <2>2, <2>3 DEF ConfirmRemove
  <1>5. CASE AfterRemove(t)
    <2>1. \A b \in Devices, m \in Names : backup'[b][m] = backup[b][m] \/ backup'[b][m] = None
      BY <1>1, <1>5 DEF AfterRemove, DataOK
    <2>2. DatedData'
      BY <1>5, <2>1, DataDated DEF AfterRemove, runtime
    <2> QED
      BY <1>5, <2>2, EndDated DEF AfterRemove
  <1>6. CASE ConfirmRename(t)
    <2> DEFINE e == Visible(j.on, j.name)
               i == [e EXCEPT !.ver = @ + 1]
    <2>1. UNCHANGED live /\ j.on \in Devices /\ j.name \in Names
      BY <1>1, <1>6 DEF ConfirmRename, runtime, Stage
    <2>2. CASE End(t) /\ UNCHANGED store
      BY <2>1, <2>2, FilesStay, EndDated DEF store
    <2>3. CASE /\ SetEntry(j.on, j.name, None) /\ e # None
               /\ Become(t, [j EXCEPT !.carry = i,
                                      !.names = (index[j.on] \ {j.name}) \cup {j.to}])
               /\ UNCHANGED <<backup, shared>>
      <3>1. DatedData'
        BY <2>1, <2>3, EntryDated
      <3>2. e = entry[j.on][j.name] /\ e \in Entries
        BY <1>1, <2>1, <2>3, VisibleType DEF Visible
      <3>3. i.tok = e.tok /\ e.tok <= clock'
        BY <2>1, <2>3, <3>2, StillDated DEF Entries
      <3> DEFINE k == [j EXCEPT !.carry = i, !.names = (index[j.on] \ {j.name}) \cup {j.to}]
      <3>4. Become(t, k) /\ k.carry = i
        BY <1>1, <2>3 DEF Jobs
      <3> HIDE DEF i, e, k
      <3> QED
        BY <3>1, <3>3, <3>4, BecomeDated
    <2> QED
      BY <1>6, <2>2, <2>3 DEF ConfirmRename
  <1>7. CASE WriteRenamed(t)
    <2>1. /\ j.on \in Devices /\ j.to \in Names /\ SetEntry(j.on, j.to, j.carry)
          /\ UNCHANGED <<backup, shared, live>> /\ job' = job
      BY <1>1, <1>7 DEF WriteRenamed, runtime, Stage
    <2> QED
      BY <2>1, StillDated, EntryDated, GoesOnDated
  <1>8. CASE AfterRename(t)
    <2>1. \A b \in Devices, m \in Names :
             \/ backup'[b][m] = backup[b][m] \/ backup'[b][m] = None
             \/ backup'[b][m] = backup[b][j.name]
      BY <1>1, <1>8 DEF AfterRename, DataOK
    <2>2. j.name \in Names
      BY <1>1, <1>8 DEF AfterRename, Stage
    <2>3. \A b \in Devices, m \in Names :
             backup'[b][m] = backup[b][m] \/ (backup'[b][m] # None => backup'[b][m].tok <= clock')
      BY <2>1, <2>2, StillDated
    <2>4. UNCHANGED <<entry, shared, live>> /\ End(t)
      BY <1>8 DEF AfterRename
    <2>5. DatedData'
      BY <2>3, <2>4, DataDated
    <2> QED
      BY <2>4, <2>5, EndDated
  <1>9. ASSUME NEW d \in Devices, NEW n \in Names, Restore(t, d, n) PROVE DatedInv'
    <2> DEFINE e == [backup[d][n] EXCEPT !.ver = 1]
    <2>1. SetEntry(d, n, e) /\ UNCHANGED <<backup, shared, live>> /\ backup[d][n] # None
      BY <1>9 DEF Restore, runtime
    <2>2. e.tok = backup[d][n].tok /\ e.tok <= clock'
      BY <1>1, <2>1, StillDated DEF DataOK, Entries
    <2> DEFINE k == [Idle EXCEPT !.on = d, !.op = "restore", !.name = n,
                                 !.names = index[d] \cup {n}]
    <2>3. Become(t, k)
      BY <1>9 DEF Restore
    <2>4. k.carry = None
      BY DEF Idle
    <2> HIDE DEF e, k
    <2>5. DatedData'
      BY <2>1, <2>2, EntryDated
    <2> QED
      BY <2>3, <2>4, <2>5, BecomeDated
  <1>10. ASSUME NEW d \in Devices, NEW n \in Names, NEW op, NEW m, BeginChange(t, op, d, n, m)
         PROVE  DatedInv'
    <2>1. DatedData'
      BY <1>10, FilesStay DEF BeginChange, store, runtime
    <2> DEFINE k == [Idle EXCEPT !.on = d, !.op = op, !.name = n, !.to = m,
                                 !.base = Shown(d, n).ver]
    <2>2. Become(t, k)
      BY <1>10 DEF BeginChange
    <2>3. k.carry = None
      BY DEF Idle
    <2> HIDE DEF k
    <2> QED
      BY <2>1, <2>2, <2>3, BecomeDated
  <1> QED
    BY <1>2, <1>3, <1>4, <1>5, <1>6, <1>7, <1>8, <1>9, <1>10

LEMMA DatedStep == ASSUME TypeInv, DatedInv, [Next]_vars PROVE DatedInv'
  <1>1. ASSUME NEW t \in Tasks, Command(t) PROVE DatedInv'
    BY <1>1, LoginsDated, UsesDated, RefreshesDated, ChangesDated DEF Command
  <1>2. ASSUME job' = job, DatedData' PROVE DatedInv'
    BY <1>2, StillDated DEF DatedInv, Dated
  <1>3. DataOK /\ clock' \in Nat
    BY TypeParts, ClockAdvances DEF TypeInv
  <1>4. ASSUME NEW d \in Devices, CodexRotates(d) PROVE DatedInv'
    <2>1. \A b \in Devices : live'[b] = live[b] \/ (b = d /\ live'[b].tok = clock')
      BY <1>3, <1>4 DEF CodexRotates, DataOK, Credentials
    <2>2. DatedData'
      BY <1>3, <1>4, <2>1, DataDated DEF CodexRotates, store
    <2> QED
      BY <1>2, <1>4, <2>2 DEF CodexRotates
  <1>5. ASSUME NEW d \in Devices, NEW k \in Keys, Upload(d, k) PROVE DatedInv'
    <2>1. \A n \in Names : shared'.entry[n] = shared.entry[n]
                             \/ shared'.entry[n] = entry[d][n]
      BY <1>3, <1>5 DEF Upload, DataOK
    <2>2. DatedData'
      BY <1>5, <2>1, StillDated, DataDated DEF Upload, runtime
    <2> QED
      BY <1>2, <1>5, <2>2 DEF Upload
  <1>6. ASSUME NEW d \in Devices, NEW k \in Keys, Download(d, k) PROVE DatedInv'
    <2>1. \A b \in Devices, n \in Names : entry'[b][n] = entry[b][n]
                                            \/ entry'[b][n] = shared.entry[n]
      BY <1>3, <1>6 DEF Download, DataOK
    <2>2. DatedData'
      BY <1>6, <2>1, StillDated, DataDated DEF Download, runtime
    <2> QED
      BY <1>2, <1>6, <2>2 DEF Download
  <1>7. CASE UNCHANGED vars
    BY <1>2, <1>7, FilesStay DEF vars, store, runtime
  <1> QED
    BY <1>1, <1>4, <1>5, <1>6, <1>7 DEF Next

LEMMA DatedInit == ASSUME Init PROVE DatedInv
  <1>1. clock = 1 /\ job = [t \in Tasks |-> Idle]
    BY DEF Init
  <1>2. \A d \in Devices, n \in Names :
           /\ entry[d][n] # None => entry[d][n].tok = 1
           /\ backup[d][n] # None => backup[d][n].tok = 1
    BY DEF Init
  <1>3. \A n \in Names : shared.entry[n] # None => shared.entry[n].tok = 1
    BY DEF Init
  <1>4. \A d \in Devices : live[d] = None
    BY DEF Init
  <1>5. DatedData
    <2>1. ASSUME NEW d \in Devices, NEW n \in Names
          PROVE  Dated(entry[d][n]) /\ Dated(backup[d][n])
      BY <1>1, <1>2 DEF Dated
    <2>2. ASSUME NEW n \in Names PROVE Dated(shared.entry[n])
      BY <1>1, <1>3 DEF Dated
    <2>3. ASSUME NEW d \in Devices PROVE Dated(live[d])
      BY <1>4 DEF Dated
    <2> QED
      BY <2>1, <2>2, <2>3 DEF DatedData
  <1> QED
    BY <1>1, <1>5 DEF DatedInv, Dated, Idle

\* A login and a refresh write a token just handed out, and auth.json is compared.
LEMMA FreshStep ==
    ASSUME TypeInv, DatedInv, [Next]_vars, NEW d \in Devices, NEW n \in Names,
           Written(d, n), Ready(d, n), Live(entry'[d][n])
    PROVE  entry'[d][n].tok >= entry[d][n].tok
  <1>1. /\ Visible(d, n) # None /\ Visible(d, n) = entry[d][n]
        /\ entry[d][n] \in Entries /\ entry[d][n] # None
    BY TypeParts, ReadyType DEF TypeInv, Ready, Live
  <1>2. entry[d][n].tok \in Nat /\ entry[d][n].tok <= clock /\ clock \in Nat
    BY <1>1 DEF Entries, DatedInv, DatedData, Dated, TypeInv, TypeOK
  <1>3. entry'[d][n].tok \in Nat
    <2>1. TypeInv'
      BY TypeStep
    <2>2. entry'[d][n] \in Entries
      BY <2>1 DEF TypeInv, TypeOK, Live
    <2> QED
      BY <2>2 DEF Entries
  <1>4. entry'[d][n].tok = clock + 1 \/ entry'[d][n].tok > entry[d][n].tok
    BY <1>1, WhoWrites DEF ByLogin, ByRefresh, ByWriteBack
  <1> QED
    BY <1>2, <1>3, <1>4

\* No command replaces the tokens of an account by older ones: those of a login and
\* of a refresh are the last handed out, and auth.json goes back only when newer.
THEOREM TokensGrow == Spec => FreshnessKept
  <1>1. Init => TypeInv /\ DatedInv
    BY InitType, DatedInit
  <1>2. TypeInv /\ DatedInv /\ [Next]_vars => TypeInv' /\ DatedInv'
    BY TypeStep, DatedStep
  <1>3. TypeInv /\ DatedInv /\ [Next]_vars
        => [\A d \in Devices, n \in Names :
              Written(d, n) /\ Ready(d, n) /\ Live(entry'[d][n])
                  => entry'[d][n].tok >= entry[d][n].tok]_vars
    BY FreshStep
  <1> QED
    BY <1>1, <1>2, <1>3, PTL DEF Spec, FreshnessKept
-----------------------------------------------------------------------------
(* What stays in the list *)

\* One command at a time; or none that drops a protected copy.
Unhurried ==
    \/ \A t, u \in Tasks : t = u
    \/ {"remove", "rename"} \cap Ops = {}

Copied(d, n) == backup[d][n] # None

\* What a command that is about to end relies on.
CopyAtHand(t) ==
    /\ at[t] # "idle" => job[t].op \in Ops
    /\ at[t] \in {"index", "after"} =>
        /\ job[t].op \in {"add", "relogin", "restore"} => Copied(job[t].on, job[t].name)
        /\ job[t].op = "remove" => job[t].name \notin saved[job[t].on]

CopyInv ==
    /\ \A d \in Devices : \A n \in saved[d] : Copied(d, n)
    /\ \A t \in Tasks : CopyAtHand(t)

LEMMA CopiedIsListed == ASSUME TypeInv, CopyInv PROVE ListedUntilRemoved
  <1>1. ASSUME NEW d \in Devices, NEW n \in saved[d]
        PROVE  Listed(d, n) \/ (Visible(d, n) # None /\ ~Ready(d, n))
    <2>1. backup[d][n] # None
      BY DEF CopyInv, Copied
    <2>2. CASE Visible(d, n) = None
      BY <2>1, <2>2 DEF Listed
    <2>3. CASE Visible(d, n) # None
      BY <2>3 DEF Listed, Ready
    <2> QED
      BY <2>2, <2>3
  <1> QED
    BY <1>1 DEF ListedUntilRemoved

\* A command goes on; no copy is dropped and nothing is saved anew.
LEMMA CopiesStay ==
    ASSUME TypeInv, CopyInv, NEW t \in Tasks, NEW step, NEW j, Goto(t, step),
           Become(t, j) \/ (job' = job /\ j = job[t]),
           \A d \in Devices, n \in Names : Copied(d, n) => Copied(d, n)',
           \A d \in Devices : saved'[d] \subseteq saved[d],
           CopyAtHand(t)'
    PROVE  CopyInv'
  <1>1. \A d \in Devices : saved[d] \subseteq Names
    BY DEF TypeInv, TypeOK
  <1>2. \A d \in Devices : \A n \in saved'[d] : Copied(d, n)'
    BY <1>1 DEF CopyInv
  <1>3. ASSUME NEW u \in Tasks, u # t PROVE CopyAtHand(u)'
    <2>1. at'[u] = at[u] /\ job'[u] = job[u]
      BY <1>3 DEF TypeInv, TypeOK, Goto, Become
    <2>2. at[u] \in {"index", "after"} => job[u].on \in Devices /\ job[u].name \in Names
      BY JobType DEF Stage
    <2> QED
      BY <2>1, <2>2 DEF CopyInv, CopyAtHand
  <1> QED
    BY <1>2, <1>3 DEF CopyInv

\* An account is written: it is copied first.
LEMMA WriteCopies ==
    ASSUME TypeInv, CopyInv, NEW t \in Tasks, NEW d \in Devices, NEW n \in Names,
           NEW c \in Credentials, NEW j \in Jobs, WriteAccount(t, d, n, c, j), j.on = d,
           j.op \in Ops, j.op \in {"add", "relogin", "refresh"} => j.name = n, j.op # "restore", j.op # "remove",
           UNCHANGED saved
    PROVE  CopyInv'
  <1>1. DataOK
    BY TypeParts DEF TypeInv
  <1> DEFINE e == [ver |-> VersionOf(d, n) + 1, of |-> c.of, tok |-> c.tok]
  <1>2. e \in Entries
    BY <1>1, VisibleType DEF Entries, Credentials
  <1>3. backup' = [backup EXCEPT ![d][n] = e]
    BY DEF WriteAccount, Protect
  <1> HIDE DEF e
  <1>4. Copied(d, n)' /\ \A b \in Devices, m \in Names : Copied(b, m) => Copied(b, m)'
    BY <1>1, <1>2, <1>3, NullAssumption DEF Copied, DataOK
  <1>5. PICK k \in Jobs : k.op = j.op /\ k.on = j.on /\ k.name = j.name /\ Become(t, k)
    BY <1>1, WriteAccountEffect
  <1>6. Goto(t, "index") /\ job'[t] = k
    BY <1>1, <1>5, WriteAccountEffect DEF Become, TypeInv, TypeOK
  <1>7. CopyAtHand(t)'
    BY <1>4, <1>5, <1>6 DEF CopyAtHand
  <1> QED
    BY <1>4, <1>5, <1>6, <1>7, CopiesStay

\* The commands that leave copies and saved names alone.
LEMMA QuietCopies ==
    ASSUME TypeInv, CopyInv, NEW t \in Tasks,
           \/ LoginCancelled(t) \/ WriteIndex(t) \/ AfterWriteBack(t) \/ Activate(t)
           \/ RefreshFails(t) \/ AfterRefresh(t) \/ WriteRenamed(t)
           \/ \E d \in Devices, n \in Names :
                 \/ BeginAdd(t, d, n) \/ BeginRelogin(t, d, n) \/ BeginRefresh(t, d, n)
                 \/ \E m \in Names : BeginChange(t, "remove", d, n, m) \/ BeginChange(t, "rename", d, n, m)
    PROVE  CopyInv'
  <1>1. UNCHANGED <<backup, saved>>
    BY DEF LoginCancelled, WriteIndex, AfterWriteBack, Activate, RefreshFails, AfterRefresh,
           WriteRenamed, BeginAdd, BeginRelogin, BeginRefresh, BeginChange, store
  <1>2. \A d \in Devices, n \in Names : Copied(d, n) => Copied(d, n)'
    BY <1>1 DEF Copied
  <1>3. ASSUME NEW step, NEW j, Goto(t, step), Become(t, j) \/ (job' = job /\ j = job[t]),
               step # "idle" => j.op \in Ops,
               step \in {"index", "after"} =>
                  j = job[t] /\ (at[t] \in {"index", "after"} \/ j.op = "rename")
        PROVE  CopyInv'
    <2>1. at'[t] = step /\ job'[t] = j
      BY <1>3 DEF Goto, Become, TypeInv, TypeOK
    <2>2. CopyAtHand(t)'
      BY <1>1, <1>3, <2>1 DEF CopyAtHand, CopyInv, Copied
    <2> QED
      BY <1>1, <1>2, <1>3, <2>2, CopiesStay
  <1>4. ASSUME End(t) PROVE CopyInv'
    BY <1>3, <1>4 DEF End
  <1>5. CASE WriteIndex(t) \/ AfterWriteBack(t)
    BY <1>3, <1>5 DEF WriteIndex, AfterWriteBack, CopyInv, CopyAtHand
  <1>6. CASE WriteRenamed(t)
    <2>1. job[t].op = "rename"
      BY <1>6, JobType DEF WriteRenamed, Stage
    <2> QED
      BY <1>3, <1>6, <2>1 DEF WriteRenamed, CopyInv, CopyAtHand
  <1>7. CASE LoginCancelled(t) \/ Activate(t) \/ RefreshFails(t) \/ AfterRefresh(t)
    BY <1>4, <1>7 DEF LoginCancelled, Activate, RefreshFails, AfterRefresh
  <1>8. ASSUME NEW d \in Devices, NEW n \in Names,
               \/ BeginAdd(t, d, n) \/ BeginRelogin(t, d, n) \/ BeginRefresh(t, d, n)
               \/ \E op, m : BeginChange(t, op, d, n, m)
        PROVE  CopyInv'
    <2>1. \E step \in {"login", "asked", "confirm"} : \E j :
             Goto(t, step) /\ Become(t, j) /\ j.op \in Ops
      <3> DEFINE base == IF Listed(d, n) THEN VersionOf(d, n) ELSE 0
                 e == entry[d][n]
                 guard == IF live[d] # None /\ live[d].of = e.of THEN live[d] ELSE None
                 added == [Idle EXCEPT !.on = d, !.op = "add", !.name = n,
                                       !.before = Current(d), !.base = base]
                 again == [Idle EXCEPT !.on = d, !.op = "relogin", !.name = n,
                                       !.of = e.of, !.base = VersionOf(d, n)]
                 asked == [Idle EXCEPT !.on = d, !.op = "refresh", !.name = n, !.of = e.of,
                                       !.base = e.ver, !.carry = CredOf(e), !.guard = guard]
                 change(op, m) == [Idle EXCEPT !.on = d, !.op = op, !.name = n, !.to = m,
                                               !.base = Shown(d, n).ver]
      <3>1. /\ added.op = "add" /\ again.op = "relogin" /\ asked.op = "refresh"
            /\ \A op, m : change(op, m).op = op
        BY DEF Idle
      <3>2. \/ Goto(t, "login") /\ Become(t, added) /\ "add" \in Ops
            \/ Goto(t, "login") /\ Become(t, again) /\ "relogin" \in Ops
            \/ Goto(t, "asked") /\ Become(t, asked) /\ "refresh" \in Ops
            \/ Goto(t, "confirm") /\ \E op \in Ops : \E m : Become(t, change(op, m))
        BY <1>8 DEF BeginAdd, BeginRelogin, BeginRefresh, BeginChange, Begins
      <3> HIDE DEF added, again, asked, change
      <3> QED
        BY <3>1, <3>2
    <2> QED
      BY <1>3, <2>1
  <1> QED
    BY <1>5, <1>6, <1>7, <1>8

LEMMA WritersCopy ==
    ASSUME TypeInv, CopyInv, NEW t \in Tasks,
           \/ RefreshAnswers(t)
           \/ \E p \in People : LoginAnswers(t, p)
           \/ \E d \in Devices, n \in Names : BeginUse(t, d, n) \/ Restore(t, d, n)
    PROVE  CopyInv'
  <1> DEFINE j == job[t]
  <1>1. DataOK /\ j \in Jobs /\ Stage(at[t], j)
    BY TypeParts, JobType DEF TypeInv
  <1>2. ASSUME NEW step, NEW k, Goto(t, step), Become(t, k), step \notin {"index", "after"},
               step # "idle" => k.op \in Ops, UNCHANGED <<store, saved>>
        PROVE  CopyInv'
    <2>1. at'[t] = step /\ job'[t] = k
      BY <1>2 DEF Goto, Become, TypeInv, TypeOK
    <2>2. CopyAtHand(t)' /\ \A d \in Devices, n \in Names : Copied(d, n) => Copied(d, n)'
      BY <1>2, <2>1 DEF CopyAtHand, Copied, store
    <2> QED
      BY <1>2, <2>2, CopiesStay
  <1>3. ASSUME End(t), UNCHANGED <<store, saved>> PROVE CopyInv'
    BY <1>2, <1>3 DEF End
  <1>4. ASSUME NEW p \in People, LoginAnswers(t, p) PROVE CopyInv'
    <2> DEFINE c == [of |-> p, tok |-> clock + 1]
    <2>1. j.on \in Devices /\ j.name \in Names /\ j.op \in {"add", "relogin"} /\ c \in Credentials
          /\ j.op \in Ops
      BY <1>1, <1>4 DEF LoginAnswers, Stage, DataOK, Credentials, CopyInv, CopyAtHand
    <2>2. UNCHANGED saved
          /\ (WriteAccount(t, j.on, j.name, c, j) \/ (End(t) /\ UNCHANGED store))
      BY <1>4 DEF LoginAnswers
    <2> HIDE DEF c, j
    <2> QED
      BY <1>1, <1>3, <2>1, <2>2, WriteCopies
  <1>5. CASE RefreshAnswers(t)
    <2> DEFINE c == [of |-> j.of, tok |-> clock + 1]
    <2>1. j.on \in Devices /\ j.name \in Names /\ j.op = "refresh" /\ c \in Credentials
          /\ j.op \in Ops
      BY <1>1, <1>5 DEF RefreshAnswers, Stage, DataOK, Credentials, CopyInv, CopyAtHand
    <2>2. UNCHANGED saved
          /\ (WriteAccount(t, j.on, j.name, c, j) \/ (End(t) /\ UNCHANGED store))
      BY <1>5 DEF RefreshAnswers
    <2> HIDE DEF c, j
    <2> QED
      BY <1>1, <1>3, <2>1, <2>2, WriteCopies
  <1>6. ASSUME NEW d \in Devices, NEW n \in Names, BeginUse(t, d, n) PROVE CopyInv'
    <2> DEFINE m == marker[d]
               i == [[Idle EXCEPT !.on = d, !.op = "use", !.name = n] EXCEPT !.to = m.name]
               plain == [Idle EXCEPT !.on = d, !.op = "use", !.name = n]
               healed == [plain EXCEPT !.healed = TRUE]
    <2>1. UNCHANGED saved /\ "use" \in Ops
          /\ (\/ WriteAccount(t, d, m.name, live[d], i) /\ m # None /\ live[d] # None
              \/ UNCHANGED store /\ Goto(t, "activate") /\ (Become(t, plain) \/ Become(t, healed)))
      BY <1>6 DEF BeginUse, Begins
    <2>2. CASE WriteAccount(t, d, m.name, live[d], i) /\ m # None /\ live[d] # None
      <3>1. m.name \in Names /\ live[d] \in Credentials
        BY <1>1, <2>2 DEF DataOK, Marks
      <3>2. i \in Jobs /\ i.on = d /\ i.op = "use"
        BY <2>1, <3>1, IdleType DEF Jobs
      <3> HIDE DEF i, m
      <3> QED
        BY <2>1, <2>2, <3>1, <3>2, WriteCopies
    <2>3. plain.op = "use" /\ healed.op = "use"
      BY DEF Idle
    <2> HIDE DEF plain, healed
    <2> QED
      BY <1>2, <2>1, <2>2, <2>3
  <1>7. ASSUME NEW d \in Devices, NEW n \in Names, Restore(t, d, n) PROVE CopyInv'
    <2> DEFINE k == [Idle EXCEPT !.on = d, !.op = "restore", !.name = n,
                                 !.names = index[d] \cup {n}]
    <2>1. Become(t, k) /\ Goto(t, "index") /\ UNCHANGED <<backup, saved>> /\ Copied(d, n)
          /\ "restore" \in Ops
      BY <1>7 DEF Restore, Copied, Begins
    <2>2. k.on = d /\ k.name = n /\ k.op = "restore"
      BY DEF Idle
    <2> HIDE DEF k
    <2>3. at'[t] = "index" /\ job'[t] = k
      BY <2>1 DEF Goto, Become, TypeInv, TypeOK
    <2>4. CopyAtHand(t)' /\ \A b \in Devices, m \in Names : Copied(b, m) => Copied(b, m)'
      BY <2>1, <2>2, <2>3 DEF CopyAtHand, Copied
    <2> QED
      BY <2>1, <2>4, CopiesStay
  <1> QED
    BY <1>4, <1>5, <1>6, <1>7

\* What is saved at the end of a command has its copy.
LEMMA SavesCopied ==
    ASSUME TypeInv, CopyInv, NEW t \in Tasks, AfterLogin(t) \/ AfterRestore(t), Unhurried
    PROVE  CopyInv'
  <1> DEFINE j == job[t]
  <1>1. /\ DataOK /\ j \in Jobs /\ j.on \in Devices /\ j.name \in Names
        /\ at[t] = "after" /\ j.op \in {"add", "relogin", "restore"}
    BY TypeParts, JobType DEF TypeInv, Stage, AfterLogin, AfterRestore
  <1>2. UNCHANGED backup /\ End(t) /\ Copied(j.on, j.name)
    BY <1>1 DEF AfterLogin, AfterRestore, store, CopyInv, CopyAtHand
  <1>3. \A d \in Devices : \A n \in saved'[d] : n \in saved[d] \/ (d = j.on /\ n = j.name)
    BY <1>1 DEF AfterLogin, AfterRestore, DataOK
  <1>4. \A d \in Devices : \A n \in saved'[d] : Copied(d, n)'
    BY <1>2, <1>3 DEF CopyInv, Copied
  <1>5. ASSUME NEW u \in Tasks PROVE CopyAtHand(u)'
    <2>1. CASE u = t
      BY <1>2, <2>1 DEF End, Goto, CopyAtHand, TypeInv, TypeOK
    <2>2. CASE u # t
      <3>1. at'[u] = at[u] /\ job'[u] = job[u]
        BY <1>2, <2>2 DEF End, Goto, Become, TypeInv, TypeOK
      <3>2. at[u] # "idle" => job[u].op # "remove"
        <4>1. "remove" \notin Ops
          BY <2>2 DEF Unhurried
        <4>2. at[u] # "idle" => job[u].op \in Ops
          BY DEF CopyInv, CopyAtHand
        <4> QED
          BY <4>1, <4>2
      <3> QED
        BY <1>2, <3>1, <3>2 DEF CopyInv, CopyAtHand, Copied
    <2> QED
      BY <2>1, <2>2
  <1> QED
    BY <1>4, <1>5 DEF CopyInv
\* Whoever drops a copy is alone.
LEMMA Alone ==
    ASSUME TypeInv, CopyInv, NEW t \in Tasks, Unhurried, at[t] # "idle",
           job[t].op \in {"remove", "rename"}
    PROVE  \A u \in Tasks : u = t
  BY DEF CopyInv, CopyAtHand, Unhurried

LEMMA ChangesCopied ==
    ASSUME TypeInv, CopyInv, NEW t \in Tasks, Unhurried,
           ConfirmRemove(t) \/ AfterRemove(t) \/ ConfirmRename(t) \/ AfterRename(t)
    PROVE  CopyInv'
  <1> DEFINE j == job[t]
             d == j.on
  <1>1. /\ DataOK /\ j \in Jobs /\ Stage(at[t], j) /\ d \in Devices /\ j.name \in Names
        /\ at[t] # "idle" /\ j.op \in {"remove", "rename"}
    BY TypeParts, JobType
       DEF TypeInv, Stage, ConfirmRemove, AfterRemove, ConfirmRename, AfterRename
  <1>2. (\A u \in Tasks : u = t) /\ j.op \in Ops
    BY <1>1, Alone DEF CopyInv, CopyAtHand
  <1>3. ASSUME CopyAtHand(t)', \A b \in Devices : \A n \in saved'[b] : Copied(b, n)'
        PROVE  CopyInv'
    BY <1>2, <1>3 DEF CopyInv
  <1>4. ASSUME End(t), \A b \in Devices : \A n \in saved'[b] : Copied(b, n)'
        PROVE  CopyInv'
    BY <1>3, <1>4 DEF End, Goto, CopyAtHand, TypeInv, TypeOK
  <1>5. CASE ConfirmRemove(t)
    <2>1. UNCHANGED backup
          /\ \A b \in Devices : saved'[b] \subseteq saved[b]
      BY <1>1, <1>5 DEF ConfirmRemove, store, DataOK
    <2>2. \A b \in Devices : \A n \in saved'[b] : Copied(b, n)'
      BY <2>1 DEF CopyInv, Copied
    <2>3. CASE /\ Become(t, [j EXCEPT !.names = index[d]]) /\ Goto(t, "index")
               /\ saved' = [saved EXCEPT ![d] = @ \ {j.name}]
      <3>1. /\ at'[t] = "index" /\ job'[t].op = j.op /\ job'[t].on = d /\ job'[t].name = j.name
        BY <1>1, <2>3 DEF Become, Goto, TypeInv, TypeOK, Jobs
      <3>2. j.name \notin saved'[d] /\ j.op = "remove"
        BY <1>1, <1>5, <2>3 DEF DataOK, ConfirmRemove
      <3>3. CopyAtHand(t)'
        BY <1>2, <3>1, <3>2 DEF CopyAtHand
      <3> QED
        BY <1>3, <2>2, <3>3
    <2> QED
      BY <1>4, <1>5, <2>2, <2>3 DEF ConfirmRemove
  <1>6. CASE AfterRemove(t)
    <2>1. /\ j.name \notin saved[d] /\ UNCHANGED saved /\ End(t)
          /\ backup' = [backup EXCEPT ![d][j.name] = None]
      BY <1>6 DEF AfterRemove, CopyInv, CopyAtHand
    <2>2. \A b \in Devices : \A n \in saved'[b] : Copied(b, n)'
      BY <1>1, <2>1 DEF CopyInv, Copied, DataOK
    <2> QED
      BY <1>4, <2>1, <2>2
  <1>7. CASE ConfirmRename(t)
    <2>1. UNCHANGED backup
          /\ \A b \in Devices : saved'[b] \subseteq saved[b]
      BY <1>1, <1>7 DEF ConfirmRename, store, DataOK
    <2>2. \A b \in Devices : \A n \in saved'[b] : Copied(b, n)'
      BY <2>1 DEF CopyInv, Copied
    <2>3. CASE \E i, m : Become(t, [j EXCEPT !.carry = i, !.names = m]) /\ Goto(t, "moved")
      <3>1. at'[t] = "moved" /\ job'[t].op = j.op
        BY <1>1, <2>3 DEF Become, Goto, TypeInv, TypeOK, Jobs
      <3>2. CopyAtHand(t)'
        BY <1>2, <3>1 DEF CopyAtHand
      <3> QED
        BY <1>3, <2>2, <3>2
    <2> QED
      BY <1>4, <1>7, <2>2, <2>3 DEF ConfirmRename
  <1>8. CASE AfterRename(t)
    <2>1. /\ End(t) /\ saved' = [saved EXCEPT ![d] = @ \ {j.name}]
          /\ backup' = IF backup[d][j.name] = None THEN backup
                       ELSE [backup EXCEPT ![d][j.to] = backup[d][j.name],
                                           ![d][j.name] = None]
      BY <1>8 DEF AfterRename
    <2>2. j.to \in Names
      BY <1>1, <1>8 DEF AfterRename, Stage
    <2>3. ASSUME NEW b \in Devices, NEW n \in saved'[b] PROVE Copied(b, n)'
      <3>1. n \in saved[b] /\ (b = d => n # j.name) /\ n \in Names
        BY <1>1, <2>1, <2>3 DEF DataOK
      <3>2. backup[b][n] # None
        BY <3>1 DEF CopyInv, Copied
      <3>3. \/ backup'[b][n] = backup[b][n]
            \/ backup'[b][n] = backup[d][j.name] /\ backup'[b][n] # None
        BY <1>1, <2>1, <2>2, <3>1, <3>2 DEF DataOK
      <3> QED
        BY <3>2, <3>3 DEF Copied
    <2> QED
      BY <1>4, <2>1, <2>3
  <1> QED
    BY <1>5, <1>6, <1>7, <1>8

LEMMA CopyStep == ASSUME TypeInv, CopyInv, Unhurried, [Next]_vars PROVE CopyInv'
  <1>1. ASSUME NEW t \in Tasks, Command(t) PROVE CopyInv'
    BY <1>1, QuietCopies, WritersCopy, SavesCopied, ChangesCopied DEF Command
  <1>2. ASSUME UNCHANGED <<backup, saved, at, job>> PROVE CopyInv'
    BY <1>2 DEF CopyInv, CopyAtHand, Copied
  <1>3. ASSUME NEW d \in Devices, CodexRotates(d) PROVE CopyInv'
    BY <1>2, <1>3 DEF CodexRotates, store
  <1>4. ASSUME NEW d \in Devices, NEW k \in Keys, Upload(d, k) \/ Download(d, k) PROVE CopyInv'
    BY <1>2, <1>4 DEF Upload, Download
  <1>5. CASE UNCHANGED vars
    BY <1>2, <1>5 DEF vars, store
  <1> QED
    BY <1>1, <1>3, <1>4, <1>5 DEF Next

LEMMA CopyInit == ASSUME Init PROVE CopyInv
  <1>1. /\ at = [t \in Tasks |-> "idle"]
        /\ \A d \in Devices : \A n \in saved[d] : backup[d][n] # None
    BY DEF Init
  <1> QED
    BY <1>1 DEF CopyInv, CopyAtHand, Copied

\* An account saved on a device stays in its list until it is removed or renamed, for
\* any number of devices and whatever Settings Sync carries between them.  Commands
\* may overlap as long as none of them removes or renames; one that does is alone.
THEOREM StaysListed == ASSUME Unhurried PROVE Spec => []ListedUntilRemoved
  <1>1. Init => TypeInv /\ CopyInv
    BY InitType, CopyInit
  <1>2. TypeInv /\ CopyInv /\ [Next]_vars => TypeInv' /\ CopyInv'
    BY TypeStep, CopyStep
  <1>3. TypeInv /\ CopyInv => ListedUntilRemoved
    BY CopiedIsListed
  <1> QED
    BY <1>1, <1>2, <1>3, PTL DEF Spec
-----------------------------------------------------------------------------
(* What has been exchanged is not offered *)

\* One device, and no command that makes a second copy of an account.
Local ==
    /\ \A d, e \in Devices : d = e
    /\ {"add", "restore", "sync"} \cap Ops = {}

\* Where an account is: an entry, or a renaming under way.
Holders == ({"entry"} \X Names) \cup ({"job"} \X Tasks)

Held(d, h) == IF h[1] = "entry" THEN entry[d][h[2]]
              ELSE IF at[h[2]] = "moved" THEN job[h[2]].carry
              ELSE None

Holds(d, h, p) == Live(Held(d, h)) /\ Held(d, h).of = p

\* Its name went to someone else: nothing is promised of that person.
Forgiven(p) == \A c \in [of : {p}, tok : 1..MaxClock] : c \in abandoned

\* One account of a person, newer than all that was exchanged, and not older than
\* what the service is asked to exchange.
Sole(d, p) ==
    /\ \A h, i \in Holders : Holds(d, h, p) /\ Holds(d, i, p) => h = i
    /\ \A c \in consumed : c.of = p =>
          c \in abandoned \/ \A h \in Holders : Holds(d, h, p) => c.tok < Held(d, h).tok
    /\ \A t \in Tasks : at[t] = "asked" /\ job[t].of = p =>
          \A h \in Holders : Holds(d, h, p) => job[t].carry.tok <= Held(d, h).tok

Prudent(t) ==
    /\ at[t] # "idle" => job[t].op # "add"
    /\ at[t] = "asked" => job[t].carry.tok > 0
    /\ at[t] \in {"index", "after"} /\ job[t].op \in {"use", "refresh"} => job[t].ver > 0

Marked(d) == marker[d] # None => marker[d].ver > 0

OfferInv(d) ==
    /\ \A p \in People : Forgiven(p) \/ Sole(d, p)
    /\ \A h \in Holders : Live(Held(d, h)) => Held(d, h).tok > 0
    /\ \A c \in consumed : c.tok \in 1..MaxClock
    /\ \A t \in Tasks : Prudent(t)
    /\ Marked(d)

LEMMA HeldType ==
    ASSUME TypeInv, NEW d \in Devices, NEW h \in Holders
    PROVE  /\ Held(d, h) \in Entries \cup {None}
           /\ Live(Held(d, h)) => Held(d, h).tok \in Nat /\ Held(d, h).of \in People
  <1>1. Held(d, h) \in Entries \cup {None}
    <2>1. CASE h \in {"entry"} \X Names
      BY <2>1 DEF Held, TypeInv, TypeOK
    <2>2. CASE h \in {"job"} \X Tasks
      <3>1. h[1] = "job" /\ h[2] \in Tasks
        BY <2>2
      <3>2. at[h[2]] = "moved" => job[h[2]].carry \in Entries
        BY <3>1, JobType DEF Stage
      <3> QED
        BY <3>1, <3>2 DEF Held
    <2> QED
      BY <2>1, <2>2 DEF Holders
  <1> QED
    BY <1>1 DEF Live, Entries

HeldOK ==
    \A d \in Devices, h \in Holders :
        Live(Held(d, h)) => Held(d, h).tok \in Nat /\ Held(d, h).of \in People

LEMMA HeldStaysTyped == TypeInv' => HeldOK'
  <1>1. TypeInv => HeldOK
    BY HeldType DEF HeldOK
  <1> QED
    BY <1>1, PTL

\* An account moves, and its tokens grow.
LEMMA SoleMoves ==
    ASSUME TypeInv, TypeInv', NEW d \in Devices, NEW p \in People, Sole(d, p),
           NEW src \in [Holders -> Holders], \A h, i \in Holders : src[h] = src[i] => h = i,
           \A h \in Holders : Holds(d, h, p)' =>
              Holds(d, src[h], p) /\ Held(d, src[h]).tok <= Held(d, h)'.tok,
           abandoned \subseteq abandoned',
           \A c \in consumed' \ consumed : c.of = p =>
              c \in abandoned' \/ \A h \in Holders : Holds(d, h, p)' => c.tok < Held(d, h)'.tok,
           \A t \in Tasks : at'[t] = "asked" /\ job'[t].of = p =>
              \/ at[t] = "asked" /\ job'[t] = job[t]
              \/ \A h \in Holders : Holds(d, h, p)' => job'[t].carry.tok <= Held(d, h)'.tok
    PROVE  Sole(d, p)'
  <1>1. \A h \in Holders : Holds(d, h, p)' => Held(d, h)'.tok \in Nat /\ Held(d, src[h]).tok \in Nat
    BY HeldType, HeldStaysTyped DEF Holds, HeldOK
  <1>2. ASSUME NEW h \in Holders, NEW i \in Holders, Holds(d, h, p)', Holds(d, i, p)'
        PROVE  h = i
    BY <1>2 DEF Sole
  <1>3. ASSUME NEW c \in consumed', c.of = p, c \notin abandoned', NEW h \in Holders, Holds(d, h, p)'
        PROVE  c.tok < Held(d, h)'.tok
    <2>1. CASE c \in consumed
      <3>1. c.tok < Held(d, src[h]).tok
        BY <1>3, <2>1 DEF Sole
      <3>2. c.tok \in Nat
        BY <2>1 DEF TypeInv, TypeOK, Credentials
      <3> QED
        BY <1>1, <1>3, <3>1, <3>2
    <2>2. CASE c \notin consumed
      BY <1>3, <2>2
    <2> QED
      BY <2>1, <2>2
  <1>4. ASSUME NEW t \in Tasks, at'[t] = "asked", job'[t].of = p, NEW h \in Holders, Holds(d, h, p)'
        PROVE  job'[t].carry.tok <= Held(d, h)'.tok
    <2>1. CASE at[t] = "asked" /\ job'[t] = job[t]
      <3>1. job[t].carry.tok <= Held(d, src[h]).tok
        BY <1>4, <2>1 DEF Sole
      <3>2. job[t].carry.tok \in Nat
        BY <2>1, JobType DEF Stage, Credentials
      <3> QED
        BY <1>1, <1>4, <2>1, <3>1, <3>2
    <2> QED
      BY <1>4, <2>1
  <1> QED
    BY <1>2, <1>3, <1>4 DEF Sole, Holders

\* The same when no account changes its place.
LEMMA SoleGrows ==
    ASSUME TypeInv, TypeInv', NEW d \in Devices, NEW p \in People, Sole(d, p),
           \A h \in Holders : Holds(d, h, p)' =>
              Holds(d, h, p) /\ Held(d, h).tok <= Held(d, h)'.tok,
           abandoned \subseteq abandoned',
           \A c \in consumed' \ consumed : c.of = p =>
              c \in abandoned' \/ \A h \in Holders : Holds(d, h, p)' => c.tok < Held(d, h)'.tok,
           \A t \in Tasks : at'[t] = "asked" /\ job'[t].of = p =>
              \/ at[t] = "asked" /\ job'[t] = job[t]
              \/ \A h \in Holders : Holds(d, h, p)' => job'[t].carry.tok <= Held(d, h)'.tok
    PROVE  Sole(d, p)'
  <1> DEFINE src == [h \in Holders |-> h]
  <1>1. src \in [Holders -> Holders] /\ \A h \in Holders : src[h] = h
    OBVIOUS
  <1> HIDE DEF src
  <1> QED
    BY <1>1, SoleMoves

\* A command goes on: what it writes is of the same person and not older.
LEMMA OfferGrows ==
    ASSUME TypeInv, TypeInv', NEW d \in Devices, OfferInv(d), NEW t \in Tasks, NEW step, NEW j,
           Goto(t, step), Become(t, j) \/ (job' = job /\ j = job[t]),
           at[t] # "moved", step \notin {"moved", "asked"},
           \A n \in Names : Live(entry'[d][n]) =>
              /\ Live(entry[d][n]) /\ entry'[d][n].of = entry[d][n].of
              /\ entry[d][n].tok <= entry'[d][n].tok,
           UNCHANGED <<consumed, abandoned>>, Prudent(t)', Marked(d)'
    PROVE  OfferInv(d)'
  <1>1. /\ at'[t] = step /\ job'[t] = j
        /\ \A u \in Tasks : u # t => at'[u] = at[u] /\ job'[u] = job[u]
    BY DEF Goto, Become, TypeInv, TypeOK
  <1>2. ASSUME NEW h \in Holders, Live(Held(d, h)')
        PROVE  /\ Live(Held(d, h)) /\ Held(d, h)'.of = Held(d, h).of
               /\ Held(d, h).tok <= Held(d, h)'.tok
    <2>1. CASE h \in {"entry"} \X Names
      BY <1>2, <2>1 DEF Held
    <2>2. CASE h \in {"job"} \X Tasks
      <3>1. h[1] = "job" /\ h[2] \in Tasks
        BY <2>2
      <3>2. Held(d, h)' = Held(d, h)
        BY <1>1, <3>1 DEF Held
      <3> QED
        BY <1>2, <3>2, HeldType
    <2> QED
      BY <2>1, <2>2 DEF Holders
  <1>3. \A h \in Holders, p \in People : Holds(d, h, p)' =>
              Holds(d, h, p) /\ Held(d, h).tok <= Held(d, h)'.tok
    BY <1>2 DEF Holds
  <1>4. \A u \in Tasks : at'[u] = "asked" => at[u] = "asked" /\ job'[u] = job[u]
    BY <1>1
  <1>5. ASSUME NEW p \in People, Sole(d, p) PROVE Sole(d, p)'
    BY <1>3, <1>4, <1>5, SoleGrows
  <1>6. \A u \in Tasks : Prudent(u)'
    BY <1>1 DEF OfferInv, Prudent
  <1>7. ASSUME NEW h \in Holders, Live(Held(d, h)') PROVE Held(d, h)'.tok > 0
    <2>1. Held(d, h).tok \in Nat /\ Held(d, h)'.tok \in Nat /\ Held(d, h).tok > 0
      BY <1>2, <1>7, HeldType, HeldStaysTyped DEF OfferInv, HeldOK
    <2> QED
      BY <1>2, <1>7, <2>1
  <1> QED
    BY <1>5, <1>6, <1>7 DEF OfferInv, Forgiven, Holders

LEMMA EntriesGrow ==
    ASSUME TypeInv, NEW d \in Devices, UNCHANGED entry, NEW n \in Names, Live(entry'[d][n])
    PROVE  /\ Live(entry[d][n]) /\ entry'[d][n].of = entry[d][n].of
           /\ entry[d][n].tok <= entry'[d][n].tok
  <1>1. entry[d][n] \in Entries
    BY DEF TypeInv, TypeOK, Live
  <1> QED
    BY <1>1 DEF Entries

\* A command ends.
LEMMA OfferEnds ==
    ASSUME TypeInv, TypeInv', NEW d \in Devices, OfferInv(d), NEW t \in Tasks, End(t),
           at[t] # "moved", UNCHANGED <<entry, consumed, abandoned>>, Marked(d)'
    PROVE  OfferInv(d)'
  <1>1. Prudent(t)'
    BY DEF End, Goto, Prudent, TypeInv, TypeOK
  <1> QED
    BY <1>1, EntriesGrow, OfferGrows DEF End

LEMMA WriteOffers ==
    ASSUME TypeInv, NEW t \in Tasks, NEW d \in Devices, NEW n \in Names, NEW c \in Credentials,
           NEW j \in Jobs, WriteAccount(t, d, n, c, j), j.op # "add"
    PROVE  /\ Prudent(t)' /\ at'[t] = "index"
           /\ Live(entry'[d][n]) /\ entry'[d][n].of = c.of /\ entry'[d][n].tok = c.tok
           /\ \A m \in Names : m # n => entry'[d][m] = entry[d][m]
  <1> DEFINE e == [ver |-> VersionOf(d, n) + 1, of |-> c.of, tok |-> c.tok]
             k == [j EXCEPT !.carry = c, !.ver = e.ver, !.names = index[d] \cup {n}]
  <1>1. DataOK /\ VersionOf(d, n) \in Nat
    BY TypeParts, VisibleType DEF TypeInv
  <1>2. Become(t, k) /\ Goto(t, "index")
    BY DEF WriteAccount
  <1>3. k.op = j.op /\ k.ver > 0
    BY <1>1 DEF Jobs
  <1> HIDE DEF k
  <1>4. at'[t] = "index" /\ job'[t] = k
    BY <1>2 DEF Goto, Become, TypeInv, TypeOK
  <1>5. Prudent(t)'
    BY <1>3, <1>4 DEF Prudent
  <1>6. entry'[d][n] = e /\ \A m \in Names : m # n => entry'[d][m] = entry[d][m]
    BY <1>1 DEF WriteAccount, SetEntry, DataOK
  <1>7. c.of \in People /\ c.of # None /\ e # None
    BY CloudAssumption, NullAssumption, <1>1 DEF Credentials, Entries
  <1> QED
    BY <1>4, <1>5, <1>6, <1>7 DEF Live

\* The only place where a ready account's person is read.
LEMMA WrittenGrows ==
    ASSUME TypeInv, TypeInv', NEW t \in Tasks, NEW d \in Devices, NEW n \in Names,
           NEW c \in Credentials, NEW j \in Jobs, WriteAccount(t, d, n, c, j), j.op # "add",
           OfferInv(d), Ready(d, n), entry[d][n].of = c.of, entry[d][n].tok <= c.tok,
           at[t] # "moved", UNCHANGED <<consumed, abandoned, marker>>
    PROVE  OfferInv(d)'
  <1>1. /\ Prudent(t)' /\ Live(entry'[d][n]) /\ entry'[d][n].of = c.of /\ entry'[d][n].tok = c.tok
        /\ \A m \in Names : m # n => entry'[d][m] = entry[d][m]
    BY WriteOffers
  <1>2. PICK k : Become(t, k)
    BY DEF WriteAccount
  <1>3. Goto(t, "index")
    BY DEF WriteAccount
  <1>4. Visible(d, n) = entry[d][n] /\ Live(entry[d][n])
    BY TypeParts, ReadyType DEF TypeInv, Ready
  <1>5. ASSUME NEW m \in Names, Live(entry'[d][m])
        PROVE  /\ Live(entry[d][m]) /\ entry'[d][m].of = entry[d][m].of
               /\ entry[d][m].tok <= entry'[d][m].tok
    <2>1. CASE m = n
      BY <1>1, <1>4, <2>1
    <2>2. CASE m # n
      <3>1. entry'[d][m] = entry[d][m] /\ entry[d][m] \in Entries
        BY <1>1, <1>5, <2>2 DEF TypeInv, TypeOK, Live
      <3> QED
        BY <1>5, <3>1 DEF Entries
    <2> QED
      BY <2>1, <2>2
  <1>6. Marked(d)'
    BY DEF OfferInv, Marked
  <1> QED
    BY <1>1, <1>2, <1>3, <1>5, <1>6, OfferGrows

LEMMA CurrentReady ==
    ASSUME DataOK, NEW d \in Devices, Current(d) # None
    PROVE  Current(d) \in Names /\ Ready(d, Current(d))
  <1> DEFINE matches == IF live[d] = None THEN {}
                        ELSE {n \in Names : Ready(d, n) /\ entry[d][n].of = live[d].of}
  <1>1. matches \subseteq Names /\ \A n \in matches : Ready(d, n)
    OBVIOUS
  <1>2. Cardinality(matches) = 1 => (CHOOSE n \in matches : TRUE) \in matches
    <2> SUFFICES ASSUME Cardinality(matches) = 1
                 PROVE  \E n \in matches : TRUE
      OBVIOUS
    <2> QED
      BY FS_EmptySet
  <1>3. Current(d) = IF marker[d] # None /\ marker[d].name \in matches THEN marker[d].name
                     ELSE IF Cardinality(matches) = 1 THEN CHOOSE n \in matches : TRUE
                     ELSE None
    BY DEF Current
  <1> HIDE DEF matches
  <1> QED
    BY <1>1, <1>2, <1>3

\* A marker names the version of an account that is there.
LEMMA MarkedSeen ==
    ASSUME DataOK, NEW d \in Devices, NEW n \in Names, Ready(d, n),
           SetMarker(d, Mark(d, n))
    PROVE  Marked(d)'
  <1>1. Shown(d, n).ver > 0 /\ n # None /\ Listed(d, n)
    BY ShownType, CloudAssumption DEF Ready, Live, Listed
  <1>2. marker'[d] = Mark(d, n)
    BY DEF SetMarker, DataOK
  <1> QED
    BY <1>1, <1>2 DEF Mark, Marked

LEMMA MarkedAgain ==
    ASSUME DataOK, NEW d \in Devices, NEW n, NEW ver, ver > 0, NEW tok, Marked(d),
           Remark(d, n, ver, tok)
    PROVE  Marked(d)'
  BY DEF Remark, Marked, DataOK

\* The commands that leave the entries alone.
LEMMA QuietOffers ==
    ASSUME TypeInv, TypeInv', NEW d \in Devices, \A e \in Devices : e = d, OfferInv(d),
           NEW t \in Tasks,
           \/ LoginCancelled(t) \/ WriteIndex(t) \/ AfterLogin(t) \/ AfterWriteBack(t)
           \/ Activate(t) \/ RefreshFails(t) \/ AfterRefresh(t) \/ AfterRemove(t)
           \/ AfterRename(t) \/ AfterRestore(t)
           \/ \E b \in Devices, n \in Names :
                 \/ BeginRelogin(t, b, n) \/ BeginChange(t, "remove", b, n, n)
                 \/ \E m \in Names \ {n} : BeginChange(t, "rename", b, n, m)
    PROVE  OfferInv(d)'
  <1> DEFINE j == job[t]
  <1>1. /\ DataOK /\ j \in Jobs /\ Stage(at[t], j) /\ Prudent(t) /\ Marked(d)
        /\ at[t] # "idle" => j.on = d
    BY TypeParts, JobType DEF TypeInv, OfferInv, Stage
  <1>2. CASE WriteIndex(t)
    <2>1. Goto(t, "after") /\ job' = job /\ UNCHANGED <<entry, consumed, abandoned, marker>>
          /\ at[t] = "index"
      BY <1>2 DEF WriteIndex, runtime, service
    <2>2. Prudent(t)' /\ Marked(d)'
      BY <1>1, <2>1 DEF Goto, Prudent, Marked, TypeInv, TypeOK
    <2> QED
      BY <2>1, <2>2, EntriesGrow, OfferGrows
  <1>3. CASE AfterWriteBack(t)
    <2>1. Goto(t, "activate") /\ job' = job /\ UNCHANGED <<entry, consumed, abandoned>>
          /\ at[t] = "after" /\ j.op = "use" /\ Remark(d, j.to, j.ver, j.carry.tok)
      BY <1>1, <1>3 DEF AfterWriteBack, store, service
    <2>2. Prudent(t)'
      BY <1>1, <2>1 DEF Goto, Prudent, TypeInv, TypeOK
    <2>3. Marked(d)'
      BY <1>1, <2>1, MarkedAgain DEF Prudent
    <2> QED
      BY <2>1, <2>2, <2>3, EntriesGrow, OfferGrows
  <1>4. CASE LoginCancelled(t) \/ AfterLogin(t)
    <2>1. End(t) /\ UNCHANGED <<entry, consumed, abandoned>> /\ at[t] \in {"login", "after"}
          /\ RestoreMarker(j)
      BY <1>4 DEF LoginCancelled, AfterLogin, store, service
    <2>2. Marked(d)'
      BY <1>1, <2>1 DEF Prudent, RestoreMarker, Marked
    <2> QED
      BY <2>1, <2>2, OfferEnds
  <1>5. CASE Activate(t)
    <2>1. End(t) /\ UNCHANGED <<entry, consumed, abandoned>> /\ at[t] = "activate"
          /\ j.name \in Names
      BY <1>1, <1>5 DEF Activate, store, service, Stage
    <2>2. \/ UNCHANGED marker
          \/ Ready(d, j.name) /\ SetMarker(d, Mark(d, j.name))
      BY <1>1, <1>5 DEF Activate, runtime
    <2>3. Marked(d)'
      BY <1>1, <2>1, <2>2, MarkedSeen DEF Marked, Ready, Live
    <2> QED
      BY <2>1, <2>3, OfferEnds
  <1>6. CASE AfterRefresh(t)
    <2>1. End(t) /\ UNCHANGED <<entry, consumed, abandoned>> /\ at[t] = "after"
          /\ j.op = "refresh"
          /\ (UNCHANGED marker \/ Remark(d, j.name, j.ver, j.carry.tok))
      BY <1>1, <1>6 DEF AfterRefresh, store, service, runtime
    <2>2. Marked(d)'
      BY <1>1, <2>1, MarkedAgain DEF Prudent, Marked
    <2> QED
      BY <2>1, <2>2, OfferEnds
  <1>7. CASE AfterRename(t)
    <2>1. End(t) /\ UNCHANGED <<entry, consumed, abandoned>> /\ at[t] = "after"
          /\ j.carry \in Entries
          /\ (UNCHANGED marker
                \/ SetMarker(d, [name |-> j.to, ver |-> j.carry.ver, tok |-> j.carry.tok]))
      BY <1>1, <1>7 DEF AfterRename, service, Stage
    <2>2. Marked(d)'
      BY <1>1, <2>1 DEF SetMarker, Marked, DataOK, Entries
    <2> QED
      BY <2>1, <2>2, OfferEnds
  <1>8. CASE RefreshFails(t) \/ AfterRemove(t) \/ AfterRestore(t)
    <2>1. End(t) /\ UNCHANGED <<entry, consumed, abandoned, marker>> /\ at[t] \in {"asked", "after"}
      BY <1>8 DEF RefreshFails, AfterRemove, AfterRestore, store, service, runtime
    <2>2. Marked(d)'
      BY <1>1, <2>1 DEF Marked
    <2> QED
      BY <2>1, <2>2, OfferEnds
  <1>9. ASSUME NEW b \in Devices, NEW n \in Names,
               \/ BeginRelogin(t, b, n) \/ BeginChange(t, "remove", b, n, n)
               \/ \E m \in Names \ {n} : BeginChange(t, "rename", b, n, m)
        PROVE  OfferInv(d)'
    <2>1. \E step \in {"login", "confirm"} : \E k : Goto(t, step) /\ Become(t, k) /\ k.op # "add"
      <3> DEFINE again == [Idle EXCEPT !.on = b, !.op = "relogin", !.name = n,
                                       !.of = entry[b][n].of, !.base = VersionOf(b, n)]
                 change(op, m) == [Idle EXCEPT !.on = b, !.op = op, !.name = n, !.to = m,
                                               !.base = Shown(b, n).ver]
      <3>1. again.op = "relogin" /\ \A op, m : change(op, m).op = op
        BY DEF Idle
      <3>2. \/ Goto(t, "login") /\ Become(t, again)
            \/ Goto(t, "confirm") /\ \E op \in {"remove", "rename"} : \E m : Become(t, change(op, m))
        BY <1>9 DEF BeginRelogin, BeginChange
      <3> HIDE DEF again, change
      <3> QED
        BY <3>1, <3>2
    <2>2. UNCHANGED <<entry, consumed, abandoned, marker>> /\ at[t] = "idle"
      BY <1>9 DEF BeginRelogin, BeginChange, Begins, store, service, runtime
    <2>3. Prudent(t)' /\ Marked(d)'
      BY <1>1, <2>1, <2>2 DEF Goto, Become, Prudent, Marked, TypeInv, TypeOK
    <2> QED
      BY <2>1, <2>2, <2>3, EntriesGrow, OfferGrows
  <1> QED
    BY <1>2, <1>3, <1>4, <1>5, <1>6, <1>7, <1>8, <1>9

LEMMA NotRefused ==
    ASSUME DataOK, NEW d \in Devices, NEW n \in Names, NEW base \in Nat, base > 0,
           Refusal(d, n, base) = "none"
    PROVE  Ready(d, n) /\ entry[d][n].ver = base
  <1>1. Visible(d, n) # None /\ Visible(d, n).of # None /\ Visible(d, n).ver = base
    BY DEF Refusal
  <1> QED
    BY <1>1, ReadyType DEF Ready, Live, Visible

LEMMA LoginOffers ==
    ASSUME TypeInv, TypeInv', DatedInv, NEW d \in Devices, \A e \in Devices : e = d, OfferInv(d),
           NEW t \in Tasks, NEW p \in People, LoginAnswers(t, p)
    PROVE  OfferInv(d)'
  <1> DEFINE j == job[t]
             c == [of |-> p, tok |-> clock + 1]
  <1>1. /\ DataOK /\ j \in Jobs /\ clock \in Nat /\ j.on = d /\ j.name \in Names
        /\ at[t] = "login" /\ j.op = "relogin" /\ j.base > 0 /\ c \in Credentials
    BY TypeParts, JobType
       DEF TypeInv, LoginAnswers, Stage, DataOK, OfferInv, Prudent, Credentials
  <1>2. UNCHANGED <<consumed, abandoned, marker>>
    BY <1>1 DEF LoginAnswers, RestoreMarker
  <1>3. \/ /\ Acceptable(j, p) /\ Refusal(d, j.name, j.base) = "none"
           /\ WriteAccount(t, d, j.name, c, j)
        \/ End(t) /\ UNCHANGED store
    BY <1>1 DEF LoginAnswers
  <1> HIDE DEF c
  <1>4. CASE /\ Acceptable(j, p) /\ Refusal(d, j.name, j.base) = "none"
             /\ WriteAccount(t, d, j.name, c, j)
    <2>1. j.base \in Nat
      BY <1>1 DEF Jobs
    <2>2. Ready(d, j.name)
      BY <1>1, <1>4, <2>1, NotRefused
    <2>3. entry[d][j.name].of = c.of
      BY <1>1, <1>4, <2>2 DEF Acceptable, c
    <2>4. entry[d][j.name].tok \in Nat /\ entry[d][j.name].tok <= clock
      <3>1. entry[d][j.name] \in Entries /\ entry[d][j.name] # None
        BY <1>1, <2>2, ReadyType, NullAssumption
      <3> QED
        BY <1>1, <3>1 DEF DatedInv, DatedData, Dated, Entries
    <2>5. entry[d][j.name].tok <= c.tok
      BY <1>1, <2>4 DEF c
    <2> HIDE DEF j
    <2> QED
      BY <1>1, <1>2, <1>4, <2>2, <2>3, <2>5, WrittenGrows DEF j
  <1>5. CASE End(t) /\ UNCHANGED store
    <2>1. Marked(d)' /\ UNCHANGED entry
      BY <1>2, <1>5 DEF OfferInv, Marked, store
    <2> QED
      BY <1>1, <1>2, <1>5, <2>1, OfferEnds
  <1> QED
    BY <1>3, <1>4, <1>5

LEMMA UseOffers ==
    ASSUME TypeInv, TypeInv', NEW d \in Devices, \A e \in Devices : e = d, OfferInv(d),
           NEW t \in Tasks, NEW n \in Names, BeginUse(t, d, n)
    PROVE  OfferInv(d)'
  <1> DEFINE m == marker[d]
             plain == [Idle EXCEPT !.on = d, !.op = "use", !.name = n]
             healed == [plain EXCEPT !.healed = TRUE]
             i == [plain EXCEPT !.to = m.name]
             base == IF m.ver # 0 THEN m.ver ELSE Mark(d, m.name).ver
             found == [m EXCEPT !.ver = VersionOf(d, m.name), !.tok = Visible(d, m.name).tok]
  <1>1. DataOK /\ Marked(d) /\ m \in Marks \cup {None} /\ "use" \in Ops
    BY TypeParts DEF TypeInv, OfferInv, DataOK, BeginUse, Begins
  <1>2. m # None => m.name \in Names /\ base = m.ver /\ base > 0 /\ base \in Nat
    BY <1>1 DEF Marks, Marked
  <1>3. at[t] = "idle" /\ UNCHANGED <<consumed, abandoned>>
    BY DEF BeginUse, Begins, service
  <1>4. plain.op = "use" /\ healed.op = "use"
    BY DEF Idle
  <1>5. \/ /\ UNCHANGED entry /\ Goto(t, "activate") /\ (Become(t, plain) \/ Become(t, healed))
           /\ \/ UNCHANGED marker
              \/ Stale(d) /\ SetMarker(d, found)
              \/ SetMarker(d, Mark(d, Current(d)))
              \/ /\ m # None /\ Refusal(d, m.name, base) = "none"
                 /\ Remark(d, m.name, VersionOf(d, m.name), Visible(d, m.name).tok)
        \/ /\ m # None /\ live[d] # None /\ UNCHANGED marker
           /\ ~(Ready(d, m.name) /\ entry[d][m.name].of # live[d].of)
           /\ Refusal(d, m.name, base) = "none" /\ ~Older(d, m.name, live[d])
           /\ WriteAccount(t, d, m.name, live[d], i)
    BY DEF BeginUse, store
  <1>6. CASE /\ m # None /\ live[d] # None /\ UNCHANGED marker
             /\ ~(Ready(d, m.name) /\ entry[d][m.name].of # live[d].of)
             /\ Refusal(d, m.name, base) = "none" /\ ~Older(d, m.name, live[d])
             /\ WriteAccount(t, d, m.name, live[d], i)
    <2>1. live[d] \in Credentials /\ i \in Jobs /\ i.op = "use"
      <3>1. live[d] \in Credentials /\ m.name \in Names
        BY <1>1, <1>2, <1>6 DEF DataOK
      <3> QED
        BY <1>1, <3>1, IdleType DEF Jobs
    <2> HIDE DEF i, m, base
    <2>2. Ready(d, m.name) /\ entry[d][m.name].of = live[d].of
      BY <1>1, <1>2, <1>6, NotRefused
    <2>3. entry[d][m.name].tok <= live[d].tok
      <3>1. Visible(d, m.name) = entry[d][m.name] /\ entry[d][m.name] \in Entries
            /\ Visible(d, m.name) # None
        BY <1>1, <1>2, <1>6, <2>2, ReadyType, NullAssumption
      <3> QED
        BY <1>6, <2>1, <3>1 DEF Older, Entries, Credentials
    <2> QED
      BY <1>2, <1>3, <1>6, <2>1, <2>2, <2>3, WrittenGrows
  <1>7. CASE /\ UNCHANGED entry /\ Goto(t, "activate") /\ (Become(t, plain) \/ Become(t, healed))
             /\ \/ UNCHANGED marker
                \/ Stale(d) /\ SetMarker(d, found)
                \/ SetMarker(d, Mark(d, Current(d)))
                \/ /\ m # None /\ Refusal(d, m.name, base) = "none"
                   /\ Remark(d, m.name, VersionOf(d, m.name), Visible(d, m.name).tok)
    <2>1. ASSUME Marked(d)' PROVE OfferInv(d)'
      <3>1. PICK k : Become(t, k) /\ k.op = "use"
        BY <1>4, <1>7
      <3>2. Prudent(t)'
        BY <1>7, <3>1 DEF Prudent, Goto, Become, TypeInv, TypeOK
      <3> QED
        BY <1>3, <1>7, <2>1, <3>1, <3>2, EntriesGrow, OfferGrows
    <2> HIDE DEF plain, healed, base
    <2>2. CASE UNCHANGED marker
      BY <1>1, <2>1, <2>2 DEF Marked
    <2>3. CASE Stale(d) /\ SetMarker(d, found)
      <3>1. m # None /\ Visible(d, m.name) # None
        BY <2>3 DEF Stale
      <3>2. found.ver > 0
        BY <1>1, <1>2, <3>1, VisibleType DEF Marks
      <3>3. marker'[d] = found
        BY <1>1, <2>3 DEF SetMarker, DataOK
      <3> QED
        BY <2>1, <3>2, <3>3 DEF Marked
    <2>4. CASE SetMarker(d, Mark(d, Current(d)))
      <3>1. CASE Current(d) = None
        BY <1>1, <2>1, <2>4, <3>1 DEF SetMarker, Mark, Marked, DataOK
      <3>2. CASE Current(d) # None
        <4>1. Current(d) \in Names /\ Ready(d, Current(d))
          BY <1>1, <3>2, CurrentReady
        <4> QED
          BY <1>1, <2>1, <2>4, <4>1, MarkedSeen
      <3> QED
        BY <3>1, <3>2
    <2>5. CASE /\ m # None /\ Refusal(d, m.name, base) = "none"
               /\ Remark(d, m.name, VersionOf(d, m.name), Visible(d, m.name).tok)
      <3>1. Visible(d, m.name) # None
        BY <1>1, <1>2, <2>5, NotRefused DEF Ready, Live
      <3>2. VersionOf(d, m.name) > 0
        BY <1>1, <1>2, <2>5, <3>1, VisibleType
      <3> QED
        BY <1>1, <2>1, <2>5, <3>2, MarkedAgain
    <2> QED
      BY <1>7, <2>2, <2>3, <2>4, <2>5
  <1> QED
    BY <1>5, <1>6, <1>7

LEMMA HolderKinds ==
    ASSUME NEW h \in Holders
    PROVE  (\E n \in Names : h = <<"entry", n>>) \/ (\E u \in Tasks : h = <<"job", u>>)
  BY DEF Holders

LEMMA EntryHeld ==
    ASSUME NEW d, NEW n \in Names
    PROVE  /\ <<"entry", n>> \in Holders
           /\ Held(d, <<"entry", n>>) = entry[d][n] /\ Held(d, <<"entry", n>>)' = entry'[d][n]
  BY DEF Holders, Held

LEMMA JobHeld ==
    ASSUME TypeInv, NEW d, NEW t \in Tasks, NEW step, NEW j,
           Goto(t, step), Become(t, j), at[t] # "moved", step # "moved", NEW u \in Tasks
    PROVE  Held(d, <<"job", u>>)' = Held(d, <<"job", u>>)
  BY DEF Held, Goto, Become, TypeInv, TypeOK

LEMMA BeginRefreshOffers ==
    ASSUME TypeInv, TypeInv', DatedInv, NEW d \in Devices, \A e \in Devices : e = d, OfferInv(d),
           NEW t \in Tasks, NEW n \in Names, BeginRefresh(t, d, n)
    PROVE  OfferInv(d)'
  <1> DEFINE e == entry[d][n]
             guard == IF live[d] # None /\ live[d].of = e.of THEN live[d] ELSE None
             k == [Idle EXCEPT !.on = d, !.op = "refresh", !.name = n, !.of = e.of,
                               !.base = e.ver, !.carry = CredOf(e), !.guard = guard]
  <1>1. /\ Become(t, k) /\ Goto(t, "asked") /\ at[t] = "idle" /\ Ready(d, n)
        /\ UNCHANGED <<entry, consumed, abandoned, marker>>
    BY DEF BeginRefresh, Begins, store, service, runtime
  <1>2. k.op = "refresh" /\ k.of = e.of /\ k.carry = CredOf(e)
    BY DEF Idle
  <1> HIDE DEF k
  <1>3. Live(e) /\ e \in Entries
    BY <1>1, TypeParts, ReadyType DEF TypeInv, Ready
  <1>4. /\ at'[t] = "asked" /\ job'[t] = k
        /\ \A u \in Tasks : u # t => at'[u] = at[u] /\ job'[u] = job[u]
    BY <1>1 DEF Goto, Become, TypeInv, TypeOK
  <1>5. \A h \in Holders : Held(d, h)' = Held(d, h)
    <2>1. \A u \in Tasks : Held(d, <<"job", u>>)' = Held(d, <<"job", u>>)
      BY <1>1, JobHeld
    <2> QED
      BY <1>1, <2>1, HolderKinds, EntryHeld
  <1>6. \A h \in Holders, p \in People : Holds(d, h, p)' =>
              Holds(d, h, p) /\ Held(d, h).tok <= Held(d, h)'.tok
    BY <1>5, HeldType DEF Holds
  <1>7. ASSUME NEW p \in People, Sole(d, p) PROVE Sole(d, p)'
    <2>1. ASSUME k.of = p, NEW h \in Holders, Holds(d, h, p)'
          PROVE  k.carry.tok <= Held(d, h)'.tok
      <3>1. Holds(d, <<"entry", n>>, p) /\ Holds(d, h, p)
        BY <1>2, <1>3, <1>5, <2>1, EntryHeld DEF Holds
      <3>2. h = <<"entry", n>>
        BY <1>7, <3>1, EntryHeld DEF Sole
      <3> QED
        BY <1>2, <1>3, <1>5, <3>2, EntryHeld DEF CredOf, Entries
    <2> QED
      BY <1>1, <1>4, <1>6, <1>7, <2>1, SoleGrows
  <1>8. k.carry.tok > 0
    <2>1. Held(d, <<"entry", n>>).tok > 0
      <3>1. <<"entry", n>> \in Holders /\ Live(Held(d, <<"entry", n>>))
        BY <1>3, EntryHeld
      <3> QED
        BY <3>1 DEF OfferInv
    <2> QED
      BY <1>2, <2>1, EntryHeld DEF CredOf
  <1>9. \A u \in Tasks : Prudent(u)'
    BY <1>2, <1>4, <1>8 DEF OfferInv, Prudent
  <1> QED
    BY <1>1, <1>5, <1>7, <1>9 DEF OfferInv, Forgiven, Marked

\* What an answer leaves of the account it was asked for.
LEMMA AnswerOffers ==
    ASSUME TypeInv, TypeInv', DatedInv, NEW d \in Devices, \A e \in Devices : e = d, OfferInv(d),
           NEW t \in Tasks, RefreshAnswers(t),
           NEW n \in Names, n = job[t].name, NEW p \in People, p = job[t].of
    PROVE  OfferInv(d)'
  <1> DEFINE j == job[t]
             new == [of |-> p, tok |-> clock + 1]
             refusal == Refusal(d, n, j.base)
  <1>1. /\ DataOK /\ j \in Jobs /\ j.on = d /\ j.name = n /\ at[t] = "asked" /\ j.of = p
        /\ j.op = "refresh" /\ j.carry \in Credentials /\ j.carry.of = p /\ clock \in Nat
        /\ new \in Credentials /\ j.base \in Nat /\ j.base > 0 /\ j.carry # None
    BY TypeParts, JobType, NullAssumption
       DEF TypeInv, RefreshAnswers, Stage, DataOK, Credentials, Jobs
  <1>2. /\ clock < MaxClock /\ consumed' = consumed \cup {j.carry} /\ UNCHANGED marker
        /\ \/ /\ refusal = "none" \/ (refusal = "conflict" /\ SameToken(d, n, j.carry))
              /\ WriteAccount(t, d, n, new, j)
           \/ /\ \/ ~(refusal = "none" \/ (refusal = "conflict" /\ SameToken(d, n, j.carry)))
                 \/ j.carry \in abandoned'
              /\ End(t) /\ UNCHANGED entry
        /\ abandoned \cup Forsaken(d, j) \subseteq abandoned'
        /\ abandoned' \subseteq abandoned \cup Forsaken(d, j) \cup {j.carry}
    BY <1>1 DEF RefreshAnswers, runtime, store
  <1>3. j.carry.tok \in Nat /\ j.carry.tok > 0 /\ j.carry.tok <= clock
    BY <1>1 DEF Credentials, OfferInv, Prudent, DatedInv, Dated
  <1> HIDE DEF new, j, refusal
  <1>4. ASSUME NEW u \in Tasks, u # t PROVE at'[u] = at[u] /\ job'[u] = job[u]
    BY <1>2, <1>4 DEF End, WriteAccount, Goto, Become, TypeInv, TypeOK
  <1>5. at'[t] \notin {"asked", "moved"} /\ Prudent(t)'
    <2>1. CASE End(t)
      BY <2>1 DEF End, Goto, Prudent, TypeInv, TypeOK
    <2>2. CASE WriteAccount(t, d, n, new, j)
      BY <1>1, <2>2, WriteOffers
    <2> QED
      BY <1>2, <2>1, <2>2
  <1>6. \A u \in Tasks : Held(d, <<"job", u>>)' = Held(d, <<"job", u>>)
    BY <1>1, <1>4, <1>5 DEF Held
  <1>7. \A m \in Names : m # n => entry'[d][m] = entry[d][m]
    BY <1>1, <1>2, WriteOffers
  <1>8. ASSUME ~UNCHANGED entry
        PROVE  /\ Ready(d, n) /\ Live(entry'[d][n]) /\ entry'[d][n].of = p
               /\ entry'[d][n].tok = clock + 1
    <2>1. WriteAccount(t, d, n, new, j)
      BY <1>2, <1>8
    <2>2. Ready(d, n)
      BY <1>1, <1>2, <1>8, NotRefused DEF refusal, SameToken
    <2> QED
      BY <1>1, <2>1, <2>2, WriteOffers DEF new
  <1>9. \A h \in Holders : Held(d, h)' = Held(d, h) \/ h = <<"entry", n>>
    BY <1>6, <1>7, HolderKinds, EntryHeld
  <1>10. ASSUME NEW h \in Holders, Held(d, h)' = Held(d, h), NEW q \in People, Holds(d, h, q)'
         PROVE  Holds(d, h, q) /\ Held(d, h).tok <= Held(d, h)'.tok
    BY <1>10, HeldType DEF Holds
  <1>11. abandoned \subseteq abandoned'
    BY <1>2
  <1>12. ASSUME NEW q \in People, q # p, Sole(d, q) PROVE Sole(d, q)'
    <2>1. ASSUME NEW h \in Holders, Holds(d, h, q)'
          PROVE  Holds(d, h, q) /\ Held(d, h).tok <= Held(d, h)'.tok
      BY <1>1, <1>8, <1>9, <1>10, <1>12, <2>1, EntryHeld DEF Holds
    <2>2. \A c \in consumed' \ consumed : c.of # q
      BY <1>1, <1>2, <1>12
    <2> QED
      BY <1>4, <1>5, <1>11, <1>12, <2>1, <2>2, SoleGrows
  <1>13. ASSUME Ready(d, n), entry[d][n].of # p PROVE Forgiven(p)'
    BY <1>1, <1>2, <1>13 DEF Forgiven, Forsaken
  <1>14. ASSUME ~Ready(d, n), Sole(d, p) PROVE Sole(d, p)'
    <2>1. \A h \in Holders : Held(d, h)' = Held(d, h)
      BY <1>1, <1>8, <1>9, <1>14, EntryHeld
    <2>2. \A c \in consumed' \ consumed : c \in abandoned'
      BY <1>1, <1>2, <1>14 DEF Forsaken
    <2> QED
      BY <1>1, <1>4, <1>5, <1>10, <1>11, <1>14, <2>1, <2>2, SoleGrows
  <1>15. ASSUME Ready(d, n), entry[d][n].of = p, Sole(d, p) PROVE Sole(d, p)'
    <2>1. Holds(d, <<"entry", n>>, p) /\ entry[d][n] \in Entries
      BY <1>1, <1>15, ReadyType, EntryHeld DEF Holds, Ready
    <2>2. entry[d][n].tok \in Nat /\ entry[d][n].tok <= clock
      BY <1>1, <2>1, EntryHeld DEF Entries, DatedInv, DatedData, Dated, Holds, Live
    <2>3. entry[d][n].tok <= entry'[d][n].tok
      BY <1>1, <1>8, <2>2
    <2>4. ASSUME NEW h \in Holders, Holds(d, h, p)'
          PROVE  Holds(d, h, p) /\ Held(d, h).tok <= Held(d, h)'.tok
      BY <1>1, <1>9, <1>10, <2>1, <2>3, <2>4, EntryHeld
    <2>5. j.carry \in abandoned' \/ j.carry.tok < entry'[d][n].tok
      <3>1. CASE ~UNCHANGED entry
        BY <1>1, <1>3, <1>8, <3>1
      <3>2. CASE UNCHANGED entry /\ WriteAccount(t, d, n, new, j)
        <4>1. entry'[d][n].tok = clock + 1
          BY <1>1, <3>2, WriteOffers DEF new
        <4> QED
          BY <1>1, <1>3, <4>1
      <3>3. CASE UNCHANGED entry /\ ~WriteAccount(t, d, n, new, j) /\ j.carry \notin abandoned'
        <4>1. refusal = "conflict"
          BY <1>1, <1>2, <1>15, <3>3 DEF refusal, Refusal, Ready, Live
        <4>2. CredOf(entry[d][n]) # j.carry
          BY <1>2, <1>15, <3>3, <4>1 DEF SameToken
        <4>3. entry[d][n].tok # j.carry.tok
          BY <1>1, <1>15, <4>2 DEF CredOf, Credentials
        <4>4. j.carry.tok <= entry[d][n].tok
          BY <1>1, <1>15, <2>1, EntryHeld DEF Sole, j
        <4> QED
          BY <1>3, <2>2, <3>3, <4>3, <4>4
      <3> QED
        BY <3>1, <3>2, <3>3
    <2>6. ASSUME NEW h \in Holders, Holds(d, h, p)', j.carry \notin abandoned'
          PROVE  j.carry.tok < Held(d, h)'.tok
      <3>1. h = <<"entry", n>>
        BY <1>1, <1>15, <2>1, <2>4, <2>6, EntryHeld DEF Sole
      <3> QED
        BY <1>1, <2>5, <2>6, <3>1, EntryHeld
    <2>7. \A c \in consumed' \ consumed :
              c \in abandoned' \/ \A h \in Holders : Holds(d, h, p)' => c.tok < Held(d, h)'.tok
      BY <1>2, <2>6
    <2> QED
      BY <1>1, <1>4, <1>5, <1>11, <1>15, <2>4, <2>7, SoleGrows
  <1>16. \A q \in People : (Forgiven(q) \/ Sole(d, q))'
    BY <1>11, <1>12, <1>13, <1>14, <1>15 DEF OfferInv, Forgiven
  <1>17. \A h \in Holders : Live(Held(d, h)') => Held(d, h)'.tok > 0
    <2>1. UNCHANGED entry \/ entry'[d][n].tok > 0
      BY <1>1, <1>8
    <2> QED
      BY <1>1, <1>9, <2>1, EntryHeld DEF OfferInv
  <1>18. \A c \in consumed' : c.tok \in 1..MaxClock
    BY <1>1, <1>2, <1>3, CloudAssumption DEF OfferInv
  <1>19. \A u \in Tasks : Prudent(u)'
    BY <1>4, <1>5 DEF OfferInv, Prudent
  <1> QED
    BY <1>2, <1>16, <1>17, <1>18, <1>19 DEF OfferInv, Marked, Holders

LEMMA RemoveOffers ==
    ASSUME TypeInv, TypeInv', NEW d \in Devices, \A e \in Devices : e = d, OfferInv(d),
           NEW t \in Tasks, ConfirmRemove(t)
    PROVE  OfferInv(d)'
  <1> DEFINE j == job[t]
             k == [j EXCEPT !.names = index[d]]
  <1>1. /\ DataOK /\ j \in Jobs /\ j.on = d /\ j.name \in Names /\ at[t] = "confirm"
        /\ j.op = "remove" /\ Marked(d) /\ UNCHANGED <<consumed, abandoned, marker>>
    BY TypeParts, JobType
       DEF TypeInv, ConfirmRemove, Stage, OfferInv, runtime, service
  <1>2. \/ SetEntry(d, j.name, Tombstone(d, j.name)) /\ Become(t, k) /\ Goto(t, "index")
        \/ End(t) /\ UNCHANGED entry
    BY <1>1 DEF ConfirmRemove, store
  <1>3. Marked(d)'
    BY <1>1 DEF Marked
  <1>4. CASE SetEntry(d, j.name, Tombstone(d, j.name)) /\ Become(t, k) /\ Goto(t, "index")
    <2>1. k.op = "remove"
      BY <1>1 DEF Jobs
    <2> HIDE DEF k
    <2>2. Prudent(t)'
      BY <1>4, <2>1 DEF Prudent, Goto, Become, TypeInv, TypeOK
    <2>3. ASSUME NEW n \in Names, Live(entry'[d][n])
          PROVE  /\ Live(entry[d][n]) /\ entry'[d][n].of = entry[d][n].of
                 /\ entry[d][n].tok <= entry'[d][n].tok
      <3>1. entry'[d][n] = entry[d][n]
        BY <1>1, <1>4, <2>3 DEF SetEntry, Tombstone, Live, DataOK
      <3>2. entry[d][n] \in Entries
        BY <1>1, <2>3, <3>1 DEF DataOK, Live
      <3> QED
        BY <2>3, <3>1, <3>2 DEF Entries
    <2> QED
      BY <1>1, <1>3, <1>4, <2>2, <2>3, OfferGrows
  <1> QED
    BY <1>1, <1>2, <1>3, <1>4, OfferEnds

\* A renaming takes an account from its entry into the command, and on to the new
\* entry: source and target change places.
LEMMA OfferMoves ==
    ASSUME TypeInv, TypeInv', NEW d \in Devices, OfferInv(d), NEW t \in Tasks, NEW n \in Names,
           \A u \in Tasks : u # t => at'[u] = at[u] /\ job'[u] = job[u],
           \A m \in Names : m # n => entry'[d][m] = entry[d][m],
           LET from == Held(d, <<"entry", n>>)
               to == Held(d, <<"job", t>>)'
           IN  Live(to) => Live(from) /\ to.of = from.of /\ from.tok <= to.tok,
           LET from == Held(d, <<"job", t>>)
               to == Held(d, <<"entry", n>>)'
           IN  Live(to) => Live(from) /\ to.of = from.of /\ from.tok <= to.tok,
           at'[t] # "asked", UNCHANGED <<consumed, abandoned>>, Prudent(t)', Marked(d)'
    PROVE  OfferInv(d)'
  <1> DEFINE old == <<"entry", n>>
             new == <<"job", t>>
             src == [h \in Holders |-> IF h = old THEN new ELSE IF h = new THEN old ELSE h]
  <1>1. old \in Holders /\ new \in Holders /\ old # new
    BY DEF Holders
  <1>2. src \in [Holders -> Holders] /\ \A h, i \in Holders : src[h] = src[i] => h = i
    BY <1>1
  <1>3. src[old] = new /\ src[new] = old /\ \A h \in Holders \ {old, new} : src[h] = h
    BY <1>1
  <1> HIDE DEF src
  <1>4. \A h \in Holders \ {old, new} : Held(d, h)' = Held(d, h)
    BY HolderKinds DEF Held
  <1>5. ASSUME NEW h \in Holders, Live(Held(d, h)')
        PROVE  /\ Live(Held(d, src[h])) /\ Held(d, h)'.of = Held(d, src[h]).of
               /\ Held(d, src[h]).tok <= Held(d, h)'.tok
    <2>1. CASE h \in {old, new}
      BY <1>3, <1>5, <2>1
    <2>2. CASE h \notin {old, new}
      BY <1>3, <1>4, <1>5, <2>2, HeldType
    <2> QED
      BY <2>1, <2>2
  <1>6. \A u \in Tasks : at'[u] = "asked" => at[u] = "asked" /\ job'[u] = job[u]
    OBVIOUS
  <1>7. ASSUME NEW p \in People, Sole(d, p) PROVE Sole(d, p)'
    <2>1. \A h \in Holders : Holds(d, h, p)' =>
              Holds(d, src[h], p) /\ Held(d, src[h]).tok <= Held(d, h)'.tok
      BY <1>5 DEF Holds
    <2> QED
      BY <1>2, <1>6, <1>7, <2>1, SoleMoves
  <1>8. ASSUME NEW h \in Holders, Live(Held(d, h)') PROVE Held(d, h)'.tok > 0
    <2>1. src[h] \in Holders
      BY <1>2
    <2>2. Held(d, src[h]).tok \in Nat /\ Held(d, h)'.tok \in Nat /\ Held(d, src[h]).tok > 0
      BY <1>5, <1>8, <2>1, HeldType, HeldStaysTyped DEF OfferInv, HeldOK
    <2> QED
      BY <1>5, <1>8, <2>2
  <1>9. \A u \in Tasks : Prudent(u)'
    BY DEF OfferInv, Prudent
  <1> QED
    BY <1>7, <1>8, <1>9 DEF OfferInv, Forgiven, Holders

LEMMA RenameOffers ==
    ASSUME TypeInv, TypeInv', NEW d \in Devices, \A e \in Devices : e = d, OfferInv(d),
           NEW t \in Tasks, NEW n \in Names, n = job[t].name, ConfirmRename(t)
    PROVE  OfferInv(d)'
  <1> DEFINE j == job[t]
             e == Visible(d, n)
             carry == [e EXCEPT !.ver = @ + 1]
             k == [j EXCEPT !.carry = carry, !.names = (index[d] \ {n}) \cup {j.to}]
  <1>1. /\ DataOK /\ j \in Jobs /\ j.on = d /\ at[t] = "confirm"
        /\ j.op = "rename" /\ Marked(d) /\ UNCHANGED <<consumed, abandoned, marker>>
    BY TypeParts, JobType
       DEF TypeInv, ConfirmRename, Stage, OfferInv, runtime, service
  <1>2. \/ e # None /\ SetEntry(d, n, None) /\ Become(t, k) /\ Goto(t, "moved")
        \/ End(t) /\ UNCHANGED entry
    BY <1>1 DEF ConfirmRename, store
  <1>3. Marked(d)'
    BY <1>1 DEF Marked
  <1>4. CASE e # None /\ SetEntry(d, n, None) /\ Become(t, k) /\ Goto(t, "moved")
    <2>1. e = entry[d][n] /\ e \in Entries
      BY <1>1, <1>4, VisibleType DEF Visible
    <2>2. carry.of = e.of /\ carry.tok = e.tok /\ e.tok \in Nat
      BY <2>1 DEF Entries
    <2>3. k.op = "rename" /\ k.carry = carry
      BY <1>1 DEF Jobs
    <2> HIDE DEF carry, k, e
    <2>4. /\ at'[t] = "moved" /\ job'[t] = k
          /\ \A u \in Tasks : u # t => at'[u] = at[u] /\ job'[u] = job[u]
      BY <1>4 DEF Goto, Become, TypeInv, TypeOK
    <2>5. Prudent(t)'
      BY <2>3, <2>4 DEF Prudent
    <2>6. entry'[d][n] = None /\ \A m \in Names : m # n => entry'[d][m] = entry[d][m]
      BY <1>1, <1>4 DEF SetEntry, DataOK
    <2>7. Held(d, <<"job", t>>)' = carry /\ Held(d, <<"entry", n>>) = e
          /\ ~Live(Held(d, <<"entry", n>>)')
      BY <2>1, <2>3, <2>4, <2>6, EntryHeld DEF Held, Live
    <2>8. Live(carry) => Live(e) /\ carry.of = e.of /\ e.tok <= carry.tok
      BY <1>4, <2>2 DEF Live
    <2> QED
      BY <1>1, <1>3, <2>4, <2>5, <2>6, <2>7, <2>8, OfferMoves
  <1> QED
    BY <1>1, <1>2, <1>3, <1>4, OfferEnds

LEMMA RenamedOffers ==
    ASSUME TypeInv, TypeInv', NEW d \in Devices, \A e \in Devices : e = d, OfferInv(d),
           NEW t \in Tasks, NEW n \in Names, n = job[t].to, WriteRenamed(t)
    PROVE  OfferInv(d)'
  <1> DEFINE j == job[t]
  <1>1. /\ DataOK /\ j \in Jobs /\ j.on = d /\ at[t] = "moved" /\ j.op = "rename"
        /\ j.carry \in Entries /\ Marked(d) /\ UNCHANGED <<consumed, abandoned, marker>>
        /\ SetEntry(d, n, j.carry) /\ Goto(t, "index") /\ job' = job
    BY TypeParts, JobType
       DEF TypeInv, WriteRenamed, Stage, OfferInv, runtime, service
  <1>2. at'[t] = "index" /\ \A u \in Tasks : u # t => at'[u] = at[u] /\ job'[u] = job[u]
    BY <1>1 DEF Goto, TypeInv, TypeOK
  <1>3. Prudent(t)' /\ Marked(d)'
    BY <1>1, <1>2 DEF Prudent, Marked
  <1>4. entry'[d][n] = j.carry /\ \A m \in Names : m # n => entry'[d][m] = entry[d][m]
    BY <1>1 DEF SetEntry, DataOK
  <1>5. Held(d, <<"job", t>>) = j.carry /\ Held(d, <<"entry", n>>)' = j.carry
        /\ ~Live(Held(d, <<"job", t>>)')
    BY <1>1, <1>2, <1>4, EntryHeld DEF Held, Live
  <1>6. j.carry.tok \in Nat
    BY <1>1 DEF Entries
  <1> QED
    BY <1>1, <1>2, <1>3, <1>4, <1>5, <1>6, OfferMoves

LEMMA OfferStep ==
    ASSUME TypeInv, DatedInv, Local, NEW d \in Devices, OfferInv(d), [Next]_vars
    PROVE  OfferInv(d)'
  <1>1. TypeInv' /\ \A e \in Devices : e = d
    BY TypeStep DEF Local
  <1>2. ASSUME NEW t \in Tasks, Command(t) PROVE OfferInv(d)'
    <2>1. at[t] # "idle" => job[t].on = d /\ job[t].name \in Names
      BY <1>1, JobType DEF Stage
    <2>2. ASSUME NEW n \in Names, BeginAdd(t, d, n) \/ Restore(t, d, n) PROVE FALSE
      BY <2>2 DEF BeginAdd, Restore, Begins, Local
    <2>3. ASSUME NEW n \in Names, BeginUse(t, d, n) \/ BeginRefresh(t, d, n) PROVE OfferInv(d)'
      BY <1>1, <2>3, UseOffers, BeginRefreshOffers
    <2>4. ASSUME NEW p \in People, LoginAnswers(t, p) PROVE OfferInv(d)'
      BY <1>1, <2>4, LoginOffers
    <2>5. CASE RefreshAnswers(t)
      <3>1. job[t].name \in Names /\ job[t].of \in People
        BY <2>5, JobType DEF RefreshAnswers, Stage
      <3> QED
        BY <1>1, <2>5, <3>1, AnswerOffers
    <2>6. CASE ConfirmRemove(t)
      BY <1>1, <2>6, RemoveOffers
    <2>7. CASE ConfirmRename(t)
      <3>1. job[t].name \in Names
        BY <2>7, JobType DEF ConfirmRename, Stage
      <3> QED
        BY <1>1, <2>7, <3>1, RenameOffers
    <2>8. CASE WriteRenamed(t)
      <3>1. job[t].to \in Names
        BY <2>8, JobType DEF WriteRenamed, Stage
      <3> QED
        BY <1>1, <2>8, <3>1, RenamedOffers
    <2> QED
      BY <1>1, <1>2, <2>2, <2>3, <2>4, <2>5, <2>6, <2>7, <2>8, QuietOffers DEF Command
  <1>3. ASSUME UNCHANGED <<entry, consumed, abandoned, marker, at, job>> PROVE OfferInv(d)'
    BY <1>3 DEF OfferInv, Sole, Forgiven, Holds, Held, Prudent, Marked
  <1>4. ASSUME NEW b \in Devices, CodexRotates(b) PROVE OfferInv(d)'
    BY <1>3, <1>4 DEF CodexRotates, store
  <1>5. ASSUME NEW b \in Devices, NEW k \in Keys, Upload(b, k) \/ Download(b, k) PROVE FALSE
    BY <1>5 DEF Upload, Download, Local
  <1>6. CASE UNCHANGED vars
    BY <1>3, <1>6 DEF vars, store, runtime, service
  <1> QED
    BY <1>2, <1>4, <1>5, <1>6 DEF Next

LEMMA OfferInit == ASSUME Init, NEW d \in Devices PROVE OfferInv(d)
  <1>1. PICK owner \in [Names -> People \cup {None}] :
           LET known == {n \in Names : owner[n] # None}
               first == [n \in Names |-> IF n \in known
                                         THEN [ver |-> 1, of |-> owner[n], tok |-> 1]
                                         ELSE None]
           IN  /\ \A m, n \in known : owner[m] = owner[n] => m = n
               /\ entry = [b \in Devices |-> first]
    BY DEF Init
  <1>2. /\ consumed = {} /\ marker[d] = None
        /\ at = [t \in Tasks |-> "idle"] /\ job = [t \in Tasks |-> Idle]
    BY DEF Init
  <1>3. \A h \in Holders : Live(Held(d, h)) =>
           \E n \in Names : h = <<"entry", n>> /\ owner[n] # None
                            /\ Held(d, h) = [ver |-> 1, of |-> owner[n], tok |-> 1]
    <2> SUFFICES ASSUME NEW h \in Holders, Live(Held(d, h))
                 PROVE  \E n \in Names : h = <<"entry", n>> /\ owner[n] # None
                            /\ Held(d, h) = [ver |-> 1, of |-> owner[n], tok |-> 1]
      OBVIOUS
    <2>1. CASE \E n \in Names : h = <<"entry", n>>
      <3>1. PICK n \in Names : h = <<"entry", n>>
        BY <2>1
      <3>2. Held(d, h) = entry[d][n]
        BY <3>1, EntryHeld
      <3>3. entry[d][n] = IF owner[n] # None THEN [ver |-> 1, of |-> owner[n], tok |-> 1] ELSE None
        BY <1>1
      <3> QED
        BY <3>1, <3>2, <3>3 DEF Live
    <2>2. CASE \E t \in Tasks : h = <<"job", t>>
      BY <1>2, <2>2 DEF Held, Live
    <2> QED
      BY <2>1, <2>2, HolderKinds
  <1>4. ASSUME NEW p \in People PROVE Sole(d, p)
    <2>1. \A h, i \in Holders : Holds(d, h, p) /\ Holds(d, i, p) => h = i
      BY <1>1, <1>3 DEF Holds
    <2> QED
      BY <1>2, <2>1 DEF Sole
  <1>5. \A h \in Holders : Live(Held(d, h)) => Held(d, h).tok > 0
    BY <1>3
  <1>6. \A t \in Tasks : Prudent(t)
    BY <1>2 DEF Prudent
  <1> QED
    BY <1>2, <1>4, <1>5, <1>6 DEF OfferInv, Marked

LEMMA OfferedUnspent == ASSUME TypeInv, \A d \in Devices : OfferInv(d) PROVE SpentNotOffered
  <1> SUFFICES ASSUME NEW d \in Devices, NEW n \in Names, Ready(d, n),
                      CredOf(entry[d][n]) \in consumed
               PROVE  CredOf(entry[d][n]) \in abandoned
    BY DEF SpentNotOffered
  <1> DEFINE c == CredOf(entry[d][n])
  <1>1. /\ entry[d][n].of \in People /\ entry[d][n].tok \in Nat /\ Live(entry[d][n])
        /\ c.of = entry[d][n].of /\ c.tok = entry[d][n].tok
    BY TypeParts, ReadyType DEF TypeInv, Entries, CredOf, Ready
  <1>2. CASE Forgiven(c.of)
    <2>1. c \in [of : {c.of}, tok : 1..MaxClock]
      BY DEF OfferInv, CredOf
    <2> QED
      BY <1>2, <2>1 DEF Forgiven
  <1>3. CASE Sole(d, c.of)
    <2>1. <<"entry", n>> \in Holders /\ Holds(d, <<"entry", n>>, c.of)
      BY <1>1, EntryHeld DEF Holds
    <2>2. c \in abandoned \/ c.tok < Held(d, <<"entry", n>>).tok
      BY <1>3, <2>1 DEF Sole
    <2> QED
      BY <1>1, <2>2, EntryHeld
  <1> QED
    BY <1>1, <1>2, <1>3 DEF OfferInv

\* On one device a saved account never offers a token that a refresh has exchanged,
\* whatever commands overlap and however Codex rotates auth.json, unless its name
\* stood for nothing, or another, when an answer came, or the answer could not be written.
THEOREM ExchangedNotOffered == ASSUME Local PROVE Spec => []SpentNotOffered
  <1> DEFINE Inv == TypeInv /\ DatedInv /\ \A d \in Devices : OfferInv(d)
  <1>1. Init => Inv
    BY InitType, DatedInit, OfferInit
  <1>2. Inv /\ [Next]_vars => Inv'
    BY TypeStep, DatedStep, OfferStep
  <1>3. Inv => SpentNotOffered
    BY OfferedUnspent
  <1> QED
    BY <1>1, <1>2, <1>3, PTL DEF Spec
=============================================================================
