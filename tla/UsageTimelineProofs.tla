------------------------ MODULE UsageTimelineProofs ------------------------
(***************************************************************************)
(* Proofs about UsageTimeline for any windows, entries, names and number of *)
(* persists: no recorded selection is lost, whatever the windows persist at *)
(* once, rename, remove and restart; and, while no name is given again and  *)
(* no entry is both renamed and removed, what was used is given to whose    *)
(* selection was recorded, and stays with what was removed.                *)
(***************************************************************************)
EXTENDS UsageTimeline, FiniteSetTheorems, WellFoundedInduction, TLAPS

-----------------------------------------------------------------------------
(* Induction over the numbers, for what is computed step by step. *)

LEMMA Least == ASSUME NEW T \in SUBSET Nat, T # {} PROVE \E m \in T : \A k \in T : m <= k
  <1>1. PICK m \in T : \A k \in T : <<k, m>> \notin OpToRel(<, Nat)
    BY NatLessThanWellFounded, WFMin
  <1>2. \A k \in T : ~(k < m)
    BY <1>1 DEF OpToRel
  <1> QED
    BY <1>2

LEMMA Inductive ==
    ASSUME NEW T, 0 \in T, \A n \in Nat : n \in T => n + 1 \in T PROVE Nat \subseteq T
  <1> SUFFICES ASSUME Nat \ T # {} PROVE FALSE
    OBVIOUS
  <1>1. PICK m \in Nat \ T : \A k \in Nat \ T : m <= k
    BY Least
  <1>2. m # 0 /\ m - 1 \in Nat
    BY <1>1
  <1>3. m - 1 \in T
    BY <1>1, <1>2
  <1> QED
    BY <1>1, <1>2, <1>3

-----------------------------------------------------------------------------
(* What the operations keep of a timeline *)

Intervals == [subject : Ids \cup {None}, until : Int \cup {None}]

IsState(s) ==
    /\ s = [timeline |-> s.timeline, decisions |-> s.decisions, retirements |-> s.retirements]
    /\ s.timeline = [t \in DOMAIN s.timeline |-> s.timeline[t]]
    /\ \A t \in DOMAIN s.timeline : s.timeline[t] \in Intervals
    /\ s.decisions = [i \in Ids |-> s.decisions[i]]
    /\ \A i \in Ids : s.decisions[i] # None => s.decisions[i].to \in Ids \cup {None}
    /\ \A r \in s.retirements : r.to \in Ids

\* Every interval is still there, and what was somebody's is somebody's.
Same(s, z) ==
    /\ DOMAIN z.timeline = DOMAIN s.timeline
    /\ \A t \in DOMAIN s.timeline :
          s.timeline[t].subject # None => z.timeline[t].subject # None

LEMMA IdsFinite == IsFiniteSet(Ids) /\ Cardinality(Ids) \in Nat
  BY TimelineAssumption, FS_Union, FS_CardinalityType DEF Ids

LEMMA NoneIsNoId == None \notin Ids
  BY TimelineAssumption DEF Ids

LEMMA SameIsTransitive ==
    ASSUME NEW s, NEW y, NEW z, Same(s, y), Same(y, z) PROVE Same(s, z)
  BY DEF Same

\* The walk as a function over the hops.
LEMMA WalkIs ==
    ASSUME NEW remaps, NEW i \in Ids
    PROVE  \E walk :
              /\ resolveMappedId(i, remaps) = walk[Cardinality(Ids) + 1].at
              /\ \A m \in 0 .. Cardinality(Ids) + 1 :
                    walk[m] = IF m = 0 THEN [at |-> i, seen |-> {}]
                              ELSE Hop(remaps, walk[m - 1])
  <1> DEFINE N == Cardinality(Ids) + 1
             start == [at |-> i, seen |-> {}]
             Is(f, n) == f = [m \in 0 .. n |-> IF m = 0 THEN start ELSE Hop(remaps, f[m - 1])]
             T == {n \in Nat : \E f : Is(f, n)}
  <1>1. N \in Nat
    BY IdsFinite
  <1>2. 0 \in T
    <2>1. Is([m \in 0 .. 0 |-> start], 0)
      OBVIOUS
    <2> QED
      BY <2>1
  <1>3. ASSUME NEW n \in Nat, n \in T PROVE n + 1 \in T
    <2>1. PICK f : Is(f, n)
      BY <1>3
    <2> DEFINE g == [m \in 0 .. n + 1 |-> IF m <= n THEN f[m] ELSE Hop(remaps, f[n])]
    <2>2. \A m \in 0 .. n : f[m] = IF m = 0 THEN start ELSE Hop(remaps, f[m - 1])
      BY <2>1
    <2>3. \A m \in 0 .. n : g[m] = f[m]
      OBVIOUS
    <2>4. g[n + 1] = Hop(remaps, f[n])
      OBVIOUS
    <2>5. g = [m \in 0 .. n + 1 |-> g[m]]
      OBVIOUS
    <2> HIDE DEF g, start
    <2>6. ASSUME NEW m \in 0 .. n + 1
          PROVE  g[m] = IF m = 0 THEN start ELSE Hop(remaps, g[m - 1])
      <3>1. CASE m \in 0 .. n
        <4>1. m = 0 \/ m - 1 \in 0 .. n
          BY <3>1
        <4> QED
          BY <2>2, <2>3, <3>1, <4>1
      <3>2. CASE m = n + 1
        <4>1. n \in 0 .. n /\ m - 1 = n /\ m # 0
          BY <3>2
        <4> QED
          BY <2>3, <2>4, <3>2, <4>1
      <3> QED
        BY <3>1, <3>2
    <2>7. Is(g, n + 1)
      BY <2>5, <2>6
    <2> QED
      BY <2>7
  <1>4. N \in T
    <2> HIDE DEF T, N
    <2>1. Nat \subseteq T
      BY <1>2, <1>3, Inductive
    <2> QED
      BY <1>1, <2>1
  <1> DEFINE walk == CHOOSE f : Is(f, N)
  <1>5. Is(walk, N)
    BY <1>4
  <1>9. \A m \in 0 .. N : walk[m] = IF m = 0 THEN start ELSE Hop(remaps, walk[m - 1])
    BY <1>5
  <1>10. resolveMappedId(i, remaps) = walk[N].at
    BY NoneIsNoId DEF resolveMappedId, walk
  <1> QED
    BY <1>9, <1>10

LEMMA WalkType ==
    ASSUME NEW remaps, \A i \in Ids : remaps[i] \in Ids \cup {None}, NEW i \in Ids
    PROVE  resolveMappedId(i, remaps) \in Ids
  <1> DEFINE N == Cardinality(Ids) + 1
             start == [at |-> i, seen |-> {}]
  <1>1. N \in Nat
    BY IdsFinite
  <1>2. PICK walk :
           /\ resolveMappedId(i, remaps) = walk[N].at
           /\ \A m \in 0 .. N : walk[m] = IF m = 0 THEN start ELSE Hop(remaps, walk[m - 1])
    BY WalkIs
  <1>9. \A m \in 0 .. N : walk[m] = IF m = 0 THEN start ELSE Hop(remaps, walk[m - 1])
    BY <1>2
  <1> DEFINE U == {n \in Nat : n <= N => walk[n].at \in Ids}
  <1>6. 0 \in U
    BY <1>1, <1>9
  <1>7. ASSUME NEW n \in Nat, n \in U PROVE n + 1 \in U
    <2> SUFFICES ASSUME n + 1 <= N PROVE walk[n + 1].at \in Ids
      OBVIOUS
    <2>1. walk[n + 1] = Hop(remaps, walk[n])
      <3> HIDE DEF start, N
      <3>1. n + 1 \in 0 .. N /\ n + 1 # 0 /\ (n + 1) - 1 = n
        BY <1>1
      <3> QED
        BY <1>9, <3>1
    <2>2. walk[n].at \in Ids
      BY <1>1, <1>7
    <2> QED
      BY <2>1, <2>2 DEF Hop
  <1>8. walk[N].at \in Ids
    <2> HIDE DEF N
    <2>1. Nat \subseteq U
      <3> HIDE DEF U
      <3> QED
        BY <1>6, <1>7, Inductive
    <2> QED
      BY <1>1, <2>1
  <1> QED
    BY <1>2, <1>8

LEMMA RemapsType ==
    ASSUME NEW s, IsState(s) PROVE \A i \in Ids : Remaps(s)[i] \in Ids \cup {None}
  BY DEF IsState, Remaps

LEMMA ResolveType ==
    ASSUME NEW s, IsState(s), NEW i \in Ids \cup {None}
    PROVE  /\ Resolve(s, i) \in Ids \cup {None}
           /\ i # None => Resolve(s, i) # None
  <1>1. CASE i = None
    BY <1>1 DEF Resolve, resolveMappedId
  <1>2. CASE i \in Ids
    BY <1>2, RemapsType, WalkType, NoneIsNoId DEF Resolve
  <1> QED
    BY <1>1, <1>2

LEMMA DecideKeeps ==
    ASSUME NEW s, IsState(s), NEW i, NEW to \in Ids \cup {None}
    PROVE  IsState(Decide(s, i, to)) /\ Same(s, Decide(s, i, to))
  <1> DEFINE at == Max({now, LastDecision(s) + 1})
             z == Decide(s, i, to)
  <1> HIDE DEF at
  <1>1. z = [s EXCEPT !.decisions[i] = [to |-> to, at |-> at]]
    BY DEF Decide, at
  <1>2. z.timeline = s.timeline /\ z.retirements = s.retirements
        /\ z.decisions = [s.decisions EXCEPT ![i] = [to |-> to, at |-> at]]
        /\ z = [timeline |-> z.timeline, decisions |-> z.decisions, retirements |-> z.retirements]
    BY <1>1 DEF IsState
  <1> HIDE DEF z
  <1>3. z.decisions = [k \in Ids |-> z.decisions[k]]
    BY <1>2 DEF IsState
  <1>4. \A k \in Ids : z.decisions[k] = s.decisions[k] \/ z.decisions[k].to = to
    BY <1>2 DEF IsState
  <1> QED
    BY <1>2, <1>3, <1>4 DEF IsState, Same, z

LEMMA ReleaseKeeps ==
    ASSUME NEW s, IsState(s), NEW i, NEW to
    PROVE  IsState(Release(s, i, to)) /\ Same(s, Release(s, i, to))
  <1>1. Same(s, s)
    BY DEF Same
  <1> QED
    BY <1>1, DecideKeeps DEF Release

\* The aliases are released one after the other.
LEMMA ReleasedIs ==
    ASSUME NEW s, NEW ids \in SUBSET Ids, NEW to
    PROVE  \E order, upTo :
              /\ \A m \in 1 .. Cardinality(ids) : order[m] \in ids
              /\ Released(s, ids, to) = upTo[Cardinality(ids)]
              /\ \A m \in 0 .. Cardinality(ids) :
                    upTo[m] = IF m = 0 THEN s ELSE Release(upTo[m - 1], order[m], to)
  <1> DEFINE N == Cardinality(ids)
             order == SetToSeq(ids)
             Is(f, n) == f = [m \in 0 .. n |-> IF m = 0 THEN s ELSE Release(f[m - 1], order[m], to)]
             T == {n \in Nat : \E f : Is(f, n)}
  <1>0. IsFiniteSet(ids) /\ \A m \in 1 .. N : order[m] \in ids
    <2>1. IsFiniteSet(ids)
      BY IdsFinite, FS_Subset
    <2>2. \E f \in [1 .. N -> ids] : IsInjective(f)
      BY <2>1, FS_CardinalityType DEF ExistsBijection, Bijection, Injection
    <2>3. order \in [1 .. N -> ids]
      BY <2>2 DEF SetToSeq
    <2> QED
      BY <2>1, <2>3
  <1> HIDE DEF order
  <1>1. N \in Nat
    BY <1>0, FS_CardinalityType
  <1>2. 0 \in T
    <2>1. Is([m \in 0 .. 0 |-> s], 0)
      OBVIOUS
    <2> QED
      BY <2>1
  <1>3. ASSUME NEW n \in Nat, n \in T PROVE n + 1 \in T
    <2>1. PICK f : Is(f, n)
      BY <1>3
    <2> DEFINE g == [m \in 0 .. n + 1 |-> IF m <= n THEN f[m] ELSE Release(f[n], order[n + 1], to)]
    <2>2. \A m \in 0 .. n : f[m] = IF m = 0 THEN s ELSE Release(f[m - 1], order[m], to)
      BY <2>1
    <2>3. \A m \in 0 .. n : g[m] = f[m]
      OBVIOUS
    <2>4. g[n + 1] = Release(f[n], order[n + 1], to)
      OBVIOUS
    <2>5. g = [m \in 0 .. n + 1 |-> g[m]]
      OBVIOUS
    <2> HIDE DEF g
    <2>6. ASSUME NEW m \in 0 .. n + 1
          PROVE  g[m] = IF m = 0 THEN s ELSE Release(g[m - 1], order[m], to)
      <3>1. CASE m \in 0 .. n
        <4>1. m = 0 \/ m - 1 \in 0 .. n
          BY <3>1
        <4> QED
          BY <2>2, <2>3, <3>1, <4>1
      <3>2. CASE m = n + 1
        <4>1. n \in 0 .. n /\ m - 1 = n /\ m # 0
          BY <3>2
        <4> QED
          BY <2>3, <2>4, <3>2, <4>1
      <3> QED
        BY <3>1, <3>2
    <2>7. Is(g, n + 1)
      BY <2>5, <2>6
    <2> QED
      BY <2>7
  <1>4. N \in T
    <2> HIDE DEF T, N
    <2>1. Nat \subseteq T
      BY <1>2, <1>3, Inductive
    <2> QED
      BY <1>1, <2>1
  <1> DEFINE upTo == CHOOSE f : Is(f, N)
  <1>5. Is(upTo, N)
    BY <1>4
  <1>6. \A m \in 0 .. N : upTo[m] = IF m = 0 THEN s ELSE Release(upTo[m - 1], order[m], to)
    BY <1>5
  <1>7. Released(s, ids, to) = upTo[N]
    BY DEF Released, order
  <1> QED
    BY <1>0, <1>6, <1>7

LEMMA ReleasedKeeps ==
    ASSUME NEW s, IsState(s), NEW ids \in SUBSET Ids, NEW to
    PROVE  IsState(Released(s, ids, to)) /\ Same(s, Released(s, ids, to))
  <1> DEFINE N == Cardinality(ids)
  <1>1. N \in Nat
    BY IdsFinite, FS_Subset, FS_CardinalityType
  <1>2. PICK order, upTo :
           /\ Released(s, ids, to) = upTo[N]
           /\ \A m \in 0 .. N :
                 upTo[m] = IF m = 0 THEN s ELSE Release(upTo[m - 1], order[m], to)
    BY ReleasedIs
  <1>6. \A m \in 0 .. N : upTo[m] = IF m = 0 THEN s ELSE Release(upTo[m - 1], order[m], to)
    BY <1>2
  <1>7. Released(s, ids, to) = upTo[N]
    BY <1>2
  <1> HIDE DEF N
  <1> DEFINE U == {n \in Nat : n <= N => IsState(upTo[n]) /\ Same(s, upTo[n])}
  <1>8. 0 \in U
    BY <1>1, <1>6 DEF Same
  <1>9. ASSUME NEW n \in Nat, n \in U PROVE n + 1 \in U
    <2> SUFFICES ASSUME n + 1 <= N PROVE IsState(upTo[n + 1]) /\ Same(s, upTo[n + 1])
      OBVIOUS
    <2>1. upTo[n + 1] = Release(upTo[n], order[n + 1], to)
      <3>1. n + 1 \in 0 .. N /\ n + 1 # 0 /\ (n + 1) - 1 = n
        BY <1>1
      <3> QED
        BY <1>6, <3>1
    <2>2. IsState(upTo[n]) /\ Same(s, upTo[n])
      BY <1>1, <1>9
    <2> QED
      BY <2>1, <2>2, ReleaseKeeps, SameIsTransitive
  <1>10. Nat \subseteq U
    <2> HIDE DEF U
    <2> QED
      BY <1>8, <1>9, Inductive
  <1> QED
    BY <1>1, <1>7, <1>10

\* A timeline whose intervals have got other subjects.
LEMMA MovedKeeps ==
    ASSUME NEW s, IsState(s), NEW who, NEW rs, NEW z,
           z = [timeline |-> [t \in DOMAIN s.timeline |->
                                [s.timeline[t] EXCEPT !.subject = who[t]]],
                decisions |-> s.decisions, retirements |-> rs],
           \A r \in rs : r.to \in Ids,
           \A t \in DOMAIN s.timeline :
              /\ who[t] \in Ids \cup {None}
              /\ s.timeline[t].subject # None => who[t] # None
    PROVE  IsState(z) /\ Same(s, z)
  <1> DEFINE line == [t \in DOMAIN s.timeline |-> [s.timeline[t] EXCEPT !.subject = who[t]]]
  <1>1. z.timeline = line /\ z.decisions = s.decisions /\ z.retirements = rs
    OBVIOUS
  <1>2. \A t \in DOMAIN s.timeline : line[t] \in Intervals /\ line[t].subject = who[t]
    BY DEF IsState, Intervals
  <1>3. DOMAIN line = DOMAIN s.timeline /\ line = [t \in DOMAIN line |-> line[t]]
    OBVIOUS
  <1>4. z = [timeline |-> line, decisions |-> s.decisions, retirements |-> rs]
    OBVIOUS
  <1> HIDE DEF line
  <1> QED
    BY <1>1, <1>2, <1>3, <1>4 DEF IsState, Same

LEMMA SubjectType ==
    ASSUME NEW s, IsState(s), NEW t \in DOMAIN s.timeline
    PROVE  s.timeline[t].subject \in Ids \cup {None}
  BY DEF IsState, Intervals

LEMMA ResolvedKeeps ==
    ASSUME NEW s, IsState(s), NEW z, z = [s EXCEPT !.timeline = Resolved(s)]
    PROVE  IsState(z) /\ Same(s, z)
  <1> DEFINE who == [t \in DOMAIN s.timeline |-> Resolve(s, s.timeline[t].subject)]
  <1>1. Resolved(s) = [t \in DOMAIN s.timeline |-> [s.timeline[t] EXCEPT !.subject = who[t]]]
    BY DEF Resolved
  <1>2. z = [timeline |-> Resolved(s), decisions |-> s.decisions, retirements |-> s.retirements]
    BY DEF IsState
  <1>3. \A t \in DOMAIN s.timeline : /\ who[t] \in Ids \cup {None}
                                     /\ s.timeline[t].subject # None => who[t] # None
    BY SubjectType, ResolveType
  <1>4. \A r \in s.retirements : r.to \in Ids
    BY DEF IsState
  <1> HIDE DEF who
  <1> QED
    BY <1>1, <1>2, <1>3, <1>4, MovedKeeps

LEMMA ReleaseAliasKeeps ==
    ASSUME NEW s, IsState(s), NEW i
    PROVE  IsState(ReleaseAlias(s, i)) /\ Same(s, ReleaseAlias(s, i))
  <1>1. Same(s, s)
    BY DEF Same
  <1> DEFINE z == [s EXCEPT !.timeline = Resolved(s)]
  <1>2. IsState(z) /\ Same(s, z)
    BY ResolvedKeeps
  <1> HIDE DEF z
  <1>3. IsState(Decide(z, i, None)) /\ Same(s, Decide(z, i, None))
    BY <1>2, DecideKeeps, SameIsTransitive
  <1>4. ReleaseAlias(s, i) \in {s, Decide(z, i, None)}
    BY DEF ReleaseAlias, z
  <1> QED
    BY <1>1, <1>3, <1>4

LEMMA RememberKeeps ==
    ASSUME NEW s, IsState(s), NEW w, NEW i
    PROVE  IsState(Remember(w, s, i)) /\ Same(s, Remember(w, s, i))
  <1>1. Same(s, s)
    BY DEF Same
  <1> QED
    BY <1>1, ReleaseAliasKeeps DEF Remember

LEMMA ReplayKeeps ==
    ASSUME NEW s, IsState(s), NEW r, r.to \in Ids
    PROVE  /\ IsState(Replay(s, r)) /\ Same(s, Replay(s, r))
           /\ Replay(s, r).retirements = s.retirements
  <1> DEFINE Was(i) == resolveMappedId(i, Remaps(s)) = r.from
             who == [t \in DOMAIN s.timeline |->
                        IF t <= r.at /\ Was(s.timeline[t].subject)
                        THEN r.to ELSE s.timeline[t].subject]
             old == [t \in DOMAIN s.timeline |->
                        IF t <= r.at /\ Was(s.timeline[t].subject)
                        THEN [s.timeline[t] EXCEPT !.subject = r.to] ELSE s.timeline[t]]
             line == [t \in DOMAIN s.timeline |-> [s.timeline[t] EXCEPT !.subject = who[t]]]
             ds == [i \in Ids |-> IF Remaps(s)[i] # None /\ Was(i) /\ s.decisions[i].at <= r.at
                                  THEN [to |-> None, at |-> r.at] ELSE s.decisions[i]]
             z == [timeline |-> line, decisions |-> s.decisions, retirements |-> s.retirements]
  <1>1. old = line
    <2> SUFFICES ASSUME NEW t \in DOMAIN s.timeline PROVE old[t] = line[t]
      OBVIOUS
    <2>1. s.timeline[t] = [s.timeline[t] EXCEPT !.subject = s.timeline[t].subject]
      BY DEF IsState, Intervals
    <2> HIDE DEF Was
    <2> QED
      BY <2>1
  <1>2. \A t \in DOMAIN s.timeline : /\ who[t] \in Ids \cup {None}
                                     /\ s.timeline[t].subject # None => who[t] # None
    <2> HIDE DEF Was
    <2> QED
      BY SubjectType, NoneIsNoId
  <1>3. IsState(z) /\ Same(s, z)
    <2>1. \A q \in s.retirements : q.to \in Ids
      BY DEF IsState
    <2>2. z = [timeline |-> [t \in DOMAIN s.timeline |->
                                [s.timeline[t] EXCEPT !.subject = who[t]]],
               decisions |-> s.decisions, retirements |-> s.retirements]
      OBVIOUS
    <2> HIDE DEF who, z
    <2> QED
      BY <1>2, <2>1, <2>2, MovedKeeps
  <1>4. Replay(s, r) = [s EXCEPT !.timeline = old, !.decisions = ds]
    BY DEF Replay
  <1>5. [s EXCEPT !.timeline = old, !.decisions = ds] =
          [timeline |-> line, decisions |-> ds, retirements |-> s.retirements]
    <2> HIDE DEF old, ds, line, who
    <2>1. s = [timeline |-> s.timeline, decisions |-> s.decisions,
               retirements |-> s.retirements]
      BY DEF IsState
    <2>2. [s EXCEPT !.timeline = old] =
             [timeline |-> old, decisions |-> s.decisions, retirements |-> s.retirements]
      BY <2>1
    <2>3. PICK y : y = [s EXCEPT !.timeline = old]
      OBVIOUS
    <2>4. y = [timeline |-> old, decisions |-> s.decisions, retirements |-> s.retirements]
      BY <2>2, <2>3
    <2>5. [y EXCEPT !.decisions = ds] =
             [timeline |-> old, decisions |-> ds, retirements |-> s.retirements]
      BY <2>4
    <2> QED
      BY <1>1, <2>3, <2>5
  <1>6. \A i \in Ids : ds[i] = s.decisions[i] \/ ds[i].to = None
    <2> HIDE DEF Was
    <2> QED
      OBVIOUS
  <1>7. ds = [i \in Ids |-> ds[i]]
    OBVIOUS
  <1>8. z.timeline = line /\ z.retirements = s.retirements
    OBVIOUS
  <1> DEFINE y == Replay(s, r)
  <1> HIDE DEF ds, line, old, who, z, Was
  <1>9. y = [timeline |-> line, decisions |-> ds, retirements |-> s.retirements]
    BY <1>4, <1>5
  <1>10. y.timeline = line /\ y.decisions = ds /\ y.retirements = s.retirements
    BY <1>9
  <1> HIDE DEF y
  <1>11. Same(s, y)
    BY <1>3, <1>8, <1>10 DEF Same
  <1>12. IsState(y)
    <2>1. \A i \in Ids : ds[i] # None => ds[i].to \in Ids \cup {None}
      BY <1>6 DEF IsState
    <2> QED
      BY <1>3, <1>7, <1>8, <1>9, <1>10, <2>1 DEF IsState
  <1> QED
    BY <1>10, <1>11, <1>12 DEF y

\* The retirements are replayed in the order of time.
Replayings(s, time, v) ==
    IF {r \in s.retirements : r.at = time} = {} THEN v
    ELSE Replay(v, CHOOSE r \in {r \in s.retirements : r.at = time} : TRUE)

LEMMA ReplayedIs ==
    ASSUME NEW s
    PROVE  \E upTo :
              /\ Replayed(s) = upTo[MaxTime]
              /\ \A m \in 0 .. MaxTime :
                    upTo[m] = IF m = 0 THEN s ELSE Replayings(s, m, upTo[m - 1])
  <1> DEFINE Step(v, m) == Replayings(s, m, v)
             Is(f, n) == f = [m \in 0 .. n |-> IF m = 0 THEN s ELSE Step(f[m - 1], m)]
             T == {n \in Nat : \E f : Is(f, n)}
  <1>1. MaxTime \in Nat
    BY TimelineAssumption
  <1>3. Replayed(s) = (CHOOSE f : Is(f, MaxTime))[MaxTime]
    BY DEF Replayed, Replayings
  <1>2. \A v, m : Step(v, m) = Replayings(s, m, v)
    OBVIOUS
  <1> HIDE DEF Step
  <1>4. 0 \in T
    <2>1. Is([m \in 0 .. 0 |-> s], 0)
      OBVIOUS
    <2> QED
      BY <2>1
  <1>5. ASSUME NEW n \in Nat, n \in T PROVE n + 1 \in T
    <2>1. PICK f : Is(f, n)
      BY <1>5
    <2> DEFINE g == [m \in 0 .. n + 1 |-> IF m <= n THEN f[m] ELSE Step(f[n], n + 1)]
    <2>2. \A m \in 0 .. n : f[m] = IF m = 0 THEN s ELSE Step(f[m - 1], m)
      BY <2>1
    <2>3. \A m \in 0 .. n : g[m] = f[m]
      OBVIOUS
    <2>4. g[n + 1] = Step(f[n], n + 1)
      OBVIOUS
    <2>5. g = [m \in 0 .. n + 1 |-> g[m]]
      OBVIOUS
    <2> HIDE DEF g
    <2>6. ASSUME NEW m \in 0 .. n + 1
          PROVE  g[m] = IF m = 0 THEN s ELSE Step(g[m - 1], m)
      <3>1. CASE m \in 0 .. n
        <4>1. m = 0 \/ m - 1 \in 0 .. n
          BY <3>1
        <4> QED
          BY <2>2, <2>3, <3>1, <4>1
      <3>2. CASE m = n + 1
        <4>1. n \in 0 .. n /\ m - 1 = n /\ m # 0
          BY <3>2
        <4> QED
          BY <2>3, <2>4, <3>2, <4>1
      <3> QED
        BY <3>1, <3>2
    <2>7. Is(g, n + 1)
      BY <2>5, <2>6
    <2> QED
      BY <2>7
  <1>6. MaxTime \in T
    <2> HIDE DEF T
    <2>1. Nat \subseteq T
      BY <1>4, <1>5, Inductive
    <2> QED
      BY <1>1, <2>1
  <1> DEFINE upTo == CHOOSE f : Is(f, MaxTime)
  <1>7. Is(upTo, MaxTime)
    BY <1>6
  <1>8. \A m \in 0 .. MaxTime : upTo[m] = IF m = 0 THEN s ELSE Step(upTo[m - 1], m)
    BY <1>7
  <1>9. Replayed(s) = upTo[MaxTime]
    BY <1>3
  <1> HIDE DEF upTo
  <1> QED
    BY <1>2, <1>8, <1>9

LEMMA ReplayedKeeps ==
    ASSUME NEW s, IsState(s)
    PROVE  IsState(Replayed(s)) /\ Same(s, Replayed(s))
  <1> DEFINE Of(m) == {r \in s.retirements : r.at = m}
             Step(v, m) == IF Of(m) = {} THEN v ELSE Replay(v, CHOOSE r \in Of(m) : TRUE)
  <1>1. MaxTime \in Nat
    BY TimelineAssumption
  <1>2. ASSUME NEW v, IsState(v), v.retirements = s.retirements, NEW m
        PROVE  /\ IsState(Step(v, m)) /\ Same(v, Step(v, m))
               /\ Step(v, m).retirements = s.retirements
    <2>1. CASE Of(m) = {}
      BY <1>2, <2>1 DEF Same
    <2>2. CASE Of(m) # {}
      <3> DEFINE r == CHOOSE r \in Of(m) : TRUE
      <3>1. r.to \in Ids
        BY <2>2 DEF IsState
      <3>2. Step(v, m) = Replay(v, r)
        BY <2>2
      <3> HIDE DEF r, Step
      <3> QED
        BY <1>2, <3>1, <3>2, ReplayKeeps
    <2> QED
      BY <2>1, <2>2
  <1>3. \A v, m : Step(v, m) = Replayings(s, m, v)
    BY DEF Replayings
  <1> HIDE DEF Step
  <1>4. PICK upTo :
           /\ Replayed(s) = upTo[MaxTime]
           /\ \A m \in 0 .. MaxTime : upTo[m] = IF m = 0 THEN s ELSE Step(upTo[m - 1], m)
    BY <1>3, ReplayedIs
  <1>8. \A m \in 0 .. MaxTime : upTo[m] = IF m = 0 THEN s ELSE Step(upTo[m - 1], m)
    BY <1>4
  <1>9. Replayed(s) = upTo[MaxTime]
    BY <1>4
  <1> DEFINE Good(v) == IsState(v) /\ Same(s, v) /\ v.retirements = s.retirements
             U == {n \in Nat : n <= MaxTime => Good(upTo[n])}
  <1>10. 0 \in U
    BY <1>1, <1>8 DEF Same
  <1>11. ASSUME NEW n \in Nat, n \in U PROVE n + 1 \in U
    <2> SUFFICES ASSUME n + 1 <= MaxTime PROVE Good(upTo[n + 1])
      OBVIOUS
    <2>1. upTo[n + 1] = Step(upTo[n], n + 1)
      <3>1. n + 1 \in 0 .. MaxTime /\ n + 1 # 0 /\ (n + 1) - 1 = n
        BY <1>1
      <3> QED
        BY <1>8, <3>1
    <2>2. Good(upTo[n])
      BY <1>1, <1>11
    <2> QED
      BY <1>2, <2>1, <2>2, SameIsTransitive
  <1>12. Nat \subseteq U
    <2> HIDE DEF U
    <2> QED
      BY <1>10, <1>11, Inductive
  <1> QED
    BY <1>1, <1>9, <1>12

\* A merge keeps every interval that is somebody's in what it takes it from: the local
\* state where that has one of the time, the remote one otherwise.
LEMMA MergeKeeps ==
    ASSUME NEW remote, IsState(remote), NEW local, IsState(local)
    PROVE  /\ IsState(Merge(remote, local))
           /\ DOMAIN Merge(remote, local).timeline \subseteq
                 DOMAIN remote.timeline \cup DOMAIN local.timeline
           /\ \A t \in DOMAIN local.timeline : local.timeline[t].subject # None =>
                 /\ t \in DOMAIN Merge(remote, local).timeline
                 /\ Merge(remote, local).timeline[t].subject # None
           /\ \A t \in DOMAIN remote.timeline \ DOMAIN local.timeline :
                 remote.timeline[t].subject # None =>
                    /\ t \in DOMAIN Merge(remote, local).timeline
                    /\ Merge(remote, local).timeline[t].subject # None
  <1> DEFINE line == [t \in DOMAIN remote.timeline \cup DOMAIN local.timeline |->
                         IF t \in DOMAIN local.timeline THEN local.timeline[t]
                         ELSE remote.timeline[t]]
             ds == [i \in Ids |-> IF preferRemapDecision(local.decisions[i], remote.decisions[i])
                                  THEN local.decisions[i] ELSE remote.decisions[i]]
             joined == [timeline |-> line, decisions |-> ds,
                        retirements |-> remote.retirements \cup local.retirements]
             y == [joined EXCEPT !.timeline = Resolved(joined)]
             z == Replayed(y)
             m == [z EXCEPT !.timeline = Compact(@)]
  <1>1. IsState(joined)
    <2>1. line = [t \in DOMAIN line |-> line[t]] /\ ds = [i \in Ids |-> ds[i]]
      OBVIOUS
    <2>2. \A t \in DOMAIN line : line[t] \in Intervals
      BY DEF IsState
    <2>3. \A i \in Ids : ds[i] \in {local.decisions[i], remote.decisions[i]}
      OBVIOUS
    <2>4. joined.timeline = line /\ joined.decisions = ds
          /\ joined.retirements = remote.retirements \cup local.retirements
      OBVIOUS
    <2>5. joined = [timeline |-> line, decisions |-> ds, retirements |-> joined.retirements]
      OBVIOUS
    <2> HIDE DEF line, ds, joined
    <2> QED
      BY <2>1, <2>2, <2>3, <2>4, <2>5 DEF IsState
  <1>2. joined.timeline = line
    OBVIOUS
  <1>3. Merge(remote, local) = m
    BY DEF Merge
  <1> HIDE DEF joined, line
  <1>4. IsState(y) /\ Same(joined, y)
    BY <1>1, ResolvedKeeps
  <1> HIDE DEF y
  <1>5. IsState(z) /\ Same(joined, z)
    BY <1>4, ReplayedKeeps, SameIsTransitive
  <1> HIDE DEF z
  <1>6. m.timeline = Compact(z.timeline) /\ m.decisions = z.decisions
        /\ m.retirements = z.retirements
        /\ m = [timeline |-> m.timeline, decisions |-> m.decisions,
                retirements |-> m.retirements]
    BY <1>5 DEF IsState
  <1>7. /\ DOMAIN m.timeline \subseteq DOMAIN z.timeline
        /\ m.timeline = [t \in DOMAIN m.timeline |-> m.timeline[t]]
        /\ \A t \in DOMAIN m.timeline : m.timeline[t] = z.timeline[t]
        /\ \A t \in DOMAIN z.timeline :
              z.timeline[t].subject # None => t \in DOMAIN m.timeline
    BY <1>6 DEF Compact
  <1> HIDE DEF m
  <1>8. IsState(m)
    BY <1>5, <1>6, <1>7 DEF IsState
  <1>9. /\ DOMAIN line = DOMAIN remote.timeline \cup DOMAIN local.timeline
        /\ \A t \in DOMAIN local.timeline : line[t] = local.timeline[t]
        /\ \A t \in DOMAIN remote.timeline \ DOMAIN local.timeline : line[t] = remote.timeline[t]
    BY DEF line
  <1>10. DOMAIN z.timeline = DOMAIN line
         /\ \A t \in DOMAIN line : line[t].subject # None => z.timeline[t].subject # None
    BY <1>2, <1>5 DEF Same
  <1>11. \A t \in DOMAIN line : line[t].subject # None =>
            t \in DOMAIN m.timeline /\ m.timeline[t].subject # None
    BY <1>7, <1>10
  <1> HIDE DEF ds
  <1>12. DOMAIN m.timeline \subseteq DOMAIN remote.timeline \cup DOMAIN local.timeline
    BY <1>7, <1>9, <1>10
  <1>13. \A t \in DOMAIN local.timeline : local.timeline[t].subject # None =>
            t \in DOMAIN m.timeline /\ m.timeline[t].subject # None
    BY <1>9, <1>11
  <1>14. \A t \in DOMAIN remote.timeline \ DOMAIN local.timeline :
            remote.timeline[t].subject # None =>
               t \in DOMAIN m.timeline /\ m.timeline[t].subject # None
    <2> SUFFICES ASSUME NEW t \in DOMAIN remote.timeline \ DOMAIN local.timeline,
                        remote.timeline[t].subject # None
                 PROVE  t \in DOMAIN m.timeline /\ m.timeline[t].subject # None
      OBVIOUS
    <2>1. t \in DOMAIN line /\ line[t] = remote.timeline[t]
      BY <1>9
    <2> QED
      BY <1>11, <2>1
  <1> QED
    BY <1>3, <1>8, <1>12, <1>13, <1>14

\* The intervals of one subject become another's.
LEMMA SwappedKeeps ==
    ASSUME NEW s, IsState(s), NEW to \in Ids, NEW cond, NEW rs, NEW line, NEW z,
           line = [t \in DOMAIN s.timeline |->
                      IF cond[t] THEN [s.timeline[t] EXCEPT !.subject = to]
                      ELSE s.timeline[t]],
           z = [timeline |-> line, decisions |-> s.decisions, retirements |-> rs],
           \A r \in rs : r.to \in Ids
    PROVE  IsState(z) /\ Same(s, z)
  <1> DEFINE who == [t \in DOMAIN s.timeline |->
                        IF cond[t] THEN to ELSE s.timeline[t].subject]
  <1>1. \A t \in DOMAIN s.timeline :
           s.timeline[t] = [s.timeline[t] EXCEPT !.subject = s.timeline[t].subject]
    BY DEF IsState, Intervals
  <1>2. \A t \in DOMAIN s.timeline :
           /\ who[t] \in Ids \cup {None}
           /\ s.timeline[t].subject # None => who[t] # None
           /\ line[t] = [s.timeline[t] EXCEPT !.subject = who[t]]
    BY <1>1, SubjectType, NoneIsNoId
  <1> HIDE DEF who
  <1>3. line = [t \in DOMAIN s.timeline |-> [s.timeline[t] EXCEPT !.subject = who[t]]]
    BY <1>2
  <1>4. z = [timeline |-> [t \in DOMAIN s.timeline |->
                             [s.timeline[t] EXCEPT !.subject = who[t]]],
             decisions |-> s.decisions, retirements |-> rs]
    BY <1>3
  <1> QED
    BY <1>2, <1>4, MovedKeeps

LEMMA RetiredKeeps ==
    ASSUME NEW s, IsState(s), NEW from, NEW to \in Ids
    PROVE  IsState(Retired(s, from, to)) /\ Same(s, Retired(s, from, to))
  <1> DEFINE cond == [t \in DOMAIN s.timeline |-> Resolve(s, s.timeline[t].subject) = from]
             line == [t \in DOMAIN s.timeline |->
                        IF Resolve(s, s.timeline[t].subject) = from
                        THEN [s.timeline[t] EXCEPT !.subject = to] ELSE s.timeline[t]]
             rs == s.retirements \cup {[from |-> from, to |-> to, at |-> now]}
             z == [s EXCEPT !.timeline = line,
                            !.retirements = @ \cup {[from |-> from, to |-> to, at |-> now]}]
             ids == {i \in Ids : Remaps(s)[i] # None}
  <1>1. Retired(s, from, to) = Released(z, ids, from)
    BY DEF Retired
  <1>2. line = [t \in DOMAIN s.timeline |->
                  IF cond[t] THEN [s.timeline[t] EXCEPT !.subject = to] ELSE s.timeline[t]]
    OBVIOUS
  <1>3. \A r \in rs : r.to \in Ids
    BY DEF IsState
  <1>4. z = [timeline |-> line, decisions |-> s.decisions, retirements |-> rs]
    <2> HIDE DEF line
    <2>1. PICK y : y = [s EXCEPT !.timeline = line]
      OBVIOUS
    <2>2. y = [timeline |-> line, decisions |-> s.decisions, retirements |-> s.retirements]
      BY <2>1 DEF IsState
    <2>3. z = [y EXCEPT !.retirements = rs]
      BY <2>1, <2>2
    <2> HIDE DEF rs, z
    <2> QED
      BY <2>2, <2>3
  <1> HIDE DEF line, cond, rs, z
  <1>5. IsState(z) /\ Same(s, z)
    BY <1>2, <1>3, <1>4, SwappedKeeps
  <1>6. ids \in SUBSET Ids
    OBVIOUS
  <1> HIDE DEF ids
  <1> QED
    BY <1>1, <1>5, <1>6, ReleasedKeeps, SameIsTransitive

LEMMA RemappedKeeps ==
    ASSUME NEW w, NEW s, IsState(s), NEW old \in Ids, NEW new \in Ids
    PROVE  IsState(Remapped(w, s, old, new)) /\ Same(s, Remapped(w, s, old, new))
  <1> DEFINE from == Resolve(s, old)
             y == Remember(w, ReleaseAlias(s, new), new)
             to == Resolve(y, new)
             cond == [t \in DOMAIN y.timeline |-> Resolve(y, y.timeline[t].subject) = from]
             line == [t \in DOMAIN y.timeline |->
                        IF Resolve(y, y.timeline[t].subject) = from
                        THEN [y.timeline[t] EXCEPT !.subject = to] ELSE y.timeline[t]]
             z == [y EXCEPT !.timeline = line]
  <1>1. Remapped(w, s, old, new) \in {y, Decide(z, from, to)}
    BY DEF Remapped
  <1>2. IsState(y) /\ Same(s, y)
    BY ReleaseAliasKeeps, RememberKeeps, SameIsTransitive
  <1>3. to \in Ids
    BY <1>2, ResolveType, NoneIsNoId
  <1> HIDE DEF y
  <1>4. z = [timeline |-> line, decisions |-> y.decisions, retirements |-> y.retirements]
    <2> HIDE DEF line
    <2> QED
      BY <1>2 DEF IsState
  <1>5. line = [t \in DOMAIN y.timeline |->
                  IF cond[t] THEN [y.timeline[t] EXCEPT !.subject = to] ELSE y.timeline[t]]
    OBVIOUS
  <1>6. \A r \in y.retirements : r.to \in Ids
    BY <1>2 DEF IsState
  <1> HIDE DEF line, cond, z, to, from
  <1>7. IsState(z) /\ Same(y, z)
    BY <1>2, <1>3, <1>4, <1>5, <1>6, SwappedKeeps
  <1>8. IsState(Decide(z, from, to)) /\ Same(z, Decide(z, from, to))
    BY <1>3, <1>7, DecideKeeps
  <1> QED
    BY <1>1, <1>2, <1>7, <1>8, SameIsTransitive

\* A recorded selection extends the last interval, or begins one.
LEMMA RecordedKeeps ==
    ASSUME NEW s, IsState(s), NEW i \in Ids \cup {None}, now \in Nat
    PROVE  /\ IsState(Recorded(s, i))
           /\ DOMAIN Recorded(s, i).timeline =
                 IF Extends(s, i) THEN DOMAIN s.timeline ELSE DOMAIN s.timeline \cup {now}
           /\ \A t \in DOMAIN s.timeline \ {now} :
                 s.timeline[t].subject # None => Recorded(s, i).timeline[t].subject # None
           /\ ~Extends(s, i) => Recorded(s, i).timeline[now].subject = i
           /\ Extends(s, i) => Same(s, Recorded(s, i))
  <1> DEFINE until == IF i = None THEN None ELSE now + Gap
             last == Max(DOMAIN s.timeline)
             longer == [s.timeline EXCEPT ![last].until = until]
             more == Put(s.timeline, now, [subject |-> i, until |-> until])
             With(line) == [s EXCEPT !.timeline = line]
  <1>1. until \in Int \cup {None}
    BY TimelineAssumption
  <1> HIDE DEF until, last
  <1>2. Recorded(s, i) = IF Extends(s, i) THEN With(longer) ELSE With(more)
    BY DEF Recorded, until, last
  <1>3. ASSUME NEW line, line = [t \in DOMAIN line |-> line[t]],
               \A t \in DOMAIN line : line[t] \in Intervals
        PROVE  IsState(With(line)) /\ With(line).timeline = line
    <2>1. PICK z : z = With(line)
      OBVIOUS
    <2>2. z = [timeline |-> line, decisions |-> s.decisions, retirements |-> s.retirements]
      BY <2>1 DEF IsState
    <2> HIDE DEF With
    <2>3. IsState(z) /\ z.timeline = line
      BY <1>3, <2>2 DEF IsState
    <2> QED
      BY <2>1, <2>3
  <1>4. DOMAIN longer = DOMAIN s.timeline /\ longer = [t \in DOMAIN longer |-> longer[t]]
    OBVIOUS
  <1>5. \A t \in DOMAIN s.timeline :
           longer[t] \in Intervals /\ longer[t].subject = s.timeline[t].subject
    BY <1>1 DEF IsState, Intervals
  <1>6. DOMAIN more = DOMAIN s.timeline \cup {now} /\ more = [t \in DOMAIN more |-> more[t]]
    BY DEF Put
  <1>7. /\ more[now] = [subject |-> i, until |-> until]
        /\ \A t \in DOMAIN s.timeline \ {now} : more[t] = s.timeline[t]
    BY DEF Put
  <1>8. \A t \in DOMAIN more : more[t] \in Intervals
    BY <1>1, <1>6, <1>7 DEF IsState, Intervals
  <1>9. more[now].subject = i
    BY <1>7
  <1> HIDE DEF more, longer, With
  <1>10. CASE Extends(s, i)
    BY <1>2, <1>3, <1>4, <1>5, <1>10 DEF Same
  <1>11. CASE ~Extends(s, i)
    BY <1>2, <1>3, <1>6, <1>7, <1>8, <1>9, <1>11
  <1> QED
    BY <1>10, <1>11

-----------------------------------------------------------------------------
(* What the windows hold *)

\* A state whose intervals are of the past, and where what was recorded for an entry is
\* somebody's.
Sound(s, time, owned) ==
    /\ IsState(s)
    /\ \A t \in DOMAIN s.timeline :
          /\ t \in Nat \ {0} /\ t < time
          /\ t \in owned => s.timeline[t].subject # None

Covers(z, s, owned) == \A t \in owned : t \in DOMAIN s.timeline => t \in DOMAIN z.timeline

IsJob(j) == j = [pc |-> j.pc, local |-> j.local, merged |-> j.merged]

\* A persist that waits has the state it captured; one that holds the lock has merged it
\* with a store that stays, or has written it.
JobInv(w, i) ==
    LET j == job[w][i]
    IN  /\ IsJob(j) /\ j.pc \in {"idle", "wait", "write", "adopt"}
        /\ j.pc = "idle" => j = NoJob
        /\ j.pc = "wait" /\ j.local # <<>> => Sound(Head(j.local), now, DOMAIN owner)
        /\ j.pc \in {"write", "adopt"} =>
              Sound(j.merged, now, DOMAIN owner) /\ lock = <<w, i>>
        /\ j.pc = "write" => Covers(j.merged, store, DOMAIN owner)
        /\ j.pc = "adopt" => Covers(store, j.merged, DOMAIN owner)

Holds(w, i, t) ==
    /\ job[w][i].pc # "idle"
    /\ t \in DOMAIN (IF job[w][i].pc = "wait" THEN Local(w, i)
                     ELSE job[w][i].merged).timeline

\* Every recorded selection is in the store or with a persist under way.
Kept == \A t \in DOMAIN owner :
           t \in DOMAIN store.timeline \/ \E w \in Windows, i \in Persists : Holds(w, i, t)

ClockInv == /\ now \in Times /\ \A t \in DOMAIN owner : t \in Nat /\ t < now
            /\ \A p \in People : id[p] \in Ids \cup {None}
            /\ lock \in Jobs \cup {None}

Shapes == /\ mem = [w \in Windows |-> mem[w]]
          /\ job = [w \in Windows |-> [i \in Persists |-> job[w][i]]]

UsageInv ==
    /\ ClockInv /\ Shapes
    /\ Sound(store, now, DOMAIN owner)
    /\ \A w \in Windows : Sound(mem[w], now, DOMAIN owner)
    /\ \A w \in Windows, i \in Persists : JobInv(w, i)
    /\ Kept

LEMMA SameSound ==
    ASSUME NEW s, NEW z, NEW time, NEW owned, Sound(s, time, owned), IsState(z), Same(s, z)
    PROVE  Sound(z, time, owned) /\ Covers(z, s, owned) /\ Covers(s, z, owned)
  BY DEF Sound, Same, Covers

LEMMA LaterSound ==
    ASSUME NEW s, NEW time \in Nat, NEW later \in Nat, time <= later, NEW owned,
           NEW more \in SUBSET (owned \cup {time}), Sound(s, time, owned)
    PROVE  Sound(s, later, more)
  BY DEF Sound

LEMMA LaterCovers ==
    ASSUME NEW s, NEW z, NEW time, NEW owned, NEW more \in SUBSET (owned \cup {time}),
           Sound(s, time, owned), Covers(z, s, owned), time \in Nat
    PROVE  Covers(z, s, more)
  BY DEF Sound, Covers

LEMMA MergeSound ==
    ASSUME NEW remote, NEW local, NEW time, NEW owned,
           Sound(remote, time, owned), Sound(local, time, owned)
    PROVE  /\ Sound(Merge(remote, local), time, owned)
           /\ Covers(Merge(remote, local), remote, owned)
           /\ Covers(Merge(remote, local), local, owned)
  <1> DEFINE z == Merge(remote, local)
  <1>1. IsState(remote) /\ IsState(local)
    BY DEF Sound
  <1>2. /\ IsState(z)
        /\ DOMAIN z.timeline \subseteq DOMAIN remote.timeline \cup DOMAIN local.timeline
        /\ \A t \in DOMAIN local.timeline : local.timeline[t].subject # None =>
              t \in DOMAIN z.timeline /\ z.timeline[t].subject # None
        /\ \A t \in DOMAIN remote.timeline \ DOMAIN local.timeline :
              remote.timeline[t].subject # None =>
                 t \in DOMAIN z.timeline /\ z.timeline[t].subject # None
    BY <1>1, MergeKeeps
  <1> HIDE DEF z
  <1>3. \A t \in owned : t \in DOMAIN remote.timeline \cup DOMAIN local.timeline =>
           t \in DOMAIN z.timeline /\ z.timeline[t].subject # None
    BY <1>2 DEF Sound
  <1>4. \A t \in DOMAIN z.timeline : t \in Nat \ {0} /\ t < time
    BY <1>2 DEF Sound
  <1>5. Sound(z, time, owned)
    BY <1>2, <1>3, <1>4 DEF Sound
  <1>6. Covers(z, remote, owned) /\ Covers(z, local, owned)
    BY <1>3 DEF Covers
  <1> QED
    BY <1>5, <1>6 DEF z

LEMMA LocalSound ==
    ASSUME UsageInv, NEW w \in Windows, NEW i \in Persists, job[w][i].pc = "wait"
    PROVE  Sound(Local(w, i), now, DOMAIN owner)
  BY DEF UsageInv, JobInv, Local

LEMMA UsageInit == ASSUME Init PROVE UsageInv
  <1> DEFINE none == [i \in Ids |-> None]
  <1>1. Empty.timeline = NoIntervals /\ Empty.decisions = none /\ Empty.retirements = {}
        /\ Empty = [timeline |-> NoIntervals, decisions |-> none, retirements |-> {}]
    BY DEF Empty
  <1>2. DOMAIN NoIntervals = {} /\ NoIntervals = [t \in DOMAIN NoIntervals |-> NoIntervals[t]]
    BY DEF NoIntervals
  <1>3. none = [i \in Ids |-> none[i]] /\ \A i \in Ids : none[i] = None
    OBVIOUS
  <1> HIDE DEF none
  <1>4. IsState(Empty)
    BY <1>1, <1>2, <1>3 DEF IsState
  <1>5. Sound(Empty, now, DOMAIN owner)
    BY <1>1, <1>2, <1>4 DEF Sound
  <1>6. ClockInv
    BY <1>2, TimelineAssumption DEF Init, ClockInv, Times, Ids
  <1>7. \A w \in Windows, i \in Persists : job[w][i] = NoJob /\ mem[w] = Empty
    BY DEF Init
  <1>8. \A w \in Windows, i \in Persists : JobInv(w, i)
    BY <1>7 DEF JobInv, IsJob, NoJob
  <1>9. Shapes
    BY DEF Init, Shapes
  <1>10. Kept
    BY <1>2 DEF Init, Kept
  <1> QED
    BY <1>5, <1>6, <1>7, <1>8, <1>9, <1>10 DEF Init, UsageInv

LEMMA UsageSafe == ASSUME UsageInv PROVE NothingLost
  <1> SUFFICES ASSUME NEW t \in DOMAIN owner, t \notin DOMAIN store.timeline
               PROVE  \E q \in Waiting :
                         LET j == job[q[1]][q[2]]
                         IN  t \in DOMAIN (IF j.pc = "wait" THEN Local(q[1], q[2])
                                           ELSE j.merged).timeline
    BY DEF NothingLost
  <1>1. PICK w \in Windows, i \in Persists : Holds(w, i, t)
    BY DEF UsageInv, Kept
  <1>2. <<w, i>> \in Waiting
    BY <1>1 DEF Waiting, Jobs, Holds
  <1> QED
    BY <1>1, <1>2 DEF Holds

LEMMA JobFields ==
    ASSUME NEW j, NEW a, NEW b, NEW c, j = [pc |-> a, local |-> b, merged |-> c]
    PROVE  j.pc = a /\ j.local = b /\ j.merged = c /\ IsJob(j)
  BY DEF IsJob

\* What a persist that begins changes.
LEMMA PersistIs ==
    ASSUME UsageInv, NEW w \in Windows, NEW s, Persist(w, s)
    PROVE  /\ lock' = lock /\ store' = store /\ Shapes'
           /\ mem'[w] = s /\ \A v \in Windows : v # w => mem'[v] = mem[v]
           /\ \E k \in Persists :
                 /\ job[w][k] = NoJob
                 /\ job'[w][k] = [pc |-> "wait", local |-> <<>>, merged |-> None]
                 /\ \A v \in Windows, i \in Persists : v # w \/ i # k => job'[v][i] = job[v][i]
  <1> PICK k : k = Min({i \in Persists : job[w][i].pc = "idle"})
    OBVIOUS
  <1>1. k \in Persists /\ job[w][k].pc = "idle"
    <2> DEFINE free == {i \in Persists : job[w][i].pc = "idle"}
    <2>1. free # {} /\ free \in SUBSET Nat
      BY TimelineAssumption DEF Persist
    <2>2. \E m \in free : \A j \in free : m <= j
      BY <2>1, Least
    <2>3. k \in free
      BY <2>2 DEF Min
    <2> QED
      BY <2>3
  <1>2. /\ job' = [job EXCEPT ![w][k].pc = "wait"]
        /\ mem' = [mem EXCEPT ![w] = s] /\ lock' = lock /\ store' = store
    BY DEF Persist
  <1>3. job[w][k] = NoJob
    BY <1>1 DEF UsageInv, JobInv
  <1>4. Shapes /\ Shapes'
    BY <1>2 DEF UsageInv, Shapes
  <1>5. /\ job'[w][k] = [pc |-> "wait", local |-> <<>>, merged |-> None]
        /\ \A v \in Windows, i \in Persists : v # w \/ i # k => job'[v][i] = job[v][i]
    BY <1>1, <1>2, <1>3, <1>4 DEF Shapes, NoJob
  <1>6. mem'[w] = s /\ \A v \in Windows : v # w => mem'[v] = mem[v]
    BY <1>2, <1>4 DEF Shapes
  <1> QED
    BY <1>1, <1>2, <1>3, <1>4, <1>5, <1>6

\* A persist begins with what an operation made of the window's state.
LEMMA PersistStep ==
    ASSUME UsageInv, NEW w \in Windows, NEW s, Persist(w, s), Later,
           \A p \in People : id'[p] \in Ids \cup {None},
           DOMAIN owner' \subseteq DOMAIN owner \cup {now}, DOMAIN owner \subseteq DOMAIN owner',
           Sound(s, now', DOMAIN owner'), Covers(s, mem[w], DOMAIN owner),
           \A t \in DOMAIN owner' \ DOMAIN owner : t \in DOMAIN s.timeline
    PROVE  UsageInv'
  <1>2. lock' = lock /\ store' = store /\ Shapes'
    BY PersistIs
  <1>6. mem'[w] = s /\ \A v \in Windows : v # w => mem'[v] = mem[v]
    BY PersistIs
  <1>5. PICK k \in Persists :
           /\ job[w][k] = NoJob
           /\ job'[w][k] = [pc |-> "wait", local |-> <<>>, merged |-> None]
           /\ \A v \in Windows, i \in Persists : v # w \/ i # k => job'[v][i] = job[v][i]
    BY PersistIs
  <1>1. k \in Persists /\ job[w][k].pc = "idle"
    BY <1>5 DEF NoJob
  <1>7. now \in Nat /\ now' \in Nat /\ now' = now + 2 /\ now' \in Times
    BY TimelineAssumption DEF Later, UsageInv, ClockInv, Times
  <1> DEFINE O == DOMAIN owner
             Q == DOMAIN owner'
  <1>8. Q \in SUBSET (O \cup {now}) /\ O \subseteq Q
    OBVIOUS
  <1>9. \A z : Sound(z, now, O) => Sound(z, now', Q)
    <2> HIDE DEF O, Q
    <2> QED
      BY <1>7, <1>8, LaterSound
  <1>10. \A y, z : Sound(z, now, O) /\ Covers(y, z, O) => Covers(y, z, Q)
    <2> HIDE DEF O, Q
    <2> QED
      BY <1>7, <1>8, LaterCovers
  <1>11. ClockInv'
    <2>1. \A t \in Q : t \in Nat /\ t < now'
      BY <1>7, <1>8 DEF UsageInv, ClockInv
    <2> QED
      BY <1>2, <1>7, <2>1 DEF UsageInv, ClockInv
  <1>12. Sound(store, now', Q) /\ \A v \in Windows : Sound(mem'[v], now', Q)
    BY <1>6, <1>9 DEF UsageInv
  <1>13. ASSUME NEW v \in Windows, NEW i \in Persists PROVE JobInv(v, i)'
    <2>1. CASE v = w /\ i = k
      <3>1. job'[v][i].pc = "wait" /\ job'[v][i].local = <<>> /\ IsJob(job'[v][i])
        BY <1>5, <2>1, JobFields
      <3> QED
        BY <3>1 DEF JobInv
    <2>2. CASE ~(v = w /\ i = k)
      <3>1. job'[v][i] = job[v][i] /\ JobInv(v, i)
        BY <1>5, <2>2 DEF UsageInv
      <3>2. job[v][i].pc = "write" => Covers(job[v][i].merged, store, Q)
        BY <1>10, <3>1 DEF UsageInv, JobInv
      <3>3. job[v][i].pc = "adopt" => Covers(store, job[v][i].merged, Q)
        BY <1>10, <3>1 DEF UsageInv, JobInv
      <3>4. job[v][i].pc = "wait" /\ job[v][i].local # <<>> =>
               Sound(Head(job[v][i].local), now', Q)
        BY <1>9, <3>1 DEF JobInv
      <3>5. job[v][i].pc \in {"write", "adopt"} => Sound(job[v][i].merged, now', Q)
        BY <1>9, <3>1 DEF JobInv
      <3> QED
        BY <1>2, <3>1, <3>2, <3>3, <3>4, <3>5 DEF JobInv
    <2> QED
      BY <2>1, <2>2
  <1>14. Kept'
    <2> SUFFICES ASSUME NEW t \in Q, t \notin DOMAIN store.timeline
                 PROVE  \E v \in Windows, i \in Persists : Holds(v, i, t)'
      BY <1>2 DEF Kept
    <2>1. CASE t \in O
      <3>1. PICK v \in Windows, i \in Persists : Holds(v, i, t)
        BY <2>1 DEF UsageInv, Kept
      <3>2. v # w \/ i # k
        BY <1>1, <3>1 DEF Holds
      <3>3. job'[v][i] = job[v][i]
        BY <1>5, <3>2
      <3>4. mem'[v] = mem[v] \/ (v = w /\ mem'[v] = s)
        BY <1>6
      <3>5. t \in DOMAIN mem[w].timeline => t \in DOMAIN s.timeline
        BY <2>1 DEF Covers
      <3>6. Holds(v, i, t)'
        BY <3>1, <3>3, <3>4, <3>5 DEF Holds, Local
      <3> QED
        BY <3>6
    <2>2. CASE t \notin O
      <3>1. t \in DOMAIN s.timeline
        BY <2>2
      <3>2. Holds(w, k, t)'
        BY <1>5, <1>6, <3>1 DEF Holds, Local
      <3> QED
        BY <1>1, <3>2
    <2> QED
      BY <2>1, <2>2
  <1> QED
    BY <1>2, <1>11, <1>12, <1>13, <1>14 DEF UsageInv

LEMMA NamedId == ASSUME NEW p \in Named PROVE id[p] \in Ids
  BY DEF Named, Ids

LEMMA RecordStep ==
    ASSUME UsageInv, NEW w \in Windows, Record(w) PROVE UsageInv'
  <1>1. PICK i \in Readable(w) \cup {None} :
         LET s == IF i = None THEN mem[w] ELSE Remember(w, mem[w], i)
             subject == Resolve(s, i)
         IN  /\ Persist(w, Recorded(s, subject))
             /\ owner' = IF i = None \/ Extends(s, subject) THEN owner
                         ELSE Put(owner, now, RecordedFor(i))
             /\ Later
             /\ UNCHANGED <<id, had>>
    BY DEF Record
  <1>2. i \in Ids \cup {None}
    BY DEF Readable, Ids
  <1>3. PICK s : s = IF i = None THEN mem[w] ELSE Remember(w, mem[w], i)
    OBVIOUS
  <1>4. PICK j : j = Resolve(s, i)
    OBVIOUS
  <1>5. /\ Persist(w, Recorded(s, j)) /\ Later /\ id' = id
        /\ owner' = IF i = None \/ Extends(s, j) THEN owner
                    ELSE Put(owner, now, RecordedFor(i))
    BY <1>1, <1>3, <1>4
  <1>6. Sound(mem[w], now, DOMAIN owner) /\ IsState(mem[w])
    BY DEF UsageInv, Sound
  <1>7. IsState(s) /\ Same(mem[w], s)
    <2>1. CASE i = None
      BY <1>6, <1>3, <2>1 DEF Same
    <2>2. CASE i # None
      BY <1>2, <1>6, <1>3, <2>2, RememberKeeps
    <2> QED
      BY <2>1, <2>2
  <1>8. Sound(s, now, DOMAIN owner) /\ Covers(s, mem[w], DOMAIN owner)
    BY <1>6, <1>7, SameSound
  <1>10. j \in Ids \cup {None} /\ (i # None => j # None)
    BY <1>2, <1>7, <1>4, ResolveType
  <1>11. now \in Nat \ {0} /\ now' = now + 2 /\ \A t \in DOMAIN owner : t # now
    BY <1>5 DEF UsageInv, ClockInv, Times, Later
  <1>12. PICK z : z = Recorded(s, j)
    OBVIOUS
  <1>13. /\ IsState(z)
         /\ DOMAIN z.timeline = IF Extends(s, j) THEN DOMAIN s.timeline
                                ELSE DOMAIN s.timeline \cup {now}
         /\ \A t \in DOMAIN s.timeline \ {now} :
               s.timeline[t].subject # None => z.timeline[t].subject # None
         /\ ~Extends(s, j) => z.timeline[now].subject = j
    <2>1. j \in Ids \cup {None} /\ IsState(s) /\ now \in Nat
      BY <1>7, <1>10, <1>11
    <2>2. /\ IsState(Recorded(s, j))
          /\ DOMAIN Recorded(s, j).timeline =
                IF Extends(s, j) THEN DOMAIN s.timeline ELSE DOMAIN s.timeline \cup {now}
          /\ \A t \in DOMAIN s.timeline \ {now} :
                s.timeline[t].subject # None => Recorded(s, j).timeline[t].subject # None
          /\ ~Extends(s, j) => Recorded(s, j).timeline[now].subject = j
      BY <2>1, RecordedKeeps, Zenon
    <2> QED
      BY <1>12, <2>2
  <1>14. DOMAIN owner' = IF i = None \/ Extends(s, j) THEN DOMAIN owner
                        ELSE DOMAIN owner \cup {now}
    BY <1>5 DEF Put
  <1>15. Sound(z, now', DOMAIN owner')
    <2> SUFFICES ASSUME NEW t \in DOMAIN z.timeline
                 PROVE  /\ t \in Nat \ {0} /\ t < now'
                        /\ t \in DOMAIN owner' => z.timeline[t].subject # None
      BY <1>13 DEF Sound
    <2>1. CASE t \in DOMAIN s.timeline
      <3>1. t \in Nat \ {0} /\ t < now /\ t # now
            /\ (t \in DOMAIN owner => s.timeline[t].subject # None)
        BY <1>8, <1>11, <2>1 DEF Sound
      <3>2. t \in DOMAIN owner' => t \in DOMAIN owner
        BY <1>14, <3>1
      <3> QED
        BY <1>11, <1>13, <2>1, <3>1, <3>2
    <2>2. CASE t \notin DOMAIN s.timeline
      <3>1. t = now /\ ~Extends(s, j)
        BY <1>13, <2>2
      <3>2. z.timeline[t].subject = j
        BY <1>13, <3>1
      <3>3. t \in DOMAIN owner' => i # None
        BY <1>11, <1>14, <3>1
      <3> QED
        BY <1>10, <1>11, <3>1, <3>2, <3>3
    <2> QED
      BY <2>1, <2>2
  <1>16. Covers(z, mem[w], DOMAIN owner)
    BY <1>8, <1>13 DEF Covers
  <1>17. \A t \in DOMAIN owner' \ DOMAIN owner : t \in DOMAIN z.timeline
    BY <1>13, <1>14
  <1>18. \A q \in People : id'[q] \in Ids \cup {None}
    BY <1>5 DEF UsageInv, ClockInv
  <1>19. Persist(w, z)
    BY <1>5, <1>12
  <1> QED
    BY <1>5, <1>14, <1>15, <1>16, <1>17, <1>18, <1>19, PersistStep

\* Renames and removals record nothing.
LEMMA ChangeStep ==
    ASSUME UsageInv, NEW w \in Windows, NEW s, IsState(s), Same(mem[w], s), Persist(w, s),
           Later, owner' = owner, \A p \in People : id'[p] \in Ids \cup {None}
    PROVE  UsageInv'
  <1>1. Sound(s, now, DOMAIN owner) /\ Covers(s, mem[w], DOMAIN owner)
    BY SameSound DEF UsageInv
  <1>2. now \in Nat /\ now' = now + 2
    BY DEF UsageInv, ClockInv, Times, Later
  <1>3. Sound(s, now', DOMAIN owner)
    BY <1>1, <1>2, LaterSound
  <1> QED
    BY <1>1, <1>3, PersistStep

LEMMA RenameStep ==
    ASSUME UsageInv, NEW w \in Windows, NEW p \in People, Rename(w, p) PROVE UsageInv'
  <1> PICK n \in Names : /\ Persist(w, Remapped(w, mem[w], id[p], n))
                         /\ id' = [id EXCEPT ![p] = n]
    BY DEF Rename
  <1>1. IsState(mem[w])
    BY DEF UsageInv, Sound
  <1>2. n \in Ids /\ id[p] \in Ids
    BY NamedId DEF Rename, Ids
  <1> PICK s : s = Remapped(w, mem[w], id[p], n)
    OBVIOUS
  <1>3. IsState(s) /\ Same(mem[w], s)
    BY <1>1, <1>2, RemappedKeeps
  <1>4. \A q \in People : id'[q] \in Ids \cup {None}
    BY <1>2 DEF UsageInv, ClockInv
  <1>5. Later /\ owner' = owner /\ Persist(w, s)
    BY DEF Rename
  <1> QED
    BY <1>3, <1>4, <1>5, ChangeStep

LEMMA RetireStep ==
    ASSUME UsageInv, NEW w \in Windows, NEW p \in People, Retire(w, p) PROVE UsageInv'
  <1> PICK from : from = Resolve(mem[w], id[p])
    OBVIOUS
  <1> PICK to : to = CHOOSE i \in {i \in RetiredIds : \A q \in People : id[q] # i} : TRUE
    OBVIOUS
  <1>1. /\ to \in RetiredIds /\ Persist(w, Retired(mem[w], from, to))
        /\ id' = [id EXCEPT ![p] = to] /\ Later /\ owner' = owner
    BY DEF Retire
  <1>2. IsState(mem[w]) /\ to \in Ids
    BY <1>1 DEF UsageInv, Sound, Ids
  <1>3. IsState(Retired(mem[w], from, to)) /\ Same(mem[w], Retired(mem[w], from, to))
    BY <1>2, RetiredKeeps
  <1>4. \A q \in People : id'[q] \in Ids \cup {None}
    BY <1>1, <1>2 DEF UsageInv, ClockInv
  <1> QED
    BY <1>1, <1>3, <1>4, ChangeStep

\* A window that starts anew had nothing under way.
LEMMA RestartStep ==
    ASSUME UsageInv, NEW w \in Windows, Restart(w) PROVE UsageInv'
  <1> PICK loaded : loaded = [store EXCEPT !.timeline =
           IF \E i \in Taken : Remaps(store)[i] # None THEN Resolved(store) ELSE @]
    OBVIOUS
  <1>1. mem' = [mem EXCEPT ![w] = Released(loaded, Taken, None)]
        /\ Later /\ UNCHANGED <<job, lock, store, id, owner>>
        /\ \A i \in Persists : job[w][i].pc = "idle"
    BY DEF Restart
  <1>2. Sound(store, now, DOMAIN owner) /\ IsState(store)
    BY DEF UsageInv, Sound
  <1>3. IsState(loaded) /\ Same(store, loaded)
    <2>1. CASE \E i \in Taken : Remaps(store)[i] # None
      <3>1. loaded = [store EXCEPT !.timeline = Resolved(store)]
        BY <2>1
      <3> QED
        BY <1>2, <3>1, ResolvedKeeps
    <2>2. CASE ~\E i \in Taken : Remaps(store)[i] # None
      <3>1. loaded = store
        BY <1>2, <2>2 DEF IsState
      <3> QED
        BY <1>2, <3>1 DEF Same
    <2> QED
      BY <2>1, <2>2
  <1>4. Taken \in SUBSET Ids
    BY NamedId DEF Taken
  <1> PICK s : s = Released(loaded, Taken, None)
    OBVIOUS
  <1>5. Sound(s, now, DOMAIN owner)
    BY <1>2, <1>3, <1>4, ReleasedKeeps, SameIsTransitive, SameSound
  <1>6. now \in Nat /\ now' \in Nat /\ now' = now + 2 /\ now' \in Times /\ now < now'
    BY <1>1, TimelineAssumption DEF Later, UsageInv, ClockInv, Times
  <1>7. mem'[w] = s /\ (\A v \in Windows : v # w => mem'[v] = mem[v]) /\ Shapes'
    BY <1>1 DEF UsageInv, Shapes
  <1>8. \A z : Sound(z, now, DOMAIN owner) => Sound(z, now', DOMAIN owner)
    <2> DEFINE O == DOMAIN owner
    <2>1. O \in SUBSET (O \cup {now})
      OBVIOUS
    <2> HIDE DEF O
    <2>2. \A z : Sound(z, now, O) => Sound(z, now', O)
      BY <1>6, <2>1, LaterSound
    <2> QED
      BY <2>2 DEF O
  <1>9. ClockInv'
    BY <1>1, <1>6 DEF UsageInv, ClockInv
  <1>10. ASSUME NEW v \in Windows, NEW i \in Persists PROVE JobInv(v, i)'
    BY <1>1, <1>8 DEF UsageInv, JobInv
  <1>11. \A v \in Windows : Sound(mem'[v], now', DOMAIN owner)
    BY <1>5, <1>7, <1>8 DEF UsageInv
  <1>12. Kept'
    <2>1. ASSUME NEW v \in Windows, NEW i \in Persists, NEW t, Holds(v, i, t)
          PROVE  Holds(v, i, t)'
      BY <1>1, <1>7, <2>1 DEF Holds, Local
    <2> QED
      BY <1>1, <2>1 DEF UsageInv, Kept
  <1>13. Sound(store, now, DOMAIN owner)'
    BY <1>1, <1>2, <1>8
  <1> QED
    BY <1>1, <1>7, <1>9, <1>10, <1>11, <1>12, <1>13 DEF UsageInv

\* What the steps of a persist change.
LEMMA AcquireIs ==
    ASSUME UsageInv, NEW w \in Windows, NEW i \in Persists, Acquire(w, i)
    PROVE  /\ job[w][i].pc = "wait" /\ lock = None /\ lock' = <<w, i>>
           /\ UNCHANGED <<mem, store, entries>> /\ Shapes'
           /\ job'[w][i].pc = "write" /\ IsJob(job'[w][i])
           /\ job'[w][i].merged = Merge(store, Local(w, i))
           /\ \A v \in Windows, k \in Persists : v # w \/ k # i => job'[v][k] = job[v][k]
  <1>1. PICK m : m = Merge(store, Local(w, i))
    OBVIOUS
  <1>2. /\ job[w][i].pc = "wait" /\ lock = None /\ lock' = <<w, i>>
        /\ job' = [job EXCEPT ![w][i].pc = "write", ![w][i].merged = m]
        /\ UNCHANGED <<mem, store, entries>>
    BY <1>1 DEF Acquire
  <1>4. Shapes /\ Shapes' /\ IsJob(job[w][i])
    BY <1>2 DEF UsageInv, Shapes, JobInv
  <1>5. /\ job'[w][i] = [pc |-> "write", local |-> job[w][i].local, merged |-> m]
        /\ \A v \in Windows, k \in Persists : v # w \/ k # i => job'[v][k] = job[v][k]
    <2>1. PICK j1 : j1 = [job EXCEPT ![w][i].pc = "write"]
      OBVIOUS
    <2>2. PICK r1 : r1 = [pc |-> "write", local |-> job[w][i].local,
                          merged |-> job[w][i].merged]
      OBVIOUS
    <2>3. j1[w][i] = r1
      BY <1>4, <2>1, <2>2 DEF Shapes, IsJob
    <2>4. /\ \A v \in Windows, k \in Persists : v # w \/ k # i => j1[v][k] = job[v][k]
          /\ DOMAIN j1 = Windows /\ \A v \in Windows : DOMAIN j1[v] = Persists
      BY <1>4, <2>1 DEF Shapes
    <2>5. job' = [j1 EXCEPT ![w][i].merged = m]
      BY <1>2, <2>1
    <2>6. job'[w][i] = [r1 EXCEPT !.merged = m]
      BY <2>3, <2>4, <2>5
    <2>7. [r1 EXCEPT !.merged = m] = [pc |-> "write", local |-> job[w][i].local, merged |-> m]
      BY <2>2
    <2> QED
      BY <2>4, <2>5, <2>6, <2>7
  <1>6. job'[w][i].pc = "write" /\ job'[w][i].merged = m /\ IsJob(job'[w][i])
    BY <1>5, JobFields
  <1> QED
    BY <1>1, <1>2, <1>4, <1>5, <1>6

LEMMA AcquireStep ==
    ASSUME UsageInv, NEW w \in Windows, NEW i \in Persists, Acquire(w, i) PROVE UsageInv'
  <1> DEFINE O == DOMAIN owner
  <1>2. /\ job[w][i].pc = "wait" /\ lock = None /\ lock' = <<w, i>>
        /\ UNCHANGED <<mem, store, now, id, owner>> /\ Shapes'
    BY AcquireIs DEF entries
  <1>1. PICK m : m = Merge(store, Local(w, i))
    OBVIOUS
  <1>6. job'[w][i].pc = "write" /\ job'[w][i].merged = m /\ IsJob(job'[w][i])
    BY <1>1, AcquireIs
  <1>5. \A v \in Windows, k \in Persists : v # w \/ k # i => job'[v][k] = job[v][k]
    BY AcquireIs
  <1>3. Sound(m, now, O) /\ Covers(m, store, O) /\ Covers(m, Local(w, i), O)
    BY <1>1, <1>2, LocalSound, MergeSound DEF UsageInv
  <1>7. ASSUME NEW v \in Windows, NEW k \in Persists PROVE JobInv(v, k)'
    <2>1. CASE v = w /\ k = i
      BY <1>2, <1>3, <1>6, <2>1 DEF JobInv
    <2>2. CASE ~(v = w /\ k = i)
      <3>1. job'[v][k] = job[v][k] /\ JobInv(v, k)
        BY <1>5, <2>2 DEF UsageInv
      <3>2. job[v][k].pc \notin {"write", "adopt"}
        BY <1>2, <3>1, TimelineAssumption DEF JobInv, UsageInv
      <3> QED
        BY <1>2, <3>1, <3>2 DEF JobInv
    <2> QED
      BY <2>1, <2>2
  <1>8. Kept'
    <2> SUFFICES ASSUME NEW t \in O, t \notin DOMAIN store.timeline
                 PROVE  \E v \in Windows, k \in Persists : Holds(v, k, t)'
      BY <1>2 DEF Kept
    <2>1. PICK v \in Windows, k \in Persists : Holds(v, k, t)
      BY DEF UsageInv, Kept
    <2>2. CASE v = w /\ k = i
      <3>1. t \in DOMAIN m.timeline
        BY <1>2, <1>3, <2>1, <2>2 DEF Holds, Covers
      <3>2. Holds(w, i, t)'
        BY <1>6, <3>1 DEF Holds
      <3> QED
        BY <3>2
    <2>3. CASE ~(v = w /\ k = i)
      <3>1. Holds(v, k, t)'
        BY <1>2, <1>5, <2>1, <2>3 DEF Holds, Local
      <3> QED
        BY <3>1
    <2> QED
      BY <2>2, <2>3
  <1>9. ClockInv'
    BY <1>2 DEF UsageInv, ClockInv, Jobs
  <1> QED
    BY <1>2, <1>7, <1>8, <1>9 DEF UsageInv

LEMMA WriteIs ==
    ASSUME UsageInv, NEW w \in Windows, NEW i \in Persists, Write(w, i)
    PROVE  /\ job[w][i].pc = "write" /\ store' = job[w][i].merged /\ lock = <<w, i>>
           /\ UNCHANGED <<mem, lock, entries>> /\ Shapes'
           /\ job'[w][i].pc = "adopt" /\ IsJob(job'[w][i]) /\ job'[w][i].merged = store'
           /\ \A v \in Windows, k \in Persists : v # w \/ k # i => job'[v][k] = job[v][k]
  <1>1. /\ job[w][i].pc = "write" /\ store' = job[w][i].merged
        /\ job' = [job EXCEPT ![w][i].pc = "adopt"]
        /\ UNCHANGED <<mem, lock, entries>>
    BY DEF Write
  <1>2. lock = <<w, i>> /\ IsJob(job[w][i])
    BY <1>1 DEF UsageInv, JobInv
  <1>3. Shapes /\ Shapes'
    BY <1>1 DEF UsageInv, Shapes
  <1>4. /\ job'[w][i] = [pc |-> "adopt", local |-> job[w][i].local,
                         merged |-> job[w][i].merged]
        /\ \A v \in Windows, k \in Persists : v # w \/ k # i => job'[v][k] = job[v][k]
    BY <1>1, <1>2, <1>3 DEF Shapes, IsJob
  <1>5. job'[w][i].pc = "adopt" /\ job'[w][i].merged = store' /\ IsJob(job'[w][i])
    BY <1>1, <1>4, JobFields
  <1> QED
    BY <1>1, <1>2, <1>3, <1>4, <1>5

LEMMA WriteStep ==
    ASSUME UsageInv, NEW w \in Windows, NEW i \in Persists, Write(w, i) PROVE UsageInv'
  <1> DEFINE O == DOMAIN owner
  <1>1. /\ job[w][i].pc = "write" /\ store' = job[w][i].merged /\ lock = <<w, i>>
        /\ UNCHANGED <<mem, lock, now, id, owner>> /\ Shapes'
    BY WriteIs DEF entries
  <1>2. Sound(store', now, O) /\ Covers(store', store, O)
    BY <1>1 DEF UsageInv, JobInv
  <1>5. job'[w][i].pc = "adopt" /\ job'[w][i].merged = store' /\ IsJob(job'[w][i])
    BY WriteIs
  <1>4. \A v \in Windows, k \in Persists : v # w \/ k # i => job'[v][k] = job[v][k]
    BY WriteIs
  <1>6. ASSUME NEW v \in Windows, NEW k \in Persists PROVE JobInv(v, k)'
    <2>1. CASE v = w /\ k = i
      BY <1>1, <1>2, <1>5, <2>1 DEF JobInv, Covers
    <2>2. CASE ~(v = w /\ k = i)
      <3>1. job'[v][k] = job[v][k] /\ JobInv(v, k)
        BY <1>4, <2>2 DEF UsageInv
      <3>2. job[v][k].pc \notin {"write", "adopt"}
        BY <1>1, <2>2, <3>1 DEF JobInv
      <3> QED
        BY <1>1, <3>1, <3>2 DEF JobInv
    <2> QED
      BY <2>1, <2>2
  <1>7. Kept'
    <2> SUFFICES ASSUME NEW t \in O, t \notin DOMAIN store'.timeline
                 PROVE  \E v \in Windows, k \in Persists : Holds(v, k, t)'
      BY <1>1 DEF Kept
    <2>1. t \notin DOMAIN store.timeline
      BY <1>2 DEF Covers
    <2>2. PICK v \in Windows, k \in Persists : Holds(v, k, t)
      BY <2>1 DEF UsageInv, Kept
    <2>3. ~(v = w /\ k = i)
      BY <1>1, <2>2 DEF Holds
    <2>4. Holds(v, k, t)'
      BY <1>1, <1>4, <2>2, <2>3 DEF Holds, Local
    <2> QED
      BY <2>4
  <1>8. ClockInv'
    BY <1>1 DEF UsageInv, ClockInv
  <1> QED
    BY <1>1, <1>2, <1>6, <1>7, <1>8 DEF UsageInv

\* What the other persists of the window had captured, they keep.
LEMMA AdoptIs ==
    ASSUME UsageInv, NEW w \in Windows, NEW i \in Persists, Adopt(w, i)
    PROVE  /\ job[w][i].pc = "adopt" /\ lock = <<w, i>> /\ lock' = None
           /\ UNCHANGED <<store, entries>> /\ Shapes'
           /\ mem'[w] = job[w][i].merged /\ \A v \in Windows : v # w => mem'[v] = mem[v]
           /\ job'[w][i] = NoJob
           /\ \A v \in Windows, k \in Persists :
                 v # w \/ (k # i /\ job[w][k].pc # "wait") => job'[v][k] = job[v][k]
           /\ \A k \in Persists : k # i /\ job[w][k].pc = "wait" =>
                 /\ job'[w][k].pc = "wait" /\ job'[w][k].local = <<Local(w, k)>>
                 /\ IsJob(job'[w][k])
  <1>1. PICK m : m = job[w][i].merged
    OBVIOUS
  <1>2. /\ job[w][i].pc = "adopt" /\ lock' = None
        /\ mem' = [mem EXCEPT ![w] = m]
        /\ job' = [job EXCEPT ![w] = [j \in Persists |->
                      IF j = i THEN NoJob
                      ELSE IF @[j].pc = "wait" THEN [@[j] EXCEPT !.local = <<Local(w, j)>>]
                      ELSE @[j]]]
        /\ UNCHANGED <<store, entries>>
    BY <1>1 DEF Adopt
  <1>3. lock = <<w, i>>
    BY <1>2 DEF UsageInv, JobInv
  <1>4. Shapes /\ Shapes'
    BY <1>2 DEF UsageInv, Shapes
  <1>5. /\ job'[w][i] = NoJob
        /\ \A v \in Windows, k \in Persists : v # w => job'[v][k] = job[v][k]
        /\ \A k \in Persists : k # i /\ job[w][k].pc # "wait" => job'[w][k] = job[w][k]
        /\ \A k \in Persists : k # i /\ job[w][k].pc = "wait" =>
              job'[w][k] = [job[w][k] EXCEPT !.local = <<Local(w, k)>>]
    BY <1>2, <1>4 DEF Shapes
  <1>6. mem'[w] = m /\ \A v \in Windows : v # w => mem'[v] = mem[v]
    BY <1>2, <1>4 DEF Shapes
  <1>7. ASSUME NEW k \in Persists, k # i, job[w][k].pc = "wait"
        PROVE  /\ job'[w][k].pc = "wait" /\ job'[w][k].local = <<Local(w, k)>>
               /\ IsJob(job'[w][k])
    <2>1. PICK l : l = <<Local(w, k)>>
      OBVIOUS
    <2>2. PICK j : j = job[w][k]
      OBVIOUS
    <2>3. j = [pc |-> j.pc, local |-> j.local, merged |-> j.merged]
      BY <2>2 DEF UsageInv, JobInv, IsJob
    <2>4. [j EXCEPT !.local = l] = [pc |-> j.pc, local |-> l, merged |-> j.merged]
      BY <2>3
    <2>5. job'[w][k] = [pc |-> "wait", local |-> l, merged |-> j.merged]
      BY <1>5, <1>7, <2>1, <2>2, <2>4
    <2> QED
      BY <2>1, <2>5, JobFields
  <1> QED
    BY <1>1, <1>2, <1>3, <1>4, <1>5, <1>6, <1>7

LEMMA AdoptStep ==
    ASSUME UsageInv, NEW w \in Windows, NEW i \in Persists, Adopt(w, i) PROVE UsageInv'
  <1> DEFINE O == DOMAIN owner
  <1>1. PICK m : m = job[w][i].merged
    OBVIOUS
  <1>2. /\ job[w][i].pc = "adopt" /\ lock' = None /\ lock = <<w, i>>
        /\ UNCHANGED <<store, now, id, owner>> /\ Shapes'
    BY AdoptIs DEF entries
  <1>3. Sound(m, now, O) /\ Covers(store, m, O)
    BY <1>1, <1>2 DEF UsageInv, JobInv
  <1>5. /\ job'[w][i] = NoJob
        /\ \A v \in Windows, k \in Persists :
              v # w \/ (k # i /\ job[w][k].pc # "wait") => job'[v][k] = job[v][k]
    BY AdoptIs
  <1>6. mem'[w] = m /\ \A v \in Windows : v # w => mem'[v] = mem[v]
    BY <1>1, AdoptIs
  <1>7. \A k \in Persists : k # i /\ job[w][k].pc = "wait" =>
           /\ job'[w][k].pc = "wait" /\ job'[w][k].local = <<Local(w, k)>>
           /\ IsJob(job'[w][k])
    BY AdoptIs
  <1>8. ASSUME NEW v \in Windows, NEW k \in Persists PROVE JobInv(v, k)'
    <2>1. CASE v = w /\ k = i
      <3>1. job'[v][k] = NoJob
        BY <1>5, <2>1
      <3> QED
        BY <3>1, JobFields DEF JobInv, NoJob
    <2>2. CASE v = w /\ k # i /\ job[w][k].pc = "wait"
      <3>1. Sound(Local(w, k), now, O)
        BY <2>2, LocalSound
      <3>2. Head(job'[w][k].local) = Local(w, k)
        BY <1>7, <2>2
      <3> QED
        BY <1>2, <1>7, <2>2, <3>1, <3>2 DEF JobInv
    <2>3. CASE ~(v = w /\ k = i) /\ ~(v = w /\ job[w][k].pc = "wait")
      <3>1. job'[v][k] = job[v][k] /\ JobInv(v, k)
        BY <1>5, <2>3 DEF UsageInv
      <3>2. job[v][k].pc \notin {"write", "adopt"}
        BY <1>2, <2>3, <3>1 DEF JobInv
      <3> QED
        BY <1>2, <3>1, <3>2 DEF JobInv
    <2> QED
      BY <2>1, <2>2, <2>3
  <1>9. Kept'
    <2> SUFFICES ASSUME NEW t \in O, t \notin DOMAIN store.timeline
                 PROVE  \E v \in Windows, k \in Persists : Holds(v, k, t)'
      BY <1>2 DEF Kept
    <2>1. PICK v \in Windows, k \in Persists : Holds(v, k, t)
      BY DEF UsageInv, Kept
    <2>2. ~(v = w /\ k = i)
      BY <1>1, <1>2, <1>3, <2>1 DEF Holds, Covers
    <2>3. CASE v # w
      <3>1. job'[v][k] = job[v][k] /\ mem'[v] = mem[v]
        BY <1>5, <1>6, <2>3
      <3>2. Holds(v, k, t)'
        BY <2>1, <3>1 DEF Holds, Local
      <3> QED
        BY <3>2
    <2>4. CASE v = w /\ job[w][k].pc = "wait"
      <3>1. Head(job'[w][k].local) = Local(w, k) /\ job'[w][k].local # <<>>
            /\ job'[w][k].pc = "wait"
        BY <1>7, <2>2, <2>4
      <3>2. Local(w, k)' = Local(w, k)
        BY <3>1 DEF Local
      <3>3. Holds(w, k, t)'
        BY <2>1, <2>4, <3>1, <3>2 DEF Holds
      <3> QED
        BY <3>3
    <2>5. CASE v = w /\ job[w][k].pc # "wait"
      <3>1. job'[w][k] = job[w][k]
        BY <1>5, <2>2, <2>5
      <3>2. Holds(w, k, t)'
        BY <2>1, <2>5, <3>1 DEF Holds
      <3> QED
        BY <3>2
    <2> QED
      BY <2>3, <2>4, <2>5
  <1>10. ClockInv'
    BY <1>2 DEF UsageInv, ClockInv
  <1>11. \A v \in Windows : Sound(mem'[v], now, O)
    BY <1>3, <1>6 DEF UsageInv
  <1> QED
    BY <1>2, <1>8, <1>9, <1>10, <1>11 DEF UsageInv

LEMMA StillStep ==
    ASSUME UsageInv, UNCHANGED <<mem, job, lock, store, now, owner>>,
           \A p \in People : id'[p] \in Ids \cup {None}
    PROVE  UsageInv'
  <1>1. \A w \in Windows, i \in Persists : JobInv(w, i)'
    BY DEF UsageInv, JobInv
  <1>2. Kept'
    <2>1. ASSUME NEW w, NEW i, NEW t, Holds(w, i, t) PROVE Holds(w, i, t)'
      BY <2>1 DEF Holds, Local
    <2> QED
      BY <2>1 DEF UsageInv, Kept
  <1> QED
    BY <1>1, <1>2 DEF UsageInv, ClockInv, Shapes

LEMMA UsageStep == ASSUME UsageInv, [Next]_vars PROVE UsageInv'
  <1>1. ASSUME NEW p \in People, Add(p) PROVE UsageInv'
    <2>1. PICK n \in Names : id' = [id EXCEPT ![p] = n]
      BY <1>1 DEF Add
    <2>2. \A q \in People : id'[q] \in Ids \cup {None}
      BY <2>1 DEF UsageInv, ClockInv, Ids
    <2> QED
      BY <1>1, <2>2, StillStep DEF Add
  <1>2. CASE UNCHANGED vars
    BY <1>2, StillStep DEF vars, entries, UsageInv, ClockInv
  <1> QED
    BY <1>1, <1>2, RecordStep, RestartStep, RenameStep, RetireStep, AcquireStep, WriteStep,
       AdoptStep DEF Next

LEMMA UsageInvariant == Spec => []UsageInv
  BY UsageInit, UsageStep, PTL DEF Spec

\* Whoever else persists meanwhile, a recorded selection is in the store, or a persist
\* under way holds it.
THEOREM NothingRecordedIsLost == Spec => []NothingLost
  BY UsageInvariant, UsageSafe, PTL

\* Timelines are of the past and of ids, and one persist at most has the lock.
THEOREM TypeCorrect == Spec => []TypeOK
  <1>1. ASSUME UsageInv PROVE TypeOK
    <2>1. ASSUME NEW s \in States PROVE Sound(s, now, DOMAIN owner)
      <3>1. s = store \/ \E w \in Windows : s = mem[w]
        <4>1. DOMAIN mem = Windows
          BY <1>1 DEF UsageInv, Shapes
        <4> QED
          BY <4>1 DEF States, Range
      <3> QED
        BY <1>1, <3>1 DEF UsageInv
    <2>2. now \in Times /\ lock \in Jobs \cup {None}
      BY <1>1 DEF UsageInv, ClockInv
    <2>3. ASSUME NEW s \in States
          PROVE  /\ DOMAIN s.timeline \subseteq Times
                 /\ \A t \in DOMAIN s.timeline : s.timeline[t].subject \in Ids \cup {None}
                 /\ \A i \in Ids : s.decisions[i] # None =>
                       s.decisions[i].to \in Ids \cup {None}
      <3>1. IsState(s) /\ \A t \in DOMAIN s.timeline : t \in Nat \ {0} /\ t < now
        BY <2>1 DEF Sound
      <3>2. \A t \in DOMAIN s.timeline : t \in Times
        BY <2>2, <3>1, TimelineAssumption DEF Times
      <3> QED
        BY <3>1, <3>2, SubjectType DEF IsState
    <2> QED
      BY <2>2, <2>3 DEF TypeOK
  <1> QED
    BY <1>1, UsageInvariant, PTL

-----------------------------------------------------------------------------
(* Whose the tokens are.  What the windows and the store say are parts of   *)
(* one history h: how the entries were renamed and removed, and whose        *)
(* selection was recorded.                                                  *)

\* The names of an entry are not given to another, one that was renamed is not removed, and
\* no window records a name that it renamed itself.
Once == ~Reuse /\ Ops \cap {"both", "forget"} = {}

\* The renames go from name to name of one entry, each later than the one before.
Links(h) ==
    /\ h.now \in Nat
    /\ h.renamed = [i \in Ids |-> h.renamed[i]] /\ h.had = [i \in Names |-> h.had[i]]
    /\ \A i \in Ids : h.renamed[i] # None =>
          LET next == h.renamed[i].to
          IN  /\ i \in Names /\ next \in Names /\ h.renamed[i] \in [to : Names, at : Nat]
              /\ h.renamed[i].at < h.now
              /\ h.had[i] \in People /\ h.had[next] = h.had[i]
              /\ h.renamed[next] # None => h.renamed[i].at < h.renamed[next].at

\* An entry has the last of its names, or has been removed.
Entries(h) ==
    /\ h.id = [p \in People |-> h.id[p]]
    /\ \A p \in People :
          /\ h.id[p] \in Ids \cup {None}
          /\ h.id[p] \in Names => h.had[h.id[p]] = p /\ h.renamed[h.id[p]] = None
          /\ h.id[p] \in RetiredIds => \E r \in h.removed : r.to = h.id[p]
    /\ \A i \in Names : h.had[i] # None =>
          /\ h.had[i] \in People
          /\ h.id[h.had[i]] = i \/ h.renamed[i] # None \/ h.id[h.had[i]] \in RetiredIds

\* For whom a selection is recorded: an entry, or the name of one that was removed.
Owners(h) == People \cup {r.from : r \in h.removed}

\* An entry that was removed had one name, and what is recorded for that since is not its own.
Removals(h) ==
    /\ \A r \in h.removed :
          /\ r.from \in Names /\ r.to \in RetiredIds /\ r.at \in Times /\ r.at < h.now
          /\ h.had[r.from] \in People
          /\ \A p \in People : h.id[p] = r.to <=> p = h.had[r.from]
          /\ \A i \in Names : h.had[i] = h.had[r.from] => i = r.from
          /\ \A t \in DOMAIN h.owner : h.owner[t] = h.had[r.from] => t <= r.at
          /\ \A t \in DOMAIN h.owner : h.owner[t] = r.from => r.at < t
          /\ \A q \in h.removed : q.at = r.at => q = r
    /\ \A t \in DOMAIN h.owner : t \in Nat /\ h.owner[t] \in Owners(h)

Past(h) == Links(h) /\ Entries(h) /\ Removals(h)

\* What an entry has been called, or is called since it was removed; a name alone is itself.
IdsOf(h, p) == IF p \in Names THEN {p}
               ELSE {i \in Names : h.had[i] = p} \cup ({h.id[p]} \cap RetiredIds)

\* The decisions of a state are renames of the history.
Follows(s, h) == \A i \in Ids : s.decisions[i] \in {None, h.renamed[i]}

\* Its intervals are of whoever was selected,
Theirs(s, h) ==
    \A t \in DOMAIN s.timeline :
       LET interval == s.timeline[t]
       IN  /\ interval.subject # None =>
                t \in DOMAIN h.owner /\ interval.until \in Int /\ t <= interval.until
           /\ t \in DOMAIN h.owner => interval.subject \in IdsOf(h, h.owner[t])

\* and it knows of the removals that its intervals tell of
Marked(s) ==
    \A t \in DOMAIN s.timeline : s.timeline[t].subject \in RetiredIds =>
       \E r \in s.retirements : r.to = s.timeline[t].subject

\* as they tell of the removals it knows of.
Swept(s, r) == \A t \in DOMAIN s.timeline : t <= r.at => s.timeline[t].subject # r.from

Fits(s, h) ==
    /\ Follows(s, h) /\ s.retirements \subseteq h.removed
    /\ Theirs(s, h) /\ Marked(s) /\ \A r \in s.retirements : Swept(s, r)

-----------------------------------------------------------------------------
(* A renamed name stands for a later one of the same entry. *)

LEMMA NextName ==
    ASSUME NEW h, Links(h), NEW s, Follows(s, h), NEW i \in Ids, Remaps(s)[i] # None
    PROVE  /\ s.decisions[i] = h.renamed[i] /\ h.renamed[i] # None
           /\ Remaps(s)[i] = h.renamed[i].to /\ i \in Names /\ Remaps(s)[i] \in Names
           /\ h.had[Remaps(s)[i]] = h.had[i] /\ h.had[i] \in People
           /\ h.renamed[i].at \in Nat
           /\ h.renamed[Remaps(s)[i]] # None => h.renamed[i].at < h.renamed[Remaps(s)[i]].at
  <1>1. s.decisions[i] # None /\ Remaps(s)[i] = s.decisions[i].to
    BY DEF Remaps
  <1>2. s.decisions[i] = h.renamed[i]
    BY <1>1 DEF Follows
  <1> QED
    BY <1>1, <1>2 DEF Links

LEMMA NoNext ==
    ASSUME NEW h, NEW s, Follows(s, h), NEW i \in Ids, h.renamed[i] = None
    PROVE  Remaps(s)[i] = None
  BY DEF Remaps, Follows

\* The walk ends where nothing follows, and leaves no set that is closed under it.
LEMMA WalkEnds ==
    ASSUME NEW h, Links(h), NEW s, IsState(s), Follows(s, h), NEW i \in Ids,
           NEW C \in SUBSET Ids, i \in C,
           \A j \in C : Remaps(s)[j] # None => Remaps(s)[j] \in C
    PROVE  Resolve(s, i) \in C /\ Remaps(s)[Resolve(s, i)] = None
  <1> DEFINE N == Cardinality(Ids) + 1
             start == [at |-> i, seen |-> {}]
             next == Remaps(s)
  <1>1. N \in Nat
    BY IdsFinite
  <1>2. PICK walk :
           /\ Resolve(s, i) = walk[N].at
           /\ \A m \in 0 .. N : walk[m] = IF m = 0 THEN start ELSE Hop(next, walk[m - 1])
    BY WalkIs DEF Resolve
  <1> DEFINE Good(m) ==
               LET here == walk[m]
               IN  /\ here.at \in C /\ here.seen \in SUBSET Ids
                   /\ \A j \in here.seen :
                         /\ h.renamed[j] # None /\ h.renamed[j].at \in Nat
                         /\ h.renamed[here.at] # None => h.renamed[j].at < h.renamed[here.at].at
                   /\ next[here.at] = None \/ Cardinality(here.seen) = m
             U == {m \in Nat : m <= N => Good(m)}
  <1>3. 0 \in U
    <2>1. walk[0] = start
      BY <1>1, <1>2
    <2>2. Cardinality({}) = 0
      BY FS_EmptySet
    <2>3. walk[0].at = i /\ walk[0].seen = {}
      BY <2>1
    <2>4. Good(0)
      <3> HIDE DEF next
      <3> QED
        BY <2>2, <2>3
    <2> HIDE DEF Good
    <2> QED
      BY <2>4
  <1>4. ASSUME NEW m \in Nat, m \in U PROVE m + 1 \in U
    <2> SUFFICES ASSUME m + 1 <= N PROVE Good(m + 1)
      OBVIOUS
    <2>1. PICK here : here = walk[m]
      OBVIOUS
    <2>2. walk[m + 1] = Hop(next, here)
      <3> HIDE DEF start, N, next
      <3>1. m + 1 \in 0 .. N /\ m + 1 # 0 /\ (m + 1) - 1 = m
        BY <1>1
      <3> QED
        BY <1>2, <2>1, <3>1
    <2>3. Good(m)
      BY <1>1, <1>4
    <2>4. /\ here.at \in C /\ here.seen \in SUBSET Ids
          /\ \A j \in here.seen :
                /\ h.renamed[j] # None /\ h.renamed[j].at \in Nat
                /\ h.renamed[here.at] # None => h.renamed[j].at < h.renamed[here.at].at
          /\ next[here.at] = None \/ Cardinality(here.seen) = m
      BY <2>1, <2>3
    <2>5. CASE next[here.at] = None
      <3>1. walk[m + 1] = here
        BY <2>2, <2>5 DEF Hop
      <3> QED
        BY <2>4, <2>5, <3>1
    <2>6. CASE next[here.at] # None
      <3>1. /\ h.renamed[here.at] # None /\ next[here.at] = h.renamed[here.at].to
            /\ h.renamed[here.at].at \in Nat
            /\ h.renamed[next[here.at]] # None =>
                  h.renamed[here.at].at < h.renamed[next[here.at]].at
            /\ h.renamed[next[here.at]] # None => h.renamed[next[here.at]].at \in Nat
        <4>1. here.at \in Ids /\ next[here.at] \in Ids
          BY <2>4, <2>6
        <4>2. ASSUME h.renamed[next[here.at]] # None
              PROVE  h.renamed[next[here.at]].at \in Nat
          BY <4>1, <4>2 DEF Links
        <4> QED
          BY <2>6, <4>1, <4>2, NextName
      <3>2. here.at \notin here.seen
        BY <2>4, <3>1
      <3>3. walk[m + 1] = [at |-> next[here.at], seen |-> here.seen \cup {here.at}]
        BY <2>2, <2>6, <3>2 DEF Hop
      <3>4. Cardinality(here.seen \cup {here.at}) = m + 1
        <4>1. IsFiniteSet(here.seen)
          BY <2>4, IdsFinite, FS_Subset
        <4> QED
          BY <2>4, <2>6, <3>2, <4>1, FS_AddElement
      <3>5. \A j \in here.seen \cup {here.at} :
               /\ h.renamed[j] # None /\ h.renamed[j].at \in Nat
               /\ h.renamed[next[here.at]] # None =>
                     h.renamed[j].at < h.renamed[next[here.at]].at
        BY <2>4, <3>1
      <3>6. next[here.at] \in C
        BY <2>4, <2>6
      <3> HIDE DEF next
      <3> QED
        BY <2>4, <3>3, <3>4, <3>5, <3>6
    <2> QED
      BY <2>5, <2>6
  <1>5. Good(N)
    <2> HIDE DEF N
    <2>1. Nat \subseteq U
      <3> HIDE DEF U
      <3> QED
        BY <1>3, <1>4, Inductive
    <2> QED
      BY <1>1, <2>1
  <1>6. Cardinality(walk[N].seen) # N
    BY <1>5, IdsFinite, FS_Subset
  <1> QED
    BY <1>2, <1>5, <1>6

\* A name without a follower stands for itself,
LEMMA Ends ==
    ASSUME NEW h, Links(h), NEW s, IsState(s), Follows(s, h), NEW i \in Ids,
           h.renamed[i] = None
    PROVE  Resolve(s, i) = i /\ Remaps(s)[i] = None
  <1>1. Remaps(s)[i] = None
    BY NoNext
  <1>2. Resolve(s, i) \in {i}
    <2> DEFINE C == {i}
    <2>1. C \in SUBSET Ids /\ i \in C /\ \A j \in C : Remaps(s)[j] # None => Remaps(s)[j] \in C
      BY <1>1
    <2> HIDE DEF C
    <2>2. Resolve(s, i) \in C
      BY <2>1, WalkEnds
    <2> QED
      BY <2>2 DEF C
  <1> QED
    BY <1>1, <1>2

\* every other one for a name of its entry.
LEMMA SameEntry ==
    ASSUME NEW h, Links(h), NEW s, IsState(s), Follows(s, h), NEW i \in Names
    PROVE  /\ Resolve(s, i) \in Names /\ h.had[Resolve(s, i)] = h.had[i]
           /\ Remaps(s)[Resolve(s, i)] = None
  <1> DEFINE C == {j \in Names : h.had[j] = h.had[i]}
  <1>1. C \in SUBSET Ids /\ i \in C /\ i \in Ids
    BY DEF Ids
  <1>2. \A j \in C : Remaps(s)[j] # None => Remaps(s)[j] \in C
    <2> SUFFICES ASSUME NEW j \in C, Remaps(s)[j] # None PROVE Remaps(s)[j] \in C
      OBVIOUS
    <2>1. j \in Ids
      BY <1>1
    <2> QED
      BY <2>1, NextName
  <1>3. Resolve(s, i) \in C /\ Remaps(s)[Resolve(s, i)] = None
    <2> HIDE DEF C
    <2> QED
      BY <1>1, <1>2, WalkEnds
  <1> QED
    BY <1>3

LEMMA NotRenamed ==
    ASSUME NEW h, Links(h), NEW i \in RetiredIds PROVE i \in Ids /\ h.renamed[i] = None
  BY TimelineAssumption DEF Links, Ids

LEMMA Kinds == Names \cap RetiredIds = {} /\ None \notin Names /\ None \notin RetiredIds
               /\ None \notin People /\ Ids = Names \cup RetiredIds /\ People \cap Names = {}
  BY TimelineAssumption DEF Ids

\* What an interval's subject stands for is of the same entry.
LEMMA ResolveTheirs ==
    ASSUME NEW h, Past(h), NEW s, IsState(s), Follows(s, h), NEW x \in Ids \cup {None}
    PROVE  /\ \A p \in People : x \in IdsOf(h, p) => Resolve(s, x) \in IdsOf(h, p)
           /\ Resolve(s, x) \in RetiredIds <=> x \in RetiredIds
           /\ x \in RetiredIds \cup {None} => Resolve(s, x) = x
           /\ \A p : h.had[Resolve(s, x)] = p /\ Resolve(s, x) \in Names =>
                 x \in Names /\ h.had[x] = p
  <1>1. Links(h)
    BY DEF Past
  <1>2. CASE x = None
    <2>1. Resolve(s, x) = None
      BY <1>2 DEF Resolve, resolveMappedId
    <2> QED
      BY <1>2, <2>1, Kinds DEF IdsOf
  <1>3. CASE x \in RetiredIds
    <2>1. Resolve(s, x) = x
      BY <1>1, <1>3, NotRenamed, Ends
    <2> QED
      BY <1>3, <2>1, Kinds
  <1>4. CASE x \in Names
    <2>1. Resolve(s, x) \in Names /\ h.had[Resolve(s, x)] = h.had[x]
      BY <1>1, <1>4, SameEntry
    <2> QED
      BY <1>4, <2>1, Kinds DEF IdsOf
  <1> QED
    BY <1>2, <1>3, <1>4, Kinds

\* The name of a removed entry was its only one.
LEMMA OnlyName ==
    ASSUME NEW h, Past(h), NEW r \in h.removed
    PROVE  /\ r.from \in Names /\ r.to \in RetiredIds /\ r.to \in Ids
           /\ h.renamed[r.from] = None
           /\ \A p \in People : r.from \in IdsOf(h, p) =>
                 p = h.had[r.from] /\ r.to \in IdsOf(h, p)
  <1>1. r.from \in Names /\ r.to \in RetiredIds /\ h.had[r.from] \in People
        /\ h.id[h.had[r.from]] = r.to
        /\ \A i \in Names : h.had[i] = h.had[r.from] => i = r.from
    BY DEF Past, Removals
  <1>2. h.renamed[r.from] = None
    <2> SUFFICES ASSUME h.renamed[r.from] # None PROVE FALSE
      OBVIOUS
    <2>1. r.from \in Ids
      BY <1>1, Kinds
    <2>2. h.renamed[r.from].to = r.from /\ h.renamed[r.from].at \in Nat
      BY <1>1, <2>1 DEF Past, Links
    <2> QED
      BY <2>1, <2>2 DEF Past, Links
  <1> QED
    BY <1>1, <1>2, Kinds DEF IdsOf

LEMMA OnlyItself ==
    ASSUME NEW h, Past(h), NEW s, IsState(s), Follows(s, h), NEW r \in h.removed,
           NEW x \in Ids \cup {None}
    PROVE  /\ Resolve(s, x) = r.from <=> x = r.from
           /\ Remaps(s)[r.from] = None
  <1>1. r.from \in Names /\ h.renamed[r.from] = None /\ r.from \in Ids
    BY OnlyName, Kinds
  <1>2. Resolve(s, r.from) = r.from /\ Remaps(s)[r.from] = None
    BY <1>1, Ends DEF Past
  <1>3. ASSUME Resolve(s, x) = r.from PROVE x = r.from
    <2>1. x \in Names /\ h.had[x] = h.had[r.from]
      BY <1>1, <1>3, ResolveTheirs
    <2> QED
      BY <2>1 DEF Past, Removals
  <1> QED
    BY <1>2, <1>3

LEMMA ResolveOwned ==
    ASSUME NEW h, Past(h), NEW s, IsState(s), Follows(s, h), NEW x \in Ids \cup {None},
           NEW o \in Owners(h), x \in IdsOf(h, o)
    PROVE  Resolve(s, x) \in IdsOf(h, o)
  <1>1. CASE o \in People
    BY <1>1, ResolveTheirs
  <1>2. CASE o \notin People
    <2>1. PICK r \in h.removed : o = r.from
      BY <1>2 DEF Owners
    <2>2. o \in Names
      BY <2>1, OnlyName
    <2>3. x = o
      BY <2>2 DEF IdsOf
    <2> QED
      BY <2>1, <2>3, OnlyItself
  <1> QED
    BY <1>1, <1>2

\* Of whoever was selected when an entry has the name, it is the entry.
LEMMA OwnedName ==
    ASSUME NEW h, Past(h), NEW o \in Owners(h), NEW x \in Names, x \in IdsOf(h, o),
           h.id[h.had[x]] \in Names
    PROVE  o = h.had[x] /\ o \in People
  <1>1. CASE o \in People
    BY <1>1, Kinds DEF IdsOf
  <1>2. CASE o \notin People
    <2>1. PICK r \in h.removed : o = r.from
      BY <1>2 DEF Owners
    <2>2. o \in Names /\ h.id[h.had[o]] = r.to /\ r.to \in RetiredIds
      BY <2>1, OnlyName DEF Past, Removals
    <2> QED
      BY <2>2, Kinds DEF IdsOf
  <1> QED
    BY <1>1, <1>2

LEMMA ReplayIs ==
    ASSUME NEW s, IsState(s), NEW r
    PROVE  LET remaps == Remaps(s)
               Was(i) == resolveMappedId(i, remaps) = r.from
           IN  /\ Replay(s, r).timeline =
                     [t \in DOMAIN s.timeline |->
                        IF t <= r.at /\ Was(s.timeline[t].subject)
                        THEN [s.timeline[t] EXCEPT !.subject = r.to] ELSE s.timeline[t]]
               /\ Replay(s, r).decisions =
                     [i \in Ids |-> IF remaps[i] # None /\ Was(i) /\ s.decisions[i].at <= r.at
                                    THEN [to |-> None, at |-> r.at] ELSE s.decisions[i]]
               /\ Replay(s, r).retirements = s.retirements
  <1> DEFINE remaps == Remaps(s)
             Was(i) == resolveMappedId(i, remaps) = r.from
             line == [t \in DOMAIN s.timeline |->
                        IF t <= r.at /\ Was(s.timeline[t].subject)
                        THEN [s.timeline[t] EXCEPT !.subject = r.to] ELSE s.timeline[t]]
             ds == [i \in Ids |-> IF remaps[i] # None /\ Was(i) /\ s.decisions[i].at <= r.at
                                  THEN [to |-> None, at |-> r.at] ELSE s.decisions[i]]
  <1>1. Replay(s, r) = [s EXCEPT !.timeline = line, !.decisions = ds]
    BY DEF Replay
  <1>2. s = [timeline |-> s.timeline, decisions |-> s.decisions, retirements |-> s.retirements]
    BY DEF IsState
  <1>3. PICK l, d : l = line /\ d = ds
    OBVIOUS
  <1>4. Replay(s, r) = [s EXCEPT !.timeline = l, !.decisions = d]
    BY <1>1, <1>3
  <1>5. PICK y : y = [s EXCEPT !.timeline = l]
    OBVIOUS
  <1>6. y = [timeline |-> l, decisions |-> s.decisions, retirements |-> s.retirements]
    BY <1>2, <1>5
  <1>7. Replay(s, r) = [y EXCEPT !.decisions = d]
    BY <1>4, <1>5
  <1>8. /\ Replay(s, r).timeline = l /\ Replay(s, r).decisions = d
        /\ Replay(s, r).retirements = s.retirements
    BY <1>6, <1>7
  <1> QED
    BY <1>3, <1>8

\* A removal that is replayed gives to what was removed what was used by the entry, and
\* nothing else.
LEMMA ReplayFits ==
    ASSUME NEW h, Past(h), NEW s, IsState(s), Follows(s, h), s.retirements \subseteq h.removed,
           Theirs(s, h), Marked(s), NEW r \in s.retirements
    PROVE  LET z == Replay(s, r)
           IN  /\ IsState(z) /\ z.decisions = s.decisions /\ z.retirements = s.retirements
               /\ Theirs(z, h) /\ Marked(z) /\ Swept(z, r)
               /\ \A q \in h.removed : Swept(s, q) => Swept(z, q)
  <1> DEFINE z == Replay(s, r)
             Was(i) == resolveMappedId(i, Remaps(s)) = r.from
  <1>1. r \in h.removed /\ r.to \in RetiredIds /\ r.to \in Ids /\ r.from \in Names
    BY OnlyName
  <1>2. /\ z.timeline = [t \in DOMAIN s.timeline |->
                           IF t <= r.at /\ Was(s.timeline[t].subject)
                           THEN [s.timeline[t] EXCEPT !.subject = r.to] ELSE s.timeline[t]]
        /\ z.decisions = [i \in Ids |->
                            IF Remaps(s)[i] # None /\ Was(i) /\ s.decisions[i].at <= r.at
                            THEN [to |-> None, at |-> r.at] ELSE s.decisions[i]]
        /\ z.retirements = s.retirements
    BY ReplayIs
  <1>3. IsState(z)
    BY <1>1, ReplayKeeps
  <1>4. \A x \in Ids \cup {None} : Was(x) <=> x = r.from
    BY <1>1, OnlyItself DEF Resolve
  <1>5. z.decisions = s.decisions
    <2>1. Remaps(s)[r.from] = None
      BY <1>1, OnlyItself, Kinds
    <2>2. \A i \in Ids : ~(Remaps(s)[i] # None /\ Was(i))
      BY <1>4, <2>1
    <2>3. s.decisions = [i \in Ids |-> s.decisions[i]]
      BY DEF IsState
    <2> HIDE DEF z, Was
    <2> QED
      BY <1>2, <2>2, <2>3
  <1> HIDE DEF z, Was
  <1>6. ASSUME NEW t \in DOMAIN s.timeline
        PROVE  /\ ~(t <= r.at /\ s.timeline[t].subject = r.from) =>
                     z.timeline[t] = s.timeline[t]
               /\ t <= r.at /\ s.timeline[t].subject = r.from =>
                     z.timeline[t].subject = r.to /\ z.timeline[t].until = s.timeline[t].until
    <2>1. s.timeline[t].subject \in Ids \cup {None}
      BY SubjectType
    <2>2. CASE ~(t <= r.at /\ s.timeline[t].subject = r.from)
      BY <1>2, <1>4, <2>1, <2>2
    <2>3. CASE t <= r.at /\ s.timeline[t].subject = r.from
      <3>3. z.timeline[t] = [s.timeline[t] EXCEPT !.subject = r.to]
        BY <1>2, <1>4, <2>1, <2>3
      <3>4. s.timeline[t] \in Intervals
        BY DEF IsState
      <3> QED
        BY <2>3, <3>3, <3>4 DEF Intervals
    <2> QED
      BY <2>2, <2>3
  <1>7. DOMAIN z.timeline = DOMAIN s.timeline
    BY <1>2
  <1>8. Theirs(z, h)
    <2> SUFFICES ASSUME NEW t \in DOMAIN s.timeline
                 PROVE  /\ z.timeline[t].subject # None =>
                             /\ t \in DOMAIN h.owner /\ z.timeline[t].until \in Int
                             /\ t <= z.timeline[t].until
                        /\ t \in DOMAIN h.owner =>
                             z.timeline[t].subject \in IdsOf(h, h.owner[t])
      BY <1>7 DEF Theirs
    <2>1. CASE ~(t <= r.at /\ s.timeline[t].subject = r.from)
      BY <1>6, <2>1 DEF Theirs
    <2>2. CASE t <= r.at /\ s.timeline[t].subject = r.from
      <3>1. /\ t \in DOMAIN h.owner /\ r.from \in IdsOf(h, h.owner[t])
            /\ s.timeline[t].until \in Int /\ t <= s.timeline[t].until
        BY <1>1, <2>2, Kinds DEF Theirs
      <3>2. h.owner[t] \in Owners(h)
        BY <3>1 DEF Past, Removals
      <3>3. r.at \in Int /\ t \in Int
        BY <1>1, <3>1 DEF Past, Removals, Times
      <3>4. h.owner[t] # r.from
        BY <1>1, <2>2, <3>1, <3>3 DEF Past, Removals
      <3>5. h.owner[t] \in People
        <4> SUFFICES ASSUME h.owner[t] \notin People PROVE FALSE
          OBVIOUS
        <4>1. PICK q \in h.removed : h.owner[t] = q.from
          BY <3>2 DEF Owners
        <4>2. q.from \in Names
          BY OnlyName
        <4> QED
          BY <3>1, <3>4, <4>1, <4>2 DEF IdsOf
      <3> QED
        BY <1>1, <1>6, <2>2, <3>1, <3>5, OnlyName
    <2> QED
      BY <2>1, <2>2
  <1>9. Marked(z)
    <2> SUFFICES ASSUME NEW t \in DOMAIN s.timeline, z.timeline[t].subject \in RetiredIds
                 PROVE  \E q \in s.retirements : q.to = z.timeline[t].subject
      BY <1>2, <1>7 DEF Marked
    <2>1. CASE ~(t <= r.at /\ s.timeline[t].subject = r.from)
      BY <1>6, <2>1 DEF Marked
    <2>2. CASE t <= r.at /\ s.timeline[t].subject = r.from
      BY <1>6, <2>2
    <2> QED
      BY <2>1, <2>2
  <1>10. Swept(z, r)
    BY <1>1, <1>6, <1>7, Kinds DEF Swept
  <1>11. ASSUME NEW q \in h.removed, Swept(s, q) PROVE Swept(z, q)
    <2>1. q.from \in Names
      BY OnlyName
    <2> QED
      BY <1>1, <1>6, <1>7, <1>11, <2>1, Kinds DEF Swept
  <1> QED
    BY <1>2, <1>3, <1>5, <1>8, <1>9, <1>10, <1>11 DEF z

LEMMA ReplayedFits ==
    ASSUME NEW h, Past(h), NEW s, IsState(s), Follows(s, h), s.retirements \subseteq h.removed,
           Theirs(s, h), Marked(s)
    PROVE  /\ Replayed(s).decisions = s.decisions /\ Replayed(s).retirements = s.retirements
           /\ Fits(Replayed(s), h)
  <1> DEFINE Good(v) == /\ IsState(v) /\ v.decisions = s.decisions
                        /\ v.retirements = s.retirements /\ Theirs(v, h) /\ Marked(v)
             Done(v, m) == \A r \in s.retirements : r.at <= m => Swept(v, r)
  <1>1. MaxTime \in Nat
    BY TimelineAssumption
  <1>2. PICK upTo :
           /\ Replayed(s) = upTo[MaxTime]
           /\ \A m \in 0 .. MaxTime :
                 upTo[m] = IF m = 0 THEN s ELSE Replayings(s, m, upTo[m - 1])
    BY ReplayedIs
  <1>3. ASSUME NEW m \in Nat \ {0}, NEW v, Good(v), Done(v, m - 1)
        PROVE  Good(Replayings(s, m, v)) /\ Done(Replayings(s, m, v), m)
    <2> DEFINE Now == {r \in s.retirements : r.at = m}
    <2>0. \A r \in s.retirements : r.at \in Nat /\ (r.at <= m => r.at <= m - 1 \/ r \in Now)
      BY DEF Past, Removals, Times
    <2>1. CASE Now = {}
      <3>1. Replayings(s, m, v) = v
        BY <2>1 DEF Replayings
      <3> QED
        BY <1>3, <2>0, <2>1, <3>1
    <2>2. CASE Now # {}
      <3> PICK r : r = CHOOSE q \in Now : TRUE
        OBVIOUS
      <3>1. r \in Now /\ r \in v.retirements /\ r \in h.removed
        BY <1>3, <2>2
      <3>2. Replayings(s, m, v) = Replay(v, r)
        BY <2>2 DEF Replayings
      <3>3. Follows(v, h) /\ v.retirements \subseteq h.removed
        BY <1>3 DEF Follows
      <3> PICK z : z = Replay(v, r)
        OBVIOUS
      <3>4. /\ IsState(z) /\ z.decisions = v.decisions /\ z.retirements = v.retirements
            /\ Theirs(z, h) /\ Marked(z) /\ Swept(z, r)
            /\ \A q \in h.removed : Swept(v, q) => Swept(z, q)
        BY <1>3, <3>1, <3>3, ReplayFits
      <3>5. \A q \in Now : q = r
        BY <3>1 DEF Past, Removals
      <3>6. Done(z, m)
        BY <1>3, <2>0, <3>4, <3>5
      <3> QED
        BY <1>3, <3>2, <3>4, <3>6
    <2> QED
      BY <2>1, <2>2
  <1> DEFINE U == {n \in Nat : n <= MaxTime => Good(upTo[n]) /\ Done(upTo[n], n)}
  <1>4. 0 \in U
    <2>1. upTo[0] = s
      BY <1>1, <1>2
    <2>2. Done(s, 0)
      BY DEF Past, Removals, Times
    <2> HIDE DEF Done
    <2> QED
      BY <2>1, <2>2
  <1>5. ASSUME NEW n \in Nat, n \in U PROVE n + 1 \in U
    <2> SUFFICES ASSUME n + 1 <= MaxTime PROVE Good(upTo[n + 1]) /\ Done(upTo[n + 1], n + 1)
      OBVIOUS
    <2> HIDE DEF Good, Done
    <2>1. upTo[n + 1] = Replayings(s, n + 1, upTo[n])
      <3>1. n + 1 \in 0 .. MaxTime /\ n + 1 # 0 /\ (n + 1) - 1 = n
        BY <1>1
      <3> QED
        BY <1>2, <3>1
    <2>2. Good(upTo[n]) /\ Done(upTo[n], (n + 1) - 1)
      BY <1>1, <1>5
    <2>3. n + 1 \in Nat \ {0}
      OBVIOUS
    <2> QED
      BY <1>3, <2>1, <2>2, <2>3
  <1>6. Good(Replayed(s)) /\ Done(Replayed(s), MaxTime)
    <2>1. Nat \subseteq U
      <3> HIDE DEF U
      <3> QED
        BY <1>4, <1>5, Inductive
    <2> QED
      BY <1>1, <1>2, <2>1
  <1>7. \A r \in s.retirements : r.at <= MaxTime
    BY <1>1 DEF Past, Removals, Times
  <1> QED
    BY <1>6, <1>7 DEF Fits, Follows

\* The renames and removals that a state tells of, and all there were.
News(s) == {<<"renamed", i>> : i \in {i \in Ids : s.decisions[i] # None}}
           \cup {<<"removed", r>> : r \in s.retirements}
Events(h) == {<<"renamed", i>> : i \in {i \in Ids : h.renamed[i] # None}}
             \cup {<<"removed", r>> : r \in h.removed}

LEMMA NewsIs ==
    ASSUME NEW s
    PROVE  /\ \A r : <<"removed", r>> \in News(s) <=> r \in s.retirements
           /\ \A i : <<"renamed", i>> \in News(s) <=> i \in Ids /\ s.decisions[i] # None
  <1>1. \A r : <<"removed", r>> \in News(s) <=> r \in s.retirements
    BY DEF News
  <1>2. \A i : <<"renamed", i>> \in News(s) <=> i \in Ids /\ s.decisions[i] # None
    BY DEF News
  <1> QED
    BY <1>1, <1>2

LEMMA MoreNews ==
    ASSUME NEW s, NEW z, s.retirements \subseteq z.retirements,
           \A i \in Ids : s.decisions[i] # None => z.decisions[i] # None
    PROVE  News(s) \subseteq News(z)
  BY DEF News

\* What a merge gives tells of all that either told of.
LEMMA MergeFits ==
    ASSUME NEW h, Past(h), NEW remote, IsState(remote), Fits(remote, h),
           NEW local, IsState(local), Fits(local, h)
    PROVE  /\ Fits(Merge(remote, local), h)
           /\ News(remote) \cup News(local) \subseteq News(Merge(remote, local))
  <1> DEFINE line == [t \in DOMAIN remote.timeline \cup DOMAIN local.timeline |->
                         IF t \in DOMAIN local.timeline THEN local.timeline[t]
                         ELSE remote.timeline[t]]
             ds == [i \in Ids |-> IF preferRemapDecision(local.decisions[i], remote.decisions[i])
                                  THEN local.decisions[i] ELSE remote.decisions[i]]
             rs == remote.retirements \cup local.retirements
             joined == [timeline |-> line, decisions |-> ds, retirements |-> rs]
             y == [joined EXCEPT !.timeline = Resolved(joined)]
             z == Replayed(y)
             m == [z EXCEPT !.timeline = Compact(@)]
  <1>1. \A i \in Ids : /\ ds[i] \in {local.decisions[i], remote.decisions[i]}
                       /\ ds[i] = None => local.decisions[i] = None /\ remote.decisions[i] = None
    BY DEF preferRemapDecision
  <1>2. /\ line = [t \in DOMAIN line |-> line[t]] /\ ds = [i \in Ids |-> ds[i]]
        /\ \A t \in DOMAIN line : \/ t \in DOMAIN local.timeline /\ line[t] = local.timeline[t]
                                  \/ t \in DOMAIN remote.timeline /\ line[t] = remote.timeline[t]
    OBVIOUS
  <1>3. joined.timeline = line /\ joined.decisions = ds /\ joined.retirements = rs
        /\ joined = [timeline |-> line, decisions |-> ds, retirements |-> rs]
    OBVIOUS
  <1>4. Merge(remote, local) = m
    BY DEF Merge
  <1> HIDE DEF joined, line, ds
  <1>5. IsState(joined)
    <2>1. \A t \in DOMAIN line : line[t] \in Intervals
      BY <1>2 DEF IsState
    <2>2. \A i \in Ids : ds[i] # None => ds[i].to \in Ids \cup {None}
      BY <1>1 DEF IsState
    <2>3. \A r \in rs : r.to \in Ids
      BY DEF IsState
    <2> QED
      BY <1>2, <1>3, <2>1, <2>2, <2>3 DEF IsState
  <1>6. Follows(joined, h) /\ joined.retirements \subseteq h.removed
    BY <1>1, <1>3 DEF Fits, Follows
  <1>7. Theirs(joined, h)
    BY <1>2, <1>3 DEF Fits, Theirs
  <1>8. Marked(joined)
    BY <1>2, <1>3 DEF Fits, Marked
  <1>9. IsState(y) /\ y.decisions = ds /\ y.retirements = rs /\ y.timeline = Resolved(joined)
    BY <1>3, <1>5, ResolvedKeeps
  <1>10. /\ DOMAIN y.timeline = DOMAIN joined.timeline
         /\ \A t \in DOMAIN joined.timeline :
               /\ y.timeline[t].subject = Resolve(joined, joined.timeline[t].subject)
               /\ y.timeline[t].until = joined.timeline[t].until
               /\ joined.timeline[t].subject \in Ids \cup {None}
    <2>1. \A t \in DOMAIN joined.timeline : joined.timeline[t] \in Intervals
      BY <1>5 DEF IsState
    <2> HIDE DEF y
    <2> QED
      BY <1>9, <2>1 DEF Resolved, Intervals
  <1> HIDE DEF y
  <1>11. Theirs(y, h)
    <2> SUFFICES ASSUME NEW t \in DOMAIN joined.timeline
                 PROVE  /\ y.timeline[t].subject # None =>
                             /\ t \in DOMAIN h.owner /\ y.timeline[t].until \in Int
                             /\ t <= y.timeline[t].until
                        /\ t \in DOMAIN h.owner =>
                             y.timeline[t].subject \in IdsOf(h, h.owner[t])
      BY <1>10 DEF Theirs
    <2> PICK x : x = joined.timeline[t].subject
      OBVIOUS
    <2>1. x \in Ids \cup {None} /\ y.timeline[t].subject = Resolve(joined, x)
      BY <1>10
    <2>2. /\ x = None => Resolve(joined, x) = None
          /\ \A o \in Owners(h) : x \in IdsOf(h, o) => Resolve(joined, x) \in IdsOf(h, o)
      BY <1>5, <1>6, <2>1, ResolveTheirs, ResolveOwned
    <2>3. t \in DOMAIN h.owner => h.owner[t] \in Owners(h)
      BY DEF Past, Removals
    <2> QED
      BY <1>7, <1>10, <2>1, <2>2, <2>3 DEF Theirs
  <1>12. Marked(y)
    <2> SUFFICES ASSUME NEW t \in DOMAIN joined.timeline, y.timeline[t].subject \in RetiredIds
                 PROVE  \E r \in rs : r.to = y.timeline[t].subject
      BY <1>9, <1>10 DEF Marked
    <2> PICK x : x = joined.timeline[t].subject
      OBVIOUS
    <2>1. x \in Ids \cup {None} /\ y.timeline[t].subject = Resolve(joined, x)
      BY <1>10
    <2>2. x \in RetiredIds /\ Resolve(joined, x) = x
      BY <1>5, <1>6, <2>1, ResolveTheirs
    <2> QED
      BY <1>3, <1>8, <2>1, <2>2 DEF Marked
  <1>13. Follows(y, h) /\ y.retirements \subseteq h.removed
    BY <1>3, <1>6, <1>9 DEF Follows
  <1>14. z.decisions = ds /\ z.retirements = rs /\ Fits(z, h) /\ IsState(z)
    BY <1>9, <1>11, <1>12, <1>13, ReplayedFits, ReplayedKeeps
  <1> HIDE DEF z
  <1>15. m.timeline = Compact(z.timeline) /\ m.decisions = ds /\ m.retirements = rs
    BY <1>14 DEF IsState
  <1>16. /\ DOMAIN m.timeline \subseteq DOMAIN z.timeline
         /\ \A t \in DOMAIN m.timeline : m.timeline[t] = z.timeline[t]
    BY <1>15 DEF Compact
  <1> HIDE DEF m
  <1>17. Fits(m, h)
    <2>1. Follows(m, h) /\ m.retirements \subseteq h.removed
      BY <1>14, <1>15 DEF Fits, Follows
    <2>2. Theirs(m, h)
      BY <1>14, <1>16 DEF Fits, Theirs
    <2>3. Marked(m)
      BY <1>14, <1>15, <1>16 DEF Fits, Marked
    <2>4. \A r \in m.retirements : Swept(m, r)
      BY <1>14, <1>15, <1>16 DEF Fits, Swept
    <2> QED
      BY <2>1, <2>2, <2>3, <2>4 DEF Fits
  <1>18. News(remote) \subseteq News(m) /\ News(local) \subseteq News(m)
    BY <1>1, <1>15, MoreNews
  <1> QED
    BY <1>4, <1>17, <1>18

\* Who knows that an entry was removed counts what it used as the removed entry's.
LEMMA Settled ==
    ASSUME NEW h, Past(h), NEW s, Fits(s, h), NEW t \in DOMAIN s.timeline, t \in DOMAIN h.owner,
           h.owner[t] \in People, NEW r \in s.retirements, r.to = h.id[h.owner[t]]
    PROVE  s.timeline[t].subject = h.id[h.owner[t]]
  <1> PICK x : x = s.timeline[t].subject
    OBVIOUS
  <1>1. x \in IdsOf(h, h.owner[t])
    BY DEF Fits, Theirs
  <1>2. r \in h.removed /\ h.owner[t] \in People
    BY DEF Fits, Past, Removals
  <1>3. h.owner[t] = h.had[r.from]
    BY <1>2 DEF Past, Removals
  <1>4. x # r.from
    BY <1>2, <1>3 DEF Fits, Swept, Past, Removals
  <1>5. ~(x \in Names /\ h.had[x] = h.owner[t])
    BY <1>2, <1>3, <1>4 DEF Past, Removals
  <1> QED
    BY <1>1, <1>2, <1>5, Kinds DEF IdsOf

\* A later history, which explains what an earlier one did.
Grows(h, k) ==
    /\ \A i \in Ids : h.renamed[i] # None => k.renamed[i] = h.renamed[i]
    /\ h.removed \subseteq k.removed
    /\ \A i \in Names : h.had[i] \in People => k.had[i] = h.had[i]
    /\ \A p \in People : h.id[p] \in RetiredIds => k.id[p] = h.id[p]
    /\ \A t \in DOMAIN h.owner : t \in DOMAIN k.owner /\ k.owner[t] = h.owner[t]
    /\ DOMAIN k.owner \subseteq DOMAIN h.owner \cup {h.now}

LEMMA GrownFits ==
    ASSUME NEW h, Past(h), NEW k, Grows(h, k), NEW s, Fits(s, h),
           NEW owned, Sound(s, h.now, owned)
    PROVE  Fits(s, k)
  <1>1. Follows(s, k)
    BY DEF Fits, Follows, Grows
  <1>2. \A o \in Owners(h) : IdsOf(h, o) \subseteq IdsOf(k, o)
    <2>1. \A o \in People : IdsOf(h, o) \subseteq IdsOf(k, o)
      BY Kinds DEF IdsOf, Grows
    <2>2. \A q \in h.removed : IdsOf(h, q.from) \subseteq IdsOf(k, q.from)
      BY OnlyName DEF IdsOf
    <2> QED
      BY <2>1, <2>2 DEF Owners
  <1>3. ASSUME NEW t \in DOMAIN s.timeline
        PROVE  /\ t \in DOMAIN k.owner => t \in DOMAIN h.owner
               /\ t \in DOMAIN h.owner => t \in DOMAIN k.owner /\ k.owner[t] = h.owner[t]
                                          /\ h.owner[t] \in Owners(h)
    <2>1. t \in Nat /\ t < h.now
      BY DEF Sound
    <2>2. t # h.now
      BY <2>1 DEF Past, Links
    <2> QED
      BY <2>2 DEF Grows, Past, Removals
  <1>4. Theirs(s, k)
    BY <1>2, <1>3 DEF Fits, Theirs
  <1> QED
    BY <1>1, <1>4 DEF Fits, Grows

LEMMA MaxOf ==
    ASSUME NEW S \in SUBSET Nat, S # {}, NEW b \in Nat, \A x \in S : x <= b
    PROVE  Max(S) \in S /\ \A x \in S : x <= Max(S)
  <1> DEFINE T == {b - x : x \in S}
  <1>0. \A x \in S : x \in Nat /\ b - x \in Nat
    OBVIOUS
  <1>1. T \in SUBSET Nat /\ T # {}
    BY <1>0
  <1>2. PICK m \in T : \A y \in T : m <= y
    BY <1>1, Least
  <1>3. PICK x \in S : m = b - x
    BY <1>2
  <1>4. \A y \in S : x >= y
    BY <1>2, <1>3
  <1>5. \E z \in S : \A y \in S : z >= y
    BY <1>4
  <1>6. Max(S) \in S /\ \A y \in S : Max(S) >= y
    BY <1>5 DEF Max
  <1> QED
    BY <1>6

\* A decision is of now: those before it were taken earlier.
LEMMA DecidedNow ==
    ASSUME NEW h, Past(h), h.now = now, now \in Nat \ {0}, NEW s, Follows(s, h), Ids # {},
           NEW from, NEW to
    PROVE  Decide(s, from, to) = [s EXCEPT !.decisions[from] = [to |-> to, at |-> now]]
  <1> DEFINE S == {DecidedAt(s, i) : i \in Ids}
  <1>1. \A i \in Ids : DecidedAt(s, i) \in Nat /\ DecidedAt(s, i) < now
    BY DEF DecidedAt, Follows, Past, Links
  <1>2. S \in SUBSET Nat /\ S # {} /\ \A x \in S : x <= now /\ x < now
    BY <1>1
  <1>3. Max(S) \in S
    <2> HIDE DEF S
    <2> QED
      BY <1>2, MaxOf
  <1>4. LastDecision(s) \in Nat /\ LastDecision(s) + 1 <= now
    BY <1>2, <1>3 DEF LastDecision
  <1>5. Max({now, LastDecision(s) + 1}) = now
    <2> DEFINE D == {now, LastDecision(s) + 1}
    <2>1. D \in SUBSET Nat /\ D # {} /\ now \in D /\ \A x \in D : x <= now
      BY <1>4
    <2> HIDE DEF D
    <2>2. Max(D) \in D /\ now <= Max(D)
      BY <2>1, MaxOf
    <2> QED
      BY <2>1, <2>2 DEF D
  <1> QED
    BY <1>5 DEF Decide

\* No alias is released of names that stand for themselves, or for something else.
LEMMA NothingReleased ==
    ASSUME NEW s, NEW ids \in SUBSET Ids, NEW to,
           \A i \in ids : Remaps(s)[i] = None \/ (to # None /\ to # Resolve(s, i))
    PROVE  Released(s, ids, to) = s
  <1> DEFINE N == Cardinality(ids)
  <1>1. N \in Nat
    BY IdsFinite, FS_Subset, FS_CardinalityType
  <1>2. PICK order, upTo :
           /\ \A m \in 1 .. N : order[m] \in ids
           /\ Released(s, ids, to) = upTo[N]
           /\ \A m \in 0 .. N :
                 upTo[m] = IF m = 0 THEN s ELSE Release(upTo[m - 1], order[m], to)
    BY ReleasedIs
  <1> HIDE DEF N
  <1> DEFINE U == {n \in Nat : n <= N => upTo[n] = s}
  <1>3. 0 \in U
    BY <1>1, <1>2
  <1>4. ASSUME NEW n \in Nat, n \in U PROVE n + 1 \in U
    <2> SUFFICES ASSUME n + 1 <= N PROVE upTo[n + 1] = s
      OBVIOUS
    <2>1. n + 1 \in 0 .. N /\ n + 1 \in 1 .. N /\ n + 1 # 0 /\ (n + 1) - 1 = n
      BY <1>1
    <2>2. upTo[n + 1] = Release(upTo[n], order[n + 1], to) /\ order[n + 1] \in ids
      BY <1>2, <2>1
    <2>3. upTo[n] = s
      BY <1>1, <1>4
    <2> QED
      BY <2>2, <2>3 DEF Release
  <1>5. Nat \subseteq U
    <2> HIDE DEF U
    <2> QED
      BY <1>3, <1>4, Inductive
  <1> QED
    BY <1>1, <1>2, <1>5

-----------------------------------------------------------------------------
(* There always is such a history. *)

JobFits(w, i, h) ==
    LET j == job[w][i]
    IN  /\ j.pc = "wait" /\ j.local # <<>> => Fits(Head(j.local), h)
        /\ j.pc \in {"write", "adopt"} => Fits(j.merged, h)
        /\ j.pc = "write" => News(store) \subseteq News(j.merged)
        /\ j.pc = "adopt" => News(j.merged) \subseteq News(store)

Tells(w, i, x) ==
    /\ job[w][i].pc # "idle"
    /\ x \in News(IF job[w][i].pc = "wait" THEN Local(w, i) ELSE job[w][i].merged)

\* Every rename and removal is in the store or with a persist under way.
Told(h) == \A x \in Events(h) :
              x \in News(store) \/ \E w \in Windows, i \in Persists : Tells(w, i, x)

Explains(h) ==
    /\ h.id = id /\ h.had = had /\ h.owner = owner /\ h.now = now
    /\ Past(h) /\ Fits(store, h) /\ \A w \in Windows : Fits(mem[w], h)
    /\ \A w \in Windows, i \in Persists : JobFits(w, i, h)
    /\ Told(h)

LEMMA ExplainedInit == ASSUME Init PROVE \E h : Explains(h)
  <1>1. PICK p \in People, n \in Names :
           /\ id = [q \in People |-> IF q = p THEN n ELSE None]
           /\ had = [m \in Names |-> IF m = n THEN p ELSE None]
    BY DEF Init
  <1> PICK h : h = [renamed |-> [i \in Ids |-> None], removed |-> {}, id |-> id, had |-> had,
                    owner |-> owner, now |-> now]
    OBVIOUS
  <1>2. /\ h.renamed = [i \in Ids |-> None] /\ h.removed = {} /\ h.id = id /\ h.had = had
        /\ h.owner = owner /\ h.now = now
    OBVIOUS
  <1>3. DOMAIN owner = {} /\ now = 1
    BY DEF Init, NoIntervals
  <1>4. Links(h)
    BY <1>1, <1>2, <1>3 DEF Links
  <1>5. Entries(h)
    BY <1>1, <1>2, Kinds DEF Entries
  <1>6. Removals(h)
    BY <1>2, <1>3 DEF Removals
  <1>7. Fits(Empty, h)
    <2>1. /\ DOMAIN Empty.timeline = {} /\ Empty.retirements = {}
          /\ Empty.decisions = [i \in Ids |-> None]
      BY DEF Empty, NoIntervals
    <2> QED
      BY <1>2, <2>1 DEF Fits, Follows, Theirs, Marked
  <1>8. \A w \in Windows, i \in Persists : JobFits(w, i, h)
    BY DEF Init, NoJob, JobFits
  <1>9. Told(h)
    BY <1>2 DEF Told, Events
  <1>10. store = Empty /\ \A w \in Windows : mem[w] = Empty
    BY DEF Init
  <1> QED
    BY <1>2, <1>4, <1>5, <1>6, <1>7, <1>8, <1>9, <1>10 DEF Explains, Past

\* What no step of the windows changes still fits what the entries have become.
LEMMA StoredFits ==
    ASSUME UsageInv, NEW h, Explains(h), NEW k, Grows(h, k)
    PROVE  /\ Fits(store, k) /\ \A w \in Windows : Fits(mem[w], k)
           /\ \A w \in Windows, i \in Persists : JobFits(w, i, k)
  <1>1. \A s : Fits(s, h) /\ Sound(s, now, DOMAIN owner) => Fits(s, k)
    BY GrownFits DEF Explains
  <1> QED
    BY <1>1 DEF Explains, UsageInv, JobFits, JobInv

\* A persist begins, with what it is to tell.
LEMMA ExplainedPersist ==
    ASSUME UsageInv, NEW h, Explains(h), NEW k, Grows(h, k), Past(k),
           k.id = id', k.had = had', k.owner = owner', k.now = now',
           NEW w \in Windows, NEW s, Persist(w, s), Fits(s, k), News(mem[w]) \subseteq News(s),
           Events(k) \subseteq Events(h) \cup News(s)
    PROVE  Explains(k)'
  <1>1. /\ Fits(store, k) /\ \A v \in Windows : Fits(mem[v], k)
        /\ \A v \in Windows, i \in Persists : JobFits(v, i, k)
    BY StoredFits
  <1>2. lock' = lock /\ store' = store
    BY PersistIs
  <1>3. mem'[w] = s /\ \A v \in Windows : v # w => mem'[v] = mem[v]
    BY PersistIs
  <1>4. PICK n \in Persists :
           /\ job[w][n] = NoJob
           /\ job'[w][n] = [pc |-> "wait", local |-> <<>>, merged |-> None]
           /\ \A v \in Windows, i \in Persists : v # w \/ i # n => job'[v][i] = job[v][i]
    BY PersistIs
  <1>5. job'[w][n].pc = "wait" /\ job'[w][n].local = <<>> /\ job[w][n].pc = "idle"
    BY <1>4 DEF NoJob
  <1>6. \A v \in Windows : Fits(mem'[v], k)
    BY <1>1, <1>3
  <1>7. ASSUME NEW v \in Windows, NEW i \in Persists PROVE JobFits(v, i, k)'
    <2>1. CASE v = w /\ i = n
      BY <1>5, <2>1 DEF JobFits
    <2>2. CASE ~(v = w /\ i = n)
      <3>1. job'[v][i] = job[v][i] /\ JobFits(v, i, k)
        BY <1>1, <1>4, <2>2
      <3> QED
        BY <1>2, <3>1 DEF JobFits
    <2> QED
      BY <2>1, <2>2
  <1>8. Told(k)'
    <2> SUFFICES ASSUME NEW x \in Events(k), x \notin News(store)
                 PROVE  \E v \in Windows, i \in Persists : Tells(v, i, x)'
      BY <1>2 DEF Told
    <2>1. CASE x \in Events(h)
      <3>1. PICK v \in Windows, i \in Persists : Tells(v, i, x)
        BY <2>1 DEF Explains, Told
      <3>2. job'[v][i] = job[v][i]
        BY <1>4, <1>5, <3>1 DEF Tells
      <3>3. mem'[v] = mem[v] \/ (v = w /\ mem'[v] = s)
        BY <1>3
      <3>4. Tells(v, i, x)'
        BY <3>1, <3>2, <3>3 DEF Tells, Local
      <3> QED
        BY <3>4
    <2>2. CASE x \in News(s)
      <3>1. Tells(w, n, x)'
        BY <1>3, <1>5, <2>2 DEF Tells, Local
      <3> QED
        BY <3>1
    <2> QED
      BY <2>1, <2>2
  <1> QED
    BY <1>1, <1>2, <1>6, <1>7, <1>8 DEF Explains

\* What an entry that is there is called stands for itself.
LEMMA NamesEnd ==
    ASSUME NEW h, Explains(h), NEW p \in Named
    PROVE  /\ id[p] \in Names /\ id[p] \in Ids /\ h.had[id[p]] = p /\ h.renamed[id[p]] = None
           /\ \A s : IsState(s) /\ Follows(s, h) =>
                 Resolve(s, id[p]) = id[p] /\ Remaps(s)[id[p]] = None
  <1>1. p \in People /\ id[p] \in Names /\ id[p] \in Ids
    BY Kinds DEF Named
  <1>2. h.had[id[p]] = p /\ h.renamed[id[p]] = None /\ Links(h)
    BY <1>1 DEF Explains, Past, Entries
  <1> QED
    BY <1>1, <1>2, Ends

LEMMA MemState ==
    ASSUME UsageInv, NEW h, Explains(h), NEW w \in Windows
    PROVE  /\ IsState(mem[w]) /\ Sound(mem[w], now, DOMAIN owner) /\ Fits(mem[w], h)
           /\ Follows(mem[w], h)
  BY DEF UsageInv, Explains, Sound, Fits

\* Time goes on, and a selection may be recorded for an entry that is there, or for the name
\* of one that is not.
LEMMA Aged ==
    ASSUME NEW h, Past(h), NEW k, k.now \in Nat, h.now < k.now,
           k.renamed = h.renamed, k.removed = h.removed, k.id = h.id, k.had = h.had,
           DOMAIN k.owner \subseteq DOMAIN h.owner \cup {h.now},
           \A t \in DOMAIN h.owner : t \in DOMAIN k.owner /\ k.owner[t] = h.owner[t],
           \A t \in DOMAIN k.owner \ DOMAIN h.owner :
              k.owner[t] \in Owners(h) /\ (k.owner[t] \in People => h.id[k.owner[t]] \notin RetiredIds)
    PROVE  Past(k) /\ Grows(h, k)
  <1>1. h.now \in Nat
    BY DEF Past, Links
  <1>2. Links(k)
    BY <1>1 DEF Past, Links
  <1>3. Entries(k)
    BY DEF Past, Entries
  <1>4. Removals(k)
    <2>1. \A t \in DOMAIN k.owner : t \in Nat /\ k.owner[t] \in Owners(k)
      BY <1>1 DEF Past, Removals, Owners
    <2>2. ASSUME NEW r \in h.removed
          PROVE  /\ r.at < k.now
                 /\ \A t \in DOMAIN k.owner : k.owner[t] = h.had[r.from] => t <= r.at
                 /\ \A t \in DOMAIN k.owner : k.owner[t] = r.from => r.at < t
      <3>1. /\ r.at \in Nat /\ r.at < h.now /\ h.id[h.had[r.from]] = r.to /\ r.to \in RetiredIds
            /\ h.had[r.from] \in People
        BY DEF Past, Removals, Times
      <3>2. \A t \in DOMAIN h.owner : /\ h.owner[t] = h.had[r.from] => t <= r.at
                                      /\ h.owner[t] = r.from => r.at < t
        BY DEF Past, Removals
      <3>3. \A t \in DOMAIN k.owner \ DOMAIN h.owner : t = h.now /\ k.owner[t] # h.had[r.from]
        BY <3>1
      <3> QED
        BY <1>1, <3>1, <3>2, <3>3
    <2> QED
      BY <2>1, <2>2 DEF Past, Removals
  <1> QED
    BY <1>2, <1>3, <1>4 DEF Past, Grows

LEMMA RecordedIs ==
    ASSUME NEW s, IsState(s), NEW i
    PROVE  LET until == IF i = None THEN None ELSE now + Gap
           IN  /\ Recorded(s, i).decisions = s.decisions
               /\ Recorded(s, i).retirements = s.retirements
               /\ Extends(s, i) =>
                     /\ DOMAIN Recorded(s, i).timeline = DOMAIN s.timeline
                     /\ \A t \in DOMAIN s.timeline :
                           /\ Recorded(s, i).timeline[t].subject = s.timeline[t].subject
                           /\ \/ Recorded(s, i).timeline[t].until = s.timeline[t].until
                              \/ /\ Recorded(s, i).timeline[t].until = until
                                 /\ s.timeline[t].subject = i
               /\ ~Extends(s, i) =>
                     Recorded(s, i).timeline = Put(s.timeline, now, [subject |-> i, until |-> until])
  <1> DEFINE until == IF i = None THEN None ELSE now + Gap
             last == Max(DOMAIN s.timeline)
             longer == [s.timeline EXCEPT ![last].until = until]
             more == Put(s.timeline, now, [subject |-> i, until |-> until])
             With(line) == [s EXCEPT !.timeline = line]
  <1>1. Recorded(s, i) = IF Extends(s, i) THEN With(longer) ELSE With(more)
    BY DEF Recorded
  <1>2. \A line : /\ With(line).timeline = line /\ With(line).decisions = s.decisions
                  /\ With(line).retirements = s.retirements
    BY DEF IsState
  <1>3. Extends(s, i) => s.timeline[last].subject = i
    BY DEF Extends
  <1> HIDE DEF until, last, With, more
  <1>4. /\ DOMAIN longer = DOMAIN s.timeline
        /\ \A t \in DOMAIN s.timeline :
              /\ longer[t].subject = s.timeline[t].subject
              /\ longer[t].until = s.timeline[t].until \/ (longer[t].until = until /\ t = last)
    BY DEF IsState, Intervals
  <1> HIDE DEF longer
  <1>5. CASE Extends(s, i)
    BY <1>1, <1>2, <1>3, <1>4, <1>5 DEF until
  <1>6. CASE ~Extends(s, i)
    BY <1>1, <1>2, <1>6 DEF until, more
  <1> QED
    BY <1>5, <1>6

\* A selection is recorded for the entry that is selected, or for its name alone.
LEMMA RecordedFits ==
    ASSUME UsageInv, NEW h, Explains(h), NEW k, Past(k), Grows(h, k),
           NEW i \in Names \cup {None}, NEW o, i # None => i \in IdsOf(k, o),
           k.removed = h.removed,
           NEW s, IsState(s), Sound(s, now, DOMAIN owner), Fits(s, k),
           k.owner = IF i = None \/ Extends(s, i) THEN owner ELSE Put(owner, now, o)
    PROVE  /\ Fits(Recorded(s, i), k) /\ News(s) \subseteq News(Recorded(s, i))
  <1> PICK z : z = Recorded(s, i)
    OBVIOUS
  <1> PICK until : until = IF i = None THEN None ELSE now + Gap
    OBVIOUS
  <1>1. /\ z.decisions = s.decisions /\ z.retirements = s.retirements
        /\ Extends(s, i) =>
              /\ DOMAIN z.timeline = DOMAIN s.timeline
              /\ \A t \in DOMAIN s.timeline :
                    /\ z.timeline[t].subject = s.timeline[t].subject
                    /\ \/ z.timeline[t].until = s.timeline[t].until
                       \/ z.timeline[t].until = until /\ s.timeline[t].subject = i
        /\ ~Extends(s, i) =>
              z.timeline = Put(s.timeline, now, [subject |-> i, until |-> until])
    BY RecordedIs
  <1>2. now \in Nat /\ Gap \in Nat /\ \A t \in DOMAIN s.timeline : t \in Nat /\ t < now
    BY TimelineAssumption DEF UsageInv, ClockInv, Times, Sound
  <1>3. i # None => until = now + Gap
    OBVIOUS
  <1>4. i = None => until = None
    OBVIOUS
  <1>5. now \notin DOMAIN owner
    BY <1>2 DEF UsageInv, ClockInv
  <1>6. Follows(z, k) /\ z.retirements \subseteq k.removed /\ News(s) \subseteq News(z)
    BY <1>1 DEF Fits, Follows, News
  <1>7. CASE Extends(s, i)
    <2>1. Theirs(z, k)
      <3> SUFFICES ASSUME NEW t \in DOMAIN s.timeline
                   PROVE  /\ s.timeline[t].subject # None =>
                               z.timeline[t].until \in Int /\ t <= z.timeline[t].until
        BY <1>1, <1>7 DEF Fits, Theirs
      <3>1. CASE z.timeline[t].until = s.timeline[t].until
        BY <3>1 DEF Fits, Theirs
      <3>2. CASE z.timeline[t].until = until /\ s.timeline[t].subject = i
        BY <1>2, <1>3, <1>4, <3>2
      <3> QED
        BY <1>1, <1>7, <3>1, <3>2
    <2>2. Marked(z) /\ \A r \in z.retirements : Swept(z, r)
      BY <1>1, <1>7 DEF Fits, Marked, Swept
    <2> QED
      BY <1>6, <2>1, <2>2 DEF Fits
  <1>8. CASE ~Extends(s, i)
    <2>1. /\ DOMAIN z.timeline = DOMAIN s.timeline \cup {now}
          /\ z.timeline[now].subject = i /\ z.timeline[now].until = until
          /\ \A t \in DOMAIN s.timeline : z.timeline[t] = s.timeline[t]
      <3>1. \A t \in DOMAIN s.timeline : t # now
        BY <1>2
      <3> QED
        BY <1>1, <1>8, <3>1 DEF Put
    <2>2. /\ i # None => now \in DOMAIN k.owner /\ k.owner[now] = o
          /\ i = None => now \notin DOMAIN k.owner
      BY <1>5, <1>8 DEF Put
    <2>3. Theirs(z, k)
      <3>1. i # None => now <= until /\ until \in Int
        BY <1>2, <1>3
      <3> QED
        BY <1>4, <2>1, <2>2, <3>1 DEF Fits, Theirs
    <2>4. Marked(z)
      BY <1>1, <2>1, Kinds DEF Fits, Marked
    <2>5. \A r \in z.retirements : Swept(z, r)
      <3> SUFFICES ASSUME NEW r \in s.retirements PROVE ~(now <= r.at)
        BY <1>1, <2>1 DEF Fits, Swept
      <3>1. r \in h.removed /\ h.now = now
        BY DEF Fits, Explains
      <3>2. r.at \in Int /\ r.at < now
        BY <3>1 DEF Explains, Past, Removals, Times
      <3> QED
        BY <1>2, <3>2
    <2> QED
      BY <1>6, <2>3, <2>4, <2>5 DEF Fits
  <1> QED
    BY <1>6, <1>7, <1>8

\* What is recorded of an old name is its entry's, unless that was removed.
LEMMA RecordedOwner ==
    ASSUME Once, UsageInv, NEW h, Explains(h), NEW w \in Windows, NEW n \in Readable(w),
           NEW s, s = mem[w]
    PROVE  /\ n \in Names /\ had[n] \in People /\ Remember(w, s, n) = s
           /\ Resolve(s, n) \in Names /\ had[Resolve(s, n)] = had[n]
           /\ RecordedFor(n) \in Owners(h)
           /\ RecordedFor(n) \in People => id[RecordedFor(n)] \notin RetiredIds
           /\ Resolve(s, n) \in IdsOf(h, RecordedFor(n))
  <1>1. /\ n \in Names /\ had[n] # None /\ h.had = had /\ h.id = id /\ Past(h) /\ Links(h)
        /\ n \in known[w] \/ Remaps(s)[n] = None
    BY DEF Readable, Once, Explains, Past
  <1>2. had[n] \in People
    BY <1>1 DEF Past, Entries
  <1>3. Remember(w, s, n) = s
    BY <1>1 DEF Remember, ReleaseAlias
  <1>4. IsState(s) /\ Follows(s, h)
    BY MemState
  <1>5. Resolve(s, n) \in Names /\ had[Resolve(s, n)] = had[n]
    BY <1>1, <1>4, SameEntry
  <1>6. CASE id[had[n]] \notin RetiredIds
    <2>1. RecordedFor(n) = had[n]
      BY <1>6 DEF RecordedFor
    <2> QED
      BY <1>1, <1>2, <1>3, <1>5, <1>6, <2>1, Kinds DEF Owners, IdsOf
  <1>7. CASE id[had[n]] \in RetiredIds
    <2>1. RecordedFor(n) = n
      BY <1>7 DEF RecordedFor
    <2>2. PICK r \in h.removed : r.to = id[had[n]]
      BY <1>1, <1>2, <1>7 DEF Past, Entries
    <2>3. h.had[r.from] = had[n]
      BY <1>1, <1>2, <2>2 DEF Past, Removals
    <2>4. n = r.from
      BY <1>1, <2>3 DEF Past, Removals
    <2>5. Resolve(s, n) = n
      BY <1>1, <1>4, <2>4, Kinds, OnlyItself
    <2> QED
      BY <1>1, <1>2, <1>3, <2>1, <2>4, <2>5, Kinds DEF Owners, IdsOf
  <1> QED
    BY <1>6, <1>7

LEMMA ExplainedRecord ==
    ASSUME Once, UsageInv, NEW h, Explains(h), NEW w \in Windows, Record(w)
    PROVE  \E k : Explains(k)'
  <1>1. PICK n \in Readable(w) \cup {None} :
         LET s == IF n = None THEN mem[w] ELSE Remember(w, mem[w], n)
             subject == Resolve(s, n)
         IN  /\ Persist(w, Recorded(s, subject))
             /\ owner' = IF n = None \/ Extends(s, subject) THEN owner
                         ELSE Put(owner, now, RecordedFor(n))
             /\ Later
             /\ UNCHANGED <<id, had>>
    BY DEF Record
  <1> PICK s : s = mem[w]
    OBVIOUS
  <1> PICK i, o : i = Resolve(s, n) /\ o = RecordedFor(n)
    OBVIOUS
  <1>2. IsState(s) /\ Sound(s, now, DOMAIN owner) /\ Fits(s, h) /\ Follows(s, h)
    BY MemState
  <1>3. n # None => /\ Remember(w, s, n) = s /\ i \in Names /\ i # None /\ o \in Owners(h)
                    /\ (o \in People => id[o] \notin RetiredIds) /\ i \in IdsOf(h, o)
    BY RecordedOwner, Kinds
  <1>4. n = None => i = None
    BY DEF Resolve, resolveMappedId
  <1>5. /\ Persist(w, Recorded(s, i)) /\ Later /\ id' = id /\ had' = had
        /\ owner' = IF i = None \/ Extends(s, i) THEN owner ELSE Put(owner, now, o)
    <2>1. CASE n = None
      BY <1>1, <1>4, <2>1
    <2>2. CASE n # None
      BY <1>1, <1>3, <2>2
    <2> QED
      BY <2>1, <2>2
  <1> PICK k : k = [renamed |-> h.renamed, removed |-> h.removed, id |-> id, had |-> had,
                    owner |-> owner', now |-> now']
    OBVIOUS
  <1>6. /\ k.renamed = h.renamed /\ k.removed = h.removed /\ k.id = id /\ k.had = had
        /\ k.owner = owner' /\ k.now = now'
        /\ h.id = id /\ h.had = had /\ h.owner = owner /\ h.now = now /\ Past(h)
    BY DEF Explains
  <1>7. now \in Nat /\ now' \in Nat /\ now < now'
    BY <1>5 DEF Later, UsageInv, ClockInv, Times
  <1>8. i # None => /\ o \in Owners(h) /\ (o \in People => h.id[o] \notin RetiredIds)
                    /\ i \in IdsOf(k, o)
    BY <1>3, <1>4, <1>6 DEF IdsOf
  <1>9. Past(k) /\ Grows(h, k)
    <2>1. /\ DOMAIN k.owner \subseteq DOMAIN h.owner \cup {h.now}
          /\ \A t \in DOMAIN h.owner : t \in DOMAIN k.owner /\ k.owner[t] = h.owner[t]
          /\ \A t \in DOMAIN k.owner \ DOMAIN h.owner :
                /\ k.owner[t] \in Owners(h)
                /\ k.owner[t] \in People => h.id[k.owner[t]] \notin RetiredIds
      <3>1. now \notin DOMAIN owner
        BY <1>7 DEF UsageInv, ClockInv
      <3> QED
        BY <1>5, <1>6, <1>8, <3>1 DEF Put
    <2> QED
      BY <1>6, <1>7, <2>1, Aged
  <1>10. Fits(s, k)
    BY <1>9, StoredFits
  <1>11. Fits(Recorded(s, i), k) /\ News(s) \subseteq News(Recorded(s, i))
    BY <1>2, <1>3, <1>4, <1>5, <1>6, <1>8, <1>9, <1>10, RecordedFits
  <1>12. Events(k) \subseteq Events(h)
    BY <1>6 DEF Events
  <1>13. Explains(k)'
    BY <1>5, <1>6, <1>9, <1>11, <1>12, ExplainedPersist
  <1> QED
    BY <1>13

\* What a window loads stays as it was stored: no name stands for another.
LEMMA ExplainedRestart ==
    ASSUME UsageInv, NEW h, Explains(h), NEW w \in Windows, Restart(w)
    PROVE  \E k : Explains(k)'
  <1> PICK loaded : loaded = [store EXCEPT !.timeline =
           IF \E i \in Taken : Remaps(store)[i] # None THEN Resolved(store) ELSE @]
    OBVIOUS
  <1>1. /\ mem' = [mem EXCEPT ![w] = Released(loaded, Taken, None)]
        /\ Later /\ UNCHANGED <<job, lock, store, id, had, owner>>
        /\ \A i \in Persists : job[w][i].pc = "idle"
    BY DEF Restart
  <1>2. IsState(store) /\ Follows(store, h)
    BY DEF UsageInv, Sound, Explains, Fits
  <1>3. \A i \in Taken : i \in Ids /\ Remaps(store)[i] = None
    BY <1>2, NamesEnd DEF Taken
  <1>4. loaded = store
    BY <1>2, <1>3 DEF IsState
  <1>5. Released(store, Taken, None) = store
    <2>1. Taken \in SUBSET Ids
      BY <1>3
    <2> QED
      BY <1>3, <2>1, NothingReleased
  <1>6. mem'[w] = store /\ \A v \in Windows : v # w => mem'[v] = mem[v]
    BY <1>1, <1>4, <1>5 DEF UsageInv, Shapes
  <1> PICK k : k = [renamed |-> h.renamed, removed |-> h.removed, id |-> id, had |-> had,
                    owner |-> owner, now |-> now']
    OBVIOUS
  <1>7. /\ k.renamed = h.renamed /\ k.removed = h.removed /\ k.id = id /\ k.had = had
        /\ k.owner = owner /\ k.now = now'
        /\ h.id = id /\ h.had = had /\ h.owner = owner /\ h.now = now /\ Past(h)
    BY DEF Explains
  <1>8. now \in Nat /\ now' \in Nat /\ now < now'
    BY <1>1 DEF Later, UsageInv, ClockInv, Times
  <1>9. Past(k) /\ Grows(h, k)
    <2>1. /\ DOMAIN k.owner \subseteq DOMAIN h.owner \cup {h.now}
          /\ \A t \in DOMAIN h.owner : t \in DOMAIN k.owner /\ k.owner[t] = h.owner[t]
          /\ DOMAIN k.owner \ DOMAIN h.owner = {}
      BY <1>7
    <2> QED
      BY <1>7, <1>8, <2>1, Aged
  <1>10. /\ Fits(store, k) /\ \A v \in Windows : Fits(mem[v], k)
         /\ \A v \in Windows, i \in Persists : JobFits(v, i, k)
    BY <1>9, StoredFits
  <1>11. \A v \in Windows, i \in Persists : JobFits(v, i, k)'
    BY <1>1, <1>10 DEF JobFits
  <1>12. Told(k)'
    <2>1. ASSUME NEW v \in Windows, NEW i \in Persists, NEW x, Tells(v, i, x)
          PROVE  Tells(v, i, x)'
      BY <1>1, <1>6, <2>1 DEF Tells, Local
    <2>2. Events(k) = Events(h)
      BY <1>7 DEF Events
    <2> QED
      BY <1>1, <2>1, <2>2 DEF Explains, Told
  <1>13. \A v \in Windows : Fits(mem'[v], k)
    BY <1>6, <1>10
  <1>14. Explains(k)'
    BY <1>1, <1>7, <1>9, <1>10, <1>11, <1>12, <1>13 DEF Explains
  <1> QED
    BY <1>14

LEMMA RemovedIs ==
    ASSUME NEW h, Past(h), NEW r \in h.removed
    PROVE  /\ r.from \in Names /\ r.to \in RetiredIds /\ r.at \in Times /\ r.at < h.now
           /\ h.id[h.had[r.from]] = r.to /\ h.had[r.from] \in People
           /\ \A p \in People : h.id[p] = r.to <=> p = h.had[r.from]
           /\ \A i \in Names : h.had[i] = h.had[r.from] => i = r.from
           /\ \A t \in DOMAIN h.owner : h.owner[t] = h.had[r.from] => t <= r.at
           /\ \A t \in DOMAIN h.owner : h.owner[t] = r.from => r.at < t
           /\ \A q \in h.removed : q.at = r.at => q = r
  BY DEF Past, Removals

\* A name that may be given has not been an entry's.
LEMMA FreeName ==
    ASSUME Once, NEW h, Explains(h), NEW n \in Names, Free(n)
    PROVE  /\ n \in Ids /\ had[n] = None /\ h.renamed[n] = None /\ n \notin Taken
           /\ \A i \in Ids : h.renamed[i] # None => h.renamed[i].to # n /\ i # n
           /\ \A r \in h.removed : r.from # n
           /\ \A p \in People : id[p] # n
  <1>1. had[n] = None /\ n \notin Taken /\ n \in Ids
    BY Kinds DEF Free, Once
  <1>2. \A i \in Ids : h.renamed[i] # None =>
           h.had[i] \in People /\ h.had[h.renamed[i].to] \in People
    BY DEF Explains, Past, Links
  <1>3. \A r \in h.removed : h.had[r.from] \in People
    BY DEF Explains, Past, Removals
  <1>4. \A p \in People : id[p] # n
    BY <1>1 DEF Taken, Named
  <1> QED
    BY <1>1, <1>2, <1>3, <1>4, Kinds DEF Explains

\* A new entry has a name of its own.
LEMMA ExplainedAdd ==
    ASSUME Once, UsageInv, NEW h, Explains(h), NEW p \in People, Add(p)
    PROVE  \E k : Explains(k)'
  <1>1. PICK n \in Names :
           /\ Free(n) /\ id[p] = None
           /\ id' = [id EXCEPT ![p] = n] /\ had' = [had EXCEPT ![n] = p]
           /\ UNCHANGED <<mem, known, job, lock, store, now, owner>>
    BY DEF Add
  <1> PICK k : k = [renamed |-> h.renamed, removed |-> h.removed, id |-> id', had |-> had',
                    owner |-> owner, now |-> now]
    OBVIOUS
  <1>2. /\ k.renamed = h.renamed /\ k.removed = h.removed /\ k.id = id' /\ k.had = had'
        /\ k.owner = owner /\ k.now = now
        /\ h.id = id /\ h.had = had /\ h.owner = owner /\ h.now = now /\ Past(h)
    BY DEF Explains
  <1>3. /\ had[n] = None /\ h.renamed[n] = None /\ n \notin Taken
        /\ \A i \in Ids : h.renamed[i] # None => h.renamed[i].to # n /\ i # n
        /\ \A r \in h.removed : r.from # n
        /\ \A q \in People : id[q] # n
    BY <1>1, FreeName
  <1>4. /\ id'[p] = n /\ \A q \in People : q # p => id'[q] = id[q]
        /\ had'[n] = p /\ \A m \in Names : m # n => had'[m] = had[m]
        /\ id' = [q \in People |-> id'[q]] /\ had' = [m \in Names |-> had'[m]]
    BY <1>1, <1>2 DEF Past, Links, Entries
  <1>5. Links(k)
    BY <1>2, <1>3, <1>4 DEF Past, Links
  <1>6. Entries(k)
    <2>1. \A q \in People :
             /\ k.id[q] \in Ids \cup {None}
             /\ k.id[q] \in Names => k.had[k.id[q]] = q /\ k.renamed[k.id[q]] = None
             /\ k.id[q] \in RetiredIds => \E r \in k.removed : r.to = k.id[q]
      BY <1>2, <1>3, <1>4, Kinds DEF Past, Entries
    <2>2. \A i \in Names : k.had[i] # None =>
             /\ k.had[i] \in People
             /\ k.id[k.had[i]] = i \/ k.renamed[i] # None \/ k.id[k.had[i]] \in RetiredIds
      BY <1>1, <1>2, <1>3, <1>4, Kinds DEF Past, Entries
    <2> QED
      BY <1>2, <1>4, <2>1, <2>2 DEF Entries
  <1>7. Removals(k)
    <2>1. ASSUME NEW r \in h.removed
          PROVE  /\ k.had[r.from] = h.had[r.from] /\ k.had[r.from] # p
                 /\ \A q \in People : k.id[q] = r.to <=> q = k.had[r.from]
                 /\ \A i \in Names : k.had[i] = k.had[r.from] => i = r.from
      <3>1. /\ r.from \in Names /\ r.from # n /\ r.to \in RetiredIds
            /\ h.id[h.had[r.from]] = r.to /\ h.had[r.from] \in People
        BY <1>2, <1>3, RemovedIs
      <3>2. h.had[r.from] # p
        BY <1>1, <1>2, <3>1, Kinds
      <3>3. \A q \in People : k.id[q] = r.to <=> q = k.had[r.from]
        BY <1>2, <1>4, <3>1, <3>2, Kinds DEF Past, Removals
      <3>4. \A i \in Names : k.had[i] = k.had[r.from] => i = r.from
        BY <1>2, <1>4, <3>1, <3>2 DEF Past, Removals
      <3> QED
        BY <1>2, <1>4, <3>1, <3>2, <3>3, <3>4
    <2>2. \A t \in DOMAIN k.owner : t \in Nat /\ k.owner[t] \in Owners(k)
      BY <1>2 DEF Past, Removals, Owners
    <2> QED
      BY <1>2, <2>1, <2>2 DEF Past, Removals
  <1>8. Grows(h, k)
    BY <1>1, <1>2, <1>3, <1>4, Kinds DEF Grows
  <1>9. Past(k)
    BY <1>5, <1>6, <1>7 DEF Past
  <1>10. /\ Fits(store, k) /\ \A v \in Windows : Fits(mem[v], k)
         /\ \A v \in Windows, i \in Persists : JobFits(v, i, k)
    BY <1>8, StoredFits
  <1>11. \A v \in Windows, i \in Persists : JobFits(v, i, k)'
    BY <1>1, <1>10 DEF JobFits
  <1>12. Told(k)'
    <2>1. ASSUME NEW v \in Windows, NEW i \in Persists, NEW x, Tells(v, i, x)
          PROVE  Tells(v, i, x)'
      BY <1>1, <2>1 DEF Tells, Local
    <2>2. Events(k) = Events(h)
      BY <1>2 DEF Events
    <2> QED
      BY <1>1, <2>1, <2>2 DEF Explains, Told
  <1>13. Explains(k)'
    BY <1>1, <1>2, <1>9, <1>10, <1>11, <1>12 DEF Explains
  <1> QED
    BY <1>13

LEMMA RenamedPast ==
    ASSUME Once, UsageInv, NEW h, Explains(h), NEW p \in Named, NEW n \in Names, Free(n),
           id' = [id EXCEPT ![p] = n], had' = [had EXCEPT ![n] = p], Later, NEW k,
           k.renamed = [h.renamed EXCEPT ![id[p]] = [to |-> n, at |-> now]],
           k.removed = h.removed, k.id = id', k.had = had', k.owner = owner, k.now = now'
    PROVE  Past(k) /\ Grows(h, k)
  <1> PICK old : old = id[p]
    OBVIOUS
  <1>1. h.id = id /\ h.had = had /\ h.owner = owner /\ h.now = now /\ Past(h)
    BY DEF Explains
  <1>2. /\ n \in Ids /\ had[n] = None /\ h.renamed[n] = None /\ n \notin Taken
        /\ \A i \in Ids : h.renamed[i] # None => h.renamed[i].to # n /\ i # n
        /\ \A r \in h.removed : r.from # n
        /\ \A q \in People : id[q] # n
    BY FreeName
  <1>3. /\ p \in People /\ old \in Names /\ old \in Ids /\ had[old] = p /\ h.renamed[old] = None
        /\ old # n
    BY <1>1, <1>2, NamesEnd DEF Named
  <1>4. /\ id'[p] = n /\ \A q \in People : q # p => id'[q] = id[q]
        /\ had'[n] = p /\ \A m \in Names : m # n => had'[m] = had[m]
        /\ id' = [q \in People |-> id'[q]] /\ had' = [m \in Names |-> had'[m]]
    BY <1>1, <1>3 DEF Past, Links, Entries
  <1>5. now \in Nat /\ now' = now + 2
    BY DEF Later, UsageInv, ClockInv, Times
  <1>6. PICK new : new = [to |-> n, at |-> now]
    OBVIOUS
  <1>7. new \in [to : Names, at : Nat] /\ new # None /\ new.to = n /\ new.at = now
    BY <1>5, <1>6, TimelineAssumption
  <1>8. /\ k.renamed[old] = new /\ \A i \in Ids : i # old => k.renamed[i] = h.renamed[i]
        /\ k.renamed = [i \in Ids |-> k.renamed[i]]
    BY <1>1, <1>3, <1>6 DEF Past, Links
  <1>9. Links(k)
    <2> SUFFICES ASSUME NEW i \in Ids, k.renamed[i] # None
                 PROVE  LET next == k.renamed[i].to
                        IN  /\ i \in Names /\ next \in Names
                            /\ k.renamed[i] \in [to : Names, at : Nat] /\ k.renamed[i].at < k.now
                            /\ k.had[i] \in People /\ k.had[next] = k.had[i]
                            /\ k.renamed[next] # None => k.renamed[i].at < k.renamed[next].at
      BY <1>4, <1>5, <1>8 DEF Links
    <2>1. CASE i = old
      BY <1>2, <1>3, <1>4, <1>5, <1>7, <1>8, <2>1
    <2>2. CASE i # old
      <3> PICK next : next = h.renamed[i].to
        OBVIOUS
      <3>1. k.renamed[i] = h.renamed[i] /\ h.renamed[i] # None
        BY <1>8, <2>2
      <3>2. /\ i \in Names /\ next \in Names /\ h.renamed[i] \in [to : Names, at : Nat]
            /\ h.renamed[i].at < h.now /\ h.renamed[i].at \in Nat
            /\ h.had[i] \in People /\ h.had[next] = h.had[i]
            /\ h.renamed[next] # None => h.renamed[i].at < h.renamed[next].at
        BY <1>1, <3>1 DEF Past, Links
      <3>3. i # n /\ next # n /\ next \in Ids
        BY <1>2, <3>1, <3>2, Kinds
      <3>4. k.renamed[next] # None => k.renamed[i].at < k.renamed[next].at
        <4>1. CASE next = old
          BY <1>1, <1>7, <1>8, <3>1, <3>2, <4>1
        <4>2. CASE next # old
          BY <1>8, <3>1, <3>2, <3>3, <4>2
        <4> QED
          BY <4>1, <4>2
      <3>5. k.had[i] = h.had[i] /\ k.had[next] = h.had[next]
        BY <1>1, <1>4, <3>2, <3>3
      <3> QED
        BY <1>1, <1>5, <3>1, <3>2, <3>4, <3>5
    <2> QED
      BY <2>1, <2>2
  <1>10. Entries(k)
    <2>1. ASSUME NEW q \in People
          PROVE  /\ k.id[q] \in Ids \cup {None}
                 /\ k.id[q] \in Names => k.had[k.id[q]] = q /\ k.renamed[k.id[q]] = None
                 /\ k.id[q] \in RetiredIds => \E r \in k.removed : r.to = k.id[q]
      <3>1. CASE q = p
        BY <1>2, <1>3, <1>4, <1>8, <3>1, Kinds
      <3>2. CASE q # p
        <4>1. k.id[q] = id[q]
          BY <1>4, <3>2
        <4>2. id[q] \in Names => h.had[id[q]] = q /\ h.renamed[id[q]] = None
          BY <1>1 DEF Past, Entries
        <4>3. id[q] \in Names => id[q] # old /\ id[q] # n
          BY <1>1, <1>2, <1>3, <3>2, <4>2
        <4>4. id[q] \in Names => k.had[id[q]] = q /\ k.renamed[id[q]] = None
          BY <1>1, <1>4, <1>8, <4>2, <4>3, Kinds
        <4> QED
          BY <1>1, <4>1, <4>4 DEF Past, Entries
      <3> QED
        BY <3>1, <3>2
    <2>2. ASSUME NEW i \in Names, k.had[i] # None
          PROVE  /\ k.had[i] \in People
                 /\ k.id[k.had[i]] = i \/ k.renamed[i] # None \/ k.id[k.had[i]] \in RetiredIds
      <3>1. CASE i = n
        BY <1>3, <1>4, <3>1
      <3>2. CASE i # n
        <4>1. k.had[i] = h.had[i] /\ h.had[i] # None
          BY <1>1, <1>4, <2>2, <3>2
        <4>2. /\ h.had[i] \in People
              /\ id[h.had[i]] = i \/ h.renamed[i] # None \/ id[h.had[i]] \in RetiredIds
          BY <1>1, <4>1 DEF Past, Entries
        <4>3. i = old => k.renamed[i] # None
          BY <1>7, <1>8
        <4>4. i # old => k.renamed[i] = h.renamed[i]
          BY <1>8, Kinds
        <4>5. h.had[i] = p => i = old \/ h.renamed[i] # None
          BY <1>3, <4>2, Kinds
        <4> QED
          BY <1>4, <4>1, <4>2, <4>3, <4>4, <4>5
      <3> QED
        BY <3>1, <3>2
    <2> QED
      BY <1>4, <2>1, <2>2 DEF Entries
  <1>11. Removals(k)
    <2>1. ASSUME NEW r \in h.removed
          PROVE  /\ k.had[r.from] = h.had[r.from] /\ k.had[r.from] # p /\ r.at < k.now
                 /\ \A q \in People : k.id[q] = r.to <=> q = k.had[r.from]
                 /\ \A i \in Names : k.had[i] = k.had[r.from] => i = r.from
      <3>1. /\ r.from \in Names /\ r.from # n /\ r.to \in RetiredIds /\ r.at \in Times
            /\ r.at < h.now
            /\ h.id[h.had[r.from]] = r.to /\ h.had[r.from] \in People
            /\ \A q \in People : h.id[q] = r.to <=> q = h.had[r.from]
            /\ \A i \in Names : h.had[i] = h.had[r.from] => i = r.from
        BY <1>1, <1>2, RemovedIs
      <3>2. h.had[r.from] # p
        BY <1>1, <1>3, <3>1, Kinds
      <3>3. \A q \in People : k.id[q] = r.to <=> q = k.had[r.from]
        BY <1>1, <1>4, <3>1, <3>2, Kinds
      <3>4. \A i \in Names : k.had[i] = k.had[r.from] => i = r.from
        BY <1>1, <1>4, <3>1, <3>2
      <3> QED
        BY <1>1, <1>4, <1>5, <3>1, <3>2, <3>3, <3>4 DEF Times
    <2>2. \A t \in DOMAIN k.owner : t \in Nat /\ k.owner[t] \in Owners(k)
      BY <1>1 DEF Past, Removals, Owners
    <2> QED
      BY <1>1, <2>1, <2>2 DEF Past, Removals
  <1>12. Grows(h, k)
    <2>1. \A i \in Ids : h.renamed[i] # None => k.renamed[i] = h.renamed[i]
      BY <1>3, <1>8
    <2>2. \A i \in Names : h.had[i] \in People => k.had[i] = h.had[i]
      BY <1>1, <1>2, <1>4, Kinds
    <2>3. \A q \in People : h.id[q] \in RetiredIds => k.id[q] = h.id[q]
      BY <1>1, <1>3, <1>4, Kinds
    <2> QED
      BY <1>1, <2>1, <2>2, <2>3 DEF Grows
  <1> QED
    BY <1>9, <1>10, <1>11, <1>12 DEF Past

\* A rename decides for the name that was, and gives its intervals to the new one.
LEMMA RemappedIs ==
    ASSUME Once, UsageInv, NEW h, Explains(h), NEW p \in Named, NEW n \in Names, Free(n),
           NEW w, NEW s, IsState(s), Follows(s, h)
    PROVE  LET z == Remapped(w, s, id[p], n)
           IN  /\ z.decisions = [s.decisions EXCEPT ![id[p]] = [to |-> n, at |-> now]]
               /\ z.retirements = s.retirements
               /\ z.timeline = [t \in DOMAIN s.timeline |->
                                  IF Resolve(s, s.timeline[t].subject) = id[p]
                                  THEN [s.timeline[t] EXCEPT !.subject = n] ELSE s.timeline[t]]
  <1> DEFINE line == [t \in DOMAIN s.timeline |->
                        IF Resolve(s, s.timeline[t].subject) = id[p]
                        THEN [s.timeline[t] EXCEPT !.subject = n] ELSE s.timeline[t]]
             moved == [s EXCEPT !.timeline = line]
             new == [to |-> n, at |-> now]
  <1>1. n \in Ids /\ h.renamed[n] = None /\ \A q \in People : id[q] # n
    BY FreeName
  <1>2. Resolve(s, n) = n /\ Remaps(s)[n] = None
    BY <1>1, Ends DEF Explains, Past
  <1>3. Resolve(s, id[p]) = id[p] /\ id[p] # n
    BY <1>1, NamesEnd DEF Named
  <1>4. Remember(w, ReleaseAlias(s, n), n) = s
    BY <1>2 DEF Remember, ReleaseAlias
  <1>5. Remapped(w, s, id[p], n) = Decide(moved, id[p], n)
    BY <1>2, <1>3, <1>4 DEF Remapped
  <1> HIDE DEF line
  <1>6. moved = [timeline |-> line, decisions |-> s.decisions, retirements |-> s.retirements]
    BY DEF IsState
  <1> HIDE DEF moved
  <1>7. Follows(moved, h) /\ moved.decisions = s.decisions
    BY <1>6 DEF Follows
  <1>8. now \in Nat \ {0} /\ h.now = now /\ Past(h) /\ Ids # {}
    BY <1>1 DEF UsageInv, ClockInv, Times, Explains
  <1>9. Decide(moved, id[p], n) = [moved EXCEPT !.decisions[id[p]] = new]
    BY <1>7, <1>8, DecidedNow
  <1> HIDE DEF new
  <1>10. [moved EXCEPT !.decisions[id[p]] = new] =
            [timeline |-> line, decisions |-> [s.decisions EXCEPT ![id[p]] = new],
             retirements |-> s.retirements]
    BY <1>6
  <1> QED
    BY <1>5, <1>9, <1>10 DEF line, new

LEMMA ExplainedRename ==
    ASSUME Once, UsageInv, NEW h, Explains(h), NEW w \in Windows, NEW p \in People, Rename(w, p)
    PROVE  \E k : Explains(k)'
  <1>1. PICK n \in Names :
           /\ Free(n) /\ Persist(w, Remapped(w, mem[w], id[p], n))
           /\ id' = [id EXCEPT ![p] = n] /\ had' = [had EXCEPT ![n] = p]
    BY DEF Rename
  <1>2. p \in Named /\ Later /\ owner' = owner
    BY DEF Rename
  <1>5. IsState(mem[w]) /\ Fits(mem[w], h) /\ Follows(mem[w], h)
        /\ Sound(mem[w], now, DOMAIN owner)
    BY MemState
  <1>0. LET z == Remapped(w, mem[w], id[p], n)
         IN  /\ z.decisions = [mem[w].decisions EXCEPT ![id[p]] = [to |-> n, at |-> now]]
             /\ z.retirements = mem[w].retirements
             /\ z.timeline = [t \in DOMAIN mem[w].timeline |->
                               IF Resolve(mem[w], mem[w].timeline[t].subject) = id[p]
                               THEN [mem[w].timeline[t] EXCEPT !.subject = n]
                               ELSE mem[w].timeline[t]]
    <2>1. Free(n)
      BY <1>1
    <2> QED
      BY <1>2, <1>5, <2>1, RemappedIs
  <1> PICK s, z, old : s = mem[w] /\ z = Remapped(w, s, id[p], n) /\ old = id[p]
    OBVIOUS
  <1> PICK new : new = [to |-> n, at |-> now]
    OBVIOUS
  <1> PICK k : k = [renamed |-> [h.renamed EXCEPT ![old] = new], removed |-> h.removed,
                    id |-> id', had |-> had', owner |-> owner, now |-> now']
    OBVIOUS
  <1>3. /\ k.renamed = [h.renamed EXCEPT ![old] = new] /\ k.removed = h.removed
        /\ k.id = id' /\ k.had = had' /\ k.owner = owner /\ k.now = now'
    OBVIOUS
  <1>4. Past(k) /\ Grows(h, k)
    BY <1>1, <1>2, <1>3, RenamedPast
  <1>6. Fits(s, k)
    BY <1>4, StoredFits
  <1>7. /\ z.decisions = [s.decisions EXCEPT ![old] = new] /\ z.retirements = s.retirements
        /\ z.timeline = [t \in DOMAIN s.timeline |->
                           IF Resolve(s, s.timeline[t].subject) = old
                           THEN [s.timeline[t] EXCEPT !.subject = n] ELSE s.timeline[t]]
    BY <1>0
  <1>8. old \in Names /\ old \in Ids /\ h.had[old] = p /\ h.renamed[old] = None
    BY <1>2, NamesEnd
  <1>9. new # None
    <2>1. new \in [to : Names, at : Nat]
      BY DEF UsageInv, ClockInv, Times
    <2> QED
      BY <2>1, TimelineAssumption
  <1>10. /\ \A i \in Ids : i # old => z.decisions[i] = s.decisions[i]
         /\ z.decisions[old] = new /\ k.renamed[old] = new
         /\ \A i \in Ids : i # old => k.renamed[i] = h.renamed[i]
    BY <1>3, <1>5, <1>7, <1>8 DEF IsState, Explains, Past, Links
  <1>11. Follows(z, k) /\ z.retirements \subseteq k.removed
    BY <1>6, <1>7, <1>10 DEF Fits, Follows
  <1>12. had'[n] = p /\ n \notin RetiredIds /\ \A r \in h.removed : r.from # n
    BY <1>1, FreeName, Kinds DEF Explains, Past, Links
  <1>13. ASSUME NEW t \in DOMAIN s.timeline
         PROVE  \/ z.timeline[t] = s.timeline[t]
                \/ /\ z.timeline[t].subject = n /\ z.timeline[t].until = s.timeline[t].until
                   /\ s.timeline[t].subject \in Names /\ h.had[s.timeline[t].subject] = p
    <2>1. s.timeline[t] \in Intervals /\ s.timeline[t].subject \in Ids \cup {None}
      BY <1>5, SubjectType DEF IsState
    <2>2. CASE Resolve(s, s.timeline[t].subject) = old
      <3>1. s.timeline[t].subject \in Names /\ h.had[s.timeline[t].subject] = p
        BY <1>5, <1>8, <2>1, <2>2, ResolveTheirs DEF Explains
      <3> QED
        BY <1>7, <2>1, <2>2, <3>1 DEF Intervals
    <2>3. CASE Resolve(s, s.timeline[t].subject) # old
      BY <1>7, <2>3
    <2> QED
      BY <2>2, <2>3
  <1>14. Theirs(z, k)
    <2> SUFFICES ASSUME NEW t \in DOMAIN s.timeline
                 PROVE  /\ z.timeline[t].subject # None =>
                             /\ t \in DOMAIN k.owner /\ z.timeline[t].until \in Int
                             /\ t <= z.timeline[t].until
                        /\ t \in DOMAIN k.owner =>
                             z.timeline[t].subject \in IdsOf(k, k.owner[t])
      BY <1>7 DEF Theirs
    <2>1. CASE z.timeline[t] = s.timeline[t]
      BY <1>6, <2>1 DEF Fits, Theirs
    <2>2. CASE /\ z.timeline[t].subject = n /\ z.timeline[t].until = s.timeline[t].until
               /\ s.timeline[t].subject \in Names /\ h.had[s.timeline[t].subject] = p
      <3>1. /\ t \in DOMAIN h.owner /\ s.timeline[t].until \in Int /\ t <= s.timeline[t].until
            /\ s.timeline[t].subject \in IdsOf(h, h.owner[t])
        BY <1>5, <2>2, Kinds DEF Fits, Theirs
      <3>2. h.owner[t] = p /\ k.owner = h.owner
        BY <1>3, <1>8, <2>2, <3>1, OwnedName DEF Explains, Past, Removals
      <3>3. n \in IdsOf(k, p)
        BY <1>3, <1>12, Kinds DEF IdsOf
      <3> QED
        BY <2>2, <3>1, <3>2, <3>3
    <2> QED
      BY <1>13, <2>1, <2>2
  <1>15. Marked(z)
    <2>1. DOMAIN z.timeline = DOMAIN s.timeline
      BY <1>7
    <2> QED
      BY <1>6, <1>7, <1>12, <1>13, <2>1 DEF Fits, Marked
  <1>16. ASSUME NEW r \in z.retirements PROVE Swept(z, r)
    <2>1. DOMAIN z.timeline = DOMAIN s.timeline /\ r.from # n /\ Swept(s, r)
      BY <1>3, <1>6, <1>7, <1>12 DEF Fits
    <2> QED
      BY <1>13, <2>1 DEF Swept
  <1>17. Fits(z, k)
    BY <1>11, <1>14, <1>15, <1>16 DEF Fits
  <1>18. News(s) \subseteq News(z)
    <2>1. s.retirements \subseteq z.retirements
      BY <1>7
    <2>2. \A i \in Ids : s.decisions[i] # None => z.decisions[i] # None
      BY <1>9, <1>10
    <2> QED
      BY <2>1, <2>2, MoreNews
  <1>19. Events(k) \subseteq Events(h) \cup News(z)
    <2>1. \A i \in Ids : k.renamed[i] # None => h.renamed[i] # None \/ i = old
      BY <1>10
    <2>2. <<"renamed", old>> \in News(z)
      BY <1>8, <1>9, <1>10 DEF News
    <2> QED
      BY <1>3, <2>1, <2>2 DEF Events
  <1>20. Persist(w, z)
    BY <1>1
  <1>21. Explains(k)'
    BY <1>2, <1>3, <1>4, <1>17, <1>18, <1>19, <1>20, ExplainedPersist
  <1> QED
    BY <1>21

LEMMA RetiredPast ==
    ASSUME UsageInv, NEW h, Explains(h), NEW p \in Named, NEW to \in RetiredIds,
           \A q \in People : id[q] # to, Cardinality({n \in Names : had[n] = p}) = 1,
           id' = [id EXCEPT ![p] = to], Later, NEW k,
           k.renamed = h.renamed,
           k.removed = h.removed \cup {[from |-> id[p], to |-> to, at |-> now]},
           k.id = id', k.had = had, k.owner = owner, k.now = now'
    PROVE  Past(k) /\ Grows(h, k)
  <1> PICK old : old = id[p]
    OBVIOUS
  <1> PICK new : new = [from |-> old, to |-> to, at |-> now]
    OBVIOUS
  <1>1. h.id = id /\ h.had = had /\ h.owner = owner /\ h.now = now /\ Past(h)
    BY DEF Explains
  <1>2. p \in People /\ old \in Names /\ old \in Ids /\ had[old] = p /\ h.renamed[old] = None
    BY <1>1, NamesEnd DEF Named
  <1>3. \A i \in Names : had[i] = p => i = old
    <2> DEFINE S == {n \in Names : had[n] = p}
    <2>1. IsFiniteSet(S)
      BY TimelineAssumption, FS_Subset
    <2>2. PICK x : S = {x}
      BY <2>1, FS_Singleton
    <2> QED
      BY <1>2, <2>2
  <1>4. /\ id'[p] = to /\ (\A q \in People : q # p => id'[q] = id[q])
        /\ id' = [q \in People |-> id'[q]]
    BY <1>1, <1>2 DEF Past, Entries
  <1>5. now \in Nat /\ now \in Times /\ now' = now + 2
    BY DEF Later, UsageInv, ClockInv, Times
  <1>6. /\ new.from = old /\ new.to = to /\ new.at = now
        /\ k.removed = h.removed \cup {new}
    OBVIOUS
  <1>7. Links(k)
    BY <1>1, <1>5 DEF Past, Links
  <1>8. Entries(k)
    <2>1. ASSUME NEW q \in People
          PROVE  /\ k.id[q] \in Ids \cup {None}
                 /\ k.id[q] \in Names => k.had[k.id[q]] = q /\ k.renamed[k.id[q]] = None
                 /\ k.id[q] \in RetiredIds => \E r \in k.removed : r.to = k.id[q]
      <3>1. CASE q = p
        BY <1>4, <1>6, <3>1, Kinds
      <3>2. CASE q # p
        <4>1. k.id[q] = h.id[q]
          BY <1>1, <1>4, <3>2
        <4> QED
          BY <1>1, <1>6, <4>1 DEF Past, Entries
      <3> QED
        BY <3>1, <3>2
    <2>2. ASSUME NEW i \in Names, k.had[i] # None
          PROVE  /\ k.had[i] \in People
                 /\ k.id[k.had[i]] = i \/ k.renamed[i] # None \/ k.id[k.had[i]] \in RetiredIds
      <3>1. /\ h.had[i] \in People
            /\ h.id[h.had[i]] = i \/ h.renamed[i] # None \/ h.id[h.had[i]] \in RetiredIds
        BY <1>1, <2>2 DEF Past, Entries
      <3> QED
        BY <1>1, <1>4, <3>1
    <2> QED
      BY <1>4, <2>1, <2>2 DEF Entries
  <1>9. Removals(k)
    <2>1. ASSUME NEW r \in h.removed
          PROVE  /\ r.from \in Names /\ r.to \in RetiredIds /\ r.at \in Times /\ r.at < k.now
                 /\ k.had[r.from] \in People
                 /\ \A q \in People : k.id[q] = r.to <=> q = k.had[r.from]
                 /\ \A i \in Names : k.had[i] = k.had[r.from] => i = r.from
                 /\ \A t \in DOMAIN k.owner : k.owner[t] = k.had[r.from] => t <= r.at
                 /\ \A t \in DOMAIN k.owner : k.owner[t] = r.from => r.at < t
                 /\ \A q \in k.removed : q.at = r.at => q = r
      <3>1. /\ r.from \in Names /\ r.to \in RetiredIds /\ r.at \in Times /\ r.at < h.now
            /\ h.id[h.had[r.from]] = r.to /\ h.had[r.from] \in People
            /\ \A q \in People : h.id[q] = r.to <=> q = h.had[r.from]
            /\ \A i \in Names : h.had[i] = h.had[r.from] => i = r.from
            /\ \A t \in DOMAIN h.owner : h.owner[t] = h.had[r.from] => t <= r.at
            /\ \A t \in DOMAIN h.owner : h.owner[t] = r.from => r.at < t
            /\ \A q \in h.removed : q.at = r.at => q = r
        BY <1>1, RemovedIs
      <3>2. h.had[r.from] # p /\ r.to # to
        BY <1>1, <1>2, <3>1, Kinds
      <3>3. \A q \in People : k.id[q] = r.to <=> q = k.had[r.from]
        BY <1>1, <1>4, <3>1, <3>2
      <3>4. r.at < k.now /\ r.at # now
        BY <1>1, <1>5, <3>1 DEF Times
      <3>5. \A q \in k.removed : q.at = r.at => q = r
        BY <1>6, <3>1, <3>4
      <3> QED
        BY <1>1, <3>1, <3>3, <3>4, <3>5
    <2>2. /\ new.from \in Names /\ new.to \in RetiredIds /\ new.at \in Times /\ new.at < k.now
          /\ k.had[new.from] \in People
          /\ \A q \in People : k.id[q] = new.to <=> q = k.had[new.from]
          /\ \A i \in Names : k.had[i] = k.had[new.from] => i = new.from
      BY <1>2, <1>3, <1>4, <1>5, <1>6
    <2>3. \A t \in DOMAIN k.owner : t \in Nat /\ t <= new.at /\ k.owner[t] \in Owners(k)
      BY <1>1, <1>5, <1>6 DEF UsageInv, ClockInv, Past, Removals, Owners
    <2>6. \A t \in DOMAIN k.owner : k.owner[t] # old
      <3> SUFFICES ASSUME NEW t \in DOMAIN h.owner, h.owner[t] = old PROVE FALSE
        BY <1>1
      <3>1. old \in IdsOf(h, old) /\ old \in Owners(h) /\ h.id[h.had[old]] \in Names
        BY <1>1, <1>2 DEF IdsOf, Past, Removals
      <3> QED
        BY <1>1, <1>2, <3>1, OwnedName, Kinds
    <2>4. \A q \in k.removed : q.at = new.at => q = new
      <3>1. \A q \in h.removed : q.at # now
        BY <1>1, <1>5, RemovedIs DEF Times
      <3> QED
        BY <1>6, <3>1
    <2> HIDE DEF Removals
    <2>5. \A r \in k.removed : r \in h.removed \/ r = new
      BY <1>6
    <2> QED
      BY <1>6, <2>1, <2>2, <2>3, <2>4, <2>5, <2>6 DEF Removals
  <1>10. Grows(h, k)
    <2>1. \A q \in People : h.id[q] \in RetiredIds => k.id[q] = h.id[q]
      BY <1>1, <1>2, <1>4, Kinds
    <2> QED
      BY <1>1, <1>6, <2>1 DEF Grows
  <1> QED
    BY <1>7, <1>8, <1>9, <1>10 DEF Past

\* A removal gives the intervals of the only name to what was removed; no alias stood for it.
LEMMA RetiredIs ==
    ASSUME NEW h, Explains(h), NEW p \in Named, NEW to,
           \A i \in Names : had[i] = p => i = id[p],
           NEW s, IsState(s), Follows(s, h)
    PROVE  LET z == Retired(s, id[p], to)
           IN  /\ z.decisions = s.decisions
               /\ z.retirements = s.retirements \cup {[from |-> id[p], to |-> to, at |-> now]}
               /\ z.timeline = [t \in DOMAIN s.timeline |->
                                  IF Resolve(s, s.timeline[t].subject) = id[p]
                                  THEN [s.timeline[t] EXCEPT !.subject = to] ELSE s.timeline[t]]
  <1> DEFINE line == [t \in DOMAIN s.timeline |->
                        IF Resolve(s, s.timeline[t].subject) = id[p]
                        THEN [s.timeline[t] EXCEPT !.subject = to] ELSE s.timeline[t]]
             rs == s.retirements \cup {[from |-> id[p], to |-> to, at |-> now]}
             moved == [s EXCEPT !.timeline = line,
                                !.retirements = @ \cup {[from |-> id[p], to |-> to, at |-> now]}]
             ids == {i \in Ids : Remaps(s)[i] # None}
  <1>1. Retired(s, id[p], to) = Released(moved, ids, id[p])
    BY DEF Retired
  <1>2. moved = [timeline |-> line, decisions |-> s.decisions, retirements |-> rs]
    <2> HIDE DEF line
    <2>1. PICK y : y = [s EXCEPT !.timeline = line]
      OBVIOUS
    <2>2. y = [timeline |-> line, decisions |-> s.decisions, retirements |-> s.retirements]
      BY <2>1 DEF IsState
    <2>3. moved = [y EXCEPT !.retirements = rs]
      BY <2>1, <2>2
    <2> HIDE DEF rs, moved
    <2> QED
      BY <2>2, <2>3
  <1>3. /\ id[p] \in Names /\ id[p] \in Ids /\ h.had[id[p]] = p /\ h.had = had /\ Past(h)
        /\ Remaps(s)[id[p]] = None /\ id[p] # None
    BY NamesEnd, Kinds DEF Explains
  <1>4. \A i \in ids : Resolve(s, i) # id[p]
    <2> SUFFICES ASSUME NEW i \in Ids, Remaps(s)[i] # None, Resolve(s, i) = id[p] PROVE FALSE
      OBVIOUS
    <2>1. i \in Names /\ h.had[i] = p
      BY <1>3, ResolveTheirs
    <2> QED
      BY <1>3, <2>1
  <1>5. Remaps(moved) = Remaps(s)
    <2> HIDE DEF line, rs, moved
    <2>1. moved.decisions = s.decisions
      BY <1>2
    <2> QED
      BY <2>1 DEF Remaps
  <1>6. \A i : Resolve(moved, i) = Resolve(s, i)
    <2> HIDE DEF moved
    <2> QED
      BY <1>5 DEF Resolve
  <1> HIDE DEF moved
  <1>7. Released(moved, ids, id[p]) = moved
    <2>1. ids \in SUBSET Ids
      OBVIOUS
    <2>2. \A i \in ids : id[p] # None /\ id[p] # Resolve(moved, i)
      BY <1>3, <1>4, <1>6
    <2> HIDE DEF ids
    <2> QED
      BY <2>1, <2>2, NothingReleased
  <1> HIDE DEF line, rs, ids
  <1>8. moved.timeline = line /\ moved.decisions = s.decisions /\ moved.retirements = rs
    BY <1>2
  <1> QED
    BY <1>1, <1>7, <1>8 DEF line, rs

LEMMA ExplainedRetire ==
    ASSUME Once, UsageInv, NEW h, Explains(h), NEW w \in Windows, NEW p \in People, Retire(w, p)
    PROVE  \E k : Explains(k)'
  <1>1. PICK to : to = CHOOSE i \in {i \in RetiredIds : \A q \in People : id[q] # i} : TRUE
    OBVIOUS
  <1>2. /\ to \in RetiredIds /\ \A q \in People : id[q] # to
        /\ Persist(w, Retired(mem[w], Resolve(mem[w], id[p]), to))
        /\ id' = [id EXCEPT ![p] = to] /\ Later /\ owner' = owner /\ had' = had
        /\ p \in Named /\ Cardinality({n \in Names : had[n] = p}) = 1
    BY <1>1 DEF Retire, Once
  <1>3. IsState(mem[w]) /\ Fits(mem[w], h) /\ Follows(mem[w], h)
        /\ Sound(mem[w], now, DOMAIN owner)
    BY MemState
  <1>4. Resolve(mem[w], id[p]) = id[p]
    BY <1>2, <1>3, NamesEnd
  <1>5. \A i \in Names : had[i] = p => i = id[p]
    <2> DEFINE S == {n \in Names : had[n] = p}
    <2>1. IsFiniteSet(S)
      BY TimelineAssumption, FS_Subset
    <2>2. PICK x : S = {x}
      BY <1>2, <2>1, FS_Singleton
    <2>3. id[p] \in S
      BY <1>2, NamesEnd DEF Explains
    <2> QED
      BY <2>2, <2>3
  <1>6. LET z == Retired(mem[w], id[p], to)
        IN  /\ z.decisions = mem[w].decisions
            /\ z.retirements = mem[w].retirements
                                  \cup {[from |-> id[p], to |-> to, at |-> now]}
            /\ z.timeline = [t \in DOMAIN mem[w].timeline |->
                               IF Resolve(mem[w], mem[w].timeline[t].subject) = id[p]
                               THEN [mem[w].timeline[t] EXCEPT !.subject = to]
                               ELSE mem[w].timeline[t]]
    <2>1. p \in Named /\ IsState(mem[w]) /\ Follows(mem[w], h)
      BY <1>2, <1>3
    <2> QED
      BY <1>5, <2>1, RetiredIs
  <1>7. Persist(w, Retired(mem[w], id[p], to))
    BY <1>2, <1>4
  <1> PICK s, z, old : s = mem[w] /\ z = Retired(s, id[p], to) /\ old = id[p]
    OBVIOUS
  <1> PICK new : new = [from |-> old, to |-> to, at |-> now]
    OBVIOUS
  <1> PICK k : k = [renamed |-> h.renamed, removed |-> h.removed \cup {new},
                    id |-> id', had |-> had', owner |-> owner, now |-> now']
    OBVIOUS
  <1>8. /\ k.renamed = h.renamed /\ k.removed = h.removed \cup {new}
        /\ k.id = id' /\ k.had = had' /\ k.owner = owner /\ k.now = now'
        /\ new.from = old /\ new.to = to /\ h.had = had /\ h.owner = owner
    BY DEF Explains
  <1>9. Past(k) /\ Grows(h, k)
    BY <1>2, <1>8, RetiredPast
  <1>10. Fits(s, k)
    BY <1>9, StoredFits
  <1>11. /\ z.decisions = s.decisions /\ z.retirements = s.retirements \cup {new}
         /\ z.timeline = [t \in DOMAIN s.timeline |->
                            IF Resolve(s, s.timeline[t].subject) = old
                            THEN [s.timeline[t] EXCEPT !.subject = to] ELSE s.timeline[t]]
    BY <1>6
  <1>12. old \in Names /\ old \in Ids /\ h.had[old] = p /\ h.renamed[old] = None
         /\ Resolve(s, old) = old
    BY <1>2, <1>3, NamesEnd
  <1>13. Follows(z, k) /\ z.retirements \subseteq k.removed
    BY <1>8, <1>10, <1>11, <1>3 DEF Fits, Follows
  <1>14. k.id[p] = to
    BY <1>2, <1>8 DEF Explains, Past, Entries
  <1>15. ASSUME NEW t \in DOMAIN s.timeline
         PROVE  \/ z.timeline[t] = s.timeline[t] /\ s.timeline[t].subject # old
                \/ /\ z.timeline[t].subject = to /\ z.timeline[t].until = s.timeline[t].until
                   /\ s.timeline[t].subject \in Names /\ h.had[s.timeline[t].subject] = p
    <2>1. s.timeline[t] \in Intervals /\ s.timeline[t].subject \in Ids \cup {None}
      BY <1>3, SubjectType DEF IsState
    <2>2. CASE Resolve(s, s.timeline[t].subject) = old
      <3>1. s.timeline[t].subject \in Names /\ h.had[s.timeline[t].subject] = p
        BY <1>3, <1>12, <2>1, <2>2, ResolveTheirs DEF Explains
      <3> QED
        BY <1>11, <2>1, <2>2, <3>1 DEF Intervals
    <2>3. CASE Resolve(s, s.timeline[t].subject) # old
      BY <1>11, <1>12, <2>3
    <2> QED
      BY <2>2, <2>3
  <1>16. Theirs(z, k)
    <2> SUFFICES ASSUME NEW t \in DOMAIN s.timeline
                 PROVE  /\ z.timeline[t].subject # None =>
                             /\ t \in DOMAIN k.owner /\ z.timeline[t].until \in Int
                             /\ t <= z.timeline[t].until
                        /\ t \in DOMAIN k.owner =>
                             z.timeline[t].subject \in IdsOf(k, k.owner[t])
      BY <1>11 DEF Theirs
    <2>1. CASE z.timeline[t] = s.timeline[t]
      BY <1>10, <2>1 DEF Fits, Theirs
    <2>2. CASE /\ z.timeline[t].subject = to /\ z.timeline[t].until = s.timeline[t].until
               /\ s.timeline[t].subject \in Names /\ h.had[s.timeline[t].subject] = p
      <3>1. /\ t \in DOMAIN h.owner /\ s.timeline[t].until \in Int /\ t <= s.timeline[t].until
            /\ s.timeline[t].subject \in IdsOf(h, h.owner[t])
        BY <1>3, <2>2, Kinds DEF Fits, Theirs
      <3>2. h.owner[t] = p
        <4>1. h.owner[t] \in Owners(h) /\ Past(h) /\ h.id[p] \in Names
          BY <1>12, <3>1 DEF Explains, Past, Removals
        <4> QED
          BY <2>2, <3>1, <4>1, OwnedName
      <3>3. to \in IdsOf(k, p)
        BY <1>2, <1>14, Kinds DEF IdsOf, Named
      <3> QED
        BY <1>8, <2>2, <3>1, <3>2, <3>3
    <2> QED
      BY <1>15, <2>1, <2>2
  <1>17. DOMAIN z.timeline = DOMAIN s.timeline
    BY <1>11
  <1>18. Marked(z)
    <2> SUFFICES ASSUME NEW t \in DOMAIN s.timeline, z.timeline[t].subject \in RetiredIds
                 PROVE  \E r \in z.retirements : r.to = z.timeline[t].subject
      BY <1>17 DEF Marked
    <2>1. CASE z.timeline[t] = s.timeline[t]
      <3>1. Marked(s)
        BY <1>3 DEF Fits
      <3>2. \E r \in s.retirements : r.to = s.timeline[t].subject
        BY <2>1, <3>1 DEF Marked
      <3> QED
        BY <1>11, <2>1, <3>2
    <2>2. CASE z.timeline[t].subject = to
      BY <1>8, <1>11, <2>2
    <2> QED
      BY <1>15, <2>1, <2>2
  <1>19. ASSUME NEW r \in z.retirements PROVE Swept(z, r)
    <2>1. r.from \in Names
      <3>1. \A q \in s.retirements : q \in h.removed
        BY <1>3 DEF Fits
      <3> QED
        BY <1>8, <1>11, <1>12, <3>1, RemovedIs DEF Explains
    <2>2. CASE r = new
      BY <1>2, <1>8, <1>12, <1>15, <1>17, <2>2, Kinds DEF Swept
    <2>3. CASE r \in s.retirements
      <3>1. Swept(s, r)
        BY <1>3, <2>3 DEF Fits
      <3> QED
        BY <1>2, <1>15, <1>17, <2>1, <3>1, Kinds DEF Swept
    <2> QED
      BY <1>11, <2>2, <2>3
  <1>20. Fits(z, k)
    BY <1>13, <1>16, <1>18, <1>19 DEF Fits
  <1>21. News(s) \subseteq News(z)
    BY <1>11, MoreNews
  <1>22. Events(k) \subseteq Events(h) \cup News(z)
    BY <1>8, <1>11 DEF Events, News
  <1>23. Persist(w, z)
    BY <1>7
  <1>24. Explains(k)'
    BY <1>2, <1>8, <1>9, <1>20, <1>21, <1>22, <1>23, ExplainedPersist
  <1> QED
    BY <1>24

LEMMA LocalFits ==
    ASSUME NEW h, Explains(h), NEW w \in Windows, NEW i \in Persists, job[w][i].pc = "wait"
    PROVE  Fits(Local(w, i), h)
  BY DEF Explains, JobFits, Local

LEMMA ExplainedAcquire ==
    ASSUME UsageInv, NEW h, Explains(h), NEW w \in Windows, NEW i \in Persists, Acquire(w, i)
    PROVE  Explains(h)'
  <1> PICK m : m = Merge(store, Local(w, i))
    OBVIOUS
  <1>1. /\ job[w][i].pc = "wait" /\ lock = None
        /\ UNCHANGED <<mem, store, now, id, had, owner>>
        /\ job'[w][i].pc = "write" /\ job'[w][i].merged = m
    BY AcquireIs DEF entries
  <1>2. \A v \in Windows, k \in Persists : v # w \/ k # i => job'[v][k] = job[v][k]
    BY AcquireIs
  <1>3. Fits(m, h) /\ News(store) \subseteq News(m) /\ News(Local(w, i)) \subseteq News(m)
    <2>1. IsState(store) /\ IsState(Local(w, i))
      BY <1>1, LocalSound DEF UsageInv, Sound
    <2>2. Past(h) /\ Fits(store, h) /\ Fits(Local(w, i), h)
      BY <1>1, LocalFits DEF Explains
    <2> QED
      BY <2>1, <2>2, MergeFits
  <1>4. ASSUME NEW v \in Windows, NEW k \in Persists PROVE JobFits(v, k, h)'
    <2>1. CASE v = w /\ k = i
      BY <1>1, <1>3, <2>1 DEF JobFits
    <2>2. CASE ~(v = w /\ k = i)
      BY <1>1, <1>2, <2>2 DEF Explains, JobFits
    <2> QED
      BY <2>1, <2>2
  <1>5. Told(h)'
    <2> SUFFICES ASSUME NEW x \in Events(h), x \notin News(store)
                 PROVE  \E v \in Windows, k \in Persists : Tells(v, k, x)'
      BY <1>1 DEF Told
    <2>1. PICK v \in Windows, k \in Persists : Tells(v, k, x)
      BY DEF Explains, Told
    <2>2. CASE v = w /\ k = i
      <3>1. Tells(w, i, x)'
        BY <1>1, <1>3, <2>1, <2>2 DEF Tells
      <3> QED
        BY <3>1
    <2>3. CASE ~(v = w /\ k = i)
      <3>1. Tells(v, k, x)'
        BY <1>1, <1>2, <2>1, <2>3 DEF Tells, Local
      <3> QED
        BY <3>1
    <2> QED
      BY <2>2, <2>3
  <1> QED
    BY <1>1, <1>4, <1>5 DEF Explains

LEMMA ExplainedWrite ==
    ASSUME UsageInv, NEW h, Explains(h), NEW w \in Windows, NEW i \in Persists, Write(w, i)
    PROVE  Explains(h)' /\ News(store) \subseteq News(store')
  <1>1. /\ job[w][i].pc = "write" /\ store' = job[w][i].merged /\ lock = <<w, i>>
        /\ UNCHANGED <<mem, now, id, had, owner>>
        /\ job'[w][i].pc = "adopt" /\ job'[w][i].merged = store'
    BY WriteIs DEF entries
  <1>2. \A v \in Windows, k \in Persists : v # w \/ k # i => job'[v][k] = job[v][k]
    BY WriteIs
  <1>3. Fits(store', h) /\ News(store) \subseteq News(store')
    BY <1>1 DEF Explains, JobFits
  <1>4. ASSUME NEW v \in Windows, NEW k \in Persists PROVE JobFits(v, k, h)'
    <2>1. CASE v = w /\ k = i
      BY <1>1, <1>3, <2>1 DEF JobFits
    <2>2. CASE ~(v = w /\ k = i)
      <3>1. job'[v][k] = job[v][k] /\ job[v][k].pc \notin {"write", "adopt"}
        BY <1>1, <1>2, <2>2 DEF UsageInv, JobInv
      <3> QED
        BY <1>1, <3>1 DEF Explains, JobFits
    <2> QED
      BY <2>1, <2>2
  <1>5. Told(h)'
    <2> SUFFICES ASSUME NEW x \in Events(h), x \notin News(store')
                 PROVE  \E v \in Windows, k \in Persists : Tells(v, k, x)'
      BY DEF Told
    <2>1. PICK v \in Windows, k \in Persists : Tells(v, k, x)
      BY <1>3 DEF Explains, Told
    <2>2. ~(v = w /\ k = i)
      BY <1>1, <2>1 DEF Tells
    <2>3. Tells(v, k, x)'
      BY <1>1, <1>2, <2>1, <2>2 DEF Tells, Local
    <2> QED
      BY <2>3
  <1> QED
    BY <1>1, <1>3, <1>4, <1>5 DEF Explains

LEMMA ExplainedAdopt ==
    ASSUME UsageInv, NEW h, Explains(h), NEW w \in Windows, NEW i \in Persists, Adopt(w, i)
    PROVE  Explains(h)'
  <1> PICK m : m = job[w][i].merged
    OBVIOUS
  <1>1. /\ job[w][i].pc = "adopt" /\ lock = <<w, i>> /\ job'[w][i] = NoJob
        /\ UNCHANGED <<store, now, id, had, owner>>
    BY AdoptIs DEF entries
  <1>2. mem'[w] = m /\ \A v \in Windows : v # w => mem'[v] = mem[v]
    BY AdoptIs
  <1>3. \A v \in Windows, k \in Persists :
           v # w \/ (k # i /\ job[w][k].pc # "wait") => job'[v][k] = job[v][k]
    BY AdoptIs
  <1>4. \A k \in Persists : k # i /\ job[w][k].pc = "wait" =>
           /\ job'[w][k].pc = "wait" /\ Head(job'[w][k].local) = Local(w, k)
           /\ Local(w, k)' = Local(w, k)
    <2> SUFFICES ASSUME NEW k \in Persists, k # i, job[w][k].pc = "wait"
                 PROVE  /\ job'[w][k].pc = "wait" /\ Head(job'[w][k].local) = Local(w, k)
                        /\ Local(w, k)' = Local(w, k)
      OBVIOUS
    <2>1. PICK l : l = Local(w, k)
      OBVIOUS
    <2>2. job'[w][k].pc = "wait" /\ job'[w][k].local = <<l>>
      BY <2>1, AdoptIs
    <2>3. Head(job'[w][k].local) = l /\ job'[w][k].local # <<>>
      BY <2>2
    <2> QED
      BY <2>1, <2>2, <2>3 DEF Local
  <1>5. Fits(m, h) /\ News(m) \subseteq News(store)
    BY <1>1 DEF Explains, JobFits
  <1>6. ASSUME NEW v \in Windows, NEW k \in Persists PROVE JobFits(v, k, h)'
    <2>1. CASE v = w /\ k = i
      BY <1>1, <2>1 DEF JobFits, NoJob
    <2>2. CASE v = w /\ k # i /\ job[w][k].pc = "wait"
      BY <1>4, <2>2, LocalFits DEF JobFits
    <2>3. CASE v # w \/ (k # i /\ job[w][k].pc # "wait")
      <3>1. job'[v][k] = job[v][k]
        BY <1>3, <2>3
      <3> QED
        BY <1>1, <3>1 DEF Explains, JobFits
    <2> QED
      BY <2>1, <2>2, <2>3
  <1>7. Told(h)'
    <2> SUFFICES ASSUME NEW x \in Events(h), x \notin News(store)
                 PROVE  \E v \in Windows, k \in Persists : Tells(v, k, x)'
      BY <1>1 DEF Told
    <2>1. PICK v \in Windows, k \in Persists : Tells(v, k, x)
      BY DEF Explains, Told
    <2>2. ~(v = w /\ k = i)
      BY <1>1, <1>5, <2>1 DEF Tells
    <2>3. CASE v = w /\ job[w][k].pc = "wait"
      <3>1. Tells(w, k, x)'
        BY <1>4, <2>1, <2>2, <2>3 DEF Tells
      <3> QED
        BY <2>3, <3>1
    <2>4. CASE v # w \/ job[w][k].pc # "wait"
      <3>1. job'[v][k] = job[v][k] /\ (v # w => mem'[v] = mem[v])
        BY <1>2, <1>3, <2>2, <2>4
      <3>2. Tells(v, k, x)'
        BY <2>1, <2>4, <3>1 DEF Tells, Local
      <3> QED
        BY <3>2
    <2> QED
      BY <2>3, <2>4
  <1>8. \A v \in Windows : Fits(mem'[v], h)
    BY <1>2, <1>5 DEF Explains
  <1> QED
    BY <1>1, <1>6, <1>7, <1>8 DEF Explains

Explained == \E h : Explains(h)

\* A recording that extends an interval extends one that was begun for the same entry.
Extensions ==
    \A t \in DOMAIN extended :
       LET since == extended[t].since
       IN  /\ t \in Times /\ since \in DOMAIN owner /\ since <= t
           /\ owner[since] \in Names => had[owner[since]] \in People
           /\ EntryOf(owner[since]) = extended[t].for

LEMMA ExtensionsStay ==
    ASSUME Extensions, UNCHANGED extended,
           \A t \in DOMAIN owner : t \in DOMAIN owner' /\ owner'[t] = owner[t],
           \A n \in Names : had[n] \in People => had'[n] = had[n]
    PROVE  Extensions'
  BY DEF Extensions, EntryOf

LEMMA RecordedSince ==
    ASSUME Once, UsageInv, Explained, NEW w \in Windows, NEW n \in Readable(w),
           Extends(mem[w], Resolve(mem[w], n))
    PROVE  LET since == Max(DOMAIN mem[w].timeline)
           IN  /\ now \in Times /\ since \in DOMAIN owner /\ since <= now
               /\ owner[since] \in Names => had[owner[since]] \in People
               /\ EntryOf(owner[since]) = had[n] /\ Remember(w, mem[w], n) = mem[w]
  <1> PICK h : Explains(h)
    BY DEF Explained
  <1> PICK s, i, since : s = mem[w] /\ i = Resolve(s, n) /\ since = Max(DOMAIN s.timeline)
    OBVIOUS
  <1>1. /\ Remember(w, s, n) = s /\ i \in Names /\ had[i] = had[n] /\ had[n] \in People
    BY RecordedOwner
  <1>2. /\ s.timeline # NoIntervals /\ s.timeline[since].subject = i
    BY DEF Extends
  <1>3. /\ IsState(s) /\ Fits(s, h) /\ Past(h) /\ h.owner = owner /\ h.had = had
        /\ \A t \in DOMAIN s.timeline : t \in Nat /\ t < now
    BY MemState DEF Sound, Explains
  <1>4. now \in Times /\ now \in Nat
    BY DEF UsageInv, ClockInv, Times
  <1>5. DOMAIN s.timeline # {}
    <2> SUFFICES ASSUME DOMAIN s.timeline = {} PROVE s.timeline = NoIntervals
      BY <1>2
    <2>1. s.timeline = [t \in DOMAIN s.timeline |-> s.timeline[t]]
      BY <1>3 DEF IsState
    <2> QED
      BY <2>1 DEF NoIntervals
  <1>6. since \in DOMAIN s.timeline
    <2> DEFINE D == DOMAIN s.timeline
    <2>1. D \in SUBSET Nat /\ D # {} /\ \A t \in D : t <= now
      BY <1>3, <1>4, <1>5
    <2> HIDE DEF D
    <2>2. Max(D) \in D
      BY <1>4, <2>1, MaxOf
    <2> QED
      BY <2>2 DEF D
  <1>7. since \in DOMAIN owner /\ i \in IdsOf(h, owner[since])
    BY <1>1, <1>2, <1>3, <1>6, Kinds DEF Fits, Theirs
  <1>8. EntryOf(owner[since]) = had[n] /\ (owner[since] \in Names => had[owner[since]] \in People)
    BY <1>1, <1>3, <1>7, Kinds DEF EntryOf, IdsOf
  <1> QED
    BY <1>1, <1>3, <1>4, <1>6, <1>7, <1>8

LEMMA ExtensionsStep ==
    ASSUME Once, UsageInv, Explained, Extensions, [Next]_vars PROVE Extensions'
  <1>1. \A time, p : time \notin DOMAIN owner =>
           \A t \in DOMAIN owner : t \in DOMAIN Put(owner, time, p) /\ Put(owner, time, p)[t] = owner[t]
    BY DEF Put
  <1>2. now \notin DOMAIN owner
    BY DEF UsageInv, ClockInv
  <1>3. ASSUME NEW n \in Names, Free(n), NEW p, had' = [had EXCEPT ![n] = p]
        PROVE  \A m \in Names : had[m] \in People => had'[m] = had[m]
    <2>1. had[n] \notin People
      BY <1>3, Kinds DEF Free, Once
    <2>2. had = [m \in Names |-> had[m]]
      BY DEF Explained, Explains, Past, Links
    <2> QED
      BY <1>3, <2>1, <2>2
  <1>4. ASSUME NEW p \in People, Add(p) PROVE Extensions'
    BY <1>3, <1>4, ExtensionsStay DEF Add
  <1>5. ASSUME NEW w \in Windows, NEW p \in People, Rename(w, p) PROVE Extensions'
    BY <1>3, <1>5, ExtensionsStay DEF Rename
  <1>6. ASSUME NEW w \in Windows, NEW p \in People, Retire(w, p) PROVE Extensions'
    BY <1>6, ExtensionsStay DEF Retire
  <1>7. ASSUME NEW w \in Windows, Restart(w) PROVE Extensions'
    BY <1>7, ExtensionsStay DEF Restart
  <1>8. ASSUME NEW w \in Windows, NEW i \in Persists, Acquire(w, i) \/ Write(w, i) \/ Adopt(w, i)
        PROVE  Extensions'
    BY <1>8, ExtensionsStay DEF Acquire, Write, Adopt, entries
  <1>9. CASE UNCHANGED vars
    BY <1>9, ExtensionsStay DEF vars, entries
  <1>10. ASSUME NEW w \in Windows, Record(w) PROVE Extensions'
    <2>1. PICK n \in Readable(w) \cup {None} :
           LET s == IF n = None THEN mem[w] ELSE Remember(w, mem[w], n)
               subject == Resolve(s, n)
           IN  /\ IF n = None THEN UNCHANGED <<owner, extended>>
                  ELSE IF Extends(s, subject)
                  THEN /\ extended' = Put(extended, now,
                                          [for |-> had[n], since |-> Max(DOMAIN s.timeline)])
                       /\ UNCHANGED owner
                  ELSE owner' = Put(owner, now, RecordedFor(n)) /\ UNCHANGED extended
               /\ had' = had
      BY <1>10 DEF Record
    <2>2. CASE n = None
      BY <2>1, <2>2, ExtensionsStay
    <2>3. CASE n # None
      <3>1. n \in Readable(w) /\ Remember(w, mem[w], n) = mem[w]
        BY <2>3, RecordedOwner DEF Explained
      <3>2. CASE ~Extends(mem[w], Resolve(mem[w], n))
        <4>1. owner' = Put(owner, now, RecordedFor(n)) /\ UNCHANGED extended /\ had' = had
          BY <2>1, <2>3, <3>1, <3>2
        <4> QED
          BY <1>1, <1>2, <4>1, ExtensionsStay
      <3>3. CASE Extends(mem[w], Resolve(mem[w], n))
        <4> PICK since : since = Max(DOMAIN mem[w].timeline)
          OBVIOUS
        <4>1. /\ extended' = Put(extended, now, [for |-> had[n], since |-> since])
              /\ owner' = owner /\ had' = had
          BY <2>1, <2>3, <3>1, <3>3
        <4>2. /\ now \in Times /\ since \in DOMAIN owner /\ since <= now
              /\ owner[since] \in Names => had[owner[since]] \in People
              /\ EntryOf(owner[since]) = had[n]
          BY <3>1, <3>3, RecordedSince
        <4>3. DOMAIN extended' = DOMAIN extended \cup {now}
              /\ extended'[now].since = since /\ extended'[now].for = had[n]
              /\ \A t \in DOMAIN extended : t # now => extended'[t] = extended[t]
          BY <4>1 DEF Put
        <4> QED
          BY <4>1, <4>2, <4>3 DEF Extensions, EntryOf
      <3> QED
        BY <3>2, <3>3
    <2> QED
      BY <2>2, <2>3
  <1> QED
    BY <1>4, <1>5, <1>6, <1>7, <1>8, <1>9, <1>10 DEF Next

LEMMA ExplainedStep == ASSUME Once, UsageInv, Explained, [Next]_vars PROVE Explained'
  <1> PICK h : Explains(h)
    BY DEF Explained
  <1> SUFFICES \E k : Explains(k)'
    BY DEF Explained
  <1>1. ASSUME NEW p \in People, Add(p) PROVE \E k : Explains(k)'
    BY <1>1, ExplainedAdd
  <1>2. ASSUME NEW w \in Windows, Record(w) PROVE \E k : Explains(k)'
    BY <1>2, ExplainedRecord
  <1>3. ASSUME NEW w \in Windows, Restart(w) PROVE \E k : Explains(k)'
    BY <1>3, ExplainedRestart
  <1>4. ASSUME NEW w \in Windows, NEW p \in People, Rename(w, p) PROVE \E k : Explains(k)'
    BY <1>4, ExplainedRename
  <1>5. ASSUME NEW w \in Windows, NEW p \in People, Retire(w, p) PROVE \E k : Explains(k)'
    BY <1>5, ExplainedRetire
  <1>6. ASSUME NEW w \in Windows, NEW i \in Persists, Acquire(w, i) PROVE \E k : Explains(k)'
    BY <1>6, ExplainedAcquire
  <1>7. ASSUME NEW w \in Windows, NEW i \in Persists, Write(w, i) PROVE \E k : Explains(k)'
    BY <1>7, ExplainedWrite
  <1>8. ASSUME NEW w \in Windows, NEW i \in Persists, Adopt(w, i) PROVE \E k : Explains(k)'
    BY <1>8, ExplainedAdopt
  <1>9. CASE UNCHANGED vars
    <2>1. UNCHANGED <<mem, job, lock, store, now, id, had, owner>>
      BY <1>9 DEF vars, entries
    <2>2. Explains(h)'
      <3>1. \A w \in Windows, i \in Persists : JobFits(w, i, h)'
        BY <2>1 DEF Explains, JobFits
      <3>2. Told(h)'
        <4>1. ASSUME NEW w, NEW i, NEW x, Tells(w, i, x) PROVE Tells(w, i, x)'
          BY <2>1, <4>1 DEF Tells, Local
        <4> QED
          BY <2>1, <4>1 DEF Explains, Told
      <3> QED
        BY <2>1, <3>1, <3>2 DEF Explains
    <2> QED
      BY <2>2
  <1> QED
    BY <1>1, <1>2, <1>3, <1>4, <1>5, <1>6, <1>7, <1>8, <1>9 DEF Next

LEMMA ExplainedInvariant == ASSUME Once PROVE Spec => [](UsageInv /\ Explained /\ Extensions)
  <1>1. Init => UsageInv /\ Explained /\ Extensions
    <2>1. Init => Extensions
      BY DEF Init, NoIntervals, Extensions
    <2> QED
      BY <2>1, UsageInit, ExplainedInit DEF Explained
  <1>2. UsageInv /\ Explained /\ Extensions /\ [Next]_vars => (UsageInv /\ Explained /\ Extensions)'
    BY UsageStep, ExplainedStep, ExtensionsStep
  <1> QED
    BY <1>1, <1>2, PTL DEF Spec

-----------------------------------------------------------------------------

\* Once nothing is under way, the store knows what became of every entry, and gives it what
\* was recorded for it.
LEMMA StoreSettled ==
    ASSUME UsageInv, NEW h, Explains(h), Waiting = {}, NEW t \in DOMAIN owner
    PROVE  /\ t \in DOMAIN store.timeline /\ store.timeline[t].subject # None
           /\ Resolve(store, store.timeline[t].subject) = Whose(owner[t])
  <1> PICK x, p : x = store.timeline[t].subject /\ p = owner[t]
    OBVIOUS
  <1>1. \A w \in Windows, i \in Persists : job[w][i].pc = "idle"
    <2> SUFFICES ASSUME NEW w \in Windows, NEW i \in Persists, job[w][i].pc # "idle" PROVE FALSE
      OBVIOUS
    <2>1. <<w, i>> \in Waiting
      BY DEF Waiting, Jobs
    <2> QED
      BY <2>1
  <1>2. t \in DOMAIN store.timeline
    BY <1>1 DEF UsageInv, Kept, Holds
  <1>3. /\ h.id = id /\ h.had = had /\ h.owner = owner /\ Past(h) /\ IsState(store)
        /\ Fits(store, h) /\ Follows(store, h) /\ Links(h)
    BY DEF Explains, Fits, Past, UsageInv, Sound
  <1>4. /\ x \in Ids \cup {None} /\ x # None /\ p \in Owners(h) /\ x \in IdsOf(h, p)
    BY <1>2, <1>3, SubjectType DEF UsageInv, Sound, Fits, Theirs, Past, Removals
  <1>5. Events(h) \subseteq News(store)
    BY <1>1 DEF Explains, Told, Tells
  <1>8. CASE p \notin People
    <2>1. PICK r \in h.removed : p = r.from
      BY <1>4, <1>8 DEF Owners
    <2>2. p \in Names /\ p \in Ids /\ x = p
      BY <1>3, <1>4, <2>1, OnlyName, Kinds DEF IdsOf
    <2>3. Resolve(store, p) = p
      BY <1>3, <2>1, <2>2, OnlyItself
    <2> QED
      BY <1>2, <1>4, <2>2, <2>3 DEF Whose
  <1>9. p \in People => Whose(p) = id[p]
    BY Kinds DEF Whose
  <1>6. CASE p \in People /\ id[p] \in RetiredIds
    <2>1. PICK r \in h.removed : r.to = id[p]
      BY <1>3, <1>4, <1>6 DEF Past, Entries
    <2>2. r \in store.retirements
      <3>1. <<"removed", r>> \in News(store)
        BY <1>5 DEF Events
      <3> QED
        BY <3>1, NewsIs
    <2>3. x = id[p]
      BY <1>2, <1>3, <1>6, <2>1, <2>2, Settled
    <2>4. Resolve(store, id[p]) = id[p]
      BY <1>3, <1>6, NotRenamed, Ends
    <2> QED
      BY <1>2, <1>4, <1>6, <1>9, <2>3, <2>4
  <1>7. CASE p \in People /\ id[p] \notin RetiredIds
    <2> PICK e : e = Resolve(store, x)
      OBVIOUS
    <2>1. x \in Names /\ h.had[x] = p
      BY <1>3, <1>4, <1>7, Kinds DEF IdsOf
    <2>2. e \in Names /\ e \in Ids /\ h.had[e] = p /\ Remaps(store)[e] = None
      BY <1>3, <2>1, SameEntry, Kinds
    <2>3. h.renamed[e] = None
      <3> SUFFICES ASSUME h.renamed[e] # None PROVE FALSE
        OBVIOUS
      <3>1. <<"renamed", e>> \in News(store)
        BY <1>5, <2>2 DEF Events
      <3>2. store.decisions[e] # None
        BY <3>1, NewsIs
      <3>3. store.decisions[e] = h.renamed[e] /\ h.renamed[e].to \in Names
        BY <1>3, <2>2, <3>2 DEF Follows, Links
      <3> QED
        BY <2>2, <3>2, <3>3, Kinds DEF Remaps
    <2>4. h.id[p] = e
      BY <1>3, <1>4, <1>7, <2>2, <2>3, Kinds DEF Past, Entries
    <2> QED
      BY <1>2, <1>3, <1>4, <1>7, <1>9, <2>4
  <1> QED
    BY <1>6, <1>7, <1>8

LEMMA BegunAttributed ==
    ASSUME UsageInv, Explained, Waiting = {}, NEW t \in DOMAIN owner
    PROVE  /\ SubjectAt(store, t) = Whose(owner[t])
           /\ \A time \in Times :
                 t <= time /\ (\A u \in DOMAIN owner : u \in t..time => u = t)
                 => SubjectAt(store, time) \in {None, Whose(owner[t])}
  <1> PICK h : Explains(h)
    BY DEF Explained
  <1>1. /\ t \in DOMAIN store.timeline /\ store.timeline[t].subject # None
        /\ Resolve(store, store.timeline[t].subject) = Whose(owner[t])
    BY StoreSettled
  <1>2. /\ \A u \in DOMAIN store.timeline : u \in Nat /\ store.timeline[u] \in Intervals
        /\ \A u \in DOMAIN store.timeline : store.timeline[u].subject # None =>
              u \in DOMAIN owner /\ store.timeline[u].until \in Int /\ u <= store.timeline[u].until
    BY DEF UsageInv, Sound, IsState, Explains, Fits, Theirs
  <1>3. ASSUME NEW time \in Nat, t <= time, NEW last,
               last = Max({u \in DOMAIN store.timeline : u <= time})
        PROVE  /\ {u \in DOMAIN store.timeline : u <= time} # {}
               /\ last \in DOMAIN store.timeline /\ t <= last /\ last <= time
               /\ last \in Nat /\ t \in Nat
    <2> DEFINE begun == {u \in DOMAIN store.timeline : u <= time}
    <2>1. begun \in SUBSET Nat /\ t \in begun /\ \A u \in begun : u <= time
      BY <1>1, <1>2, <1>3
    <2> HIDE DEF begun
    <2>2. Max(begun) \in begun /\ t <= Max(begun)
      BY <2>1, MaxOf
    <2> QED
      BY <1>2, <1>3, <2>1, <2>2 DEF begun
  <1>4. SubjectAt(store, t) = Whose(owner[t])
    <2> DEFINE begun == {u \in DOMAIN store.timeline : u <= t}
    <2>1. t \in Nat /\ t <= t
      BY <1>1, <1>2
    <2>2. begun # {} /\ Max(begun) = t
      <3> PICK last : last = Max(begun)
        OBVIOUS
      <3>1. begun # {} /\ last \in Nat /\ t <= last /\ last <= t
        BY <1>3, <2>1
      <3> QED
        BY <2>1, <3>1
    <2>3. t <= store.timeline[t].until /\ store.timeline[t].until \in Int
      BY <1>1, <1>2
    <2>4. IntervalAt(store, t) = store.timeline[t]
      <3>1. IntervalAt(store, t) =
               IF begun = {} \/ /\ store.timeline[Max(begun)].subject # None
                                /\ t > store.timeline[Max(begun)].until
               THEN None ELSE store.timeline[Max(begun)]
        BY DEF IntervalAt
      <3> HIDE DEF begun
      <3>2. ~(t > store.timeline[t].until)
        BY <2>1, <2>3
      <3> QED
        BY <2>2, <3>1, <3>2
    <2>5. store.timeline[t] # None
      <3>1. store.timeline[t] \in [subject : Names \cup RetiredIds, until : Int]
        BY <1>1, <1>2, <2>3 DEF Intervals, Ids
      <3> QED
        BY <3>1, TimelineAssumption
    <2> QED
      BY <1>1, <2>4, <2>5 DEF SubjectAt
  <1>5. ASSUME NEW time \in Times, t <= time,
               \A u \in DOMAIN owner : u \in t..time => u = t
        PROVE  SubjectAt(store, time) \in {None, Whose(owner[t])}
    <2> PICK last : last = Max({u \in DOMAIN store.timeline : u <= time})
      OBVIOUS
    <2>1. time \in Nat
      BY DEF Times
    <2>2. /\ last \in DOMAIN store.timeline /\ t <= last /\ last <= time
          /\ last \in Nat /\ t \in Nat
      BY <1>3, <1>5, <2>1
    <2>3. IntervalAt(store, time) \in {None, store.timeline[last]}
      BY DEF IntervalAt
    <2>4. CASE store.timeline[last].subject = None
      BY <2>3, <2>4 DEF SubjectAt
    <2>5. CASE store.timeline[last].subject # None
      <3>1. last = t
        <4>1. last \in DOMAIN owner
          BY <1>2, <2>2, <2>5
        <4>2. last \in t..time
          BY <2>1, <2>2
        <4> QED
          BY <1>5, <4>1, <4>2
      <3> QED
        BY <1>1, <2>3, <3>1 DEF SubjectAt
    <2> QED
      BY <2>4, <2>5
  <1> QED
    BY <1>4, <1>5

LEMMA UsageAttributedNow == ASSUME UsageInv, Explained, Extensions PROVE Attributed
  <1> SUFFICES ASSUME Waiting = {}
               PROVE  /\ \A t \in DOMAIN owner, time \in Times :
                            /\ SubjectAt(store, t) = Whose(owner[t])
                            /\ t <= time /\ (\A u \in DOMAIN owner : u \in t..time => u = t)
                                  => SubjectAt(store, time) \in {None, Whose(owner[t])}
                      /\ \A time \in DOMAIN extended :
                            LET since == extended[time].since
                            IN  /\ since \in DOMAIN owner
                                /\ EntryOf(owner[since]) = extended[time].for
                                /\ (\A u \in DOMAIN owner : u \in since..time => u = since)
                                      => SubjectAt(store, time) \in {None, Whose(owner[since])}
    BY DEF Attributed
  <1>1. \A t \in DOMAIN owner :
           /\ SubjectAt(store, t) = Whose(owner[t])
           /\ \A time \in Times :
                 t <= time /\ (\A u \in DOMAIN owner : u \in t..time => u = t)
                 => SubjectAt(store, time) \in {None, Whose(owner[t])}
    BY BegunAttributed
  <1>2. \A time \in DOMAIN extended :
           /\ time \in Times /\ extended[time].since \in DOMAIN owner
           /\ extended[time].since <= time
           /\ EntryOf(owner[extended[time].since]) = extended[time].for
    BY DEF Extensions
  <1> QED
    BY <1>1, <1>2

\* While no name is given again, no entry is both renamed and removed and no window records
\* a name it renamed itself, the store gives what was used when an interval was begun to the
\* entry it was begun for, whatever became of it, also when a window had not heard of that;
\* and a recording extends an interval of its own entry, to which, or to nobody, what was
\* used then is given unless another selection was recorded in between.
THEOREM UsageIsAttributed == ASSUME Once PROVE Spec => []Attributed
  BY ExplainedInvariant, UsageAttributedNow, PTL

\* Under the same conditions, what belongs to a removed entry stays its own, whatever
\* another window stores that has not heard of the removal.
THEOREM RemovedUsageStays == ASSUME Once PROVE Spec => RetiredStays
  <1> DEFINE Stays == \A t \in DOMAIN store.timeline :
                        store.timeline[t].subject \in RetiredIds =>
                           /\ t \in DOMAIN store'.timeline
                           /\ store'.timeline[t].subject = store.timeline[t].subject
  <1>1. ASSUME UsageInv, Explained, NEW w \in Windows, NEW i \in Persists, Write(w, i)
        PROVE  Stays
    <2> PICK h : Explains(h)
      BY <1>1 DEF Explained
    <2>1. Explains(h)' /\ News(store) \subseteq News(store')
      BY <1>1, ExplainedWrite
    <2> SUFFICES ASSUME NEW t \in DOMAIN store.timeline, store.timeline[t].subject \in RetiredIds
                 PROVE  /\ t \in DOMAIN store'.timeline
                        /\ store'.timeline[t].subject = store.timeline[t].subject
      OBVIOUS
    <2>2. /\ t \in DOMAIN owner /\ h.owner = owner /\ h.id = id
          /\ store.timeline[t].subject \in IdsOf(h, owner[t])
          /\ \E r \in store.retirements : r.to = store.timeline[t].subject
      BY Kinds DEF Explains, Fits, Theirs, Marked
    <2>9. owner[t] \in People
      <3>1. owner[t] \notin Names
        BY <2>2, Kinds DEF IdsOf
      <3>2. Past(h) /\ owner[t] \in Owners(h)
        BY <2>2 DEF Explains, Past, Removals
      <3> QED
        BY <3>1, <3>2, OnlyName DEF Owners
    <2>3. store.timeline[t].subject = id[owner[t]]
      BY <2>2, <2>9, Kinds DEF IdsOf
    <2>4. PICK r \in store.retirements : r.to = id[owner[t]]
      BY <2>2, <2>3
    <2>5. r \in store'.retirements
      BY <2>1, NewsIs
    <2>6. t \in DOMAIN store'.timeline
      <3>1. job[w][i].pc = "write" /\ store' = job[w][i].merged
        BY <1>1, WriteIs
      <3> QED
        BY <1>1, <2>2, <3>1 DEF UsageInv, JobInv, Covers
    <2>7. Past(h) /\ Fits(store', h)
      BY <2>1 DEF Explains
    <2>8. store'.timeline[t].subject = id[owner[t]]
      BY <2>2, <2>4, <2>5, <2>6, <2>7, <2>9, Settled
    <2> QED
      BY <2>3, <2>6, <2>8
  <1>2. ASSUME UsageInv, Explained, [Next]_vars PROVE [Stays]_store
    <2> SUFFICES ASSUME store' # store PROVE Stays
      OBVIOUS
    <2>1. \E w \in Windows, i \in Persists : Write(w, i)
      <3>1. ASSUME NEW p \in People, Add(p) PROVE FALSE
        BY <3>1 DEF Add
      <3>2. ASSUME NEW w \in Windows, Record(w) PROVE FALSE
        BY <3>2 DEF Record, Persist
      <3>3. ASSUME NEW w \in Windows, Restart(w) PROVE FALSE
        BY <3>3 DEF Restart
      <3>4. ASSUME NEW w \in Windows, NEW p \in People, Rename(w, p) \/ Retire(w, p) PROVE FALSE
        BY <3>4 DEF Rename, Retire, Persist
      <3>5. ASSUME NEW w \in Windows, NEW i \in Persists, Acquire(w, i) \/ Adopt(w, i)
            PROVE  FALSE
        BY <3>5 DEF Acquire, Adopt
      <3>6. ~UNCHANGED vars
        BY DEF vars
      <3> QED
        BY <1>2, <3>1, <3>2, <3>3, <3>4, <3>5, <3>6 DEF Next
    <2> QED
      BY <1>1, <1>2, <2>1
  <1>3. UsageInv /\ Explained /\ [Next]_vars => [Stays]_store
    BY <1>2
  <1> QED
    BY <1>3, ExplainedInvariant, PTL DEF Spec, RetiredStays
=============================================================================
